SPECIFICATION FairSpec
CONSTANTS
    main = main
    fun = fun
    handler = handler
    none = none
    pair = pair
    throw = throw
    handle = handle
    stall = stall
    napp = napp
    cwd = cwd
    chr = chr
    neg = neg
    date = date
    add = add
    set = set
    id = id
    eval = eval
    k = k
    get = get
    push = push
    print = print
    format = format
    nformat = nformat
    ret = ret
    exc = exc
    x = x
    y = y
    Builtins <- MCBuiltins
    Users = {main, fun, handler}
    Def <- MCDef
    Params = {x, y}
    None = none
    Nil = Nil
    Programs <- MCPrograms
    MaxHeap = 16
    Main = main
    Result = ret
    Exception = exc
INVARIANTS TypeOK ArgumentsComplete HandlersNest ResultIsMeaning
PROPERTIES CompleteStays Ends
CHECK_DEADLOCK FALSE

--------------------------- MODULE MCEgelTrampoline ---------------------------
(* Small instances of EgelTrampoline: every program of a few shapes.        *)
EXTENDS EgelTrampoline, EgelRedex, EgelMeaning

CONSTANTS
    \* combinators of Egel: the program, a function, a handler
    main, fun, handler,
    \* constructors and combinators of the machine
    none, pair, throw, handle, stall, napp, cwd, chr, neg, date, add, set,
    id, eval, k, get, push, print, format, nformat, ret, exc,
    \* variables
    x, y

MCBuiltins ==
    {none, pair, throw, handle, stall, napp, cwd, chr, neg, date, add, set,
     id, eval, k, get, push, print, format, nformat, ret, exc}

Data(n) == [kind |-> n]
Builtin(n, does) == [kind |-> n, does |-> does]

MCDef ==
    [c \in {pair, none} |-> Data("data")]
    @@ [c \in {ret, exc} |-> Data("result")]
    @@ (throw :> Data("throw")) @@ (handle :> Data("handle"))
    @@ (stall :> Data("stall")) @@ (napp :> Data("napp"))
    @@ (cwd :> Builtin("medadic", "raises"))
    @@ (chr :> Builtin("monadic", "gives"))
    @@ (neg :> Builtin("monadic", "raises"))
    @@ (date :> Builtin("monadic", "stuck"))
    @@ (add :> Builtin("dyadic", "gives"))
    @@ (set :> Builtin("triadic", "gives"))
    @@ (id :> Builtin("unary", "gives"))
    @@ (eval :> Builtin("unary", "stuck"))
    @@ (k :> Builtin("binary", "gives"))
    @@ (get :> Builtin("binary", "raises"))
    @@ (push :> Builtin("ternary", "gives"))
    @@ (print :> Builtin("variadic", "gives"))
    @@ (format :> Builtin("variadic", "raises"))
    @@ (nformat :> Builtin("variadic", "stuck"))

Rule(pats, e) == [pats |-> pats, expr |-> e, body |-> Body(e)]

\* Applications of heads to one or two arguments.
Apps(heads, args) ==
    {<<a, b>> : a \in heads, b \in args}
    \cup {<<a, b, c>> : a \in heads, b \in args, c \in args}

\* What fun does with its argument: one application, or one inside another.
Bodies ==
    LET heads == {pair, throw, stall, id, k, add, print, x}
    IN  {x} \cup Apps(heads, {pair, throw, x})
        \cup Apps(heads, {x, throw, <<throw, x>>, <<pair, <<chr, x>>>>, <<k, x>>})

\* The same with builtins that throw, or do nothing.
RaisingBodies ==
    Apps({pair, neg, get, format, id, k, stall}, {x, neg, <<neg, x>>, <<pair, <<neg, x>>>>})

StuckBodies == Apps({eval, nformat, pair, id}, {x, <<eval, x>>}) \cup {<<pair, <<date, x>>>>}

\* Programs that call fun under a handler, or that do not.
Catching ==
    {<<handle, handler, fun>>, <<handle, handler, fun, pair>>, <<handle, throw, fun>>,
     <<pair, <<handle, handler, fun>>, <<handle, id, fun>>>>,
     <<handle, handler, <<stall, handle, throw, fun>>>>}

Mains ==
    Catching \cup {<<fun, pair>>, <<pair, <<fun, pair>>, <<fun, none>>>>, <<napp, fun, fun, pair>>,
                   <<handle, handler, <<fun, pair>>>>, <<id, fun, pair>>}

\* Builtins with all their arguments, or more.
Full == {<<c, x, x, pair>> : c \in {set, push}} \cup {<<push, id, x, x, pair>>}

Program(e, b) ==
    (main :> <<Rule(<<>>, e)>>)
    @@ (fun :> <<Rule(<<none, y>>, y), Rule(<<<<pair, y>>>>, <<pair, y>>), Rule(<<x>>, b)>>)
    @@ (handler :> <<Rule(<<none, x>>, <<pair, x>>)>>)

MCPrograms ==
    {Program(e, b) : e \in Mains, b \in Bodies \cup StuckBodies}
    \cup {Program(e, b) : e \in Catching \ {<<handle, throw, fun>>}, b \in RaisingBodies}
    \cup {Program(<<handle, print, cwd>>, x)}
    \cup {Program(<<fun, pair>>, e) : e \in Full}

RECURSIVE Unfold(_)
Unfold(v) ==
    IF v \in Addr THEN [i \in DOMAIN heap[v].items |-> Unfold(heap[v].items[i])] ELSE v

\* The trampoline gives what the program means: the value, or what was
\* thrown.
ResultIsMeaning ==
    result # Unset =>
        LET meaning == Apply(code, Main, <<>>)
        IN  /\ result.exception = meaning.thrown
            /\ Unfold(result.value) = IF meaning.thrown THEN meaning.value[1] ELSE meaning.value

=============================================================================

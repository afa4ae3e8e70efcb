SPECIFICATION FairSpec
CONSTANTS
    a = a
    b = b
    c = c
    x = x
    y = y
    z = z
    Paths = {a, b, c}
    Names = {x, y, z}
    Absent = Absent
    Disks <- AllDisks
    Editable <- FaultyDisks
INVARIANTS LoadedOnce ImportsLoaded CodeBehindBindings ImportersLast
PROPERTY LoadEnds
CHECK_DEADLOCK FALSE

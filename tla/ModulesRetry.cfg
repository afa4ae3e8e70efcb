SPECIFICATION Spec
CONSTANTS
    a = a
    b = b
    c = c
    x = x
    y = y
    z = z
    Paths = {a, b, c}
    Names = {x, y, z}
    Absent = Absent
    Disks <- FaultyDisks
    Editable = {}
INVARIANT ImportDefines
CHECK_DEADLOCK FALSE

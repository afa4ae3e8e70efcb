SPECIFICATION Spec
CONSTANTS
    A = A
    B = B
    f = f
    Evaluators = {e1, e2}
    Spaces = {A, B}
    Locals = {f}
    Top = Top
    Dummy = Dummy
    None = None
    Lines <- MCLines
    MaxLines = 3
INVARIANTS OneNumber TablesAgree UsingsHold ReducesOwn NamesHaveCode
PROPERTIES IndexKept FreshLater
SYMMETRY Alike
CHECK_DEADLOCK FALSE

SPECIFICATION Spec
CONSTANTS
    A = A
    B = B
    f = f
    Evaluators = {e1, e2}
    Spaces = {A, B}
    Locals = {f}
    Top = Top
    Dummy = Dummy
    None = None
    Lines <- MCLines
    MaxLines = 2
INVARIANTS TablesConsistent
CHECK_DEADLOCK FALSE

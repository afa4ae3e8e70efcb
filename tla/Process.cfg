SPECIFICATION FairSpec
CONSTANTS
    NULL = NULL
    NoTuple = NoTuple
    Clients = {c1, c2}
    Msgs <- MCSums
    Programs <- MCSums
    InitProgram = 0
    Answers <- MCSum
    Throws <- MCThrows
    Malformed <- MCMalformed
    Diverging <- MCDiverging
    MaxSends = 3
    MaxSteps = 1
INVARIANTS Fifo MealyTrace DroppedOnlyWhenStopped
PROPERTIES ExceptionEndsProcess Refinement HaltEndsWorker EveryInputAnswered
CHECK_DEADLOCK FALSE

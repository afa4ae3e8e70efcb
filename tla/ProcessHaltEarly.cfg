SPECIFICATION FairSpec
CONSTANTS
    NULL = NULL
    NoTuple = NoTuple
    Clients = {c1}
    Msgs <- MCSums
    Programs <- MCSums
    InitProgram = 0
    Answers <- MCSum
    Throws <- MCThrows
    Malformed <- MCMalformed
    Diverging = {}
    MaxSends = 1
    MaxSteps = 1
PROPERTY HaltHalts
CHECK_DEADLOCK FALSE

SPECIFICATION FairSpec
CONSTANTS
    Tasks = {t1, t2, t3}
    Main = Main
    References = {r1}
    Messages = {m1}
    MaxShared = 2
    None = None
INVARIANTS NoWaitCycle MainEndsLast NoOrphan OnceIsHarmless
PROPERTY EveryWaitEnds
CHECK_DEADLOCK FALSE

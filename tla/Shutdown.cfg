SPECIFICATION Spec
CONSTANTS
    Clients = {c1, c2, c3}
    PoolSize = 2
    Grace = 2
    MaxTime = 5
INVARIANTS
    TypeOK
    OkMeansAllDone
    NobodyIsCutShort
PROPERTIES
    EveryoneIsHeard
    ProcessEnds
CHECK_DEADLOCK FALSE

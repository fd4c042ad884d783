SPECIFICATION Spec
CONSTANTS
    Clients = {c1, c2, c3}
    PoolSize = 2
    Grace = 2
    MaxTime = 5
PROPERTIES
    WaitHasALimit
CHECK_DEADLOCK FALSE

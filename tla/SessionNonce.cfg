SPECIFICATION Spec
CONSTANTS
    Handlers = {h1, h2}
    MsgIds = {1, 2}
    SeqNos <- MCSeqNos
    Kinds = {"reply"}
    CtrBase = 2
    Window = 1
    MaxTime = 0
    RecentCap = 2
    Disturbances = {}
INVARIANT
    NonceCounterUnique

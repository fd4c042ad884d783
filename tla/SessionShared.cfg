SPECIFICATION ReplaySpec
CONSTANTS
    Handlers = {h1, h2}
    MsgIds <- MCMsgIds
    SeqNos = {0}
    Kinds = {"quiet"}
    CtrBase = 2
    Window = 1
    MaxTime = 0
    RecentCap = 2
    Disturbances = {"crash"}
SYMMETRY MCSymmetry
INVARIANT
    ExecutedOnceWhileKept

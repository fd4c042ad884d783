SPECIFICATION Spec
CONSTANTS
    Handlers = {h1}
    MsgIds <- MCMsgIds
    SeqNos <- MCSeqNos
    Kinds = {"reply", "signup", "unparsed", "headless", "undecryptable"}
    CtrBase = 2
    Window = 1
    MaxTime = 1
    RecentCap = 1
    Disturbances = {"evict", "read_fault", "clock_back"}
PROPERTY
    FramesSettle

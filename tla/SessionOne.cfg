SPECIFICATION Spec
CONSTANTS
    Handlers = {h1}
    MsgIds <- MCMsgIds
    SeqNos <- MCSeqNos
    Kinds = {"reply", "signup", "quiet", "fail"}
    CtrBase = 2
    Window = 0
    MaxTime = 1
    RecentCap = 2
    Disturbances = {"evict", "crash", "write_fault"}
INVARIANTS
    TypeOK
    ExecutedInOrder
    NonceCounterGrows
    WriteAhead
    RebuiltAsCached
PROPERTIES
    AnswersConsecutive
    RowMovesForward
    LedgerSpec
    RepliesArrive

SPECIFICATION Spec
CONSTANTS
    Users = {u1, u2}
    Strangers = {x}
    Nobody = nobody
    Handlers = {h1, h2}
    MaxRequests = 3
    Seconds = {0, 1}
    PageSize = 1
INVARIANTS
    TypeOK
    OnePrivateDialog
    ChangeShows
    LeftoverIsCreators
    NoMessageSkipped
PROPERTIES
    MembersChangeMembers
    EmptiedOnlyByEachOther
SYMMETRY MCSymmetry
CHECK_DEADLOCK FALSE

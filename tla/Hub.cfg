SPECIFICATION Spec
CONSTANTS
    u1 = u1
    u2 = u2
    d1 = d1
    d2 = d2
    Conns = {c1, c2}
    Users <- MCUsers
    Dialogs <- MCDialogs
    Participants <- MCParticipants
    MaxTexts = 4
    MaxMessages = 2
    Disturbances = {"leave", "fault", "restart"}
INVARIANTS
    TypeOK
    SubscribersGetIt
    CopiesHaveACause
    SameOrder
    PresenceIsTrue
PROPERTIES
    SenderWasMember
    MessagesArrive
CHECK_DEADLOCK FALSE

SPECIFICATION Spec
CONSTANTS
    MaxLinks = 2
    MaxAttempts = 2
    MaxCalls = 2
    Kinds = {"SendMessage", "SignUp", "SendMessageAck", "UserStatusUpdate"}
    Disturbances = {"timeout", "restart", "age", "server_fault"}
INVARIANTS
    TypeOK
    InStep
    KeyOnOneLink
    HandshakeRemembered
PROPERTIES
    CallsEnd

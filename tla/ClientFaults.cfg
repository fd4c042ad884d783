SPECIFICATION Spec
CONSTANTS
    MaxLinks = 2
    MaxAttempts = 3
    MaxCalls = 2
    Kinds = {"SendMessage", "SendMessageAck", "SignUp"}
    Disturbances = {"timeout", "tear", "send_fault", "clock", "rekey", "restart", "read_fault", "server_fault"}
INVARIANTS
    KeyKnown
    NoRequestSkipped
    AnswersOwnRequest

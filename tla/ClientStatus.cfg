SPECIFICATION Spec
CONSTANTS
    MaxLinks = 2
    MaxAttempts = 1
    MaxCalls = 2
    Kinds = {"SignUp", "UserStatusUpdate"}
    Disturbances = {}
INVARIANT
    StatusIsOwn

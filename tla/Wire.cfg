SPECIFICATION Spec
CONSTANTS
    Payloads <- MCPayloads
    Items <- MCItems
    Followers <- MCFollowers
    MaxItems = 2
    Pieces <- MCPieces
    MaxPieces = 2
    MaxPad = 43
INVARIANT
    LengthsAvoidMark
PROPERTY
    PipeSpec
CHECK_DEADLOCK FALSE

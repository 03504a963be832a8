SPECIFICATION Spec
CONSTANTS
    MaxBar = 2
    MaxSends = 2
    MaxRestarts = 1
    MaxEdits = 1
    PositionCap = 1
    Replies <- AllReplies
    BoundedLag = FALSE
    ReadsMayFail = TRUE
PROPERTIES
    LedgerKept

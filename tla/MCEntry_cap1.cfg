SPECIFICATION Spec
CONSTANTS
    MaxBar = 2
    MaxSends = 3
    MaxRestarts = 1
    MaxEdits = 0
    PositionCap = 1
    Replies <- AllReplies
    BoundedLag = TRUE
    ReadsMayFail = FALSE
INVARIANTS
    
    OpenWithinCap
    LedgerTruth

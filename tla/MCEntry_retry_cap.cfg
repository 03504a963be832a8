SPECIFICATION Spec
CONSTANTS
    MaxBar = 2
    MaxSends = 3
    MaxRestarts = 0
    MaxEdits = 0
    PositionCap = 1
    Replies <- UnclearOnly
    BoundedLag = TRUE
    ReadsMayFail = FALSE
INVARIANTS
    RetryCapped

SPECIFICATION FairSpec
CONSTANTS
    MaxBar = 1
    MaxSends = 2
    MaxRestarts = 1
    MaxEdits = 1
    PositionCap = 1
    Replies <- AllReplies
    BoundedLag = TRUE
    ReadsMayFail = TRUE
PROPERTIES
    VerifyAnswered
    UnresolvedFillCloses

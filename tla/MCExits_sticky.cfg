SPECIFICATION FairSpec
CONSTANTS
    Tickets = {t1}
    Lots = 3
    MaxRestarts = 1
    MaxMisses = 2
    YoungPositions = FALSE
    HardCrash = FALSE
    Chunks = FALSE
INVARIANTS ScaledOutOnce OneRowPerClose ForeignCloseReported
PROPERTIES OwedCloses

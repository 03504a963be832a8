SPECIFICATION FairSpec
CONSTANTS
    Logins = {a1, a2}
    First = a1
    Balance = 4
    MaxBalance = 6
    MaxDay = 2
    MaxMoves = 1
    MaxRestarts = 1
    Limit = 30
    Moves <- Amounts
    Swings <- Results
    LateCash = FALSE
    CashMidCycle = FALSE
PROPERTIES BreakerStays HaltNeedsLoss BreakerTrips LossFlattens

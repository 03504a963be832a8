SPECIFICATION DeskSpec
CONSTANTS
    None = None
    Sides = {"buy", "sell"}
    Prices <- Quotes
    Atrs = {3}
    Swings <- Swing
    Configs <- Overlays
    Entry = 50
    Risk = 6
    Tick = 3
    Spread = 1
    MinStops = {4}
    SignalCloses = {14}
    StopsLevel = 1
    MaxBar = 2
    MaxTroubles = 1
    HandInCycle = FALSE
    fx = fx
    bist = bist
    Names = {fx, bist}
    Buckets = 3
    One = 2
    MinSamples = 2
    Interval = 2
    MaxLives = 2
    MaxSamples = 3
    Overlaps = FALSE
    DiskFails = FALSE
    Crashes = FALSE
    cheap = cheap
    bold = bold
    dear = dear
    Traded = {cheap, bold, dear}
    Spec1R <- MCSpec1R
    Accounts <- MCAccounts
    Panels <- MCPanels
    Rosters <- MCRosters
    Throttles = {7, 10}
    Health <- MCHealth
    MinFree = 5
    ByEdge = TRUE
    Verifies = TRUE
    MidEdits = FALSE
    MarginFails = TRUE
    Void = Void
INVARIANTS EarnedOnly OwnSpread
PROPERTIES Ratchet OversizeHasRoom
CHECK_DEADLOCK FALSE

SPECIFICATION Spec
CONSTANTS
    NameCount = 2
    MaxMagic = 2
    Preset <- OnePreset
    Threads = {t1}
    MaxDeals = 2
    Gaps = FALSE
    ReadsMayFail = FALSE
    Absent = Absent
    Installs = {fx, bist}
    Alike <- Apart
    MaxBoots = 2
    MaxAttach = 2
    Instruments = {gold}
    Autostart = TRUE
    Midnight = FALSE
    MidRead = FALSE
    Nobody = Nobody
    Quoted = {q1, q2}
    MinWindow = 2
    Recent = 3
    MinGain = 1
    MaxAge = 4
    Zones <- TwoZones
    Lag = 1
    MaxTime = 11
    Unread = Unread
    None = None
    Hour = 2
    Configs <- Weeks
    LastBar = 4
    Prices <- Quotes
    Targets <- Wishes
    Spread = 1
    Commission = 1
    MinStop = 2
    MinStep = 1
    Dists = {2}
    AtR = 1
    Cooldown = 1
    ReverseOnSignal = TRUE
    Nothing = Nothing
    Sizes <- Grid
    MaxCombos = 4
    Rounds = 1
    ShortAxis = 6
    Seeds = 1
    Kept = 1
    Grounded = 3
    Scores = {1, 2}
    Weight = 4
    Unknown = Unknown
INVARIANTS      DecisionFresh ClockAnswers EntriesScored LossIsOneR  NoDeadSpike
PROPERTIES CleanMagic NoReentry
CHECK_DEADLOCK FALSE

SPECIFICATION FairVerdicts
CONSTANTS
    Symbols = {s1}
    Losses = 2
    Bar = 3
    Window = 3
    BlindReads = FALSE
    LateForget = FALSE
    None = None
PROPERTIES OwnRecordOnly  SuspensionEnds

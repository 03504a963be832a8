SPECIFICATION FairSpec
CONSTANTS
    s1 = s1
    s2 = s2
    w1 = w1
    m5 = m5
    h1 = h1
    burst = burst
    Symbols = {s1, s2}
    Windows = {w1}
    Frames = {m5, h1}
    Families = {burst}
    Permitted <- Pairs
    None = None
    Requests <- Asked
    Workers = 2
    MaxBatch = 2
    MaxStarts = 1
    MaxCancels = 1
    MaxEdits = 1
    MaxTroubles = 1
INVARIANTS OneReport CancelStopsWrites
PROPERTIES JobEnds
CHECK_DEADLOCK FALSE

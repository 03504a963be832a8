SPECIFICATION DeskSpec
CONSTANTS
    burst = burst
    fade = fade
    v2 = v2
    Offers <- Calls
    v1 = v1
    Families = {burst, fade}
    Values = {v1, v2}
    First <- Start
    Keep = Keep
    None = None
    Appliers = {"search", "autopilot", "web"}
    Autopilot = "autopilot"
    Search = "search"
    MaxPositions = 1
    MaxCalls = 2
    MaxEdits = 1
    MaxOrders = 2
    Fresh = TRUE
    EditOverPending = FALSE
    UnclearSends = FALSE
    burst1 = burst1
    burst2 = burst2
    fade1 = fade1
    day = day
    night = night
    late = late
    Rivals = {burst1, burst2, fade1}
    FamilyOf <- Of
    Markets <- All
    Starting = burst1
    Ages = {0, 24, 72, 1500}
    MinAges = {0, 48}
    MayForce = TRUE
    Slots = {day, night, late}
    MaxChanges = 2
    Unmeasured = Unmeasured
PROPERTIES AsTold NoReturn PendingLands

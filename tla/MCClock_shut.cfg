SPECIFICATION BrokerSpec
CONSTANTS
    q1 = q1
    Quoted = {q1, q2}
    MinWindow = 2
    Recent = 3
    MinGain = 1
    MaxAge = 4
    Zones <- TwoZones
    Lag = 1
    MaxTime = 11
    Unread = Unread
INVARIANT ShutClockSilent
CHECK_DEADLOCK FALSE

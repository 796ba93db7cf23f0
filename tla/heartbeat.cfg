\* Intervals of four units and a timeout of three intervals, one pong lost.
\* CHECK_DEADLOCK FALSE: nothing happens once the connection has ended.
SPECIFICATION Spec
CHECK_DEADLOCK FALSE
CONSTANTS
    Interval = 4
    Timeout = 12
    Late <- HalfAnInterval
    RoundTrip = 3
    MaxLost = 1
INVARIANTS
    LivePeerStays
    SilenceBounded
PROPERTIES
    DeadPeerGoes

\* Two sockets and a channel of two messages, so that a receiver lags after the
\* third.
\* CHECK_DEADLOCK FALSE: once the room has gone and every socket has ended,
\* nothing more happens.
SPECIFICATION Spec
CHECK_DEADLOCK FALSE
CONSTANTS
    c1 = c1
    c2 = c2
    p1 = p1
    p2 = p2
    Conn <- TwoConns
    Player <- TwoPlayers
    Host = p1
    None = None
    Capacity = 2
    MaxVersion = 4
    MaxRace = 1
INVARIANTS
    CaughtUp
    ClosedIsTold
PROPERTIES
    SocketsEnd

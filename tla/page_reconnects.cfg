\* One page that is opened twice, two lost connections and one failed reconnect
\* in a row before it gives up.
\* CHECK_DEADLOCK FALSE: the user may have seen enough, and so has the page.
SPECIFICATION Spec
CHECK_DEADLOCK FALSE
CONSTANTS
    MaxAttempts = 2
    MaxSeats = 3
    MaxVisits = 3
    MaxDrops = 4
    MaxQueue = 3
INVARIANTS
    TypeOK
    NoPhantom
    StaysJoined
PROPERTIES
    TokenKept
    NotJoinedOnlyIfLost
    RoomGoneIsNoticed

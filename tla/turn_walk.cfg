\* Every roster of one to three players, every set of absent and flagged
\* players, every starting seat, both loops.
SPECIFICATION Spec
CONSTANTS
    p1 = p1
    p2 = p2
    p3 = p3
    Id <- MCId
    MaxPlayers = 3
INVARIANTS
    TypeOK
    StopsAtNearest
    FlagsUsedUp
PROPERTY
    WalkEnds
\* A finished walk stops.
CHECK_DEADLOCK FALSE

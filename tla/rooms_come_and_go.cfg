\* Three requests at once for a server that holds one room, under two codes: two
\* rooms may be made, and the third request finds every code taken.
SPECIFICATION Spec
CONSTANTS
    c1 = c1
    c2 = c2
    k1 = k1
    k2 = k2
    k3 = k3
    h1 = h1
    Code <- Codes
    Creator <- ThreeCreators
    Handler <- OneHandler
    Nobody = Nobody
    MaxRooms = 1
    MaxAttempts = 2
    TTL = 1
    MaxMade = 4
INVARIANTS
    RoomsBounded
    ReplacesOnlyRivals
PROPERTIES
    NothingInUseRemoved
    UnusedGoes

\* One server, started with the default interval or with zero, on a disk that may
\* refuse any call, and a snapshot that may be unreadable at start.
SPECIFICATION FairSpec
CONSTANTS
    s1 = s1
    s2 = s2
    c1 = c1
    c2 = c2
    Proc <- OneServer
    Code <- TwoRooms
    Nobody = Nobody
    Missing = Missing
    Garbled = Garbled
    Torn = Torn
    Intervals = {0, 60}
    MayBeUnreadable = TRUE
    MaxChanges = 2
    MaxFailures = 2
INVARIANTS
    UnsavedIsRemembered
    FileNeverTorn
PROPERTIES
    StopKeepsAll
    SavedInTheEnd

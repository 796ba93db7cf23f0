\* Two servers started on one data directory: crashes, power cuts, overlapping
\* starts and stops, with a disk that never refuses.
SPECIFICATION Spec
CONSTANTS
    s1 = s1
    s2 = s2
    c1 = c1
    c2 = c2
    Proc <- TwoServers
    Code <- TwoRooms
    Nobody = Nobody
    Missing = Missing
    Garbled = Garbled
    Torn = Torn
    Intervals = {60}
    MayBeUnreadable = FALSE
    MaxChanges = 3
    MaxFailures = 0
SYMMETRY Symmetry
INVARIANT
    TypeOK
PROPERTY
    KeepsCopy

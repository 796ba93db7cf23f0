\* A snapshot that cannot be read at one start.
SPECIFICATION Spec
CONSTANTS
    s1 = s1
    s2 = s2
    c1 = c1
    c2 = c2
    Proc <- OneServer
    Code <- OneRoom
    Nobody = Nobody
    Missing = Missing
    Garbled = Garbled
    Torn = Torn
    Intervals = {60}
    MayBeUnreadable = TRUE
    MaxChanges = 1
    MaxFailures = 1
PROPERTY
    OverwrittenIsBackedUp

\* Does an accepted set_order keep every player?
SPECIFICATION Spec
CONSTANTS
    p1 = p1
    p2 = p2
    p3 = p3
    Id <- Two
    NoOne = NoOne
    MaxPlayers = 2
    NudgeCooldown = 1
    RepeatsInOrder = TRUE
    Nudgers <- None
    LockChoices = {}
    JoinDelay = 0
    MadeAt = {0}
    SavedFrom = 1
    MaxEpoch = 4
    MaxTime = 0
SYMMETRY Symmetry2
PROPERTY
    OrderLosesNobody
\* An emptied room stops, and so does a run that has used its bounds up.
CHECK_DEADLOCK FALSE

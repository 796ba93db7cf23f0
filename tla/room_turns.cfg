\* Everything that decides whose turn it is, with three players: joins, ghosts,
\* rejoins, removals, reorders, skips, undo.  Four connections in all: the
\* founder's, two joins, and one more that may supersede an open one.
SPECIFICATION Spec
CONSTANTS
    p1 = p1
    p2 = p2
    p3 = p3
    Id <- Three
    NoOne = NoOne
    MaxPlayers = 3
    NudgeCooldown = 1
    RepeatsInOrder = FALSE
    Nudgers = {}
    LockChoices = {}
    JoinDelay = 0
    MadeAt = {0}
    SavedFrom = 1
    MaxEpoch = 4
    MaxTime = 0
SYMMETRY Symmetry3
INVARIANTS
    TypeOK
    TurnIsSeated
    OneHost
    PreviousIsSeated
PROPERTIES
    TurnGoesToNextEligible
    SkipIsServed
    RefusalKeepsTurn
    BadgeIsInherited
    KeepsPromise
\* An emptied room stops, and so does a run that has used its connections up.
CHECK_DEADLOCK FALSE

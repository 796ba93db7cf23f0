\* Two players with clocks, the lock, orders that may name a player twice, and
\* joins that wait for the room while time passes.  A room made at 1 is saved and
\* loaded at any moment.  One made at 0 never is; there people nudge, before the
\* cooldown has passed (at once) or after.
SPECIFICATION Spec
CONSTANTS
    p1 = p1
    p2 = p2
    p3 = p3
    Id <- Two
    NoOne = NoOne
    MaxPlayers = 2
    NudgeCooldown = 1
    RepeatsInOrder = TRUE
    Nudgers <- Two
    LockChoices = {TRUE, FALSE}
    JoinDelay = 1
    MadeAt = {0, 1}
    SavedFrom = 1
    MaxEpoch = 2
    MaxTime = 2
SYMMETRY Symmetry2
VIEW WithoutAnswer
INVARIANTS
    TurnCountsAsActivity
    ConnectedMeansOwned
    TurnHasClock
PROPERTIES
    ClockFollowsTurn
\* An emptied room stops, and so does a run that has used its bounds up.
CHECK_DEADLOCK FALSE

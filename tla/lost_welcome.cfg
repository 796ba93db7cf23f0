\* A connection lost between the join and the welcome.
\* CHECK_DEADLOCK FALSE: the user may have seen enough, and so has the page.
SPECIFICATION Spec
CHECK_DEADLOCK FALSE
CONSTANTS
    MaxAttempts = 2
    MaxSeats = 2
    MaxVisits = 2
    MaxDrops = 2
    MaxQueue = 2
INVARIANTS
    JoinIsResent

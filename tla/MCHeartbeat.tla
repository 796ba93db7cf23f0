---------------------------- MODULE MCHeartbeat ----------------------------
(* Heartbeat with the code's proportions: a timeout of three intervals.    *)
EXTENDS Heartbeat

\* Half the lateness the timeout leaves room for: 15 s for intervals of 30 s.
HalfAnInterval == Interval \div 2
=============================================================================

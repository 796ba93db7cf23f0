------------------------------ MODULE Heartbeat ------------------------------
(***************************************************************************)
(* How a connection's task tells a peer that is there from one that is     *)
(* not: it pings on every tick of its timer, notes when a pong comes, and  *)
(* gives up on the first tick that finds the last pong too old.            *)
(***************************************************************************)
EXTENDS Integers

CONSTANTS
    Interval,   \* HEARTBEAT_INTERVAL
    Timeout,    \* CLIENT_TIMEOUT
    Late,       \* by how much the task may be late for a tick
    RoundTrip,  \* the longest time from a ping to its pong
    MaxLost     \* pings in a row that may be lost, or their pongs

\* A pong is back before the next tick, and the timeout allows for the pings
\* lost: 60 s and twice the lateness for the one the code means to tolerate.
ASSUME HeartbeatAssumption ==
    /\ Interval \in Nat \ {0} /\ Timeout \in Nat /\ Late \in Nat
    /\ RoundTrip \in Nat /\ RoundTrip < Interval
    /\ MaxLost \in Nat
    /\ (MaxLost + 1) * (Interval + Late) <= Timeout

VARIABLES
    age,        \* time since last_pong
    sinceTick,  \* time since the last tick
    pong,       \* "coming" while one is on its way, or "none"
    lost,       \* pings lost since the last one that was answered
    peer,       \* "there", and answers, or "gone"
    status      \* "open", "timed_out" or "closed"

vars == <<age, sinceTick, pong, lost, peer, status>>

Period == Interval + Late

\* The first tick of the interval is taken at once: no ping goes out.
Init ==
    /\ age = 0 /\ sinceTick = 0
    /\ pong = "none" /\ lost = 0
    /\ peer = "there"
    /\ status = "open"

\* Slip: stale as soon as the timeout is reached.
SlipIsStale == age >= Timeout

\* Slip: stale an interval too late.
SlipIsStaleLate == age > Timeout + Interval

\* Heartbeat::is_stale.
IsStale == age > Timeout

\* Slip: a ping that was sent counts as a sign of life.
SlipAgeAfterPing == 0

\* Only a pong counts as a sign of life.
AgeAfterPing == age

\* A tick that finds the last pong too old.
TickStale ==
    /\ IsStale
    /\ status' = "timed_out"
    /\ UNCHANGED <<age, pong, lost>>

\* A tick that pings.  The ping is answered, or it or its pong is lost.
TickPing ==
    /\ ~IsStale
    /\ age' = AgeAfterPing
    /\ \/ peer = "there" /\ pong' = "coming" /\ UNCHANGED lost
       \/ peer = "there" /\ lost < MaxLost /\ lost' = lost + 1 /\ UNCHANGED pong
       \/ peer = "gone" /\ UNCHANGED <<pong, lost>>
    /\ UNCHANGED status

\* A tick whose ping finds the session closed.
TickFails ==
    /\ ~IsStale /\ peer = "gone"
    /\ status' = "closed"
    /\ UNCHANGED <<age, pong, lost>>

\* The timer is polled on time or late; the next tick is an interval from now
\* (MissedTickBehavior::Delay).
Tick ==
    /\ status = "open"
    /\ sinceTick >= Interval
    /\ sinceTick' = 0
    /\ TickStale \/ TickPing \/ TickFails
    /\ UNCHANGED peer

\* Heartbeat::record_pong.
Pong ==
    /\ status = "open" /\ pong = "coming"
    /\ age' = 0
    /\ pong' = "none" /\ lost' = 0
    /\ UNCHANGED <<sinceTick, peer, status>>

\* Time passes, up to the next thing that is due.
Pass ==
    /\ status = "open"
    /\ sinceTick < Period
    /\ pong = "coming" /\ peer = "there" => sinceTick < RoundTrip
    /\ age' = age + 1 /\ sinceTick' = sinceTick + 1
    /\ UNCHANGED <<pong, lost, peer, status>>

\* The peer is gone: a pong on its way may still come, or not.
Die ==
    /\ status = "open" /\ peer = "there"
    /\ peer' = "gone"
    /\ pong' \in {pong, "none"}
    /\ UNCHANGED <<age, sinceTick, lost, status>>

Next == Tick \/ Pong \/ Pass \/ Die

\* The clock goes on, and the task takes its ticks.
Fairness == WF_vars(Pass) /\ WF_vars(Tick)

Spec == Init /\ [][Next]_vars /\ Fairness

-----------------------------------------------------------------------------
\* Everything keeps its type, and no tick is later than the task may be.
TypeOK ==
    /\ age \in Nat
    /\ sinceTick \in 0..Period
    /\ pong \in {"coming", "none"}
    /\ lost \in 0..MaxLost
    /\ peer \in {"there", "gone"}
    /\ status \in {"open", "timed_out", "closed"}

\* A peer that answers is never taken for dead, though pongs are lost, the
\* others take their time and the task is late for every tick.
LivePeerStays == peer = "there" => status # "timed_out"

\* No connection outlives its last pong by more than the timeout and the time
\* to the next tick: 120 s and the lateness.
SilenceBounded == status = "open" => age <= Timeout + Period

\* A peer that is gone is noticed.
DeadPeerGoes == peer = "gone" ~> status # "open"
=============================================================================

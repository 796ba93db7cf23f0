--------------------------- MODULE HeartbeatProofs ---------------------------
(***************************************************************************)
(* The two bounds of the heartbeat, for every interval, timeout, lateness  *)
(* and number of lost pings that HeartbeatAssumption allows.               *)
(***************************************************************************)
EXTENDS Heartbeat, TLAPS

\* At the last tick the last pong was not too old.
SilenceKept == status = "open" => age <= Timeout + sinceTick

\* The last pong of a peer that answers is as old as the pings lost since, and
\* one more while the answer to the last ping is on its way.
AnswersKept ==
    peer = "there" =>
        /\ status # "timed_out"
        /\ pong = "coming" => age <= lost * Period + Period + sinceTick
                              /\ sinceTick <= RoundTrip
        /\ pong = "none" => age <= lost * Period + sinceTick

IInv == TypeOK /\ SilenceKept /\ AnswersKept

LEMMA Times ==
    ASSUME HeartbeatAssumption
    PROVE  /\ Period \in Nat /\ Interval \in Nat /\ RoundTrip < Interval
           /\ Timeout \in Nat /\ RoundTrip \in Nat /\ MaxLost \in Nat
           /\ Interval <= Period
BY DEF HeartbeatAssumption, Period

\* The timeout allows for every ping that may be lost.
LEMMA LostFits ==
    ASSUME HeartbeatAssumption, NEW n \in 0..MaxLost
    PROVE  /\ n * Period \in Nat
           /\ (n + 1) * Period = n * Period + Period
           /\ n * Period + Period <= Timeout
<1> DEFINE P == Period
<1>1. P \in Nat /\ MaxLost \in Nat /\ Timeout \in Nat /\ (MaxLost + 1) * P <= Timeout
  BY Times DEF HeartbeatAssumption, Period
<1> HIDE DEF P
<1>2. n * P \in Nat /\ (n + 1) * P = n * P + P
  BY <1>1
<1>3. (n + 1) * P <= (MaxLost + 1) * P
  <2>1. n + 1 \in Nat /\ MaxLost + 1 \in Nat /\ n + 1 <= MaxLost + 1
    BY <1>1
  <2>2. \A a, b, c \in Nat : a <= b => a * c <= b * c
    OBVIOUS
  <2> QED BY <1>1, <2>1, <2>2
<1> QED BY <1>1, <1>2, <1>3 DEF P

\* At a tick the peer's last pong is not too old, and none is on its way.
LEMMA InTime ==
    ASSUME HeartbeatAssumption, IInv, peer = "there", sinceTick >= Interval
    PROVE  ~IsStale /\ pong = "none"
<1>1. sinceTick \in 0..Period /\ lost \in 0..MaxLost /\ age \in Nat
  BY DEF IInv, TypeOK
<1>2. pong = "none"
  BY <1>1, Times DEF IInv, TypeOK, AnswersKept
<1>3. age <= lost * Period + sinceTick
  BY <1>2 DEF IInv, AnswersKept
<1> QED BY <1>1, <1>2, <1>3, LostFits, Times DEF IsStale

LEMMA InitInv == ASSUME HeartbeatAssumption, Init PROVE IInv
<1>1. lost * Period = 0
  BY Times DEF Init
<1> QED BY <1>1, Times DEF Init, IInv, TypeOK, SilenceKept, AnswersKept

LEMMA TickInv == ASSUME HeartbeatAssumption, IInv, Tick PROVE IInv'
<1>1. TypeOK'
  BY Times DEF IInv, TypeOK, Tick, TickStale, TickPing, TickFails, AgeAfterPing
<1>2. SilenceKept'
  BY Times DEF IInv, TypeOK, Tick, TickStale, TickPing, TickFails, AgeAfterPing,
               IsStale, SilenceKept
<1>3. AnswersKept'
  <2>1. SUFFICES ASSUME peer = "there" PROVE AnswersKept'
    BY DEF Tick, AnswersKept
  <2>2. pong = "none" /\ TickPing /\ status' = "open" /\ sinceTick' = 0 /\ age' = age
    BY <2>1, InTime DEF Tick, TickStale, TickPing, TickFails, AgeAfterPing
  <2>3. age <= lost * Period + Period
    BY <2>1, <2>2, LostFits, Times DEF IInv, TypeOK, AnswersKept
  <2>4. CASE pong' = "coming" /\ lost' = lost
    BY <2>2, <2>3, <2>4, LostFits, Times DEF IInv, TypeOK, AnswersKept
  <2>5. CASE lost < MaxLost /\ lost' = lost + 1 /\ pong' = pong
    <3>1. lost' * Period = lost * Period + Period
      BY <2>5, LostFits DEF IInv, TypeOK
    <3> QED BY <2>2, <2>3, <2>5, <3>1, LostFits, Times DEF IInv, TypeOK, AnswersKept
  <2> QED BY <2>1, <2>2, <2>4, <2>5 DEF TickPing
<1> QED BY <1>1, <1>2, <1>3 DEF IInv

LEMMA PongInv == ASSUME HeartbeatAssumption, IInv, Pong PROVE IInv'
<1>1. TypeOK' /\ SilenceKept'
  BY Times DEF IInv, TypeOK, Pong, SilenceKept
<1>2. AnswersKept'
  <2>1. lost' * Period = 0
    BY Times DEF Pong
  <2> QED BY <2>1, Times DEF IInv, TypeOK, Pong, AnswersKept
<1> QED BY <1>1, <1>2 DEF IInv

LEMMA PassInv == ASSUME HeartbeatAssumption, IInv, Pass PROVE IInv'
<1>1. TypeOK' /\ SilenceKept'
  BY Times DEF IInv, TypeOK, Pass, SilenceKept
<1>2. AnswersKept'
  <2>1. SUFFICES ASSUME peer = "there" PROVE AnswersKept'
    BY DEF Pass, AnswersKept
  <2>2. PICK x \in Nat : x = lost * Period
    BY LostFits DEF IInv, TypeOK
  <2>3. /\ age \in Nat /\ sinceTick \in Nat /\ Period \in Nat /\ RoundTrip \in Nat
        /\ status # "timed_out"
        /\ pong = "coming" => age <= x + Period + sinceTick /\ sinceTick < RoundTrip
        /\ pong = "none" => age <= x + sinceTick
    BY <2>1, <2>2, Times DEF IInv, TypeOK, AnswersKept, Pass
  <2>4. /\ age' = age + 1 /\ sinceTick' = sinceTick + 1 /\ lost' * Period = x
        /\ UNCHANGED <<pong, status>>
    BY <2>2 DEF Pass
  <2>5. /\ pong = "coming" => age' <= x + Period + sinceTick' /\ sinceTick' <= RoundTrip
        /\ pong = "none" => age' <= x + sinceTick'
    BY <2>3, <2>4
  <2> QED BY <2>3, <2>4, <2>5 DEF AnswersKept
<1> QED BY <1>1, <1>2 DEF IInv

LEMMA DieInv == ASSUME HeartbeatAssumption, IInv, Die PROVE IInv'
BY DEF IInv, TypeOK, Die, SilenceKept, AnswersKept

LEMMA InductiveInvariant == Spec => []IInv
<1>1. Init => IInv
  BY InitInv, HeartbeatAssumption
<1>2. IInv /\ [Next]_vars => IInv'
  <2>1. ASSUME IInv, UNCHANGED vars PROVE IInv'
    BY <2>1 DEF IInv, TypeOK, SilenceKept, AnswersKept, vars
  <2> QED
    BY <2>1, TickInv, PongInv, PassInv, DieInv, HeartbeatAssumption DEF Next
<1> QED BY <1>1, <1>2, PTL DEF Spec

\* The clocks and the peer's state keep their types, and the task is late for no
\* tick by more than Late.
THEOREM TypeCorrect == Spec => []TypeOK
BY InductiveInvariant, PTL DEF IInv

\* A peer that answers is never taken for dead, whatever the interval, as long as
\* the timeout covers one ping more than may be lost in a row.
THEOREM LiveConnectionsStay == Spec => []LivePeerStays
<1>1. IInv => LivePeerStays
  BY DEF IInv, AnswersKept, LivePeerStays
<1> QED BY <1>1, InductiveInvariant, PTL

\* A connection that is still open has had a pong within the timeout and one
\* period more: staleness is looked at on ticks only.
THEOREM DeadConnectionsGo == Spec => []SilenceBounded
<1>1. IInv => SilenceBounded
  BY Times, HeartbeatAssumption DEF IInv, TypeOK, SilenceKept, SilenceBounded
<1> QED BY <1>1, InductiveInvariant, PTL
=============================================================================

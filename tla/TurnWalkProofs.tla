--------------------------- MODULE TurnWalkProofs ---------------------------
(***************************************************************************)
(* The two walking loops compute what Seats says, for a roster of any      *)
(* length and any set of player ids.                                       *)
(***************************************************************************)
EXTENDS TurnWalk, TLAPS

\* A roster is a non-empty sequence of ids.
LEMMA RosterFacts ==
    ASSUME NEW r \in Roster
    PROVE  /\ Len(r) \in Nat \ {0}
           /\ \A i \in 1..Len(r) : r[i] \in Id
BY MaxPlayersAssumption DEF Roster

\* Counting around a roster stays on the roster.
LEMMA SeatInRange ==
    ASSUME NEW n \in Nat \ {0}, NEW i \in 1..n, NEW k \in Nat
    PROVE  ((i - 1 + k) % n) + 1 \in 1..n
OBVIOUS

\* Two offsets of one lap are different seats.
LEMMA SeatsOfALapDiffer ==
    ASSUME NEW n \in Nat \ {0}, NEW i \in 1..n, NEW j \in 1..n, NEW k \in 1..n,
           (i - 1 + j) % n = (i - 1 + k) % n
    PROVE  j = k
OBVIOUS

-----------------------------------------------------------------------------
\* No player sits twice.
Distinct == \A i, j \in Lap(players) : players[i] = players[j] => i = j

\* The connected players at the offsets already walked.
Walked == {Seat(players, from, k) : k \in {j \in 1..(offset - 1) :
               Seat(players, from, j) \in connected}}

\* What is true between any two iterations: every seat behind the loop
\* variable is ineligible, and exactly their skips have been used up.
WalkInv ==
    /\ TypeOK
    /\ Distinct
    /\ \A k \in 1..(offset - 1) : k \notin Stops
    /\ skipNext = IF consume THEN asked \ Walked ELSE asked
    /\ outcome = "found" => offset \in Stops
    /\ outcome = "nobody" => offset = Len(players) + 1

\* The seat under the loop variable is a player, and none of those walked
\* already, so its skip is still the one that was asked for.
LEMMA HereIsFresh ==
    ASSUME TypeOK, Distinct, offset <= Len(players)
    PROVE  /\ offset \in Lap(players)
           /\ Here \in Id
           /\ Here \notin Walked
<1>1. /\ Len(players) \in Nat \ {0}
      /\ \A i \in 1..Len(players) : players[i] \in Id
  BY RosterFacts DEF TypeOK
<1>2. offset \in 1..Len(players) /\ from \in 1..Len(players)
  BY <1>1 DEF TypeOK, Lap
<1>3. Here \in Id
  BY <1>1, <1>2, SeatInRange DEF Here, Seat
<1>4. ASSUME NEW k \in 1..(offset - 1)
      PROVE  Seat(players, from, k) # Here
  <2>1. k \in 1..Len(players) /\ k # offset
    BY <1>1, <1>2, <1>4
  <2>2. /\ ((from - 1 + k) % Len(players)) + 1 \in 1..Len(players)
        /\ ((from - 1 + offset) % Len(players)) + 1 \in 1..Len(players)
    BY <1>1, <1>2, <2>1, SeatInRange
  <2>3. ((from - 1 + k) % Len(players)) # ((from - 1 + offset) % Len(players))
    BY <1>1, <1>2, <2>1, SeatsOfALapDiffer
  <2> DEFINE a == ((from - 1 + k) % Len(players)) + 1
             b == ((from - 1 + offset) % Len(players)) + 1
  <2>4. a # b
    BY <1>1, <1>2, <2>1, <2>3
  <2>5. players[a] # players[b]
    <3> HIDE DEF a, b
    <3> QED
      BY <2>2, <2>4 DEF Distinct, Lap, a, b
  <2> QED
    BY <2>5 DEF Here, Seat
<1> QED
  BY <1>2, <1>3, <1>4 DEF Lap, Walked

LEMMA WalkInvInit == Init => WalkInv
<1> SUFFICES ASSUME Init PROVE WalkInv
  OBVIOUS
<1>1. Len(players) \in Nat \ {0}
  BY RosterFacts DEF Init
<1>2. TypeOK /\ Distinct
  BY <1>1 DEF Init, TypeOK, Distinct, Lap
<1>3. Walked = {} /\ 1..(offset - 1) = {}
  BY DEF Init, Walked
<1> QED
  BY <1>2, <1>3 DEF WalkInv, Init

LEMMA WalkInvNext == WalkInv /\ [Next]_vars => WalkInv'
<1> SUFFICES ASSUME WalkInv, [Next]_vars PROVE WalkInv'
  OBVIOUS
<1>1. Len(players) \in Nat \ {0}
  BY RosterFacts DEF WalkInv, TypeOK
<1>2. offset \in Nat \ {0} /\ from \in 1..Len(players)
  BY <1>1 DEF WalkInv, TypeOK, Lap
<1>3. CASE PassAbsent
  <2>1. offset \in Lap(players) /\ offset \notin Stops
    BY <1>3, <1>1, <1>2 DEF PassAbsent, Stops, Eligible, Here, Lap
  <2>2. Walked' = Walked
    BY <1>3, <1>1, <1>2 DEF PassAbsent, Walked, Here
  <2>3. Stops' = Stops /\ TypeOK' /\ Distinct'
    BY <1>3, <1>1, <1>2
       DEF PassAbsent, WalkInv, TypeOK, Distinct, Stops, Eligible, Lap, Seat
  <2> QED
    BY <1>3, <1>1, <1>2, <2>1, <2>2, <2>3 DEF PassAbsent, WalkInv
<1>4. CASE PassSkipped
  <2>1. offset \in Lap(players) /\ Here \in Id /\ Here \notin Walked
    BY <1>4, HereIsFresh DEF PassSkipped, WalkInv
  <2>2. offset \notin Stops
    BY <1>4, <2>1 DEF PassSkipped, WalkInv, TypeOK, Stops, Eligible, Here
  <2>3. Walked' = Walked \cup {Here}
    BY <1>4, <1>1, <1>2 DEF PassSkipped, Walked, Here
  <2>4. Stops' = Stops /\ TypeOK' /\ Distinct'
    BY <1>4, <1>1, <1>2
       DEF PassSkipped, WalkInv, TypeOK, Distinct, Stops, Eligible, Lap, Seat
  <2>5. skipNext' = IF consume' THEN asked' \ Walked' ELSE asked'
    BY <1>4, <2>3 DEF PassSkipped, WalkInv
  <2> QED
    BY <1>4, <1>1, <1>2, <2>2, <2>4, <2>5 DEF PassSkipped, WalkInv
<1>5. CASE Stop
  <2>1. offset \in Lap(players) /\ Here \in Id /\ Here \notin Walked
    BY <1>5, HereIsFresh DEF Stop, WalkInv
  <2>2. offset \in Stops
    BY <1>5, <2>1 DEF Stop, WalkInv, Stops, Eligible, Here
  <2>3. Stops' = Stops /\ Walked' = Walked /\ TypeOK' /\ Distinct'
    BY <1>5 DEF Stop, WalkInv, TypeOK, Distinct, Stops, Eligible, Lap, Seat, Walked
  <2> QED
    BY <1>5, <2>2, <2>3 DEF Stop, WalkInv
<1>6. CASE GiveUp
  <2>1. offset = Len(players) + 1
    BY <1>6, <1>1 DEF GiveUp, WalkInv, TypeOK
  <2>2. Stops' = Stops /\ Walked' = Walked /\ TypeOK' /\ Distinct'
    BY <1>6 DEF GiveUp, WalkInv, TypeOK, Distinct, Stops, Eligible, Lap, Seat, Walked
  <2> QED
    BY <1>6, <2>1, <2>2 DEF GiveUp, WalkInv
<1>7. CASE UNCHANGED vars
  <2>1. Stops' = Stops /\ Walked' = Walked /\ TypeOK' /\ Distinct'
    BY <1>7 DEF vars, WalkInv, TypeOK, Distinct, Stops, Eligible, Lap, Seat, Walked
  <2> QED
    BY <1>7, <2>1 DEF vars, WalkInv
<1> QED
  BY <1>3, <1>4, <1>5, <1>6, <1>7 DEF Next

\* The loops stop exactly where the closed form says.
LEMMA WalkInvStops == WalkInv => StopsAtNearest
<1> SUFFICES ASSUME WalkInv PROVE StopsAtNearest
  OBVIOUS
<1>1. Len(players) \in Nat \ {0} /\ offset \in Nat
  BY RosterFacts DEF WalkInv, TypeOK
<1>2. \A j \in Stops : j \in 1..Len(players) /\ j >= offset
  BY <1>1 DEF WalkInv, Stops, Eligible, Lap
<1> QED
  BY <1>1, <1>2 DEF WalkInv, StopsAtNearest, Nearest

\* advance_from leaves the flags FlagsAfter names; peek_next leaves them all.
LEMMA WalkInvFlags == WalkInv => FlagsUsedUp
<1> SUFFICES ASSUME WalkInv, outcome # "walking"
             PROVE  skipNext = IF consume
                       THEN FlagsAfter(players, from, connected, asked)
                       ELSE asked
  BY DEF FlagsUsedUp
<1>1. Len(players) \in Nat \ {0} /\ offset \in Nat
  BY RosterFacts DEF WalkInv, TypeOK
<1>2. StopsAtNearest
  BY WalkInvStops
<1>3. {k \in Lap(players) : \A e \in Stops : k < e} = 1..(offset - 1)
  <2>1. CASE outcome = "found"
    <3>1. /\ offset \in Stops
          /\ offset \in 1..Len(players)
          /\ \A e \in Stops : e \in Nat /\ offset <= e
      BY <2>1, <1>2 DEF StopsAtNearest, Nearest, Stops, Eligible, Lap
    <3> QED
      BY <3>1, <1>1 DEF Lap
  <2>2. CASE outcome = "nobody"
    BY <2>2, <1>1, <1>2 DEF StopsAtNearest, WalkInv, Lap
  <2> QED
    BY <2>1, <2>2 DEF WalkInv, TypeOK
<1>4. connected \cap PassedOver(players, from, connected, asked) = Walked
  BY <1>3 DEF PassedOver, Stops, Walked
<1> QED
  BY <1>4 DEF WalkInv, FlagsAfter

-----------------------------------------------------------------------------
\* Every reachable state of a walk satisfies the loop invariant.
LEMMA WalkInvariant == Spec => []WalkInv
BY WalkInvInit, WalkInvNext, PTL DEF Spec

\* Type correctness of both loops, for every roster.
THEOREM TypeCorrect == Spec => []TypeOK
<1>1. WalkInv => TypeOK
  BY DEF WalkInv
<1> QED
  BY <1>1, WalkInvariant, PTL

\* advance_from and peek_next return the nearest eligible seat, or nobody
\* when no seat is eligible, on every roster and from every seat: the two
\* loops agree, so a granted claim hands the turn to the claimant.
THEOREM WalkFindsNearest == Spec => []StopsAtNearest
BY WalkInvStops, WalkInvariant, PTL

\* advance_from uses up one skip for each connected player it goes past and
\* no other; peek_next uses up none.
THEOREM WalkUsesUpSkips == Spec => []FlagsUsedUp
BY WalkInvFlags, WalkInvariant, PTL

\* The steps a walk may still take.
StepsLeft == IF outcome = "walking" THEN Len(players) + 2 - offset ELSE 0

\* A walk takes at most one step for each seat and one to return, whichever seats
\* it finds absent, flagged or eligible: each step leaves it fewer to take.  This
\* is the half of WalkEnds that needs no fairness.
THEOREM WalkRunsDown == Spec => [](StepsLeft \in Nat) /\ [][StepsLeft' < StepsLeft]_vars
<1>1. WalkInv => StepsLeft \in Nat
  <2> SUFFICES ASSUME WalkInv PROVE StepsLeft \in Nat
    OBVIOUS
  <2>1. Len(players) \in Nat /\ offset \in 1..(Len(players) + 1)
    BY RosterFacts DEF WalkInv, TypeOK
  <2> QED
    BY <2>1 DEF StepsLeft
<1>2. WalkInv /\ [Next]_vars => [StepsLeft' < StepsLeft]_vars
  <2> SUFFICES ASSUME WalkInv, Next PROVE StepsLeft' < StepsLeft
    OBVIOUS
  <2>1. Len(players) \in Nat /\ offset \in 1..(Len(players) + 1)
    BY RosterFacts DEF WalkInv, TypeOK
  <2>2. CASE PassAbsent \/ PassSkipped
    BY <2>1, <2>2 DEF PassAbsent, PassSkipped, StepsLeft
  <2>3. CASE Stop \/ GiveUp
    BY <2>1, <2>3 DEF Stop, GiveUp, StepsLeft
  <2> QED
    BY <2>2, <2>3 DEF Next
<1> QED
  BY <1>1, <1>2, WalkInvariant, PTL DEF Spec
=============================================================================

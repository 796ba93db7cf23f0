------------------------------ MODULE TurnWalk ------------------------------
(***************************************************************************)
(* The two loops that look for the next turn holder, one iteration a step. *)
(*                                                                         *)
(* `advance_from` walks the roster from the seat after `from`, mutating    *)
(* skip flags as it goes; `peek_next` walks the same seats and mutates     *)
(* nothing.  `claim_turn` relies on the two naming the same player: it     *)
(* asks `peek_next` who may claim and then lets `advance_from` decide who  *)
(* gets the turn.  Seats says what a whole walk does in one operator, and  *)
(* Room is written with those operators; this module is why that is sound. *)
(***************************************************************************)
EXTENDS Seats

CONSTANTS
    Id,          \* player ids
    MaxPlayers   \* bound on the length of a roster

ASSUME MaxPlayersAssumption == MaxPlayers \in Nat

VARIABLES
    players,     \* the roster, in turn order; fixed during a walk
    connected,   \* players with a live connection; fixed during a walk
    asked,       \* the pending skips when the walk started
    skipNext,    \* the pending skips now
    from,        \* the seat the walk started at
    consume,     \* TRUE for advance_from, FALSE for peek_next
    offset,      \* the loop variable
    outcome      \* "walking", "found" (return Some) or "nobody" (return None)

vars == <<players, connected, asked, skipNext, from, consume, offset, outcome>>

Roster == UNION {[1..n -> Id] : n \in 1..MaxPlayers}

\* A walk starts at any seat of any roster, with any players away or flagged.
Init ==
    /\ players \in Roster
    /\ \A i, j \in Lap(players) : players[i] = players[j] => i = j
    /\ connected \in SUBSET Id
    /\ asked \in SUBSET Id
    /\ skipNext = asked
    /\ from \in Lap(players)
    /\ consume \in BOOLEAN
    /\ offset = 1
    /\ outcome = "walking"

Here == Seat(players, from, offset)

-----------------------------------------------------------------------------
\* Slips a change to the loops could make, each the form a definition below
\* would take; the runs show which property notices.

\* The loop has no bound.
SlipUnbounded ==
    /\ outcome = "walking"
    /\ Here \notin connected
    /\ offset' = offset + 1
    /\ UNCHANGED <<players, connected, asked, skipNext, from, consume, outcome>>

\* The skip is looked at before the connection: an absent player's is used up.
SlipSkipsFirst ==
    /\ outcome = "walking" /\ offset <= Len(players)
    /\ Here \in skipNext
    /\ skipNext' = IF consume THEN skipNext \ {Here} ELSE skipNext
    /\ offset' = offset + 1
    /\ UNCHANGED <<players, connected, asked, from, consume, outcome>>

\* The skipped seat is examined again instead of gone past.
SlipStays ==
    /\ outcome = "walking" /\ offset <= Len(players)
    /\ Here \in connected \cap skipNext
    /\ skipNext' = IF consume THEN skipNext \ {Here} ELSE skipNext
    /\ UNCHANGED <<players, connected, asked, from, consume, offset, outcome>>

\* The range is 1..n instead of 1..=n: the starting seat is never tried.
SlipShortLap ==
    /\ outcome = "walking" /\ offset >= Len(players)
    /\ outcome' = "nobody"
    /\ UNCHANGED <<players, connected, asked, skipNext, from, consume, offset>>

-----------------------------------------------------------------------------
\* The seat is that of an absent player: `continue`.
PassAbsent ==
    /\ outcome = "walking" /\ offset <= Len(players)
    /\ Here \notin connected
    /\ offset' = offset + 1
    /\ UNCHANGED <<players, connected, asked, skipNext, from, consume, outcome>>

\* The player is to be skipped: advance_from uses the skip up, both go on.
PassSkipped ==
    /\ outcome = "walking" /\ offset <= Len(players)
    /\ Here \in connected \cap skipNext
    /\ skipNext' = IF consume THEN skipNext \ {Here} ELSE skipNext
    /\ offset' = offset + 1
    /\ UNCHANGED <<players, connected, asked, from, consume, outcome>>

\* An eligible player: return Some(idx).
Stop ==
    /\ outcome = "walking" /\ offset <= Len(players)
    /\ Here \in connected \ skipNext
    /\ outcome' = "found"
    /\ UNCHANGED <<players, connected, asked, skipNext, from, consume, offset>>

\* The lap is over: return None.
GiveUp ==
    /\ outcome = "walking" /\ offset > Len(players)
    /\ outcome' = "nobody"
    /\ UNCHANGED <<players, connected, asked, skipNext, from, consume, offset>>

Next == PassAbsent \/ PassSkipped \/ Stop \/ GiveUp

Spec == Init /\ [][Next]_vars /\ WF_vars(Next)

-----------------------------------------------------------------------------
TypeOK ==
    /\ players \in Roster
    /\ connected \subseteq Id
    /\ asked \subseteq Id
    /\ skipNext \subseteq asked
    /\ from \in Lap(players)
    /\ consume \in BOOLEAN
    /\ offset \in 1..(Len(players) + 1)
    /\ outcome \in {"walking", "found", "nobody"}

Stops == Eligible(players, from, connected, asked)

\* Both loops stop exactly where Seats says, whichever flags the walk used up
\* on its way: at the nearest player who was connected and not flagged when
\* the walk started, and nowhere when there was no such player.  A claim is
\* granted to the player who gets the turn only because of this.
StopsAtNearest ==
    /\ outcome = "found" => Nearest(offset, Stops)
    /\ outcome = "nobody" => Stops = {}

\* advance_from leaves exactly the flags FlagsAfter names: one skip used up
\* for every connected player it went past, none for absent players and none
\* beyond the stop.  peek_next leaves all of them.
FlagsUsedUp ==
    outcome # "walking" =>
        skipNext = IF consume THEN FlagsAfter(players, from, connected, asked)
                              ELSE asked

\* Every walk returns: it never laps the roster more than once.
WalkEnds == <>(outcome # "walking")
=============================================================================

----------------------------- MODULE TurnTaking -----------------------------
(***************************************************************************)
(* What a room promises the people around the table: who may move the turn *)
(* and who may send somebody away, with no rotation, no flags, no clock    *)
(* and no sockets behind it.                                               *)
(*                                                                         *)
(* There is one governor, a member, from the first member's arrival until  *)
(* the last one leaves.  Once the game has begun there is always a holder, *)
(* a member, and the turn changes hands only at the request of somebody    *)
(* present: the holder, the governor, or the one who receives it.  Only    *)
(* the governor begins the game and sends members away; the badge and the  *)
(* turn of a member sent away go to other members.                         *)
(*                                                                         *)
(* The room is written down now and then, and may be taken back to what    *)
(* was written last: as a whole, and with nobody present.                  *)
(***************************************************************************)
CONSTANTS
    Id,      \* people
    NoOne    \* not a person

VARIABLES
    members,    \* the people in the room
    governors,  \* who governs it: one member, nobody once it has closed
    holder,     \* whose turn it is, or NoOne
    playing,    \* has the game begun?
    present,    \* people somebody could receive a request from
    requester,  \* whose request the last step served, or NoOne
    kept        \* what is written down of the first four

vars == <<members, governors, holder, playing, present, requester, kept>>

Init ==
    /\ \E founder \in Id : members = {founder} /\ governors = {founder}
    /\ holder = NoOne
    /\ playing = FALSE
    /\ present = {}
    /\ requester = NoOne
    /\ kept = [members |-> {}, governors |-> {}, holder |-> NoOne,
               playing |-> FALSE]

\* Somebody becomes reachable or stops being so, or makes a request that moves
\* neither the turn nor anybody.
Reach ==
    /\ members # {}
    /\ present' \in SUBSET Id
    /\ requester' \in Id \cup {NoOne}
    /\ UNCHANGED <<members, governors, holder, playing, kept>>

\* A new member arrives.
Enter(p) ==
    /\ members # {} /\ p \notin members
    /\ members' = members \cup {p}
    /\ present' = present \cup {p}
    /\ requester' = NoOne
    /\ UNCHANGED <<governors, holder, playing, kept>>

\* The governor begins the game.
Begin ==
    /\ ~playing
    /\ requester' \in governors \cap present
    /\ playing' = TRUE
    /\ holder' \in members
    /\ UNCHANGED <<members, governors, present, kept>>

\* The turn changes hands at the request of the one who has it, the one who
\* gets it, or the governor.
HandOver ==
    /\ playing
    /\ holder' \in members
    /\ requester' \in present \cap (governors \cup {holder, holder'})
    /\ UNCHANGED <<members, governors, playing, present, kept>>

\* The governor sends p away; somebody else is left.
SendAway(p) ==
    /\ requester' \in governors \cap present
    /\ p \in members
    /\ members' = members \ {p} /\ members' # {}
    /\ IF p \in governors THEN \E g \in members' : governors' = {g}
                          ELSE UNCHANGED governors
    /\ IF p = holder THEN holder' \in members' ELSE UNCHANGED holder
    /\ UNCHANGED <<playing, present, kept>>

\* The governor, the last member, leaves: the room closes.
Close ==
    /\ governors \cap present # {}
    /\ members = governors
    /\ members' = {} /\ governors' = {} /\ present' = {}
    /\ holder' = NoOne
    /\ playing' = FALSE
    /\ requester' = NoOne
    /\ UNCHANGED kept

\* The room is written down as it is.
Keep ==
    /\ kept' = [members |-> members, governors |-> governors, holder |-> holder,
                playing |-> playing]
    /\ requester' = NoOne
    /\ UNCHANGED <<members, governors, holder, playing, present>>

\* The room is taken back to what was written down.
Revert ==
    /\ members' = kept.members
    /\ governors' = kept.governors
    /\ holder' = kept.holder
    /\ playing' = kept.playing
    /\ present' = {}
    /\ requester' = NoOne
    /\ UNCHANGED kept

Next ==
    \/ Reach
    \/ \E p \in Id : Enter(p) \/ SendAway(p)
    \/ Begin
    \/ HandOver
    \/ Close
    \/ Keep
    \/ Revert

Spec == Init /\ [][Next]_vars
=============================================================================

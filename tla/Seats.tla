------------------------------- MODULE Seats --------------------------------
(***************************************************************************)
(* The rotation of a room, as arithmetic on its list of players.           *)
(*                                                                         *)
(* The program keeps the players of a room in a vector whose order is the  *)
(* turn order, and finds the next turn holder by walking that vector once  *)
(* around from a seat (`advance_from`, `peek_next`).  The operators below  *)
(* say in one step what the walk does; TurnWalk runs the two loops turn by *)
(* turn and relates them to these operators.                               *)
(*                                                                         *)
(* A seat is an index 1..Len(seats).  `offset` counts seats from the one   *)
(* the walk starts at, so offset Len(seats) is that seat again.            *)
(***************************************************************************)
EXTENDS Integers, Sequences

\* The player sitting `offset` seats after seat i, wrapping around.
Seat(seats, i, offset) == seats[((i - 1 + offset) % Len(seats)) + 1]

\* The offsets of one lap: every seat once, the starting seat last.
Lap(seats) == 1..Len(seats)

\* The offsets at which the walk would stop: a connected player who carries
\* no pending skip.
Eligible(seats, i, conn, flags) ==
    {k \in Lap(seats) : Seat(seats, i, k) \in conn \ flags}

\* k is the first of the offsets in S.
Nearest(k, S) == k \in S /\ \A j \in S : k <= j

\* The players the walk goes past: everyone before the first stop, and the
\* whole lap when there is none.
PassedOver(seats, i, conn, flags) ==
    {Seat(seats, i, k) : k \in {j \in Lap(seats) :
        \A e \in Eligible(seats, i, conn, flags) : j < e}}

\* Slip: the walk goes on to the end of the lap after its stop.
SlipWalkOn(seats, i, conn, flags) == flags \ conn

\* The pending skips left after the walk: it uses up the skip of every
\* connected player it goes past and leaves absent players alone.
FlagsAfter(seats, i, conn, flags) ==
    flags \ (conn \cap PassedOver(seats, i, conn, flags))

\* Slip: the badge goes to the first player, connected or not.
SlipIsHeir(h, seats, conn) == seats # << >> /\ h = seats[1]

\* A successor to the host badge: the first connected player of the roster,
\* or the first player when nobody is connected.
IsHeir(h, seats, conn) ==
    LET here == {k \in Lap(seats) : seats[k] \in conn}
    IN  \/ \E k \in here : Nearest(k, here) /\ h = seats[k]
        \/ here = {} /\ seats # << >> /\ h = seats[1]
=============================================================================

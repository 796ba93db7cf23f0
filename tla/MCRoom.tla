------------------------------- MODULE MCRoom -------------------------------
(* Room with a few players.                                                *)
EXTENDS Room

CONSTANTS p1, p2, p3

None == {}
Two == {p1, p2}
Three == {p1, p2, p3}

\* A room without its last action's sender and answer, which no guard reads and
\* none of the properties of room_of_two does.
WithoutAnswer ==
    <<state, locked, entry, seatVars, turnVars, clockVars, serverVars>>

Symmetry2 == Permutations(Two)
Symmetry3 == Permutations(Three)
=============================================================================

------------------------------- MODULE MCFeed -------------------------------
(* Feed with a few connections and players.                                *)
EXTENDS Feed

CONSTANTS c1, c2, p1, p2

TwoConns == {c1, c2}
TwoPlayers == {p1, p2}
=============================================================================

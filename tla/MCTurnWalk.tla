----------------------------- MODULE MCTurnWalk -----------------------------
(* TurnWalk over every roster of up to three of three players.             *)
EXTENDS TurnWalk, TLC

CONSTANTS p1, p2, p3

MCId == {p1, p2, p3}
=============================================================================

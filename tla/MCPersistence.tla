---------------------------- MODULE MCPersistence ----------------------------
(* Persistence with one or two servers and a few rooms.                    *)
EXTENDS Persistence, TLC

CONSTANTS s1, s2, c1, c2

OneServer == {s1}
TwoServers == {s1, s2}
OneRoom == {c1}
TwoRooms == {c1, c2}
RoomSymmetry == Permutations(TwoRooms)
Symmetry == Permutations(TwoServers) \cup RoomSymmetry
=============================================================================

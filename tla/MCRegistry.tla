----------------------------- MODULE MCRegistry -----------------------------
(* Registry with two codes.                                                *)
EXTENDS Registry

CONSTANTS c1, c2, k1, k2, k3, h1

Codes == {c1, c2}
ThreeCreators == {k1, k2, k3}
OneHandler == {h1}
=============================================================================

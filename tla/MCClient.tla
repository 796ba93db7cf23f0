------------------------------ MODULE MCClient ------------------------------
(* Client, whose constants are numbers.                                    *)
EXTENDS Client
=============================================================================

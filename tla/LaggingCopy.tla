----------------------------- MODULE LaggingCopy -----------------------------
(***************************************************************************)
(* What persistence promises: a saved copy that follows the live rooms and *)
(* never runs ahead of them.  What was saved is lost only to a power cut,  *)
(* and a restart begins with exactly what was saved.                       *)
(*                                                                         *)
(* The states a room code goes through, its absence included, are numbered *)
(* by the stamp of the change that led to them.                            *)
(***************************************************************************)
EXTENDS Naturals

CONSTANT Code     \* room codes

VARIABLES
    live,         \* each code's state, as clients see it
    saved         \* each code's state, as a restart would find it

\* A code's state: the stamp of its last change, and is there a room?
Copy == [at : Nat, there : BOOLEAN]

\* No code in a is newer than in b.
NotAhead(a, b) == \A c \in Code : a[c].at <= b[c].at

Init ==
    /\ live = [c \in Code |-> [at |-> 0, there |-> FALSE]]
    /\ saved = live

\* Rooms are created, change and close.
Serve ==
    /\ live' \in [Code -> Copy]
    /\ \A c \in Code : live'[c] = live[c] \/ live'[c].at > live[c].at
    /\ UNCHANGED saved

\* The copy catches up, not necessarily all the way.
Save ==
    /\ saved' \in [Code -> Copy]
    /\ NotAhead(saved, saved') /\ NotAhead(saved', live)
    /\ UNCHANGED live

\* The server goes away: what a restart finds is what was saved.
Crash ==
    /\ live' = saved
    /\ UNCHANGED saved

\* The power fails, and the disk may come back with an earlier save.
PowerCut ==
    /\ saved' \in [Code -> Copy]
    /\ NotAhead(saved', saved)
    /\ live' = saved'

Next == Serve \/ Save \/ Crash \/ PowerCut

Spec == Init /\ [][Next]_<<live, saved>>
=============================================================================

------------------------- MODULE MCProjectRepositories -------------------------
(***************************************************************************)
(* Instances of ProjectRepositories for TLC.                               *)
(***************************************************************************)
EXTENDS ProjectRepositories, TLC

CONSTANTS r1, r2, r3, r4, initial, edited, none

Symmetric == Permutations(Requests) \cup Permutations(Trees)

=============================================================================

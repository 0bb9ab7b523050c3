------------------------- MODULE MCAccountSessions -------------------------
(* AccountSessions on a small instance.                                    *)
EXTENDS AccountSessions, TLC

Symmetry == Permutations(Requests)
=============================================================================

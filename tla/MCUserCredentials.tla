------------------------- MODULE MCUserCredentials -------------------------
(* UserCredentials on a small set of request slots, for TLC.               *)
EXTENDS UserCredentials, TLC

(* Request slots are interchangeable.                                      *)
Symmetry == Permutations(Reqs)
=============================================================================

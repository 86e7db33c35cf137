--------------------------- MODULE MCAuthSessions ---------------------------
(* AuthSessions on small sets, for TLC.                                    *)
EXTENDS AuthSessions, TLC

(* Accounts, tokens and request slots are interchangeable: Init and every  *)
(* property treat all members alike.  Used by safety runs only.            *)
Symmetry ==
    Permutations(Accounts) \cup Permutations(Tokens) \cup Permutations(Reqs)
=============================================================================

--------------------------- MODULE MCVaultEntries ---------------------------
(* VaultEntries on small sets, for TLC.                                    *)
EXTENDS VaultEntries, TLC

(* Accounts, ids, payloads and request slots are interchangeable.          *)
Symmetry ==
    Permutations(Accounts) \cup Permutations(Ids)
        \cup Permutations(Payloads) \cup Permutations(Reqs)
=============================================================================

--------------------------- MODULE MCVaultRecords ---------------------------
(* VaultRecords on small sets, for TLC.                                    *)
EXTENDS VaultRecords, TLC

(* Tasks, ids and payloads are interchangeable.                            *)
Symmetry == Permutations(Tasks) \cup Permutations(Ids) \cup Permutations(Payloads)
=============================================================================

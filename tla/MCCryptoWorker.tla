--------------------------- MODULE MCCryptoWorker ---------------------------
(* CryptoWorker in four circumstances, for TLC.                            *)
EXTENDS CryptoWorker

CONSTANTS a1, a2, o1, o2, o3

(* Forms that wait on a machine that does not fail; forms that are left    *)
(* and crashes; failures besides; everything that can go wrong.            *)
MCScenes == {
    [accts |-> {a1, a2}, ops |-> {o1, o2, o3}, may |-> {}],
    [accts |-> {a1, a2}, ops |-> {o1, o2}, may |-> {"remount", "crash"}],
    [accts |-> {a1}, ops |-> {o1, o2}, may |-> {"remount", "crash", "fail"}],
    [accts |-> {a1}, ops |-> {o1, o2}, may |-> Trouble]}
=============================================================================

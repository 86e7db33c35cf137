---------------------------- MODULE MCTabRefresh ----------------------------
(* TabRefresh on small sets, for TLC.                                      *)
EXTENDS TabRefresh, TLC
=============================================================================

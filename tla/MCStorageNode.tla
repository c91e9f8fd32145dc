--------------------------- MODULE MCStorageNode ---------------------------
(* The storage node for TLC.                                               *)
EXTENDS StorageNode, TLC

CONSTANTS alice, bob, r1, r2, png, none, absent, w1

Symmetric == Permutations({alice, bob}) \cup Permutations({r1, r2})
=============================================================================

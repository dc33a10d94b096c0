--------------------------- MODULE MCOfflineQueue ---------------------------
(* Two accounts share a browser; two writes, two concurrent flushes.       *)
EXTENDS OfflineQueue, TLC

CONSTANTS u1, u2, w1, w2, t1, k1, k2

Symmetry == Permutations({u1, u2}) \cup Permutations({w1, w2}) \cup Permutations({k1, k2})
=============================================================================

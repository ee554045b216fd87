---------------------------- MODULE MCLocalCache ----------------------------
(* Instances of LocalCache for TLC: callers and keys as model values.      *)
EXTENDS LocalCache

CONSTANTS p1, p2, p3, k1, k2
=============================================================================

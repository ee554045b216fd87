---------------------------- MODULE MCSourceTree ----------------------------
(* The instance of SourceTree for TLC.                                     *)
EXTENDS SourceTree, TLC

CONSTANTS v1, v2

OneArgs == <<"x">>
\* `build` runs again, and finds what it or publish has left in the cache.
TwoBuilds == ("p1" :> 1) @@ ("a1" :> 1) @@ ("b1" :> 2)
\* Only whether a file has changed matters, so the contents may be exchanged.
Versions == {v1, v2}
AnyVersion == Permutations(Versions)
=============================================================================

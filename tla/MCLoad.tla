------------------------------- MODULE MCLoad -------------------------------
(* Instances of Load for TLC.                                              *)
EXTENDS Load, TLC

CONSTANTS r1, r2

\* The primary need not be the first in the file.
TwoRegistries == <<r1, r2>>
\* Enough for a call that finds what an earlier one, or another caller, has left.
TwoAndOne == ("c1" :> 2) @@ ("c2" :> 1)
=============================================================================

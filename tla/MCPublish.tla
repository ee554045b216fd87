----------------------------- MODULE MCPublish ------------------------------
(* The instance of Publish for TLC.                                        *)
EXTENDS Publish, TLC

CONSTANTS p1, p2, a1, r1, r2, d1, d2

TwoRegistries == <<r1, r2>>
\* Enough for a command that is run again after it, or another one, has failed.
TwoOfOne == [p \in Runs |-> IF p = p1 THEN 2 ELSE 1]
\* Builds that differ matter to what follows a run, not to what overlaps it.
SerialOrReproducible ==
  {s \in [dev : BOOLEAN, serial : BOOLEAN, reproducible : BOOLEAN] : s.serial # s.reproducible}

\* The Releases differ in nothing but their names.
Names == Permutations({d1, d2})
=============================================================================

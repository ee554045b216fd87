--------------------------- MODULE ReleaseBinding ---------------------------
(***************************************************************************)
(* What a non-dev version is to those who load it: nothing, then one       *)
(* Release for ever (ADR-0011).  Load takes it for granted; Publish        *)
(* implements it over several registries while one publisher runs at a     *)
(* time.                                                                   *)
(***************************************************************************)
CONSTANTS Releases, None

VARIABLE bound

Init == bound = None

Bind(d) == bound = None /\ bound' = d

Next == \E d \in Releases : Bind(d)

Spec == Init /\ [][Next]_bound
=============================================================================

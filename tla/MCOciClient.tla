---------------------------- MODULE MCOciClient -----------------------------
(* Instances of OciClient for TLC.                                         *)
EXTENDS OciClient

CONSTANTS a1, a2
=============================================================================

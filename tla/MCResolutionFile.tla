-------------------------- MODULE MCResolutionFile --------------------------
(* Instances of ResolutionFile for TLC.                                    *)
EXTENDS ResolutionFile

CONSTANTS w1, w2, v1
=============================================================================

------------------------------ MODULE KernelGet ------------------------------
(***************************************************************************)
(* What k_dash.get promises of one version to the processes that call it,  *)
(* without registries, walks, locks, downloads or compilers                *)
(* (docs/design/python-api.md, ADR-0015, ADR-0032 and ADR-0043): a call    *)
(* returns a validated Build of a Release that the version names, or it    *)
(* raises; a Build is made once and is then what everybody gets.           *)
(*                                                                         *)
(* Load implements this specification (see Load!Contract).                 *)
(***************************************************************************)
CONSTANTS
  Callers,   \* the callers
  Releases,  \* Release digests
  None       \* "no value"

VARIABLES
  dev,      \* whether the version may move
  bound,    \* the Release it names
  named,    \* the Releases it has named so far
  built,    \* the Releases of which there is a Build in the cache
  status,   \* what has become of each caller's last call
  offline,  \* whether that call may ask no registry
  since,    \* the Releases the version has named since it began
  got       \* the Release whose Build it returned, or None

vars == <<dev, bound, named, built, status, offline, since, got>>
calls == <<status, offline, since, got>>

Init ==
  /\ dev \in BOOLEAN
  /\ bound \in Releases
  /\ named = {bound}
  /\ built = {}
  /\ status = [p \in Callers |-> "out"]
  /\ offline = [p \in Callers |-> FALSE]
  /\ since = [p \in Callers |-> {}]
  /\ got = [p \in Callers |-> None]

\* A call begins, or is refused at once.
Call(p) == \E off \in BOOLEAN :
  /\ status[p] # "in"
  /\ \E s \in {"in", "raised"} : status' = [status EXCEPT ![p] = s]
  /\ offline' = [offline EXCEPT ![p] = off]
  /\ since' = [since EXCEPT ![p] = {bound}]
  /\ got' = [got EXCEPT ![p] = None]
  /\ UNCHANGED <<dev, bound, named, built>>

\* An online call for a dev version is up to date: it takes a Release that the
\* version has named since the call began.  Other calls may know it from an
\* earlier one, which for a version that does not move is no difference.
Eligible(p) == IF dev /\ ~offline[p] THEN since[p] ELSE named

Return(p, d) ==
  /\ status[p] = "in"
  /\ d \in Eligible(p)
  /\ status' = [status EXCEPT ![p] = "returned"]
  /\ got' = [got EXCEPT ![p] = d]
  /\ UNCHANGED <<dev, bound, named, offline, since>>

\* The Build is there, and is returned ...
Find(p, d) == d \in built /\ Return(p, d) /\ UNCHANGED built

\* ... or it is not, and p downloads or compiles it, for all.
Make(p, d) == d \notin built /\ Return(p, d) /\ built' = built \cup {d}

\* An exception, or the death of the process: nothing that others see.
Stop(p) ==
  /\ status[p] = "in"
  /\ \E s \in {"raised", "out"} : status' = [status EXCEPT ![p] = s]
  /\ UNCHANGED <<dev, bound, named, built, offline, since, got>>

\* Another Release is published under a dev version.
Move(d) ==
  /\ dev
  /\ bound' = d
  /\ named' = named \cup {d}
  /\ since' = [p \in Callers |-> IF status[p] = "in" THEN since[p] \cup {d} ELSE since[p]]
  /\ UNCHANGED <<dev, built, status, offline, got>>

Next ==
  \/ \E p \in Callers : Call(p) \/ Stop(p) \/ \E d \in Releases : Find(p, d) \/ Make(p, d)
  \/ \E d \in Releases : Move(d)

Spec == Init /\ [][Next]_vars
=============================================================================

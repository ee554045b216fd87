-------------------------------- MODULE Load --------------------------------
(***************************************************************************)
(* k_dash.get, from the version to a path: release resolution, the Release *)
(* and Build caches, the walk over the registries, Local JIT               *)
(* (api.get, runtime.resolve_release, pull_release, _binary_registry and   *)
(* materialize).  One kernel, one version, one BuildSpec apart from the    *)
(* Release: a BuildKey is named by its Release digest.  The callers share  *)
(* one cache root.                                                         *)
(*                                                                         *)
(* The cache is used as ContentStore promises (LocalCache implements it    *)
(* while nothing is pruned or cleaned); a call that loses the race of an   *)
(* unlocked commit fails, and so may one that caches its resolution while  *)
(* another does (ResolutionFile).  The registries answer anything, at any  *)
(* time: the secondaries need not know which Release a dev version names   *)
(* at the primary; a version that is not one names the same everywhere.    *)
(* Whether the version is a dev version is chosen once, and each call has  *)
(* the K_DASH_OFFLINE of its process.  What all of this comes to for a     *)
(* caller is KernelGet, which this module implements (Contract).           *)
(***************************************************************************)
EXTENDS Naturals, Sequences

CONSTANTS
  Callers,   \* processes and threads calling k_dash.get
  Order,     \* the registries, in the order of ~/.config/k-dash.yaml
  Primary,   \* the one with `primary: true`
  Releases,  \* Release digests
  MaxCalls,  \* bound: MaxCalls[p] calls of caller p
  None       \* "no value"

Registries == {Order[i] : i \in DOMAIN Order}
Torn == "torn"

ASSUME LoadAssumption ==
  /\ Order \in Seq(Registries)
  /\ \A i, j \in DOMAIN Order : Order[i] = Order[j] => i = j
  /\ Primary \in Registries
  /\ Releases # {}
  /\ MaxCalls \in [Callers -> Nat]
  /\ None \notin Callers \cup Registries \cup Releases
  /\ Torn \notin Releases

VARIABLES
  dev,         \* whether the version starts with "dev-"; never changes
  bound,       \* the Release the version names at the primary (a dev version moves)
  resolution,  \* the cached resolution of the version; Torn: an empty file
  releases,    \* Release digests in the Release cache
  builds,      \* the Build cache: what is stored under each BuildKey
  holder,      \* who holds the lock of each BuildKey
  pc,          \* where each caller is
  calls,       \* how often it has called
  offline,     \* whether it is called with K_DASH_OFFLINE=1
  digest,      \* the Release digest it has resolved
  authority,   \* the registry that resolved it, later the one it was refused by
  idx,         \* its position in the walk over the registries
  held,        \* the kernel.so it has downloaded or compiled
  error,       \* <<stage, kind>> of the exception it raised
  \* History, for the properties.
  named,       \* the Releases the version has named so far
  tried,       \* what each registry answered in the current walk
  current,     \* the Releases the version has named since the call began
  warm         \* whether everything was cached when the call began

vars == <<dev, bound, named, resolution, releases, builds, holder, pc, calls, offline, digest,
          authority, idx, held, error, tried, current, warm>>
cache == <<resolution, releases, builds, holder>>
version == <<dev, bound, named>>
call == <<calls, offline, warm>>

Busy == {"ask", "record", "release", "pull", "commit_release", "build", "lock", "recheck",
         "binary", "source", "compile", "validate", "commit"}
\* "bad" fails a check; "raw" raises no KDashError: a token answer or a manifest
\* that is not JSON.
Damaged == {"bad", "raw"}
Answers == {"no", "unreachable", "absent", "found"} \cup Damaged
Stages == {"resolve", "release", "binary", "source", "compile", "validate", "cache", "none"}
Kinds == {"access", "not_found", "content", "raw", "offline", "build", "race", "torn", "none"}

TypeOK ==
  /\ dev \in BOOLEAN
  /\ bound \in Releases
  /\ named \subseteq Releases
  /\ resolution \in Releases \cup {None, Torn}
  /\ releases \subseteq Releases
  /\ builds \in [Releases -> {"none", "good", "bad"}]
  /\ holder \in [Releases -> Callers \cup {None}]
  /\ pc \in [Callers -> Busy \cup {"idle", "served", "failed"}]
  /\ calls \in [Callers -> Nat]
  /\ offline \in [Callers -> BOOLEAN]
  /\ digest \in [Callers -> Releases \cup {None}]
  /\ authority \in [Callers -> Registries \cup {None}]
  /\ idx \in [Callers -> 1 .. Len(Order)]
  /\ held \in [Callers -> {"none", "good", "bad"}]
  /\ error \in [Callers -> Stages \X Kinds]
  /\ tried \in [Callers -> [Registries -> Answers]]
  /\ current \in [Callers -> SUBSET Releases]
  /\ warm \in [Callers -> BOOLEAN]

NoError == <<"none", "none">>
NotTried == [r \in Registries |-> "no"]

Init ==
  /\ dev \in BOOLEAN
  /\ bound \in Releases
  /\ named = {bound}
  /\ resolution = None
  /\ releases = {}
  /\ builds = [d \in Releases |-> "none"]
  /\ holder = [d \in Releases |-> None]
  /\ pc = [p \in Callers |-> "idle"]
  /\ calls = [p \in Callers |-> 0]
  /\ offline = [p \in Callers |-> FALSE]
  /\ digest = [p \in Callers |-> None]
  /\ authority = [p \in Callers |-> None]
  /\ idx = [p \in Callers |-> 1]
  /\ held = [p \in Callers |-> "none"]
  /\ error = [p \in Callers |-> NoError]
  /\ tried = [p \in Callers |-> NotTried]
  /\ current = [p \in Callers |-> {}]
  /\ warm = [p \in Callers |-> FALSE]

-----------------------------------------------------------------------------
(* Parts of the handlers.                                                  *)

Goto(p, l) == pc' = [pc EXCEPT ![p] = l]

\* Mutant: an exception does not release the lock.
LockLeft(p) == holder

\* The exception leaves get(); `with build_lock` releases the lock.
Unlocked(p) == [d \in Releases |-> IF holder[d] = p THEN None ELSE holder[d]]

Fail(p, stage, kind) ==
  /\ Goto(p, "failed")
  /\ error' = [error EXCEPT ![p] = <<stage, kind>>]
  /\ holder' = Unlocked(p)

\* r answered p's request in this walk.
Answer(p, r, a) == tried' = [tried EXCEPT ![p][r] = a]

\* The registries but r, in the order of the file.
Others(r) ==
  LET k == CHOOSE i \in DOMAIN Order : Order[i] = r
  IN SubSeq(Order, 1, k - 1) \o SubSeq(Order, k + 1, Len(Order))

\* resolve_release asks the primary, then the secondaries in their order.
ResolveOrder == <<Primary>> \o Others(Primary)

\* _binary_registry asks the authority, then the others in their order.
BinaryOrder(p) == <<authority[p]>> \o Others(authority[p])

\* The cached resolution is used for a version that cannot move, or offline.
UseCached(off) == resolution \notin {None, Torn} /\ (off \/ ~dev)

\* Mutant: the last registry is never asked.
NextButLast(p, stage) ==
  IF idx[p] + 1 < Len(Order)
  THEN idx' = [idx EXCEPT ![p] = @ + 1] /\ UNCHANGED <<pc, error, holder>>
  ELSE Fail(p, stage, "access") /\ UNCHANGED idx

\* Walking on after RegistryAccessFailure: to the next registry, if any.
NextRegistry(p, stage) ==
  IF idx[p] < Len(Order)
  THEN idx' = [idx EXCEPT ![p] = @ + 1] /\ UNCHANGED <<pc, error, holder>>
  ELSE Fail(p, stage, "access") /\ UNCHANGED idx

\* Mutant: a dev version is asked of the secondaries too.
VersionFailsOver(p) == NextRegistry(p, "resolve")

\* RegistryAccessFailure for the version: the secondaries may stand in, but
\* not for a dev version.
VersionUnreachable(p) ==
  IF dev THEN Fail(p, "resolve", "access") /\ UNCHANGED idx
         ELSE NextRegistry(p, "resolve")

\* The Releases that r may say the version names.
NamedBy(r) == IF dev /\ r # Primary THEN Releases ELSE {bound}

-----------------------------------------------------------------------------
(* Release resolution.                                                     *)

\* get() begins, and reads the cached resolution, which may raise.
Begin(p) == \E off \in BOOLEAN :
  /\ pc[p] \in {"idle", "served", "failed"}
  /\ calls[p] < MaxCalls[p]
  /\ calls' = [calls EXCEPT ![p] = @ + 1]
  /\ offline' = [offline EXCEPT ![p] = off]
  /\ tried' = [tried EXCEPT ![p] = NotTried]
  /\ current' = [current EXCEPT ![p] = {bound}]
  /\ warm' = [warm EXCEPT ![p] = /\ UseCached(off)
                                 /\ resolution \in releases
                                 /\ builds[resolution] # "none"]
  /\ held' = [held EXCEPT ![p] = "none"]
  /\ idx' = [idx EXCEPT ![p] = 1]
  /\ \/ /\ resolution = Torn
        /\ Goto(p, "failed")
        /\ error' = [error EXCEPT ![p] = <<"cache", "torn">>]
        /\ UNCHANGED <<digest, authority>>
     \/ /\ UseCached(off)
        /\ digest' = [digest EXCEPT ![p] = resolution]
        /\ authority' = [authority EXCEPT ![p] = Primary]
        /\ error' = [error EXCEPT ![p] = NoError]
        /\ Goto(p, "release")
     \/ /\ resolution # Torn /\ ~UseCached(off)
        /\ digest' = [digest EXCEPT ![p] = None]
        /\ authority' = [authority EXCEPT ![p] = None]
        /\ IF off
           THEN Goto(p, "failed") /\ error' = [error EXCEPT ![p] = <<"resolve", "offline">>]
           ELSE Goto(p, "ask") /\ error' = [error EXCEPT ![p] = NoError]
  /\ UNCHANGED <<version, cache>>

\* get_manifest("release-<version>").  A 404 and a bad manifest are final.
AskVersion(p) ==
  LET r == ResolveOrder[idx[p]] IN
  /\ pc[p] = "ask"
  /\ \/ /\ Answer(p, r, "found")
        /\ \E d \in NamedBy(r) : digest' = [digest EXCEPT ![p] = d]
        /\ authority' = [authority EXCEPT ![p] = r]
        /\ Goto(p, "record")
        /\ UNCHANGED <<error, idx, holder>>
     \/ /\ Answer(p, r, "absent")
        /\ Fail(p, "resolve", "not_found")
        /\ UNCHANGED <<digest, authority, idx>>
     \/ /\ Answer(p, r, "bad")
        /\ Fail(p, "resolve", "content")
        /\ UNCHANGED <<digest, authority, idx>>
     \/ /\ Answer(p, r, "raw")
        /\ Fail(p, "resolve", "raw")
        /\ UNCHANGED <<digest, authority, idx>>
     \/ /\ Answer(p, r, "unreachable")
        /\ VersionUnreachable(p)
        /\ UNCHANGED <<digest, authority>>
  /\ UNCHANGED <<version, resolution, releases, builds, held, current, call>>

\* put_resolution, under the name of the primary whoever answered.  Callers
\* that are in it together may leave an empty file to each other, or find
\* their temporary file gone (ResolutionFile).
Record(p) ==
  /\ pc[p] = "record"
  /\ \/ /\ resolution' = digest[p]
        /\ Goto(p, "release")
        /\ UNCHANGED <<error, holder>>
     \/ /\ \E q \in Callers \ {p} : pc[q] = "record"
        /\ resolution' = Torn
        /\ Goto(p, "release")
        /\ UNCHANGED <<error, holder>>
     \/ /\ Callers # {p}
        /\ resolution' \in {resolution, digest[p]}
        /\ Fail(p, "cache", "race")
  /\ UNCHANGED <<version, releases, builds, digest, authority, idx, held, tried, current, call>>

-----------------------------------------------------------------------------
(* The Release.                                                            *)

\* Mutant: the Release cache is not read.
LookReleaseNever(p) ==
  /\ pc[p] = "release"
  /\ Goto(p, "pull")
  /\ UNCHANGED <<version, resolution, releases, builds, digest, authority, idx, held,
                 tried, current, call, error, holder>>

\* get_release.
LookRelease(p) ==
  /\ pc[p] = "release"
  /\ IF digest[p] \in releases
     THEN Goto(p, "build") /\ UNCHANGED <<error, holder>>
     ELSE IF offline[p]
          THEN Fail(p, "release", "offline")
          ELSE Goto(p, "pull") /\ UNCHANGED <<error, holder>>
  /\ UNCHANGED <<version, resolution, releases, builds, digest, authority, idx, held,
                 tried, current, call>>

\* pull_release from the authority, and no other.
PullRelease(p) ==
  /\ pc[p] = "pull"
  /\ \/ Answer(p, authority[p], "found") /\ Goto(p, "commit_release") /\ UNCHANGED <<error, holder>>
     \/ Answer(p, authority[p], "absent") /\ Fail(p, "release", "not_found")
     \/ Answer(p, authority[p], "bad") /\ Fail(p, "release", "content")
     \/ Answer(p, authority[p], "raw") /\ Fail(p, "release", "raw")
     \/ Answer(p, authority[p], "unreachable") /\ Fail(p, "release", "access")
  /\ UNCHANGED <<version, resolution, releases, builds, digest, authority, idx, held,
                 current, call>>

\* commit_release, which takes no lock and may lose a race.
CommitRelease(p) ==
  /\ pc[p] = "commit_release"
  /\ \/ /\ releases' = releases \cup {digest[p]}
        /\ Goto(p, "build")
        /\ UNCHANGED <<error, holder>>
     \/ /\ digest[p] \in releases
        /\ Fail(p, "cache", "race")
        /\ UNCHANGED releases
  /\ UNCHANGED <<version, resolution, builds, digest, authority, idx, held, tried,
                 current, call>>

-----------------------------------------------------------------------------
(* The Build: materialize.                                                 *)

\* The first look, without the lock.
LookBuild(p) ==
  /\ pc[p] = "build"
  /\ Goto(p, IF builds[digest[p]] # "none" THEN "served" ELSE "lock")
  /\ UNCHANGED <<version, cache, digest, authority, idx, held, error, tried, current, call>>

Lock(p) ==
  /\ pc[p] = "lock"
  /\ holder[digest[p]] = None
  /\ holder' = [holder EXCEPT ![digest[p]] = p]
  /\ Goto(p, "recheck")
  /\ UNCHANGED <<version, resolution, releases, builds, digest, authority, idx, held, error,
                 tried, current, call>>

\* Mutant: K_DASH_OFFLINE is not read again.
RecheckOnline(p) ==
  /\ pc[p] = "recheck"
  /\ builds[digest[p]] = "none"
  /\ tried' = [tried EXCEPT ![p] = NotTried]
  /\ idx' = [idx EXCEPT ![p] = 1]
  /\ Goto(p, "binary")
  /\ UNCHANGED <<version, resolution, releases, builds, digest, authority, held, error, holder,
                 current, call>>

\* The second look; then the registries, or offline the cached source.
Recheck(p) ==
  /\ pc[p] = "recheck"
  /\ \/ /\ builds[digest[p]] # "none"
        /\ Goto(p, "served")
        /\ holder' = Unlocked(p)
        /\ UNCHANGED <<error, tried, idx>>
     \/ /\ builds[digest[p]] = "none"
        /\ offline[p]
        /\ IF digest[p] \in releases
           THEN Goto(p, "compile") /\ UNCHANGED <<error, holder>>
           ELSE Fail(p, "source", "offline")
        /\ UNCHANGED <<tried, idx>>
     \/ /\ builds[digest[p]] = "none"
        /\ ~offline[p]
        /\ tried' = [tried EXCEPT ![p] = NotTried]
        /\ idx' = [idx EXCEPT ![p] = 1]
        /\ Goto(p, "binary")
        /\ UNCHANGED <<error, holder>>
  /\ UNCHANGED <<version, resolution, releases, builds, digest, authority, held, current, call>>

\* Mutant: an unreachable registry counts as a miss.
AskBinaryMissOnFailure(p) ==
  LET r == BinaryOrder(p)[idx[p]] IN
  /\ pc[p] = "binary"
  /\ Answer(p, r, "unreachable")
  /\ authority' = [authority EXCEPT ![p] = r]
  /\ Goto(p, "source")
  /\ UNCHANGED <<version, resolution, releases, builds, digest, current, call, idx, held,
                 error, holder>>

\* Mutant: a content error leads to the next registry.
AskBinaryBadFailsOver(p) ==
  LET r == BinaryOrder(p)[idx[p]] IN
  /\ pc[p] = "binary"
  /\ Answer(p, r, "bad")
  /\ NextRegistry(p, "binary")
  /\ UNCHANGED <<version, resolution, releases, builds, digest, current, call, authority, held>>

\* pull("build-<BuildKey>") from the next registry of the walk.  The first
\* that answers decides: with an artifact, or with a 404 that makes it the
\* source of the Release to compile.
AskBinary(p) ==
  LET r == BinaryOrder(p)[idx[p]] IN
  /\ pc[p] = "binary"
  /\ \/ /\ \E a \in {"found", "bad"} :
             /\ Answer(p, r, a)
             /\ held' = [held EXCEPT ![p] = IF a = "bad" THEN "bad" ELSE "good"]
        /\ Goto(p, "validate")
        /\ UNCHANGED <<authority, idx, error, holder>>
     \/ /\ Answer(p, r, "absent")
        /\ authority' = [authority EXCEPT ![p] = r]
        /\ Goto(p, "source")
        /\ UNCHANGED <<idx, held, error, holder>>
     \/ /\ Answer(p, r, "raw")
        /\ Fail(p, "binary", "raw")
        /\ UNCHANGED <<authority, idx, held>>
     \/ /\ Answer(p, r, "unreachable")
        /\ NextRegistry(p, "binary")
        /\ UNCHANGED <<authority, held>>
  /\ UNCHANGED <<version, resolution, releases, builds, digest, current, call>>

\* pull_release from the registry that has no Build, cached or not.
PullSource(p) ==
  /\ pc[p] = "source"
  /\ \/ Goto(p, "compile") /\ UNCHANGED <<error, holder>>
     \/ Fail(p, "source", "not_found")
     \/ Fail(p, "source", "content")
     \/ Fail(p, "source", "raw")
     \/ Fail(p, "source", "access")
  /\ UNCHANGED <<version, resolution, releases, builds, digest, authority, idx, held, tried,
                 current, call>>

\* local_jit.
Compile(p) ==
  /\ pc[p] = "compile"
  /\ \/ /\ \E h \in {"good", "bad"} : held' = [held EXCEPT ![p] = h]
        /\ Goto(p, "validate")
        /\ UNCHANGED <<error, holder>>
     \/ Fail(p, "compile", "build") /\ UNCHANGED held
  /\ UNCHANGED <<version, resolution, releases, builds, digest, authority, idx, tried,
                 current, call>>

\* Mutant: what was downloaded or compiled is not looked at.
ValidateNothing(p) ==
  /\ pc[p] = "validate"
  /\ Goto(p, "commit")
  /\ UNCHANGED <<version, resolution, releases, builds, digest, authority, idx, held, tried,
                 current, call, error, holder>>

\* validate_build_config and validate_kernel_so.
Validate(p) ==
  /\ pc[p] = "validate"
  /\ IF held[p] = "good" THEN Goto(p, "commit") /\ UNCHANGED <<error, holder>>
                         ELSE Fail(p, "validate", "content")
  /\ UNCHANGED <<version, resolution, releases, builds, digest, authority, idx, held, tried,
                 current, call>>

\* commit_build, under the lock.
CommitBuild(p) ==
  /\ pc[p] = "commit"
  /\ builds' = [builds EXCEPT ![digest[p]] = held[p]]
  /\ Goto(p, "served")
  /\ holder' = Unlocked(p)
  /\ UNCHANGED <<version, resolution, releases, digest, authority, idx, held, error, tried,
                 current, call>>

-----------------------------------------------------------------------------
(* The surroundings.                                                       *)

\* The caller's process dies, with all it knew; the OS releases its lock.
Die(p) ==
  /\ pc[p] \in Busy
  /\ Goto(p, "idle")
  /\ holder' = Unlocked(p)
  /\ digest' = [digest EXCEPT ![p] = None]
  /\ authority' = [authority EXCEPT ![p] = None]
  /\ idx' = [idx EXCEPT ![p] = 1]
  /\ held' = [held EXCEPT ![p] = "none"]
  /\ error' = [error EXCEPT ![p] = NoError]
  /\ tried' = [tried EXCEPT ![p] = NotTried]
  /\ UNCHANGED <<version, resolution, releases, builds, current, call>>

\* Somebody publishes another Release under the dev version.
Move(d) ==
  /\ dev
  /\ d # bound
  /\ bound' = d
  /\ named' = named \cup {d}
  /\ current' = [p \in Callers |-> IF pc[p] \in Busy THEN current[p] \cup {d} ELSE current[p]]
  /\ UNCHANGED <<dev, cache, pc, call, digest, authority, idx, held, error, tried>>

Step(p) ==
  \/ AskVersion(p) \/ Record(p) \/ LookRelease(p) \/ PullRelease(p) \/ CommitRelease(p)
  \/ LookBuild(p) \/ Lock(p) \/ Recheck(p) \/ AskBinary(p) \/ PullSource(p)
  \/ Compile(p) \/ Validate(p) \/ CommitBuild(p)

Next ==
  \/ \E p \in Callers : Begin(p) \/ Step(p) \/ Die(p)
  \/ \E d \in Releases : Move(d)

Spec == Init /\ [][Next]_vars

\* Requests and compilations time out, so every step a caller can take is
\* taken in the end; the lock is not fair.
FairSpec == Spec /\ \A p \in Callers : WF_vars(Step(p))

-----------------------------------------------------------------------------
(* Properties.                                                             *)

\* An online load of a dev version uses a Release the primary named after the
\* call began: never the cached resolution, and never what a secondary says it
\* names, not even while the primary is unreachable (ADR-0015).
DevIsCurrent ==
  \A p \in Callers :
    dev /\ ~offline[p] /\ pc[p] \in (Busy \cup {"served"}) \ {"ask"} =>
      digest[p] \in current[p]

\* A caller compiles only on the authoritative 404 of one registry for the
\* exact BuildKey, all those it asked before being unreachable (ADR-0032).
CompileOnlyAfterMiss ==
  \A p \in Callers : ~offline[p] /\ pc[p] \in {"source", "compile"} =>
    /\ tried[p][authority[p]] = "absent"
    /\ \A r \in Registries \ {authority[p]} : tried[p][r] \in {"no", "unreachable"}

\* An answer that fails a check, or that raises something else than a
\* KDashError, ends the call with that error: no other registry is asked, and
\* nothing is compiled in its place (ADR-0033).
FailClosed ==
  \A p \in Callers : (\E r \in Registries : tried[p][r] \in Damaged) =>
    /\ pc[p] \in {"validate", "failed", "idle"}
    /\ pc[p] = "failed" => error[p][2] \in {"content", "raw"}

\* Resolution and the Build lookup give up for want of access only when no
\* registry they may ask could be reached.
WalkIsExhaustive ==
  \A p \in Callers :
    pc[p] = "failed" /\ error[p] \in {<<"resolve", "access">>, <<"binary", "access">>} =>
      \/ \A r \in Registries : tried[p][r] = "unreachable"
      \/ dev /\ error[p][1] = "resolve" /\ tried[p][Primary] = "unreachable"

\* Once resolution, Release and Build are cached, a call that may use the
\* resolution, and can read it, succeeds without a request, whatever the
\* registries and the other calls do.
WarmServes ==
  \A p \in Callers : warm[p] => pc[p] # "failed" /\ tried[p] = NotTried

\* K_DASH_OFFLINE=1 forbids every request, in each of the three places that
\* would make one (docs/design/local-cache.md).
OfflineIsSilent ==
  \A p \in Callers : offline[p] =>
    pc[p] \notin {"ask", "pull", "binary", "source"} /\ tried[p] = NotTried

\* What a call has come to, for its caller.
Status(p) == CASE pc[p] \in Busy -> "in"
               [] pc[p] = "served" -> "returned"
               [] pc[p] = "failed" -> "raised"
               [] OTHER -> "out"

\* What is promised of k_dash.get: KernelGet.
Get == INSTANCE KernelGet WITH
  built <- {d \in Releases : builds[d] = "good"},
  status <- [p \in Callers |-> Status(p)],
  since <- current,
  got <- [p \in Callers |-> IF pc[p] = "served" THEN digest[p] ELSE None]

\* Whatever the registries answer, whoever dies and however the callers
\* overlap, a call returns a validated Build of a Release that the version
\* names, which no later call replaces, or it raises and changes no Build.
Contract == Get!Spec

\* Every call returns or raises.
Terminates == \A p \in Callers : pc[p] \in Busy ~> pc[p] \notin Busy
=============================================================================

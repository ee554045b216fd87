------------------------------ MODULE Publish -------------------------------
(***************************************************************************)
(* Publication of one version of one kernel to all configured registries:  *)
(* publish.publish_release and publish.publish_build over oci.OCIClient,   *)
(* with lost answers, crashes, retries and several publishers.             *)
(*                                                                         *)
(* A publisher makes one Release (named by its digest) and, if it is given *)
(* AOT args, one Build of it; an adder makes one Build of the Release that *)
(* the version names.  A BuildKey is named by the Release it belongs to, a *)
(* Build manifest by its Release and the output of the compilation, which  *)
(* need not be reproducible.  What the publishers release, and in which    *)
(* scene, is chosen once.                                                  *)
(***************************************************************************)
EXTENDS Naturals, Sequences

CONSTANTS
  Publishers,  \* runs of `k-dash publish`
  Adders,      \* runs of `k-dash publish-build`
  Releases,    \* the digests of the Releases they make
  WithBuild,   \* the publishers that are given AOT args
  Outputs,     \* what compiling one BuildSpec may deliver
  Order,       \* the registries, in the order of ~/.config/k-dash.yaml
  Primary,     \* the one with `primary: true`
  Scenes,      \* the scenes: a dev version or not, runs that never overlap or
               \* do, compilation that is reproducible or not
  MaxTries,    \* bound: MaxTries[p] starts of command p
  None         \* "no value"

Runs == Publishers \cup Adders
Registries == {Order[i] : i \in DOMAIN Order}

ASSUME PublishAssumption ==
  /\ Publishers \cap Adders = {}
  /\ WithBuild \subseteq Publishers
  /\ Outputs # {}
  /\ Order \in Seq(Registries)
  /\ \A i, j \in DOMAIN Order : Order[i] = Order[j] => i = j
  /\ Primary \in Registries
  /\ Scenes \subseteq [dev : BOOLEAN, serial : BOOLEAN, reproducible : BOOLEAN]
  /\ MaxTries \in [Runs -> Nat]
  /\ None \notin Releases \cup Outputs

VARIABLES
  scene,     \* the scene; never changes
  source,    \* the Release that each publisher makes; never changes
  version,   \* version[r]: the Release under the tag release-<version> of r
  built,     \* built[r][d]: the Build output under the tag build-<BuildKey> of r
  blobs,     \* blobs[r]: the blobs r holds, <<artifact, "config" or "layer">>
  pc,        \* where each run is
  tries,     \* how often it has been started
  release,   \* the Release it publishes, or adds a Build to
  output,    \* what it has compiled
  idx,       \* the registry it is working on
  todo,      \* what it still has to push there
  error,     \* why it ended
  touched    \* history: whether it has changed a tag since it was started

vars == <<scene, source, version, built, blobs, pc, tries, release, output, idx, todo, error,
          touched>>
setting == <<scene, source>>
registry == <<version, built, blobs>>
self == <<release, output>>
place == <<idx, todo>>

\* Mutant: the manifest goes first.
TagFirst(a) == << <<a, "tag">>, <<a, "config">>, <<a, "layer">> >>

\* The two artifacts of a run, and what is pushed for each of them, in order.
ReleaseArtifact(p) == <<"release", release[p], None>>
BuildArtifact(p) == <<"build", release[p], output[p]>>
Pieces(a) == << <<a, "config">>, <<a, "layer">>, <<a, "tag">> >>

Artifacts == ({"release"} \X Releases \X {None}) \cup ({"build"} \X Releases \X Outputs)
AllBlobs == Artifacts \X {"config", "layer"}
Running == {"build", "pull", "check", "check_build", "moved", "push", "finish"}
Errors == {"none", "access", "build", "conflict", "moved", "cache", "not_found",
           "integrity"}

TypeOK ==
  /\ scene \in Scenes
  /\ source \in [Publishers -> Releases]
  /\ version \in [Registries -> Releases \cup {None}]
  /\ built \in [Registries -> [Releases -> Outputs \cup {None}]]
  /\ blobs \in [Registries -> SUBSET AllBlobs]
  /\ pc \in [Runs -> Running \cup {"idle", "done", "failed"}]
  /\ tries \in [Runs -> Nat]
  /\ release \in [Runs -> Releases \cup {None}]
  /\ output \in [Runs -> Outputs \cup {None}]
  /\ idx \in [Runs -> 1 .. Len(Order)]
  /\ todo \in [Runs -> Seq(Artifacts \X {"config", "layer", "tag"})]
  /\ error \in [Runs -> Errors]
  /\ touched \in [Runs -> BOOLEAN]

Init ==
  /\ scene \in Scenes
  /\ source \in [Publishers -> Releases]
  /\ version = [r \in Registries |-> None]
  /\ built = [r \in Registries |-> [d \in Releases |-> None]]
  /\ blobs = [r \in Registries |-> {}]
  /\ pc = [p \in Runs |-> "idle"]
  /\ tries = [p \in Runs |-> 0]
  /\ release = [p \in Runs |-> None]
  /\ output = [p \in Runs |-> None]
  /\ idx = [p \in Runs |-> 1]
  /\ todo = [p \in Runs |-> <<>>]
  /\ error = [p \in Runs |-> "none"]
  /\ touched = [p \in Runs |-> FALSE]

-----------------------------------------------------------------------------
(* Parts of the handlers.                                                  *)

Goto(p, l) == pc' = [pc EXCEPT ![p] = l]

\* The variables of the process are gone with it.
Forget(p) ==
  /\ release' = [release EXCEPT ![p] = None]
  /\ output' = [output EXCEPT ![p] = None]
  /\ idx' = [idx EXCEPT ![p] = 1]
  /\ todo' = [todo EXCEPT ![p] = <<>>]

\* The command ends with an exception.
Fail(p, e) ==
  /\ Goto(p, "failed")
  /\ error' = [error EXCEPT ![p] = e]
  /\ Forget(p)

At(p) == Order[idx[p]]

\* What a run pushes to each registry: OCIClient.push for the Build, and then,
\* in `publish`, for the Release.
Plan(p) ==
  (IF output[p] # None THEN Pieces(BuildArtifact(p)) ELSE <<>>)
    \o (IF p \in Publishers THEN Pieces(ReleaseArtifact(p)) ELSE <<>>)

\* Mutant: each registry is checked when its turn to be pushed to has come.
NoneFirst(p) == FALSE

\* publish_release checks every registry before it pushes to any; publish_build
\* checks and pushes to each in turn.
AllFirst(p) == p \in Publishers

\* The first of the checks of a registry.
FirstCheck(p) == IF p \in Publishers THEN "check" ELSE "check_build"

\* Where a run goes once registry idx[p] has passed its checks.
Checked(p) ==
  IF AllFirst(p) /\ idx[p] < Len(Order)
  THEN /\ idx' = [idx EXCEPT ![p] = @ + 1]
       /\ Goto(p, FirstCheck(p))
       /\ UNCHANGED todo
  ELSE /\ idx' = [idx EXCEPT ![p] = IF AllFirst(p) THEN 1 ELSE @]
       /\ todo' = [todo EXCEPT ![p] = Plan(p)]
       /\ Goto(p, "push")

\* The registry accepts the piece.
Store(p) ==
  LET r == At(p)
      piece == Head(todo[p])
      a == piece[1]
  IN IF piece[2] # "tag"
     THEN /\ blobs' = [blobs EXCEPT ![r] = @ \cup {piece}]
          /\ UNCHANGED <<version, built, touched>>
     ELSE /\ IF a[1] = "release"
             THEN version' = [version EXCEPT ![r] = a[2]] /\ UNCHANGED built
             ELSE built' = [built EXCEPT ![r][a[2]] = a[3]] /\ UNCHANGED version
          /\ touched' = [touched EXCEPT ![p] = TRUE]
          /\ UNCHANGED blobs

-----------------------------------------------------------------------------
(* The commands.                                                           *)

\* A command is run, for the first time or again.  publish_release packs its
\* source; publish_build has to resolve and pull the Release.
Begin(p) ==
  /\ pc[p] \in {"idle", "done", "failed"}
  /\ tries[p] < MaxTries[p]
  /\ scene.serial => \A q \in Runs \ {p} : pc[q] \notin Running
  /\ tries' = [tries EXCEPT ![p] = @ + 1]
  /\ release' = [release EXCEPT ![p] = IF p \in Publishers THEN source[p] ELSE None]
  /\ output' = [output EXCEPT ![p] = None]
  /\ idx' = [idx EXCEPT ![p] = 1]
  /\ todo' = [todo EXCEPT ![p] = <<>>]
  /\ error' = [error EXCEPT ![p] = "none"]
  /\ touched' = [touched EXCEPT ![p] = FALSE]
  /\ Goto(p, CASE p \in Adders -> "pull"
               [] p \in WithBuild -> "build"
               [] OTHER -> "check")
  /\ UNCHANGED registry

\* publish_build: resolve_release and pull_release.
PullRelease(p) ==
  /\ pc[p] = "pull"
  /\ \/ \E r \in Registries :
          /\ scene.dev => r = Primary
          /\ version[r] # None
          /\ release' = [release EXCEPT ![p] = version[r]]
          /\ Goto(p, "build")
          /\ UNCHANGED <<output, place, error>>
     \/ /\ \E r \in Registries : (scene.dev => r = Primary) /\ version[r] = None
        /\ Fail(p, "not_found")
     \/ Fail(p, "access")
  /\ UNCHANGED <<registry, tries, touched>>

\* docker_aot or nix_aot, and the validation of its result.
Build(p) ==
  /\ pc[p] = "build"
  /\ \/ /\ \E o \in IF scene.reproducible THEN {CHOOSE o \in Outputs : TRUE} ELSE Outputs :
             output' = [output EXCEPT ![p] = o]
        /\ Goto(p, CASE p \in Publishers -> "check"
                     [] p \in Adders /\ scene.dev -> "moved"
                     [] OTHER -> "check_build")
        /\ UNCHANGED <<release, place, error>>
     \/ Fail(p, "build")
  /\ UNCHANGED <<registry, tries, touched>>

\* publish_build: the dev version is resolved again.
CheckMoved(p) ==
  /\ pc[p] = "moved"
  /\ \/ version[Primary] = release[p] /\ Goto(p, "check_build") /\ UNCHANGED <<self, place, error>>
     \/ version[Primary] # release[p] /\ Fail(p, "moved")
     \/ Fail(p, "access")
  /\ UNCHANGED <<registry, tries, touched>>

\* Mutant: a version that is bound to another Release is no conflict.
CheckReleaseNever(p) ==
  /\ pc[p] = "check"
  /\ IF p \in WithBuild THEN Goto(p, "check_build") /\ UNCHANGED place ELSE Checked(p)
  /\ UNCHANGED <<registry, tries, touched, self, error>>

\* Mutant: a version that is bound at all is a conflict.
CheckReleaseAbsent(p) ==
  /\ pc[p] = "check"
  /\ \/ version[At(p)] = None /\ Checked(p) /\ UNCHANGED <<self, error>>
     \/ version[At(p)] # None /\ Fail(p, "conflict")
  /\ UNCHANGED <<registry, tries, touched>>

\* _check_release_binding for the next registry.
CheckRelease(p) ==
  LET there == version[At(p)] IN
  /\ pc[p] = "check"
  /\ \/ /\ there \in {None, release[p]} \/ scene.dev
        /\ IF p \in WithBuild THEN Goto(p, "check_build") /\ UNCHANGED place ELSE Checked(p)
        /\ UNCHANGED <<self, error>>
     \/ there \notin {None, release[p]} /\ ~scene.dev /\ Fail(p, "conflict")
     \/ Fail(p, "access")
  /\ UNCHANGED <<registry, tries, touched>>

\* get_manifest("build-<BuildKey>") at the next registry.
CheckBuild(p) ==
  LET there == built[At(p)][release[p]] IN
  /\ pc[p] = "check_build"
  /\ \/ there \in {None, output[p]} /\ Checked(p) /\ UNCHANGED <<self, error>>
     \/ there \notin {None, output[p]} /\ Fail(p, "conflict")
     \/ Fail(p, "access")
  /\ UNCHANGED <<registry, tries, touched>>

\* The next blob or manifest.  push_blob skips a blob that is there, which
\* comes to the same.  A request may fail before it reaches the registry, its
\* answer may be lost, or may name another digest than that of the manifest.
Push(p) ==
  /\ pc[p] = "push"
  /\ todo[p] # <<>>
  /\ \/ /\ Store(p)
        /\ todo' = [todo EXCEPT ![p] = Tail(@)]
        /\ UNCHANGED <<pc, self, idx, error>>
     \/ Store(p) /\ Fail(p, "access")
     \/ Store(p) /\ Head(todo[p])[2] = "tag" /\ Fail(p, "integrity")
     \/ Fail(p, "access") /\ UNCHANGED <<registry, touched>>
  /\ UNCHANGED tries

\* Mutant: the last registry is left out.
NextButLast(p) ==
  /\ pc[p] = "push"
  /\ todo[p] = <<>>
  /\ IF idx[p] + 1 >= Len(Order)
     THEN Goto(p, "finish") /\ UNCHANGED place
     ELSE /\ idx' = [idx EXCEPT ![p] = @ + 1]
          /\ todo' = [todo EXCEPT ![p] = Plan(p)]
          /\ UNCHANGED pc
  /\ UNCHANGED <<registry, tries, self, error, touched>>

\* On to the next registry.
NextRegistry(p) ==
  /\ pc[p] = "push"
  /\ todo[p] = <<>>
  /\ IF idx[p] = Len(Order)
     THEN Goto(p, "finish") /\ UNCHANGED place
     ELSE /\ idx' = [idx EXCEPT ![p] = @ + 1]
          /\ IF AllFirst(p)
             THEN todo' = [todo EXCEPT ![p] = Plan(p)] /\ UNCHANGED pc
             ELSE Goto(p, FirstCheck(p)) /\ UNCHANGED todo
  /\ UNCHANGED <<registry, tries, self, error, touched>>

\* publish_release fills the local cache, which may raise; publish_build has
\* nothing left to do.
Finish(p) ==
  /\ pc[p] = "finish"
  /\ \/ Goto(p, "done") /\ UNCHANGED <<self, place, error>>
     \/ p \in Publishers /\ Fail(p, "cache")
  /\ UNCHANGED <<registry, tries, touched>>

\* The command is killed.
Crash(p) ==
  /\ pc[p] \in Running
  /\ Goto(p, "idle")
  /\ Forget(p)
  /\ touched' = [touched EXCEPT ![p] = FALSE]
  /\ UNCHANGED <<registry, tries, error>>

Step(p) ==
  \/ PullRelease(p) \/ Build(p) \/ CheckMoved(p) \/ CheckRelease(p) \/ CheckBuild(p)
  \/ Push(p) \/ NextRegistry(p) \/ Finish(p)

Next == UNCHANGED setting /\ \E p \in Runs : Begin(p) \/ Step(p) \/ Crash(p)

Spec == Init /\ [][Next]_vars

-----------------------------------------------------------------------------
(* Properties.                                                             *)

Holds(r, a) == {<<a, "config">>, <<a, "layer">>} \subseteq blobs[r]

\* All publishers release the same.
OneSource == \A p, q \in Publishers : source[p] = source[q]

\* A tag never names a manifest whose blobs are not in the same registry,
\* whatever requests are lost and wherever a publisher dies: push uploads the
\* blobs before the manifest.
TagsAreClosed ==
  \A r \in Registries, d \in Releases :
    /\ version[r] = d => Holds(r, <<"release", d, None>>)
    /\ built[r][d] # None => Holds(r, <<"build", d, built[r][d]>>)

\* A `publish` whose compilation or checks fail has changed no tag in any
\* registry (docs/design/publishing-workflow.md:36), also when others publish
\* something else at the same time.
FailuresChangeNothing ==
  \A p \in Publishers : pc[p] = "failed" /\ touched[p] => error[p] \in {"access", "integrity", "cache"}

\* A tag of a non-dev version, once set, is never changed (ADR-0011), and no
\* Build tag is (ADR-0014): publishers that run one after the other refuse.
TagsAreImmutable ==
  [][scene.serial => \A r \in Registries :
       /\ ~scene.dev /\ version[r] # None => version'[r] = version[r]
       /\ \A d \in Releases : built[r][d] # None => built'[r][d] = built[r][d]]_vars

\* A publication that reports success is in every registry, Build included,
\* and the content stays there, wherever the tag of a dev version points by
\* then.  So does the tag of a non-dev version, if nobody publishes another
\* Release under it at the same time.
SuccessIsEverywhere ==
  \A p \in Publishers : pc[p] = "done" =>
    \A r \in Registries :
      /\ Holds(r, <<"release", source[p], None>>)
      /\ p \in WithBuild => built[r][source[p]] # None
      /\ ~scene.dev /\ OneSource => version[r] = source[p]

\* With reproducible builds, what a failed publication left behind never
\* stands in the way of running the same command again, nor does another run
\* that publishes the same.
RetryIsNotRefused ==
  scene.reproducible /\ OneSource => \A p \in Runs : error[p] # "conflict"

\* What the registries that know the version say of it: one Release, or, if they
\* disagree, several.
Named == {version[r] : r \in Registries} \ {None}

Bound == IF ~scene.serial \/ scene.dev \/ Named = {} THEN None
         ELSE IF \A d, e \in Named : d = e THEN CHOOSE d \in Named : TRUE
         ELSE Named

RB == INSTANCE ReleaseBinding WITH bound <- Bound

\* One Release per non-dev version for those who load it, whichever registry
\* they ask, also after a publisher gave up half way: ReleaseBinding.  For
\* publishers that run one after the other.
Binding == RB!Spec
=============================================================================

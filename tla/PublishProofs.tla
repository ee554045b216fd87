---------------------------- MODULE PublishProofs ----------------------------
(***************************************************************************)
(* What Publish promises for any number of publishers and adders, any      *)
(* registries in any order, and any number of retries.                     *)
(***************************************************************************)
EXTENDS Publish, Integers, TLAPS

(***************************************************************************)
(* The invariant, in parts.                                                *)
(***************************************************************************)

Kinds == {"config", "layer", "tag"}

\* What a run has to push to each registry.
Own(p) == (IF output[p] # None THEN {BuildArtifact(p)} ELSE {})
            \cup (IF p \in Publishers THEN {ReleaseArtifact(p)} ELSE {})
Needed(p) == Own(p) \X Kinds

\* A run pushes what it has made: its Release is known, and so is its Build, if it makes one.
KnowsItself(p) ==
  /\ pc[p] \in Running \ {"pull"} => release[p] \in Releases
  /\ p \in Publishers =>
       /\ pc[p] \notin {"pull", "moved"}
       /\ pc[p] \in Running \cup {"done"} => release[p] = source[p]
       /\ pc[p] \in {"build", "check", "check_build"} => ~touched[p]
  /\ p \in Publishers \ WithBuild => output[p] = None /\ pc[p] \notin {"build", "check_build"}
  /\ p \in WithBuild /\ pc[p] \in {"check", "check_build", "push", "finish", "done"} =>
       output[p] # None
  /\ p \in Adders => pc[p] # "check"
  /\ p \in Adders /\ pc[p] \in {"moved", "check_build", "push", "finish"} => output[p] # None

Knows == \A p \in Runs : KnowsItself(p)

\* What is still to be pushed is the run's, and the blobs of a manifest come before it.
BlobsFirst ==
  \A p \in Runs : pc[p] = "push" =>
    /\ \A j \in 1 .. Len(todo[p]) : todo[p][j] \in Needed(p)
    /\ \A j \in 1 .. Len(todo[p]), part \in {"config", "layer"} :
         todo[p][j][2] = "tag" =>
           \/ <<todo[p][j][1], part>> \in blobs[At(p)]
           \/ \E k \in 1 .. j - 1 : todo[p][k] = <<todo[p][j][1], part>>

\* What x asks for is in registry r, and stays there.
Stored(r, x) ==
  /\ x[2] # "tag" => x \in blobs[r]
  /\ x[2] = "tag" /\ x[1][1] = "build" => built[r][x[1][2]] # None
  /\ x[2] = "tag" /\ x[1][1] = "release" /\ ~scene.dev /\ OneSource => version[r] = x[1][2]

\* A publisher has left nothing out in the registries it is through with.
NothingLeftOut ==
  \A p \in Publishers :
    /\ pc[p] = "push" => \A x \in Needed(p) :
         /\ \A i \in 1 .. idx[p] - 1 : Stored(Order[i], x)
         /\ Stored(At(p), x) \/ \E j \in 1 .. Len(todo[p]) : todo[p][j] = x
    /\ pc[p] \in {"finish", "done"} => \A x \in Needed(p), r \in Registries : Stored(r, x)

\* What failing checks say of a publisher.
ErrorsAreFaithful ==
  \A p \in Publishers : pc[p] = "failed" /\ touched[p] => error[p] \in {"access", "integrity", "cache"}

\* If all publish the same, and reproducibly, nobody is in the way of another.
TheOutput == CHOOSE o \in Outputs : TRUE

AllAgree ==
  scene.reproducible /\ OneSource =>
    /\ \A p \in Runs : output[p] \in {None, TheOutput} /\ error[p] # "conflict"
    /\ \A r \in Registries, d \in Releases : built[r][d] \in {None, TheOutput}
    /\ \A r \in Registries, p \in Publishers : version[r] \in {None, source[p]}

\* Registry r has passed the checks of p.
ReleaseFits(p, r) == p \in Publishers /\ ~scene.dev => version[r] \in {None, release[p]}
BuildFits(p, r) == output[p] # None => built[r][release[p]] \in {None, output[p]}
Cleared(p, r) == ReleaseFits(p, r) /\ BuildFits(p, r)

\* What run p has checked is still so.
Checking(p) ==
  /\ p \in Publishers /\ pc[p] = "build" => idx[p] = 1
  /\ p \in Publishers /\ pc[p] \in {"check", "check_build"} =>
       \A i \in 1 .. idx[p] - 1 : Cleared(p, Order[i])
  /\ p \in Publishers /\ pc[p] = "check_build" => ReleaseFits(p, At(p))
  /\ p \in Publishers /\ pc[p] = "push" => \A r \in Registries : Cleared(p, r)
  /\ p \notin Publishers /\ pc[p] = "push" => Cleared(p, At(p))

\* Of runs that do not overlap, what one has checked is still so when it pushes.
ChecksHold ==
  scene.serial =>
    /\ \A p, q \in Runs : pc[p] \in Running /\ pc[q] \in Running => p = q
    /\ \A p \in Runs : Checking(p)

\* They all give a version the same Release.
OneName ==
  scene.serial /\ ~scene.dev =>
    \A r, s \in Registries : version[r] # None /\ version[s] # None => version[r] = version[s]

Inv ==
  /\ TypeOK
  /\ Knows
  /\ BlobsFirst
  /\ TagsAreClosed
  /\ NothingLeftOut
  /\ ErrorsAreFaithful
  /\ AllAgree
  /\ ChecksHold
  /\ OneName

-----------------------------------------------------------------------------
(* What is pushed.                                                         *)

Pushes == Seq(Artifacts \X Kinds)

\* The three pieces of an artifact, the blobs first.
LEMMA PiecesInOrder ==
  ASSUME NEW a \in Artifacts
  PROVE  /\ Pieces(a) \in Pushes
         /\ Len(Pieces(a)) = 3
         /\ Pieces(a)[1] = <<a, "config">>
         /\ Pieces(a)[2] = <<a, "layer">>
         /\ Pieces(a)[3] = <<a, "tag">>
BY DEF Pieces, Pushes, Kinds

\* A plan has all that is needed, nothing else, and no manifest before its blobs.
LEMMA PlanIsNeeded ==
  ASSUME NEW p \in Runs, release[p] \in Releases, output[p] \in Outputs \cup {None}
  PROVE  /\ Plan(p) \in Pushes
         /\ \A j \in 1 .. Len(Plan(p)) : Plan(p)[j] \in Needed(p)
         /\ \A j \in 1 .. Len(Plan(p)), part \in {"config", "layer"} :
              Plan(p)[j][2] = "tag" => \E k \in 1 .. j - 1 : Plan(p)[k] = <<Plan(p)[j][1], part>>
         /\ \A x \in Needed(p) : \E j \in 1 .. Len(Plan(p)) : Plan(p)[j] = x
<1> DEFINE B == IF output[p] # None THEN Pieces(BuildArtifact(p)) ELSE <<>>
           R == IF p \in Publishers THEN Pieces(ReleaseArtifact(p)) ELSE <<>>
<1>1. ReleaseArtifact(p) \in Artifacts
  BY DEF ReleaseArtifact, Artifacts
<1>2. output[p] # None => BuildArtifact(p) \in Artifacts
  BY DEF BuildArtifact, Artifacts
<1>3. /\ B \in Pushes
      /\ output[p] = None => Len(B) = 0
      /\ output[p] # None => /\ Len(B) = 3
                            /\ B[1] = <<BuildArtifact(p), "config">>
                            /\ B[2] = <<BuildArtifact(p), "layer">>
                            /\ B[3] = <<BuildArtifact(p), "tag">>
  BY <1>2, PiecesInOrder DEF Pushes
<1>4. /\ R \in Pushes
      /\ p \notin Publishers => Len(R) = 0
      /\ p \in Publishers => /\ Len(R) = 3
                             /\ R[1] = <<ReleaseArtifact(p), "config">>
                             /\ R[2] = <<ReleaseArtifact(p), "layer">>
                             /\ R[3] = <<ReleaseArtifact(p), "tag">>
  BY <1>1, PiecesInOrder DEF Pushes
<1> HIDE DEF B, R
<1>5. /\ B \o R \in Pushes
      /\ Len(B \o R) = Len(B) + Len(R)
      /\ \A j \in 1 .. Len(B) + Len(R) :
           (B \o R)[j] = IF j <= Len(B) THEN B[j] ELSE R[j - Len(B)]
  BY <1>3, <1>4 DEF Pushes
<1>6. Plan(p) = B \o R
  BY DEF Plan, B, R
<1>7. \A j \in 1 .. Len(B) :
        /\ B[j] \in Needed(p)
        /\ B[j][2] = "tag" => j = 3 /\ B[j][1] = BuildArtifact(p)
  <2>1. CASE output[p] # None
    <3>1. BuildArtifact(p) \in Own(p)
      BY <2>1 DEF Own
    <3>2. Len(B) = 3
      BY <2>1, <1>3
    <3>4. \A j \in 1 .. Len(B) : j = 1 \/ j = 2 \/ j = 3
      BY <3>2
    <3>3. QED
      BY <2>1, <3>1, <3>2, <1>3 DEF Needed, Kinds, Pushes
  <2>2. CASE output[p] = None
    BY <2>2, <1>3
  <2>3. QED
    BY <2>1, <2>2
<1>8. \A j \in 1 .. Len(R) :
        /\ R[j] \in Needed(p)
        /\ R[j][2] = "tag" => j = 3 /\ R[j][1] = ReleaseArtifact(p)
  <2>1. CASE p \in Publishers
    <3>1. ReleaseArtifact(p) \in Own(p)
      BY <2>1 DEF Own
    <3>2. Len(R) = 3
      BY <2>1, <1>4
    <3>4. \A j \in 1 .. Len(R) : j = 1 \/ j = 2 \/ j = 3
      BY <3>2
    <3>3. QED
      BY <2>1, <3>1, <3>2, <1>4 DEF Needed, Kinds
  <2>2. CASE p \notin Publishers
    BY <2>2, <1>4
  <2>3. QED
    BY <2>1, <2>2
<1>9. \A j \in 1 .. Len(Plan(p)) : Plan(p)[j] \in Needed(p)
  <2>1. TAKE j \in 1 .. Len(Plan(p))
  <2>2. CASE j <= Len(B)
    BY <2>2, <1>3, <1>4, <1>5, <1>6, <1>7 DEF Pushes
  <2>3. CASE j > Len(B)
    BY <2>3, <1>3, <1>4, <1>5, <1>6, <1>8 DEF Pushes
  <2>4. QED
    BY <2>2, <2>3
<1>10. ASSUME NEW j \in 1 .. Len(Plan(p)), Plan(p)[j][2] = "tag",
              NEW part \in {"config", "layer"}
       PROVE  \E k \in 1 .. j - 1 : Plan(p)[k] = <<Plan(p)[j][1], part>>
  <2>1. CASE j <= Len(B)
    BY <2>1, <1>3, <1>4, <1>5, <1>6, <1>7, <1>10
  <2>2. CASE j > Len(B)
    <3>1. p \in Publishers /\ j = Len(B) + 3 /\ Plan(p)[j][1] = ReleaseArtifact(p)
      BY <2>2, <1>3, <1>4, <1>5, <1>6, <1>8, <1>10
    <3>2. /\ Plan(p)[Len(B) + 1] = <<ReleaseArtifact(p), "config">>
          /\ Plan(p)[Len(B) + 2] = <<ReleaseArtifact(p), "layer">>
      BY <3>1, <1>3, <1>4, <1>5, <1>6
    <3>3. QED
      BY <3>1, <3>2, <1>3
  <2>3. QED
    <3>1. j \in Int /\ Len(B) \in Int
      BY <1>3 DEF Pushes
    <3>2. QED
      BY <2>1, <2>2, <3>1
<1>11. ASSUME NEW x \in Needed(p)
       PROVE  \E j \in 1 .. Len(Plan(p)) : Plan(p)[j] = x
  <2>1. PICK a \in Own(p), kind \in Kinds : x = <<a, kind>>
    BY <1>11 DEF Needed
  <2>2. CASE output[p] # None /\ a = BuildArtifact(p)
    <3>1. Len(B) = 3 /\ Len(R) \in Nat
      BY <2>2, <1>3, <1>4 DEF Pushes
    <3>2. B[1] = <<a, "config">> /\ B[2] = <<a, "layer">> /\ B[3] = <<a, "tag">>
      BY <2>2, <1>3
    <3>3. \E j \in 1 .. 3 : B[j] = x
      BY <2>1, <3>2 DEF Kinds
    <3>4. QED
      BY <3>1, <3>3, <1>5, <1>6
  <2>3. CASE p \in Publishers /\ a = ReleaseArtifact(p)
    <3>1. Len(R) = 3 /\ Len(B) \in Nat
      BY <2>3, <1>3, <1>4 DEF Pushes
    <3>2. R[1] = <<a, "config">> /\ R[2] = <<a, "layer">> /\ R[3] = <<a, "tag">>
      BY <2>3, <1>4
    <3>3. PICK j \in 1 .. 3 : R[j] = x
      BY <2>1, <3>2 DEF Kinds
    <3>4. Len(B) + j \in 1 .. Len(Plan(p)) /\ Plan(p)[Len(B) + j] = R[j]
      <4>1. /\ Len(B) + j \in 1 .. Len(B) + Len(R) /\ ~(Len(B) + j <= Len(B))
            /\ (Len(B) + j) - Len(B) = j
        BY <3>1
      <4>2. QED
        BY <4>1, <1>5, <1>6
    <3>5. QED
      BY <3>3, <3>4
  <2>4. QED
    BY <2>1, <2>2, <2>3 DEF Own
<1>12. QED
  BY <1>5, <1>6, <1>9, <1>10, <1>11

-----------------------------------------------------------------------------
(* Types.                                                                  *)

\* There is a first registry, and idx names one.
LEMMA RegistriesAreInOrder ==
  /\ Len(Order) \in Nat \ {0}
  /\ \A i \in 1 .. Len(Order) : Order[i] \in Registries
  /\ \A r \in Registries : \E i \in 1 .. Len(Order) : Order[i] = r
BY PublishAssumption DEF Registries

\* The next piece to push, and what is left after it.
LEMMA NextPiece ==
  ASSUME TypeOK, NEW p \in Runs, todo[p] # <<>>
  PROVE  /\ Len(todo[p]) \in Nat \ {0}
         /\ Head(todo[p]) = todo[p][1] /\ todo[p][1] \in Artifacts \X Kinds
         /\ Tail(todo[p]) \in Pushes
         /\ Len(Tail(todo[p])) = Len(todo[p]) - 1
         /\ \A j \in 1 .. Len(todo[p]) - 1 : Tail(todo[p])[j] = todo[p][j + 1]
<1>1. todo[p] \in Seq(Artifacts \X Kinds)
  BY DEF TypeOK, Kinds
<1>2. QED
  BY <1>1 DEF Pushes

\* What an exception, a passed check and an accepted piece set keeps its type.
LEMMA FailTypes ==
  ASSUME TypeOK, NEW p \in Runs, NEW e \in Errors, Fail(p, e)
  PROVE  /\ pc' \in [Runs -> Running \cup {"idle", "done", "failed"}]
         /\ error' \in [Runs -> Errors]
         /\ release' \in [Runs -> Releases \cup {None}]
         /\ output' \in [Runs -> Outputs \cup {None}]
         /\ idx' \in [Runs -> 1 .. Len(Order)]
         /\ todo' \in [Runs -> Pushes]
<1>1. <<>> \in Pushes /\ 1 \in 1 .. Len(Order)
  BY RegistriesAreInOrder DEF Pushes
<1>2. todo \in [Runs -> Pushes]
  BY DEF TypeOK, Pushes, Kinds
<1>3. QED
  BY <1>1, <1>2 DEF TypeOK, Fail, Forget, Goto

\* Going on to the next registry, or to the pushes.
LEMMA CheckedTypes ==
  ASSUME TypeOK, NEW p \in Runs, release[p] \in Releases, Checked(p)
  PROVE  /\ pc' \in [Runs -> Running \cup {"idle", "done", "failed"}]
         /\ idx' \in [Runs -> 1 .. Len(Order)]
         /\ todo' \in [Runs -> Pushes]
<1>1. Plan(p) \in Pushes /\ 1 \in 1 .. Len(Order)
  BY PlanIsNeeded, RegistriesAreInOrder DEF TypeOK
<1>2. todo \in [Runs -> Pushes]
  BY DEF TypeOK, Pushes, Kinds
<1>3. CASE AllFirst(p) /\ idx[p] < Len(Order)
  <2>1. idx[p] + 1 \in 1 .. Len(Order)
    BY <1>3, RegistriesAreInOrder DEF TypeOK
  <2>2. QED
    BY <1>2, <1>3, <2>1 DEF TypeOK, Checked, Goto, FirstCheck, Running
<1>4. CASE ~(AllFirst(p) /\ idx[p] < Len(Order))
  BY <1>1, <1>2, <1>4 DEF TypeOK, Checked, Goto, Running
<1>5. QED
  BY <1>3, <1>4

\* What a push does to a registry.
LEMMA StoreTypes ==
  ASSUME TypeOK, NEW p \in Runs, todo[p] # <<>>, Store(p)
  PROVE  /\ version' \in [Registries -> Releases \cup {None}]
         /\ built' \in [Registries -> [Releases -> Outputs \cup {None}]]
         /\ blobs' \in [Registries -> SUBSET AllBlobs]
         /\ touched' \in [Runs -> BOOLEAN]
<1> DEFINE piece == todo[p][1]
<1>1. piece \in Artifacts \X Kinds /\ Head(todo[p]) = piece
  BY NextPiece
<1>2. At(p) \in Registries
  BY RegistriesAreInOrder DEF TypeOK, At
<1> HIDE DEF piece
<1>3. CASE piece[2] # "tag"
  <2>1. piece \in AllBlobs
    BY <1>1, <1>3 DEF AllBlobs, Kinds
  <2>2. /\ blobs' = [blobs EXCEPT ![At(p)] = @ \cup {piece}]
        /\ UNCHANGED <<version, built, touched>>
    BY <1>1, <1>3 DEF Store
  <2>3. blobs[At(p)] \cup {piece} \in SUBSET AllBlobs
    BY <1>2, <2>1 DEF TypeOK
  <2>4. QED
    BY <2>2, <2>3 DEF TypeOK
<1>4. CASE piece[2] = "tag" /\ piece[1][1] = "release"
  <2>1. piece[1][2] \in Releases
    BY <1>1 DEF Artifacts
  <2>2. QED
    BY <1>1, <1>2, <1>4, <2>1 DEF TypeOK, Store
<1>5. CASE piece[2] = "tag" /\ piece[1][1] # "release"
  <2>1. piece[1][2] \in Releases /\ piece[1][3] \in Outputs
    BY <1>1, <1>5 DEF Artifacts
  <2>2. /\ built' = [built EXCEPT ![At(p)] = [@ EXCEPT ![piece[1][2]] = piece[1][3]]]
        /\ touched' = [touched EXCEPT ![p] = TRUE]
        /\ UNCHANGED <<version, blobs>>
    BY <1>1, <1>5 DEF Store
  <2>3. built[At(p)] \in [Releases -> Outputs \cup {None}]
    BY <1>2 DEF TypeOK
  <2>4. built' \in [Registries -> [Releases -> Outputs \cup {None}]]
    BY <1>2, <2>1, <2>2, <2>3 DEF TypeOK
  <2>5. QED
    BY <2>2, <2>4 DEF TypeOK
<1>6. QED
  BY <1>3, <1>4, <1>5

\* Runs that have not begun, and empty registries.
LEMMA InitTypes == Init => TypeOK
<1>1. <<>> \in Seq(Artifacts \X {"config", "layer", "tag"}) /\ 1 \in 1 .. Len(Order)
  BY RegistriesAreInOrder
<1>2. Init => todo \in [Runs -> Seq(Artifacts \X {"config", "layer", "tag"})]
  BY <1>1 DEF Init
<1>3. Init => built \in [Registries -> [Releases -> Outputs \cup {None}]]
  BY DEF Init
<1>4. QED
  BY <1>1, <1>2, <1>3 DEF Init, TypeOK, Errors

\* Every step of a run keeps the types.
LEMMA StepTypes ==
  ASSUME TypeOK, Knows, UNCHANGED setting, NEW p \in Runs, Begin(p) \/ Step(p) \/ Crash(p)
  PROVE  TypeOK'
<1>0. Pushes = Seq(Artifacts \X {"config", "layer", "tag"})
  BY DEF Pushes, Kinds
<1>k. release[p] \in Releases \cup {None} /\ output[p] \in Outputs \cup {None}
  BY DEF TypeOK
<1>1. CASE Begin(p)
  <2>1. release' \in [Runs -> Releases \cup {None}]
    BY <1>1 DEF TypeOK, Begin
  <2>2. tries' \in [Runs -> Nat]
    BY <1>1 DEF TypeOK, Begin
  <2>3. pc' \in [Runs -> Running \cup {"idle", "done", "failed"}]
    BY <1>1 DEF TypeOK, Begin, Goto, Running
  <2>4. idx' \in [Runs -> 1 .. Len(Order)]
    BY <1>1, RegistriesAreInOrder DEF TypeOK, Begin
  <2>5. todo' \in [Runs -> Seq(Artifacts \X {"config", "layer", "tag"})]
    BY <1>1 DEF TypeOK, Begin
  <2>6. QED
    BY <1>1, <2>1, <2>2, <2>3, <2>4, <2>5 DEF TypeOK, Begin, registry, setting, Errors
<1>2. CASE PullRelease(p)
  <2>1. CASE \E e \in {"not_found", "access"} : Fail(p, e)
    <3>1. PICK e \in Errors : Fail(p, e)
      BY <2>1 DEF Errors
    <3>2. UNCHANGED <<registry, setting, tries, touched>>
      BY <1>2 DEF PullRelease
    <3>3. QED
      BY <1>0, <3>1, <3>2, FailTypes DEF TypeOK, registry, setting
  <2>2. CASE ~\E e \in {"not_found", "access"} : Fail(p, e)
    <3>1. PICK r \in Registries :
            /\ version[r] # None
            /\ release' = [release EXCEPT ![p] = version[r]]
            /\ Goto(p, "build")
            /\ UNCHANGED <<output, place, error>>
      BY <1>2, <2>2 DEF PullRelease
    <3>2. version[r] \in Releases
      BY <3>1 DEF TypeOK
    <3>3. QED
      BY <1>2, <3>1, <3>2 DEF TypeOK, PullRelease, Goto, Running, registry, setting, place
  <2>3. QED
    BY <2>1, <2>2
<1>3. CASE Build(p)
  <2>1. CASE Fail(p, "build")
    BY <1>0, <1>3, <2>1, FailTypes DEF TypeOK, Build, registry, setting, Errors
  <2>2. CASE ~Fail(p, "build")
    <3>1. PICK o \in Outputs : output' = [output EXCEPT ![p] = o]
      BY <1>3, <2>2, PublishAssumption DEF Build
    <3>2. pc' \in [Runs -> Running \cup {"idle", "done", "failed"}]
      BY <1>3, <2>2 DEF TypeOK, Build, Goto, Running
    <3>3. QED
      BY <1>3, <2>2, <3>1, <3>2 DEF TypeOK, Build, registry, setting, place
  <2>3. QED
    BY <2>1, <2>2
<1>4. CASE CheckMoved(p)
  <2>1. CASE \E e \in {"moved", "access"} : Fail(p, e)
    BY <1>0, <1>4, <2>1, FailTypes DEF TypeOK, CheckMoved, registry, setting, Errors
  <2>2. CASE ~\E e \in {"moved", "access"} : Fail(p, e)
    BY <1>4, <2>2 DEF TypeOK, CheckMoved, Goto, Running, registry, setting, self, place
  <2>3. QED
    BY <2>1, <2>2
<1>5. CASE CheckRelease(p)
  <2>1. CASE \E e \in {"conflict", "access"} : Fail(p, e)
    BY <1>0, <1>5, <2>1, FailTypes DEF TypeOK, CheckRelease, registry, setting, Errors
  <2>2. CASE ~\E e \in {"conflict", "access"} : Fail(p, e)
    <3>1. release[p] \in Releases
      BY <1>5 DEF Knows, KnowsItself, CheckRelease, Running
    <3>2. CASE p \in WithBuild
      BY <1>5, <2>2, <3>2 DEF TypeOK, CheckRelease, Goto, Running, registry, setting, self, place
    <3>3. CASE p \notin WithBuild
      <4>1. Checked(p) /\ UNCHANGED <<setting, registry, tries, touched, self, error>>
        BY <1>5, <2>2, <3>3 DEF CheckRelease
      <4>2. QED
        BY <1>0, <3>1, <4>1, CheckedTypes DEF TypeOK, registry, setting, self
    <3>4. QED
      BY <3>2, <3>3
  <2>3. QED
    BY <2>1, <2>2
<1>6. CASE CheckBuild(p)
  <2>1. CASE \E e \in {"conflict", "access"} : Fail(p, e)
    BY <1>0, <1>6, <2>1, FailTypes DEF TypeOK, CheckBuild, registry, setting, Errors
  <2>2. CASE ~\E e \in {"conflict", "access"} : Fail(p, e)
    <3>1. release[p] \in Releases
      BY <1>6 DEF Knows, KnowsItself, CheckBuild, Running
    <3>2. Checked(p) /\ UNCHANGED <<setting, registry, tries, touched, self, error>>
      BY <1>6, <2>2 DEF CheckBuild
    <3>3. QED
      BY <1>0, <3>1, <3>2, CheckedTypes DEF TypeOK, registry, setting, self
  <2>3. QED
    BY <2>1, <2>2
<1>7. CASE Push(p)
  <2>1. CASE \E e \in {"access", "integrity"} : Fail(p, e)
    <3>1. PICK e \in Errors : Fail(p, e)
      BY <2>1 DEF Errors
    <3>2. CASE Store(p)
      BY <1>0, <1>7, <3>1, <3>2, FailTypes, StoreTypes DEF TypeOK, Push, setting
    <3>3. CASE ~Store(p)
      BY <1>0, <1>7, <3>1, <3>3, FailTypes DEF TypeOK, Push, registry, setting, self
    <3>4. QED
      BY <3>2, <3>3
  <2>2. CASE ~\E e \in {"access", "integrity"} : Fail(p, e)
    <3>1. /\ todo[p] # <<>> /\ Store(p)
          /\ todo' = [todo EXCEPT ![p] = Tail(@)]
          /\ UNCHANGED <<pc, self, idx, error, tries>>
      BY <1>7, <2>2 DEF Push
    <3>2. todo' \in [Runs -> Pushes]
      BY <1>0, <3>1, NextPiece DEF TypeOK
    <3>3. QED
      BY <1>0, <3>1, <3>2, StoreTypes DEF TypeOK, setting, self
  <2>3. QED
    BY <2>1, <2>2
<1>8. CASE NextRegistry(p)
  <2>1. release[p] \in Releases
    BY <1>8 DEF Knows, KnowsItself, NextRegistry, Running
  <2>2. Plan(p) \in Pushes
    BY <1>k, <2>1, PlanIsNeeded
  <2>3. CASE idx[p] = Len(Order)
    BY <1>8, <2>3 DEF TypeOK, NextRegistry, Goto, Running, registry, setting, self, place
  <2>4. CASE idx[p] # Len(Order)
    <3>1. idx' \in [Runs -> 1 .. Len(Order)]
      BY <1>8, <2>4, RegistriesAreInOrder DEF TypeOK, NextRegistry
    <3>2. todo' \in [Runs -> Pushes]
      BY <1>0, <1>8, <2>2, <2>4 DEF TypeOK, NextRegistry
    <3>3. pc' \in [Runs -> Running \cup {"idle", "done", "failed"}]
      <4>1. pc' = pc \/ pc' = [pc EXCEPT ![p] = FirstCheck(p)]
        BY <1>8, <2>4 DEF NextRegistry, Goto
      <4>2. FirstCheck(p) \in Running
        BY DEF FirstCheck, Running
      <4>3. pc \in [Runs -> Running \cup {"idle", "done", "failed"}]
        BY DEF TypeOK
      <4>4. QED
        BY <4>1, <4>2, <4>3
    <3>4. QED
      BY <1>0, <1>8, <3>1, <3>2, <3>3 DEF TypeOK, NextRegistry, registry, setting, self
  <2>5. QED
    BY <2>3, <2>4
<1>9. CASE Finish(p)
  <2>1. CASE Fail(p, "cache")
    BY <1>0, <1>9, <2>1, FailTypes DEF TypeOK, Finish, registry, setting, Errors
  <2>2. CASE ~Fail(p, "cache")
    BY <1>9, <2>2 DEF TypeOK, Finish, Goto, Running, registry, setting, self, place
  <2>3. QED
    BY <2>1, <2>2
<1>10. CASE Crash(p)
  <2>1. <<>> \in Pushes /\ 1 \in 1 .. Len(Order)
    BY RegistriesAreInOrder DEF Pushes
  <2>2. QED
    BY <1>0, <1>10, <2>1 DEF TypeOK, Crash, Goto, Forget, Running, registry, setting
<1>11. QED
  BY <1>1, <1>2, <1>3, <1>4, <1>5, <1>6, <1>7, <1>8, <1>9, <1>10 DEF Step

-----------------------------------------------------------------------------
(* What a step may change.                                                 *)

\* A run has its variables for itself.
LEMMA OthersUnchanged ==
  ASSUME TypeOK, NEW p \in Runs, Begin(p) \/ Step(p) \/ Crash(p), NEW q \in Runs, q # p
  PROVE  /\ pc'[q] = pc[q] /\ release'[q] = release[q] /\ output'[q] = output[q]
         /\ idx'[q] = idx[q] /\ todo'[q] = todo[q]
         /\ error'[q] = error[q] /\ touched'[q] = touched[q]
<1>1. CASE Begin(p)
  BY <1>1 DEF TypeOK, Begin, Goto
<1>2. CASE PullRelease(p)
  BY <1>2 DEF TypeOK, PullRelease, Fail, Forget, Goto, place
<1>3. CASE Build(p)
  BY <1>3 DEF TypeOK, Build, Fail, Forget, Goto, place
<1>4. CASE CheckMoved(p)
  BY <1>4 DEF TypeOK, CheckMoved, Fail, Forget, Goto, self, place
<1>5. CASE CheckRelease(p)
  BY <1>5 DEF TypeOK, CheckRelease, Checked, Fail, Forget, Goto, self, place
<1>6. CASE CheckBuild(p)
  BY <1>6 DEF TypeOK, CheckBuild, Checked, Fail, Forget, Goto, self, place
<1>7. CASE Push(p)
  BY <1>7 DEF TypeOK, Push, Store, Fail, Forget, Goto, self
<1>8. CASE NextRegistry(p)
  BY <1>8 DEF TypeOK, NextRegistry, Goto, self, place
<1>9. CASE Finish(p)
  BY <1>9 DEF TypeOK, Finish, Fail, Forget, Goto, self, place
<1>10. CASE Crash(p)
  BY <1>10 DEF TypeOK, Crash, Forget, Goto
<1>11. QED
  BY <1>1, <1>2, <1>3, <1>4, <1>5, <1>6, <1>7, <1>8, <1>9, <1>10 DEF Step

\* Only what is pushed changes a registry.
LEMMA OnlyPushStores ==
  ASSUME NEW p \in Runs, Begin(p) \/ Step(p) \/ Crash(p)
  PROVE  \/ UNCHANGED registry
         \/ Push(p) /\ pc[p] = "push" /\ todo[p] # <<>> /\ Store(p)
BY DEF Step, Begin, PullRelease, Build, CheckMoved, CheckRelease, CheckBuild, Push, NextRegistry,
       Finish, Crash

\* A passed check: on to the next registry, or to the pushes.
LEMMA CheckedMoves ==
  ASSUME TypeOK, NEW p \in Runs, Checked(p)
  PROVE  \/ /\ p \in Publishers /\ idx[p] < Len(Order)
            /\ idx'[p] = idx[p] + 1 /\ pc'[p] = "check" /\ todo'[p] = todo[p]
         \/ /\ p \in Publishers => idx[p] = Len(Order) /\ idx'[p] = 1
            /\ p \notin Publishers => idx'[p] = idx[p]
            /\ pc'[p] = "push" /\ todo'[p] = Plan(p)
<1>1. idx[p] \in 1 .. Len(Order)
  BY DEF TypeOK
<1>2. CASE AllFirst(p) /\ idx[p] < Len(Order)
  BY <1>2 DEF TypeOK, Checked, AllFirst, FirstCheck, Goto
<1>3. CASE ~(AllFirst(p) /\ idx[p] < Len(Order))
  BY <1>1, <1>3, RegistriesAreInOrder DEF TypeOK, Checked, AllFirst, Goto
<1>4. QED
  BY <1>2, <1>3

-----------------------------------------------------------------------------
(* What a run knows of itself.                                             *)

\* No run has begun.
LEMMA InitKnows == Init => Knows /\ ErrorsAreFaithful
BY PublishAssumption DEF Init, Knows, KnowsItself, ErrorsAreFaithful, Running, Runs

\* A run keeps to what it has read, compiled and planned.
LEMMA StepKnows ==
  ASSUME TypeOK, Knows, UNCHANGED setting, NEW p \in Runs, Begin(p) \/ Step(p) \/ Crash(p)
  PROVE  Knows'
<1>1. KnowsItself(p)
  BY DEF Knows
<1>2. ASSUME NEW q \in Runs, q # p PROVE KnowsItself(q)'
  BY <1>2, OthersUnchanged DEF Knows, KnowsItself, setting
<1> SUFFICES KnowsItself(p)'
  BY <1>2 DEF Knows, KnowsItself
<1>3. UNCHANGED source
  BY DEF setting
<1>4. ASSUME NEW e \in Errors, Fail(p, e) PROVE KnowsItself(p)'
  BY <1>4 DEF TypeOK, KnowsItself, Fail, Forget, Goto, Running
<1>5. p \in Publishers => source[p] \in Releases
  BY DEF TypeOK
<1>6. WithBuild \subseteq Publishers /\ Publishers \cap Adders = {} /\ None \notin Outputs
  BY PublishAssumption
<1>7. p \in Publishers \/ p \in Adders
  BY DEF Runs
<1>8. CASE Begin(p)
  <2>1. release'[p] = (IF p \in Publishers THEN source[p] ELSE None) /\ output'[p] = None
    BY <1>8 DEF TypeOK, Begin
  <2>2. touched'[p] = FALSE
    BY <1>8 DEF TypeOK, Begin
  <2>3. pc'[p] = IF p \in Adders THEN "pull" ELSE IF p \in WithBuild THEN "build" ELSE "check"
    BY <1>6, <1>8 DEF TypeOK, Begin, Goto
  <2>4. QED
    BY <1>3, <1>5, <1>6, <1>7, <2>1, <2>2, <2>3 DEF KnowsItself, Running
<1>9. CASE PullRelease(p)
  <2>1. CASE \E e \in {"not_found", "access"} : Fail(p, e)
    BY <1>4, <2>1 DEF Errors, KnowsItself
  <2>2. CASE ~\E e \in {"not_found", "access"} : Fail(p, e)
    <3>1. PICK r \in Registries :
            /\ version[r] # None
            /\ release' = [release EXCEPT ![p] = version[r]]
            /\ Goto(p, "build")
            /\ UNCHANGED <<output, place, error>>
      BY <1>9, <2>2 DEF PullRelease
    <3>2. version[r] \in Releases
      BY <3>1 DEF TypeOK
    <3>3. pc[p] = "pull" /\ pc'[p] = "build" /\ release'[p] = version[r]
      BY <1>9, <3>1 DEF TypeOK, PullRelease, Goto
    <3>4. QED
      BY <1>1, <1>6, <1>7, <3>2, <3>3 DEF KnowsItself, Running
  <2>3. QED
    BY <2>1, <2>2
<1>10. CASE Build(p)
  <2>1. CASE Fail(p, "build")
    BY <1>4, <2>1 DEF Errors, KnowsItself
  <2>2. CASE ~Fail(p, "build")
    <3>1. PICK o \in Outputs : output' = [output EXCEPT ![p] = o]
      BY <1>10, <2>2, PublishAssumption DEF Build
    <3>2. /\ pc[p] = "build" /\ output'[p] \in Outputs /\ touched'[p] = touched[p]
          /\ release'[p] = release[p]
          /\ pc'[p] \in {"check", "moved", "check_build"}
          /\ p \in Publishers => pc'[p] = "check"
          /\ p \notin Publishers => pc'[p] # "check"
      BY <1>6, <1>10, <2>2, <3>1 DEF TypeOK, Build, Goto, place
    <3>3. QED
      BY <1>1, <1>3, <1>6, <1>7, <3>2 DEF KnowsItself, Running
  <2>3. QED
    BY <2>1, <2>2
<1>11. CASE CheckMoved(p)
  <2>1. CASE \E e \in {"moved", "access"} : Fail(p, e)
    BY <1>4, <2>1 DEF Errors, KnowsItself
  <2>2. CASE ~\E e \in {"moved", "access"} : Fail(p, e)
    <3>1. pc[p] = "moved" /\ pc'[p] = "check_build" /\ UNCHANGED <<release, output, touched>>
      BY <1>11, <2>2 DEF TypeOK, CheckMoved, Goto, self
    <3>2. QED
      BY <1>1, <1>6, <1>7, <3>1 DEF KnowsItself, Running
  <2>3. QED
    BY <2>1, <2>2
<1>12. CASE CheckRelease(p)
  <2>1. CASE \E e \in {"conflict", "access"} : Fail(p, e)
    BY <1>4, <2>1 DEF Errors, KnowsItself
  <2>2. CASE ~\E e \in {"conflict", "access"} : Fail(p, e)
    <3>1. /\ pc[p] = "check" /\ UNCHANGED <<release, output, touched>>
          /\ p \in WithBuild => pc'[p] = "check_build"
          /\ p \notin WithBuild => Checked(p)
      BY <1>12, <2>2 DEF TypeOK, CheckRelease, Goto, self
    <3>2. p \notin WithBuild => pc'[p] \in {"check", "push"}
      BY <3>1, CheckedMoves
    <3>3. QED
      BY <1>1, <1>3, <1>6, <1>7, <3>1, <3>2 DEF KnowsItself, Running
  <2>3. QED
    BY <2>1, <2>2
<1>13. CASE CheckBuild(p)
  <2>1. CASE \E e \in {"conflict", "access"} : Fail(p, e)
    BY <1>4, <2>1 DEF Errors, KnowsItself
  <2>2. CASE ~\E e \in {"conflict", "access"} : Fail(p, e)
    <3>1. pc[p] = "check_build" /\ UNCHANGED <<release, output, touched>> /\ Checked(p)
      BY <1>13, <2>2 DEF CheckBuild, self
    <3>2. pc'[p] = "push" \/ (p \in Publishers /\ pc'[p] = "check")
      BY <3>1, CheckedMoves
    <3>3. QED
      BY <1>1, <1>3, <1>6, <1>7, <3>1, <3>2 DEF KnowsItself, Running
  <2>3. QED
    BY <2>1, <2>2
<1>14. CASE Push(p)
  <2>1. CASE \E e \in {"access", "integrity"} : Fail(p, e)
    BY <1>4, <2>1 DEF Errors, KnowsItself
  <2>2. CASE ~\E e \in {"access", "integrity"} : Fail(p, e)
    <3>1. pc[p] = "push" /\ UNCHANGED <<pc, release, output>>
      BY <1>14, <2>2 DEF Push, self
    <3>2. QED
      BY <1>1, <1>3, <3>1 DEF KnowsItself
  <2>3. QED
    BY <2>1, <2>2
<1>15. CASE NextRegistry(p)
  <2>1. pc[p] = "push" /\ UNCHANGED <<release, output, touched>>
    BY <1>15 DEF NextRegistry, self
  <2>2. pc'[p] \in {"finish", "push"} \/ (p \notin Publishers /\ pc'[p] = "check_build")
    BY <1>15 DEF TypeOK, NextRegistry, AllFirst, FirstCheck, Goto
  <2>3. QED
    BY <1>1, <1>3, <1>6, <1>7, <2>1, <2>2 DEF KnowsItself, Running
<1>16. CASE Finish(p)
  <2>1. CASE Fail(p, "cache")
    BY <1>4, <2>1 DEF Errors, KnowsItself
  <2>2. CASE ~Fail(p, "cache")
    <3>1. pc[p] = "finish" /\ pc'[p] = "done" /\ UNCHANGED <<release, output, touched>>
      BY <1>16, <2>2 DEF TypeOK, Finish, Goto, self
    <3>2. QED
      BY <1>1, <1>3, <1>6, <1>7, <3>1 DEF KnowsItself, Running
  <2>3. QED
    BY <2>1, <2>2
<1>17. CASE Crash(p)
  BY <1>17 DEF TypeOK, KnowsItself, Crash, Forget, Goto, Running
<1>18. QED
  BY <1>8, <1>9, <1>10, <1>11, <1>12, <1>13, <1>14, <1>15, <1>16, <1>17 DEF Step

\* A check that fails has nothing to undo.
LEMMA StepErrors ==
  ASSUME TypeOK, Knows, ErrorsAreFaithful, NEW p \in Runs, Begin(p) \/ Step(p) \/ Crash(p)
  PROVE  ErrorsAreFaithful'
<1>1. ASSUME NEW q \in Publishers, q # p, pc'[q] = "failed", touched'[q]
      PROVE  error'[q] \in {"access", "integrity", "cache"}
  BY <1>1, OthersUnchanged DEF ErrorsAreFaithful, Runs
<1>2. ASSUME p \in Publishers, pc'[p] = "failed", touched'[p]
      PROVE  error'[p] \in {"access", "integrity", "cache"}
  BY <1>2 DEF TypeOK, Knows, KnowsItself, ErrorsAreFaithful, Step, Begin, PullRelease, Build,
    CheckMoved, CheckRelease, CheckBuild, Push, NextRegistry, Finish, Crash, Checked, FirstCheck,
    Fail, Goto
<1>3. QED
  BY <1>1, <1>2 DEF ErrorsAreFaithful

-----------------------------------------------------------------------------
(* What a push does.                                                       *)

\* It stores a blob, or one of the two tags, of what the run has made.
LEMMA WhatIsStored ==
  ASSUME TypeOK, Knows, BlobsFirst,
         NEW p \in Runs, pc[p] = "push", todo[p] # <<>>, Store(p)
  PROVE  /\ At(p) \in Registries /\ release[p] \in Releases /\ todo[p][1] \in Needed(p)
         /\ \/ /\ todo[p][1][2] # "tag" /\ todo[p][1] \in AllBlobs
               /\ blobs' = [blobs EXCEPT ![At(p)] = @ \cup {todo[p][1]}]
               /\ UNCHANGED <<version, built>>
            \/ /\ todo[p][1] = <<ReleaseArtifact(p), "tag">>
               /\ p \in Publishers /\ release[p] = source[p]
               /\ version' = [version EXCEPT ![At(p)] = release[p]]
               /\ UNCHANGED <<built, blobs>>
            \/ /\ todo[p][1] = <<BuildArtifact(p), "tag">> /\ output[p] \in Outputs
               /\ built' = [built EXCEPT ![At(p)] = [@ EXCEPT ![release[p]] = output[p]]]
               /\ UNCHANGED <<version, blobs>>
<1>1. At(p) \in Registries
  BY RegistriesAreInOrder DEF TypeOK, At
<1>2. release[p] \in Releases /\ (p \in Publishers => release[p] = source[p])
  BY DEF Knows, KnowsItself, Running
<1>3. 1 \in 1 .. Len(todo[p])
  BY NextPiece
<1>4. todo[p][1] \in Needed(p)
  BY <1>3 DEF BlobsFirst
<1>5. Head(todo[p]) = todo[p][1] /\ todo[p][1] \in Artifacts \X Kinds
  BY NextPiece
<1>6. PICK a \in Own(p), kind \in Kinds : todo[p][1] = <<a, kind>>
  BY <1>4 DEF Needed
<1>7. CASE kind # "tag"
  <2>1. todo[p][1] \in AllBlobs
    BY <1>5, <1>6, <1>7 DEF AllBlobs, Kinds
  <2>2. QED
    BY <1>1, <1>2, <1>4, <1>5, <1>6, <1>7, <2>1 DEF Store
<1>8. CASE kind = "tag" /\ p \in Publishers /\ a = ReleaseArtifact(p)
  BY <1>1, <1>2, <1>4, <1>5, <1>6, <1>8 DEF Store, ReleaseArtifact
<1>9. CASE kind = "tag" /\ output[p] # None /\ a = BuildArtifact(p)
  <2>1. output[p] \in Outputs
    BY <1>9 DEF TypeOK
  <2>2. a[1] = "build" /\ a[2] = release[p] /\ a[3] = output[p]
    BY <1>9 DEF BuildArtifact
  <2>3. built' = [built EXCEPT ![At(p)] = [@ EXCEPT ![a[2]] = a[3]]] /\ UNCHANGED <<version, blobs>>
    BY <1>5, <1>6, <1>9, <2>2 DEF Store
  <2>4. QED
    BY <1>1, <1>2, <1>4, <1>6, <1>9, <2>1, <2>2, <2>3
<1>10. QED
  BY <1>6, <1>7, <1>8, <1>9 DEF Own

\* Blobs stay, and a tag changes to what its run has made.
LEMMA RegistriesGrow ==
  ASSUME TypeOK, Knows, BlobsFirst, NEW p \in Runs, Begin(p) \/ Step(p) \/ Crash(p),
         NEW r \in Registries
  PROVE  /\ blobs[r] \subseteq blobs'[r]
         /\ \/ version'[r] = version[r]
            \/ /\ pc[p] = "push" /\ r = At(p) /\ p \in Publishers
               /\ release[p] = source[p] /\ version'[r] = release[p]
         /\ \A d \in Releases :
              \/ built'[r][d] = built[r][d]
              \/ /\ pc[p] = "push" /\ r = At(p)
                 /\ d = release[p] /\ output[p] \in Outputs /\ built'[r][d] = output[p]
<1>1. CASE UNCHANGED registry
  BY <1>1 DEF registry
<1>2. CASE pc[p] = "push" /\ todo[p] # <<>> /\ Store(p)
  <2>1. CASE /\ blobs' = [blobs EXCEPT ![At(p)] = @ \cup {todo[p][1]}]
             /\ UNCHANGED <<version, built>>
    BY <2>1 DEF TypeOK
  <2>2. CASE /\ p \in Publishers /\ release[p] = source[p]
             /\ version' = [version EXCEPT ![At(p)] = release[p]]
             /\ UNCHANGED <<built, blobs>>
    BY <1>2, <2>2 DEF TypeOK
  <2>3. CASE /\ output[p] \in Outputs
             /\ built' = [built EXCEPT ![At(p)] = [@ EXCEPT ![release[p]] = output[p]]]
             /\ UNCHANGED <<version, blobs>>
    <3>1. built[r] \in [Releases -> Outputs \cup {None}]
      BY DEF TypeOK
    <3>2. QED
      BY <1>2, <2>3, <3>1 DEF TypeOK
  <2>4. QED
    BY <1>2, <2>1, <2>2, <2>3, WhatIsStored
<1>3. QED
  BY <1>1, <1>2, OnlyPushStores

\* Whoever is to push has just planned to, or has just pushed.
LEMMA WhoPushes ==
  ASSUME TypeOK, NEW p \in Runs, Begin(p) \/ Step(p) \/ Crash(p), pc'[p] = "push"
  PROVE  /\ release'[p] = release[p] /\ output'[p] = output[p]
         /\ \/ /\ todo'[p] = Plan(p) /\ UNCHANGED registry
               /\ \/ /\ pc[p] \in {"check", "check_build"}
                     /\ p \in Publishers => idx[p] = Len(Order) /\ idx'[p] = 1
                     /\ p \notin Publishers => idx'[p] = idx[p]
                  \/ /\ pc[p] = "push" /\ todo[p] = <<>> /\ p \in Publishers
                     /\ idx'[p] = idx[p] + 1 /\ idx[p] # Len(Order)
            \/ /\ pc[p] = "push" /\ todo[p] # <<>> /\ Store(p)
               /\ todo'[p] = Tail(todo[p]) /\ idx'[p] = idx[p]
<1>1. CASE Begin(p) \/ PullRelease(p) \/ Build(p) \/ CheckMoved(p) \/ Finish(p) \/ Crash(p)
  <2>1. pc'[p] # "push"
    BY <1>1 DEF TypeOK, Begin, PullRelease, Build, CheckMoved, Finish, Crash, Fail, Goto
  <2>2. QED
    BY <2>1
<1>2. CASE CheckRelease(p)
  <2>1. Checked(p) /\ pc[p] = "check" /\ UNCHANGED <<self, registry>>
    BY <1>2 DEF TypeOK, CheckRelease, Fail, Goto
  <2>2. QED
    BY <2>1, CheckedMoves DEF self
<1>3. CASE CheckBuild(p)
  <2>1. Checked(p) /\ pc[p] = "check_build" /\ UNCHANGED <<self, registry>>
    BY <1>3 DEF TypeOK, CheckBuild, Fail, Goto
  <2>2. QED
    BY <2>1, CheckedMoves DEF self
<1>4. CASE Push(p)
  BY <1>4 DEF TypeOK, Push, Fail, Goto, self
<1>5. CASE NextRegistry(p)
  BY <1>5 DEF TypeOK, NextRegistry, AllFirst, FirstCheck, Goto, self
<1>6. QED
  BY <1>1, <1>2, <1>3, <1>4, <1>5 DEF Step

-----------------------------------------------------------------------------
(* Tags and blobs.                                                         *)

\* Empty registries have no tags.
LEMMA InitTags == Init => BlobsFirst /\ TagsAreClosed /\ NothingLeftOut
<1>1. Init => BlobsFirst
  BY DEF Init, BlobsFirst
<1>2. Init => NothingLeftOut
  BY DEF Init, NothingLeftOut, Runs
<1>3. None \notin Releases
  BY PublishAssumption
<1>4. ASSUME Init, NEW r \in Registries, NEW d \in Releases
      PROVE  version[r] = None /\ built[r][d] = None
  BY <1>4 DEF Init
<1>5. Init => TagsAreClosed
  BY <1>3, <1>4 DEF TagsAreClosed
<1>6. QED
  BY <1>1, <1>2, <1>5

\* A push takes the next piece of its plan, and passes on with a new plan.
LEMMA StepBlobsFirst ==
  ASSUME TypeOK, Knows, BlobsFirst, NEW p \in Runs, Begin(p) \/ Step(p) \/ Crash(p)
  PROVE  BlobsFirst'
<1> SUFFICES ASSUME NEW q \in Runs, pc'[q] = "push"
             PROVE  /\ \A j \in 1 .. Len(todo'[q]) : todo'[q][j] \in Needed(q)'
                    /\ \A j \in 1 .. Len(todo'[q]), part \in {"config", "layer"} :
                         todo'[q][j][2] = "tag" =>
                           \/ <<todo'[q][j][1], part>> \in blobs'[At(q)']
                           \/ \E k \in 1 .. j - 1 : todo'[q][k] = <<todo'[q][j][1], part>>
  BY DEF BlobsFirst
<1>1. At(q) \in Registries
  BY RegistriesAreInOrder DEF TypeOK, At
<1>2. CASE q # p
  <2>1. /\ pc[q] = "push" /\ todo'[q] = todo[q]
        /\ Needed(q)' = Needed(q) /\ At(q)' = At(q)
    BY <1>2, OthersUnchanged DEF Needed, Own, ReleaseArtifact, BuildArtifact, At
  <2>2. blobs[At(q)] \subseteq blobs'[At(q)]
    BY <1>1, RegistriesGrow
  <2>3. \A j \in 1 .. Len(todo'[q]) : todo'[q][j] \in Needed(q)'
    BY <2>1 DEF BlobsFirst
  <2>4. ASSUME NEW j \in 1 .. Len(todo'[q]), NEW part \in {"config", "layer"},
               todo'[q][j][2] = "tag"
        PROVE  \/ <<todo'[q][j][1], part>> \in blobs'[At(q)']
               \/ \E k \in 1 .. j - 1 : todo'[q][k] = <<todo'[q][j][1], part>>
    <3>1. \/ <<todo[q][j][1], part>> \in blobs[At(q)]
          \/ \E k \in 1 .. j - 1 : todo[q][k] = <<todo[q][j][1], part>>
      BY <2>1, <2>4 DEF BlobsFirst
    <3>2. QED
      BY <2>1, <2>2, <3>1
  <2>5. QED
    BY <2>3, <2>4
<1>3. CASE q = p
  <2>1. Needed(p)' = Needed(p)
    BY <1>3, WhoPushes DEF Needed, Own, ReleaseArtifact, BuildArtifact
  <2>2. CASE todo'[p] = Plan(p) /\ pc[p] \in {"check", "check_build", "push"}
    <3>1. release[p] \in Releases /\ output[p] \in Outputs \cup {None}
      BY <2>2 DEF TypeOK, Knows, KnowsItself, Running
    <3>2. \A j \in 1 .. Len(todo'[p]) : todo'[p][j] \in Needed(p)
      BY <2>2, <3>1, PlanIsNeeded
    <3>3. ASSUME NEW j \in 1 .. Len(todo'[p]), NEW part \in {"config", "layer"},
                 todo'[p][j][2] = "tag"
          PROVE  \E k \in 1 .. j - 1 : todo'[p][k] = <<todo'[p][j][1], part>>
      <4>1. \A i \in 1 .. Len(Plan(p)), c \in {"config", "layer"} :
              Plan(p)[i][2] = "tag" => \E k \in 1 .. i - 1 : Plan(p)[k] = <<Plan(p)[i][1], c>>
        BY <3>1, PlanIsNeeded
      <4>2. QED
        BY <2>2, <3>3, <4>1
    <3>4. QED
      BY <1>3, <2>1, <3>2, <3>3
  <2>3. CASE /\ pc[p] = "push" /\ todo[p] # <<>> /\ Store(p)
             /\ todo'[p] = Tail(todo[p]) /\ idx'[p] = idx[p]
    <3>1. At(p)' = At(p) /\ blobs[At(p)] \subseteq blobs'[At(p)]
      BY <1>1, <1>3, <2>3, RegistriesGrow DEF At
    <3>2. /\ Len(todo[p]) \in Nat \ {0} /\ Len(todo'[p]) = Len(todo[p]) - 1
          /\ \A j \in 1 .. Len(todo'[p]) : todo'[p][j] = todo[p][j + 1]
      BY <2>3, NextPiece
    <3>3. ASSUME NEW j \in 1 .. Len(todo'[p])
          PROVE  todo'[p][j] \in Needed(p)
      <4>1. j + 1 \in 1 .. Len(todo[p])
        BY <3>2
      <4>2. QED
        BY <2>3, <3>2, <4>1 DEF BlobsFirst
    <3>4. ASSUME NEW j \in 1 .. Len(todo'[p]), NEW part \in {"config", "layer"},
                 todo'[p][j][2] = "tag"
          PROVE  \/ <<todo'[p][j][1], part>> \in blobs'[At(p)']
                 \/ \E k \in 1 .. j - 1 : todo'[p][k] = <<todo'[p][j][1], part>>
      <4>1. j + 1 \in 1 .. Len(todo[p]) /\ todo'[p][j] = todo[p][j + 1] /\ j \in Nat
        BY <3>2
      <4>2. CASE <<todo[p][j + 1][1], part>> \in blobs[At(p)]
        BY <3>1, <4>1, <4>2
      <4>3. CASE \E k \in 1 .. (j + 1) - 1 : todo[p][k] = <<todo[p][j + 1][1], part>>
        <5>1. PICK k \in 1 .. (j + 1) - 1 : todo[p][k] = <<todo[p][j + 1][1], part>>
          BY <4>3
        <5>2. CASE k = 1
          <6>1. todo[p][1][2] # "tag"
            BY <5>1, <5>2
          <6>2. blobs' = [blobs EXCEPT ![At(p)] = @ \cup {todo[p][1]}]
            BY <2>3, <6>1, WhatIsStored
          <6>3. todo[p][1] \in blobs'[At(p)]
            BY <1>1, <1>3, <6>2 DEF TypeOK
          <6>4. QED
            BY <3>1, <4>1, <5>1, <5>2, <6>3
        <5>3. CASE k # 1
          <6>1. k - 1 \in 1 .. j - 1 /\ k - 1 \in 1 .. Len(todo'[p]) /\ (k - 1) + 1 = k
            BY <4>1, <5>3, <3>2
          <6>2. todo'[p][k - 1] = todo[p][k]
            BY <3>2, <6>1
          <6>3. QED
            BY <4>1, <5>1, <6>1, <6>2
        <5>4. QED
          BY <5>2, <5>3
      <4>4. QED
        BY <2>3, <3>4, <4>1, <4>2, <4>3 DEF BlobsFirst
    <3>5. QED
      BY <1>3, <2>1, <3>3, <3>4
  <2>4. QED
    BY <1>3, <2>2, <2>3, WhoPushes
<1>4. QED
  BY <1>2, <1>3

\* A tag is set when its blobs have been.
LEMMA StepTagsAreClosed ==
  ASSUME TypeOK, Knows, BlobsFirst, TagsAreClosed,
         NEW p \in Runs, Begin(p) \/ Step(p) \/ Crash(p)
  PROVE  TagsAreClosed'
<1>1. ASSUME NEW r \in Registries, NEW a, Holds(r, a)
      PROVE  Holds(r, a)'
  BY <1>1, RegistriesGrow DEF Holds
<1>2. CASE UNCHANGED registry
  BY <1>2 DEF registry, TagsAreClosed, Holds
<1>3. CASE pc[p] = "push" /\ todo[p] # <<>> /\ Store(p)
  <2>1. At(p) \in Registries /\ release[p] \in Releases
    BY <1>3, WhatIsStored
  <2>2. ASSUME NEW a, todo[p][1] = <<a, "tag">>
        PROVE  Holds(At(p), a)
    <3>1. 1 \in 1 .. Len(todo[p]) /\ 1 .. (1 - 1) = {}
      BY <1>3, NextPiece
    <3>2. todo[p][1][1] = a /\ todo[p][1][2] = "tag"
      BY <2>2
    <3>3. ASSUME NEW part \in {"config", "layer"}
          PROVE  <<todo[p][1][1], part>> \in blobs[At(p)]
      <4>1. \/ <<todo[p][1][1], part>> \in blobs[At(p)]
            \/ \E k \in 1 .. 1 - 1 : todo[p][k] = <<todo[p][1][1], part>>
        BY <1>3, <3>1, <3>2 DEF BlobsFirst
      <4>2. QED
        BY <3>1, <4>1
    <3>4. QED
      BY <3>2, <3>3 DEF Holds
  <2>3. CASE /\ todo[p][1] = <<ReleaseArtifact(p), "tag">>
             /\ version' = [version EXCEPT ![At(p)] = release[p]]
             /\ UNCHANGED <<built, blobs>>
    <3>1. Holds(At(p), <<"release", release[p], None>>)
      BY <2>2, <2>3 DEF ReleaseArtifact
    <3>2. ASSUME NEW r \in Registries, NEW d \in Releases, version'[r] = d
          PROVE  Holds(r, <<"release", d, None>>)
      <4>1. \/ r = At(p) /\ d = release[p]
            \/ version[r] = d
        BY <2>1, <2>3, <3>2 DEF TypeOK
      <4>2. QED
        BY <3>1, <4>1 DEF TagsAreClosed
    <3>3. QED
      BY <2>3, <3>2 DEF TagsAreClosed, Holds
  <2>4. CASE /\ todo[p][1] = <<BuildArtifact(p), "tag">> /\ output[p] \in Outputs
             /\ built' = [built EXCEPT ![At(p)] = [@ EXCEPT ![release[p]] = output[p]]]
             /\ UNCHANGED <<version, blobs>>
    <3>1. Holds(At(p), <<"build", release[p], output[p]>>)
      BY <2>2, <2>4 DEF BuildArtifact
    <3>2. ASSUME NEW r \in Registries, NEW d \in Releases, built'[r][d] # None
          PROVE  Holds(r, <<"build", d, built'[r][d]>>)
      <4>1. built[r] \in [Releases -> Outputs \cup {None}]
        BY DEF TypeOK
      <4>2. CASE r = At(p) /\ d = release[p]
        BY <2>1, <2>4, <3>1, <4>1, <4>2 DEF TypeOK
      <4>3. CASE ~(r = At(p) /\ d = release[p])
        <5>1. built'[r][d] = built[r][d]
          BY <2>1, <2>4, <4>1, <4>3 DEF TypeOK
        <5>2. QED
          BY <3>2, <5>1 DEF TagsAreClosed
      <4>4. QED
        BY <4>2, <4>3
    <3>3. QED
      BY <2>4, <3>2 DEF TagsAreClosed, Holds
  <2>5. CASE UNCHANGED <<version, built>>
    BY <1>1, <2>5 DEF TagsAreClosed
  <2>6. QED
    BY <1>3, <2>3, <2>4, <2>5, WhatIsStored
<1>4. QED
  BY <1>2, <1>3, OnlyPushStores

-----------------------------------------------------------------------------
(* What success means.                                                     *)

\* A run is through when the plan for its last registry is empty.
LEMMA WhoFinishes ==
  ASSUME TypeOK, NEW p \in Runs, Begin(p) \/ Step(p) \/ Crash(p), pc'[p] \in {"finish", "done"}
  PROVE  /\ release'[p] = release[p] /\ output'[p] = output[p] /\ UNCHANGED registry
         /\ \/ pc[p] = "finish"
            \/ pc[p] = "push" /\ todo[p] = <<>> /\ idx[p] = Len(Order)
<1>1. CASE Begin(p) \/ PullRelease(p) \/ Build(p) \/ CheckMoved(p) \/ Push(p) \/ Crash(p)
  <2>1. pc'[p] \notin {"finish", "done"}
    BY <1>1 DEF TypeOK, Begin, PullRelease, Build, CheckMoved, Push, Crash, Fail, Goto
  <2>2. QED
    BY <2>1
<1>2. CASE CheckRelease(p) \/ CheckBuild(p)
  <2>1. pc'[p] \notin {"finish", "done"}
    BY <1>2, CheckedMoves DEF TypeOK, CheckRelease, CheckBuild, Fail, Goto
  <2>2. QED
    BY <2>1
<1>3. CASE NextRegistry(p)
  BY <1>3 DEF TypeOK, NextRegistry, AllFirst, FirstCheck, Goto, self
<1>4. CASE Finish(p)
  BY <1>4 DEF TypeOK, Finish, Fail, Goto, self
<1>5. QED
  BY <1>1, <1>2, <1>3, <1>4 DEF Step

\* What is stored for a publisher is not taken away by another.
LEMMA StoredStays ==
  ASSUME TypeOK, Knows, BlobsFirst, UNCHANGED setting,
         NEW p \in Runs, Begin(p) \/ Step(p) \/ Crash(p),
         NEW q \in Publishers, pc[q] \in {"push", "finish", "done"}, NEW x \in Needed(q),
         NEW r \in Registries, Stored(r, x)
  PROVE  Stored(r, x)'
<1>1. q \in Runs /\ release[q] = source[q] /\ source[q] \in Releases
  BY DEF TypeOK, Knows, KnowsItself, Running, Runs
<1>2. PICK a \in Own(q), kind \in Kinds : x = <<a, kind>>
  BY DEF Needed
<1>3. a[2] = source[q] /\ (a[1] = "build" \/ a[1] = "release")
  BY <1>1, <1>2 DEF Own, BuildArtifact, ReleaseArtifact
<1>4. OneSource' = OneSource /\ scene' = scene
  BY DEF setting, OneSource
<1>5. x[2] # "tag" => x \in blobs'[r]
  BY RegistriesGrow DEF Stored
<1>6. ASSUME x[2] = "tag", x[1][1] = "build"
      PROVE  built'[r][x[1][2]] # None
  BY <1>1, <1>2, <1>3, <1>6, RegistriesGrow, PublishAssumption DEF Stored
<1>7. ASSUME x[2] = "tag", x[1][1] = "release", ~scene.dev, OneSource
      PROVE  version'[r] = x[1][2]
  BY <1>2, <1>3, <1>7, RegistriesGrow DEF Stored, OneSource
<1>8. QED
  BY <1>4, <1>5, <1>6, <1>7 DEF Stored

\* A run passes on when it has stored all that its registry needs.
LEMMA StepNothingLeftOut ==
  ASSUME TypeOK, Knows, BlobsFirst, NothingLeftOut, UNCHANGED setting,
         NEW p \in Runs, Begin(p) \/ Step(p) \/ Crash(p)
  PROVE  NothingLeftOut'
<1>1. ASSUME NEW q \in Publishers, pc'[q] = "push", NEW x \in Needed(q)'
      PROVE  /\ \A i \in 1 .. idx'[q] - 1 : Stored(Order[i], x)'
             /\ Stored(At(q), x)' \/ \E j \in 1 .. Len(todo'[q]) : todo'[q][j] = x
  <2>1. q \in Runs
    BY DEF Runs
  <2>2. release'[q] = release[q] /\ output'[q] = output[q]
    BY <1>1, <2>1, OthersUnchanged, WhoPushes
  <2>3. x \in Needed(q)
    BY <1>1, <2>2 DEF Needed, Own, ReleaseArtifact, BuildArtifact
  <2>4. At(q) \in Registries /\ idx[q] \in 1 .. Len(Order)
    BY <2>1, RegistriesAreInOrder DEF TypeOK, At
  <2>5. ASSUME pc[q] = "push", NEW i \in 1 .. idx[q] - 1
        PROVE  Stored(Order[i], x)'
    <3>1. Order[i] \in Registries
      BY <2>4, <2>5, RegistriesAreInOrder
    <3>2. Stored(Order[i], x)
      BY <2>3, <2>5 DEF NothingLeftOut
    <3>3. QED
      BY <2>3, <2>5, <3>1, <3>2, StoredStays DEF Stored
  <2>6. ASSUME pc[q] = "push", Stored(At(q), x)
        PROVE  \A r \in Registries : r = At(q) => Stored(r, x)'
    BY <2>3, <2>4, <2>6, StoredStays DEF Stored
  <2>7. CASE q # p
    <3>1. pc[q] = "push" /\ todo'[q] = todo[q] /\ idx'[q] = idx[q] /\ At(q)' = At(q)
      BY <1>1, <2>1, <2>7, OthersUnchanged DEF At
    <3>2. Stored(At(q), x) \/ \E j \in 1 .. Len(todo[q]) : todo[q][j] = x
      BY <2>3, <3>1 DEF NothingLeftOut
    <3>3. QED
      BY <2>4, <2>5, <2>6, <3>1, <3>2 DEF Stored
  <2>8. CASE q = p /\ pc[q] = "push" /\ todo[q] # <<>> /\ Store(q)
             /\ todo'[q] = Tail(todo[q]) /\ idx'[q] = idx[q]
    <3>1. At(q)' = At(q)
      BY <2>8 DEF At
    <3>2. /\ Len(todo[q]) \in Nat \ {0} /\ Len(todo'[q]) = Len(todo[q]) - 1
          /\ \A j \in 1 .. Len(todo'[q]) : todo'[q][j] = todo[q][j + 1]
      BY <2>1, <2>8, NextPiece
    <3>3. CASE Stored(At(q), x)
      BY <2>4, <2>5, <2>6, <2>8, <3>1, <3>3 DEF Stored
    <3>4. CASE todo[q][1] = x
      <4>1. Stored(At(q), x)'
        <5>1. CASE x[2] # "tag" /\ blobs' = [blobs EXCEPT ![At(q)] = @ \cup {x}]
          <6>1. x \in blobs'[At(q)]
            BY <2>4, <5>1 DEF TypeOK
          <6>2. QED
            BY <3>1, <5>1, <6>1 DEF Stored
        <5>2. CASE /\ x = <<ReleaseArtifact(q), "tag">>
                   /\ version' = [version EXCEPT ![At(q)] = release[q]]
          <6>1. x[2] = "tag" /\ x[1][1] = "release" /\ x[1][2] = release[q]
            BY <5>2 DEF ReleaseArtifact
          <6>2. version'[At(q)] = release[q]
            BY <2>4, <5>2 DEF TypeOK
          <6>3. QED
            BY <3>1, <6>1, <6>2 DEF Stored
        <5>3. CASE /\ x = <<BuildArtifact(q), "tag">> /\ output[q] \in Outputs
                   /\ built' = [built EXCEPT ![At(q)] = [@ EXCEPT ![release[q]] = output[q]]]
          <6>1. x[2] = "tag" /\ x[1][1] = "build" /\ x[1][2] = release[q]
            BY <5>3 DEF BuildArtifact
          <6>2. release[q] \in Releases /\ built[At(q)] \in [Releases -> Outputs \cup {None}]
            BY <2>1, <2>4, <2>8, WhatIsStored DEF TypeOK
          <6>3. built'[At(q)][release[q]] = output[q] /\ output[q] # None
            BY <2>4, <5>3, <6>2, PublishAssumption DEF TypeOK
          <6>4. QED
            BY <3>1, <6>1, <6>3 DEF Stored
        <5>4. QED
          BY <2>1, <2>8, <3>4, <5>1, <5>2, <5>3, WhatIsStored
      <4>2. QED
        BY <2>5, <2>8, <3>1, <4>1 DEF Stored
    <3>5. ASSUME NEW j \in 1 .. Len(todo[q]), j # 1, todo[q][j] = x
          PROVE  \E k \in 1 .. Len(todo'[q]) : todo'[q][k] = x
      <4>1. j - 1 \in 1 .. Len(todo'[q]) /\ (j - 1) + 1 = j
        BY <3>2, <3>5
      <4>2. QED
        BY <3>2, <3>5, <4>1
    <3>6. QED
      BY <2>3, <2>5, <2>8, <3>3, <3>4, <3>5 DEF NothingLeftOut
  <2>9. CASE q = p /\ todo'[q] = Plan(q) /\ pc[q] \in {"check", "check_build"} /\ idx'[q] = 1
    <3>1. release[q] \in Releases /\ output[q] \in Outputs \cup {None}
      BY <2>1, <2>9 DEF TypeOK, Knows, KnowsItself, Running
    <3>2. \E j \in 1 .. Len(todo'[q]) : todo'[q][j] = x
      BY <2>1, <2>3, <2>9, <3>1, PlanIsNeeded
    <3>3. 1 .. idx'[q] - 1 = {}
      BY <2>9
    <3>4. QED
      BY <3>2, <3>3
  <2>10. CASE q = p /\ todo'[q] = Plan(q) /\ pc[q] = "push" /\ todo[q] = <<>>
              /\ idx'[q] = idx[q] + 1 /\ idx[q] # Len(Order)
    <3>1. release[q] \in Releases /\ output[q] \in Outputs \cup {None}
      BY <2>1, <2>10 DEF TypeOK, Knows, KnowsItself, Running
    <3>2. \E j \in 1 .. Len(todo'[q]) : todo'[q][j] = x
      BY <2>1, <2>3, <2>10, <3>1, PlanIsNeeded
    <3>3. Stored(At(q), x)
      BY <2>3, <2>10 DEF NothingLeftOut
    <3>4. ASSUME NEW i \in 1 .. idx'[q] - 1
          PROVE  Stored(Order[i], x)'
      <4>1. i \in 1 .. idx[q] - 1 \/ i = idx[q]
        BY <2>4, <2>10
      <4>2. QED
        BY <2>4, <2>5, <2>6, <2>10, <3>3, <4>1 DEF At, Stored
    <3>5. QED
      BY <3>2, <3>4
  <2>11. QED
    BY <1>1, <2>7, <2>8, <2>9, <2>10, WhoPushes
<1>2. ASSUME NEW q \in Publishers, pc'[q] \in {"finish", "done"}, NEW x \in Needed(q)',
             NEW r \in Registries
      PROVE  Stored(r, x)'
  <2>1. q \in Runs
    BY DEF Runs
  <2>2. release'[q] = release[q] /\ output'[q] = output[q]
    BY <1>2, <2>1, OthersUnchanged, WhoFinishes
  <2>3. x \in Needed(q)
    BY <1>2, <2>2 DEF Needed, Own, ReleaseArtifact, BuildArtifact
  <2>4. pc[q] \in {"push", "finish", "done"} /\ Stored(r, x)
    <3>1. CASE pc[q] \in {"finish", "done"}
      BY <2>3, <3>1 DEF NothingLeftOut
    <3>2. CASE pc[q] = "push" /\ todo[q] = <<>> /\ idx[q] = Len(Order)
      <4>1. PICK i \in 1 .. Len(Order) : Order[i] = r
        BY RegistriesAreInOrder
      <4>2. i \in 1 .. idx[q] - 1 \/ i = idx[q]
        BY <3>2, <4>1, RegistriesAreInOrder
      <4>3. 1 .. Len(todo[q]) = {}
        BY <3>2
      <4>4. QED
        BY <2>3, <3>2, <4>1, <4>2, <4>3 DEF NothingLeftOut, At
    <3>3. QED
      BY <1>2, <2>1, <3>1, <3>2, OthersUnchanged, WhoFinishes
  <2>5. QED
    BY <2>3, <2>4, StoredStays DEF Stored
<1>3. QED
  BY <1>1, <1>2 DEF NothingLeftOut

-----------------------------------------------------------------------------
(* Nobody is in the way of another.                                        *)

\* Nothing has been compiled.
LEMMA InitAgrees == Init => AllAgree
BY DEF Init, AllAgree

\* With one source and one output there is nothing to disagree about.
LEMMA StepAgrees ==
  ASSUME TypeOK, Knows, BlobsFirst, AllAgree, UNCHANGED setting,
         NEW p \in Runs, Begin(p) \/ Step(p) \/ Crash(p)
  PROVE  AllAgree'
<1> SUFFICES ASSUME scene.reproducible, OneSource
             PROVE  /\ \A q \in Runs : output'[q] \in {None, TheOutput} /\ error'[q] # "conflict"
                    /\ \A r \in Registries, d \in Releases : built'[r][d] \in {None, TheOutput}
                    /\ \A r \in Registries, q \in Publishers : version'[r] \in {None, source[q]}
  BY DEF AllAgree, OneSource, setting
<1>1. /\ \A q \in Runs : output[q] \in {None, TheOutput} /\ error[q] # "conflict"
      /\ \A r \in Registries, d \in Releases : built[r][d] \in {None, TheOutput}
      /\ \A r \in Registries, q \in Publishers : version[r] \in {None, source[q]}
  BY DEF AllAgree
<1>2. At(p) \in Registries
  BY RegistriesAreInOrder DEF TypeOK, At
<1>3. output'[p] \in {None, TheOutput} /\ error'[p] # "conflict"
  <2>1. CASE Begin(p)
    BY <2>1 DEF TypeOK, Begin
  <2>2. CASE Build(p)
    BY <1>1, <2>2 DEF TypeOK, Build, Fail, Forget, TheOutput
  <2>3. CASE PullRelease(p) \/ CheckMoved(p) \/ Push(p) \/ NextRegistry(p) \/ Finish(p) \/ Crash(p)
    BY <1>1, <2>3 DEF TypeOK, PullRelease, CheckMoved, Push, NextRegistry, Finish, Crash, Fail,
                      Forget, self
  <2>4. CASE CheckRelease(p)
    <3>1. p \in Publishers /\ release[p] = source[p]
      BY <2>4 DEF Knows, KnowsItself, CheckRelease, Runs, Running
    <3>2. version[At(p)] \in {None, release[p]}
      BY <1>1, <1>2, <3>1
    <3>3. QED
      BY <1>1, <2>4, <3>2 DEF TypeOK, CheckRelease, Fail, Forget, self
  <2>5. CASE CheckBuild(p)
    <3>1. release[p] \in Releases /\ output[p] # None
      BY <2>5 DEF Knows, KnowsItself, CheckBuild, Runs, Running
    <3>2. built[At(p)][release[p]] \in {None, output[p]}
      BY <1>1, <1>2, <3>1
    <3>3. QED
      BY <1>1, <2>5, <3>2 DEF TypeOK, CheckBuild, Fail, Forget, self
  <2>6. QED
    BY <2>1, <2>2, <2>3, <2>4, <2>5 DEF Step
<1>4. \A q \in Runs : output'[q] \in {None, TheOutput} /\ error'[q] # "conflict"
  BY <1>1, <1>3, OthersUnchanged
<1>5. ASSUME NEW r \in Registries, NEW d \in Releases
      PROVE  built'[r][d] \in {None, TheOutput}
  BY <1>1, RegistriesGrow
<1>6. ASSUME NEW r \in Registries, NEW q \in Publishers
      PROVE  version'[r] \in {None, source[q]}
  BY <1>1, RegistriesGrow DEF OneSource
<1>7. QED
  BY <1>4, <1>5, <1>6

-----------------------------------------------------------------------------
(* Runs that do not overlap.                                               *)

\* Nothing has been checked or bound.
LEMMA InitSerial == Init => ChecksHold /\ OneName
BY DEF Init, ChecksHold, Checking, OneName, Running

\* While one runs, no other does, and only the one takes steps.
LEMMA OnlyOneRuns ==
  ASSUME TypeOK, ChecksHold, scene.serial, NEW p \in Runs, Begin(p) \/ Step(p) \/ Crash(p),
         NEW q \in Runs, q # p
  PROVE  pc'[q] \notin Running
<1>1. CASE Begin(p)
  BY <1>1, OthersUnchanged DEF Begin
<1>2. CASE Step(p) \/ Crash(p)
  <2>1. pc[p] \in Running
    BY <1>2 DEF Step, PullRelease, Build, CheckMoved, CheckRelease, CheckBuild, Push,
                NextRegistry, Finish, Crash, Running
  <2>2. QED
    BY <2>1, OthersUnchanged DEF ChecksHold
<1>3. QED
  BY <1>1, <1>2

\* What a run that is alone pushes does not break what it has checked.
LEMMA PushKeepsCleared ==
  ASSUME TypeOK, Knows, BlobsFirst, NEW p \in Runs, Push(p), pc'[p] = "push",
         NEW r \in Registries, Cleared(p, r), UNCHANGED setting
  PROVE  Cleared(p, r)'
<1>1. UNCHANGED <<release, output, scene>>
  BY DEF TypeOK, Push, Fail, Goto, self, setting
<1>2. release[p] \in Releases
  BY DEF Knows, KnowsItself, Running, Push
<1>3. Step(p)
  BY DEF Step
<1>4. QED
  BY <1>1, <1>2, <1>3, RegistriesGrow DEF Cleared, ReleaseFits, BuildFits

\* A check that is passed is one more registry that is cleared.
LEMMA PassedOn ==
  ASSUME TypeOK, UNCHANGED <<setting, registry, self>>,
         NEW p \in Runs, Checked(p), Cleared(p, At(p)),
         p \in Publishers => \A i \in 1 .. idx[p] - 1 : Cleared(p, Order[i])
  PROVE  Checking(p)'
<1>1. idx[p] \in 1 .. Len(Order)
  BY DEF TypeOK
<1>2. ASSUME NEW r, Cleared(p, r)
      PROVE  Cleared(p, r)'
  BY <1>2 DEF Cleared, ReleaseFits, BuildFits, setting, registry, self
<1>3. \A i \in 1 .. idx[p] : p \in Publishers => Cleared(p, Order[i])
  <2>1. \A i \in 1 .. idx[p] : i \in 1 .. idx[p] - 1 \/ i = idx[p]
    BY <1>1
  <2>2. QED
    BY <2>1 DEF At
<1>4. CASE /\ p \in Publishers /\ idx[p] < Len(Order)
           /\ idx'[p] = idx[p] + 1 /\ pc'[p] = "check"
  <2>1. \A i \in 1 .. idx'[p] - 1 : i \in 1 .. idx[p]
    BY <1>1, <1>4
  <2>2. QED
    BY <1>2, <1>3, <1>4, <2>1 DEF Checking, Cleared, ReleaseFits, BuildFits
<1>5. CASE /\ p \in Publishers => idx[p] = Len(Order)
           /\ p \notin Publishers => idx'[p] = idx[p]
           /\ pc'[p] = "push"
  <2>1. p \in Publishers => \A r \in Registries : Cleared(p, r)
    BY <1>3, <1>5, RegistriesAreInOrder
  <2>2. p \notin Publishers => At(p)' = At(p)
    BY <1>5 DEF At
  <2>3. QED
    BY <1>2, <1>5, <2>1, <2>2 DEF Checking, Cleared, ReleaseFits, BuildFits
<1>6. QED
  BY <1>4, <1>5, CheckedMoves

\* What a run checks stays true, as no other is running.
LEMMA StepChecksHold ==
  ASSUME TypeOK, Knows, BlobsFirst, ChecksHold, UNCHANGED setting,
         NEW p \in Runs, Begin(p) \/ Step(p) \/ Crash(p)
  PROVE  ChecksHold'
<1> SUFFICES ASSUME scene.serial PROVE ChecksHold'
  BY DEF ChecksHold, setting
<1>1. scene' = scene
  BY DEF setting
<1>2. ASSUME NEW q \in Runs, NEW s \in Runs, pc'[q] \in Running, pc'[s] \in Running
      PROVE  q = s
  BY <1>2, OnlyOneRuns
<1>3. Checking(p)'
  <2>1. CASE pc'[p] \notin {"build", "check", "check_build", "push"}
    BY <2>1 DEF Checking
  <2>2. CASE Begin(p)
    <3>1. idx'[p] = 1 /\ 1 .. 1 - 1 = {} /\ pc'[p] \in {"pull", "build", "check"}
      BY <2>2 DEF TypeOK, Begin, Goto
    <3>2. QED
      BY <3>1 DEF Checking
  <2>3. CASE PullRelease(p)
    <3>1. p \notin Publishers
      BY <2>3 DEF Knows, KnowsItself, PullRelease
    <3>2. pc'[p] # "push"
      BY <2>3 DEF TypeOK, PullRelease, Fail, Goto
    <3>3. QED
      BY <3>1, <3>2 DEF Checking
  <2>4. CASE Build(p) /\ pc'[p] # "failed"
    <3>1. pc'[p] # "push" /\ idx'[p] = idx[p] /\ (p \in Publishers => pc'[p] = "check")
      BY <2>4, PublishAssumption DEF TypeOK, Build, Fail, Goto, place
    <3>2. p \in Publishers => idx'[p] = 1
      BY <2>4, <3>1 DEF ChecksHold, Checking, Build
    <3>3. 1 .. 1 - 1 = {}
      OBVIOUS
    <3>4. QED
      BY <3>1, <3>2, <3>3 DEF Checking
  <2>5. CASE CheckMoved(p)
    <3>1. p \notin Publishers
      BY <2>5 DEF Knows, KnowsItself, CheckMoved
    <3>2. pc'[p] # "push"
      BY <2>5 DEF TypeOK, CheckMoved, Fail, Goto
    <3>3. QED
      BY <3>1, <3>2 DEF Checking
  <2>6. CASE CheckRelease(p) /\ pc'[p] # "failed"
    <3>1. /\ pc[p] = "check" /\ p \in Publishers /\ UNCHANGED <<registry, self>>
          /\ ReleaseFits(p, At(p))
          /\ IF p \in WithBuild THEN pc'[p] = "check_build" /\ idx'[p] = idx[p] ELSE Checked(p)
      BY <2>6 DEF TypeOK, Knows, KnowsItself, CheckRelease, Fail, Goto, ReleaseFits, Runs, place
    <3>2. \A i \in 1 .. idx[p] - 1 : Cleared(p, Order[i])
      BY <3>1 DEF ChecksHold, Checking
    <3>3. CASE p \in WithBuild
      BY <1>1, <3>1, <3>2, <3>3 DEF Checking, Cleared, ReleaseFits, BuildFits, At, registry, self
    <3>4. CASE p \notin WithBuild
      <4>1. output[p] = None
        BY <3>1, <3>4 DEF Knows, KnowsItself
      <4>2. Cleared(p, At(p))
        BY <3>1, <4>1 DEF Cleared, BuildFits
      <4>3. QED
        BY <3>1, <3>2, <3>4, <4>2, PassedOn
    <3>5. QED
      BY <3>3, <3>4
  <2>7. CASE CheckBuild(p) /\ pc'[p] # "failed"
    <3>1. /\ pc[p] = "check_build" /\ UNCHANGED <<registry, self>> /\ Checked(p)
          /\ BuildFits(p, At(p))
      BY <2>7 DEF TypeOK, CheckBuild, Fail, Goto, BuildFits
    <3>2. p \in Publishers => \A i \in 1 .. idx[p] - 1 : Cleared(p, Order[i])
      BY <3>1 DEF ChecksHold, Checking
    <3>3. Cleared(p, At(p))
      BY <3>1 DEF ChecksHold, Checking, Cleared, ReleaseFits
    <3>4. QED
      BY <3>1, <3>2, <3>3, PassedOn
  <2>8. CASE Push(p) /\ pc'[p] = "push"
    <3>1. pc[p] = "push" /\ idx'[p] = idx[p] /\ At(p)' = At(p) /\ At(p) \in Registries
      BY <2>8, RegistriesAreInOrder DEF TypeOK, Push, Fail, Goto, At
    <3>2. ASSUME NEW r \in Registries, Cleared(p, r)
          PROVE  Cleared(p, r)'
      BY <2>8, <3>2, PushKeepsCleared DEF Cleared
    <3>3. p \in Publishers => \A r \in Registries : Cleared(p, r)
      BY <3>1 DEF ChecksHold, Checking
    <3>4. p \notin Publishers => Cleared(p, At(p))
      BY <3>1 DEF ChecksHold, Checking
    <3>5. QED
      BY <1>1, <2>8, <3>1, <3>2, <3>3, <3>4 DEF Checking, Cleared, ReleaseFits, BuildFits
  <2>9. CASE NextRegistry(p)
    <3>1. /\ pc[p] = "push" /\ UNCHANGED <<registry, self>>
          /\ pc'[p] = "finish"
               \/ (p \in Publishers /\ pc'[p] = "push")
               \/ (p \notin Publishers /\ pc'[p] = "check_build")
      BY <2>9 DEF TypeOK, NextRegistry, AllFirst, FirstCheck, Goto
    <3>2. p \in Publishers => \A r \in Registries : Cleared(p, r)
      BY <3>1 DEF ChecksHold, Checking
    <3>3. QED
      BY <1>1, <3>1, <3>2 DEF Checking, Cleared, ReleaseFits, BuildFits, registry, self
  <2>10. QED
    <3>1. CASE Finish(p) \/ Crash(p) \/ (Push(p) /\ pc'[p] # "push")
      <4>1. pc'[p] \notin {"build", "check", "check_build", "push"}
        BY <3>1 DEF TypeOK, Finish, Crash, Push, Fail, Goto
      <4>2. QED
        BY <2>1, <4>1
    <3>2. QED
      BY <2>1, <2>2, <2>3, <2>4, <2>5, <2>6, <2>7, <2>8, <2>9, <3>1 DEF Step
<1>4. ASSUME NEW q \in Runs, q # p
      PROVE  Checking(q)'
  <2>1. pc'[q] \notin Running
    BY <1>4, OnlyOneRuns
  <2>2. QED
    BY <2>1 DEF Checking, Running
<1>5. QED
  BY <1>2, <1>3, <1>4 DEF ChecksHold

\* A tag is set only where the checks allow it, and so to what the others say.
LEMMA StepOneName ==
  ASSUME TypeOK, Knows, BlobsFirst, ChecksHold, OneName, UNCHANGED setting,
         NEW p \in Runs, Begin(p) \/ Step(p) \/ Crash(p)
  PROVE  OneName'
<1> SUFFICES ASSUME scene.serial, ~scene.dev,
                    NEW r \in Registries, NEW s \in Registries,
                    version'[r] # None, version'[s] # None
             PROVE  version'[r] = version'[s]
  BY DEF OneName, setting
<1>1. CASE version'[r] = version[r] /\ version'[s] = version[s]
  BY <1>1 DEF OneName
<1>2. CASE pc[p] = "push" /\ p \in Publishers
  <2>1. version[r] \in {None, release[p]} /\ version[s] \in {None, release[p]}
    BY <1>2 DEF ChecksHold, Checking, Cleared, ReleaseFits
  <2>2. QED
    BY <2>1, RegistriesGrow
<1>3. QED
  BY <1>1, <1>2, RegistriesGrow

-----------------------------------------------------------------------------
(* The invariant is inductive.                                             *)

\* The first state.
LEMMA InitInv == Init => Inv
BY InitTypes, InitKnows, InitTags, InitAgrees, InitSerial DEF Inv

\* Every step.
LEMMA StepInv == Inv /\ [Next]_vars => Inv'
<1> SUFFICES ASSUME Inv, [Next]_vars
             PROVE  Inv'
  OBVIOUS
<1>1. CASE Next
  <2>1. UNCHANGED setting
    BY <1>1 DEF Next
  <2>2. PICK p \in Runs : Begin(p) \/ Step(p) \/ Crash(p)
    BY <1>1 DEF Next
  <2>3. TypeOK' /\ Knows'
    BY <2>1, <2>2, StepTypes, StepKnows DEF Inv
  <2>4. BlobsFirst' /\ TagsAreClosed' /\ NothingLeftOut'
    BY <2>1, <2>2, StepBlobsFirst, StepTagsAreClosed, StepNothingLeftOut DEF Inv
  <2>5. ErrorsAreFaithful' /\ AllAgree'
    BY <2>1, <2>2, StepErrors, StepAgrees DEF Inv
  <2>6. ChecksHold' /\ OneName'
    BY <2>1, <2>2, StepChecksHold, StepOneName DEF Inv
  <2>7. QED
    BY <2>3, <2>4, <2>5, <2>6 DEF Inv
<1>2. CASE UNCHANGED vars
  <2>1. TypeOK'
    BY <1>2 DEF Inv, TypeOK, vars
  <2>2. Knows'
    BY <1>2 DEF Inv, Knows, KnowsItself, vars
  <2>3. BlobsFirst'
    <3>1. \A p \in Runs : Needed(p)' = Needed(p) /\ At(p)' = At(p)
      BY <1>2 DEF Needed, Own, ReleaseArtifact, BuildArtifact, At, vars
    <3>2. UNCHANGED <<pc, todo, blobs>>
      BY <1>2 DEF vars
    <3>3. BlobsFirst
      BY DEF Inv
    <3>4. QED
      BY <3>1, <3>2, <3>3 DEF BlobsFirst
  <2>4. TagsAreClosed' /\ ErrorsAreFaithful' /\ AllAgree' /\ OneName'
    BY <1>2 DEF Inv, TagsAreClosed, Holds, ErrorsAreFaithful, AllAgree, OneSource, OneName, vars
  <2>5. NothingLeftOut'
    BY <1>2 DEF Inv, NothingLeftOut, Needed, Own, ReleaseArtifact, BuildArtifact, At, Stored,
                OneSource, vars
  <2>6. ChecksHold'
    BY <1>2 DEF Inv, ChecksHold, Checking, Cleared, ReleaseFits, BuildFits, At, vars
  <2>7. QED
    BY <2>1, <2>2, <2>3, <2>4, <2>5, <2>6 DEF Inv
<1>3. QED
  BY <1>1, <1>2

\* All of it, always.
LEMMA Invariant == Spec => []Inv
<1>1. QED
  BY InitInv, StepInv, PTL DEF Spec

-----------------------------------------------------------------------------
(* The theorems.                                                           *)

\* Every variable keeps its type: a run is at a place of its command, with a
\* registry that exists, and registries hold nothing but what runs make.
THEOREM TypeCorrect == Spec => []TypeOK
<1>1. Inv => TypeOK
  BY DEF Inv
<1>2. QED
  BY <1>1, Invariant, PTL

\* A tag never names a manifest whose blobs are not in the same registry,
\* whatever is lost and whoever dies (oci.push: the manifest goes last).
THEOREM TagsStayClosed == Spec => []TagsAreClosed
<1>1. Inv => TagsAreClosed
  BY DEF Inv
<1>2. QED
  BY <1>1, Invariant, PTL

\* A publisher whose compilation or checks fail has changed no tag
\* (publish_release checks all registries before it pushes to one).
THEOREM FailuresAreHarmless == Spec => []FailuresChangeNothing
<1>1. Inv => FailuresChangeNothing
  BY DEF Inv, ErrorsAreFaithful, FailuresChangeNothing
<1>2. QED
  BY <1>1, Invariant, PTL

\* What a publisher that is done has published is in every registry.
THEOREM SuccessIsComplete == Spec => []SuccessIsEverywhere
<1>1. Inv => SuccessIsEverywhere
  <2> SUFFICES ASSUME Inv, NEW p \in Publishers, pc[p] = "done", NEW r \in Registries
               PROVE  /\ Holds(r, <<"release", source[p], None>>)
                      /\ p \in WithBuild => built[r][source[p]] # None
                      /\ ~scene.dev /\ OneSource => version[r] = source[p]
    BY DEF SuccessIsEverywhere
  <2>1. p \in Runs /\ release[p] = source[p]
    BY DEF Inv, Knows, KnowsItself, Runs
  <2>2. ASSUME NEW x \in Needed(p)
        PROVE  Stored(r, x)
    BY <2>2 DEF Inv, NothingLeftOut
  <2>3. ReleaseArtifact(p) = <<"release", source[p], None>> /\ ReleaseArtifact(p) \in Own(p)
    BY <2>1 DEF ReleaseArtifact, Own
  <2>4. ASSUME NEW part \in {"config", "layer"}
        PROVE  <<ReleaseArtifact(p), part>> \in blobs[r]
    <3>1. <<ReleaseArtifact(p), part>> \in Needed(p)
      BY <2>3 DEF Needed, Kinds
    <3>2. QED
      BY <2>2, <3>1 DEF Stored
  <2>5. ASSUME ~scene.dev, OneSource
        PROVE  version[r] = source[p]
    <3>1. <<ReleaseArtifact(p), "tag">> \in Needed(p)
      BY <2>3 DEF Needed, Kinds
    <3>2. QED
      BY <2>2, <2>3, <2>5, <3>1 DEF Stored
  <2>6. ASSUME p \in WithBuild
        PROVE  built[r][source[p]] # None
    <3>1. output[p] # None
      BY <2>1, <2>6 DEF Inv, Knows, KnowsItself
    <3>2. BuildArtifact(p) = <<"build", source[p], output[p]>> /\ BuildArtifact(p) \in Own(p)
      BY <2>1, <3>1 DEF BuildArtifact, Own
    <3>3. <<BuildArtifact(p), "tag">> \in Needed(p)
      BY <3>2 DEF Needed, Kinds
    <3>4. QED
      BY <2>2, <3>2, <3>3 DEF Stored
  <2>7. QED
    BY <2>3, <2>4, <2>5, <2>6 DEF Holds
<1>2. QED
  BY <1>1, Invariant, PTL

\* Publishers of the same Release, and those who add reproducible Builds to it,
\* never refuse each other, nor their own second try.
THEOREM RetriesAreAccepted == Spec => []RetryIsNotRefused
<1>1. Inv => RetryIsNotRefused
  BY DEF Inv, AllAgree, RetryIsNotRefused
<1>2. QED
  BY <1>1, Invariant, PTL

\* In a serial scene no step moves a tag.
LEMMA TagsDoNotMove ==
  ASSUME Inv, [Next]_vars, scene.serial, NEW r \in Registries
  PROVE  /\ ~scene.dev /\ version[r] # None => version'[r] = version[r]
         /\ \A d \in Releases : built[r][d] # None => built'[r][d] = built[r][d]
<1>1. CASE UNCHANGED vars
  BY <1>1 DEF vars
<1>2. CASE Next
  <2>1. PICK p \in Runs : Begin(p) \/ Step(p) \/ Crash(p)
    BY <1>2 DEF Next
  <2>2. ASSUME pc[p] = "push", p \in Publishers \/ r = At(p)
        PROVE  Cleared(p, r)
    BY <2>2 DEF Inv, ChecksHold, Checking
  <2>3. ASSUME ~scene.dev, version[r] # None
        PROVE  version'[r] = version[r]
    BY <2>1, <2>2, <2>3, RegistriesGrow DEF Inv, Cleared, ReleaseFits
  <2>4. ASSUME NEW d \in Releases, built[r][d] # None
        PROVE  built'[r][d] = built[r][d]
    BY <2>1, <2>2, <2>4, RegistriesGrow, PublishAssumption DEF Inv, Cleared, BuildFits
  <2>5. QED
    BY <2>3, <2>4
<1>3. QED
  BY <1>1, <1>2

\* Tags of non-dev versions and Build tags are never moved by runs that do not
\* overlap: each has checked all it is about to push to.
THEOREM TagsStayPut == Spec => TagsAreImmutable
<1>1. Inv /\ [Next]_vars =>
        [scene.serial => \A r \in Registries :
           /\ ~scene.dev /\ version[r] # None => version'[r] = version[r]
           /\ \A d \in Releases : built[r][d] # None => built'[r][d] = built[r][d]]_vars
  BY TagsDoNotMove
<1>2. QED
  BY <1>1, Invariant, PTL DEF Spec, TagsAreImmutable

\* What the registries together say of the version.
SaidOfVersion ==
  /\ ~scene.serial \/ scene.dev => Bound = None
  /\ (\A r \in Registries : version[r] = None) => Bound = None
  /\ scene.serial /\ ~scene.dev =>
       \A r \in Registries : version[r] # None => Bound = version[r]

\* The registries that know the version all say what it is bound to.
LEMMA WhatIsBound == TypeOK /\ OneName => SaidOfVersion
<1> SUFFICES ASSUME TypeOK, OneName
             PROVE  SaidOfVersion
  OBVIOUS
<1>1. ASSUME \A r \in Registries : version[r] = None
      PROVE  Named = {}
  BY <1>1 DEF Named
<1>2. ASSUME scene.serial, ~scene.dev, NEW r \in Registries, version[r] # None
      PROVE  Bound = version[r]
  <2>1. Named = {version[r]}
    BY <1>2 DEF Named, OneName
  <2>2. QED
    BY <1>2, <2>1 DEF Bound
<1>3. QED
  BY <1>1, <1>2 DEF Bound, SaidOfVersion

\* Publish implements ReleaseBinding: over all registries, and whichever of its
\* publishers gave up half way, a version is bound once, to one Release.
THEOREM BindingIsImplemented == Spec => Binding
<1>1. Init => RB!Init
  <2> SUFFICES ASSUME Init PROVE Bound = None
    BY DEF RB!Init
  <2>1. Named = {}
    BY DEF Init, Named
  <2>2. QED
    BY <2>1 DEF Bound
<1>2. Inv /\ Inv' /\ [Next]_vars => [RB!Next]_Bound
  <2> SUFFICES ASSUME Inv, Inv', [Next]_vars
               PROVE  Bound' = Bound \/ \E d \in Releases : Bound = None /\ Bound' = d
    BY DEF RB!Next, RB!Bind
  <2>1. scene' = scene
    BY DEF Next, setting, vars
  <2>2. SaidOfVersion /\ SaidOfVersion'
    <3>1. TypeOK' /\ OneName' => SaidOfVersion'
      BY WhatIsBound, PTL
    <3>2. QED
      BY <3>1, WhatIsBound DEF Inv
  <2>3. CASE ~scene.serial \/ scene.dev
    BY <2>1, <2>2, <2>3 DEF SaidOfVersion
  <2>4. CASE scene.serial /\ ~scene.dev
    <3>1. CASE \A r \in Registries : version[r] = None
      <4>1. Bound = None
        BY <2>2, <3>1 DEF SaidOfVersion
      <4>2. \A r \in Registries : version'[r] \in Releases \cup {None}
        BY DEF Inv, TypeOK
      <4>3. QED
        BY <2>1, <2>2, <2>4, <4>1, <4>2 DEF SaidOfVersion
    <3>2. ASSUME NEW r \in Registries, version[r] # None
          PROVE  Bound' = Bound
      <4>1. Bound = version[r]
        BY <2>2, <2>4, <3>2 DEF SaidOfVersion
      <4>2. version'[r] = version[r]
        BY <2>4, <3>2, TagsDoNotMove
      <4>3. QED
        BY <2>1, <2>2, <2>4, <3>2, <4>1, <4>2 DEF SaidOfVersion
    <3>3. QED
      BY <3>1, <3>2
  <2>5. QED
    BY <2>3, <2>4
<1>3. QED
  BY <1>1, <1>2, Invariant, PTL DEF Spec, Binding, RB!Spec
=============================================================================

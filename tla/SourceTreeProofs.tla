-------------------------- MODULE SourceTreeProofs --------------------------
(***************************************************************************)
(* Proofs about SourceTree, for any number of runs, files, args and saves: *)
(* registries get what was compiled from its Release, `build` differs from *)
(* what it has packaged by no more than what was saved meanwhile, and so   *)
(* do the readings of the schema.                                          *)
(***************************************************************************)
EXTENDS SourceTree, TLAPS

Packaged == {"args", "stage", "compile", "upload"}

\* What TypeOK leaves out: how far a run has got with its files and args.
Progress(p) ==
  /\ Len(layer[p]) <= NFiles
  /\ pc[p] \in Packaged => layer[p] \in Trees
  /\ pc[p] \in {"stage", "compile"} => next[p] \in 1 .. Len(Args)
  /\ pc[p] = "stage" => Len(staged[p]) <= NFiles
  /\ pc[p] = "compile" => staged[p] \in Trees

TypeInv == TypeOK /\ \A p \in Runs : Progress(p)

\* A list of NFiles contents is a tree, and a tree that is a list has NFiles.
LEMMA CompleteIsTree ==
  ASSUME NEW files \in Seq(Contents)
  PROVE  /\ Complete(files) => files \in Trees
         /\ files \in Trees => Len(files) = NFiles
BY SourceAssumption DEF Complete, Trees, Files

\* Packaging one more file keeps to the directory's files.
LEMMA NextFile ==
  ASSUME tree \in Trees,
         NEW files \in Seq(Contents), Len(files) <= NFiles, ~Complete(files)
  PROVE  /\ WithNext(files) \in Seq(Contents)
         /\ Len(WithNext(files)) = Len(files) + 1
         /\ Len(WithNext(files)) <= NFiles
         /\ \A i \in 1 .. Len(files) : WithNext(files)[i] = files[i]
         /\ WithNext(files)[Len(files) + 1] = tree[Len(files) + 1]
<1>1. Len(files) \in Nat /\ Len(files) + 1 \in 1 .. NFiles
  BY SourceAssumption DEF Complete
<1>2. tree[Len(files) + 1] \in Contents
  BY <1>1 DEF Trees, Files
<1> QED
  BY <1>1, <1>2 DEF WithNext

\* The files of a Release are a list.
LEMMA TreeIsList == Trees \subseteq Seq(Contents)
<1> SUFFICES ASSUME NEW t \in Trees PROVE t \in Seq(Contents)
  OBVIOUS
<1>1. NFiles \in Nat /\ t \in [1 .. NFiles -> Contents]
  BY SourceAssumption DEF Trees, Files
<1> QED
  BY <1>1

\* A run has its variables for itself, and does not touch the directory.
LEMMA OthersUnchanged ==
  ASSUME TypeOK, NEW p \in Runs, Step(p)
  PROVE  /\ UNCHANGED <<tree, saves>>
         /\ \A q \in Runs \ {p} :
              /\ pc'[q] = pc[q] /\ argSchema'[q] = argSchema[q] /\ schema'[q] = schema[q]
              /\ layer'[q] = layer[q] /\ staged'[q] = staged[q] /\ next'[q] = next[q]
              /\ made'[q] = made[q] /\ saved'[q] = saved[q]
<1> USE DEF TypeOK, Goto, End, history
<1>1. CASE Begin(p)
  BY <1>1 DEF Begin, Start
<1>2. CASE BeginAddition(p)
  <2>1. PICK q \in published, i \in 1 .. Len(Args) :
          /\ argSchema' = [argSchema EXCEPT ![p] = q.release.schema]
          /\ schema' = [schema EXCEPT ![p] = q.release.schema]
          /\ layer' = [layer EXCEPT ![p] = q.release.layer]
          /\ staged' = [staged EXCEPT ![p] = q.release.layer]
          /\ next' = [next EXCEPT ![p] = i]
    BY <1>2 DEF BeginAddition
  <2> QED
    BY <1>2, <2>1 DEF BeginAddition, Start
<1>3. CASE ReadSchema(p)
  BY <1>3 DEF ReadSchema
<1>4. CASE Package(p)
  BY <1>4 DEF Package
<1>5. CASE NextArgs(p)
  BY <1>5 DEF NextArgs, CompileLayer, CompileTree
<1>6. CASE Stage(p)
  BY <1>6 DEF Stage
<1>7. CASE Compile(p)
  BY <1>7 DEF Compile
<1>8. CASE Upload(p)
  BY <1>8 DEF Upload
<1> QED
  BY <1>1, <1>2, <1>3, <1>4, <1>5, <1>6, <1>7, <1>8 DEF Step

\* What a run is about to store is a Build.
LEMMA BuildType ==
  ASSUME TypeInv, NEW p \in Runs, pc[p] = "compile"
  PROVE  [key |-> KeyOf(p), source |-> staged[p], saved |-> saved[p]] \in Builds
<1>1. schema[p] \in Contents /\ argSchema[p] \in Contents /\ layer[p] \in Trees
      /\ staged[p] \in Trees /\ saved[p] \in Saved
  BY DEF TypeInv, TypeOK, Progress, Packaged
<1>2. Args[next[p]] \in Range(Args)
  BY SourceAssumption DEF TypeInv, Progress, Range
<1>3. KeyOf(p) \in Keys
  BY <1>1, <1>2 DEF KeyOf, ReleaseOf, Keys, Releases
<1> QED
  BY <1>1, <1>3 DEF Builds

\* The effect of Compile: what the run has then, and what the cache has.
LEMMA CompileOutcome ==
  ASSUME TypeInv, NEW p \in Runs, Compile(p)
  PROVE  LET build == [key |-> KeyOf(p), source |-> staged[p], saved |-> saved[p]] IN
         /\ pc[p] = "compile" /\ UNCHANGED <<argSchema, schema, layer, published, pushed>>
         /\ \/ /\ pc'[p] = "idle" /\ End(p)
               /\ UNCHANGED <<made, cached, next>>
            \/ /\ pc'[p] = IF p \in Adding THEN "upload" ELSE "args"
               /\ UNCHANGED <<staged, saved>>
               /\ p \in Adding => next' = next
               /\ p \notin Adding => next' = [next EXCEPT ![p] = next[p] + 1]
               /\ \E new \in SUBSET Builds :
                    /\ \A b \in new : b = build \/ (p \in Building /\ b \in cached /\ b.key = KeyOf(p))
                    /\ made' = [made EXCEPT ![p] = made[p] \cup new]
                    /\ cached' = cached \/ (p \in Building /\ cached' = cached \cup new)
<1> DEFINE build == [key |-> KeyOf(p), source |-> staged[p], saved |-> saved[p]]
           found == Under(cached, KeyOf(p))
           kept == IF p \in Building /\ found # {} THEN found ELSE {build}
<1>1. /\ pc[p] = "compile" /\ UNCHANGED <<argSchema, schema, layer, published, pushed>>
      /\ \/ /\ made' = [made EXCEPT ![p] = @ \cup kept]
            /\ cached' = IF p \in Building THEN cached \cup kept ELSE cached
            /\ IF p \in Adding
               THEN Goto(p, "upload") /\ UNCHANGED next
               ELSE Goto(p, "args") /\ next' = [next EXCEPT ![p] = @ + 1]
            /\ UNCHANGED <<staged, saved>>
         \/ End(p) /\ UNCHANGED <<made, cached, next>>
  BY DEF Compile
<1>2. build \in Builds
  BY <1>1, BuildType
<1>3. found \subseteq Builds /\ \A b \in found : b \in cached /\ b.key = KeyOf(p)
  BY DEF Under, TypeInv, TypeOK
<1>4. /\ kept \in SUBSET Builds
      /\ \A b \in kept : b = build \/ (p \in Building /\ b \in cached /\ b.key = KeyOf(p))
  <2> HIDE DEF build, found
  <2> QED
    BY <1>2, <1>3
<1>5. pc \in [Runs -> Phases \cup {"idle"}]
  BY DEF TypeInv, TypeOK
<1>6. CASE End(p) /\ UNCHANGED <<made, cached, next>>
  BY <1>1, <1>5, <1>6 DEF End, Goto
<1>7. CASE ~(End(p) /\ UNCHANGED <<made, cached, next>>)
  <2> HIDE DEF kept, build
  <2>1. /\ made' = [made EXCEPT ![p] = made[p] \cup kept]
        /\ cached' = cached \/ (p \in Building /\ cached' = cached \cup kept)
        /\ UNCHANGED <<staged, saved>>
        /\ p \in Adding => next' = next
        /\ p \notin Adding => next' = [next EXCEPT ![p] = next[p] + 1]
    BY <1>1, <1>7
  <2>2. pc'[p] = IF p \in Adding THEN "upload" ELSE "args"
    BY <1>1, <1>5, <1>7 DEF Goto
  <2> QED
    BY <1>1, <1>4, <2>1, <2>2 DEF build
<1> QED
  BY <1>6, <1>7

\* The effect of Upload: some of the run's Builds, and then its Release.
LEMMA UploadOutcome ==
  ASSUME TypeInv, NEW p \in Runs, Upload(p)
  PROVE  /\ pc[p] = "upload" /\ End(p) /\ UNCHANGED <<argSchema, schema, layer, next, made>>
         /\ pushed \subseteq pushed' /\ pushed' \subseteq pushed \cup made[p]
         /\ cached \subseteq cached' /\ cached' \subseteq cached \cup made[p]
         /\ \/ published' = published
            \/ /\ p \in Publishing
               /\ published' = published \cup {[release |-> ReleaseOf(p), saved |-> saved[p]]}
BY DEF Upload

\* A step of a run keeps the types of its own variables.
LEMMA StepTypes ==
  ASSUME TypeInv, NEW p \in Runs, Step(p)
  PROVE  TypeOK' /\ Progress(p)'
<1> USE SourceAssumption
<1>0. /\ tree[SchemaFile] \in Contents /\ Len(Args) \in Nat
      /\ <<>> \in Seq(Contents) /\ Len(<<>>) <= NFiles
      /\ {} \in SUBSET Builds /\ {} \in Saved
  BY DEF TypeInv, TypeOK, Trees, Saved
<1>e. ASSUME End(p)
      PROVE  /\ pc' \in [Runs -> Phases \cup {"idle"}] /\ pc'[p] = "idle"
             /\ staged' \in [Runs -> Seq(Contents)] /\ saved' \in [Runs -> Saved]
  BY <1>0, <1>e DEF TypeInv, TypeOK, End, Goto
<1> USE DEF TypeInv, TypeOK, Goto, stores, history
<1>1. CASE Begin(p)
  <2>1. /\ pc' = [pc EXCEPT ![p] = "schema"] /\ layer' = [layer EXCEPT ![p] = <<>>]
        /\ next' = [next EXCEPT ![p] = 1] /\ made' = [made EXCEPT ![p] = {}]
        /\ argSchema' = [argSchema EXCEPT ![p] = tree[SchemaFile]]
        /\ starts' = [starts EXCEPT ![p] = starts[p] + 1]
        /\ UNCHANGED <<tree, schema, staged, published, pushed, cached, saves, saved>>
    BY <1>1 DEF Begin, Start
  <2>2. TypeOK'
    BY <1>0, <2>1 DEF Phases
  <2> QED
    BY <1>0, <2>1, <2>2 DEF Progress, Packaged
<1>2. CASE BeginAddition(p)
  <2>1. PICK q \in published, i \in 1 .. Len(Args) :
          /\ argSchema' = [argSchema EXCEPT ![p] = q.release.schema]
          /\ schema' = [schema EXCEPT ![p] = q.release.schema]
          /\ layer' = [layer EXCEPT ![p] = q.release.layer]
          /\ staged' = [staged EXCEPT ![p] = q.release.layer]
          /\ next' = [next EXCEPT ![p] = i]
    BY <1>2 DEF BeginAddition
  <2>2. /\ q.release.schema \in Contents /\ q.release.layer \in Trees
        /\ q.release.layer \in Seq(Contents)
    BY TreeIsList DEF Releases
  <2>3. /\ pc' = [pc EXCEPT ![p] = "compile"] /\ made' = [made EXCEPT ![p] = {}]
        /\ starts' = [starts EXCEPT ![p] = starts[p] + 1]
        /\ UNCHANGED <<tree, published, pushed, cached, saves, saved>>
    BY <1>2 DEF BeginAddition, Start
  <2>4. i \in 1 .. Len(Args) + 1
    BY <1>0
  <2>5. TypeOK'
    BY <1>0, <2>1, <2>2, <2>3, <2>4 DEF Phases
  <2>6. Len(layer'[p]) = NFiles
    BY <2>1, <2>2, CompleteIsTree
  <2> QED
    BY <2>1, <2>2, <2>3, <2>5, <2>6 DEF Progress, Packaged, Files
<1>3. CASE ReadSchema(p)
  BY <1>0, <1>3 DEF ReadSchema, Progress, Packaged, Phases
<1>4. CASE Package(p)
  <2>1. CASE Complete(layer[p])
    <3>1. layer[p] \in Trees
      BY <2>1, CompleteIsTree
    <3> QED
      BY <1>4, <2>1, <3>1 DEF Package, Progress, Packaged, Phases
  <2>2. CASE ~Complete(layer[p])
    <3>1. WithNext(layer[p]) \in Seq(Contents) /\ Len(WithNext(layer[p])) <= NFiles
      BY <2>2, NextFile DEF Progress
    <3> QED
      BY <1>4, <2>2, <3>1 DEF Package, Progress, Packaged
  <2> QED
    BY <2>1, <2>2
<1>5. CASE NextArgs(p)
  <2>1. /\ pc[p] = "args"
        /\ UNCHANGED <<tree, starts, argSchema, schema, layer, published, pushed, cached, saves>>
        /\ layer[p] \in Trees
    BY <1>5 DEF NextArgs, Progress, Packaged
  <2>2. CASE next[p] <= Len(Args) /\ CompileLayer(p)
    BY <1>0, <1>5, <2>1, <2>2 DEF CompileLayer, Progress, Packaged, Phases
  <2>3. CASE next[p] <= Len(Args) /\ CompileTree(p)
    <3> DEFINE found == Under(cached, KeyOf(p))
    <3>1. made[p] \cup found \in SUBSET Builds
      BY DEF Under
    <3>2. UNCHANGED saved /\
          \/ /\ made' = [made EXCEPT ![p] = made[p] \cup found]
             /\ next' = [next EXCEPT ![p] = next[p] + 1] /\ UNCHANGED <<pc, staged>>
          \/ /\ pc' = [pc EXCEPT ![p] = "stage"] /\ staged' = [staged EXCEPT ![p] = <<>>]
             /\ UNCHANGED <<next, made>>
      BY <2>3 DEF CompileTree
    <3> HIDE DEF found
    <3>3. next[p] + 1 \in 1 .. Len(Args) + 1 /\ next[p] \in 1 .. Len(Args)
      BY <1>0, <2>3
    <3>4. TypeOK'
      <4> HIDE SourceAssumption
      <4>1. /\ pc' \in [Runs -> Phases \cup {"idle"}] /\ next' \in [Runs -> 1 .. Len(Args) + 1]
            /\ staged' \in [Runs -> Seq(Contents)] /\ made' \in [Runs -> SUBSET Builds]
        <5>1. CASE UNCHANGED <<pc, staged>>
          <6>1. /\ made' = [made EXCEPT ![p] = made[p] \cup found] \/ UNCHANGED made
                /\ next' = [next EXCEPT ![p] = next[p] + 1] \/ UNCHANGED next
            BY <3>2
          <6>2. made' \in [Runs -> SUBSET Builds]
            BY <3>1, <6>1
          <6>3. next' \in [Runs -> 1 .. Len(Args) + 1]
            BY <3>3, <6>1
          <6> QED
            BY <5>1, <6>2, <6>3
        <5>2. CASE UNCHANGED <<next, made>>
          <6>1. /\ pc' = [pc EXCEPT ![p] = "stage"] \/ UNCHANGED pc
                /\ staged' = [staged EXCEPT ![p] = <<>>] \/ UNCHANGED staged
            BY <3>2
          <6> QED
            BY <1>0, <5>2, <6>1 DEF Phases
        <5> QED
          BY <3>2, <5>1, <5>2
      <4> QED
        BY <2>1, <3>2, <4>1
    <3>5. /\ pc'[p] \in {"args", "stage"} /\ layer'[p] = layer[p]
          /\ pc'[p] = "stage" => next'[p] = next[p] /\ staged'[p] = <<>>
      BY <2>1, <3>2
    <3> QED
      <4>1. Len(layer'[p]) <= NFiles /\ layer'[p] \in Trees
        BY <2>1, <3>5 DEF Progress
      <4> HIDE DEF TypeOK
      <4> QED
        BY <1>0, <3>3, <3>4, <3>5, <4>1 DEF Progress, Packaged
  <2>4. CASE Goto(p, "upload") /\ UNCHANGED <<staged, next, made, saved>>
    BY <2>1, <2>4 DEF Progress, Packaged, Phases
  <2>5. CASE End(p) /\ UNCHANGED <<next, made>>
    BY <1>e, <2>1, <2>5 DEF Progress, Packaged
  <2> QED
    BY <1>5, <2>2, <2>3, <2>4, <2>5 DEF NextArgs
<1>6. CASE Stage(p)
  <2>1. CASE Complete(staged[p])
    <3>1. staged[p] \in Trees
      BY <2>1, CompleteIsTree
    <3> QED
      BY <1>6, <2>1, <3>1 DEF Stage, Progress, Packaged, Phases
  <2>2. CASE ~Complete(staged[p])
    <3>1. WithNext(staged[p]) \in Seq(Contents) /\ Len(WithNext(staged[p])) <= NFiles
      BY <1>6, <2>2, NextFile DEF Stage, Progress
    <3> QED
      BY <1>6, <2>2, <3>1 DEF Stage, Progress, Packaged, Phases
  <2> QED
    BY <2>1, <2>2
<1>7. CASE Compile(p)
  <2>1. pc[p] = "compile" /\ UNCHANGED <<tree, starts, argSchema, schema, layer, published, pushed, saves>>
    BY <1>7 DEF Compile
  <2>2. CASE End(p) /\ UNCHANGED <<made, cached, next>>
    BY <1>e, <2>1, <2>2 DEF Progress, Packaged
  <2>3. CASE ~(End(p) /\ UNCHANGED <<made, cached, next>>)
    <3>1. PICK new \in SUBSET Builds :
            /\ made' = [made EXCEPT ![p] = made[p] \cup new]
            /\ cached' = cached \/ cached' = cached \cup new
      BY <1>7, <2>3, CompileOutcome
    <3>2. /\ pc' = [pc EXCEPT ![p] = "upload"] \/ pc' = [pc EXCEPT ![p] = "args"]
          /\ next' = next \/ next' = [next EXCEPT ![p] = next[p] + 1]
          /\ UNCHANGED <<staged, saved>>
      BY <1>7, <2>3 DEF Compile
    <3>3. next[p] + 1 \in 1 .. Len(Args) + 1
      BY <1>0, <2>1 DEF Progress
    <3>4. TypeOK'
      <4> HIDE SourceAssumption
      <4>1. pc' \in [Runs -> Phases \cup {"idle"}]
        BY <3>2 DEF Phases
      <4>2. next' \in [Runs -> 1 .. Len(Args) + 1]
        BY <3>2, <3>3
      <4>3. made' \in [Runs -> SUBSET Builds] /\ cached' \subseteq Builds
        BY <3>1
      <4> QED
        BY <2>1, <3>2, <4>1, <4>2, <4>3
    <3>5. pc'[p] \in {"upload", "args"} /\ layer' = layer /\ layer[p] \in Trees
          /\ Len(layer[p]) <= NFiles
      BY <2>1, <3>2 DEF Progress, Packaged
    <3> HIDE DEF TypeOK
    <3> QED
      BY <3>4, <3>5 DEF Progress, Packaged
  <2> QED
    BY <2>2, <2>3
<1>8. CASE Upload(p)
  <2>1. /\ pc[p] = "upload" /\ End(p) /\ UNCHANGED <<argSchema, schema, layer, next, made>>
        /\ pushed' \subseteq Builds /\ cached' \subseteq Builds
    BY <1>8, UploadOutcome
  <2>2. UNCHANGED <<tree, starts, saves>>
    BY <1>8 DEF Upload
  <2>3. [release |-> ReleaseOf(p), saved |-> saved[p]] \in [release : Releases, saved : Saved]
    BY <2>1 DEF ReleaseOf, Releases, Progress, Packaged
  <2>4. published' \subseteq [release : Releases, saved : Saved]
    <3>1. \/ published' = published
          \/ published' = published \cup {[release |-> ReleaseOf(p), saved |-> saved[p]]}
      BY <1>8, UploadOutcome
    <3> QED
      BY <2>3, <3>1
  <2>5. TypeOK'
    BY <1>e, <2>1, <2>2, <2>4
  <2>6. Len(layer'[p]) <= NFiles /\ pc'[p] = "idle"
    BY <1>e, <2>1 DEF Progress
  <2> HIDE DEF TypeOK
  <2> QED
    BY <2>5, <2>6 DEF Progress, Packaged
<1> QED
  BY <1>1, <1>2, <1>3, <1>4, <1>5, <1>6, <1>7, <1>8 DEF Step

\* No step of any run, and no saving of a file, breaks the types.
LEMMA TypeInvariance == TypeInv /\ [Next]_vars => TypeInv'
<1> SUFFICES ASSUME TypeInv, [Next]_vars PROVE TypeInv'
  OBVIOUS
<1>1. ASSUME NEW p \in Runs, Step(p) PROVE TypeInv'
  <2>1. \A q \in Runs \ {p} : Progress(q)'
    BY <1>1, OthersUnchanged DEF TypeInv, Progress
  <2> QED
    BY <1>1, <2>1, StepTypes DEF TypeInv
<1>2. ASSUME NEW f \in Files, Save(f) PROVE TypeInv'
  <2>1. tree' \in Trees /\ saves' \in Nat
    BY <1>2 DEF Save, TypeInv, TypeOK, Trees
  <2>2. ASSUME NEW p \in Runs, pc[p] # "idle" PROVE saved[p] \cup {<<pc[p], f>>} \in Saved
    BY <2>2 DEF TypeInv, TypeOK, Saved
  <2>3. saved' \in [Runs -> Saved]
    BY <1>2, <2>2 DEF Save, TypeInv, TypeOK
  <2> QED
    BY <1>2, <2>1, <2>3 DEF Save, stores, TypeInv, TypeOK, Progress
<1>3. CASE UNCHANGED vars
  BY <1>3 DEF vars, TypeInv, TypeOK, Progress
<1> QED
  BY <1>1, <1>2, <1>3 DEF Next

\* At the beginning.
LEMMA TypesAtFirst == Init => TypeInv
BY SourceAssumption DEF Init, TypeInv, TypeOK, Progress, Packaged, Phases, Trees, Saved

\* Every variable keeps its type: a Build is stored under a whole BuildKey,
\* with all files of what it was compiled from.
THEOREM TypeCorrect == Spec => []TypeOK
<1>1. TypeInv => TypeOK
  BY DEF TypeInv
<1> QED
  BY <1>1, TypesAtFirst, TypeInvariance, PTL DEF Spec

-----------------------------------------------------------------------------
(* The invariant.                                                          *)

\* f was saved while p was between its first reading of the files and now.
Touched(p, f) == \E w \in saved[p] : w[1] # "schema" /\ w[2] = f

\* Which commands do what; and what is compiled for a registry is the layer.
Roles(p) ==
  /\ pc[p] \in {"schema", "package", "args"} => p \in Publishing \cup Building
  /\ pc[p] = "stage" => p \in Building
  /\ pc[p] = "upload" => p \notin Building
  /\ p \notin Building /\ pc[p] = "compile" => staged[p] = layer[p]

\* Where the files that a run has read are no longer those of the directory,
\* or of its first reading, they were touched.
Tracks(p) ==
  /\ pc[p] = "schema" => layer[p] = <<>>
  /\ p \notin Adding /\ pc[p] \in {"package", "args", "stage", "compile"} =>
       \A f \in 1 .. Len(layer[p]) : layer[p][f] = tree[f] \/ Touched(p, f)
  /\ pc[p] \in {"stage", "compile"} =>
       \A f \in 1 .. Len(staged[p]) : staged[p][f] = layer[p][f] \/ Touched(p, f)

\* The same of the three readings of the schema.
Schemas(p) ==
  /\ p \in Adding /\ pc[p] # "idle" => argSchema[p] = schema[p]
  /\ p \notin Adding /\ pc[p] = "schema" =>
       argSchema[p] = tree[SchemaFile] \/ <<"schema", SchemaFile>> \in saved[p]
  /\ p \notin Adding /\ pc[p] \in Phases \ {"schema"} =>
       /\ argSchema[p] = schema[p] \/ <<"schema", SchemaFile>> \in saved[p]
       /\ SchemaFile <= Len(layer[p]) =>
            schema[p] = layer[p][SchemaFile] \/ <<"package", SchemaFile>> \in saved[p]
  /\ p \notin Adding /\ pc[p] = "package" /\ Len(layer[p]) < SchemaFile =>
       schema[p] = tree[SchemaFile] \/ <<"package", SchemaFile>> \in saved[p]

RunInv(p) == Roles(p) /\ Tracks(p) /\ Schemas(p)

\* A Build was compiled from the files of its Release, ...
FromRelease(b) == b.source = b.key.release.layer

\* ... or but for files that were touched; and its key can be computed, but
\* for a schema that was saved.
Explained(b) ==
  /\ \A f \in Files : b.source[f] # b.key.release.layer[f] =>
       \E w \in b.saved : w[1] # "schema" /\ w[2] = f
  /\ b.key.by # b.key.release.schema => <<"schema", SchemaFile>> \in b.saved

\* What a run has made is of its own Release, and good for where it goes.
MadeInv(p) ==
  /\ pc[p] \in {"schema", "package"} => made[p] = {}
  /\ \A b \in made[p] :
       /\ Explained(b)
       /\ p \in Building => b.key.release.layer = layer[p]
       /\ p \notin Building => FromRelease(b)

StoresInv ==
  /\ \A b \in pushed : FromRelease(b) /\ Explained(b)
  /\ \A b \in cached : Explained(b)
  /\ \A q \in published : q.release.schema # q.release.layer[SchemaFile] =>
       <<"package", SchemaFile>> \in q.saved

Inv == TypeInv /\ StoresInv /\ \A p \in Runs : RunInv(p) /\ MadeInv(p)

\* A run does not disturb what is known of another.
LEMMA OthersKeep ==
  ASSUME TypeInv, NEW p \in Runs, Step(p), NEW q \in Runs \ {p}, RunInv(q), MadeInv(q)
  PROVE  RunInv(q)' /\ MadeInv(q)'
<1>1. /\ tree' = tree /\ pc'[q] = pc[q] /\ argSchema'[q] = argSchema[q] /\ schema'[q] = schema[q]
      /\ layer'[q] = layer[q] /\ staged'[q] = staged[q] /\ made'[q] = made[q]
      /\ saved'[q] = saved[q]
  BY OthersUnchanged DEF TypeInv
<1> QED
  BY <1>1 DEF RunInv, Roles, Tracks, Touched, Schemas, MadeInv

\* The saving of a file touches it for every run that is under way.
LEMMA SaveKeeps ==
  ASSUME TypeInv, NEW g \in Files, Save(g), NEW p \in Runs, RunInv(p)
  PROVE  RunInv(p)'
<1>1. /\ pc'[p] = pc[p] /\ argSchema'[p] = argSchema[p] /\ schema'[p] = schema[p]
      /\ layer'[p] = layer[p] /\ staged'[p] = staged[p]
      /\ pc[p] # "idle" => saved'[p] = saved[p] \cup {<<pc[p], g>>}
      /\ \A f \in Files : f # g => tree'[f] = tree[f]
  BY DEF Save, TypeInv, TypeOK, Trees
<1>2. Len(layer[p]) \in Nat /\ Len(layer[p]) <= NFiles /\ NFiles \in Nat /\ SchemaFile \in Files
  BY SourceAssumption DEF TypeInv, TypeOK, Progress
<1>3. \A f \in 1 .. Len(layer[p]) : f \in Files
  BY <1>2 DEF Files
<1>4. ASSUME pc[p] # "idle"
      PROVE  /\ saved[p] \subseteq saved'[p]
             /\ \A f : Touched(p, f) => Touched(p, f)'
             /\ pc[p] # "schema" => Touched(p, g)'
  <2>1. saved[p] \subseteq saved'[p] /\ <<pc[p], g>> \in saved'[p]
    BY <1>1, <1>4
  <2>2. \A f : Touched(p, f) => Touched(p, f)'
    BY <2>1 DEF Touched
  <2>3. pc[p] # "schema" => Touched(p, g)'
    <3>1. <<pc[p], g>>[1] = pc[p] /\ <<pc[p], g>>[2] = g
      OBVIOUS
    <3> QED
      BY <2>1, <3>1 DEF Touched
  <2> QED
    BY <2>1, <2>2, <2>3
<1>5. Roles(p)'
  BY <1>1 DEF RunInv, Roles
<1>6. Tracks(p)'
  BY <1>1, <1>3, <1>4 DEF RunInv, Tracks
<1>7. Schemas(p)'
  <2>1. tree'[SchemaFile] = tree[SchemaFile] \/ g = SchemaFile
    BY <1>1, <1>2
  <2>2. pc[p] = "schema" /\ g = SchemaFile => <<"schema", SchemaFile>> \in saved'[p]
    BY <1>1
  <2>3. pc[p] = "package" /\ g = SchemaFile => <<"package", SchemaFile>> \in saved'[p]
    BY <1>1
  <2>4. Schemas(p)
    BY DEF RunInv
  <2>5. ASSUME pc[p] # "idle", p \notin Adding, pc[p] = "schema"
        PROVE  argSchema'[p] = tree'[SchemaFile] \/ <<"schema", SchemaFile>> \in saved'[p]
    BY <1>1, <1>4, <2>1, <2>2, <2>4, <2>5 DEF Schemas
  <2>6. ASSUME p \notin Adding, pc[p] = "package", Len(layer[p]) < SchemaFile
        PROVE  schema'[p] = tree'[SchemaFile] \/ <<"package", SchemaFile>> \in saved'[p]
    BY <1>1, <1>4, <2>1, <2>3, <2>4, <2>6 DEF Schemas
  <2>7. ASSUME p \notin Adding, pc[p] \in Phases \ {"schema"}
        PROVE  /\ argSchema'[p] = schema'[p] \/ <<"schema", SchemaFile>> \in saved'[p]
               /\ SchemaFile <= Len(layer'[p]) =>
                    schema'[p] = layer'[p][SchemaFile] \/ <<"package", SchemaFile>> \in saved'[p]
    <3>1. pc[p] # "idle"
      BY <2>7 DEF Phases
    <3> QED
      BY <1>1, <1>4, <2>4, <2>7, <3>1 DEF Schemas
  <2>8. p \in Adding /\ pc'[p] # "idle" => argSchema'[p] = schema'[p]
    BY <1>1, <2>4 DEF Schemas
  <2> QED
    BY <1>1, <2>5, <2>6, <2>7, <2>8 DEF Schemas
<1> QED
  BY <1>5, <1>6, <1>7 DEF RunInv

\* A run that has just begun, or has ended, has nothing to account for.
LEMMA StepKeepsRun ==
  ASSUME Inv, NEW p \in Runs, Step(p)
  PROVE  RunInv(p)'
<1>1. /\ TypeInv /\ TypeOK /\ RunInv(p) /\ tree' = tree
      /\ Adding \cap (Publishing \cup Building) = {} /\ Publishing \cap Building = {}
  BY SourceAssumption, OthersUnchanged DEF Inv, TypeInv
<1>2. /\ pc \in [Runs -> Phases \cup {"idle"}] /\ argSchema \in [Runs -> Contents]
      /\ schema \in [Runs -> Contents] /\ layer \in [Runs -> Seq(Contents)]
      /\ staged \in [Runs -> Seq(Contents)] /\ saved \in [Runs -> Saved]
      /\ tree \in Trees /\ Len(layer[p]) \in Nat /\ Len(staged[p]) \in Nat
      /\ SchemaFile \in Nat /\ SchemaFile >= 1
  BY <1>1, SourceAssumption DEF TypeOK, Files
<1>e. ASSUME pc'[p] = "idle" PROVE RunInv(p)'
  BY <1>e DEF RunInv, Roles, Tracks, Schemas, Phases
<1>3. CASE Begin(p)
  <2>1. /\ p \in Publishing \cup Building /\ pc'[p] = "schema" /\ layer'[p] = <<>>
        /\ argSchema'[p] = tree[SchemaFile]
    BY <1>2, <1>3 DEF Begin, Goto
  <2> QED
    BY <1>1, <1>2, <2>1 DEF RunInv, Roles, Tracks, Schemas
<1>4. CASE BeginAddition(p)
  <2>1. PICK q \in published, i \in 1 .. Len(Args) :
          /\ argSchema' = [argSchema EXCEPT ![p] = q.release.schema]
          /\ schema' = [schema EXCEPT ![p] = q.release.schema]
          /\ layer' = [layer EXCEPT ![p] = q.release.layer]
          /\ staged' = [staged EXCEPT ![p] = q.release.layer]
    BY <1>4 DEF BeginAddition
  <2>2. /\ p \in Adding /\ pc'[p] = "compile" /\ argSchema'[p] = schema'[p]
        /\ staged'[p] = layer'[p]
    BY <1>2, <1>4, <2>1 DEF BeginAddition, Goto
  <2> QED
    BY <1>1, <2>2 DEF RunInv, Roles, Tracks, Schemas
<1>5. CASE ReadSchema(p)
  <2>1. /\ pc[p] = "schema" /\ pc'[p] = "package" /\ layer'[p] = <<>> /\ Len(<<>>) = 0
        /\ schema'[p] = tree[SchemaFile] /\ argSchema'[p] = argSchema[p] /\ saved'[p] = saved[p]
        /\ p \notin Adding /\ p \in Publishing \cup Building
    BY <1>1, <1>2, <1>5 DEF ReadSchema, Goto, history, RunInv, Roles, Tracks
  <2>2. \A f \in 1 .. Len(layer'[p]) : FALSE
    BY <2>1
  <2> QED
    BY <1>1, <1>2, <2>1, <2>2 DEF RunInv, Roles, Tracks, Schemas
<1>6. CASE Package(p)
  <2>1. /\ pc[p] = "package" /\ p \notin Adding /\ p \in Publishing \cup Building
        /\ argSchema'[p] = argSchema[p] /\ schema'[p] = schema[p] /\ saved'[p] = saved[p]
    BY <1>1, <1>2, <1>6 DEF Package, history, RunInv, Roles
  <2>2. CASE Complete(layer[p])
    <3>1. pc'[p] = "args" /\ layer'[p] = layer[p]
      BY <1>2, <1>6, <2>2 DEF Package, Goto
    <3> QED
      BY <1>1, <2>1, <3>1 DEF RunInv, Roles, Tracks, Touched, Schemas, Phases
  <2>3. CASE ~Complete(layer[p])
    <3> DEFINE n == Len(layer[p])
    <3>1. /\ pc'[p] = "package" /\ layer'[p] = WithNext(layer[p])
      BY <1>2, <1>6, <2>1, <2>3 DEF Package
    <3>2. /\ Len(layer'[p]) = n + 1 /\ layer'[p][n + 1] = tree[n + 1]
          /\ \A f \in 1 .. n : layer'[p][f] = layer[p][f]
      BY <1>1, <1>2, <2>3, <3>1, NextFile DEF TypeInv, Progress
    <3>3. \A f \in 1 .. Len(layer'[p]) : f \in 1 .. n \/ f = n + 1
      BY <1>2, <3>2
    <3> HIDE DEF n
    <3>4. Tracks(p)'
      BY <1>1, <2>1, <3>1, <3>2, <3>3 DEF n, RunInv, Tracks, Touched
    <3>5. Schemas(p)'
      <4>1. n \in Nat
        BY <1>2 DEF n
      <4>2. CASE SchemaFile <= n
        <5>1. layer'[p][SchemaFile] = layer[p][SchemaFile] /\ ~(Len(layer'[p]) < SchemaFile)
          BY <1>2, <3>2, <4>1, <4>2
        <5> QED
          BY <1>1, <2>1, <3>1, <4>2, <5>1 DEF n, RunInv, Schemas, Phases
      <4>3. CASE SchemaFile = n + 1
        <5>1. layer'[p][SchemaFile] = tree[SchemaFile] /\ n < SchemaFile
              /\ ~(Len(layer'[p]) < SchemaFile)
          BY <1>2, <3>2, <4>1, <4>3
        <5> QED
          BY <1>1, <2>1, <3>1, <5>1 DEF n, RunInv, Schemas, Phases
      <4>4. CASE SchemaFile > n + 1
        <5>1. n < SchemaFile /\ ~(SchemaFile <= Len(layer'[p]))
          BY <1>2, <3>2, <4>1, <4>4
        <5> QED
          BY <1>1, <2>1, <3>1, <5>1 DEF n, RunInv, Schemas, Phases
      <4> QED
        BY <1>2, <4>1, <4>2, <4>3, <4>4
    <3>6. Roles(p)'
      BY <2>1, <3>1 DEF Roles
    <3> QED
      BY <3>4, <3>5, <3>6 DEF RunInv
  <2> QED
    BY <2>2, <2>3
<1>7. CASE NextArgs(p)
  <2>1. /\ pc[p] = "args" /\ p \notin Adding /\ UNCHANGED <<argSchema, schema, layer>>
    BY <1>1, <1>7 DEF NextArgs, RunInv, Roles
  <2>2. CASE CompileLayer(p)
    <3>1. pc'[p] = "compile" /\ staged'[p] = layer'[p] /\ saved' = saved /\ p \notin Building
      BY <1>1, <1>2, <2>1, <2>2 DEF CompileLayer, Goto
    <3> QED
      BY <1>1, <2>1, <3>1 DEF RunInv, Roles, Tracks, Touched, Schemas, Phases
  <2>3. CASE CompileTree(p)
    <3>1. /\ p \in Building /\ saved' = saved
          /\ \/ pc'[p] = "args"
             \/ pc'[p] = "stage" /\ staged'[p] = <<>>
      BY <1>2, <2>1, <2>3 DEF CompileTree, Goto
    <3>2. staged'[p] = <<>> => \A f \in 1 .. Len(staged'[p]) : FALSE
      OBVIOUS
    <3> QED
      BY <1>1, <2>1, <3>1, <3>2 DEF RunInv, Roles, Tracks, Touched, Schemas, Phases
  <2>4. CASE p \in Publishing /\ Goto(p, "upload") /\ UNCHANGED <<staged, next, made, saved>>
    <3>1. pc'[p] = "upload" /\ saved' = saved /\ p \notin Building
      BY <1>1, <1>2, <2>4 DEF Goto
    <3> QED
      BY <1>1, <2>1, <3>1 DEF RunInv, Roles, Tracks, Schemas, Phases
  <2>5. CASE End(p)
    BY <1>e, <1>2, <2>5 DEF End, Goto
  <2> QED
    BY <1>7, <2>2, <2>3, <2>4, <2>5 DEF NextArgs
<1>8. CASE Stage(p)
  <2>1. /\ pc[p] = "stage" /\ p \in Building /\ p \notin Adding
        /\ UNCHANGED <<argSchema, schema, layer, saved>>
    BY <1>1, <1>8 DEF Stage, history, RunInv, Roles
  <2>2. CASE Complete(staged[p])
    <3>1. pc'[p] = "compile" /\ staged'[p] = staged[p]
      BY <1>2, <1>8, <2>2 DEF Stage, Goto
    <3> QED
      BY <1>1, <2>1, <3>1 DEF RunInv, Roles, Tracks, Touched, Schemas, Phases
  <2>3. CASE ~Complete(staged[p])
    <3> DEFINE n == Len(staged[p])
    <3>1. pc'[p] = "stage" /\ staged'[p] = WithNext(staged[p])
      BY <1>2, <1>8, <2>1, <2>3 DEF Stage
    <3>2. /\ Len(staged'[p]) = n + 1 /\ staged'[p][n + 1] = tree[n + 1]
          /\ \A f \in 1 .. n : staged'[p][f] = staged[p][f]
      BY <1>1, <1>2, <2>1, <2>3, <3>1, NextFile DEF TypeInv, Progress
    <3>3. \A f \in 1 .. Len(staged'[p]) : f \in 1 .. n \/ f = n + 1
      BY <1>2, <3>2
    <3>4. n + 1 \in 1 .. Len(layer[p])
      <4>1. Len(layer[p]) = NFiles /\ Len(staged[p]) <= NFiles /\ NFiles \in Nat
        BY <1>1, <1>2, <2>1, CompleteIsTree, SourceAssumption DEF TypeInv, Progress, Packaged
      <4> QED
        BY <1>2, <2>3, <4>1 DEF Complete
    <3> HIDE DEF n
    <3>5. layer[p][n + 1] = tree[n + 1] \/ Touched(p, n + 1)
      BY <1>1, <2>1, <3>4 DEF RunInv, Tracks
    <3>6. Tracks(p)'
      BY <1>1, <2>1, <3>1, <3>2, <3>3, <3>5 DEF n, RunInv, Tracks, Touched
    <3> QED
      BY <1>1, <2>1, <3>1, <3>6 DEF RunInv, Roles, Schemas, Phases
  <2> QED
    BY <2>2, <2>3
<1>9. CASE Compile(p)
  <2>1. pc[p] = "compile" /\ UNCHANGED <<argSchema, schema, layer>>
    BY <1>9 DEF Compile
  <2>2. CASE pc'[p] = "idle"
    BY <1>e, <2>2
  <2>3. CASE pc'[p] # "idle"
    <3>1. pc'[p] = (IF p \in Adding THEN "upload" ELSE "args") /\ UNCHANGED <<staged, saved>>
      BY <1>1, <1>9, <2>3, CompileOutcome
    <3>2. p \in Publishing \cup Building \/ p \in Adding
      BY DEF Runs
    <3> QED
      BY <1>1, <2>1, <3>1, <3>2 DEF RunInv, Roles, Tracks, Touched, Schemas, Phases
  <2> QED
    BY <2>2, <2>3
<1>10. CASE Upload(p)
  BY <1>e, <1>2, <1>10 DEF Upload, End, Goto
<1> QED
  BY <1>3, <1>4, <1>5, <1>6, <1>7, <1>8, <1>9, <1>10 DEF Step

\* What is compiled is explained by what has been read, and exact for a
\* registry.
LEMMA BuildIsExplained ==
  ASSUME Inv, NEW p \in Runs, pc[p] = "compile"
  PROVE  LET build == [key |-> KeyOf(p), source |-> staged[p], saved |-> saved[p]] IN
         Explained(build) /\ (p \notin Building => FromRelease(build))
<1> DEFINE build == [key |-> KeyOf(p), source |-> staged[p], saved |-> saved[p]]
<1>1. /\ build.source = staged[p] /\ build.saved = saved[p]
      /\ build.key.release.layer = layer[p] /\ build.key.release.schema = schema[p]
      /\ build.key.by = argSchema[p]
  BY DEF KeyOf, ReleaseOf
<1>2. Roles(p) /\ Tracks(p) /\ Schemas(p)
  BY DEF Inv, RunInv
<1>3. Len(staged[p]) = NFiles
  BY CompleteIsTree DEF Inv, TypeInv, TypeOK, Progress
<1> HIDE DEF build
<1>4. \A f \in Files : build.source[f] # build.key.release.layer[f] =>
        \E w \in build.saved : w[1] # "schema" /\ w[2] = f
  BY <1>1, <1>2, <1>3 DEF Tracks, Touched, Files
<1>5. build.key.by # build.key.release.schema => <<"schema", SchemaFile>> \in build.saved
  BY <1>1, <1>2 DEF Schemas, Phases
<1>6. p \notin Building => FromRelease(build)
  BY <1>1, <1>2 DEF Roles, FromRelease
<1> QED
  BY <1>4, <1>5, <1>6 DEF Explained, build

\* What a run makes, or finds, is of the Release it has packaged.
LEMMA StepKeepsMade ==
  ASSUME Inv, NEW p \in Runs, Step(p)
  PROVE  MadeInv(p)'
<1>1. /\ TypeInv /\ TypeOK /\ RunInv(p) /\ MadeInv(p) /\ StoresInv
      /\ made \in [Runs -> SUBSET Builds] /\ pc \in [Runs -> Phases \cup {"idle"}]
  BY DEF Inv, TypeInv, TypeOK
<1>2. CASE Begin(p) \/ BeginAddition(p)
  <2>1. made' = [made EXCEPT ![p] = {}]
    BY <1>2 DEF Begin, BeginAddition, Start
  <2> QED
    BY <1>1, <2>1 DEF MadeInv
<1>3. CASE ReadSchema(p) \/ Package(p)
  <2>1. made'[p] = made[p] /\ pc[p] \in {"schema", "package"}
    BY <1>3 DEF ReadSchema, Package
  <2> QED
    BY <1>1, <2>1 DEF MadeInv
<1>4. ASSUME NEW new \in SUBSET Builds,
             \A b \in new : /\ Explained(b)
                            /\ p \in Building => b.key.release.layer = layer[p]
                            /\ p \notin Building => FromRelease(b),
             made'[p] = made[p] \cup new, layer' = layer,
             pc'[p] \notin {"schema", "package"}
      PROVE  MadeInv(p)'
  BY <1>1, <1>4 DEF MadeInv
<1>5. ASSUME made' = made, layer' = layer, pc'[p] \notin {"schema", "package"}
      PROVE  MadeInv(p)'
  BY <1>1, <1>5 DEF MadeInv
<1>6. \A b \in Under(cached, KeyOf(p)) :
        b \in Builds /\ Explained(b) /\ b.key.release.layer = layer[p]
  BY <1>1 DEF Under, StoresInv, KeyOf, ReleaseOf, TypeOK
<1>7. CASE NextArgs(p)
  <2>1. layer' = layer /\ pc[p] = "args"
    BY <1>7 DEF NextArgs
  <2>2. pc'[p] \notin {"schema", "package"}
    BY <1>1, <1>7, <2>1 DEF NextArgs, CompileLayer, CompileTree, Goto, End
  <2>3. CASE made' = made
    BY <1>5, <2>1, <2>2, <2>3
  <2>4. CASE CompileTree(p) /\ made' # made
    <3>1. p \in Building /\ made'[p] = made[p] \cup Under(cached, KeyOf(p))
      BY <1>1, <2>4 DEF CompileTree
    <3>2. Under(cached, KeyOf(p)) \in SUBSET Builds
      BY <1>6
    <3> QED
      BY <1>4, <1>6, <2>1, <2>2, <3>1, <3>2
  <2> QED
    BY <1>7, <2>3, <2>4 DEF NextArgs, CompileLayer
<1>8. CASE Stage(p)
  <2>1. UNCHANGED <<made, layer>> /\ pc'[p] \notin {"schema", "package"}
    BY <1>1, <1>8 DEF Stage, Goto
  <2> QED
    BY <1>5, <2>1
<1>9. CASE Compile(p)
  <2> DEFINE build == [key |-> KeyOf(p), source |-> staged[p], saved |-> saved[p]]
  <2>1. pc[p] = "compile" /\ layer' = layer /\ pc'[p] \notin {"schema", "package"}
    BY <1>1, <1>9, CompileOutcome
  <2>2. CASE made' = made
    BY <1>5, <2>1, <2>2
  <2>3. CASE made' # made
    <3>1. PICK new \in SUBSET Builds :
            /\ \A b \in new : b = build \/ (p \in Building /\ b \in cached /\ b.key = KeyOf(p))
            /\ made' = [made EXCEPT ![p] = made[p] \cup new]
      BY <1>1, <1>9, <2>3, CompileOutcome
    <3>2. /\ Explained(build) /\ (p \notin Building => FromRelease(build))
          /\ build.key.release.layer = layer[p]
      BY <2>1, BuildIsExplained DEF KeyOf, ReleaseOf
    <3> HIDE DEF build
    <3>3. \A b \in new : b = build \/ (p \in Building /\ b \in Under(cached, KeyOf(p)))
      BY <3>1 DEF Under
    <3> QED
      BY <1>1, <1>4, <1>6, <2>1, <3>1, <3>2, <3>3
  <2> QED
    BY <2>2, <2>3
<1>10. CASE Upload(p)
  <2>1. made' = made /\ layer' = layer /\ pc'[p] = "idle"
    BY <1>1, <1>10 DEF Upload, End, Goto
  <2> QED
    BY <1>5, <2>1
<1> QED
  BY <1>2, <1>3, <1>7, <1>8, <1>9, <1>10 DEF Step

\* What a run stores is what it has made, and for a registry that is exact.
LEMMA StepKeepsStores ==
  ASSUME Inv, NEW p \in Runs, Step(p)
  PROVE  StoresInv'
<1>1. /\ TypeInv /\ TypeOK /\ RunInv(p) /\ MadeInv(p) /\ StoresInv
  BY DEF Inv, TypeInv
<1>2. CASE UNCHANGED stores
  BY <1>1, <1>2 DEF StoresInv, stores
<1>3. CASE Compile(p)
  <2> DEFINE build == [key |-> KeyOf(p), source |-> staged[p], saved |-> saved[p]]
  <2>1. pc[p] = "compile" /\ pushed' = pushed /\ published' = published
    BY <1>1, <1>3, CompileOutcome
  <2>2. Explained(build)
    BY <2>1, BuildIsExplained
  <2>3. \A b \in cached' : b \in cached \/ b = build
    BY <1>1, <1>3, CompileOutcome
  <2> HIDE DEF build
  <2>4. \A b \in cached' : Explained(b)
    BY <1>1, <2>2, <2>3 DEF StoresInv
  <2> QED
    BY <1>1, <2>1, <2>4 DEF StoresInv
<1>4. CASE Upload(p)
  <2>1. /\ pc[p] = "upload" /\ p \notin Building
        /\ pushed' \subseteq pushed \cup made[p] /\ cached' \subseteq cached \cup made[p]
        /\ \/ published' = published
           \/ /\ p \in Publishing
              /\ published' = published \cup {[release |-> ReleaseOf(p), saved |-> saved[p]]}
    BY <1>1, <1>4, UploadOutcome DEF RunInv, Roles
  <2>2. \A b \in made[p] : FromRelease(b) /\ Explained(b)
    BY <1>1, <2>1 DEF MadeInv
  <2>3. p \in Publishing /\ schema[p] # layer[p][SchemaFile] =>
          <<"package", SchemaFile>> \in saved[p]
    <3>1. Len(layer[p]) = NFiles /\ SchemaFile <= NFiles
      BY <1>1, <2>1, CompleteIsTree, SourceAssumption
         DEF TypeInv, TypeOK, Progress, Packaged, Files
    <3> QED
      BY <1>1, <2>1, <3>1, SourceAssumption DEF RunInv, Schemas, Phases
  <2>4. \A b \in pushed' : FromRelease(b) /\ Explained(b)
    BY <1>1, <2>1, <2>2 DEF StoresInv
  <2>5. \A b \in cached' : Explained(b)
    BY <1>1, <2>1, <2>2 DEF StoresInv
  <2>6. \A q \in published' : q.release.schema # q.release.layer[SchemaFile] =>
          <<"package", SchemaFile>> \in q.saved
    BY <1>1, <2>1, <2>3 DEF StoresInv, ReleaseOf
  <2> QED
    BY <2>4, <2>5, <2>6 DEF StoresInv
<1> QED
  BY <1>2, <1>3, <1>4
     DEF Step, Begin, BeginAddition, Start, ReadSchema, Package, NextArgs, Stage, stores

\* No run is under way at first.
LEMMA Initially == Init => Inv
<1> SUFFICES ASSUME Init PROVE Inv
  OBVIOUS
<1>1. TypeInv
  BY TypesAtFirst
<1>2. StoresInv
  BY DEF Init, StoresInv
<1>3. ASSUME NEW p \in Runs PROVE RunInv(p) /\ MadeInv(p)
  <2>1. pc[p] = "idle" /\ made[p] = {}
    BY DEF Init
  <2> QED
    BY <2>1 DEF RunInv, Roles, Tracks, Schemas, MadeInv, Phases
<1> QED
  BY <1>1, <1>2, <1>3 DEF Inv

\* Neither a run nor a saving breaks the invariant.
LEMMA Invariance == Inv /\ [Next]_vars => Inv'
<1> SUFFICES ASSUME Inv, [Next]_vars PROVE Inv'
  OBVIOUS
<1>1. TypeInv'
  BY TypeInvariance DEF Inv
<1>2. ASSUME NEW p \in Runs, Step(p) PROVE Inv'
  <2>1. \A q \in Runs \ {p} : RunInv(q)' /\ MadeInv(q)'
    BY <1>2, OthersKeep DEF Inv
  <2> QED
    BY <1>1, <1>2, <2>1, StepKeepsRun, StepKeepsMade, StepKeepsStores DEF Inv
<1>3. ASSUME NEW f \in Files, Save(f) PROVE Inv'
  <2>1. \A p \in Runs : RunInv(p)'
    BY <1>3, SaveKeeps DEF Inv
  <2>2. \A p \in Runs : MadeInv(p)'
    BY <1>3 DEF Inv, MadeInv, Save
  <2>3. StoresInv'
    BY <1>3 DEF Inv, StoresInv, Save, stores
  <2> QED
    BY <1>1, <2>1, <2>2, <2>3 DEF Inv
<1>4. CASE UNCHANGED vars
  <2>1. UNCHANGED <<tree, pc, argSchema, schema, layer, staged, made, published, pushed, cached, saved>>
    BY <1>4 DEF vars
  <2>2. \A p \in Runs : RunInv(p)' /\ MadeInv(p)'
    BY <2>1 DEF Inv, RunInv, Roles, Tracks, Touched, Schemas, MadeInv
  <2>3. StoresInv'
    BY <2>1 DEF Inv, StoresInv
  <2> QED
    BY <1>1, <2>2, <2>3 DEF Inv
<1> QED
  BY <1>2, <1>3, <1>4 DEF Next

\* The invariant, of every behaviour.
LEMMA Always == Spec => []Inv
BY Initially, Invariance, PTL DEF Spec

-----------------------------------------------------------------------------
(* The theorems.                                                           *)

\* Whatever is saved while publish and publish-build run, and however often
\* either is run: a registry only ever gets Builds compiled from the very
\* files of their Release.
THEOREM PublishesWhatItReleases == Spec => []PublishedFromItsRelease
<1>1. Inv => PublishedFromItsRelease
  BY DEF Inv, StoresInv, FromRelease, PublishedFromItsRelease
<1> QED
  BY <1>1, Always, PTL

\* What build returns differs from what it has packaged by no more than the
\* files saved between the two readings of the run that compiled.
THEOREM ReturnsWhatItPackages == Spec => []ReturnedFromWhatItPackaged
<1>1. Inv => ReturnedFromWhatItPackaged
  BY DEF Inv, MadeInv, Explained, ReturnedFromWhatItPackaged, Runs
<1> QED
  BY <1>1, Always, PTL

\* No two of the three readings of the schema differ, but for a schema that
\* was saved between these two.
THEOREM ReadsOneSchema == Spec => []SchemasAgree
<1>1. Inv => SchemasAgree
  BY DEF Inv, StoresInv, Explained, SchemasAgree
<1> QED
  BY <1>1, Always, PTL
=============================================================================

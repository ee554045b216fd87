----------------------------- MODULE SourceTree -----------------------------
(***************************************************************************)
(* What a Build is compiled from.  `k-dash publish` and `k-dash build`     *)
(* read a project directory that somebody is working in, and saves files   *)
(* of at any time: they load the args schema, package the files one after  *)
(* the other, and compile.  `k-dash publish-build` takes all of it from a  *)
(* published Release (publish.publish_release, publish.local_build,        *)
(* publish.publish_build, project.release_objects, project.source_archive, *)
(* project.materialize_source_tree).                                       *)
(*                                                                         *)
(* A Release digest is its args schema and its layer, the files as         *)
(* packaged; a BuildKey is a Release digest and the args as normalized,    *)
(* that is, the raw args and the schema they were normalized by.           *)
(* Uploading is the subject of Publish: here it is one step.               *)
(***************************************************************************)
EXTENDS Naturals, Sequences

CONSTANTS
  Publishing,  \* runs of `k-dash publish`
  Adding,      \* runs of `k-dash publish-build`
  Building,    \* runs of `k-dash build`
  NFiles,      \* number of files in the project, in the order of packaging
  SchemaFile,  \* the place of args.schema.json among them
  Contents,    \* what a file may contain
  Args,        \* the args files each run is given, in order
  MaxStarts,   \* bound: how often each command is run
  MaxSaves     \* bound: how often a file is saved

Runs == Publishing \cup Adding \cup Building
Files == 1 .. NFiles
Range(s) == {s[i] : i \in DOMAIN s}
Trees == [Files -> Contents]

ASSUME SourceAssumption ==
  /\ Publishing \cap Building = {}
  /\ Adding \cap (Publishing \cup Building) = {}
  /\ NFiles \in Nat /\ SchemaFile \in Files
  /\ Contents # {}
  /\ Args \in Seq(Range(Args))
  /\ MaxStarts \in [Runs -> Nat]
  /\ MaxSaves \in Nat

VARIABLES
  tree,       \* the project directory
  pc,         \* where each run is
  starts,     \* how often it has been started
  argSchema,  \* the schema a run normalizes its args by
  schema,     \* the schema of its Release config
  layer,      \* the files of the Release, as far as they are packaged
  staged,     \* the files it compiles, as far as they are staged
  next,       \* the number of the args file it is at
  made,       \* the Builds it has so far: `materialized`, `results`
  published,  \* Releases in the registries
  pushed,     \* Builds in the registries
  cached,     \* Builds in the local cache
  \* History, for the properties.
  saves,      \* how often a file has been saved
  saved       \* which files while a run was under way, and where it was

vars == <<tree, pc, starts, argSchema, schema, layer, staged, next, made, published, pushed,
          cached, saves, saved>>
stores == <<published, pushed, cached>>
history == <<saves, saved>>

ReleaseOf(p) == [schema |-> schema[p], layer |-> layer[p]]

\* Mutant: the BuildKey does not cover the source.
KeyOfSchema(p) == [release |-> [schema |-> schema[p], layer |-> <<>>],
                   args |-> Args[next[p]], by |-> argSchema[p]]

KeyOf(p) == [release |-> ReleaseOf(p), args |-> Args[next[p]], by |-> argSchema[p]]

\* The Build stored under a key, if any.
Under(store, key) == {b \in store : b.key = key}

Phases == {"schema", "package", "args", "stage", "compile", "upload"}
Releases == [schema : Contents, layer : Trees]
Keys == [release : Releases, args : Range(Args), by : Contents]
Saved == SUBSET (Phases \X Files)
Builds == [key : Keys, source : Trees, saved : Saved]

TypeOK ==
  /\ tree \in Trees
  /\ pc \in [Runs -> Phases \cup {"idle"}]
  /\ starts \in [Runs -> Nat]
  /\ argSchema \in [Runs -> Contents]
  /\ schema \in [Runs -> Contents]
  /\ layer \in [Runs -> Seq(Contents)]
  /\ staged \in [Runs -> Seq(Contents)]
  /\ next \in [Runs -> 1 .. Len(Args) + 1]
  /\ made \in [Runs -> SUBSET Builds]
  /\ published \subseteq [release : Releases, saved : Saved]
  /\ pushed \subseteq Builds
  /\ cached \subseteq Builds
  /\ saves \in Nat
  /\ saved \in [Runs -> Saved]

Init ==
  /\ tree \in Trees
  /\ pc = [p \in Runs |-> "idle"]
  /\ starts = [p \in Runs |-> 0]
  /\ argSchema = [p \in Runs |-> tree[SchemaFile]]
  /\ schema = [p \in Runs |-> tree[SchemaFile]]
  /\ layer = [p \in Runs |-> <<>>]
  /\ staged = [p \in Runs |-> <<>>]
  /\ next = [p \in Runs |-> 1]
  /\ made = [p \in Runs |-> {}]
  /\ published = {} /\ pushed = {} /\ cached = {}
  /\ saves = 0
  /\ saved = [p \in Runs |-> {}]

-----------------------------------------------------------------------------
(* Parts of the handlers.                                                  *)

Goto(p, l) == pc' = [pc EXCEPT ![p] = l]

\* source_archive has read all files.
Complete(files) == Len(files) = NFiles

\* It reads the next one, as it is in the directory now.
WithNext(files) == Append(files, tree[Len(files) + 1])

\* A new process, with nothing made yet.
Start(p) ==
  /\ pc[p] = "idle"
  /\ starts[p] < MaxStarts[p]
  /\ starts' = [starts EXCEPT ![p] = @ + 1]
  /\ made' = [made EXCEPT ![p] = {}]
  /\ UNCHANGED <<tree, stores, history>>

\* It ends; what it had staged is gone, what it returned is not.
End(p) ==
  /\ Goto(p, "idle")
  /\ staged' = [staged EXCEPT ![p] = <<>>]
  /\ saved' = [saved EXCEPT ![p] = {}]

-----------------------------------------------------------------------------
(* The commands.                                                           *)

\* publish and build: load_project, for the schema the args will be
\* normalized by.
Begin(p) ==
  /\ p \in Publishing \cup Building
  /\ Start(p)
  /\ Goto(p, "schema")
  /\ argSchema' = [argSchema EXCEPT ![p] = tree[SchemaFile]]
  /\ layer' = [layer EXCEPT ![p] = <<>>]
  /\ next' = [next EXCEPT ![p] = 1]
  /\ UNCHANGED <<schema, staged>>

\* publish-build: the schema and the files of the Release, whatever the
\* directory contains, and one args file.
BeginAddition(p) ==
  /\ p \in Adding
  /\ Start(p)
  /\ Goto(p, "compile")
  /\ \E q \in published, i \in 1 .. Len(Args) :
       /\ argSchema' = [argSchema EXCEPT ![p] = q.release.schema]
       /\ schema' = [schema EXCEPT ![p] = q.release.schema]
       /\ layer' = [layer EXCEPT ![p] = q.release.layer]
       /\ staged' = [staged EXCEPT ![p] = q.release.layer]
       /\ next' = [next EXCEPT ![p] = i]

\* Mutant: the schema that load_project has returned is passed on.
ReadSchemaOnce(p) ==
  /\ pc[p] = "schema"
  /\ Goto(p, "package")
  /\ schema' = [schema EXCEPT ![p] = argSchema[p]]
  /\ UNCHANGED <<tree, starts, argSchema, layer, staged, next, made, stores, history>>

\* release_objects: load_project again, for the Release config.
ReadSchema(p) ==
  /\ pc[p] = "schema"
  /\ Goto(p, "package")
  /\ schema' = [schema EXCEPT ![p] = tree[SchemaFile]]
  /\ UNCHANGED <<tree, starts, argSchema, layer, staged, next, made, stores, history>>

\* release_objects: source_archive reads the files one by one.
Package(p) ==
  /\ pc[p] = "package"
  /\ IF Complete(layer[p])
     THEN Goto(p, "args") /\ UNCHANGED layer
     ELSE layer' = [layer EXCEPT ![p] = WithNext(@)] /\ UNCHANGED pc
  /\ UNCHANGED <<tree, starts, argSchema, schema, staged, next, made, stores, history>>

\* Mutant: publish stages the directory, as build does.
CompileLayerStages(p) ==
  /\ p \in Publishing
  /\ Goto(p, "stage")
  /\ staged' = [staged EXCEPT ![p] = <<>>]
  /\ UNCHANGED <<next, made, saved>>

\* publish compiles the layer it will upload, which it has extracted.
CompileLayer(p) ==
  /\ p \in Publishing
  /\ Goto(p, "compile")
  /\ staged' = [staged EXCEPT ![p] = layer[p]]
  /\ UNCHANGED <<next, made, saved>>

\* build returns what is in the cache, and stages the directory otherwise.
CompileTree(p) ==
  LET found == Under(cached, KeyOf(p)) IN
  /\ p \in Building
  /\ \/ /\ found # {}
        /\ made' = [made EXCEPT ![p] = @ \cup found]
        /\ next' = [next EXCEPT ![p] = @ + 1]
        /\ UNCHANGED <<pc, staged>>
     \/ /\ found = {}
        /\ Goto(p, "stage")
        /\ staged' = [staged EXCEPT ![p] = <<>>]
        /\ UNCHANGED <<next, made>>
  /\ UNCHANGED saved

\* The next args file, if any.
NextArgs(p) ==
  /\ pc[p] = "args"
  /\ \/ next[p] <= Len(Args) /\ CompileLayer(p)
     \/ next[p] <= Len(Args) /\ CompileTree(p)
     \/ /\ next[p] > Len(Args) /\ p \in Publishing
        /\ Goto(p, "upload")
        /\ UNCHANGED <<staged, next, made, saved>>
     \/ /\ next[p] > Len(Args) /\ p \in Building
        /\ End(p)
        /\ UNCHANGED <<next, made>>
  /\ UNCHANGED <<tree, starts, argSchema, schema, layer, stores, saves>>

\* materialize_source_tree of the directory.
Stage(p) ==
  /\ pc[p] = "stage"
  /\ IF Complete(staged[p])
     THEN Goto(p, "compile") /\ UNCHANGED staged
     ELSE staged' = [staged EXCEPT ![p] = WithNext(@)] /\ UNCHANGED pc
  /\ UNCHANGED <<tree, starts, argSchema, schema, layer, next, made, stores, history>>

\* The compiler.  build commits to the cache, which keeps what it has and
\* returns it; the others keep the Build until all are made; a failure ends
\* the run.
Compile(p) ==
  LET build == [key |-> KeyOf(p), source |-> staged[p], saved |-> saved[p]]
      found == Under(cached, KeyOf(p))
      kept == IF p \in Building /\ found # {} THEN found ELSE {build}
  IN
  /\ pc[p] = "compile"
  /\ \/ /\ made' = [made EXCEPT ![p] = @ \cup kept]
        /\ cached' = IF p \in Building THEN cached \cup kept ELSE cached
        /\ IF p \in Adding
           THEN Goto(p, "upload") /\ UNCHANGED next
           ELSE Goto(p, "args") /\ next' = [next EXCEPT ![p] = @ + 1]
        /\ UNCHANGED <<staged, saved>>
     \/ End(p) /\ UNCHANGED <<made, cached, next>>
  /\ UNCHANGED <<tree, starts, argSchema, schema, layer, published, pushed, saves>>

\* The checks and the pushes, as far as they come; publish then binds the
\* version and fills the local cache.
Upload(p) ==
  LET new(store) == {b \in made[p] : Under(store, b.key) = {}} IN
  /\ pc[p] = "upload"
  /\ End(p)
  /\ \/ /\ \E some \in SUBSET new(pushed) : pushed' = pushed \cup some
        /\ UNCHANGED <<published, cached>>
     \/ /\ p \in Publishing
        /\ pushed' = pushed \cup new(pushed)
        /\ published' = published \cup {[release |-> ReleaseOf(p), saved |-> saved[p]]}
        /\ \E some \in SUBSET new(cached) : cached' = cached \cup some
  /\ UNCHANGED <<tree, starts, argSchema, schema, layer, next, made, saves>>

\* Somebody saves a file, with another content or an earlier one.
Save(f) ==
  /\ saves < MaxSaves
  /\ saves' = saves + 1
  /\ \E c \in Contents \ {tree[f]} : tree' = [tree EXCEPT ![f] = c]
  /\ saved' = [p \in Runs |-> IF pc[p] = "idle" THEN saved[p] ELSE saved[p] \cup {<<pc[p], f>>}]
  /\ UNCHANGED <<pc, starts, argSchema, schema, layer, staged, next, made, stores>>

Step(p) ==
  \/ Begin(p) \/ BeginAddition(p) \/ ReadSchema(p) \/ Package(p) \/ NextArgs(p) \/ Stage(p)
  \/ Compile(p) \/ Upload(p)

Next == (\E p \in Runs : Step(p)) \/ (\E f \in Files : Save(f))

Spec == Init /\ [][Next]_vars

-----------------------------------------------------------------------------
(* Properties.                                                             *)

\* Every Build in a registry was compiled from the very files of its Release,
\* though the directory is saved to while publish packages, compiles and
\* uploads, and holds other files when publish-build runs ("the exact source
\* layer bound to this Release", publish.py:151; ADR-0038).
PublishedFromItsRelease == \A b \in pushed : b.source = b.key.release.layer

\* What `k-dash build` returns, from the compiler or from the cache, and
\* whoever has put it there, was compiled from the files it has packaged.  The
\* code reads the directory twice, and compiles what it finds the second time:
\* a file may differ, if it was saved while the run that compiled was between
\* the two readings, and no other file.
ReturnedFromWhatItPackaged ==
  \A p \in Building : \A b \in made[p] : \A f \in Files :
    b.source[f] # layer[p][f] => \E w \in b.saved : w[1] # "schema" /\ w[2] = f

\* The schema is read three times: for the args, for the Release config, and
\* as a file of the package.  Clients normalize by the second, the compiler
\* sees the third (ADR-0004), and a BuildKey is found only if the first is the
\* second (ADR-0048).  Each pair may differ only if args.schema.json was saved
\* between these two readings; for publish-build the first and the second
\* never do more than in the Release.
SchemasAgree ==
  /\ \A q \in published : q.release.schema # q.release.layer[SchemaFile] =>
       <<"package", SchemaFile>> \in q.saved
  /\ \A b \in pushed \cup cached : b.key.by # b.key.release.schema =>
       <<"schema", SchemaFile>> \in b.saved
=============================================================================

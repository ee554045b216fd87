--------------------------- MODULE BuilderProofs ----------------------------
(***************************************************************************)
(* What Builder promises for any number of concurrent builds of each kind. *)
(***************************************************************************)
EXTENDS Builder, TLAPS

(***************************************************************************)
(* The invariant, in parts.                                                *)
(***************************************************************************)

DockerPlaces == {"volume", "stage", "create", "put", "start", "wait", "fetch", "inspect", "remove"}
NixPlaces == {"nix", "check"}

\* Each kind of build goes its own way.
Places(p) ==
  /\ pc[p] \in DockerPlaces => p \in Dockers
  /\ pc[p] \in NixPlaces => p \in Nixes

\* There is no container before it is created, and none but a blamed one, and
\* no temporary directory, after the call.
Holds(p) ==
  /\ pc[p] \in {"volume", "stage", "create", "check"} => job[p] = "none"
  /\ pc[p] = "volume" => p \notin scratch
  /\ pc[p] \in {"built", "failed"} => p \notin scratch
  /\ pc[p] \notin Busy /\ (job[p] # "none" \/ p \in scratch) => p \in blame

\* A container that ended well has a kernel.so.
Produced(p) == p \in Dockers /\ job[p] = "ok" => output[p] \in {"module", "module and more"}

\* What is fetched and returned is a good compiler's.
Succeeds(p) ==
  /\ pc[p] \in Busy \ {"remove"} => returns[p] = "failed"
  /\ pc[p] \in {"fetch", "inspect"} => job[p] = "ok"
  /\ pc[p] = "remove" /\ returns[p] = "built" => job[p] = "ok"

CallInv(p) == Places(p) /\ Holds(p) /\ Produced(p) /\ Succeeds(p)

Inv == TypeOK /\ \A p \in Calls : CallInv(p)

-----------------------------------------------------------------------------
(* The steps.                                                              *)

\* A call begins with no container and no temporary directory.
LEMMA BeginKeeps ==
  ASSUME Inv, NEW p \in Calls, Begin(p)
  PROVE  Inv'
<1> USE BuilderAssumption DEF Calls, Inv, TypeOK, CallInv, Begin, Goto, Become
<1>1. TypeOK'  BY DEF Busy, Jobs, Outputs
<1>2. \A q \in Calls : Places(q)'  BY DEF Places, DockerPlaces, NixPlaces
<1>3. \A q \in Calls : Holds(q)'  BY DEF Places, Holds, Busy, DockerPlaces, NixPlaces
<1>4. \A q \in Calls : Produced(q)'  BY DEF Places, Produced, Outputs
<1>5. \A q \in Calls : Succeeds(q)'  BY DEF Places, Succeeds, Busy
<1> QED  BY <1>1, <1>2, <1>3, <1>4, <1>5

\* A failing daemon leaves nothing.
LEMMA VolumeKeeps ==
  ASSUME Inv, NEW p \in Calls, Volume(p)
  PROVE  Inv'
<1> USE BuilderAssumption DEF Calls, Inv, TypeOK, CallInv, Volume, Goto, End
<1>1. TypeOK'  BY DEF Busy, Jobs, Outputs
<1>2. \A q \in Calls : Places(q)'  BY DEF Places, DockerPlaces, NixPlaces
<1>3. \A q \in Calls : Holds(q)'  BY DEF Places, Holds, Busy, DockerPlaces, NixPlaces
<1>4. \A q \in Calls : Produced(q)'  BY DEF Places, Produced, Outputs
<1>5. \A q \in Calls : Succeeds(q)'  BY DEF Places, Succeeds, Busy
<1> QED  BY <1>1, <1>2, <1>3, <1>4, <1>5

\* Failing to stage removes the temporary directory.
LEMMA StageKeeps ==
  ASSUME Inv, NEW p \in Calls, Stage(p)
  PROVE  Inv'
<1> USE BuilderAssumption DEF Calls, Inv, TypeOK, CallInv, Stage, Goto, End
<1>1. TypeOK'  BY DEF Busy, Jobs, Outputs
<1>2. \A q \in Calls : Places(q)'  BY DEF Places, DockerPlaces, NixPlaces
<1>3. \A q \in Calls : Holds(q)'  BY DEF Places, Holds, Busy, DockerPlaces, NixPlaces
<1>4. \A q \in Calls : Produced(q)'  BY DEF Places, Produced, Outputs
<1>5. \A q \in Calls : Succeeds(q)'  BY DEF Places, Succeeds, Busy
<1> QED  BY <1>1, <1>2, <1>3, <1>4, <1>5

\* A container that the call does not know of is blamed on it.
LEMMA CreateKeeps ==
  ASSUME Inv, NEW p \in Calls, Create(p)
  PROVE  Inv'
<1> USE BuilderAssumption DEF Calls, Inv, TypeOK, CallInv, Create, Goto, End, Become
<1>1. TypeOK'  BY DEF Busy, Jobs, Outputs
<1>2. \A q \in Calls : Places(q)'  BY DEF Places, DockerPlaces, NixPlaces
<1>3. \A q \in Calls : Holds(q)'  BY DEF Places, Holds, Busy, DockerPlaces, NixPlaces
<1>4. \A q \in Calls : Produced(q)'  BY DEF Places, Produced, Outputs
<1>5. \A q \in Calls : Succeeds(q)'  BY DEF Places, Succeeds, Busy
<1> QED  BY <1>1, <1>2, <1>3, <1>4, <1>5

\* From here on the container is removed by `finally`.
LEMMA PutKeeps ==
  ASSUME Inv, NEW p \in Calls, Put(p)
  PROVE  Inv'
<1> USE BuilderAssumption DEF Calls, Inv, TypeOK, CallInv, Put, Goto, Become
<1>1. TypeOK'  BY DEF Busy, Jobs, Outputs
<1>2. \A q \in Calls : Places(q)'  BY DEF Places, DockerPlaces, NixPlaces
<1>3. \A q \in Calls : Holds(q)'  BY DEF Places, Holds, Busy, DockerPlaces, NixPlaces
<1>4. \A q \in Calls : Produced(q)'  BY DEF Places, Produced, Outputs
<1>5. \A q \in Calls : Succeeds(q)'  BY DEF Places, Succeeds, Busy
<1> QED  BY <1>1, <1>2, <1>3, <1>4, <1>5

\* It runs, or is removed.
LEMMA StartKeeps ==
  ASSUME Inv, NEW p \in Calls, Start(p)
  PROVE  Inv'
<1> USE BuilderAssumption DEF Calls, Inv, TypeOK, CallInv, Start, Goto, Become
<1>1. TypeOK'  BY DEF Busy, Jobs, Outputs
<1>2. \A q \in Calls : Places(q)'  BY DEF Places, DockerPlaces, NixPlaces
<1>3. \A q \in Calls : Holds(q)'  BY DEF Places, Holds, Busy, DockerPlaces, NixPlaces
<1>4. \A q \in Calls : Produced(q)'  BY DEF Places, Produced, Outputs
<1>5. \A q \in Calls : Succeeds(q)'  BY DEF Places, Succeeds, Busy
<1> QED  BY <1>1, <1>2, <1>3, <1>4, <1>5

\* Only a good exit status leads on.
LEMMA WaitKeeps ==
  ASSUME Inv, NEW p \in Calls, Wait(p)
  PROVE  Inv'
<1> USE BuilderAssumption DEF Calls, Inv, TypeOK, CallInv, Wait, Goto, Attempt
<1>1. TypeOK'  BY DEF Busy, Jobs, Outputs
<1>2. \A q \in Calls : Places(q)'  BY DEF Places, DockerPlaces, NixPlaces
<1>3. \A q \in Calls : Holds(q)'  BY DEF Places, Holds, Busy, DockerPlaces, NixPlaces
<1>4. \A q \in Calls : Produced(q)'  BY DEF Places, Produced, Outputs
<1>5. \A q \in Calls : Succeeds(q)'  BY DEF Places, Succeeds, Busy
<1> QED  BY <1>1, <1>2, <1>3, <1>4, <1>5

\* The container is removed while it runs.
LEMMA TimeoutKeeps ==
  ASSUME Inv, NEW p \in Calls, Timeout(p)
  PROVE  Inv'
<1> USE BuilderAssumption DEF Calls, Inv, TypeOK, CallInv, Timeout, Goto
<1>1. TypeOK'  BY DEF Busy, Jobs, Outputs
<1>2. \A q \in Calls : Places(q)'  BY DEF Places, DockerPlaces, NixPlaces
<1>3. \A q \in Calls : Holds(q)'  BY DEF Places, Holds, Busy, DockerPlaces, NixPlaces
<1>4. \A q \in Calls : Produced(q)'  BY DEF Places, Produced, Outputs
<1>5. \A q \in Calls : Succeeds(q)'  BY DEF Places, Succeeds, Busy
<1> QED  BY <1>1, <1>2, <1>3, <1>4, <1>5

\* The compiler that ended well stays so.
LEMMA FetchKeeps ==
  ASSUME Inv, NEW p \in Calls, Fetch(p)
  PROVE  Inv'
<1> USE BuilderAssumption DEF Calls, Inv, TypeOK, CallInv, Fetch, Goto, Attempt
<1>1. TypeOK'  BY DEF Busy, Jobs, Outputs
<1>2. \A q \in Calls : Places(q)'  BY DEF Places, DockerPlaces, NixPlaces
<1>3. \A q \in Calls : Holds(q)'  BY DEF Places, Holds, Busy, DockerPlaces, NixPlaces
<1>4. \A q \in Calls : Produced(q)'  BY DEF Places, Produced, Outputs
<1>5. \A q \in Calls : Succeeds(q)'  BY DEF Places, Succeeds, Busy
<1> QED  BY <1>1, <1>2, <1>3, <1>4, <1>5

\* The call will return what it has fetched.
LEMMA InspectKeeps ==
  ASSUME Inv, NEW p \in Calls, Inspect(p)
  PROVE  Inv'
<1> USE BuilderAssumption DEF Calls, Inv, TypeOK, CallInv, Inspect, Goto
<1>1. TypeOK'  BY DEF Busy, Jobs, Outputs
<1>2. \A q \in Calls : Places(q)'  BY DEF Places, DockerPlaces, NixPlaces
<1>3. \A q \in Calls : Holds(q)'  BY DEF Places, Holds, Busy, DockerPlaces, NixPlaces
<1>4. \A q \in Calls : Produced(q)'  BY DEF Places, Produced, Outputs
<1>5. \A q \in Calls : Succeeds(q)'  BY DEF Places, Succeeds, Busy
<1> QED  BY <1>1, <1>2, <1>3, <1>4, <1>5

\* The container is gone, or blamed.
LEMMA RemoveKeeps ==
  ASSUME Inv, NEW p \in Calls, Remove(p)
  PROVE  Inv'
<1> USE BuilderAssumption DEF Calls, Inv, TypeOK, CallInv, Remove, Goto, End, Become
<1>a. pc' \in [Calls -> Busy \cup {"idle", "built", "failed"}]
  BY DEF Busy
<1>b. job' \in [Calls -> Jobs] /\ scratch' \subseteq Calls /\ blame' \subseteq Calls
  BY DEF Jobs
<1>1. TypeOK'  BY <1>a, <1>b
<1>2. \A q \in Calls : Places(q)'  BY DEF Places, DockerPlaces, NixPlaces
<1>3. \A q \in Calls : Holds(q)'  BY DEF Places, Holds, Busy, DockerPlaces, NixPlaces
<1>4. \A q \in Calls : Produced(q)'  BY DEF Places, Produced, Outputs
<1>5. \A q \in Calls : Succeeds(q)'  BY DEF Places, Succeeds, Busy
<1> QED  BY <1>1, <1>2, <1>3, <1>4, <1>5

\* `nix` has ended before its output is looked at.
LEMMA NixKeeps ==
  ASSUME Inv, NEW p \in Calls, Nix(p)
  PROVE  Inv'
<1> USE BuilderAssumption DEF Calls, Inv, TypeOK, CallInv, Nix, Goto, End, Become
<1>a. pc' \in [Calls -> Busy \cup {"idle", "built", "failed"}]
  BY DEF Busy
<1>b. job' \in [Calls -> Jobs] /\ scratch' \subseteq Calls
  BY DEF Jobs
<1>1. TypeOK'  BY <1>a, <1>b
<1>2. \A q \in Calls : Places(q)'  BY DEF Places, DockerPlaces, NixPlaces
<1>3. \A q \in Calls : Holds(q)'  BY DEF Places, Holds, Busy, DockerPlaces, NixPlaces
<1>4. \A q \in Calls : Produced(q)'  BY DEF Places, Produced, Outputs
<1>5. \A q \in Calls : Succeeds(q)'  BY DEF Places, Succeeds, Busy
<1> QED  BY <1>1, <1>2, <1>3, <1>4, <1>5

\* Nothing but the output is left to look at.
LEMMA CheckKeeps ==
  ASSUME Inv, NEW p \in Calls, Check(p)
  PROVE  Inv'
<1> USE BuilderAssumption DEF Calls, Inv, TypeOK, CallInv, Check, Goto, End
<1>1. TypeOK'  BY DEF Busy, Jobs, Outputs
<1>2. \A q \in Calls : Places(q)'  BY DEF Places, DockerPlaces, NixPlaces
<1>3. \A q \in Calls : Holds(q)'  BY DEF Places, Holds, Busy, DockerPlaces, NixPlaces
<1>4. \A q \in Calls : Produced(q)'  BY DEF Places, Produced, Outputs
<1>5. \A q \in Calls : Succeeds(q)'  BY DEF Places, Succeeds, Busy
<1> QED  BY <1>1, <1>2, <1>3, <1>4, <1>5

\* A container without kernel.so ends in an error.
LEMMA FinishKeeps ==
  ASSUME Inv, NEW p \in Calls, Finish(p)
  PROVE  Inv'
<1> USE BuilderAssumption DEF Calls, Inv, TypeOK, CallInv, Finish, Become
<1>a. job' \in [Calls -> Jobs]
  BY DEF Jobs
<1>b. output' \in [Calls -> Outputs]
  BY DEF Outputs
<1>1. TypeOK'  BY <1>a, <1>b
<1>2. \A q \in Calls : Places(q)'  BY DEF Places, DockerPlaces, NixPlaces
<1>3. \A q \in Calls : Holds(q)'  BY DEF Places, Holds, Busy, DockerPlaces, NixPlaces
<1>4. ASSUME NEW q \in Calls  PROVE Produced(q)'
  <2>1. CASE q = p  BY <2>1 DEF Produced, Jobs, Outputs
  <2>2. CASE q # p  BY <2>2 DEF Produced
  <2> QED  BY <2>1, <2>2
<1>5. \A q \in Calls : Succeeds(q)'  BY DEF Places, Succeeds, Busy
<1> QED  BY <1>1, <1>2, <1>3, <1>4, <1>5

\* Nothing changes but the caller.
LEMMA DoneKeeps ==
  ASSUME Inv, NEW p \in Calls, Done(p)
  PROVE  Inv'
<1> USE BuilderAssumption DEF Calls, Inv, TypeOK, CallInv, Done, Goto
<1>1. TypeOK'  BY DEF Busy, Jobs, Outputs
<1>2. \A q \in Calls : Places(q)'  BY DEF Places, DockerPlaces, NixPlaces
<1>3. \A q \in Calls : Holds(q)'  BY DEF Places, Holds, Busy, DockerPlaces, NixPlaces
<1>4. \A q \in Calls : Produced(q)'  BY DEF Places, Produced, Outputs
<1>5. \A q \in Calls : Succeeds(q)'  BY DEF Places, Succeeds, Busy
<1> QED  BY <1>1, <1>2, <1>3, <1>4, <1>5

\* What is left is blamed on the dead.
LEMMA KillKeeps ==
  ASSUME Inv, NEW p \in Calls, Kill(p)
  PROVE  Inv'
<1> USE BuilderAssumption DEF Calls, Inv, TypeOK, CallInv, Kill, Goto, Become
<1>1. TypeOK'  BY DEF Busy, Jobs, Outputs
<1>2. \A q \in Calls : Places(q)'  BY DEF Places, DockerPlaces, NixPlaces
<1>3. \A q \in Calls : Holds(q)'  BY DEF Places, Holds, Busy, DockerPlaces, NixPlaces
<1>4. \A q \in Calls : Produced(q)'  BY DEF Places, Produced, Outputs
<1>5. \A q \in Calls : Succeeds(q)'  BY DEF Places, Succeeds, Busy
<1> QED  BY <1>1, <1>2, <1>3, <1>4, <1>5

\* What is left is removed.
LEMMA TidyKeeps ==
  ASSUME Inv, NEW p \in Calls, Tidy(p)
  PROVE  Inv'
<1> USE BuilderAssumption DEF Calls, Inv, TypeOK, CallInv, Tidy, Become
<1>1. TypeOK'  BY DEF Busy, Jobs, Outputs
<1>2. \A q \in Calls : Places(q)'  BY DEF Places, DockerPlaces, NixPlaces
<1>3. \A q \in Calls : Holds(q)'  BY DEF Places, Holds, Busy, DockerPlaces, NixPlaces
<1>4. \A q \in Calls : Produced(q)'  BY DEF Places, Produced, Outputs
<1>5. \A q \in Calls : Succeeds(q)'  BY DEF Places, Succeeds, Busy
<1> QED  BY <1>1, <1>2, <1>3, <1>4, <1>5

-----------------------------------------------------------------------------
(* The theorems.                                                           *)

\* The invariant holds before the first call.
LEMMA InitHolds == Init => Inv
<1> SUFFICES ASSUME Init PROVE Inv
  OBVIOUS
<1> USE DEF Init
<1>1. TypeOK  BY DEF TypeOK, Busy, Jobs, Outputs
<1>2. \A p \in Calls : Places(p) /\ Holds(p)
  BY DEF Places, Holds, Busy, DockerPlaces, NixPlaces
<1>3. \A p \in Calls : Produced(p) /\ Succeeds(p)
  BY DEF Produced, Succeeds, Busy, Calls
<1> QED  BY <1>1, <1>2, <1>3 DEF Inv, CallInv

\* Every step preserves the invariant.
LEMMA NextKeeps == Inv /\ [Next]_vars => Inv'
<1> SUFFICES ASSUME Inv, [Next]_vars PROVE Inv'
  OBVIOUS
<1>1. ASSUME NEW p \in Calls, Step(p)
      PROVE  Inv'
  BY <1>1, VolumeKeeps, StageKeeps, CreateKeeps, PutKeeps, StartKeeps, WaitKeeps, TimeoutKeeps,
    FetchKeeps, InspectKeeps, RemoveKeeps, NixKeeps, CheckKeeps DEF Step
<1>2. ASSUME NEW p \in Calls, Begin(p) \/ Finish(p) \/ Done(p) \/ Kill(p) \/ Tidy(p)
      PROVE  Inv'
  BY <1>2, BeginKeeps, FinishKeeps, DoneKeeps, KillKeeps, TidyKeeps
<1>3. CASE UNCHANGED vars
  BY <1>3 DEF vars, Inv, TypeOK, CallInv, Places, Holds, Produced, Succeeds
<1> QED  BY <1>1, <1>2, <1>3 DEF Next

\* All of it, always.
LEMMA InvHolds == Spec => []Inv
<1> QED  BY InitHolds, NextKeeps, PTL DEF Spec

\* Every variable has its type, whatever fails.
THEOREM TypeCorrect == Spec => []TypeOK
<1>1. Inv => TypeOK  BY DEF Inv
<1> QED  BY <1>1, InvHolds, PTL

\* A call that has ended has left no temporary directory, and no container that
\* the daemon would have let it remove, wherever it was interrupted.
THEOREM NothingStays == Spec => []NothingIsLeft
<1>1. Inv => NothingIsLeft
  BY DEF Inv, CallInv, Holds, Busy, NothingIsLeft
<1> QED  BY <1>1, InvHolds, PTL

\* What a call returns comes from a compiler that ended well and left kernel.so
\* in $out; that of nix_aot and local_jit has left nothing else there.
THEOREM BuildsAreComplete == Spec => BuiltIsComplete
<1>1. ASSUME Inv, [Next]_vars, NEW p \in Calls, pc[p] # "built", pc'[p] = "built"
      PROVE  /\ job[p] \in {"ok", "none"}
             /\ output[p] \in {"module", "module and more"}
             /\ p \in Nixes => output[p] = "module"
  <2>1. (Remove(p) /\ returns[p] = "built") \/ Check(p)
    <3>1. PICK q \in Calls : Begin(q) \/ Step(q) \/ Finish(q) \/ Done(q) \/ Kill(q) \/ Tidy(q)
      BY <1>1 DEF Next, vars
    <3> USE <1>1 DEF Goto, End, Attempt, Inv, TypeOK
    <3>2. ~Begin(q) /\ ~Finish(q) /\ ~Done(q) /\ ~Kill(q) /\ ~Tidy(q)
      BY DEF Begin, Finish, Done, Kill, Tidy
    <3>3. ~Volume(q) /\ ~Stage(q) /\ ~Create(q) /\ ~Put(q) /\ ~Start(q) /\ ~Wait(q)
      BY DEF Volume, Stage, Create, Put, Start, Wait
    <3>4. ~Timeout(q) /\ ~Fetch(q) /\ ~Inspect(q) /\ ~Nix(q)
      BY DEF Timeout, Fetch, Inspect, Nix
    <3>5. ASSUME Remove(q) PROVE q = p /\ returns[p] = "built"
      BY <3>5 DEF Remove
    <3>6. ASSUME Check(q) PROVE q = p
      BY <3>6 DEF Check
    <3> QED  BY <3>1, <3>2, <3>3, <3>4, <3>5, <3>6 DEF Step
  <2>2. CASE Remove(p) /\ returns[p] = "built"
    BY <1>1, <2>2, BuilderAssumption
    DEF Remove, Inv, CallInv, Succeeds, Places, Produced, DockerPlaces
  <2>3. CASE Check(p)
    BY <1>1, <2>3 DEF Check, End, Goto, Inv, TypeOK, CallInv, Holds
  <2> QED  BY <2>1, <2>2, <2>3
<1>2. Inv /\ [Next]_vars =>
        [\A p \in Calls : pc[p] # "built" /\ pc'[p] = "built" =>
           /\ job[p] \in {"ok", "none"}
           /\ output[p] \in {"module", "module and more"}
           /\ p \in Nixes => output[p] = "module"]_vars
  BY <1>1
<1> QED  BY <1>2, InvHolds, PTL DEF Spec, BuiltIsComplete
=============================================================================

------------------------------ MODULE Builder -------------------------------
(***************************************************************************)
(* Compilation (builder.py): docker_aot, which drives a container through  *)
(* the Docker API, and local_jit and nix_aot, which run `nix build`.       *)
(* Compilers may fail or never end, the daemon may fail any request, and   *)
(* the calling process may be killed.                                      *)
(***************************************************************************)
CONSTANTS
  Dockers,  \* calls of docker_aot
  Nixes     \* calls of local_jit and nix_aot

Calls == Dockers \cup Nixes

ASSUME BuilderAssumption == Dockers \cap Nixes = {}

VARIABLES
  pc,       \* where each call is
  scratch,  \* calls whose temporary directory exists
  job,      \* the container of each call, or its `nix build`
  output,   \* what the build has put into $out, once it has ended well
  returns,  \* how the call will end when its `finally` is through
  blame     \* history: calls whose container they could not remove

vars == <<pc, scratch, job, output, returns, blame>>

Jobs == {"none", "created", "loaded", "running", "ok", "error"}
Outputs == {"none", "module", "module and more", "no module"}
Busy == {"volume", "stage", "create", "put", "start", "wait", "fetch", "inspect", "remove",
         "nix", "check"}

TypeOK ==
  /\ pc \in [Calls -> Busy \cup {"idle", "built", "failed"}]
  /\ scratch \subseteq Calls
  /\ job \in [Calls -> Jobs]
  /\ output \in [Calls -> Outputs]
  /\ returns \in [Calls -> {"built", "failed"}]
  /\ blame \subseteq Calls

Init ==
  /\ pc = [p \in Calls |-> "idle"]
  /\ scratch = {}
  /\ job = [p \in Calls |-> "none"]
  /\ output = [p \in Calls |-> "none"]
  /\ returns = [p \in Calls |-> "failed"]
  /\ blame = {}

-----------------------------------------------------------------------------
Goto(p, l) == pc' = [pc EXCEPT ![p] = l]
Become(p, j) == job' = [job EXCEPT ![p] = j]

\* The call returns or raises; its temporary directory goes with it.
End(p, outcome) == Goto(p, outcome) /\ scratch' = scratch \ {p}

\* docker_aot, between try and finally: a failing request leads to `finally`.
Attempt(p, l) == Goto(p, l) \/ Goto(p, "remove")

\* docker.from_env, or which("nix") and the temporary directory.
Begin(p) ==
  /\ pc[p] = "idle"
  /\ job[p] = "none" /\ p \notin scratch
  /\ output' = [output EXCEPT ![p] = "none"]
  /\ returns' = [returns EXCEPT ![p] = "failed"]
  /\ blame' = blame \ {p}
  /\ \/ p \in Dockers /\ Goto(p, "volume") /\ UNCHANGED <<scratch, job>>
     \/ p \in Nixes /\ Goto(p, "nix") /\ scratch' = scratch \cup {p} /\ Become(p, "running")
     \/ Goto(p, "failed") /\ UNCHANGED <<scratch, job>>

\* volumes.get or volumes.create.
Volume(p) ==
  /\ pc[p] = "volume"
  /\ \/ Goto(p, "stage") /\ scratch' = scratch \cup {p}
     \/ End(p, "failed")
  /\ UNCHANGED <<job, output, returns, blame>>

\* materialize_source_tree, driver.nix and the archive of both.
Stage(p) ==
  /\ pc[p] = "stage"
  /\ \/ Goto(p, "create") /\ UNCHANGED scratch
     \/ End(p, "failed")
  /\ UNCHANGED <<job, output, returns, blame>>

\* containers.create.  If only its answer is lost, there is a container that
\* the call does not know of.
Create(p) ==
  /\ pc[p] = "create"
  /\ \/ Goto(p, "put") /\ Become(p, "created") /\ UNCHANGED <<scratch, blame>>
     \/ End(p, "failed") /\ UNCHANGED <<job, blame>>
     \/ End(p, "failed") /\ Become(p, "created") /\ blame' = blame \cup {p}
  /\ UNCHANGED <<output, returns>>

\* put_archive.
Put(p) ==
  /\ pc[p] = "put"
  /\ \/ Goto(p, "start") /\ Become(p, "loaded")
     \/ Goto(p, "remove") /\ UNCHANGED job
  /\ UNCHANGED <<scratch, output, returns, blame>>

\* container.start.
Start(p) ==
  /\ pc[p] = "start"
  /\ \/ Goto(p, "wait") /\ Become(p, "running")
     \/ Goto(p, "remove") /\ job' \in {job, [job EXCEPT ![p] = "running"]}
  /\ UNCHANGED <<scratch, output, returns, blame>>

\* The compiler ends.  In the container, the shell copies kernel.so out of
\* $out, so that an output without one is an error.
Finish(p) ==
  /\ job[p] = "running"
  /\ \/ \E o \in Outputs \ {"none"} :
          /\ output' = [output EXCEPT ![p] = o]
          /\ Become(p, IF p \in Dockers /\ o = "no module" THEN "error" ELSE "ok")
     \/ Become(p, "error") /\ UNCHANGED output
  /\ UNCHANGED <<pc, scratch, returns, blame>>

\* Mutant: the exit status is not looked at.
WaitIgnoresStatus(p) ==
  /\ pc[p] = "wait"
  /\ job[p] \in {"ok", "error"}
  /\ Goto(p, "fetch")
  /\ UNCHANGED <<scratch, job, output, returns, blame>>

\* container.wait: an exit status.  Anything but 0 is an error.
Wait(p) ==
  /\ pc[p] = "wait"
  /\ job[p] \in {"ok", "error"}
  /\ IF job[p] = "ok" THEN Attempt(p, "fetch") ELSE Goto(p, "remove")
  /\ UNCHANGED <<scratch, job, output, returns, blame>>

\* Mutant: no timeout.
TimeoutNever(p) == FALSE /\ UNCHANGED vars

\* container.wait: K_DASH_AOT_TIMEOUT has passed, or the daemon has failed.
Timeout(p) ==
  /\ pc[p] = "wait"
  /\ Goto(p, "remove")
  /\ UNCHANGED <<scratch, job, output, returns, blame>>

\* get_archive("/tmp/kernel.so").
Fetch(p) ==
  /\ pc[p] = "fetch"
  /\ Attempt(p, "inspect")
  /\ UNCHANGED <<scratch, job, output, returns, blame>>

\* images.get, for the provenance.
Inspect(p) ==
  /\ pc[p] = "inspect"
  /\ Goto(p, "remove")
  /\ returns' \in {returns, [returns EXCEPT ![p] = "built"]}
  /\ UNCHANGED <<scratch, job, output, blame>>

\* Mutant: the container is removed only after a good build.
RemoveIfBuilt(p) ==
  /\ pc[p] = "remove"
  /\ End(p, returns[p])
  /\ IF returns[p] = "built" THEN Become(p, "none") ELSE UNCHANGED job
  /\ UNCHANGED <<output, returns, blame>>

\* finally: container.remove(force=True).  If that fails, so does the call,
\* whatever it had.
Remove(p) ==
  /\ pc[p] = "remove"
  /\ \/ End(p, returns[p]) /\ Become(p, "none") /\ UNCHANGED blame
     \/ /\ End(p, "failed")
        /\ blame' = blame \cup {p}
        /\ UNCHANGED job
  /\ UNCHANGED <<output, returns>>

\* local_jit, nix_aot: subprocess.run returns, or kills `nix` at the timeout.
Nix(p) ==
  /\ pc[p] = "nix"
  /\ \/ job[p] = "ok" /\ Goto(p, "check") /\ Become(p, "none") /\ UNCHANGED scratch
     \/ job[p] # "ok" /\ End(p, "failed") /\ Become(p, "none")
  /\ UNCHANGED <<output, returns, blame>>

\* local_jit, nix_aot: $out holds kernel.so and nothing else.
Check(p) ==
  /\ pc[p] = "check"
  /\ End(p, IF output[p] = "module" THEN "built" ELSE "failed")
  /\ UNCHANGED <<job, output, returns, blame>>

\* The caller goes on, to its next build.
Done(p) ==
  /\ pc[p] \in {"built", "failed"}
  /\ Goto(p, "idle")
  /\ UNCHANGED <<scratch, job, output, returns, blame>>

\* The calling process is killed: nothing is cleaned up, and the daemon goes
\* on with the container; `nix` dies with the pipe it writes to.
Kill(p) ==
  /\ pc[p] \in Busy
  /\ Goto(p, "idle")
  /\ blame' = blame \cup {p}
  /\ IF p \in Nixes THEN Become(p, "none") ELSE UNCHANGED job
  /\ UNCHANGED <<scratch, output, returns>>

\* Somebody tidies up after the dead.
Tidy(p) ==
  /\ pc[p] = "idle" /\ p \in blame
  /\ scratch' = scratch \ {p}
  /\ Become(p, "none")
  /\ UNCHANGED <<pc, output, returns, blame>>

Step(p) ==
  \/ Volume(p) \/ Stage(p) \/ Create(p) \/ Put(p) \/ Start(p) \/ Wait(p) \/ Timeout(p)
  \/ Fetch(p) \/ Inspect(p) \/ Remove(p) \/ Nix(p) \/ Check(p)

Next == \E p \in Calls : Begin(p) \/ Step(p) \/ Finish(p) \/ Done(p) \/ Kill(p) \/ Tidy(p)

Spec == Init /\ [][Next]_vars

\* Requests to the daemon return, and waiting for a compiler has a timeout,
\* docker's or subprocess.run's.  Compilers need not end.
FairSpec == Spec /\ \A p \in Calls : WF_vars(Step(p))

-----------------------------------------------------------------------------
(* Properties.                                                             *)

\* A call that has ended, well or not, has left no container and no temporary
\* directory, running or not, unless the daemon did not let it remove it.
NothingIsLeft ==
  \A p \in Calls : pc[p] \in {"built", "failed"} =>
    p \notin scratch /\ (job[p] # "none" => p \in blame)

\* kernel.so is taken from a compiler that ended well, never from one that
\* was given up or that failed after it had written its output.  local_jit and
\* nix_aot take it only if there is nothing else in $out (builder.py:120, 148);
\* docker_aot copies kernel.so out and does not look at the rest.
BuiltIsComplete ==
  [][\A p \in Calls : pc[p] # "built" /\ pc'[p] = "built" =>
       /\ job[p] \in {"ok", "none"}
       /\ output[p] \in {"module", "module and more"}
       /\ p \in Nixes => output[p] = "module"]_vars

\* Every call ends, also if its compiler never does.
Ends == \A p \in Calls : pc[p] \in Busy ~> pc[p] \notin Busy
=============================================================================

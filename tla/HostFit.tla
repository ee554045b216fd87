------------------------------ MODULE HostFit -------------------------------
(***************************************************************************)
(* ModuleTable over Validation: which Builds of a kernel.so a process may  *)
(* find under a BuildKey, and which of them api.load accepts.              *)
(***************************************************************************)
EXTENDS ModuleTable, Validation

CONSTANTS
  WorldAt,  \* WorldAt[w]: what the world w is, among it its host and its kernel.so
  SpecAt    \* SpecAt[k]: the BuildSpec with the BuildKey k, up to what it tells apart

Kinds == {"aot", "jit"}

\* The config of a Build: publish.py records the dependencies of the kernel.so,
\* Local JIT records none.
ConfigOfBuild(w, b) ==
  LET so == WorldAt[w].kernel
  IN ConfigOf(so, SpecAt[b[2]].target, IF b[1] = "aot" THEN InferHostDependencies(so) ELSE {})

Accepted(w, builds) ==
  {b \in builds : ValidateKernelSo(WorldAt[w].kernel, ConfigOfBuild(w, b))}

\* Other processes may be offline, or run `k-dash build`.
SharedBuild == [w \in Worlds |-> [k \in Keys |-> Accepted(w, Kinds \X {k})]]

\* What api.load asks before it loads.
RuntimeChecks ==
  [w \in Worlds |-> [v \in Versions |->
     {b \in Builds : LET c == ConfigOfBuild(w, b) IN
        /\ ValidateTvmFfi(c, v)
        /\ ValidateHostDependencies(c, WorldAt[w].host)
        /\ ValidateHostCxxRuntime(c, WorldAt[w].host)}]]

LoaderOpens == [w \in Worlds |-> {b \in Builds : DlOpens(WorldAt[w].kernel, WorldAt[w].host)}]

\* What ModuleTable leaves open: the Builds, and what is said of them.
ASSUME HostFitAssumption ==
  /\ Builds = Kinds \X Keys
  /\ Shared = SharedBuild
  /\ \A w \in Worlds, k \in Keys : Deliver[w][k] \subseteq SharedBuild[w][k]
  /\ Checks = RuntimeChecks
  /\ Opens = LoaderOpens

\* Versions are sequences of numbers.  Where one of the C++ libraries is, there
\* is the other: libstdc++ needs libgcc_s, and tvm-ffi needs libstdc++.
ASSUME HostAssumption ==
  \A w \in Worlds :
    LET host == WorldAt[w].host IN
    /\ IsFiniteSet(host.provided)
    /\ \A n \in host.provided \cup WorldAt[w].kernel.versions : n[2] \in Seq(Nat)
    /\ host.cutedsl \in Seq(Nat)
    /\ CxxLibraries \cap host.libraries # {} => CxxLibraries \subseteq host.libraries

-----------------------------------------------------------------------------
(* Properties.                                                             *)

\* The host has what the Build of k needs.
Fits(w, k, v) ==
  LET so == WorldAt[w].kernel
  IN DlOpens(so, WorldAt[w].host) /\ RunsOn(so, SpecAt[k].target, WorldAt[w].host, v)

\* What gets into the module table fits the host and the tvm-ffi of the process,
\* also if the entry is replaced after its config was read, or tvm-ffi after it
\* was imported; and what fits is not refused.
FitDecides ==
  [][/\ \A k \in Keys : modules'[k] # modules[k] => Fits(world, k, imported)
     /\ \A t \in Threads : pc[t] = "table" /\ error'[t] = "unfit" =>
          ~Fits(world, key[t], imported')]_vars
=============================================================================

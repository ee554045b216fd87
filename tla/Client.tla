------------------------------- MODULE Client -------------------------------
(***************************************************************************)
(* k_dash.load from the caller's args to the module: ModuleTable over      *)
(* BuildArgs, Target and Validation.                                       *)
(*                                                                         *)
(* A world is the host of the process, the kernel.so that the Nix inputs   *)
(* of the Release make (the same for AOT and JIT), what has been published *)
(* of it (by which options, with which args, where), and whether           *)
(* K_DASH_OFFLINE is set.                                                  *)
(***************************************************************************)
EXTENDS HostFit, BuildArgs, Target

CONSTANTS
  ArgsAt,      \* ArgsAt[q]: the args of the request q
  ArgsSchema,  \* args.schema.json of the Release
  ArgsPaths    \* the paths in it that a kernel reads

ASSUME ClientAssumption ==
  /\ \A k, l \in Keys : SpecAt[k] = SpecAt[l] => k = l
  /\ \A w \in Worlds : IsHost(WorldAt[w].host) /\ IsOptions(WorldAt[w].published.options)

\* normalize_args of what is given.
Normalized == [q \in Requests |-> NormalizeArgs(ArgsAt[q], ArgsSchema)]

\* build_key: RFC 8785 and SHA-256 are injective up to what the BuildSpec means
\* to JSON.
BuildKey(args, target) ==
  IF args = Refused \/ target = NoTarget THEN None
  ELSE LET spec == [args |-> Canonical(args), target |-> target]
       IN CHOOSE k \in Keys : SpecAt[k] = spec

\* api.get: what a request asks for.
RequestKey ==
  [w \in Worlds |->
     LET target == [v \in Versions |-> DetectTarget(WorldAt[w].host, v)]
     IN [q \in Requests |-> [v \in Versions |-> BuildKey(Normalized[q], target[v])]]]

\* `k-dash publish`: what has been published, if its kernel.so was accepted.
PublishedKey ==
  [w \in Worlds |->
     LET p == WorldAt[w].published
     IN BuildKey(NormalizeArgs(p.args, ArgsSchema), ExplicitTarget(p.options, p.host))]

\* materialize: the Build that has been published, or Local JIT.
DeliverBuild ==
  [w \in Worlds |-> [k \in Keys |->
     LET online == k = PublishedKey[w] /\ ~WorldAt[w].offline
         aot == Accepted(w, IF online THEN {<<"aot", k>>} ELSE {})
     IN IF aot # {} THEN aot ELSE Accepted(w, {<<"jit", k>>})]]

-----------------------------------------------------------------------------
(* Properties.                                                             *)

\* What args mean to the kernel: each arg, or its default.
Meaning(args) == [path \in ArgsPaths |-> Effective(args, ArgsSchema, path)]
Reads == [q \in Requests |-> Meaning(ArgsAt[q])]
ReadsPublished == [w \in Worlds |-> Meaning(WorldAt[w].published.args)]

\* The published target is the host's.
ForHost ==
  [w \in Worlds |-> [v \in Versions |->
     LET p == WorldAt[w].published IN IsFor(p.options, p.arch, WorldAt[w].host, v)]]

\* However args and targets are spelled and wherever defaults are filled in,
\* two calls ask for one BuildKey if and only if they mean the same to the
\* kernel, and for the published one if and only if they mean what was
\* published: AOT and JIT share the BuildSpec (ADR-0001).
KeysAgree ==
  \A t \in Threads : request[t] # None =>
    /\ \A u \in Threads : request[u] # None =>
         (key[t] = key[u] <=>
            request[t][2] = request[u][2] /\ Reads[request[t][1]] = Reads[request[u][1]])
    /\ PublishedKey[world] # None =>
         (key[t] = PublishedKey[world] <=>
            ForHost[world][request[t][2]] /\ Reads[request[t][1]] = ReadsPublished[world])

\* What can be published of a Release can also be compiled by those who load it:
\* "AOT is only an early materialization of the BuildSpec" (ADR-0001).
JitIsAccepted ==
  \A t \in Threads : error[t] = "refused" =>
    \A k \in Keys \cap UNION {{RequestKey[world][q][v] : q \in Requests} : v \in Versions} :
      Accepted(world, {<<"aot", k>>}) = {}
=============================================================================

# Models of k-dash

k-dash distributes CUDA kernels. A *Release* is the source of one version of a kernel; a *Build* is one `kernel.so`,
compiled from a Release for one set of args, target and toolchain and named by its BuildKey. Both are artifacts in OCI
registries; a client resolves a version, finds or compiles the Build, and loads it. The library has no server of its
own. Whatever consistency it has comes from the order in which processes touch the file system and the registries, and
that order is the subject of these modules. Source paths below are relative to `src/k_dash/` unless they start with
`docs/`.

To check a module: `tlc -config <cfg> <module>.tla`; to prove one: `tlapm LoadProofs.tla`, and likewise the other
seven modules whose name ends in `Proofs`.

## 1. Inventory

| Component | State | Operations | Meets | What makes it correct |
|---|---|---|---|---|
| Local cache: entries (`cache.py`, `cli.py` `_prune`) | `builds/<key>/`, `releases/<digest>/`, `tmp/`, `locks/<key>.lock` | `get_build`, `get_release`, `commit_*`, `build_lock`, `clean`, prune | every process of the user, through the file system | an entry is seen whole or not at all and never mixes two builds; one worker per BuildKey; no lock is left behind |
| Local cache: resolutions (`cache.py` 97-121) | `resolutions/.../<version>.json` and one `<version>.tmp` for all | `get_resolution`, `put_resolution` | callers of `get`, `clean` | readers find a digest |
| Load path (`api.py` `get`, `runtime.py`) | none of its own but the walk over registries | resolve, pull, look up, lock, download or compile, validate, commit | cache, OCI client, builder | compiles only after an authoritative miss; fails closed on damage; offline asks nobody |
| Module table (`api.py` 20-22, 62-77) | `_modules`, `_module_locks`, the imported `tvm_ffi` | `load` | threads of the process, load path, entries that others change | one module per path, one path per module; what is loaded fits the process; no lock stays behind |
| Publication (`publish.py`) | registries' tags and blobs | `publish_release`, `publish_build`, `local_build` | OCI client, builder, project | versions and Builds are immutable; success is everywhere; a retry goes through |
| OCI client (`oci.py`) | a bearer token | `pull`, `push`, `get_manifest` | registry, token service | what is pulled is one artifact; absence is told from failure |
| Builders (`builder.py`) | container, `nix build`, temporary directory | `docker_aot`, `nix_aot`, `local_jit` | docker daemon | output of a failed build is never taken; nothing is left behind |
| Project and source packages (`project.py`) | the working directory | `load_project`, `source_archive`, `materialize_source_tree` | publication | what is compiled is what was packaged |
| Artifacts (`artifact.py`) | - | descriptors, verification | OCI client | digest and size are checked |
| Canonical JSON, BuildKey (`canonical.py`, `model.py`) | - | `normalize_args`, `canonical_json`, `build_key` | all | what means the same has the same key, and nothing else has |
| Registry configuration (`config.py`) | - | `load_registry_set` | load path, publication | one primary, no duplicates |
| Target (`target.py`) | - | `explicit_target`, `detect_target` | publication, load path | publisher and client spell a target alike |
| Validation (`validation.py`) | - | `infer_host_dependencies`, `validate_kernel_so`, the three runtime checks | publication, load path, module table | what the host cannot run is refused, and nothing else is |
| Data model, errors, command line, templates, Nix kernel templates, examples, CI | - | - | - | see `PROJECT.json`, "components" |

Interaction is by direct call within one process, and between processes only through the disk (rename, flock, unlink)
and the registries (HTTP requests that may be lost before or after they take effect). Hard behaviours, each at its line
in `PROJECT.json` under "hazards": two callers renaming onto one directory, a shared temporary file, `prune` and `clean`
at work under readers and writers, crashes between two writes, a lock whose holder fails or dies, dev versions that
move during a load, threads that load one path, an entry replaced between its check and its load, tvm-ffi upgraded under
a process, partial failure across registries, check-then-bind without a compare-and-swap, lost answers and
retries, a directory that is saved to while it is read twice, tokens that expire in the middle of an operation, builds that
outlast their timeout.

## 2. Modules

| Module | Models | Composition |
|---|---|---|
| `ContentStore` | what the cache promises: each key gets one value, once; a call returns the value | abstract specification |
| `LocalCache` | cache entries at the grain of file-system calls | implements `ContentStore` (`Promise`) |
| `LocalCacheProofs` | proofs about `LocalCache` | EXTENDS it |
| `ResolutionFile` | the resolution file, its temporary file and open descriptors | |
| `ResolutionFileProofs` | proofs about `ResolutionFile` | EXTENDS it |
| `KernelGet` | what `k_dash.get` promises: a call returns the one validated Build of a Release that the version names, or raises | abstract specification |
| `Load` | `k_dash.get` over a cache, registries and a builder | implements `KernelGet` (`Contract`); uses the cache as `ContentStore` gives it, and `ResolutionFile`'s failure as an error |
| `LoadProofs` | proofs about `Load`, the refinement among them | EXTENDS it |
| `ReleaseBinding` | a non-dev version names one Release, for ever | abstract specification |
| `Publish` | publishers and their registries | implements `ReleaseBinding` (`Binding`) |
| `PublishProofs` | proofs about `Publish`, the refinement among them | EXTENDS it |
| `OciClient` | one client's HTTP exchanges with one registry | the grain below `Load` and `Publish` |
| `OciClientProofs` | proofs about `OciClient` | EXTENDS it |
| `SourceTree` | what a Build is compiled from | the grain below `Publish` on the side of the directory |
| `SourceTreeProofs` | proofs about `SourceTree` | EXTENDS it |
| `Builder` | the life of a container or a `nix build` | |
| `BuilderProofs` | proofs about `Builder` | EXTENDS it |
| `ModuleTable` | `api.load` in the threads of one process; `get` is a call of its own kind | above `Load` and `LocalCache` |
| `BuildArgs` | `normalize_args` and what RFC 8785 tells apart, as operators | |
| `Target` | `explicit_target` and `detect_target`, as operators | |
| `Validation` | what ELF, config and host say of each other, as operators | |
| `HostFit` | which Builds publishing and JIT accept, and which `api.load` does | EXTENDS `ModuleTable`, `Validation` |
| `ModuleTableProofs` | proofs about `ModuleTable`, `Validation`, `HostFit` and `Target` | EXTENDS `HostFit`, `Target` |
| `Client` | `k_dash.load` from the caller's args to the module | EXTENDS `HostFit`, `BuildArgs`, `Target` |

`MC*` modules give the constants of an instance to TLC, nothing else; `ClientWorlds` holds the hosts, kernels,
publications and args for `MCClient`. `PROJECT.json` "map" has the source lines
of each definition.

### How state and actions correspond to the code

**LocalCache.** A call is a program counter `pc[p]` and its key. `Probe` is the `is_dir`/`is_file` look of
`get_build`/`get_release`, `Read` the `read_text` after it (the file may be gone by then). A process of `Lockers`
behaves as `materialize`: `Acquire` is `build_lock`, after which it looks again. The others go straight to work:
`api.get` for a Release, `local_build`, `publish_release`. `CommitFindsEntry`, `Mkdtemp`, `WritePart`, `Rename` are the
steps of `commit_*`; every stored part carries its writer, so a mixture would show. `Rename` is rename(2): it replaces an
empty directory, fails on a full one with `RaceErrno`, and fails if the temporary directory was cleaned away. `WritePart` may
fail at every file (a full disk, a temporary directory that is gone), and `finally` then removes what is there. `Maintain`
is `prune` (`Unlink`, `RmDir` in any order) and `clean` (entries, then temporary directories, each root removed and
made again), with `MaintCrash`.

**ResolutionFile.** `file` and `tmp` are the names, each an inode number; `content` is what the inodes hold; a
descriptor `fd[p]` stays with its inode when the name is renamed or unlinked. `Open` truncates, `Write` fills, `Rename`
moves whatever `tmp` names at that moment. The directory and those above it, which `clean` removes and `mkdir` makes with
it, are one. `FailuresAreShared` blames a failure of a call on another process, in two ways: a name that is missing has been
changed during the call; an empty file, which is there for good, was given its name by a call that somebody else disturbed. A
single writer, wherever it dies, leaves nothing that makes a later call fail; two can.

**Load.** One kernel, one version, one BuildSpec apart from the Release. `AskVersion` is one iteration of the loop of
`resolve_release` (primary first; secondaries only for a stable version, and only if access failed), `Record` is
`put_resolution`, then the Release cache and `pull_release`, the Build cache, `Lock`, `Recheck`, `AskBinary` (one
iteration of `_binary_registry`: authority first), `PullSource`, `Compile`, `Validate`, `CommitBuild`. Registries are
nondeterministic: every request may be answered, refused, damaged ("bad", a content error, or "raw", an exception that is no
`KDashError`), or lost. A stable version names one Release at all registries, which is what `Publish` and its `Binding` provide for
runs that do not overlap; a dev version names `bound` at the primary, and anything at a secondary (`NamedBy`). `Die` kills the process anywhere, `Move`
publishes under the dev version; `named` keeps, for the properties only, what the version has named so far. `normalize_args` and `detect_target`, which share no state, succeed.

**KernelGet.** A call is under way (`in`), has returned or raised, or its process has died (`out`). It may return a Build that is
there (`Find`) or one that it makes (`Make`), of a Release in `Eligible`: an online call for a dev version takes one that the
version has named since the call began, any other call one that it has ever named. A Build is made once. `Contract` in `Load` says
how its states are states of `KernelGet`: `built` is what is *good* in the Build cache, so a bad `kernel.so` that
got there would break it, and a call that fails, or dies, must leave no Build changed.

**Publish.** A run compiles (`Build`), checks all registries (`CheckRelease`, `CheckBuild`), and pushes registry by
registry, blob by blob (`Push`); `publish_build` pulls the Release, builds, resolves a dev version again (`CheckMoved`)
and then checks and pushes registry by registry. Every request may be lost before or after it took effect, and a run may
be killed anywhere and started again.

**OciClient.** `request` and `phase` are the request under way and its place in `_request`: sent, answered by 401,
authorized, sent again. `bearer` is what the kept token allows. The registry's policy is one record, fixed for a
behaviour: it asks for tokens or not, grants push or not, refuses manifests without their blobs or not, removes
unreferenced blobs or not. It may answer a token that is too narrow by 403, which is final, and send a manifest without its digest,
which is then compared with nothing. `outcome` "raw" is an exception that is not a `KDashError`.

**SourceTree.** A Release digest is *the schema and the files packaged*; a BuildKey is *the Release, the args, and the
schema that normalized them*. All are values, so equal content has equal digests. `publish` and `build` read the schema (`Begin`,
`ReadSchema`) and the files one at a time (`Package`); then `publish` compiles the layer it has packaged (`CompileLayer`), and
`build`, unless the cache has the Build, reads the directory again (`CompileTree`, `Stage`). `publish-build` takes schema and layer from a
Release that is there (`BeginAddition`). `Save` changes a file at any moment; `saved` keeps, for the properties only, which
files were saved while a run was in which phase.

**Builder.** `job` is the container or the `nix build`, and `output` what is in `$out`. `Finish` is the compiler's own
step; it need not come. `Remove` is the `finally` clause.

**ModuleTable.** `pc[t]` is the place of thread `t` in `api.load`: `Call` is what comes up to the BuildKey (the Release, which may
not be had, `normalize_args`, `detect_target` and `build_key`); `Get` the rest of `get`, one step with the outcomes that `Load` has in detail (a whole entry is a hit; a miss
is downloaded or compiled, but `commit_build` leaves a partial entry as it is; or an exception); `Guard` the
`setdefault` under `_guard`; `Acquire` the lock of the path; then `Reuse`, or `Prepare` (import `tvm_ffi`, read
`config.json`, three checks) and `LoadModule`. `Fail` is any exception: `with` releases the lock. `holder[k][u]` is the
state of the lock object that thread `u` made for path `k`, so that two lock objects for one path could exist. A module
object is named by the call that made it. `entry[k]` has two files, `config.json` and `kernel.so`, which others unlink
one by one, or replace by another Build of the same key. `Upgrade` changes the installed tvm-ffi, which `detect_target`
reads at every call, but `import tvm_ffi` only the first time.

What the operators say is in constants that are functions (`KeyOf`, `Deliver`, `Shared`, `Checks`, `Opens`), so that
`ModuleTable` has no recursion and its theorems hold for any such functions. `HostFit` defines `Shared`, `Checks` and
`Opens`, and bounds `Deliver`; `Client` defines `KeyOf` and `Deliver`.

**BuildArgs.** A JSON value is a tree of records; a number has a value and a spelling (`int`, `float`, `minus_zero`,
`not_finite`), a schema its type, fields, required fields, default and items. `ApplyDefaults`, `Valid`, `IJson` are
the three passes of `normalize_args`, `Canonical` the tree up to what its bytes tell apart. The reference is `Effective`:
what a kernel reads at a path, the default standing for what is missing.

**Target.** Digits, not characters: `int()` is `Value`, so 08 and 8 are one number, and `sm_90a` is split where the regular
expression splits it. `DetectTarget` believes `nvcc` before PyTorch and PyTorch for the GPU. The reference is `IsFor`, which
compares the numbers of options and host; `IsOptions` and `IsHost` say what these are made of.

**Validation.** A `kernel.so` is what ELF says of it; `Newer` is Python's comparison of tuples, `MaximumVersion` leaves
out names that are not numbers. The reference is `DlOpens` (the loader wants every library and every symbol version)
with `RunsOn` (the tvm-ffi it was compiled for; a CuteDSL runtime of 4.6.1 or later, its three numbers compared one by one).

**HostFit.** `ConfigOfBuild` is the only difference between AOT and JIT: publishers record inferred dependencies, Local JIT
none. `RuntimeChecks` are the three checks of `api.load` in their order, `LoaderOpens` is what `dlopen` does after them.

**Client.** A *world* is a host, the `kernel.so` that the Release's Nix inputs make there (the same for AOT and JIT), a
publication (who published it, from which machine, with which options) and whether K_DASH_OFFLINE is set.

## 3. Runs

| Run | Question | Instance |
|---|---|---|
| `cache_fill` | do locked and unlocked callers fill an entry once, whole, and return? | two lockers, one unlocked caller, one key, two parts |
| `cache_maintenance` | what survives prune and clean, dying half way? | two lockers, one key |
| `cache_lost_race` (violation) | can a commit lose the race in a way that is not handled? | two unlocked callers |
| `load` | failover, fail-closed, offline, dev versions, termination; is `KernelGet` implemented? | two callers (two calls and one), two registries with the primary second, two Releases |
| `publish` | closed tags, failures without effect, success everywhere, retries; of runs that do not overlap, are tags immutable and is `ReleaseBinding` implemented? | two publishers (one with AOT args), one adder, two registries, two Releases, two outputs; one run is started twice; scenes: stable or dev, overlapping or not, builds reproducible or not |
| `resolution` | when can a resolution be empty, and who can fail? | two writers, one reader, clean |
| `resolution_torn` (violation) | is every write of a resolution atomic? | the same without clean |
| `oci` | one artifact, absence, tokens, whole pushes, termination | two operations, two artifacts, all sixteen policies |
| `source` | do Builds, keys and Releases agree in a directory that is saved to at any moment, and where they do not, why? | one publisher, one adder, one builder that runs twice, two files of which one is the schema, two contents, two saves |
| `builder` | cleanup, completeness, termination | one container, one `nix build` |
| `client` | one module per BuildKey, BuildKeys by meaning, only what fits is loaded and what fits is not refused, calls end | two threads with a call each, nine args, eleven worlds, two versions of tvm-ffi |
| `jit_dependencies` (violation) | can a client compile what can be published? | the same |

**Parameters chosen in the initial state.** `scene`, `world`, `source`, `policy` and each call's `offline` are variables that are
set once and never change, so that one run covers stable and dev versions, publishers of the same and of different
Releases, overlapping and serial ones, every kind of registry, every world, and online and offline calls in one cache.

**Bounds.**
- *One key.* Calls for different keys share nothing but `builds/` and `tmp/`; theorems cover any number.
- *Two or three processes.* Every race here is between a process and one that passes it; the third one is the unlocked
  writer beside two lockers, or the one that queues behind a holder that fails.
- *`NParts` = 2.* An entry needs a first and a later file to be half written; the theorems cover any number.
- *Two registries*, so that there is a first and a last, a primary and a secondary, and a partial failure. In `load` the
  primary is second in the file, so that the order of the file and the order of resolution differ.
- *`MaxCalls`, `MaxTries`, `MaxStarts`, `MaxOps`.* Two for one process: it finds what its own first attempt, or
  another's, has left. Processes of `LocalCache`, `ResolutionFile` and `Builder` call for ever.
- *One digest in `resolution`.* An inode is empty or not; which digest it has makes no difference to the properties.
- *Two saves in `source`*, so that a file changes between two readings and back again, or two files do. With two args files and
  one save the run passes too.
- *Two Releases, two contents, two outputs*: the least for a difference to show. In a reproducible scene of
  `publish` a Release has one output (`RetryIsNotRefused` is about those), and no scene both overlaps and is not
  reproducible, which would only add states that no property is about. Releases are symmetric in `Publish`, and the runs that use
  symmetry check only safety properties.

- *Worlds, args.* Each world is there for one verdict: an accepted C++ kernel; CUDA and CuteDSL dependencies that are there,
  too old (4.6.0) or missing; newer than 4.6.1 only as a number (4.10.0); a symbol version above the baseline or beyond
  the host; an absolute path; a publication for another architecture, or with a target that is refused; no GPU; offline. The
  nine args are two pairs that mean the same and five that `normalize_args` refuses, each by another rule. `MaxSafe` = 4 stands
  for 2^53 - 1.
- *One call for each thread in `client`.* What a second call of a thread meets is what the other thread's call meets: a thread
  keeps nothing between calls. The theorems cover any number.
- *`Others` acts on entries of keys in use.* What others do to an entry while no call is at its key is as well done after
  the next call has begun, before its first look.

`CHECK_DEADLOCK FALSE` is set where bounded calls, starts or operations run out, and in `builder`, where a compiler
that never ends and a killed caller may leave nothing to do.

**Fairness.** Weak fairness of every step a call takes by itself, and of nothing else: not of calling, dying, editing,
moving a version, or a compiler's end. It is justified by timeouts: 30 seconds per request (`oci.py`),
`K_DASH_JIT_TIMEOUT` and `K_DASH_AOT_TIMEOUT` (1800 seconds) per compilation, the daemon's client timeout. `flock` is
not assumed fair: a waiter can be passed over for ever by others that fail under the lock, so the property for waiters
(`FilledKeyReturns`) is about keys that have been filled. `Load!Terminates` concerns bounded calls, and so does `ModuleTable!Ends`, where the step that waits for a
lock needs only weak fairness, because a lock that is released again and again is released by calls that are bounded. `OciClient!Ends`
would fail for a client that refreshes its token without limit; `Builder!Ends` for one that waits without a timeout.

## 4. Proofs

TLAPS checks every leaf. No theorem depends on more than the ASSUMEs of the modules and the hypotheses named here. TLC
checked the inductive invariants on the instances of the runs before they were proved (`Inv` and its like are not in the
cfgs: the theorems say more). All but one of the safety properties
that the passing runs check are theorems (see *Only model-checked*).

**LocalCacheProofs**, for any set of callers, keys, any number of parts:
- with maintenance: `TypeCorrect`, `LocksAreOwned`, `WorkIsSerialized`, `EntriesUnmixed`, `EntriesAreNotOverwritten`
  (`NeverOverwritten`); and `LockedCommitsSucceed`,
  if `Lockers = Procs`;
- without maintenance (`~Maintenance`): `EntriesAreWhole`, `ServedEntriesAreWhole`, `NoRepeatedWork`,
  `ImplementsPromise` (the step-by-step refinement of `ContentStore`).

*The argument.* All invariants rest on `TypeInv`. `LockInv` is `LockIsOwned` (whoever holds a lock is between `Acquire`
and its return, with that key) and `LockersHold` (a locker that works holds its key's lock); the
second gives `SingleFlight`. `Unmixed` is inductive: rename is the only step that adds files to an
entry, it adds those of one process, and only where there are none, also among the partial entries that maintenance
leaves. `Reserved` is what `LockedCommitsSucceed` needs: from the `exists` test to the rename the destination of a locker
has no file, because the only writers of that key hold its lock and maintenance only removes. Without maintenance,
`FillInv` says that the temporary directory of a writer holds exactly the first `wrote[p]` parts, all of them at the
rename, and that every entry is whole. `ServedInv` says that a call that has returned has an entry to show. The
refinement then goes action by action: a `Rename` that succeeds is the store's one write of that key, a return is its
answer, everything else stutters.

**SourceTreeProofs**, for any sets of runs, contents, args, any number of files and of saves at any moment: `TypeCorrect`,
`PublishesWhatItReleases` (`PublishedFromItsRelease`), `ReturnsWhatItPackages` (`ReturnedFromWhatItPackaged`), `ReadsOneSchema`
(`SchemasAgree`).

*The argument.* What a publisher or an adder compiles is the layer of the Release it has in hand, and so is what it has made
and pushed, whatever the directory holds by then. Where the code reads a second time, the invariant compares what was read with
the directory: as long as no file was saved since the first reading (which `saved` would show), the directory still has
what was read; so a second reading that differs has such a save behind it. A Build keeps the saves of the run that compiled it,
and a run that finds it in the cache under its own key has packaged the same files, since the key has them in it.

**LoadProofs**, for any callers, any registries in any order with any of them the primary, any Releases and any number of
calls: `TypeCorrect`, `DevLoadsAreCurrent` (`DevIsCurrent`), `MissesAreAuthoritative` (`CompileOnlyAfterMiss`),
`WalksAreExhaustive` (`WalkIsExhaustive`), `DamageIsFinal` (`FailClosed`), `WarmCallsAreServed` (`WarmServes`),
`OfflineAsksNobody` (`OfflineIsSilent`), `ImplementsContract` (`Contract`, the refinement of `KernelGet`), and three that no run states: `FillsAreSerialized` (one caller at a time downloads
or compiles for a BuildKey, and only while there is no entry), `ServedIsValidated` (who is served, is served what passed
validation, whoever fetched it), `BuildsAreKept` (no step replaces an entry).

*The argument.* What is kept of a call (`tried`, `digest`, `authority`, `held`) is related to its place, in nine parts. `Walking`:
the registries before the one now asked were all unreachable. That alone does not say that *all* were, at the end;
`WalkVisitsAll` does: the primary (or the authority) followed by the rest of the list in its order is every registry, for a list of
any length. `Decided` then turns the last answer into `CompileOnlyAfterMiss` and `WalkIsExhaustive`. `Checks` follows bad
content from the answer to `Validate`, and says that only what passed is committed: hence `StoredIsGood`, and `Served`.
`Fills` says that the entry looked up again under the lock stays absent until the holder commits; it needs that the other
callers commit under a lock too, which is their own `Fills`, so all of it is one invariant over all callers, and one
lemma (`OthersKeep`) says that a caller's step leaves the others' parts alone.

The refinement adds one invariant, `NamedInv`: nobody knows a Release, from the resolution file or from an answer, that the version has not
named. It needs `Inv` for the rest. `StepOutcome` sums up all thirteen steps and the death of a call as `KernelGet` sees them:
it goes on, it ends and has changed no Build, it has found a Build, or it has stored its own. In the third case `StoredIsGood` makes the Build one
of `built`, in the fourth `Checks` says that what is stored has passed validation and `Fills` that nothing was there; `Follows` and
`NamedInv` make its Release eligible.

**PublishProofs**, for any publishers and adders, any registries in any order, any number of retries, and every scene:
`TypeCorrect`, `TagsStayClosed` (`TagsAreClosed`), `FailuresAreHarmless` (`FailuresChangeNothing`), `SuccessIsComplete`
(`SuccessIsEverywhere`), `RetriesAreAccepted` (`RetryIsNotRefused`), `TagsStayPut` (`TagsAreImmutable`) and
`BindingIsImplemented` (`Binding`, the refinement of `ReleaseBinding`). There are no hypotheses beyond `PublishAssumption`:
"serial" and "reproducible" are in the properties, as fields of the scene.

*The argument.* `BlobsFirst` is the strengthening of `TagsAreClosed`: in the plan of a run under way, a manifest whose blobs are not in
the registry yet comes after them. `NothingLeftOut` is that of `SuccessIsEverywhere`: every piece a publisher needs is stored
in the registries it is through with, and stored or still in the plan at the present one; it stays true because no run takes
anything away, and only a run with another source moves the version. `AllAgree` says that with one source and one output
per Release every registry holds nothing or just these, so that no check can see a conflict. For runs that do not overlap,
`ChecksHold` says that what a run has found in the registries it has checked is still so when it pushes there: a publisher has
checked all of them, an adder the one it is at. The second needs that one run is on its way at a time, which is part of the invariant.
`OneName` follows: with it all registries that know a version agree, `Bound` is what they say, and every step binds
it once or stutters.

**OciClientProofs**, for any artifacts, any number of operations and all registries: `TypeCorrect`, `PullsAreWhole`
(`PulledIsOneArtifact`), `AbsenceIsReal` (`NotFoundIsAbsent`), `TokensAreRenewed` (`TokenIsRenewed`), `PushesAreWhole`
(`PushedIsWhole`).

*The argument.* `Follows` says which requests an operation makes, in which order; `Reads`, that a pull asks for the blobs of
the manifest it has read, whose artifact was named since it began, and has those before its request; `Uploads`, that the blobs
before a push's request are in the registry. `TokenSuits` is what `TokenIsRenewed` needs: a request that
is sent a second time carries a token that allows it, or something outside the client is to blame (push is not granted, or the
token has expired between the two).

**ResolutionFileProofs**, for any finite set of writers and readers, with clean or without: `TypeCorrect`,
`EmptinessIsExplained` (`TornHasACause`), `FailuresHaveACause` (`FailuresAreShared`).

*The argument.* `TornHasACause` speaks of the file; a rename makes the temporary file the file, so the invariant
says the same of both names (`EmptyHasACause`): each inode that a name has and that is empty is open in a writer that is about
to fill it, or was left by one that died. `Undisturbed`: what a call has seen or made is there for as long as nobody else has crossed
it. What a call that nobody has crossed gives its name is not empty, so an empty file is one of `shared` (`EmptyIsShared`). The
type invariant is not for free here: that `open` finds an unused inode follows by counting (`FreeInode`: two names
and one descriptor for each writer), which is why writers are finite.

**BuilderProofs**, for any number of concurrent builds of either kind: `TypeCorrect`, `NothingStays` (`NothingIsLeft`),
`BuildsAreComplete` (`BuiltIsComplete`).

*The argument.* `Holds` follows the container and the temporary directory through every place at which a step may fail or be interrupted;
`Produced` and `Succeeds` follow the compiler's verdict from `wait` to the return, over `finally`.

**ModuleTableProofs**, for any threads, requests, BuildKeys, any functions for args, target, deliveries and checks:
`TypeCorrect`, `ModulesAreUnique` (`OneModule`), `LoadsAreSerialized`, `KeysAreKept` (a call's BuildKey is that of its args and
of the tvm-ffi it found, whatever is upgraded meanwhile); with the checks of `Validation`, for any `kernel.so`
and any host: `LoadsFit` (`FitDecides`) and `JitRefusesCuda`; and, for any options and any host: `TargetsAgree`.

*The argument.* `OneModule` speaks of what calls have returned, so it is not inductive. Locks first: whoever is at or past
the lock of a path uses the one object in `_module_locks` (`LockIsShared`; the table never replaces one), and who is past
it holds it (`LockIsHeld`): hence only one thread, and it alone ends the hold (`EndLocks`). So the table has no module when
one is loaded (`LoadsAnew`) and never loses one: what was handed out stays there (`HandedIsKept`). The name of a new
module is new, because a call that has named a module is over (`NamesAreUsed`), so two keys never share one (`KeysDiffer`).

`LoadsFit` is about a check and a use with a change in between: others may replace the entry between `Prepare` and
`LoadModule`. `FitInv` says that each file in an entry is that of an accepted Build (`StoredIsAccepted`), and that,
when a thread is about to load, the checks hold of *some* accepted Build of that key, with the tvm-ffi that the process has
imported (`CheckedFirst`). That this is enough is a fact about `Validation`: Builds of one key have one target and need the same
libraries, and one that is accepted with no dependencies declared needs none (`AcceptedRuns`). Conversely a Build that fits
passes the checks (`FittingIsAccepted`). The steps of that are what the code computes: Python's order of tuples is irreflexive and
transitive (`NewerIsTransitive`), so the host's finite set of versions has a newest one (`NewestExists`, by well-foundedness of
strict inclusion), and `MaximumVersion` of it decides whether the loader finds the library's (`MaximumGrows`). It rests on two assumptions
besides `ModuleTableAssumption`. `HostFitAssumption` says that `Shared`, `Checks`, `Opens` and the bound on `Deliver` are the
operators of the code; `Client` satisfies it by definition. `HostAssumption` says of the host what the code takes from it: it provides
finitely many versions, each a sequence of numbers (what is not, is `NoVersion`, the empty one, as the code ignores it), and
libstdc++ and libgcc_s are there together: libstdc++ needs libgcc_s, and tvm-ffi, which the process has imported, needs libstdc++.
The second is needed because `validate_host_cxx_runtime` asks for both of a library that needs only one.

`JitRefusesCuda` gives the finding `jit_dependencies` its exact extent: of the kernels that can be published, a client can compile those that
need no library of `CudaSonames`, and no others. `TargetsAgree` is the part of `KeysAgree` that is about targets: what
`explicit_target` makes of a publisher's options equals what `detect_target` finds if and only if the options are for that host
(`IsFor`). The heart of it is that `normalize_cc`, which splits a text before its last digit, and `detect_target`, which is given
two numbers, agree, for texts of any length and with leading zeros (`ValueUnfolds`). `Value` is a recursive function over
the positions of the text; that it exists and is the only one is proved by induction in its first-order form (`NatSetInduction`: a set of
numbers that has 0 and every successor has all, from the well-foundedness of strict inclusion). Its hypotheses are
`IsOptions` and `IsHost` (decimal digits; one `nvcc`, one PyTorch, one GPU 0; a minor compute capability of one digit), which
`ClientAssumption` states of every world, so TLC evaluates them in `client`, and that both calls end without an error.

**Only model-checked.** `KeysAgree` as a whole, because its other part rests on RECURSIVE operators over trees (the JSON values and schemas of
`BuildArgs`), which the prover does not take; all liveness (`FilledKeyReturns`, `Terminates` of `Load`, `Ends` of `OciClient`,
`Builder` and `ModuleTable`), which needs ENABLED; the three violations.

## 5. Findings

Three runs end in a violation; the quotations are in `PROJECT.json`.

1. `cache_lost_race`: the loser of an unlocked commit gets `OSError(ENOTEMPTY)`; `cache.py:84` ignores only
   `FileExistsError`. `api.get` commits Releases, and `local_build` Builds, without the lock.
2. `resolution_torn`: all writers of a version share `<version>.tmp`; one renames what another has just truncated. If that one
   dies, the empty file stays and every later call fails in `json.loads`, before it would write; only `publish_release` or `clean` ends that. `TornHasACause` is the strongest form of the
   promise that does hold.
3. `jit_dependencies`: Local JIT validates its `kernel.so` against a config with no host dependencies
   (`runtime.py:115`, `:140`), so one that needs `libcudart.so.12` or `libcute_dsl_runtime.so` is refused, although the
   repository's templates declare such dependencies (`template_data/cpp-build.nix`, `cutedsl-build.nix`) and publishing infers
   them. A client that misses the published Build cannot compile it.

Other places where documents and code differ, or where the code gives up more than it needs to. They are in the models
as they are in the code, and no run claims them:

- *A half-removed entry is not repaired.* `prune` or `clean` that dies half way leaves a directory without some of its files;
  `get_build` misses, the caller downloads or compiles under the lock, and `commit_build` returns the directory as it is
  (`cache.py:75`), in every later call too, so `api.get` hands out a path that may not have a `kernel.so`. The states are in
  `cache_maintenance`; `NeverOverwritten` says what does hold of them, and `ServedIsWhole` is for calls while nothing is pruned.
- *`clean` removes temporary directories in use* (`cache.py:122`); `docs/design/local-cache.md:37` has
  maintenance remove only those without an active lock.
- *Waiters do not share a failure.* `docs/design/local-cache.md:39` says they get the holder's; in `runtime.py:95`
  each takes the lock and tries again.
- *The second of two renamers of a resolution* finds no temporary file and fails with `FileNotFoundError`
  (`cache.py:110`).
- *Source from one registry only* (`runtime.py:129`): once a registry has answered that it has no Build, an access failure there
  ends the call; `docs/design/registry-configuration.md:58` allows others. *The Release from the resolving registry only* (`api.py:49`): ADR-0015 and ADR-0033 speak of any registry.
- *Check and bind are separate requests* (`publish.py:175`): two publishers at the same time can bind a version to two
  Releases, against ADR-0011. Hence `TagsAreImmutable` and `Binding` are checked for runs that follow one another.
- *The primary's dev tag is moved in its turn* (`publish.py:186`), while `docs/design/k-dash-v1-design.md:180` and
  ADR-0015 have it moved last.
- *`publish_build` works registry by registry* (`publish.py:252`): a conflict at the second leaves the first changed.
- *`local_build` reads the directory twice* (`publish.py:98`): it packages the directory for its digest and then reads it
  again for the compiler, so a save in between puts other sources under that BuildKey, for later calls too.
  `ReturnedFromWhatItPackaged` says that nothing else does; what is published is not affected (`PublishedFromItsRelease`).
- *The table of modules is asked last* (`api.py:64`): `load` goes to the registries or the disk before it looks whether the
  module is there, while `docs/design/k-dash-v1-design.md:129` has the in-process cache first. A call for a loaded module
  can fail.
- *Nothing compares declared dependencies with DT_NEEDED* the other way round (`validation.py:173`): declared ones that the
  library does not need are demanded of the host.
- *The GLIBC of the host is not asked* (`validation.py:245`), nor are symbol versions that are not numbers; `dlopen` refuses
  those. The worlds' hosts and baselines leave only that verdict to it.
- *A boolean subschema* in `properties` or `items` makes `_apply_defaults` raise `TypeError` or `AttributeError`
  (`canonical.py:43`, `:48`); schemas of the model are objects.
- *The schema is read three times* (`publish.py:132`, `project.py:155`, `:117`): a save in between gives a Release a config that
  differs from its package, or a Build a key that no client computes; `SchemasAgree` says that only such a save does.
- *docker_aot takes `kernel.so` from an output with other files* (`builder.py:182`), which
  `docs/design/kernel-project-contract.md:56-57` forbids and `local_jit` and `nix_aot` refuse (`builder.py:120`, `:148`).
  `BuiltIsComplete` says so of those two, and of all three that the compiler ended well and left a `kernel.so`.
- *Exceptions outside the hierarchy*: a token answer that is not JSON (`oci.py:176`), and `artifact.py:93`, where
  `ContractError` is not imported, so that a manifest that is not JSON raises `NameError`. Failover does not catch
  them. They are the outcome "raw" of `OciClient` and of `Load`.

## 6. Not modelled, and the plan

Simplifications inside the models, none of which a property turns on:
- The temporary directory of a process that died is dropped at once in `LocalCache`: its name is never taken again, and only a
  `clean` that removes all of `tmp/` would come across it.
- `Validation` takes the file that libstdc++ is mapped from to be the one that was mapped, and to be there (if it is not,
  `validation.py:238-243` raises, so the call fails where the model's may succeed).
- `Publish` has the errors of a registry's answer to a check, damaged ones too, as access errors; only a push whose answer names another
  digest (`publish.py:190`, `:194`, `:257`) is an error of its own, since by then something has changed.
- In `Load` a damaged answer is always noticed. The one that is not (a manifest asked for by tag, without `Docker-Content-Digest`,
  `oci.py:197-200`) names blobs or digests that are not there, so the next request fails instead; `OciClient` has it.

Left out for good: templates, Nix expressions, examples, CI and argument parsing (no state that changes); archive bytes
(opaque values); `size()` (a number that is printed); `config.py` (one pass over one document, whose outcome the modules
assume); credential resolution in `oci.py` (sequential reading of files and one helper process, whose failure is an access
failure like others); the ignore rules of `project.py` (what belongs to a package is a set of files).

Done, in this order: the cache (entries, then resolutions), load, publication, the OCI client, the source tree, the
builders; args, target, validation and the module table, composed in `Client`; proofs for the cache, the source tree, the
module table, publication, load, the OCI client, the resolution file, the builders, validation and targets; `KernelGet` and its
refinement.

Next, models: `prune` by size and age (which entries go, and that it ends below the limit).

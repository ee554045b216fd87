---------------------------- MODULE ModuleTable -----------------------------
(***************************************************************************)
(* The modules of one process: api.load, called by several threads, over   *)
(* entries of the local cache that other processes of the user remove and  *)
(* fill, while tvm-ffi may be upgraded under the process.                  *)
(*                                                                         *)
(* The world of a behaviour (the host, the kernel, what has been           *)
(* published) is chosen once.  What the functions of args, target and ELF  *)
(* say of it are the functions among the constants; LocalCache has the     *)
(* filling of an entry in detail, Load the way to a Build.                 *)
(***************************************************************************)
EXTENDS Naturals, FiniteSets

CONSTANTS
  Threads,
  Worlds,
  Requests,         \* the args that a caller may give
  Versions,         \* the versions of tvm-ffi that may be installed: numbers, that grow
  Keys,             \* BuildKeys
  Builds,           \* what may be stored under them
  KeyOf,            \* KeyOf[w][q][v]: the BuildKey of request q where tvm-ffi v is
                    \* installed, or None if q or the host is refused
  Deliver,          \* Deliver[w][k]: what download or Local JIT may commit for k
  Shared,           \* Shared[w][k]: what other processes may have committed for k
  Checks,           \* Checks[w][v]: what the runtime checks accept where v is imported
  Opens,            \* Opens[w]: those whose kernel.so dlopen accepts
  MaxCalls,         \* bound: MaxCalls[t] calls of thread t
  None

\* A module object is named by the call that made it, a lock object of a path
\* by the thread that made it.
Modules == Threads \X Nat

ASSUME ModuleTableAssumption ==
  /\ MaxCalls \in [Threads -> Nat]
  /\ Versions \subseteq Nat
  /\ None \notin Keys /\ None \notin Builds /\ None \notin Versions
  /\ None \notin Requests /\ None \notin Threads /\ None \notin Modules
  /\ KeyOf \in [Worlds -> [Requests -> [Versions -> Keys \cup {None}]]]
  /\ Deliver \in [Worlds -> [Keys -> SUBSET Builds]]
  /\ Shared \in [Worlds -> [Keys -> SUBSET Builds]]
  /\ Checks \in [Worlds -> [Versions -> SUBSET Builds]]
  /\ Opens \in [Worlds -> SUBSET Builds]

VARIABLES
  world,      \* the world; never changes
  installed,  \* importlib.metadata's version of tvm-ffi
  imported,   \* tvm_ffi.__version__, once a call has imported it
  entry,      \* entry[k]: None, or the files of builds/<k>/
  locks,      \* _module_locks
  holder,     \* holder[k][u]: who holds the lock object that u made for k
  modules,    \* _modules
  pc,         \* where each thread is
  calls,      \* how many calls it has made
  request,    \* what it asks for, and the tvm-ffi it has found installed, until
              \* it has its path
  key,        \* the BuildKey of that
  lock,       \* the lock object it uses
  error,      \* why its last call failed
  handed      \* history: what calls have returned, <<BuildKey, module>>

vars == <<world, installed, imported, entry, locks, holder, modules, pc, calls, request, key, lock,
          error, handed>>
process == <<imported, locks, holder, modules>>
call == <<calls, request, key>>

Files == [config : Builds \cup {None}, so : Builds \cup {None}]
Has(e, file) == IF e = None THEN FALSE ELSE e[file] # None
Whole(e) == Has(e, "config") /\ Has(e, "so")
Phases == {"idle", "get", "guard", "lock", "table", "load"}
Errors == {"none", "contract", "refused", "unavailable", "missing", "unfit", "dlopen"}

TypeOK ==
  /\ world \in Worlds
  /\ installed \in Versions
  /\ imported \in Versions \cup {None}
  /\ entry \in [Keys -> Files \cup {None}]
  /\ locks \in [Keys -> Threads \cup {None}]
  /\ holder \in [Keys -> [Threads -> Threads \cup {None}]]
  /\ modules \in [Keys -> Modules \cup {None}]
  /\ pc \in [Threads -> Phases]
  /\ calls \in [Threads -> Nat]
  /\ request \in [Threads -> (Requests \X Versions) \cup {None}]
  /\ key \in [Threads -> Keys \cup {None}]
  /\ lock \in [Threads -> Threads \cup {None}]
  /\ error \in [Threads -> Errors]
  /\ handed \subseteq Keys \X Modules

Init ==
  /\ world \in Worlds
  /\ installed \in Versions
  /\ imported = None
  /\ entry = [k \in Keys |-> None]
  /\ locks = [k \in Keys |-> None]
  /\ holder = [k \in Keys |-> [t \in Threads |-> None]]
  /\ modules = [k \in Keys |-> None]
  /\ pc = [t \in Threads |-> "idle"]
  /\ calls = [t \in Threads |-> 0]
  /\ request = [t \in Threads |-> None]
  /\ key = [t \in Threads |-> None]
  /\ lock = [t \in Threads |-> None]
  /\ error = [t \in Threads |-> "none"]
  /\ handed = {}

-----------------------------------------------------------------------------
(* Parts of api.load.                                                      *)

Goto(t, l) == pc' = [pc EXCEPT ![t] = l]

\* The end of `with lock`, if the call is in it.
Release(t) ==
  holder' = IF lock[t] = None THEN holder ELSE [holder EXCEPT ![key[t]][lock[t]] = None]

\* The call is over, and its variables are gone.
End(t, e) ==
  /\ Goto(t, "idle")
  /\ error' = [error EXCEPT ![t] = e]
  /\ request' = [request EXCEPT ![t] = None]
  /\ key' = [key EXCEPT ![t] = None]
  /\ lock' = [lock EXCEPT ![t] = None]
  /\ UNCHANGED calls

\* Mutant: an exception leaves the lock behind.
FailLocked(t, e) == End(t, e) /\ UNCHANGED <<holder, locks, modules, entry, handed>>

\* An exception.
Fail(t, e) == End(t, e) /\ Release(t) /\ UNCHANGED <<locks, modules, entry, handed>>

\* return _modules[key]
Return(t) ==
  /\ handed' = handed \cup {<<key[t], modules'[key[t]]>>}
  /\ End(t, "none")
  /\ Release(t)

-----------------------------------------------------------------------------
(* api.load, step by step.                                                 *)

\* resolve_release and the Release, one of which may not be had; then
\* normalize_args, detect_target and build_key.
Call(t) ==
  /\ pc[t] = "idle"
  /\ calls[t] < MaxCalls[t]
  /\ calls' = [calls EXCEPT ![t] = @ + 1]
  /\ \E q \in Requests :
       LET k == KeyOf[world][q][installed] IN
       \/ /\ k # None
          /\ error' = [error EXCEPT ![t] = "none"]
          /\ request' = [request EXCEPT ![t] = <<q, installed>>]
          /\ key' = [key EXCEPT ![t] = k]
          /\ Goto(t, "get")
       \/ /\ error' \in {[error EXCEPT ![t] = e] :
                          e \in {"unavailable"} \cup (IF k = None THEN {"contract"} ELSE {})}
          /\ UNCHANGED <<pc, request, key>>
  /\ UNCHANGED <<process, entry, lock, handed>>

\* The rest of materialize, up to the path it returns.  An entry that is only
\* partly there is a miss, but commit_build leaves it as it is; a whole one may
\* be gone, or not be readable, by the time its config is read.
Get(t) ==
  LET k == key[t] IN
  /\ pc[t] = "get"
  /\ UNCHANGED imported
  /\ \/ /\ \/ Whole(entry[k]) /\ UNCHANGED entry
           \/ /\ ~Whole(entry[k])
              /\ \E b \in Deliver[world][k] :
                   entry' = [entry EXCEPT ![k] =
                               IF @ = None THEN [config |-> b, so |-> b] ELSE @]
        /\ Goto(t, "guard")
        /\ request' = [request EXCEPT ![t] = None]
        /\ UNCHANGED <<locks, holder, modules, calls, key, lock, error, handed>>
     \/ ~Whole(entry[k]) /\ Deliver[world][k] = {} /\ Fail(t, "refused")
     \/ Fail(t, "unavailable")

\* Mutant: every call has a lock of its own.
GuardFresh(t) ==
  /\ pc[t] = "guard"
  /\ locks' = [locks EXCEPT ![key[t]] = t]
  /\ lock' = [lock EXCEPT ![t] = t]
  /\ Goto(t, "lock")
  /\ UNCHANGED <<imported, holder, modules, entry, call, error, handed>>

\* with _guard: _module_locks.setdefault(...)
Guard(t) ==
  /\ pc[t] = "guard"
  /\ locks' = [locks EXCEPT ![key[t]] = IF @ = None THEN t ELSE @]
  /\ lock' = [lock EXCEPT ![t] = locks'[key[t]]]
  /\ Goto(t, "lock")
  /\ UNCHANGED <<imported, holder, modules, entry, call, error, handed>>

\* with lock:
Acquire(t) ==
  /\ pc[t] = "lock"
  /\ holder[key[t]][lock[t]] = None
  /\ holder' = [holder EXCEPT ![key[t]][lock[t]] = t]
  /\ Goto(t, "table")
  /\ UNCHANGED <<imported, locks, modules, entry, call, lock, error, handed>>

\* The module is there.
Reuse(t) ==
  /\ pc[t] = "table"
  /\ modules[key[t]] # None
  /\ UNCHANGED <<imported, locks, modules, entry>>
  /\ Return(t)

\* Mutant: config.json is compared with the installed version of tvm-ffi.
PrepareInstalled(t) ==
  LET e == entry[key[t]] IN
  /\ pc[t] = "table"
  /\ modules[key[t]] = None
  /\ imported' = IF imported = None THEN installed ELSE imported
  /\ Has(e, "config")
  /\ e.config \in Checks[world][installed]
  /\ Goto(t, "load")
  /\ UNCHANGED <<locks, holder, modules, entry, call, lock, error, handed>>

\* import tvm_ffi, which only the first time looks at what is installed; then
\* config.json is read and compared with the host.
Prepare(t) ==
  LET e == entry[key[t]]
      now == IF imported = None THEN installed ELSE imported
  IN
  /\ pc[t] = "table"
  /\ modules[key[t]] = None
  /\ imported' = now
  /\ \/ /\ Has(e, "config") /\ e.config \in Checks[world][now]
        /\ Goto(t, "load")
        /\ UNCHANGED <<locks, holder, modules, entry, call, lock, error, handed>>
     \/ Has(e, "config") /\ e.config \notin Checks[world][now] /\ Fail(t, "unfit")
     \/ ~Has(e, "config") /\ Fail(t, "missing")

\* tvm_ffi.load_module
LoadModule(t) ==
  LET e == entry[key[t]] IN
  /\ pc[t] = "load"
  /\ UNCHANGED imported
  /\ \/ /\ Has(e, "so") /\ e.so \in Opens[world]
        /\ modules' = [modules EXCEPT ![key[t]] = <<t, calls[t]>>]
        /\ UNCHANGED <<locks, entry>>
        /\ Return(t)
     \/ Has(e, "so") /\ e.so \notin Opens[world] /\ Fail(t, "dlopen")
     \/ ~Has(e, "so") /\ Fail(t, "missing")

Step(t) ==
  \/ Get(t) \/ Guard(t) \/ Acquire(t) \/ Reuse(t) \/ Prepare(t) \/ LoadModule(t)

-----------------------------------------------------------------------------
(* Other processes.                                                        *)

\* prune or clean: a file of an entry, then its directory.
Unlink(k) ==
  /\ entry[k] # None
  /\ \/ entry[k].config # None /\ entry' = [entry EXCEPT ![k].config = None]
     \/ entry[k].so # None /\ entry' = [entry EXCEPT ![k].so = None]

RmDir(k) ==
  /\ entry[k] = [config |-> None, so |-> None]
  /\ entry' = [entry EXCEPT ![k] = None]

\* Another process loads or builds the same.
Fill(k) ==
  /\ entry[k] = None
  /\ \E b \in Shared[world][k] : entry' = [entry EXCEPT ![k] = [config |-> b, so |-> b]]

\* What they do to an entry while no call needs it, they may as well do when the
\* next call has begun.
Others(k) ==
  /\ \E t \in Threads : key[t] = k
  /\ Unlink(k) \/ RmDir(k) \/ Fill(k)
  /\ UNCHANGED <<installed, process, call, pc, lock, error, handed>>

\* pip install --upgrade
Upgrade ==
  /\ installed' \in {v \in Versions : v > installed}
  /\ UNCHANGED <<process, entry, call, pc, lock, error, handed>>

Next ==
  /\ UNCHANGED world
  /\ \/ \E t \in Threads : UNCHANGED installed /\ (Call(t) \/ Step(t))
     \/ \E k \in Keys : Others(k)
     \/ Upgrade

Spec == Init /\ [][Next]_vars /\ \A t \in Threads : WF_vars(UNCHANGED <<world, installed>> /\ Step(t))

-----------------------------------------------------------------------------
(* Properties.                                                             *)

\* In one process a BuildKey is one module, and a module one BuildKey, whoever
\* loads it and whatever happens to the entry on the disk
\* (docs/design/python-api.md:36, ADR-0052).
OneModule ==
  \A x, y \in handed : x[1] = y[1] <=> x[2] = y[2]

\* A call ends, also after calls that have failed under the lock of its path.
Ends == \A t \in Threads : pc[t] # "idle" ~> pc[t] = "idle"
=============================================================================

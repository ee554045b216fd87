------------------------- MODULE ModuleTableProofs -------------------------
(***************************************************************************)
(* ModuleTable keeps its types, and one module for each BuildKey, for all  *)
(* threads, calls, worlds and whatever happens to the cache and to the     *)
(* installed tvm-ffi; and, by HostFit, it loads what fits and refuses what *)
(* does not, for all hosts and all kernel.so.  And of Target: publishers   *)
(* and clients spell a target alike.                                       *)
(***************************************************************************)
EXTENDS HostFit, Target, FiniteSetTheorems, TLAPS

(***************************************************************************)
(* The invariant.  All who are at the lock of a path use the one object of *)
(* the table of locks, and who is past it holds it: so a module is not yet *)
(* there when it is loaded, what has been handed out stays in the table,   *)
(* and the call that names a new module has named no other.                *)
(***************************************************************************)

Keyed == \A t \in Threads : pc[t] # "idle" => key[t] \in Keys

NoLockYet == \A t \in Threads : pc[t] \in {"idle", "get", "guard"} => lock[t] = None

LockIsShared ==
  \A t \in Threads : pc[t] \in {"lock", "table", "load"} =>
    locks[key[t]] # None /\ lock[t] = locks[key[t]]

LockIsHeld ==
  \A t \in Threads : pc[t] \in {"table", "load"} => holder[key[t]][lock[t]] = t

LoadsAnew == \A t \in Threads : pc[t] = "load" => modules[key[t]] = None

HandedIsKept == \A x \in handed : modules[x[1]] = x[2]

NamesAreUsed ==
  \A k \in Keys : modules[k] # None =>
    /\ modules[k][2] <= calls[modules[k][1]]
    /\ modules[k][2] = calls[modules[k][1]] => pc[modules[k][1]] = "idle"

KeysDiffer ==
  \A k, l \in Keys : modules[k] # None /\ modules[k] = modules[l] => k = l

Inv ==
  /\ TypeOK
  /\ Keyed
  /\ NoLockYet
  /\ LockIsShared
  /\ LockIsHeld
  /\ LoadsAnew
  /\ HandedIsKept
  /\ NamesAreUsed
  /\ KeysDiffer

-----------------------------------------------------------------------------
(* Types.                                                                  *)

\* An exception keeps the types.
LEMMA FailTypes ==
  ASSUME TypeOK, Keyed, NEW t \in Threads, pc[t] # "idle", NEW e \in Errors, Fail(t, e),
         imported' \in Versions \cup {None}, UNCHANGED <<world, installed>>
  PROVE  TypeOK' /\ Keyed'
<1>1. holder' \in [Keys -> [Threads -> Threads \cup {None}]]
  <2>1. key[t] \in Keys
    BY DEF Keyed
  <2>2. lock[t] \in Threads \cup {None}
    BY DEF TypeOK
  <2>3. QED
    BY <2>1, <2>2 DEF TypeOK, Fail, Release
<1>2. QED
  BY <1>1 DEF TypeOK, Keyed, Fail, End, Goto, Phases

\* And so does the return of a module.
LEMMA ReturnTypes ==
  ASSUME TypeOK, Keyed, NEW t \in Threads, pc[t] # "idle", Return(t),
         modules' \in [Keys -> Modules \cup {None}], modules'[key[t]] \in Modules,
         UNCHANGED <<world, installed, imported, locks, entry>>
  PROVE  TypeOK' /\ Keyed'
<1>1. key[t] \in Keys
  BY DEF Keyed
<1>2. holder' \in [Keys -> [Threads -> Threads \cup {None}]]
  <2>1. lock[t] \in Threads \cup {None}
    BY DEF TypeOK
  <2>2. QED
    BY <1>1, <2>1 DEF TypeOK, Return, Release
<1>3. handed' \subseteq Keys \X Modules
  BY <1>1 DEF TypeOK, Return
<1>4. QED
  BY <1>2, <1>3 DEF TypeOK, Keyed, Return, End, Goto, Phases, Errors

\* A step of a call keeps the types.
LEMMA StepTypes ==
  ASSUME TypeOK, Keyed, NEW t \in Threads, UNCHANGED <<world, installed>>, Call(t) \/ Step(t)
  PROVE  TypeOK' /\ Keyed'
<1>k. pc[t] # "idle" => key[t] \in Keys
  BY DEF Keyed
<1>1. CASE Call(t)
  <2>1. calls' \in [Threads -> Nat]
    BY <1>1 DEF Call, TypeOK
  <2>2. UNCHANGED <<imported, locks, holder, modules, entry, lock, handed>>
    BY <1>1 DEF Call, process
  <2>3. PICK q \in Requests :
          LET k == KeyOf[world][q][installed] IN
          \/ /\ k # None
             /\ error' = [error EXCEPT ![t] = "none"]
             /\ request' = [request EXCEPT ![t] = <<q, installed>>]
             /\ key' = [key EXCEPT ![t] = k]
             /\ Goto(t, "get")
          \/ /\ \E e \in {"unavailable", "contract"} : error' = [error EXCEPT ![t] = e]
             /\ UNCHANGED <<pc, request, key>>
    BY <1>1 DEF Call
  <2>4. KeyOf[world][q][installed] \in Keys \cup {None}
    BY ModuleTableAssumption DEF TypeOK
  <2>5. CASE UNCHANGED <<pc, request, key>>
    <3>1. error' \in [Threads -> Errors]
      BY <2>3, <2>5 DEF TypeOK, Goto, Errors
    <3>2. QED
      BY <2>1, <2>2, <2>5, <3>1 DEF TypeOK, Keyed
  <2>6. CASE ~UNCHANGED <<pc, request, key>>
    <3>1. key' \in [Threads -> Keys \cup {None}] /\ key'[t] \in Keys
      BY <2>3, <2>4, <2>6 DEF TypeOK
    <3>2. request' \in [Threads -> (Requests \X Versions) \cup {None}]
      BY <2>3, <2>6 DEF TypeOK
    <3>3. pc' \in [Threads -> Phases] /\ error' \in [Threads -> Errors]
      BY <2>3, <2>6 DEF TypeOK, Goto, Phases, Errors
    <3>4. Keyed'
      BY <2>3, <2>6, <3>1 DEF TypeOK, Keyed, Goto
    <3>5. QED
      BY <2>1, <2>2, <3>1, <3>2, <3>3, <3>4 DEF TypeOK
  <2>7. QED
    BY <2>5, <2>6
<1>2. CASE Get(t)
  <2>1. CASE \E e \in {"refused", "unavailable"} : Fail(t, e)
    BY <1>2, <2>1, FailTypes DEF Get, Errors, TypeOK
  <2>2. CASE ~\E e \in {"refused", "unavailable"} : Fail(t, e)
    <3>1. /\ pc[t] = "get"
          /\ Goto(t, "guard")
          /\ request' = [request EXCEPT ![t] = None]
          /\ UNCHANGED <<imported, locks, holder, modules, calls, key, lock, error, handed>>
      BY <1>2, <2>2 DEF Get
    <3>2. UNCHANGED entry \/ \E b \in Deliver[world][key[t]] :
            entry' = [entry EXCEPT ![key[t]] = IF @ = None THEN [config |-> b, so |-> b] ELSE @]
      BY <1>2, <2>2 DEF Get
    <3>3. Deliver[world][key[t]] \subseteq Builds
      BY <1>k, <3>1, ModuleTableAssumption DEF TypeOK
    <3>4. entry' \in [Keys -> Files \cup {None}]
      BY <3>2, <3>3 DEF TypeOK, Files
    <3>5. QED
      BY <3>1, <3>4, <1>k DEF TypeOK, Keyed, Goto, Phases
  <2>3. QED
    BY <2>1, <2>2
<1>3. CASE Guard(t)
  BY <1>3 DEF Guard, TypeOK, Keyed, Goto, Phases, call
<1>4. CASE Acquire(t)
  BY <1>4 DEF Acquire, TypeOK, Keyed, Goto, Phases, call
<1>5. CASE Reuse(t)
  <2>1. modules[key[t]] \in Modules
    BY <1>5, <1>k DEF Reuse, TypeOK
  <2>2. QED
    BY <1>5, <2>1, ReturnTypes DEF Reuse, TypeOK
<1>6. CASE Prepare(t)
  <2>1. imported' \in Versions \cup {None}
    BY <1>6 DEF Prepare, TypeOK
  <2>2. CASE \E e \in {"unfit", "missing"} : Fail(t, e)
    BY <1>6, <2>1, <2>2, FailTypes DEF Prepare, Errors
  <2>3. CASE ~\E e \in {"unfit", "missing"} : Fail(t, e)
    <3>1. /\ pc[t] = "table"
          /\ Goto(t, "load")
          /\ UNCHANGED <<locks, holder, modules, entry, calls, request, key, lock, error, handed>>
      BY <1>6, <2>3 DEF Prepare, call
    <3>2. QED
      BY <2>1, <3>1 DEF TypeOK, Keyed, Goto, Phases
  <2>4. QED
    BY <2>2, <2>3
<1>7. CASE LoadModule(t)
  <2>1. CASE \E e \in {"dlopen", "missing"} : Fail(t, e)
    BY <1>7, <2>1, FailTypes DEF LoadModule, Errors, TypeOK
  <2>2. CASE ~\E e \in {"dlopen", "missing"} : Fail(t, e)
    <3>1. /\ pc[t] = "load"
          /\ modules' = [modules EXCEPT ![key[t]] = <<t, calls[t]>>]
          /\ UNCHANGED <<imported, locks, entry>>
          /\ Return(t)
      BY <1>7, <2>2 DEF LoadModule
    <3>2. <<t, calls[t]>> \in Modules
      BY DEF TypeOK, Modules
    <3>3. modules' \in [Keys -> Modules \cup {None}] /\ modules'[key[t]] \in Modules
      BY <1>k, <3>1, <3>2 DEF TypeOK
    <3>4. QED
      BY <3>1, <3>3, ReturnTypes
  <2>3. QED
    BY <2>1, <2>2
<1>8. QED
  BY <1>1, <1>2, <1>3, <1>4, <1>5, <1>6, <1>7 DEF Step

\* Other processes and pip keep them, too.
LEMMA OthersTypes ==
  ASSUME TypeOK, Keyed, UNCHANGED world, Upgrade \/ \E k \in Keys : Others(k)
  PROVE  TypeOK' /\ Keyed'
<1>1. CASE Upgrade
  BY <1>1 DEF Upgrade, TypeOK, Keyed, process, call
<1>2. ASSUME NEW k \in Keys, Others(k) PROVE TypeOK' /\ Keyed'
  <2>1. UNCHANGED <<world, installed, imported, locks, holder, modules, calls, request, key, pc,
                    lock, error, handed>>
    BY <1>2 DEF Others, process, call
  <2>2. entry' \in [Keys -> Files \cup {None}]
    <3>1. CASE Unlink(k)
      <4>1. entry[k] \in Files
        BY <3>1 DEF Unlink, TypeOK
      <4>2. \/ entry' = [entry EXCEPT ![k] = [config |-> None, so |-> entry[k].so]]
            \/ entry' = [entry EXCEPT ![k] = [config |-> entry[k].config, so |-> None]]
        BY <3>1, <4>1 DEF Unlink, TypeOK, Files
      <4>3. QED
        BY <4>1, <4>2 DEF TypeOK, Files
    <3>2. CASE RmDir(k)
      BY <3>2 DEF RmDir, TypeOK
    <3>3. CASE Fill(k)
      <4>1. Shared[world][k] \subseteq Builds
        BY ModuleTableAssumption DEF TypeOK
      <4>2. QED
        BY <3>3, <4>1 DEF Fill, TypeOK, Files
    <3>4. QED
      BY <1>2, <3>1, <3>2, <3>3 DEF Others
  <2>3. QED
    BY <2>1, <2>2 DEF TypeOK, Keyed
<1>3. QED
  BY <1>1, <1>2

-----------------------------------------------------------------------------
(* Locks.                                                                  *)

LocksInv == NoLockYet /\ LockIsShared /\ LockIsHeld

\* Only who holds a lock releases it.
LEMMA EndLocks ==
  ASSUME TypeOK, Keyed, LocksInv, NEW t \in Threads, NEW e,
         pc[t] \in {"get", "table", "load"},
         End(t, e), Release(t), UNCHANGED locks
  PROVE  LocksInv'
<1> USE ModuleTableAssumption DEF TypeOK
<1>1. pc' = [pc EXCEPT ![t] = "idle"] /\ key' = [key EXCEPT ![t] = None]
      /\ lock' = [lock EXCEPT ![t] = None]
  BY DEF End, Goto
<1>2. NoLockYet' /\ LockIsShared'
  BY <1>1 DEF LocksInv, NoLockYet, LockIsShared
<1>3. ASSUME NEW u \in Threads, pc'[u] \in {"table", "load"}
      PROVE  holder'[key'[u]][lock'[u]] = u
  <2>1. u # t /\ pc[u] = pc'[u] /\ key'[u] = key[u] /\ lock'[u] = lock[u]
    BY <1>1, <1>3
  <2>2. holder[key[u]][lock[u]] = u /\ key[u] \in Keys /\ lock[u] \in Threads
    BY <2>1, <1>3 DEF LocksInv, LockIsShared, LockIsHeld, Keyed
  <2>3. CASE lock[t] = None
    BY <2>1, <2>2, <2>3 DEF Release
  <2>4. CASE lock[t] # None
    <3>1. holder' = [holder EXCEPT ![key[t]][lock[t]] = None]
      BY <2>4 DEF Release
    <3>2. key[t] \in Keys /\ lock[t] \in Threads
      BY <2>4 DEF Keyed
    <3>3. ~(key[u] = key[t] /\ lock[u] = lock[t])
      <4>1. pc[t] \in {"table", "load"}
        BY <2>4 DEF LocksInv, NoLockYet
      <4>2. holder[key[t]][lock[t]] = t
        BY <4>1 DEF LocksInv, LockIsHeld
      <4>3. QED
        BY <2>1, <2>2, <4>2
    <3>4. QED
      BY <2>1, <2>2, <3>1, <3>2, <3>3
  <2>5. QED
    BY <2>3, <2>4
<1>4. QED
  BY <1>2, <1>3 DEF LocksInv, LockIsHeld

\* A step of a call keeps what is said of locks.
LEMMA StepLocks ==
  ASSUME TypeOK, Keyed, LocksInv, NEW t \in Threads, Call(t) \/ Step(t)
  PROVE  LocksInv'
<1> USE ModuleTableAssumption DEF TypeOK
<1>1. CASE Call(t)
  <2>1. UNCHANGED <<locks, holder, lock>>
    BY <1>1 DEF Call, process
  <2>2. \A u \in Threads : u # t => pc'[u] = pc[u] /\ key'[u] = key[u]
    BY <1>1 DEF Call, Goto
  <2>3. pc[t] = "idle" /\ pc'[t] \in {"idle", "get"}
    BY <1>1 DEF Call, Goto
  <2>4. QED
    BY <2>1, <2>2, <2>3 DEF LocksInv, NoLockYet, LockIsShared, LockIsHeld
<1>2. CASE Get(t)
  <2>1. CASE \E e \in {"refused", "unavailable"} : Fail(t, e)
    BY <1>2, <2>1, EndLocks DEF Get, Fail
  <2>2. CASE ~\E e \in {"refused", "unavailable"} : Fail(t, e)
    <3>1. pc[t] = "get" /\ Goto(t, "guard") /\ UNCHANGED <<locks, holder, key, lock>>
      BY <1>2, <2>2 DEF Get
    <3>2. QED
      BY <3>1 DEF Goto, LocksInv, NoLockYet, LockIsShared, LockIsHeld
  <2>3. QED
    BY <2>1, <2>2
<1>3. CASE Guard(t)
  <2>1. /\ pc[t] = "guard" /\ key[t] \in Keys
        /\ locks' = [locks EXCEPT ![key[t]] = IF @ = None THEN t ELSE @]
        /\ lock' = [lock EXCEPT ![t] = locks'[key[t]]]
        /\ pc' = [pc EXCEPT ![t] = "lock"]
        /\ UNCHANGED <<holder, key>>
    BY <1>3 DEF Guard, Goto, call, Keyed
  <2>2. \A k \in Keys : locks[k] # None => locks'[k] = locks[k]
    BY <2>1
  <2>3. locks'[key[t]] # None /\ lock'[t] = locks'[key[t]]
    BY <2>1
  <2>4. NoLockYet'
    BY <2>1 DEF LocksInv, NoLockYet
  <2>5. LockIsShared'
    BY <2>1, <2>2, <2>3 DEF LocksInv, LockIsShared, Keyed
  <2>6. LockIsHeld'
    BY <2>1 DEF LocksInv, LockIsHeld
  <2>7. QED
    BY <2>4, <2>5, <2>6 DEF LocksInv
<1>4. CASE Acquire(t)
  <2>1. /\ pc[t] = "lock" /\ key[t] \in Keys /\ holder[key[t]][lock[t]] = None
        /\ holder' = [holder EXCEPT ![key[t]][lock[t]] = t]
        /\ pc' = [pc EXCEPT ![t] = "table"]
        /\ UNCHANGED <<locks, key, lock>>
    BY <1>4 DEF Acquire, Goto, call, Keyed
  <2>2. NoLockYet' /\ LockIsShared'
    BY <2>1 DEF LocksInv, NoLockYet, LockIsShared
  <2>3. ASSUME NEW u \in Threads, pc'[u] \in {"table", "load"}
        PROVE  holder'[key[u]][lock[u]] = u
    <3>1. CASE u = t
      <4>1. lock[t] \in Threads
        BY <2>1 DEF LocksInv, LockIsShared
      <4>2. QED
        BY <2>1, <3>1, <4>1
    <3>2. CASE u # t
      <4>1. key[u] \in Keys /\ lock[u] \in Threads /\ holder[key[u]][lock[u]] = u
        BY <2>1, <2>3, <3>2 DEF LocksInv, LockIsShared, LockIsHeld, Keyed
      <4>2. QED
        BY <2>1, <4>1
    <3>3. QED
      BY <3>1, <3>2
  <2>4. QED
    BY <2>1, <2>2, <2>3 DEF LocksInv, LockIsHeld
<1>5. CASE Reuse(t)
  BY <1>5, EndLocks DEF Reuse, Return
<1>6. CASE Prepare(t)
  <2>1. CASE \E e \in {"unfit", "missing"} : Fail(t, e)
    BY <1>6, <2>1, EndLocks DEF Prepare, Fail
  <2>2. CASE ~\E e \in {"unfit", "missing"} : Fail(t, e)
    <3>1. pc[t] = "table" /\ Goto(t, "load") /\ UNCHANGED <<locks, holder, key, lock>>
      BY <1>6, <2>2 DEF Prepare, call
    <3>2. QED
      BY <3>1 DEF Goto, LocksInv, NoLockYet, LockIsShared, LockIsHeld
  <2>3. QED
    BY <2>1, <2>2
<1>7. CASE LoadModule(t)
  <2>1. CASE \E e \in {"dlopen", "missing"} : Fail(t, e)
    BY <1>7, <2>1, EndLocks DEF LoadModule, Fail
  <2>2. CASE ~\E e \in {"dlopen", "missing"} : Fail(t, e)
    BY <1>7, <2>2, EndLocks DEF LoadModule, Return
  <2>3. QED
    BY <2>1, <2>2
<1>8. QED
  BY <1>1, <1>2, <1>3, <1>4, <1>5, <1>6, <1>7 DEF Step

-----------------------------------------------------------------------------
(* Modules.                                                                *)

ModulesInv == LoadsAnew /\ HandedIsKept /\ NamesAreUsed /\ KeysDiffer

\* What keeps the table, hands out what is in it, and lets nobody load what is.
LEMMA TableStays ==
  ASSUME TypeOK, Keyed, ModulesInv, TypeOK', UNCHANGED modules,
         \A x \in handed' : x \in handed \/ modules[x[1]] = x[2],
         \A u \in Threads : \/ calls'[u] = calls[u] /\ (pc[u] = "idle" => pc'[u] = "idle")
                            \/ calls'[u] = calls[u] + 1,
         \A u \in Threads : pc'[u] = "load" => modules[key'[u]] = None
  PROVE  ModulesInv'
<1>1. LoadsAnew' /\ KeysDiffer'
  BY DEF ModulesInv, LoadsAnew, KeysDiffer
<1>2. HandedIsKept'
  BY DEF ModulesInv, HandedIsKept
<1>3. ASSUME NEW k \in Keys, modules[k] # None
      PROVE  /\ modules[k][2] <= calls'[modules[k][1]]
             /\ modules[k][2] = calls'[modules[k][1]] => pc'[modules[k][1]] = "idle"
  <2>1. modules[k][1] \in Threads /\ modules[k][2] \in Nat
    BY <1>3 DEF TypeOK, Modules
  <2>2. calls[modules[k][1]] \in Nat
    BY <2>1 DEF TypeOK
  <2>3. QED
    BY <1>3, <2>1, <2>2 DEF ModulesInv, NamesAreUsed
<1>4. NamesAreUsed'
  BY <1>3 DEF NamesAreUsed
<1>5. QED
  BY <1>1, <1>2, <1>4 DEF ModulesInv

\* A new module gets a name of its own.
LEMMA TableGrows ==
  ASSUME TypeOK, Keyed, ModulesInv, TypeOK', NEW t \in Threads, pc[t] = "load",
         LocksInv, modules' = [modules EXCEPT ![key[t]] = <<t, calls[t]>>], UNCHANGED calls,
         Return(t)
  PROVE  ModulesInv'
<1> USE ModuleTableAssumption
<1>1. /\ key[t] \in Keys /\ modules[key[t]] = None /\ modules'[key[t]] = <<t, calls[t]>>
      /\ <<t, calls[t]>> # None /\ calls[t] \in Nat
      /\ \A k \in Keys : k # key[t] => modules'[k] = modules[k]
  BY DEF TypeOK, Keyed, ModulesInv, LoadsAnew, Modules
<1>2. pc' = [pc EXCEPT ![t] = "idle"] /\ key' = [key EXCEPT ![t] = None]
      /\ handed' = handed \cup {<<key[t], <<t, calls[t]>> >>}
  BY <1>1 DEF Return, End, Goto
<1>3. \A k \in Keys : modules[k] # <<t, calls[t]>>
  <2>1. SUFFICES ASSUME NEW k \in Keys, modules[k] = <<t, calls[t]>> PROVE FALSE
    OBVIOUS
  <2>2. modules[k] # None /\ modules[k][1] = t /\ modules[k][2] = calls[t]
    BY <1>1, <2>1
  <2>3. pc[t] = "idle"
    BY <2>2 DEF ModulesInv, NamesAreUsed
  <2>4. QED
    BY <2>3
<1>4. LoadsAnew'
  <2>1. ASSUME NEW u \in Threads, pc'[u] = "load" PROVE modules'[key'[u]] = None
    <3>1. u # t /\ pc[u] = "load" /\ key'[u] = key[u]
      BY <1>2, <2>1 DEF TypeOK
    <3>2. key[u] # key[t]
      BY <3>1 DEF LocksInv, LockIsShared, LockIsHeld
    <3>3. QED
      BY <1>1, <3>1, <3>2 DEF Keyed, ModulesInv, LoadsAnew
  <2>2. QED
    BY <2>1 DEF LoadsAnew
<1>5. HandedIsKept'
  <2>1. ASSUME NEW x \in handed PROVE modules'[x[1]] = x[2]
    <3>1. x[1] \in Keys /\ x[2] \in Modules /\ modules[x[1]] = x[2]
      BY DEF TypeOK, ModulesInv, HandedIsKept
    <3>2. QED
      BY <1>1, <3>1
  <2>2. ASSUME NEW x \in handed', x \notin handed PROVE modules'[x[1]] = x[2]
    <3>1. x = <<key[t], <<t, calls[t]>> >>
      BY <1>2, <2>2
    <3>2. QED
      BY <1>1, <3>1
  <2>3. QED
    BY <2>1, <2>2 DEF HandedIsKept
<1>6. NamesAreUsed'
  <2>1. ASSUME NEW k \in Keys, k # key[t], modules[k] # None
        PROVE  /\ modules[k][2] <= calls[modules[k][1]]
               /\ modules[k][2] = calls[modules[k][1]] => pc'[modules[k][1]] = "idle"
    <3>1. modules[k][1] \in Threads
      BY <2>1 DEF TypeOK, Modules
    <3>2. QED
      BY <1>2, <2>1, <3>1 DEF TypeOK, ModulesInv, NamesAreUsed
  <2>2. calls[t] <= calls[t] /\ pc'[t] = "idle"
    BY <1>1, <1>2 DEF TypeOK
  <2>3. QED
    BY <1>1, <2>1, <2>2 DEF NamesAreUsed
<1>7. KeysDiffer'
  <2>1. ASSUME NEW k \in Keys, NEW l \in Keys, modules'[k] # None, modules'[k] = modules'[l]
        PROVE  k = l
    <3>1. CASE k # key[t] /\ l # key[t]
      BY <1>1, <2>1, <3>1 DEF ModulesInv, KeysDiffer
    <3>2. CASE k = key[t] \/ l = key[t]
      BY <1>1, <1>3, <2>1, <3>2
    <3>3. QED
      BY <3>1, <3>2
  <2>2. QED
    BY <2>1 DEF KeysDiffer
<1>8. QED
  BY <1>4, <1>5, <1>6, <1>7 DEF ModulesInv

\* A step of a call keeps what is said of modules.
LEMMA StepModules ==
  ASSUME Inv, NEW t \in Threads, Call(t) \/ Step(t), TypeOK'
  PROVE  ModulesInv'
<1> USE DEF TypeOK
<1>0. TypeOK /\ Keyed /\ LocksInv /\ ModulesInv
  BY DEF Inv, LocksInv, ModulesInv
<1>f. ASSUME NEW e, Fail(t, e), pc[t] # "idle", UNCHANGED modules PROVE ModulesInv'
  <2>1. /\ UNCHANGED <<modules, calls, handed>>
        /\ pc' = [pc EXCEPT ![t] = "idle"] /\ key' = [key EXCEPT ![t] = None]
    BY <1>f DEF Fail, End, Goto
  <2>2. \A u \in Threads : pc'[u] = "load" => modules[key'[u]] = None
    BY <1>0, <2>1 DEF ModulesInv, LoadsAnew
  <2>3. \A u \in Threads : calls'[u] = calls[u] /\ (pc[u] = "idle" => pc'[u] = "idle")
    BY <2>1
  <2>4. QED
    BY <1>0, <2>1, <2>2, <2>3, TableStays
<1>1. CASE Call(t)
  <2>1. /\ UNCHANGED <<modules, handed>>
        /\ calls' = [calls EXCEPT ![t] = @ + 1]
        /\ \A u \in Threads : pc'[u] = "load" => pc[u] = "load" /\ key'[u] = key[u]
        /\ \A u \in Threads : u # t => pc'[u] = pc[u]
    BY <1>1 DEF Call, Goto, process
  <2>2. \A u \in Threads : pc'[u] = "load" => modules[key'[u]] = None
    BY <1>0, <2>1 DEF ModulesInv, LoadsAnew
  <2>3. \A u \in Threads : \/ calls'[u] = calls[u] /\ (pc[u] = "idle" => pc'[u] = "idle")
                           \/ calls'[u] = calls[u] + 1
    BY <2>1
  <2>4. QED
    BY <1>0, <2>1, <2>2, <2>3, TableStays
<1>2. CASE Get(t)
  <2>1. CASE \E e \in {"refused", "unavailable"} : Fail(t, e)
    BY <1>2, <2>1, <1>f DEF Get, Fail
  <2>2. CASE ~\E e \in {"refused", "unavailable"} : Fail(t, e)
    <3>1. pc[t] = "get" /\ Goto(t, "guard") /\ UNCHANGED <<modules, calls, key, handed>>
      BY <1>2, <2>2 DEF Get
    <3>2. QED
      BY <1>0, <3>1, TableStays DEF Goto, ModulesInv, LoadsAnew
  <2>3. QED
    BY <2>1, <2>2
<1>3. CASE Guard(t)
  BY <1>0, <1>3, TableStays DEF Guard, Goto, call, ModulesInv, LoadsAnew
<1>4. CASE Acquire(t)
  BY <1>0, <1>4, TableStays DEF Acquire, Goto, call, ModulesInv, LoadsAnew
<1>5. CASE Reuse(t)
  <2>1. /\ UNCHANGED <<modules, calls>>
        /\ handed' = handed \cup {<<key[t], modules[key[t]]>>}
        /\ pc' = [pc EXCEPT ![t] = "idle"] /\ key' = [key EXCEPT ![t] = None]
    BY <1>5 DEF Reuse, Return, End, Goto
  <2>2. QED
    BY <1>0, <2>1, TableStays DEF ModulesInv, LoadsAnew
<1>6. CASE Prepare(t)
  <2>1. CASE \E e \in {"unfit", "missing"} : Fail(t, e)
    BY <1>6, <2>1, <1>f DEF Prepare, Fail
  <2>2. CASE ~\E e \in {"unfit", "missing"} : Fail(t, e)
    <3>1. /\ pc[t] = "table" /\ modules[key[t]] = None /\ Goto(t, "load")
          /\ UNCHANGED <<modules, calls, key, handed>>
      BY <1>6, <2>2 DEF Prepare, call
    <3>2. QED
      BY <1>0, <3>1, TableStays DEF Goto, ModulesInv, LoadsAnew
  <2>3. QED
    BY <2>1, <2>2
<1>7. CASE LoadModule(t)
  <2>1. CASE \E e \in {"dlopen", "missing"} : Fail(t, e)
    BY <1>7, <2>1, <1>f DEF LoadModule, Fail
  <2>2. CASE ~\E e \in {"dlopen", "missing"} : Fail(t, e)
    BY <1>0, <1>7, <2>2, TableGrows DEF LoadModule, Return, End
  <2>3. QED
    BY <2>1, <2>2
<1>8. QED
  BY <1>1, <1>2, <1>3, <1>4, <1>5, <1>6, <1>7 DEF Step

-----------------------------------------------------------------------------
(* Theorems.                                                               *)

\* The invariant holds in every reachable state.
LEMMA Invariance == Spec => []Inv
<1>1. Init => Inv
  BY ModuleTableAssumption DEF Init, Inv, TypeOK, Keyed, NoLockYet, LockIsShared, LockIsHeld,
     LoadsAnew, HandedIsKept, NamesAreUsed, KeysDiffer, Phases, Errors
<1>2. Inv /\ [Next]_vars => Inv'
  <2> SUFFICES ASSUME Inv, [Next]_vars PROVE Inv'
    OBVIOUS
  <2>1. ASSUME NEW t \in Threads, UNCHANGED <<world, installed>>, Call(t) \/ Step(t) PROVE Inv'
    <3>1. TypeOK' /\ Keyed'
      BY <2>1, StepTypes DEF Inv
    <3>2. LocksInv'
      BY <2>1, StepLocks DEF Inv, LocksInv
    <3>3. ModulesInv'
      BY <2>1, <3>1, StepModules
    <3>4. QED
      BY <3>1, <3>2, <3>3 DEF Inv, LocksInv, ModulesInv
  <2>2. CASE UNCHANGED world /\ (Upgrade \/ \E k \in Keys : Others(k))
    <3>1. TypeOK' /\ Keyed'
      BY <2>2, OthersTypes DEF Inv
    <3>2. UNCHANGED <<locks, holder, modules, pc, calls, key, lock, handed>>
      BY <2>2 DEF Upgrade, Others, process, call
    <3>3. QED
      BY <3>1, <3>2 DEF Inv, NoLockYet, LockIsShared, LockIsHeld, LoadsAnew, HandedIsKept,
         NamesAreUsed, KeysDiffer
  <2>3. CASE UNCHANGED vars
    BY <2>3 DEF vars, Inv, TypeOK, Keyed, NoLockYet, LockIsShared, LockIsHeld, LoadsAnew,
       HandedIsKept, NamesAreUsed, KeysDiffer
  <2>4. QED
    BY <2>1, <2>2, <2>3 DEF Next
<1>3. QED
  BY <1>1, <1>2, PTL DEF Spec

\* The variables of ModuleTable always have their types.
THEOREM TypeCorrect == Spec => []TypeOK
<1>1. Inv => TypeOK
  BY DEF Inv
<1>2. QED
  BY <1>1, Invariance, PTL

\* api.load: in one process a BuildKey is one module and a module one BuildKey,
\* whoever calls and whatever happens to the entries on the disk.
THEOREM ModulesAreUnique == Spec => []OneModule
<1>1. Inv => OneModule
  <2> SUFFICES ASSUME Inv, NEW x \in handed, NEW y \in handed PROVE x[1] = y[1] <=> x[2] = y[2]
    BY DEF OneModule
  <2>1. /\ x[1] \in Keys /\ y[1] \in Keys /\ x[2] # None
        /\ modules[x[1]] = x[2] /\ modules[y[1]] = y[2]
    BY ModuleTableAssumption DEF Inv, TypeOK, HandedIsKept
  <2>2. QED
    BY <2>1 DEF Inv, KeysDiffer
<1>2. QED
  BY <1>1, Invariance, PTL

\* Two threads are never past the lock of one path at once: a kernel.so is
\* checked and loaded by one call at a time.
THEOREM LoadsAreSerialized ==
  Spec => [](\A t, u \in Threads :
               pc[t] \in {"table", "load"} /\ pc[u] \in {"table", "load"} /\ key[t] = key[u]
                 => t = u)
<1>1. Inv => \A t, u \in Threads :
               pc[t] \in {"table", "load"} /\ pc[u] \in {"table", "load"} /\ key[t] = key[u]
                 => t = u
  BY DEF Inv, LockIsShared, LockIsHeld
<1>2. QED
  BY <1>1, Invariance, PTL
-----------------------------------------------------------------------------
(* What version comparison is.                                             *)

\* Newer is a strict order: no version is newer than itself ...
LEMMA NewerIsIrreflexive ==
  ASSUME NEW a \in Seq(Nat)
  PROVE  ~Newer(a, a)
<1> QED  BY DEF Newer

\* ... and what is newer than a newer one is newer.
LEMMA NewerIsTransitive ==
  ASSUME NEW a \in Seq(Nat), NEW b \in Seq(Nat), NEW c \in Seq(Nat), Newer(a, b), Newer(b, c)
  PROVE  Newer(a, c)
<1>0. /\ \A n \in DOMAIN a : a[n] \in Nat
      /\ \A n \in DOMAIN b : b[n] \in Nat
      /\ \A n \in DOMAIN c : c[n] \in Nat
      /\ DOMAIN a = 1 .. Len(a) /\ DOMAIN b = 1 .. Len(b) /\ DOMAIN c = 1 .. Len(c)
      /\ Len(a) \in Nat /\ Len(b) \in Nat /\ Len(c) \in Nat
  OBVIOUS
<1>1. PICK i \in DOMAIN a :
        /\ \A j \in 1 .. i - 1 : j \in DOMAIN b /\ a[j] = b[j]
        /\ i \in DOMAIN b => a[i] > b[i]
  BY DEF Newer
<1>2. PICK k \in DOMAIN b :
        /\ \A j \in 1 .. k - 1 : j \in DOMAIN c /\ b[j] = c[j]
        /\ k \in DOMAIN c => b[k] > c[k]
  BY DEF Newer
<1>3. i \in 1 .. Len(a) /\ k \in 1 .. Len(b)
  BY <1>0
<1>4. CASE i <= k
  <2>1. ASSUME NEW j \in 1 .. i - 1 PROVE j \in DOMAIN c /\ a[j] = c[j]
    <3>1. j \in 1 .. k - 1
      BY <1>3, <1>4
    <3> QED  BY <1>1, <1>2, <3>1
  <2>2. ASSUME i \in DOMAIN c PROVE a[i] > c[i]
    <3>1. CASE i = k
      BY <1>0, <1>1, <1>2, <2>2, <3>1
    <3>2. CASE i < k
      <4>1. i \in 1 .. k - 1
        BY <1>3, <3>2
      <4>2. i \in DOMAIN b /\ b[i] = c[i]
        BY <1>0, <1>2, <1>3, <3>2, <4>1
      <4> QED  BY <1>1, <4>2
    <3> QED  BY <1>3, <1>4, <3>1, <3>2
  <2> QED  BY <2>1, <2>2 DEF Newer
<1>5. CASE i > k
  <2>1. k \in 1 .. i - 1 /\ k \in DOMAIN a
    BY <1>0, <1>3, <1>5
  <2>2. ASSUME NEW j \in 1 .. k - 1 PROVE j \in DOMAIN c /\ a[j] = c[j]
    <3>1. j \in 1 .. i - 1
      BY <1>3, <1>5
    <3> QED  BY <1>1, <1>2, <3>1
  <2>3. k \in DOMAIN c => a[k] > c[k]
    BY <1>1, <1>2, <2>1
  <2> QED  BY <2>1, <2>2, <2>3 DEF Newer
<1> QED  BY <1>3, <1>4, <1>5

\* Among finitely many versions there is a newest.
LEMMA NewestExists ==
  ASSUME NEW A \in SUBSET Seq(Nat), IsFiniteSet(A), A # {}
  PROVE  \E v \in A : \A w \in A : ~Newer(w, v)
<1> DEFINE Newest(B, v) == \A w \in B : ~Newer(w, v)
           Without == {B \in SUBSET A : B # {} /\ \A v \in B : ~Newest(B, v)}
<1>1. SUFFICES ASSUME A \in Without PROVE FALSE
  OBVIOUS
<1>2. IsWellFoundedOn(StrictSubsetOrdering(A), FiniteSubsetsOf(A))
  BY FS_StrictSubsetOrderingWellFounded
<1>3. Without \subseteq FiniteSubsetsOf(A)
  BY FS_Subset DEF FiniteSubsetsOf
<1>4. PICK B \in Without : \A C \in Without : <<C, B>> \notin StrictSubsetOrdering(A)
  <2> HIDE DEF Without
  <2> QED  BY <1>1, <1>2, <1>3, WFMin
<1>5. \A C \in SUBSET B : C # B /\ C # {} => \E v \in C : Newest(C, v)
  <2> SUFFICES ASSUME NEW C \in SUBSET B, C # B, C # {}, C \in Without PROVE FALSE
    OBVIOUS
  <2> QED  BY <1>4 DEF StrictSubsetOrdering
<1>6. PICK x \in B : TRUE
  BY <1>4
<1>7. B \subseteq Seq(Nat)
  BY <1>4
<1>8. CASE B = {x}
  BY <1>4, <1>7, <1>8, NewerIsIrreflexive
<1>9. CASE B # {x}
  <2>1. PICK m \in B \ {x} : Newest(B \ {x}, m)
    BY <1>5, <1>6, <1>9
  <2>2. CASE Newer(x, m)
    <3>1. \A w \in B \ {x} : ~Newer(w, x)
      BY <1>7, <2>1, <2>2, NewerIsTransitive
    <3>2. ~Newer(x, x)
      BY <1>7, NewerIsIrreflexive
    <3> QED  BY <1>4, <3>1, <3>2
  <2>3. CASE ~Newer(x, m)
    BY <1>4, <2>1, <2>3
  <2> QED  BY <2>2, <2>3
<1> QED  BY <1>8, <1>9

\* Whoever provides more versions does not provide older ones.
LEMMA MaximumGrows ==
  ASSUME NEW A, NEW B, A \subseteq B, IsFiniteSet(B), \A n \in B : n[2] \in Seq(Nat), NEW prefix
  PROVE  ~Newer(MaximumVersion(A, prefix), MaximumVersion(B, prefix))
<1> DEFINE Matching(names) == {n[2] : n \in {m \in names : m[1] = prefix}} \ {NoVersion}
<1>1. CASE Matching(A) = {}
  BY <1>1 DEF MaximumVersion, Newer, NoVersion
<1>2. CASE Matching(A) # {}
  <2>1. Matching(A) \subseteq Matching(B) /\ Matching(B) \subseteq Seq(Nat)
    OBVIOUS
  <2>2. IsFiniteSet(Matching(A)) /\ IsFiniteSet(Matching(B))
    <3> DEFINE f == [n \in B |-> n[2]]
    <3>1. IsFiniteSet({f[n] : n \in B})
      <4>1. f \in Surjection(B, {f[n] : n \in B})
        BY DEF Surjection
      <4> HIDE DEF f
      <4> QED  BY <4>1, FS_Surjection
    <3>2. Matching(A) \in SUBSET {f[n] : n \in B} /\ Matching(B) \in SUBSET {f[n] : n \in B}
      OBVIOUS
    <3> QED  BY <3>1, <3>2, FS_Subset
  <2>3. MaximumVersion(A, prefix) \in Matching(A)
    <3>1. \E v \in Matching(A) : \A w \in Matching(A) : ~Newer(w, v)
      BY <1>2, <2>1, <2>2, NewestExists
    <3> QED  BY <1>2, <3>1 DEF MaximumVersion
  <2>4. \A w \in Matching(B) : ~Newer(w, MaximumVersion(B, prefix))
    <3>1. \E v \in Matching(B) : \A w \in Matching(B) : ~Newer(w, v)
      BY <1>2, <2>1, <2>2, NewestExists
    <3> QED  BY <1>2, <2>1, <3>1 DEF MaximumVersion
  <2> QED  BY <2>1, <2>3, <2>4
<1> QED  BY <1>1, <1>2

\* The order of versions is the reference's, for the one minimum there is.
LEMMA DslIsCompared ==
  ASSUME NEW v \in Seq(Nat)
  PROVE  Newer(<<4, 6, 1>>, v) <=> ~IsNewDsl(v)
<1> DEFINE u == <<4, 6, 1>>
<1>1. DOMAIN u = 1 .. 3 /\ u[1] = 4 /\ u[2] = 6 /\ u[3] = 1
  OBVIOUS
<1>2. DOMAIN v = 1 .. Len(v) /\ Len(v) \in Nat /\ \A n \in DOMAIN v : v[n] \in Nat
  OBVIOUS
<1>3. Newer(u, v) <=>
        \/ 1 \in DOMAIN v => u[1] > v[1]
        \/ /\ 1 \in DOMAIN v /\ u[1] = v[1]
           /\ 2 \in DOMAIN v => u[2] > v[2]
        \/ /\ 1 \in DOMAIN v /\ u[1] = v[1] /\ 2 \in DOMAIN v /\ u[2] = v[2]
           /\ 3 \in DOMAIN v => u[3] > v[3]
  <2>1. DOMAIN u = {1, 2, 3}
    BY <1>1
  <2>2. 1 .. 1 - 1 = {} /\ 1 .. 2 - 1 = {1} /\ 1 .. 3 - 1 = {1, 2}
    OBVIOUS
  <2> HIDE DEF u
  <2> QED  BY <2>1, <2>2 DEF Newer
<1> HIDE DEF u
<1>4. Newer(u, v) <=> ~IsNewDsl(v)
  BY <1>1, <1>2, <1>3 DEF IsNewDsl
<1> QED  BY <1>4 DEF u
-----------------------------------------------------------------------------
(* What the runtime checks decide.                                         *)

\* A stored Build that the checks accept runs on the host.
LEMMA AcceptedRuns ==
  ASSUME NEW w \in Worlds, NEW k \in Keys, NEW v \in Versions,
         NEW b \in SharedBuild[w][k], b \in RuntimeChecks[w][v]
  PROVE  RunsOn(WorldAt[w].kernel, SpecAt[k].target, WorldAt[w].host, v)
<1> DEFINE so == WorldAt[w].kernel
           c == ConfigOfBuild(w, b)
           host == WorldAt[w].host
<1>1. b \in Kinds \X {k} /\ ValidateKernelSo(so, c)
  BY DEF SharedBuild, Accepted
<1>2. ValidateTvmFfi(c, v) /\ ValidateHostDependencies(c, host)
  BY DEF RuntimeChecks
<1>3. SpecAt[k].target.tvm_ffi = v
  BY <1>1, <1>2 DEF ValidateTvmFfi, ConfigOfBuild, ConfigOf
<1>4. ASSUME CuteDsl \in so.needed PROVE IsNewDsl(host.cutedsl)
  <2>1. b[1] = "aot"
    <3> SUFFICES ASSUME b[1] # "aot" PROVE FALSE
      OBVIOUS
    <3>1. c.host_dependencies = {}
      BY DEF ConfigOfBuild, ConfigOf
    <3>2. so.needed \subseteq BaseLibraries \cup AlwaysAllowed
      BY <1>1, <3>1 DEF ValidateKernelSo
    <3> QED  BY <1>4, <3>2 DEF BaseLibraries, AlwaysAllowed, CuteDsl
  <2>2. [soname |-> CuteDsl, min_version |-> <<4, 6, 1>>] \in c.host_dependencies
    BY <1>4, <2>1 DEF ConfigOfBuild, ConfigOf, InferHostDependencies, MinimumVersion, CudaSonames,
      CuteDsl
  <2>3. ~Newer(<<4, 6, 1>>, host.cutedsl)
    BY <1>2, <2>2 DEF ValidateHostDependencies
  <2> QED  BY <2>3, DslIsCompared, HostAssumption
<1> QED  BY <1>3, <1>4 DEF RunsOn

\* A stored Build of a kernel.so that fits the host is accepted.
LEMMA FittingIsAccepted ==
  ASSUME NEW w \in Worlds, NEW k \in Keys, NEW v \in Versions,
         NEW b \in SharedBuild[w][k], Fits(w, k, v)
  PROVE  b \in RuntimeChecks[w][v]
<1> DEFINE so == WorldAt[w].kernel
           c == ConfigOfBuild(w, b)
           host == WorldAt[w].host
<1>1. b \in Kinds \X {k}
  BY DEF SharedBuild, Accepted
<1>2. DlOpens(so, host) /\ RunsOn(so, SpecAt[k].target, host, v)
  BY DEF Fits
<1>3. ValidateTvmFfi(c, v)
  BY <1>1, <1>2 DEF ValidateTvmFfi, ConfigOfBuild, ConfigOf, RunsOn
<1>4. ValidateHostDependencies(c, host)
  <2> SUFFICES ASSUME NEW d \in c.host_dependencies
               PROVE  d.soname \in host.libraries
                        /\ (d.soname = CuteDsl => ~Newer(d.min_version, host.cutedsl))
    BY DEF ValidateHostDependencies
  <2>1. d \in InferHostDependencies(so)
    BY DEF ConfigOfBuild, ConfigOf
  <2>2. d.soname \in so.needed /\ d.min_version = MinimumVersion(d.soname)
    BY <2>1 DEF InferHostDependencies
  <2>3. d.soname \in host.libraries
    BY <1>2, <2>2 DEF DlOpens
  <2>4. ASSUME d.soname = CuteDsl PROVE ~Newer(d.min_version, host.cutedsl)
    <3>1. IsNewDsl(host.cutedsl)
      BY <1>2, <2>2, <2>4 DEF RunsOn
    <3>2. d.min_version = <<4, 6, 1>>
      BY <2>2, <2>4 DEF MinimumVersion
    <3> QED  BY <3>1, <3>2, DslIsCompared, HostAssumption
  <2> QED  BY <2>3, <2>4
<1>5. ValidateHostCxxRuntime(c, host)
  <2> SUFFICES ASSUME NEW r \in c.cxx_runtime
               PROVE  /\ CxxLibraries \subseteq host.libraries
                      /\ ~Newer(r.required_glibcxx, MaximumVersion(host.provided, "GLIBCXX"))
                      /\ ~Newer(r.required_cxxabi, MaximumVersion(host.provided, "CXXABI"))
    BY DEF ValidateHostCxxRuntime
  <2>1. r \in CxxRuntimeRequirement(so)
    BY DEF ConfigOfBuild, ConfigOf
  <2>2. /\ so.needed \cap CxxLibraries # {}
        /\ r.required_glibcxx = MaximumVersion(so.versions, "GLIBCXX")
        /\ r.required_cxxabi = MaximumVersion(so.versions, "CXXABI")
    BY <2>1 DEF CxxRuntimeRequirement
  <2>3. CxxLibraries \subseteq host.libraries
    BY <1>2, <2>2, HostAssumption DEF DlOpens
  <2>4. so.versions \subseteq host.provided
    BY <1>2 DEF DlOpens
  <2>5. IsFiniteSet(host.provided) /\ \A n \in host.provided : n[2] \in Seq(Nat)
    BY HostAssumption
  <2> HIDE DEF so, host
  <2> QED  BY <2>2, <2>3, <2>4, <2>5, MaximumGrows
<1>6. b \in Builds
  BY <1>1, HostFitAssumption
<1> QED  BY <1>3, <1>4, <1>5, <1>6 DEF RuntimeChecks

-----------------------------------------------------------------------------
(* What lies between the checks and the load.                              *)

\* What is stored under a BuildKey was accepted for it, whoever stored it.
StoredIsAccepted ==
  \A k \in Keys, f \in {"config", "so"} : Has(entry[k], f) => entry[k][f] \in Shared[world][k]

\* Who loads has checked some Build of its BuildKey against the imported tvm-ffi.
CheckedFirst ==
  \A t \in Threads : pc[t] = "load" =>
    imported # None /\ Shared[world][key[t]] \cap Checks[world][imported] # {}

\* A call under way has not failed.
NoErrorYet == \A t \in Threads : pc[t] # "idle" => error[t] = "none"

\* A call keeps the BuildKey of what it was asked.
AsksForIts ==
  \A t \in Threads : request[t] # None =>
    pc[t] # "idle" /\ key[t] = KeyOf[world][request[t][1]][request[t][2]]

FitInv == StoredIsAccepted /\ CheckedFirst /\ NoErrorYet /\ AsksForIts

\* A new call keeps it.
LEMMA CallFits ==
  ASSUME TypeOK, Keyed, FitInv, NEW t \in Threads, UNCHANGED <<world, installed>>, Call(t)
  PROVE  FitInv'
<1> USE DEF TypeOK, FitInv, Call, process, Goto
<1>1. StoredIsAccepted'  BY DEF StoredIsAccepted
<1>2. CheckedFirst'  BY DEF CheckedFirst, Phases
<1>3. NoErrorYet'  BY DEF NoErrorYet
<1>4. AsksForIts'  BY DEF AsksForIts, Phases
<1> QED  BY <1>1, <1>2, <1>3, <1>4

\* The rest of materialize stores accepted Builds only.
LEMMA GetFits ==
  ASSUME TypeOK, Keyed, FitInv, NEW t \in Threads, UNCHANGED <<world, installed>>, Get(t)
  PROVE  FitInv'
<1> USE DEF TypeOK, Get, Goto, Fail, End
<1>1. key[t] \in Keys  BY DEF Keyed
<1>2. StoredIsAccepted'
  <2>1. CASE entry' = entry
    BY <2>1 DEF FitInv, StoredIsAccepted
  <2>2. CASE entry' # entry
    <3>1. PICK b \in Deliver[world][key[t]] :
            entry' = [entry EXCEPT ![key[t]] = IF @ = None THEN [config |-> b, so |-> b] ELSE @]
      BY <2>2
    <3>2. b \in Shared[world][key[t]]
      BY <1>1, HostFitAssumption
    <3> QED  BY <1>1, <3>1, <3>2 DEF FitInv, StoredIsAccepted, Has
  <2> QED  BY <2>1, <2>2
<1>3. CheckedFirst'  BY DEF FitInv, CheckedFirst
<1>4. NoErrorYet'  BY DEF FitInv, NoErrorYet
<1>5. AsksForIts'  BY DEF FitInv, AsksForIts
<1> QED  BY <1>2, <1>3, <1>4, <1>5 DEF FitInv

\* What load does under its locks keeps it.
LEMMA LoadFits ==
  ASSUME TypeOK, Keyed, FitInv, NEW t \in Threads, UNCHANGED <<world, installed>>,
         Guard(t) \/ Acquire(t) \/ Reuse(t) \/ LoadModule(t)
  PROVE  FitInv'
<1> USE DEF TypeOK, FitInv, Guard, Acquire, Reuse, LoadModule, Goto, Fail, End, Return, call
<1>1. StoredIsAccepted'  BY DEF StoredIsAccepted
<1>2. CheckedFirst'  BY DEF CheckedFirst
<1>3. NoErrorYet'  BY DEF NoErrorYet
<1>4. AsksForIts'  BY DEF AsksForIts
<1> QED  BY <1>1, <1>2, <1>3, <1>4

\* And so do the checks.
LEMMA PrepareFits ==
  ASSUME TypeOK, Keyed, FitInv, NEW t \in Threads, UNCHANGED <<world, installed>>, Prepare(t)
  PROVE  FitInv'
<1> USE ModuleTableAssumption DEF TypeOK, Prepare, Goto, Fail, End, call
<1>1. StoredIsAccepted'  BY DEF FitInv, StoredIsAccepted
<1>2. CheckedFirst'
  <2>0. imported # None => imported' = imported
    OBVIOUS
  <2> SUFFICES ASSUME NEW u \in Threads, pc'[u] = "load"
               PROVE  imported' # None /\ Shared[world][key'[u]] \cap Checks[world][imported'] # {}
    BY DEF CheckedFirst
  <2>1. CASE u = t
    <3>1. Has(entry[key[t]], "config") /\ entry[key[t]].config \in Checks[world][imported']
      BY <2>1
    <3>2. key[t] \in Keys /\ key'[t] = key[t] /\ imported' # None
      BY <2>1 DEF Keyed
    <3>3. entry[key[t]].config \in Shared[world][key[t]]
      BY <3>1, <3>2 DEF FitInv, StoredIsAccepted
    <3> QED  BY <2>1, <3>1, <3>2, <3>3
  <2>2. CASE u # t
    <3>1. pc[u] = "load" /\ key'[u] = key[u]
      BY <2>2
    <3> QED  BY <2>0, <3>1 DEF FitInv, CheckedFirst
  <2> QED  BY <2>1, <2>2
<1>a. \/ pc' = [pc EXCEPT ![t] = "load"] /\ UNCHANGED <<request, key, error>>
      \/ \E e \in Errors : /\ pc' = [pc EXCEPT ![t] = "idle"]
                           /\ error' = [error EXCEPT ![t] = e]
                           /\ request' = [request EXCEPT ![t] = None]
                           /\ key' = [key EXCEPT ![t] = None]
  BY DEF Errors
<1>b. pc[t] = "table"
  OBVIOUS
<1> HIDE DEF Prepare
<1>3. NoErrorYet'  BY <1>a, <1>b DEF FitInv, NoErrorYet
<1>4. AsksForIts'  BY <1>a, <1>b DEF FitInv, AsksForIts
<1> QED  BY <1>1, <1>2, <1>3, <1>4 DEF FitInv

\* Other processes store accepted Builds only.
LEMMA OthersFit ==
  ASSUME TypeOK, FitInv, UNCHANGED world, Upgrade \/ \E k \in Keys : Others(k)
  PROVE  FitInv'
<1>1. UNCHANGED <<imported, pc, key, request, error>>
  BY DEF Upgrade, Others, process, call
<1>2. StoredIsAccepted'
  <2>1. CASE Upgrade
    BY <2>1 DEF Upgrade, FitInv, StoredIsAccepted
  <2>2. ASSUME NEW k \in Keys, Others(k) PROVE StoredIsAccepted'
    <3> USE DEF TypeOK, FitInv, StoredIsAccepted, Has
    <3>1. CASE Unlink(k)
      BY <2>2, <3>1 DEF Unlink, Files
    <3>2. CASE RmDir(k)
      BY <2>2, <3>2 DEF RmDir
    <3>3. CASE Fill(k)
      BY <2>2, <3>3 DEF Fill
    <3> QED  BY <2>2, <3>1, <3>2, <3>3 DEF Others
  <2> QED  BY <2>1, <2>2
<1>3. CheckedFirst' /\ NoErrorYet' /\ AsksForIts'
  BY <1>1 DEF FitInv, CheckedFirst, NoErrorYet, AsksForIts
<1> QED  BY <1>2, <1>3 DEF FitInv

\* Both invariants hold in every reachable state.
LEMMA FitInvariance == Spec => [](Inv /\ FitInv)
<1>1. Init => FitInv
  BY DEF Init, FitInv, StoredIsAccepted, CheckedFirst, NoErrorYet, AsksForIts, Has
<1>2. Inv /\ FitInv /\ [Next]_vars => FitInv'
  <2> SUFFICES ASSUME TypeOK, Keyed, FitInv, [Next]_vars PROVE FitInv'
    BY DEF Inv
  <2>1. ASSUME NEW t \in Threads, UNCHANGED <<world, installed>>, Call(t) \/ Step(t) PROVE FitInv'
    BY <2>1, CallFits, GetFits, LoadFits, PrepareFits DEF Step
  <2>2. CASE UNCHANGED world /\ (Upgrade \/ \E k \in Keys : Others(k))
    BY <2>2, OthersFit
  <2>3. CASE UNCHANGED vars
    BY <2>3 DEF vars, FitInv, StoredIsAccepted, CheckedFirst, NoErrorYet, AsksForIts
  <2> QED  BY <2>1, <2>2, <2>3 DEF Next
<1> QED  BY <1>1, <1>2, Invariance, PTL DEF Spec

\* While a call looks for its Build, its BuildKey is that of its args and of the
\* tvm-ffi it found installed, although tvm-ffi is upgraded meanwhile.
THEOREM KeysAreKept ==
  Spec => [](\A t \in Threads : request[t] # None =>
               key[t] = KeyOf[world][request[t][1]][request[t][2]])
<1>1. Inv /\ FitInv => \A t \in Threads : request[t] # None =>
                         key[t] = KeyOf[world][request[t][1]][request[t][2]]
  BY DEF FitInv, AsksForIts
<1> QED  BY <1>1, FitInvariance, PTL

\* What gets into the module table fits the host and the imported tvm-ffi, and
\* what the checks refuse does not, for every kernel.so and every host, whatever
\* is put into the entry between the checks and the load.
THEOREM LoadsFit == Spec => FitDecides
<1>1. ASSUME Inv, FitInv, [Next]_vars, NEW k \in Keys, modules'[k] # modules[k]
      PROVE  Fits(world, k, imported)
  <2>1. PICK t \in Threads : LoadModule(t)
    BY <1>1 DEF Next, vars, Step, Call, Get, Guard, Acquire, Reuse, Prepare, Fail, Others, Upgrade,
      process
  <2>2. pc[t] = "load" /\ key[t] = k /\ entry[k].so \in Opens[world]
    BY <1>1, <2>1 DEF LoadModule, Fail, Inv, TypeOK
  <2>3. DlOpens(WorldAt[world].kernel, WorldAt[world].host)
    BY <1>1, <2>2, HostFitAssumption DEF LoaderOpens, Inv, TypeOK
  <2>4. PICK b \in Shared[world][k] : imported # None /\ b \in Checks[world][imported]
    BY <1>1, <2>2 DEF FitInv, CheckedFirst
  <2>5. RunsOn(WorldAt[world].kernel, SpecAt[k].target, WorldAt[world].host, imported)
    <3>1. world \in Worlds /\ imported \in Versions
      BY <1>1, <2>4 DEF Inv, TypeOK
    <3> QED  BY <2>4, <3>1, AcceptedRuns, HostFitAssumption
  <2> QED  BY <2>3, <2>5 DEF Fits
<1>2. ASSUME Inv, FitInv, [Next]_vars, NEW t \in Threads, pc[t] = "table", error'[t] = "unfit"
      PROVE  ~Fits(world, key[t], imported')
  <2>1. error[t] = "none" /\ key[t] \in Keys /\ world \in Worlds
    BY <1>2 DEF FitInv, NoErrorYet, Inv, Keyed, TypeOK
  <2>2. Prepare(t)
    <3>1. PICK u \in Threads : Call(u) \/ Step(u)
      BY <1>2, <2>1 DEF Next, vars, Others, Upgrade
    <3>2. u = t
      BY <1>2, <2>1, <3>1 DEF Call, Step, Get, Guard, Acquire, Reuse, Prepare, LoadModule, Fail,
        Return, End, Inv, TypeOK
    <3> QED  BY <1>2, <2>1, <3>1, <3>2 DEF Call, Step, Get, Guard, Acquire, Reuse, LoadModule,
          Return, End, Inv, TypeOK
  <2>3. PICK b : b = entry[key[t]].config /\ Has(entry[key[t]], "config")
                   /\ b \notin Checks[world][imported']
    BY <1>2, <2>1, <2>2 DEF Prepare, Fail, End, Inv, TypeOK
  <2>4. b \in Shared[world][key[t]]
    BY <1>2, <2>1, <2>3 DEF FitInv, StoredIsAccepted
  <2>5. imported' \in Versions
    BY <1>2, <2>2 DEF Prepare, Inv, TypeOK
  <2> QED  BY <2>1, <2>3, <2>4, <2>5, FittingIsAccepted, HostFitAssumption
<1>3. Inv /\ FitInv /\ [Next]_vars =>
        [/\ \A k \in Keys : modules'[k] # modules[k] => Fits(world, k, imported)
         /\ \A t \in Threads : pc[t] = "table" /\ error'[t] = "unfit" =>
              ~Fits(world, key[t], imported')]_vars
  BY <1>1, <1>2
<1> QED  BY <1>3, FitInvariance, PTL DEF Spec, FitDecides

(***************************************************************************)
(* Targets.  int() of the digits of a text is ten times that of all but    *)
(* the last, and the last: so a compute capability is its number.          *)
(***************************************************************************)

\* Induction over the numbers, for sets.
LEMMA NatSetInduction ==
  ASSUME NEW S, 0 \in S, \A n \in Nat : n \in S => n + 1 \in S
  PROVE  Nat \subseteq S
<1> SUFFICES ASSUME NEW n \in Nat, n \notin S
             PROVE  FALSE
  OBVIOUS
<1> DEFINE Without == {0 .. k : k \in (0 .. n) \ S}
<1>1. IsWellFoundedOn(StrictSubsetOrdering(0 .. n), FiniteSubsetsOf(0 .. n))
  BY FS_Interval, FS_StrictSubsetOrderingWellFounded
<1>2. Without \subseteq FiniteSubsetsOf(0 .. n) /\ 0 .. n \in Without
  <2>1. \A k \in 0 .. n : IsFiniteSet(0 .. k) /\ 0 .. k \subseteq 0 .. n
    BY FS_Interval
  <2>2. \A k \in 0 .. n : 0 .. k \in FiniteSubsetsOf(0 .. n)
    BY <2>1 DEF FiniteSubsetsOf
  <2> QED  BY <2>2
<1>3. PICK B \in Without : \A C \in Without : <<C, B>> \notin StrictSubsetOrdering(0 .. n)
  <2> HIDE DEF Without
  <2> QED  BY <1>1, <1>2, WFMin
<1>4. PICK k \in (0 .. n) \ S : B = 0 .. k
  OBVIOUS
<1>5. k # 0 /\ k - 1 \in (0 .. n) \ S
  <2>1. k - 1 \in S => k \in S
    OBVIOUS
  <2> QED  BY <2>1
<1>6. 0 .. k - 1 \in Without
  BY <1>5
<1>7. <<0 .. k - 1, B>> \in StrictSubsetOrdering(0 .. n)
  BY <1>4 DEF StrictSubsetOrdering
<1> QED  BY <1>3, <1>6, <1>7

\* f[i] is the number that the first i digits of d are, for any i up to n.
ReadsTo(f, d, n) ==
  \A i \in 0 .. n : f[i] = IF i = 0 THEN 0 ELSE 10 * f[i - 1] + d[i]

\* There is such a function, although its definition speaks of itself ...
LEMMA ReadExists ==
  ASSUME NEW d, NEW n \in Nat
  PROVE  \E f : f = [i \in 0 .. n |-> IF i = 0 THEN 0 ELSE 10 * f[i - 1] + d[i]]
<1> DEFINE Is(f, m) == f = [i \in 0 .. m |-> IF i = 0 THEN 0 ELSE 10 * f[i - 1] + d[i]]
           S == {m \in Nat : \E f : Is(f, m)}
<1>1. 0 \in S
  <2>1. Is([i \in 0 .. 0 |-> 0], 0)
    OBVIOUS
  <2> QED  BY <2>1
<1>2. ASSUME NEW m \in Nat, m \in S
      PROVE  m + 1 \in S
  <2>1. PICK f : Is(f, m)
    BY <1>2
  <2> DEFINE g == [i \in 0 .. m + 1 |-> IF i \in 0 .. m THEN f[i] ELSE 10 * f[m] + d[m + 1]]
  <2>2. ASSUME NEW i \in 0 .. m + 1
        PROVE  g[i] = IF i = 0 THEN 0 ELSE 10 * g[i - 1] + d[i]
    <3>1. CASE i \in 0 .. m
      <4>1. i # 0 => i - 1 \in 0 .. m
        BY <3>1
      <4> QED  BY <2>1, <3>1, <4>1
    <3>2. CASE i = m + 1
      BY <3>2
    <3> QED  BY <3>1, <3>2
  <2>3. Is(g, m + 1)
    BY <2>2
  <2> HIDE DEF g
  <2> QED  BY <2>3
<1>3. n \in S
  <2> HIDE DEF S
  <2> QED  BY <1>1, <1>2, NatSetInduction
<1> QED  BY <1>3

\* ... and one only, for digits that agree as far as it reads.
LEMMA ReadIsUnique ==
  ASSUME NEW d, NEW e, NEW n \in Nat, \A i \in 1 .. n : d[i] = e[i],
         NEW f, NEW g, ReadsTo(f, d, n), ReadsTo(g, e, n)
  PROVE  f[n] = g[n]
<1> DEFINE S == {i \in Nat : i \in 0 .. n => f[i] = g[i]}
<1>1. 0 \in S
  BY DEF ReadsTo
<1>2. ASSUME NEW i \in Nat, i \in S
      PROVE  i + 1 \in S
  <2> SUFFICES ASSUME i + 1 \in 0 .. n
               PROVE  f[i + 1] = g[i + 1]
    OBVIOUS
  <2>1. f[i] = g[i] /\ d[i + 1] = e[i + 1] /\ (i + 1) - 1 = i /\ i + 1 # 0
    BY <1>2
  <2>2. f[i + 1] = 10 * f[i] + d[i + 1] /\ g[i + 1] = 10 * g[i] + e[i + 1]
    BY <2>1 DEF ReadsTo
  <2> QED  BY <2>1, <2>2
<1>3. n \in S
  <2> HIDE DEF S
  <2> QED  BY <1>1, <1>2, NatSetInduction
<1> QED  BY <1>3

\* It is the one that Value takes its number from.
LEMMA ValueIsRead ==
  ASSUME NEW d \in Decimal
  PROVE  \E f : ReadsTo(f, d, Len(d)) /\ Value(d) = f[Len(d)]
<1> DEFINE v == CHOOSE f : f = [i \in 0 .. Len(d) |-> IF i = 0 THEN 0 ELSE 10 * f[i - 1] + d[i]]
<1>1. Len(d) \in Nat
  BY DEF Decimal
<1>2. v = [i \in 0 .. Len(d) |-> IF i = 0 THEN 0 ELSE 10 * v[i - 1] + d[i]]
  BY <1>1, ReadExists
<1>3. Value(d) = v[Len(d)]
  BY DEF Value
<1> HIDE DEF v
<1>4. ReadsTo(v, d, Len(d))
  BY <1>2 DEF ReadsTo
<1> QED  BY <1>3, <1>4

\* The number of a text of digits is ten times that of all but the last, and
\* the last.
LEMMA ValueUnfolds ==
  ASSUME NEW d \in Decimal, Len(d) # 0
  PROVE  /\ Value(d) = 10 * Value(Front(d)) + Last(d)
         /\ Value(Front(d)) \in Nat /\ Last(d) \in 0 .. 9
<1> DEFINE n == Len(d)
<1>1. n \in Nat \ {0} /\ Front(d) \in Decimal /\ Len(Front(d)) = n - 1 /\ Last(d) = d[n]
      /\ \A i \in 1 .. n - 1 : Front(d)[i] = d[i]
  <2>1. n \in Nat \ {0} /\ d \in Seq(0 .. 9)
    BY DEF Decimal
  <2>2. Front(d) = [i \in 1 .. n - 1 |-> d[i]]
    BY <2>1 DEF Front
  <2>3. Front(d) \in Seq(0 .. 9) /\ Len(Front(d)) = n - 1
    BY <2>1, <2>2
  <2> QED  BY <2>1, <2>2, <2>3 DEF Decimal, Last
<1>2. PICK f : ReadsTo(f, Front(d), n - 1) /\ Value(Front(d)) = f[n - 1]
  BY <1>1, ValueIsRead
<1>3. PICK g : ReadsTo(g, d, n) /\ Value(d) = g[n]
  BY ValueIsRead
<1>4. f[n - 1] = g[n - 1]
  <2> DEFINE u == Front(d)
             m == n - 1
  <2>1. m \in Nat /\ 0 .. m \subseteq 0 .. n /\ \A i \in 1 .. m : u[i] = d[i]
    BY <1>1
  <2>2. ReadsTo(f, u, m) /\ ReadsTo(g, d, m)
    BY <1>2, <1>3, <2>1 DEF ReadsTo
  <2> HIDE DEF n, m, u
  <2>3. f[m] = g[m]
    BY <2>1, <2>2, ReadIsUnique
  <2> QED  BY <2>3 DEF m
<1>5. Value(d) = 10 * Value(Front(d)) + Last(d)
  BY <1>1, <1>2, <1>3, <1>4 DEF ReadsTo
<1>6. Value(Front(d)) \in Nat
  <2> DEFINE S == {i \in Nat : i \in 0 .. n - 1 => f[i] \in Nat}
  <2>1. 0 \in S
    BY <1>1, <1>2 DEF ReadsTo
  <2>2. ASSUME NEW i \in Nat, i \in S
        PROVE  i + 1 \in S
    <3> SUFFICES ASSUME i + 1 \in 0 .. n - 1
                 PROVE  f[i + 1] \in Nat
      OBVIOUS
    <3>1. i + 1 \in 1 .. Len(Front(d)) /\ i \in 0 .. n - 1 /\ (i + 1) - 1 = i /\ i + 1 # 0
      BY <1>1
    <3>2. Front(d)[i + 1] \in Nat
      BY <1>1, <3>1 DEF Decimal
    <3>3. f[i + 1] = 10 * f[i] + Front(d)[i + 1]
      BY <1>2, <3>1 DEF ReadsTo
    <3>4. f[i] \in Nat
      BY <2>2, <3>1
    <3> QED  BY <3>2, <3>3, <3>4
  <2>3. n - 1 \in S
    <3> HIDE DEF S
    <3> QED  BY <1>1, <2>1, <2>2, NatSetInduction
  <2> QED  BY <1>1, <1>2, <2>3
<1>7. Last(d) \in 0 .. 9
  BY <1>1 DEF Decimal
<1> QED  BY <1>5, <1>6, <1>7

\* A target that a publisher spells out, and one that a client detects, are the
\* same if and only if the first is for the client's host: any number of digits
\* and leading zeros, any patch version, nvcc or PyTorch.
THEOREM TargetsAgree ==
  ASSUME NEW options, IsOptions(options), NEW publisher,
         NEW host, IsHost(host), NEW version,
         ExplicitTarget(options, publisher) # NoTarget, DetectTarget(host, version) # NoTarget
  PROVE  LET target == ExplicitTarget(options, publisher)
         IN target = DetectTarget(host, version) <=> IsFor(options, target.arch, host, version)
<1> DEFINE cc == options.cc
           toolkit == IF host.nvcc # {} THEN host.nvcc ELSE host.torch_cuda
           c == CHOOSE v \in toolkit : TRUE
           gpu == CHOOSE g \in host.gpu : TRUE
           e == ExplicitTarget(options, publisher)
           t == DetectTarget(host, version)
<1>1. /\ toolkit # {} /\ host.gpu # {} /\ IsCuda(c)
      /\ t = [os |-> "linux", arch |-> host.machine, cuda |-> NormalizeCuda(c),
              cc |-> <<gpu[1], gpu[2], IF gpu[1] >= 9 THEN "a" ELSE "">>, tvm_ffi |-> version]
  BY DEF DetectTarget
<1>2. PICK arch :
        /\ IsCuda(options.cuda) /\ IsCc(cc)
        /\ e = [os |-> "linux", arch |-> arch, cuda |-> NormalizeCuda(options.cuda),
                cc |-> NormalizeCc(cc), tvm_ffi |-> options.tvm_ffi]
  BY DEF ExplicitTarget
<1>3. toolkit = {c} /\ host.gpu = {gpu} /\ gpu \in Nat \X (0 .. 9)
  BY <1>1 DEF IsHost, AtMostOne
<1>4. /\ Value(cc[1]) = 10 * CcMajor(cc) + Last(cc[1])
      /\ CcMajor(cc) \in Nat /\ Last(cc[1]) \in 0 .. 9
      /\ cc[2] = (IF CcMajor(cc) >= 9 THEN "a" ELSE "")
  <2>1. cc[1] \in Decimal /\ Len(cc[1]) \in Nat
    BY DEF IsOptions, Decimal
  <2>2. Len(cc[1]) >= 2
    BY <1>2 DEF IsCc
  <2>3. Len(cc[1]) # 0
    BY <2>1, <2>2
  <2> QED  BY <1>2, <2>1, <2>3, ValueUnfolds DEF IsCc, CcMajor
<1>5. NormalizeCc(cc) = <<gpu[1], gpu[2], IF gpu[1] >= 9 THEN "a" ELSE "">>
        <=> Value(cc[1]) \in {10 * g[1] + g[2] : g \in host.gpu}
  <2>1. gpu[1] \in Nat /\ gpu[2] \in 0 .. 9
    BY <1>3
  <2>2. PICK i \in Nat, x \in 0 .. 9 : CcMajor(cc) = i /\ Last(cc[1]) = x
    BY <1>4
  <2>3. PICK j \in Nat, y \in 0 .. 9 : gpu[1] = j /\ gpu[2] = y
    BY <2>1
  <2>4. 10 * i + x = 10 * j + y <=> i = j /\ x = y
    OBVIOUS
  <2>5. Value(cc[1]) = 10 * i + x
    BY <1>4, <2>2
  <2>6. Value(cc[1]) = 10 * gpu[1] + gpu[2] <=> CcMajor(cc) = gpu[1] /\ Last(cc[1]) = gpu[2]
    BY <2>2, <2>3, <2>4, <2>5
  <2>7. NormalizeCc(cc) = <<gpu[1], gpu[2], IF gpu[1] >= 9 THEN "a" ELSE "">>
          <=> CcMajor(cc) = gpu[1] /\ Last(cc[1]) = gpu[2]
    BY <1>4 DEF NormalizeCc
  <2> QED  BY <1>3, <2>6, <2>7
<1>6. NormalizeCuda(options.cuda) = NormalizeCuda(c)
        <=> \A i \in 1 .. 2 : Value(options.cuda[i]) \in {Value(v[i]) : v \in toolkit}
  <2>1. \A i \in 1 .. 2 : Value(options.cuda[i]) \in {Value(v[i]) : v \in toolkit}
                            <=> Value(options.cuda[i]) = Value(c[i])
    BY <1>3
  <2> QED  BY <2>1 DEF NormalizeCuda
<1>7. e = t <=> /\ e.arch = host.machine /\ NormalizeCuda(options.cuda) = NormalizeCuda(c)
                /\ NormalizeCc(cc) = <<gpu[1], gpu[2], IF gpu[1] >= 9 THEN "a" ELSE "">>
                /\ options.tvm_ffi = version
  <2>1. e.arch = arch
    BY <1>2
  <2> HIDE DEF e, t, c, gpu, cc
  <2> QED  BY <1>1, <1>2, <2>1
<1> QED  BY <1>5, <1>6, <1>7 DEF IsFor

(***************************************************************************)
(* What JIT refuses.                                                       *)
(***************************************************************************)

\* Of the kernels that can be published, a client can compile those that need no
\* CUDA library, and no others (validate_kernel_so against the config that
\* materialize writes); what it can compile can be published.
THEOREM JitRefusesCuda ==
  ASSUME NEW w, NEW k
  PROVE  Accepted(w, {<<"jit", k>>}) # {} <=>
           /\ Accepted(w, {<<"aot", k>>}) # {}
           /\ WorldAt[w].kernel.needed \cap CudaSonames = {}
<1> DEFINE so == WorldAt[w].kernel
           aot == ConfigOfBuild(w, <<"aot", k>>)
           jit == ConfigOfBuild(w, <<"jit", k>>)
           Rest ==
             /\ so.machine = SpecAt[k].target.arch
             /\ ~so.rpath
             /\ \A prefix \in DOMAIN Baseline :
                  ~Newer(MaximumVersion(so.versions, prefix), Baseline[prefix])
<1>1. Accepted(w, {<<"jit", k>>}) # {} <=> ValidateKernelSo(so, jit)
  BY DEF Accepted
<1>2. Accepted(w, {<<"aot", k>>}) # {} <=> ValidateKernelSo(so, aot)
  BY DEF Accepted
<1>3. /\ jit = ConfigOf(so, SpecAt[k].target, {})
      /\ aot = ConfigOf(so, SpecAt[k].target, InferHostDependencies(so))
  BY DEF ConfigOfBuild
<1>4. {d.soname : d \in InferHostDependencies(so)} = so.needed \cap CudaSonames
  <2> DEFINE Dependency(n) == [soname |-> n, min_version |-> MinimumVersion(n)]
  <2>1. InferHostDependencies(so) = {Dependency(n) : n \in so.needed \cap CudaSonames}
    BY DEF InferHostDependencies
  <2>2. \A n : Dependency(n).soname = n
    OBVIOUS
  <2> HIDE DEF Dependency, so
  <2> QED  BY <2>1, <2>2
<1>5. /\ ValidateKernelSo(so, jit) <=>
           Rest /\ so.needed \subseteq BaseLibraries \cup AlwaysAllowed
      /\ ValidateKernelSo(so, aot) <=>
           Rest /\ so.needed \subseteq BaseLibraries \cup (so.needed \cap CudaSonames) \cup AlwaysAllowed
  BY <1>3, <1>4 DEF ValidateKernelSo, ConfigOf
<1>6. CudaSonames \cap (BaseLibraries \cup AlwaysAllowed) = {}
  BY DEF CudaSonames, BaseLibraries, AlwaysAllowed
<1> QED  BY <1>1, <1>2, <1>5, <1>6
=============================================================================

-------------------------- MODULE LocalCacheProofs --------------------------
(***************************************************************************)
(* Theorems about LocalCache, for every set of processes and keys, every   *)
(* number of files and every choice of who takes the lock.                 *)
(***************************************************************************)
EXTENDS LocalCache, TLAPS

USE DEF Parts, Working, Calling, Returned, disk, janitor, vars

-----------------------------------------------------------------------------
(* Types.                                                                  *)

\* A call writes NParts files and no more.
TypeInv ==
  /\ TypeOK
  /\ \A p \in Procs : pc[p] = "write" => wrote[p] < NParts

\* A step of a call keeps the types.
LEMMA StepTypes ==
  ASSUME TypeInv, NEW p \in Procs, Call(p) \/ Step(p) \/ Crash(p)
  PROVE  TypeInv'
<1> USE CacheAssumption DEF TypeInv, TypeOK, Goto, Return, Unlocked
<1>1. CASE Call(p)
  BY <1>1 DEF Call, DirsMade
<1>2. CASE Probe(p)
  BY <1>2 DEF Probe, AfterMiss
<1>3. CASE Read(p)
  BY <1>3 DEF Read
<1>4. CASE Acquire(p)
  BY <1>4 DEF Acquire
<1>5. CASE WorkFails(p)
  BY <1>5 DEF WorkFails
<1>6. CASE WorkDone(p)
  BY <1>6 DEF WorkDone
<1>7. CASE CommitFindsEntry(p)
  BY <1>7 DEF CommitFindsEntry
<1>8. CASE Mkdtemp(p)
  BY <1>8 DEF Mkdtemp
<1>9. CASE WritePart(p)
  BY <1>9 DEF WritePart, Abort
<1>10. CASE Rename(p)
  BY <1>10 DEF Rename, LostRace, Abort
<1>11. CASE Crash(p)
  BY <1>11 DEF Crash
<1>12. QED
  BY <1>1, <1>2, <1>3, <1>4, <1>5, <1>6, <1>7, <1>8, <1>9, <1>10, <1>11 DEF Step

\* A step of prune or clean keeps the types.
LEMMA MaintainTypes ==
  ASSUME TypeInv, Maintain
  PROVE  TypeInv'
BY CacheAssumption DEF TypeInv, TypeOK, Maintain, StartPrune, StartClean, Unlink, RmDir,
   EndPrune, RmEntriesRoot, MkEntries, RmTmpRoot, MkTmp, MaintCrash, UnlinkTemp, RmTemp,
   PickVictim, PickTemp, Janitor, Abort

\* The strengthened type invariant holds in every reachable state.
LEMMA TypeInvariance == Spec => []TypeInv
<1>1. Init => TypeInv
  BY CacheAssumption DEF Init, TypeInv, TypeOK
<1>2. TypeInv /\ [Next]_vars => TypeInv'
  <2> SUFFICES ASSUME TypeInv, [Next]_vars PROVE TypeInv'
    OBVIOUS
  <2>1. CASE Maintain
    BY <2>1, MaintainTypes
  <2>2. ASSUME NEW p \in Procs, Call(p) \/ Step(p) \/ Crash(p) PROVE TypeInv'
    BY <2>2, StepTypes
  <2>3. CASE UNCHANGED vars
    BY <2>3 DEF TypeInv, TypeOK
  <2>4. QED
    BY <2>1, <2>2, <2>3 DEF Next
<1>3. QED
  BY <1>1, <1>2, PTL DEF Spec

\* The variables of LocalCache always have their types.
THEOREM TypeCorrect == Spec => []TypeOK
<1>1. TypeInv => TypeOK
  BY DEF TypeInv
<1>2. QED
  BY <1>1, TypeInvariance, PTL

-----------------------------------------------------------------------------
(* The lock.                                                               *)

\* A process that takes locks has the one of its key while it works.
LockersHold == \A p \in Lockers : pc[p] \in Working => holder[key[p]] = p

LockInv == LockIsOwned /\ LockersHold

\* A step of a call keeps the locks in order.
LEMMA StepLocks ==
  ASSUME TypeOK, LockInv, NEW p \in Procs, Call(p) \/ Step(p) \/ Crash(p)
  PROVE  LockInv'
<1> USE CacheAssumption DEF TypeOK, LockInv, LockIsOwned, LockersHold, Goto, Return, Unlocked
<1>1. CASE Call(p)
  BY <1>1 DEF Call, DirsMade
<1>2. CASE Probe(p)
  BY <1>2 DEF Probe, AfterMiss
<1>3. CASE Read(p)
  BY <1>3 DEF Read
<1>4. CASE Acquire(p)
  BY <1>4 DEF Acquire
<1>5. CASE WorkFails(p)
  BY <1>5 DEF WorkFails
<1>6. CASE WorkDone(p)
  BY <1>6 DEF WorkDone
<1>7. CASE CommitFindsEntry(p)
  BY <1>7 DEF CommitFindsEntry
<1>8. CASE Mkdtemp(p)
  BY <1>8 DEF Mkdtemp
<1>9. CASE WritePart(p)
  BY <1>9 DEF WritePart
<1>10. CASE Rename(p)
  BY <1>10 DEF Rename, LostRace, Abort
<1>11. CASE Crash(p)
  BY <1>11 DEF Crash
<1>12. QED
  BY <1>1, <1>2, <1>3, <1>4, <1>5, <1>6, <1>7, <1>8, <1>9, <1>10, <1>11 DEF Step

\* prune and clean have nothing to do with the locks.
LEMMA MaintainKeepsCalls ==
  ASSUME Maintain
  PROVE  UNCHANGED <<pc, key, wrote, holder>>
BY DEF Maintain, StartPrune, StartClean, Unlink, RmDir,
   EndPrune, RmEntriesRoot, MkEntries, RmTmpRoot, MkTmp, MaintCrash, UnlinkTemp, RmTemp,
   PickVictim, PickTemp

\* The strengthened lock invariant holds in every reachable state.
LEMMA LockInvariance == Spec => []LockInv
<1>1. Init => LockInv
  BY CacheAssumption DEF Init, LockInv, LockIsOwned, LockersHold
<1>2. TypeInv /\ LockInv /\ [Next]_vars => LockInv'
  <2> SUFFICES ASSUME TypeInv, LockInv, [Next]_vars PROVE LockInv'
    OBVIOUS
  <2>1. CASE Maintain
    BY <2>1, MaintainKeepsCalls DEF LockInv, LockIsOwned, LockersHold
  <2>2. ASSUME NEW p \in Procs, Call(p) \/ Step(p) \/ Crash(p) PROVE LockInv'
    BY <2>2, StepLocks DEF TypeInv
  <2>3. CASE UNCHANGED vars
    BY <2>3 DEF LockInv, LockIsOwned, LockersHold
  <2>4. QED
    BY <2>1, <2>2, <2>3 DEF Next
<1>3. QED
  BY <1>1, <1>2, TypeInvariance, PTL DEF Spec

\* A held lock belongs to a running call for its key: build_lock releases it
\* on every return and exception, the OS on a crash.
THEOREM LocksAreOwned == Spec => []LockIsOwned
<1>1. LockInv => LockIsOwned
  BY DEF LockInv
<1>2. QED
  BY <1>1, LockInvariance, PTL

\* At most one of the processes that lock works on a key at a time, whatever
\* prune, clean and the callers without a lock do.
THEOREM WorkIsSerialized == Spec => []SingleFlight
<1>1. TypeInv /\ LockInv => SingleFlight
  BY CacheAssumption DEF TypeInv, TypeOK, LockInv, LockersHold, SingleFlight
<1>2. QED
  BY <1>1, TypeInvariance, LockInvariance, PTL

-----------------------------------------------------------------------------
(* What is in the entries, also while prune and clean run.                 *)

\* A step of a call leaves the files of an entry with one writer.
LEMMA StepUnmixed ==
  ASSUME TypeOK, Unmixed, NEW p \in Procs, Call(p) \/ Step(p) \/ Crash(p)
  PROVE  Unmixed'
<1>1. CASE Rename(p)
  <2>1. SUFFICES ASSUME NEW k \in Keys
                 PROVE  \E w \in Procs : dest'[k] \subseteq Parts \X {w}
    BY DEF Unmixed
  <2>2. CASE k = key[p] /\ dest' = [dest EXCEPT ![k] = tmp[p] \X {p}]
    <3>1. dest'[k] = tmp[p] \X {p} /\ tmp[p] \subseteq Parts
      BY <2>2 DEF TypeOK
    <3>2. QED
      BY <3>1
  <2>3. CASE dest'[k] = dest[k]
    BY <2>3 DEF Unmixed
  <2>4. QED
    BY <1>1, <2>2, <2>3 DEF Rename, TypeOK
<1>2. CASE ~Rename(p)
  <2>1. dest' = dest
    BY <1>2 DEF Call, Step, Crash, Probe, Read, Acquire, WorkFails, WorkDone,
       CommitFindsEntry, Mkdtemp, WritePart
  <2>2. QED
    BY <2>1 DEF Unmixed
<1>3. QED
  BY <1>1, <1>2

\* prune and clean only remove files.
LEMMA MaintainRemoves ==
  ASSUME TypeOK, Maintain
  PROVE  \A k \in Keys : dest'[k] \subseteq dest[k]
BY DEF TypeOK, Maintain, StartPrune, StartClean, Unlink, RmDir,
   EndPrune, RmEntriesRoot, MkEntries, RmTmpRoot, MkTmp, MaintCrash, UnlinkTemp, RmTemp,
   PickVictim, PickTemp, Janitor, Abort

\* One process wrote all the files of an entry: rename replaces an empty
\* directory or fails, even among the partial entries prune and clean leave.
THEOREM EntriesUnmixed == Spec => []Unmixed
<1>1. Init => Unmixed
  <2> SUFFICES ASSUME Init, NEW k \in Keys
               PROVE  \E w \in Procs : dest[k] \subseteq Parts \X {w}
    BY DEF Unmixed
  <2>1. dest[k] = {}
    BY DEF Init
  <2>2. QED
    BY <2>1, CacheAssumption
<1>2. TypeInv /\ Unmixed /\ [Next]_vars => Unmixed'
  <2> SUFFICES ASSUME TypeInv, Unmixed, [Next]_vars PROVE Unmixed'
    OBVIOUS
  <2>1. CASE Maintain
    BY <2>1, MaintainRemoves DEF TypeInv, Unmixed
  <2>2. ASSUME NEW p \in Procs, Call(p) \/ Step(p) \/ Crash(p) PROVE Unmixed'
    BY <2>2, StepUnmixed DEF TypeInv
  <2>3. CASE UNCHANGED vars
    BY <2>3 DEF Unmixed
  <2>4. QED
    BY <2>1, <2>2, <2>3 DEF Next
<1>3. QED
  BY <1>1, <1>2, TypeInvariance, PTL DEF Spec

\* The destination of a locker that writes or renames is free, and stays so:
\* the others that fill the key are kept out by the lock, prune and clean only
\* remove.
Reserved ==
  /\ \A k \in Keys : k \notin entries => dest[k] = {}
  /\ \A p \in Procs : pc[p] \in {"write", "rename"} => dest[key[p]] = {}

\* A step of a call keeps the destination of the others free.
LEMMA StepReserved ==
  ASSUME TypeOK, LockInv, Lockers = Procs, Reserved, NoCollision,
         NEW p \in Procs, Call(p) \/ Step(p) \/ Crash(p)
  PROVE  Reserved' /\ NoCollision'
<1> USE DEF TypeOK, Reserved, NoCollision, Goto, Return
<1>1. CASE Call(p)
  BY <1>1 DEF Call, DirsMade
<1>2. CASE Probe(p)
  BY <1>2 DEF Probe, AfterMiss
<1>3. CASE Read(p)
  BY <1>3 DEF Read
<1>4. CASE Acquire(p)
  BY <1>4 DEF Acquire
<1>5. CASE WorkFails(p)
  BY <1>5 DEF WorkFails
<1>6. CASE WorkDone(p)
  BY <1>6 DEF WorkDone
<1>7. CASE CommitFindsEntry(p)
  BY <1>7 DEF CommitFindsEntry
<1>8. CASE Mkdtemp(p)
  BY <1>8 DEF Mkdtemp, DestinationExists
<1>9. CASE WritePart(p)
  BY <1>9 DEF WritePart
<1>10. CASE Rename(p)
  <2>1. dest[key[p]] = {}
    BY <1>10 DEF Rename
  <2>2. pc' = [pc EXCEPT ![p] = pc'[p]] /\ pc'[p] \in {"served", "failed"}
    BY <1>10, <2>1 DEF Rename
  <2>3. \A q \in Procs \ {p} : pc[q] \in {"write", "rename"} => key[q] # key[p]
    BY <1>10 DEF Rename, LockInv, LockersHold
  <2>4. \A k \in Keys : k # key[p] => dest'[k] = dest[k] /\ (k \in entries' <=> k \in entries)
    BY <1>10, <2>1 DEF Rename
  <2>5. key[p] \notin entries' => dest'[key[p]] = {}
    BY <1>10, <2>1 DEF Rename
  <2>6. key' = key
    BY <1>10 DEF Rename
  <2>7. QED
    BY <2>2, <2>3, <2>4, <2>5, <2>6
<1>11. CASE Crash(p)
  BY <1>11 DEF Crash
<1>12. QED
  BY <1>1, <1>2, <1>3, <1>4, <1>5, <1>6, <1>7, <1>8, <1>9, <1>10, <1>11 DEF Step

\* prune and clean keep it too.
LEMMA MaintainReserved ==
  ASSUME TypeOK, Reserved, Maintain
  PROVE  Reserved'
BY MaintainKeepsCalls DEF TypeOK, Reserved, Maintain, StartPrune, StartClean, Unlink, RmDir,
   EndPrune, RmEntriesRoot, MkEntries, RmTmpRoot, MkTmp, MaintCrash, UnlinkTemp, RmTemp,
   PickVictim, PickTemp, Janitor, Abort

\* When every process that fills an entry takes its lock, the rename of a
\* commit never finds the destination occupied, even with prune and clean.
THEOREM LockedCommitsSucceed ==
  ASSUME Lockers = Procs
  PROVE  Spec => []NoCollision
<1>1. Init => Reserved /\ NoCollision
  BY DEF Init, Reserved, NoCollision
<1>2. TypeInv /\ LockInv /\ Reserved /\ NoCollision /\ [Next]_vars
        => Reserved' /\ NoCollision'
  <2> SUFFICES ASSUME TypeInv, LockInv, Reserved, NoCollision, [Next]_vars
               PROVE  Reserved' /\ NoCollision'
    OBVIOUS
  <2>1. CASE Maintain
    BY <2>1, MaintainReserved, MaintainKeepsCalls DEF TypeInv, NoCollision
  <2>2. ASSUME NEW p \in Procs, Call(p) \/ Step(p) \/ Crash(p)
        PROVE  Reserved' /\ NoCollision'
    BY <2>2, StepReserved, Lockers = Procs DEF TypeInv
  <2>3. CASE UNCHANGED vars
    BY <2>3 DEF Reserved, NoCollision
  <2>4. QED
    BY <2>1, <2>2, <2>3 DEF Next
<1>3. QED
  BY <1>1, <1>2, TypeInvariance, LockInvariance, PTL DEF Spec

\* No entry that has a file is overwritten, completed or repaired by a call.
THEOREM EntriesAreNotOverwritten == Spec => NeverOverwritten
<1> DEFINE Kept(k) == dest[k] # {} /\ dest'[k] # dest[k] =>
                        victim = k /\ dest'[k] \subseteq dest[k] /\ UNCHANGED pc
<1>1. ASSUME TypeOK, [Next]_vars, NEW k \in Keys
      PROVE  Kept(k)
  <2>1. ASSUME NEW p \in Procs, Call(p) \/ Step(p) \/ Crash(p)
        PROVE  dest[k] # {} => dest'[k] = dest[k]
    <3>1. CASE Rename(p)
      BY <1>1, <3>1 DEF Rename, TypeOK
    <3>2. CASE ~Rename(p)
      BY <2>1, <3>2 DEF Call, Step, Crash, Probe, Read, Acquire, WorkFails, WorkDone,
         CommitFindsEntry, Mkdtemp, WritePart
    <3>3. QED
      BY <3>1, <3>2
  <2>2. CASE Unlink
    BY <1>1, <2>2 DEF Unlink, TypeOK
  <2>3. CASE Maintain /\ ~Unlink
    BY <2>3 DEF Maintain, StartPrune, StartClean, RmDir, EndPrune, RmEntriesRoot, MkEntries,
       RmTmpRoot, MkTmp, MaintCrash, UnlinkTemp, RmTemp, PickVictim, PickTemp, Janitor, Abort
  <2>4. CASE UNCHANGED vars
    BY <2>4 DEF vars
  <2>5. QED
    BY <1>1, <2>1, <2>2, <2>3, <2>4 DEF Next
<1>2. TypeOK /\ [Next]_vars => [\A k \in Keys : Kept(k)]_vars
  BY <1>1
<1>3. QED
  BY <1>2, TypeCorrect, PTL DEF Spec, NeverOverwritten

-----------------------------------------------------------------------------
(* Whole entries, in a cache that is never pruned or cleaned.              *)

\* Nothing is being removed; a temporary directory holds what its process has
\* written, all of it before the rename; entries are whole, and there is
\* nothing where there is no entry.
FillInv ==
  /\ maint = "idle"
  /\ victim = NoKey
  /\ \A p \in Procs : pc[p] = "write" => p \in temps /\ tmp[p] = 1 .. wrote[p]
  /\ \A p \in Procs : pc[p] = "rename" => p \in temps /\ tmp[p] = Parts
  /\ \A k \in Keys : k \notin entries => dest[k] = {}
  /\ EntriesWhole

\* A step of a call keeps the entries whole.
LEMMA StepFill ==
  ASSUME TypeInv, FillInv, ~Maintenance,
         NEW p \in Procs, Call(p) \/ Step(p) \/ Crash(p)
  PROVE  FillInv'
<1> USE CacheAssumption DEF TypeInv, TypeOK, FillInv, EntriesWhole, Whole, Goto, Return
<1>1. ASSUME UNCHANGED <<wrote, disk, janitor>>,
             \A q \in Procs : pc'[q] \in {"write", "rename"} => pc'[q] = pc[q]
      PROVE  FillInv'
  BY <1>1
<1>2. CASE Call(p)
  <2>1. UNCHANGED <<wrote, disk, janitor>>
    BY <1>2 DEF Call, DirsMade
  <2>2. \A q \in Procs : pc'[q] \in {"write", "rename"} => pc'[q] = pc[q]
    BY <1>2 DEF Call
  <2>3. QED
    BY <1>1, <2>1, <2>2
<1>3. CASE Probe(p) \/ Read(p) \/ Acquire(p) \/ WorkFails(p) \/ WorkDone(p) \/ CommitFindsEntry(p)
  <2>1. UNCHANGED <<wrote, disk, janitor>>
    BY <1>3 DEF Probe, Read, Acquire, WorkFails, WorkDone, CommitFindsEntry
  <2>2. \A q \in Procs : pc'[q] \in {"write", "rename"} => pc'[q] = pc[q]
    <3>1. \E l \in (Calling \cup Returned) \ {"write", "rename"} : pc' = [pc EXCEPT ![p] = l]
      BY <1>3 DEF Probe, AfterMiss, Read, Acquire, WorkFails, WorkDone, CommitFindsEntry
    <3>2. QED
      BY <3>1
  <2>3. QED
    BY <1>1, <2>1, <2>2
<1>4. CASE Mkdtemp(p)
  <2>1. tmp' = [tmp EXCEPT ![p] = {}] /\ wrote' = [wrote EXCEPT ![p] = 0]
    BY <1>4 DEF Mkdtemp
  <2>2. tmp'[p] = 1 .. wrote'[p]
    <3>1. tmp'[p] = {} /\ wrote'[p] = 0
      BY <2>1
    <3>2. QED
      BY <3>1
  <2>3. pc' = [pc EXCEPT ![p] = "write"] /\ temps' = temps \cup {p}
    BY <1>4 DEF Mkdtemp
  <2>4. UNCHANGED <<entries, dest, maint, victim>>
    BY <1>4 DEF Mkdtemp
  <2>5. QED
    BY <2>1, <2>2, <2>3, <2>4
<1>5. CASE WritePart(p)
  <2>1. p \in temps /\ tmp[p] = 1 .. wrote[p] /\ wrote[p] < NParts /\ wrote[p] \in Nat
    BY <1>5 DEF WritePart
  <2>2. UNCHANGED <<entries, dest, maint, victim>>
    BY <1>5 DEF WritePart
  <2>3. \A q \in Procs \ {p} :
          pc'[q] = pc[q] /\ tmp'[q] = tmp[q] /\ wrote'[q] = wrote[q] /\ (q \in temps' <=> q \in temps)
    BY <1>5 DEF WritePart
  <2>4. CASE pc'[p] = "failed"
    BY <2>2, <2>3, <2>4
  <2>5. CASE pc'[p] # "failed"
    <3>1. tmp' = [tmp EXCEPT ![p] = @ \cup {wrote[p] + 1}]
          /\ wrote' = [wrote EXCEPT ![p] = @ + 1] /\ temps' = temps
      BY <1>5, <2>5 DEF WritePart
    <3>2. tmp'[p] = (1 .. wrote[p]) \cup {wrote[p] + 1} /\ wrote'[p] = wrote[p] + 1
      BY <2>1, <3>1
    <3>3. (1 .. wrote[p]) \cup {wrote[p] + 1} = 1 .. (wrote[p] + 1)
      BY <2>1
    <3>4. tmp'[p] = 1 .. wrote'[p]
      BY <3>2, <3>3
    <3>5. pc'[p] = IF wrote'[p] = NParts THEN "rename" ELSE "write"
      BY <1>5, <2>5, <3>2 DEF WritePart
    <3>6. QED
      BY <2>1, <2>2, <2>3, <3>1, <3>4, <3>5
  <2>6. QED
    BY <2>4, <2>5
<1>6. CASE Rename(p)
  <2>1. p \in temps /\ tmp[p] = Parts /\ victim = NoKey
    BY <1>6 DEF Rename
  <2>2. UNCHANGED <<maint, victim, tmp, wrote>> /\ temps' = temps \ {p}
    BY <1>6, <2>1 DEF Rename
  <2>3. pc' = [pc EXCEPT ![p] = pc'[p]] /\ pc'[p] \in Returned
    BY <1>6 DEF Rename, LostRace
  <2>4. \/ UNCHANGED <<entries, dest>>
        \/ /\ entries' = entries \cup {key[p]}
           /\ dest' = [dest EXCEPT ![key[p]] = Parts \X {p}]
    BY <1>6, <2>1 DEF Rename
  <2>5. \A k \in Keys :
          \/ dest'[k] = dest[k] /\ (k \in entries' <=> k \in entries)
          \/ k \in entries' /\ dest'[k] = Parts \X {p}
    <3>1. dest \in [Keys -> SUBSET (Parts \X Procs)]
      OBVIOUS
    <3> HIDE DEF TypeInv, TypeOK, FillInv, EntriesWhole, Whole, Goto, Return
    <3>2. QED
      BY <2>4, <3>1
  <2>6. EntriesWhole' /\ \A k \in Keys : k \notin entries' => dest'[k] = {}
    <3>1. entries' \subseteq Keys
      BY <2>4
    <3>2. EntriesWhole /\ \A k \in Keys : k \notin entries => dest[k] = {}
      OBVIOUS
    <3> HIDE DEF TypeInv, TypeOK, FillInv, EntriesWhole, Whole, Goto, Return
    <3>3. QED
      BY <2>5, <3>1, <3>2 DEF EntriesWhole, Whole
  <2>7. \A q \in Procs : pc'[q] \in {"write", "rename"} => q # p /\ pc'[q] = pc[q]
    BY <2>3
  <2>8. QED
    BY <2>1, <2>2, <2>6, <2>7
<1>7. CASE Crash(p)
  BY <1>7, victim # p DEF Crash
<1>8. QED
  BY <1>2, <1>3, <1>4, <1>5, <1>6, <1>7 DEF Step

\* Without prune and clean there is no step of theirs.
LEMMA NobodyMaintains ==
  ASSUME FillInv, ~Maintenance
  PROVE  ~Maintain
BY CacheAssumption DEF FillInv, Maintain, StartPrune, StartClean, Unlink, RmDir, EndPrune,
   RmEntriesRoot, MkEntries, RmTmpRoot, MkTmp, MaintCrash, UnlinkTemp, RmTemp, PickVictim,
   PickTemp, Janitor

\* The strengthened invariant holds in every reachable state.
LEMMA FillInvariance ==
  ASSUME ~Maintenance
  PROVE  Spec => []FillInv
<1>1. Init => FillInv
  BY CacheAssumption DEF Init, FillInv, EntriesWhole
<1>2. TypeInv /\ FillInv /\ [Next]_vars => FillInv'
  <2> SUFFICES ASSUME TypeInv, FillInv, [Next]_vars PROVE FillInv'
    OBVIOUS
  <2>1. ~Maintain
    BY ~Maintenance, NobodyMaintains
  <2>2. ASSUME NEW p \in Procs, Call(p) \/ Step(p) \/ Crash(p) PROVE FillInv'
    BY <2>2, StepFill, ~Maintenance
  <2>3. CASE UNCHANGED vars
    BY <2>3 DEF FillInv, EntriesWhole, Whole
  <2>4. QED
    BY <2>1, <2>2, <2>3 DEF Next
<1>3. QED
  BY <1>1, <1>2, TypeInvariance, PTL DEF Spec

\* Without prune and clean, an entry is there whole or not at all.
THEOREM EntriesAreWhole ==
  ASSUME ~Maintenance
  PROVE  Spec => []EntriesWhole
<1>1. FillInv => EntriesWhole
  BY DEF FillInv
<1>2. QED
  BY <1>1, FillInvariance, PTL

\* Without prune and clean, a successful call returns a whole entry: one it
\* read, one it found when it wanted to commit, or the one it committed.
THEOREM ServedEntriesAreWhole ==
  ASSUME ~Maintenance
  PROVE  Spec => ServedIsWhole
<1>1. TypeInv /\ FillInv /\ FillInv' /\ [Next]_vars
        => [\A p \in Procs :
              pc[p] \in Calling /\ pc'[p] = "served" => Whole(key[p])']_vars
  <2> SUFFICES ASSUME TypeInv, FillInv, FillInv', [Next]_vars, NEW p \in Procs,
                      pc[p] \in Calling, pc'[p] = "served"
               PROVE  Whole(key[p])'
    OBVIOUS
  <2>1. PICK q \in Procs : Call(q) \/ Step(q) \/ Crash(q)
    <3>1. pc # pc'
      BY DEF TypeInv, TypeOK
    <3>2. ~Maintain
      BY <3>1, MaintainKeepsCalls
    <3>3. QED
      BY <3>1, <3>2 DEF Next
  <2>2. q = p
    BY <2>1 DEF TypeInv, TypeOK, Goto, Return, Call, Step, Crash, Probe, Read, Acquire,
       WorkFails, WorkDone, CommitFindsEntry, Mkdtemp, WritePart, Rename
  <2>3. key' = key /\ key[p] \in Keys
    BY <2>1, <2>2 DEF TypeInv, TypeOK, Call, Step, Crash, Probe, Read, Acquire,
       WorkFails, WorkDone, CommitFindsEntry, Mkdtemp, WritePart, Rename
  <2>4. key[p] \in entries'
    <3>1. Read(p) \/ CommitFindsEntry(p) \/ Rename(p)
      BY <2>1, <2>2 DEF TypeInv, TypeOK, Goto, Return, Call, Step, Crash, Probe, Acquire,
         AfterMiss, WorkFails, WorkDone, Mkdtemp, WritePart
    <3>2. CASE Read(p)
      BY <2>3, <3>2 DEF Read, FillInv, Return, Goto, TypeInv, TypeOK
    <3>3. CASE CommitFindsEntry(p)
      BY <3>3 DEF CommitFindsEntry, DestinationExists
    <3>4. CASE Rename(p)
      BY <2>3, <3>4, CacheAssumption DEF Rename, FillInv, TypeInv, TypeOK, Return, Goto
    <3>5. QED
      BY <3>1, <3>2, <3>3, <3>4
  <2>5. QED
    BY <2>3, <2>4 DEF FillInv, EntriesWhole, Whole
<1>2. QED
  BY <1>1, TypeInvariance, FillInvariance, PTL DEF Spec, ServedIsWhole

-----------------------------------------------------------------------------
(* The double look saves the work.                                         *)

\* A step of a call never lets a locker work in vain.
LEMMA StepAbsent ==
  ASSUME TypeInv, LockInv, FillInv, WorkOnlyIfAbsent,
         NEW p \in Procs, Call(p) \/ Step(p) \/ Crash(p)
  PROVE  WorkOnlyIfAbsent'
<1> USE CacheAssumption DEF TypeInv, TypeOK, WorkOnlyIfAbsent, Goto, Return
<1>1. CASE Rename(p)
  <2>1. key' = key /\ pc' = [pc EXCEPT ![p] = pc'[p]] /\ pc'[p] \notin Working
    BY <1>1 DEF Rename, LostRace
  <2>2. CASE UNCHANGED <<entries, dest>>
    BY <2>1, <2>2
  <2>3. CASE /\ entries' = entries \cup {key[p]}
             /\ dest' = [dest EXCEPT ![key[p]] = tmp[p] \X {p}]
    <3>1. CASE p \in Lockers
      <4>1. \A q \in Lockers \ {p} : pc[q] \in Working => key[q] # key[p]
        BY <1>1, <3>1 DEF Rename, LockInv, LockersHold
      <4>2. QED
        BY <2>1, <2>3, <4>1
    <3>2. CASE p \notin Lockers
      <4>1. dest'[key[p]] \subseteq Parts \X (Procs \ Lockers)
        BY <2>3, <3>2
      <4>2. QED
        BY <2>1, <2>3, <4>1
    <3>3. QED
      BY <3>1, <3>2
  <2>4. QED
    BY <1>1, <2>2, <2>3 DEF Rename
<1>2. CASE Probe(p)
  <2>1. ASSUME key[p] \in entries PROVE AllPartsPresent(key[p])
    BY <2>1 DEF FillInv, EntriesWhole, Whole, AllPartsPresent
  <2>2. QED
    BY <1>2, <2>1 DEF Probe, AfterMiss
<1>3. ASSUME UNCHANGED <<entries, dest>>,
             \A q \in Lockers : pc'[q] \in Working => pc[q] \in Working /\ key'[q] = key[q]
      PROVE  WorkOnlyIfAbsent'
  BY <1>3
<1>4. CASE Call(p)
  BY <1>3, <1>4 DEF Call
<1>5. CASE Read(p) \/ Acquire(p) \/ WorkFails(p) \/ Crash(p)
  <2>1. UNCHANGED <<entries, dest, key>>
    BY <1>5 DEF Read, Acquire, WorkFails, Crash
  <2>2. \E l \in {"idle", "served", "failed", "probe"} : pc' = [pc EXCEPT ![p] = l]
    BY <1>5 DEF Read, Acquire, WorkFails, Crash
  <2>3. \A q \in Lockers : pc'[q] \in Working => pc[q] \in Working
    BY <2>2 DEF Working
  <2>4. QED
    BY <1>3, <2>1, <2>3
<1>6. CASE WorkDone(p) \/ CommitFindsEntry(p) \/ Mkdtemp(p) \/ WritePart(p)
  BY <1>3, <1>6 DEF WorkDone, CommitFindsEntry, Mkdtemp, WritePart
<1>7. QED
  BY <1>1, <1>2, <1>4, <1>5, <1>6 DEF Step

\* A process that looks again with the lock in hand starts no download and no
\* compilation, and goes on with none, for an entry that is there, unless one
\* that takes no lock has made it meanwhile.  Without prune and clean.
THEOREM NoRepeatedWork ==
  ASSUME ~Maintenance
  PROVE  Spec => []WorkOnlyIfAbsent
<1>1. Init => WorkOnlyIfAbsent
  BY CacheAssumption DEF Init, WorkOnlyIfAbsent
<1>2. TypeInv /\ LockInv /\ FillInv /\ WorkOnlyIfAbsent /\ [Next]_vars => WorkOnlyIfAbsent'
  <2> SUFFICES ASSUME TypeInv, LockInv, FillInv, WorkOnlyIfAbsent, [Next]_vars
               PROVE  WorkOnlyIfAbsent'
    OBVIOUS
  <2>1. ~Maintain
    BY ~Maintenance, NobodyMaintains
  <2>2. ASSUME NEW p \in Procs, Call(p) \/ Step(p) \/ Crash(p) PROVE WorkOnlyIfAbsent'
    BY <2>2, StepAbsent
  <2>3. CASE UNCHANGED vars
    BY <2>3 DEF WorkOnlyIfAbsent
  <2>4. QED
    BY <2>1, <2>2, <2>3 DEF Next
<1>3. QED
  BY <1>1, <1>2, TypeInvariance, LockInvariance, FillInvariance, PTL DEF Spec

-----------------------------------------------------------------------------
(* The refinement of ContentStore.                                         *)

\* The refinement mapping names the one writer of a whole entry.
LEMMA WriterOfWhole ==
  ASSUME NEW w \in Procs
  PROVE  WriterIn(Parts \X {w}) = w
<1>1. \E f \in Parts \X {w} : f[2] = w
  <2>1. <<1, w>> \in Parts \X {w} /\ <<1, w>>[2] = w
    BY CacheAssumption
  <2>2. QED
    BY <2>1
<1>2. \A v \in Procs : (\E f \in Parts \X {w} : f[2] = v) => v = w
  OBVIOUS
<1>3. QED
  BY <1>1, <1>2 DEF WriterIn

\* What a call returned stays in the cache.
ServedInv == \A p \in Procs : pc[p] = "served" => key[p] \in entries

\* A step of a call changes at most one result, and puts at most one entry
\* where there was none.
LEMMA StepImplements ==
  ASSUME TypeInv, FillInv, FillInv', ServedInv,
         NEW p \in Procs, Call(p) \/ Step(p) \/ Crash(p)
  PROVE  ServedInv' /\ [CS!Next]_(CS!vars)
<1> DEFINE store == [k \in Keys |-> IF k \in entries THEN WriterIn(dest[k]) ELSE Nobody]
           result == [q \in Procs |-> IF pc[q] = "served" THEN WriterIn(dest[key[q]])
                                                          ELSE Nobody]
<1> USE DEF TypeInv, TypeOK, FillInv, ServedInv, Goto, Return
<1>0. PICK k \in Keys : k = key[p]
  OBVIOUS
<1>1. \A j \in Keys : j \in entries => store[j] # Nobody
  <2> SUFFICES ASSUME NEW j \in Keys, j \in entries PROVE store[j] # Nobody
    OBVIOUS
  <2>1. PICK w \in Procs : dest[j] = Parts \X {w}
    BY DEF EntriesWhole, Whole
  <2>2. WriterIn(dest[j]) = w
    BY <2>1, WriterOfWhole
  <2>3. store[j] = w
    BY <2>2
  <2>4. QED
    BY <2>3, CacheAssumption
<1>2. CASE Call(p)
  <2>1. UNCHANGED <<entries, dest>>
    BY <1>2 DEF Call
  <2>2. pc' = [pc EXCEPT ![p] = pc'[p]] /\ pc'[p] # "served"
    BY <1>2 DEF Call
  <2>3. \A q \in Procs \ {p} : key'[q] = key[q]
    BY <1>2 DEF Call
  <2>4. store' = store
    BY <2>1
  <2>5. result'[p] = Nobody /\ \A q \in Procs \ {p} : result'[q] = result[q]
    BY <2>1, <2>2, <2>3
  <2>6. result' = [result EXCEPT ![p] = Nobody]
    BY <2>5
  <2>7. CS!Forget(p)
    BY <2>4, <2>6 DEF CS!Forget
  <2>8. ServedInv'
    BY <2>1, <2>2, <2>3
  <2>9. QED
    BY <2>7, <2>8 DEF CS!Next
<1>3. ASSUME UNCHANGED <<entries, dest, key>>, pc[p] \in Calling,
             pc' = [pc EXCEPT ![p] = pc'[p]], pc'[p] # "served"
      PROVE  ServedInv' /\ [CS!Next]_(CS!vars)
  <2>1. store' = store /\ result' = result
    BY <1>3
  <2>2. QED
    BY <1>3, <2>1 DEF CS!vars
<1>4. ASSUME UNCHANGED <<entries, dest, key>>, k \in entries,
             pc' = [pc EXCEPT ![p] = "served"]
      PROVE  ServedInv' /\ [CS!Next]_(CS!vars)
  <2>1. store' = store /\ result' = [result EXCEPT ![p] = store[k]]
    BY <1>0, <1>4
  <2>2. CS!Get(p, k)
    BY <1>0, <1>1, <1>4, <2>1 DEF CS!Get
  <2>3. ServedInv'
    BY <1>0, <1>4
  <2>4. QED
    BY <2>2, <2>3 DEF CS!Next
<1>5. CASE Rename(p)
  <2>1. p \in temps /\ tmp[p] = Parts /\ pc[p] \in Calling /\ key' = key
    BY <1>0, <1>5 DEF Rename
  <2>2. CASE dest[k] # {}
    <3>1. k \in entries
      BY <2>2
    <3>2. UNCHANGED <<entries, dest>> /\ \/ pc' = [pc EXCEPT ![p] = "served"]
                                         \/ pc' = [pc EXCEPT ![p] = "collided"]
      BY <1>0, <1>5, <2>1, <2>2, CacheAssumption DEF Rename, LostRace
    <3>3. QED
      BY <1>3, <1>4, <2>1, <3>1, <3>2
  <2>3. CASE dest[k] = {}
    <3>1. k \notin entries
      <4>1. ASSUME NEW w \in Procs PROVE <<1, w>> \in Parts \X {w}
        BY CacheAssumption
      <4>2. ~Whole(k)
        BY <2>3, <4>1 DEF Whole
      <4>3. QED
        BY <4>2 DEF EntriesWhole
    <3>2. /\ entries' = entries \cup {k}
          /\ dest' = [dest EXCEPT ![k] = Parts \X {p}]
          /\ pc' = [pc EXCEPT ![p] = "served"]
      BY <1>0, <1>5, <2>1, <2>3 DEF Rename
    <3>3. dest'[k] = Parts \X {p} /\ WriterIn(dest'[k]) = p
      BY <3>2, WriterOfWhole
    <3>4. store' = [store EXCEPT ![k] = p]
      BY <3>2, <3>3
    <3>5. \A q \in Procs \ {p} : result'[q] = result[q]
      BY <1>0, <2>1, <3>1, <3>2
    <3>6. result' = [result EXCEPT ![p] = p]
      BY <1>0, <2>1, <3>2, <3>3, <3>5
    <3>7. CS!Put(p, k)
      BY <3>1, <3>4, <3>6 DEF CS!Put
    <3>8. ServedInv'
      BY <1>0, <2>1, <3>2
    <3>9. QED
      BY <3>7, <3>8 DEF CS!Next
  <2>4. QED
    BY <2>2, <2>3
<1>6. CASE Read(p)
  <2>1. pc' = [pc EXCEPT ![p] = "failed"] \/ (pc' = [pc EXCEPT ![p] = "served"] /\ k \in entries)
    BY <1>0, <1>6 DEF Read
  <2>2. QED
    BY <1>3, <1>4, <1>6, <2>1 DEF Read
<1>7. CASE CommitFindsEntry(p)
  BY <1>0, <1>4, <1>7 DEF CommitFindsEntry, DestinationExists
<1>8. CASE Probe(p) \/ Acquire(p) \/ WorkFails(p) \/ WorkDone(p)
  BY <1>3, <1>8 DEF Probe, AfterMiss, Acquire, WorkFails, WorkDone
<1>9. CASE Mkdtemp(p) \/ WritePart(p) \/ Crash(p)
  BY <1>3, <1>9 DEF Mkdtemp, WritePart, Crash
<1>10. QED
  BY <1>2, <1>5, <1>6, <1>7, <1>8, <1>9 DEF Step

\* Without prune and clean the cache keeps the promise of ContentStore: its
\* file-system calls, locked or not, amount to storing whole values once.
THEOREM ImplementsPromise ==
  ASSUME ~Maintenance
  PROVE  Spec => Promise
<1>1. Init => CS!Init /\ ServedInv
  BY DEF Init, CS!Init, ServedInv
<1>2. TypeInv /\ FillInv /\ FillInv' /\ ServedInv /\ [Next]_vars
        => ServedInv' /\ [CS!Next]_(CS!vars)
  <2> SUFFICES ASSUME TypeInv, FillInv, FillInv', ServedInv, [Next]_vars
               PROVE  ServedInv' /\ [CS!Next]_(CS!vars)
    OBVIOUS
  <2>1. ~Maintain
    BY ~Maintenance, NobodyMaintains
  <2>2. ASSUME NEW p \in Procs, Call(p) \/ Step(p) \/ Crash(p)
        PROVE  ServedInv' /\ [CS!Next]_(CS!vars)
    BY <2>2, StepImplements
  <2>3. CASE UNCHANGED vars
    BY <2>3 DEF ServedInv, CS!vars
  <2>4. QED
    BY <2>1, <2>2, <2>3 DEF Next
<1>3. QED
  BY <1>1, <1>2, TypeInvariance, FillInvariance, PTL DEF Spec, Promise, CS!Spec
=============================================================================

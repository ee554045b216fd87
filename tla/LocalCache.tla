----------------------------- MODULE LocalCache -----------------------------
(***************************************************************************)
(* The content-addressed disk cache (src/k_dash/cache.py) at the grain of  *)
(* the file-system calls it makes, with every process that reads, fills,   *)
(* prunes or cleans it.                                                    *)
(*                                                                         *)
(* One entry is a directory builds/<BuildKey> (NParts = 2: config.json,    *)
(* kernel.so) or releases/<digest> (NParts = 3: config.json,               *)
(* source.tar.zst, source/).  Part 1 is config.json, the part that a hit   *)
(* reads.  Each stored part carries the process that wrote it, so that an  *)
(* entry mixing two builds can be told from a whole one.                   *)
(*                                                                         *)
(* A process of Lockers fills the entry as runtime.materialize does: look, *)
(* take the per-BuildKey flock, look again, work, commit.  The others do   *)
(* it without the lock: api.get for a Release, publish.local_build, and    *)
(* publish.publish_release, which does not even look first.                *)
(***************************************************************************)
EXTENDS Naturals, FiniteSets

CONSTANTS
  Procs,        \* processes and threads using one cache root
  Keys,         \* the entries they ask for
  NParts,       \* number of files of an entry
  Lockers,      \* the processes that hold the key's lock while they fill
  Maintenance,  \* whether `cache prune` and `cache clean` are ever run
  RaceErrno,    \* what rename(2) reports when the destination is not empty
  Nobody, NoKey \* "no process" and "no entry"

ASSUME CacheAssumption ==
  /\ Procs # {}
  /\ NParts \in Nat \ {0}
  /\ Lockers \subseteq Procs
  /\ Maintenance \in BOOLEAN
  /\ RaceErrno \in {"EEXIST", "ENOTEMPTY"}
  /\ Nobody \notin Procs
  /\ NoKey \notin Keys \cup Procs
  /\ Keys \cap Procs = {}

VARIABLES
  pc,       \* where each process is in its call
  key,      \* the key of that call
  wrote,    \* how many parts the call has written to its temporary directory
  temps,    \* processes whose temporary directory tmp/build-* exists
  tmp,      \* the parts in that directory
  entries,  \* keys whose destination directory exists
  dest,     \* <<part, writer>> pairs in the destination directory
  holder,   \* which process holds locks/<key>.lock
  maint,    \* what the maintenance command is doing
  victim    \* the entry, or the process whose temporary directory, is in rmtree

vars == <<pc, key, wrote, temps, tmp, entries, dest, holder, maint, victim>>
disk == <<temps, tmp, entries, dest>>
janitor == <<maint, victim>>

Parts == 1 .. NParts
ConfigJson == 1

Returned == {"served", "failed", "collided"}
Working == {"work", "exists", "write", "rename"}
Calling == {"probe", "read", "lock"} \cup Working

TypeOK ==
  /\ pc \in [Procs -> {"idle"} \cup Calling \cup Returned]
  /\ key \in [Procs -> Keys]
  /\ wrote \in [Procs -> 0 .. NParts]
  /\ temps \subseteq Procs
  /\ tmp \in [Procs -> SUBSET Parts]
  /\ entries \subseteq Keys
  /\ dest \in [Keys -> SUBSET (Parts \X Procs)]
  /\ holder \in [Keys -> Procs \cup {Nobody}]
  /\ maint \in {"idle", "prune", "clean_entries", "mk_entries", "clean_tmp", "mk_tmp"}
  /\ victim \in Keys \cup Procs \cup {NoKey}

Init ==
  /\ pc = [p \in Procs |-> "idle"]
  /\ key \in [Procs -> Keys]
  /\ wrote = [p \in Procs |-> 0]
  /\ temps = {}
  /\ tmp = [p \in Procs |-> {}]
  /\ entries = {}
  /\ dest = [k \in Keys |-> {}]
  /\ holder = [k \in Keys |-> Nobody]
  /\ maint = "idle"
  /\ victim = NoKey

-----------------------------------------------------------------------------
(* Parts of the handlers.                                                  *)

\* Every is_file()/is_dir() test of get_build or get_release succeeds.
AllPartsPresent(k) == \A i \in Parts : \E w \in Procs : <<i, w>> \in dest[k]

\* The destination exists, as commit_build and commit_release test it.
DestinationExists(k) == k \in entries

\* Mutant: the lock survives the `with`.
LockKept(p) == holder

\* Leaving `with cache.build_lock(key)`, normally or by an exception.
Unlocked(p) == [k \in Keys |-> IF holder[k] = p THEN Nobody ELSE holder[k]]

Goto(p, l) == pc' = [pc EXCEPT ![p] = l]

\* The call of p returns or raises; the lock is released on the way out.
Return(p, outcome) == Goto(p, outcome) /\ holder' = Unlocked(p)

\* Mutant: no lock around the work.
MissUnlocked(p) == "work"

\* Where a miss leads: to the lock for a locker that has not got it yet.
AfterMiss(p) == IF p \in Lockers /\ holder[key[p]] # p THEN "lock" ELSE "work"

-----------------------------------------------------------------------------
(* The calls.                                                              *)

\* What clean is doing once Cache() has made a missing directory again: it
\* goes on, or it had died there.
DirsMade == CASE maint = "mk_entries" -> {"clean_tmp", "idle"}
              [] maint = "mk_tmp" -> {"idle"}
              [] OTHER -> {maint}

\* A new call, with a Cache() of its own.  publish_release commits without
\* looking first.
Call(p) ==
  /\ pc[p] \in {"idle"} \cup Returned
  /\ \E k \in Keys : key' = [key EXCEPT ![p] = k]
  /\ \/ Goto(p, "probe")
     \/ p \notin Lockers /\ Goto(p, "work")
  /\ maint' \in DirsMade
  /\ UNCHANGED <<wrote, disk, holder, victim>>

\* get_build / get_release: the existence tests.
Probe(p) ==
  /\ pc[p] = "probe"
  /\ Goto(p, IF AllPartsPresent(key[p]) THEN "read" ELSE AfterMiss(p))
  /\ UNCHANGED <<key, wrote, disk, holder, janitor>>

\* get_build / get_release: reading config.json.  A file that was unlinked
\* since the test is an uncaught FileNotFoundError.
Read(p) ==
  /\ pc[p] = "read"
  /\ Return(p, IF \E w \in Procs : <<ConfigJson, w>> \in dest[key[p]]
               THEN "served" ELSE "failed")
  /\ UNCHANGED <<key, wrote, disk, janitor>>

\* Mutant: no second look at the cache.
AcquireNoRecheck(p) ==
  /\ pc[p] = "lock"
  /\ holder[key[p]] = Nobody
  /\ holder' = [holder EXCEPT ![key[p]] = p]
  /\ Goto(p, "work")
  /\ UNCHANGED <<key, wrote, disk, janitor>>

\* build_lock: flock(LOCK_EX), then the second look at the cache.
Acquire(p) ==
  /\ pc[p] = "lock"
  /\ holder[key[p]] = Nobody
  /\ holder' = [holder EXCEPT ![key[p]] = p]
  /\ Goto(p, "probe")
  /\ UNCHANGED <<key, wrote, disk, janitor>>

\* Download or Local JIT: it fails, and nothing is committed ...
WorkFails(p) ==
  /\ pc[p] = "work"
  /\ Return(p, "failed")
  /\ UNCHANGED <<key, wrote, disk, janitor>>

\* ... or it delivers a validated result to commit_build/commit_release.
WorkDone(p) ==
  /\ pc[p] = "work"
  /\ Goto(p, "exists")
  /\ UNCHANGED <<key, wrote, disk, holder, janitor>>

\* Mutant: an entry that lacks files is completed.
CommitRepairs(p) ==
  LET k == key[p]
      lacking == {i \in Parts : \A w \in Procs : <<i, w>> \notin dest[k]}
  IN
  /\ pc[p] = "exists"
  /\ DestinationExists(k)
  /\ dest' = [dest EXCEPT ![k] = @ \cup (lacking \X {p})]
  /\ Return(p, "served")
  /\ UNCHANGED <<key, wrote, temps, tmp, entries, janitor>>

\* commit: somebody else's entry is there, and it is returned as it is.
CommitFindsEntry(p) ==
  /\ pc[p] = "exists"
  /\ DestinationExists(key[p])
  /\ Return(p, "served")
  /\ UNCHANGED <<key, wrote, disk, janitor>>

\* commit: mkdtemp, which fails while `clean` has tmp/ removed.
Mkdtemp(p) ==
  /\ pc[p] = "exists"
  /\ ~DestinationExists(key[p])
  /\ IF maint = "mk_tmp"
     THEN Return(p, "failed") /\ UNCHANGED <<temps, tmp, wrote>>
     ELSE /\ temps' = temps \cup {p}
          /\ tmp' = [tmp EXCEPT ![p] = {}]
          /\ wrote' = [wrote EXCEPT ![p] = 0]
          /\ Goto(p, "write")
          /\ UNCHANGED holder
  /\ UNCHANGED <<key, entries, dest, janitor>>

\* Mutant: the files are written where the readers look for them.
WriteInPlace(p) ==
  /\ pc[p] = "write"
  /\ dest' = [dest EXCEPT ![key[p]] = @ \cup {<<wrote[p] + 1, p>>}]
  /\ entries' = entries \cup {key[p]}
  /\ wrote' = [wrote EXCEPT ![p] = @ + 1]
  /\ IF wrote[p] + 1 = NParts THEN Return(p, "served")
                             ELSE Goto(p, "write") /\ UNCHANGED holder
  /\ UNCHANGED <<key, temps, tmp, janitor>>

\* The maintenance command raises, and ends.
Abort == maint' = "idle" /\ victim' = NoKey

\* commit: the next file is written, or it is not (the disk is full, or the
\* temporary directory has been removed).  Then `finally` removes what is there
\* of that directory, under the hands of an rmtree that is at work in it.
WritePart(p) ==
  /\ pc[p] = "write"
  /\ \/ /\ p \in temps
        /\ tmp' = [tmp EXCEPT ![p] = @ \cup {wrote[p] + 1}]
        /\ wrote' = [wrote EXCEPT ![p] = @ + 1]
        /\ Goto(p, IF wrote[p] + 1 = NParts THEN "rename" ELSE "write")
        /\ UNCHANGED <<holder, temps, janitor>>
     \/ /\ temps' = temps \ {p}
        /\ Return(p, "failed")
        /\ IF victim = p THEN Abort ELSE UNCHANGED janitor
        /\ UNCHANGED <<tmp, wrote>>
  /\ UNCHANGED <<key, entries, dest>>

\* What rename(2) onto a non-empty directory becomes in commit_build: only
\* EEXIST is a FileExistsError, and is ignored; ENOTEMPTY is a plain OSError.
LostRace == IF RaceErrno = "EEXIST" THEN "served" ELSE "collided"

\* Mutant: the destination is overwritten (rmtree, then rename).
RenameOverwrites(p) ==
  /\ pc[p] = "rename"
  /\ temps' = temps \ {p}
  /\ dest' = [dest EXCEPT ![key[p]] = tmp[p] \X {p}]
  /\ entries' = entries \cup {key[p]}
  /\ Return(p, "served")
  /\ UNCHANGED <<key, wrote, tmp, janitor>>

\* commit: rename to the destination, then `finally` removes what is left of
\* the temporary directory.  An empty destination is replaced.  rmtree works
\* on open directories: one that was emptying this temporary directory goes
\* on in the entry it has become, and one that had emptied the destination
\* ends the command with a failing rmdir.
Rename(p) ==
  LET k == key[p]
      Possible == p \in temps /\ maint # "mk_entries"
  IN
  /\ pc[p] = "rename"
  /\ temps' = temps \ {p}
  /\ \/ /\ ~Possible
        /\ Return(p, "failed")
        /\ UNCHANGED <<entries, dest, janitor>>
     \/ /\ Possible
        /\ dest[k] = {}
        /\ dest' = [dest EXCEPT ![k] = tmp[p] \X {p}]
        /\ entries' = entries \cup {k}
        /\ Return(p, "served")
        /\ CASE victim = k -> Abort
             [] victim = p -> victim' = k /\ UNCHANGED maint
             [] OTHER -> UNCHANGED janitor
     \/ /\ Possible
        /\ dest[k] # {}
        /\ \/ Return(p, LostRace)
           \/ victim = p /\ Return(p, "failed")
        /\ IF victim = p THEN Abort ELSE UNCHANGED janitor
        /\ UNCHANGED <<entries, dest>>
  /\ UNCHANGED <<key, wrote, tmp>>

\* The process dies.  The OS drops its lock.  Its temporary directory stays
\* behind under a name nobody takes again; as only a `clean` that removes all
\* of tmp/ ever comes across it, the model drops it at once.
Crash(p) ==
  /\ pc[p] \in Calling
  /\ Return(p, "idle")
  /\ temps' = temps \ {p}
  /\ victim' = IF victim = p THEN NoKey ELSE victim
  /\ UNCHANGED <<key, wrote, tmp, entries, dest, maint>>

-----------------------------------------------------------------------------
(* cache prune and cache clean: shutil.rmtree, one call at a time.         *)

Janitor(from, to) == Maintenance /\ maint = from /\ victim = NoKey /\ maint' = to

StartPrune ==
  /\ Janitor("idle", "prune")
  /\ UNCHANGED <<pc, key, wrote, disk, holder, victim>>

StartClean ==
  /\ Janitor("idle", "clean_entries")
  /\ UNCHANGED <<pc, key, wrote, disk, holder, victim>>

\* The next entry to remove.
PickVictim(k) ==
  /\ maint \in {"prune", "clean_entries"}
  /\ victim = NoKey
  /\ k \in entries
  /\ victim' = k
  /\ UNCHANGED <<pc, key, wrote, disk, holder, maint>>

\* One file of it, in whatever order the directory lists them ...
Unlink ==
  /\ victim \in Keys
  /\ \E f \in dest[victim] : dest' = [dest EXCEPT ![victim] = @ \ {f}]
  /\ UNCHANGED <<pc, key, wrote, temps, tmp, entries, holder, janitor>>

\* ... then the directory, by the name it had when it was listed.
RmDir ==
  /\ victim \in Keys
  /\ dest[victim] = {}
  /\ IF maint = "clean_tmp"
     THEN Abort /\ UNCHANGED entries
     ELSE entries' = entries \ {victim} /\ victim' = NoKey /\ UNCHANGED maint
  /\ UNCHANGED <<pc, key, wrote, temps, tmp, dest, holder>>

\* prune stops as soon as the cache is small enough.
EndPrune ==
  /\ Janitor("prune", "idle")
  /\ UNCHANGED <<pc, key, wrote, disk, holder, victim>>

\* clean removes builds/ itself, which fails if an entry has appeared in it.
RmEntriesRoot ==
  /\ Janitor("clean_entries", IF entries = {} THEN "mk_entries" ELSE "idle")
  /\ UNCHANGED <<pc, key, wrote, disk, holder, victim>>

MkEntries ==
  /\ Janitor("mk_entries", "clean_tmp")
  /\ UNCHANGED <<pc, key, wrote, disk, holder, victim>>

\* clean empties tmp/, whoever is writing there ...
PickTemp(p) ==
  /\ maint = "clean_tmp"
  /\ victim = NoKey
  /\ p \in temps
  /\ victim' = p
  /\ UNCHANGED <<pc, key, wrote, disk, holder, maint>>

UnlinkTemp ==
  /\ victim \in Procs
  /\ \E i \in tmp[victim] : tmp' = [tmp EXCEPT ![victim] = @ \ {i}]
  /\ UNCHANGED <<pc, key, wrote, temps, entries, dest, holder, janitor>>

RmTemp ==
  /\ victim \in Procs
  /\ tmp[victim] = {}
  /\ temps' = temps \ {victim}
  /\ victim' = NoKey
  /\ UNCHANGED <<pc, key, wrote, tmp, entries, dest, holder, maint>>

\* ... and removes and recreates it.
RmTmpRoot ==
  /\ Janitor("clean_tmp", IF temps = {} THEN "mk_tmp" ELSE "idle")
  /\ UNCHANGED <<pc, key, wrote, disk, holder, victim>>

MkTmp ==
  /\ Janitor("mk_tmp", "idle")
  /\ UNCHANGED <<pc, key, wrote, disk, holder, victim>>

\* The maintenance command dies half way.  (Where a directory is missing, that
\* is to stop there until the next Call.)
MaintCrash ==
  /\ maint \in {"prune", "clean_entries", "clean_tmp"}
  /\ Abort
  /\ UNCHANGED <<pc, key, wrote, disk, holder>>

Maintain ==
  \/ StartPrune \/ StartClean \/ Unlink \/ RmDir \/ EndPrune
  \/ RmEntriesRoot \/ MkEntries \/ RmTmpRoot \/ MkTmp \/ MaintCrash
  \/ UnlinkTemp \/ RmTemp
  \/ \E k \in Keys : PickVictim(k)
  \/ \E p \in Procs : PickTemp(p)

\* What p does by itself once it has been called.
Step(p) ==
  \/ Probe(p) \/ Read(p) \/ Acquire(p) \/ WorkFails(p) \/ WorkDone(p)
  \/ CommitFindsEntry(p) \/ Mkdtemp(p) \/ WritePart(p) \/ Rename(p)

Next == Maintain \/ \E p \in Procs : Call(p) \/ Step(p) \/ Crash(p)

Spec == Init /\ [][Next]_vars

\* Every system call returns, and the download or the JIT under the lock ends:
\* each registry request and each build has a timeout (oci.py, builder.py).
\* flock is not assumed to be fair.
FairSpec == Spec /\ \A p \in Procs : WF_vars(Step(p))

-----------------------------------------------------------------------------
(* Properties.                                                             *)

\* The entry holds all its files, and one process wrote them all.
Whole(k) == \E w \in Procs : dest[k] = Parts \X {w}

\* A reader can never see half an entry, or one build's config.json beside
\* another's kernel.so: commit_build and commit_release write aside and rename.
\* Without prune and clean.
EntriesWhole == \A k \in entries : Whole(k)

\* Even with prune and clean at work, what is in an entry was written by one
\* process (rename replaces a directory or fails, it never merges).
Unmixed ==
  \A k \in Keys : \E w \in Procs : dest[k] \subseteq Parts \X {w}

\* A content-addressed entry is never overwritten (docs/design/local-cache.md):
\* where a file is, only prune and clean change anything, and they only remove.
\* So what they leave of an entry if they die is not repaired either:
\* commit_build returns it as it is.
NeverOverwritten ==
  [][\A k \in Keys : dest[k] # {} /\ dest'[k] # dest[k] =>
       victim = k /\ dest'[k] \subseteq dest[k] /\ UNCHANGED pc]_vars

\* A call that returns successfully returns an entry with all its files (the
\* path api.get hands out can be loaded).  Without prune and clean.
ServedIsWhole ==
  [][\A p \in Procs :
       pc[p] \in Calling /\ pc'[p] = "served" => Whole(key[p])']_vars

\* build_lock serializes the work on one BuildKey: a locker downloads or
\* compiles with the lock in hand, and no other one does (ADR-0043).
SingleFlight ==
  \A p \in Lockers :
    pc[p] \in Working =>
      /\ holder[key[p]] = p
      /\ \A q \in Lockers \ {p} :
           pc[q] \in Working => key[q] # key[p]

\* The second look at the cache saves the work: if a locker downloads, compiles
\* or commits an entry that is there, it is one that somebody else has put there
\* without the lock.  Without prune and clean.
WorkOnlyIfAbsent ==
  \A p \in Lockers :
    pc[p] \in Working /\ key[p] \in entries =>
      dest[key[p]] \subseteq Parts \X (Procs \ Lockers)

\* No call loses the race for the destination in a way commit_build and
\* commit_release do not handle.
NoCollision == \A p \in Procs : pc[p] # "collided"

\* A lock is held by a process that is inside `with build_lock` for that key:
\* no return, exception or crash leaves one behind.
LockIsOwned ==
  \A k \in Keys : holder[k] # Nobody =>
    /\ pc[holder[k]] \in Calling \ {"lock"}
    /\ key[holder[k]] = k

\* Whoever asks for an entry that is there gets away, also those that queued
\* for its lock before it was there: they find it when they look again, and
\* nobody takes the lock of a filled key for long.  Without prune and clean.
FilledKeyReturns ==
  \A p \in Procs : (pc[p] \in Calling /\ key[p] \in entries) ~> pc[p] \notin Calling

\* The process that wrote the files d.
WriterIn(d) == CHOOSE w \in Procs : \E f \in d : f[2] = w

\* The cache of whole entries that never change: ContentStore.
CS == INSTANCE ContentStore WITH
  store <- [k \in Keys |-> IF k \in entries THEN WriterIn(dest[k]) ELSE Nobody],
  result <- [p \in Procs |-> IF pc[p] = "served" THEN WriterIn(dest[key[p]]) ELSE Nobody]

\* Without prune and clean this module implements ContentStore: readers,
\* lockers and the callers that take no lock see one value appear per entry.
Promise == CS!Spec
=============================================================================

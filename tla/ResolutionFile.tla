--------------------------- MODULE ResolutionFile ---------------------------
(***************************************************************************)
(* One cached resolution, resolutions/<registry>/<kernel>/<version>.json   *)
(* (cache.put_resolution and cache.get_resolution), with the processes     *)
(* that read and write it.                                                 *)
(*                                                                         *)
(* put_resolution writes <version>.tmp beside the file and renames it.     *)
(* All writers share that one temporary name and no lock, so a file is     *)
(* modelled as an inode that a name, or a process that has it open, refers *)
(* to.                                                                     *)
(***************************************************************************)
EXTENDS Naturals, FiniteSets

CONSTANTS
  Writers,   \* calls that resolve the version themselves and cache the answer
  Readers,   \* calls that use the cached resolution
  Digests,   \* what the version has been bound to
  Removal,   \* whether `cache clean` is ever run
  None       \* "no value"

Procs == Writers \cup Readers
Empty == "empty"

ASSUME ResolutionAssumption ==
  /\ IsFiniteSet(Procs)
  /\ Writers \cap Readers = {}
  /\ Digests # {}
  /\ Removal \in BOOLEAN
  /\ None \notin Digests /\ Empty \notin Digests

\* Enough for the two names and one open file per writer.
Inodes == 1 .. Cardinality(Writers) + 2

VARIABLES
  content,  \* content[i]: the digest in inode i, or Empty
  file,     \* the inode <version>.json names, or 0
  tmp,      \* the inode <version>.tmp names, or 0
  dir,      \* whether resolutions/<registry>/<kernel> exists
  pc,       \* where each process is
  fd,       \* the inode a writer has open, or 0
  value,    \* the digest it writes, or has read
  \* History, for the properties.
  orphans,  \* inodes a writer truncated and died before writing
  crossed,  \* calls during which another process changed the file, its name or
            \* its directory
  shared    \* inodes that such a call gave the name of the file

vars == <<content, file, tmp, dir, pc, fd, value, orphans, crossed, shared>>
names == <<file, tmp, dir>>

Busy == {"look", "read", "mkdir", "open", "write", "rename"}

TypeOK ==
  /\ content \in [Inodes -> Digests \cup {Empty}]
  /\ file \in Inodes \cup {0}
  /\ tmp \in Inodes \cup {0}
  /\ dir \in BOOLEAN
  /\ pc \in [Procs -> Busy \cup {"idle", "done", "failed", "torn"}]
  /\ fd \in [Procs -> Inodes \cup {0}]
  /\ value \in [Procs -> Digests \cup {None}]
  /\ orphans \subseteq Inodes
  /\ crossed \subseteq Procs
  /\ shared \subseteq Inodes

Init ==
  /\ content = [i \in Inodes |-> Empty]
  /\ file = 0 /\ tmp = 0 /\ dir = FALSE
  /\ pc = [p \in Procs |-> "idle"]
  /\ fd = [p \in Procs |-> 0]
  /\ value = [p \in Procs |-> None]
  /\ orphans = {}
  /\ crossed = {}
  /\ shared = {}

-----------------------------------------------------------------------------
Goto(p, l) == pc' = [pc EXCEPT ![p] = l]

\* The processes in the middle of a call, other than those of P, see a change.
Crosses(P) == crossed' = crossed \cup {q \in Procs \ P : pc[q] \in Busy}

Free == Inodes \ ({file, tmp} \cup {fd[q] : q \in Procs})

\* A call begins.  resolve_release reads first; publish_release only writes.
Call(p) ==
  /\ pc[p] \notin Busy
  /\ \/ Goto(p, "look") /\ value' = [value EXCEPT ![p] = None]
     \/ /\ p \in Writers
        /\ Goto(p, "mkdir")
        /\ \E d \in Digests : value' = [value EXCEPT ![p] = d]
  /\ crossed' = crossed \ {p}
  /\ UNCHANGED <<content, names, fd, orphans, shared>>

\* get_resolution: is_file().  A writer that finds nothing asks the registry.
Look(p) ==
  /\ pc[p] = "look"
  /\ \/ file # 0 /\ Goto(p, "read") /\ UNCHANGED value
     \/ file = 0 /\ p \in Readers /\ Goto(p, "done") /\ UNCHANGED value
     \/ /\ file = 0 /\ p \in Writers
        /\ Goto(p, "mkdir")
        /\ \E d \in Digests : value' = [value EXCEPT ![p] = d]
  /\ UNCHANGED <<content, names, fd, orphans, crossed, shared>>

\* get_resolution: read_text() and json.loads(), which refuses an empty text.
\* A writer resolves a dev version whatever it has read.
Read(p) ==
  /\ pc[p] = "read"
  /\ \/ file = 0 /\ Goto(p, "failed") /\ UNCHANGED value
     \/ file # 0 /\ content[file] = Empty /\ Goto(p, "torn") /\ UNCHANGED value
     \/ /\ file # 0 /\ content[file] # Empty
        /\ \/ Goto(p, "done") /\ value' = [value EXCEPT ![p] = content[file]]
           \/ /\ p \in Writers
              /\ Goto(p, "mkdir")
              /\ \E d \in Digests : value' = [value EXCEPT ![p] = d]
  /\ UNCHANGED <<content, names, fd, orphans, crossed, shared>>

\* put_resolution: path.parent.mkdir(parents=True, exist_ok=True).
Mkdir(p) ==
  /\ pc[p] = "mkdir"
  /\ dir' = TRUE
  /\ Goto(p, "open")
  /\ UNCHANGED <<content, file, tmp, fd, value, orphans, crossed, shared>>

\* Mutant: open(tmp, "xb") refuses the file that a dead writer has left.
OpenExclusive(p) ==
  /\ pc[p] = "open"
  /\ IF ~dir \/ tmp # 0
     THEN Goto(p, "failed") /\ UNCHANGED <<tmp, fd, content, orphans, crossed>>
     ELSE \E i \in {CHOOSE j \in Free : TRUE} :
            /\ tmp' = i
            /\ fd' = [fd EXCEPT ![p] = i]
            /\ content' = [content EXCEPT ![i] = Empty]
            /\ orphans' = orphans \ {i}
            /\ Crosses({p})
            /\ Goto(p, "write")
  /\ UNCHANGED <<file, dir, value, shared>>

\* write_bytes: open(tmp, "wb") makes the file or truncates the one there.
Open(p) ==
  /\ pc[p] = "open"
  /\ IF ~dir
     THEN Goto(p, "failed") /\ UNCHANGED <<tmp, fd, content, orphans, crossed>>
     ELSE \E i \in IF tmp # 0 THEN {tmp} ELSE {CHOOSE j \in Free : TRUE} :
            /\ tmp' = i
            /\ fd' = [fd EXCEPT ![p] = i]
            /\ content' = [content EXCEPT ![i] = Empty]
            /\ orphans' = orphans \ {i}
            /\ Crosses({p})
            /\ Goto(p, "write")
  /\ UNCHANGED <<file, dir, value, shared>>

\* Mutant: the data is still in a buffer when the file is renamed.
WriteLater(p) ==
  /\ pc[p] = "write"
  /\ Goto(p, "rename")
  /\ UNCHANGED <<content, names, fd, value, orphans, crossed, shared>>

\* write_bytes: the data, and close().  One write of a short text.
Write(p) ==
  /\ pc[p] = "write"
  /\ content' = [content EXCEPT ![fd[p]] = value[p]]
  /\ fd' = [fd EXCEPT ![p] = 0]
  /\ orphans' = orphans \ {fd[p]}
  /\ Crosses({p})
  /\ Goto(p, "rename")
  /\ UNCHANGED <<names, value, shared>>

\* temporary.replace(path): of whatever has that name by now, if anything.
Rename(p) ==
  /\ pc[p] = "rename"
  /\ IF tmp = 0
     THEN Goto(p, "failed") /\ UNCHANGED <<file, tmp, crossed, shared>>
     ELSE /\ file' = tmp /\ tmp' = 0
          /\ shared' = IF p \in crossed THEN shared \cup {tmp} ELSE shared \ {tmp}
          /\ Crosses({p})
          /\ Goto(p, "done")
  /\ UNCHANGED <<content, dir, fd, value, orphans>>

\* The process dies.
Die(p) ==
  /\ pc[p] \in Busy
  /\ orphans' = IF pc[p] = "write" /\ content[fd[p]] = Empty
                THEN orphans \cup {fd[p]} ELSE orphans
  /\ fd' = [fd EXCEPT ![p] = 0]
  /\ value' = [value EXCEPT ![p] = None]
  /\ Goto(p, "idle")
  /\ UNCHANGED <<content, names, crossed, shared>>

\* cache clean: rmtree of resolutions/.
Unlink ==
  /\ Removal
  /\ \/ file # 0 /\ file' = 0 /\ UNCHANGED tmp
     \/ tmp # 0 /\ tmp' = 0 /\ UNCHANGED file
  /\ Crosses({})
  /\ UNCHANGED <<content, dir, pc, fd, value, orphans, shared>>

\* The directory goes last.  Those above it go and come with it (parents=True):
\* they are modelled as one.
RmDir ==
  /\ Removal
  /\ dir /\ file = 0 /\ tmp = 0
  /\ dir' = FALSE
  /\ Crosses({})
  /\ UNCHANGED <<content, file, tmp, pc, fd, value, orphans, shared>>

Step(p) == Look(p) \/ Read(p) \/ Mkdir(p) \/ Open(p) \/ Write(p) \/ Rename(p)

Next ==
  \/ Unlink \/ RmDir
  \/ \E p \in Procs : Call(p) \/ Step(p) \/ Die(p)

Spec == Init /\ [][Next]_vars

-----------------------------------------------------------------------------
(* Properties.                                                             *)

\* Whoever opens the resolution finds a digest in it: it is written aside and
\* renamed ("every write is made in a temporary directory ... and committed
\* by an atomic rename", ADR-0043).
NeverTorn == file # 0 => content[file] \in Digests

\* It can be empty, but only for as long as a writer that found the temporary
\* file of another is about to write to it, or because one died just then.
TornHasACause ==
  file # 0 /\ content[file] = Empty =>
    file \in orphans \/ \E p \in Writers : pc[p] = "write" /\ fd[p] = file

\* No call fails for anything a single writer does, or leaves behind when it
\* dies, at whatever point.  It may want the file, its temporary file or their
\* directory only if a writer or clean came between, and find the file empty
\* only if somebody came between the call that gave the file its name and the
\* file.  (Such an empty file stays, and fails every call that reads it, until
\* somebody writes without reading, or cleans.)
FailuresAreShared ==
  [][\A p \in Procs : pc'[p] # pc[p] =>
       /\ pc'[p] = "failed" => p \in crossed
       /\ pc'[p] = "torn" => file \in shared]_vars
=============================================================================

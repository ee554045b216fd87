------------------------ MODULE ResolutionFileProofs ------------------------
(***************************************************************************)
(* What ResolutionFile promises for any finite number of writers and       *)
(* readers, with or without `cache clean`.                                 *)
(***************************************************************************)
EXTENDS ResolutionFile, FiniteSetTheorems, TLAPS

(***************************************************************************)
(* The invariant, in parts.                                                *)
(***************************************************************************)

\* Only writers write, they have something to write, and a file is open
\* between open() and close() only.
Writing ==
  \A p \in Procs :
    /\ pc[p] \in {"mkdir", "open", "write", "rename"} => p \in Writers /\ value[p] \in Digests
    /\ fd[p] # 0 <=> pc[p] = "write"

\* Why the inode i may be empty.
HasACause(i) == i \in orphans \/ \E p \in Writers : pc[p] = "write" /\ fd[p] = i

\* The temporary file becomes the file with all that it lacks.
EmptyHasACause ==
  \A i \in {file, tmp} \ {0} : content[i] = Empty => HasACause(i)

\* What a call has seen or made is still there, if nobody else changed anything.
Undisturbed ==
  \A p \in Procs : p \notin crossed =>
    /\ pc[p] = "read" => file # 0
    /\ pc[p] = "open" => dir
    /\ pc[p] \in {"write", "rename"} => tmp # 0
    /\ pc[p] = "write" => fd[p] = tmp
    /\ pc[p] = "rename" => content[tmp] # Empty

\* The two names are not of one inode, and the file is empty only if somebody
\* came between.
EmptyIsShared ==
  /\ tmp # 0 => tmp # file
  /\ file # 0 /\ content[file] = Empty => file \in shared

Inv == TypeOK /\ Writing /\ EmptyHasACause /\ Undisturbed /\ EmptyIsShared

-----------------------------------------------------------------------------
(* There is always an inode to make a file of.                             *)

\* There are finitely many writers, and two inodes more.
LEMMA WritersAreFinite ==
  IsFiniteSet(Writers) /\ Cardinality(Writers) \in Nat /\ IsFiniteSet(Inodes)
    /\ Cardinality(Inodes) = Cardinality(Writers) + 2
<1>1. IsFiniteSet(Writers)
  BY FS_Subset, ResolutionAssumption DEF Procs
<1>2. Cardinality(Writers) \in Nat
  BY <1>1, FS_CardinalityType
<1>3. IsFiniteSet(Inodes) /\ Cardinality(Inodes) = Cardinality(Writers) + 2
  BY <1>2, FS_Interval DEF Inodes
<1> QED  BY <1>1, <1>2, <1>3

\* The file and one open file per writer do not use up the inodes.
LEMMA FreeInode == Inv /\ tmp = 0 => Free # {}
<1> SUFFICES ASSUME Inv, tmp = 0, Free = {} PROVE FALSE
  OBVIOUS
<1> DEFINE n == Cardinality(Writers)
           Opened == {fd[q] : q \in Writers}
           f == [q \in Writers |-> fd[q]]
<1>1. f \in Surjection(Writers, Opened)
  BY DEF Surjection
<1>2. IsFiniteSet(Opened) /\ Cardinality(Opened) <= n /\ Cardinality(Opened) \in Nat
  <2> HIDE DEF f, Opened
  <2>1. IsFiniteSet(Opened) /\ Cardinality(Opened) <= n
    BY <1>1, FS_Surjection, WritersAreFinite
  <2> QED  BY <2>1, FS_CardinalityType
<1>3. IsFiniteSet(Opened \cup {file}) /\ Cardinality(Opened \cup {file}) <= n + 1
  <2> HIDE DEF Opened
  <2>1. /\ IsFiniteSet(Opened \cup {file})
        /\ Cardinality(Opened \cup {file})
             = IF file \in Opened THEN Cardinality(Opened) ELSE Cardinality(Opened) + 1
    BY <1>2, FS_AddElement
  <2> QED  BY <1>2, <2>1, WritersAreFinite
<1>4. Inodes \subseteq Opened \cup {file}
  <2> SUFFICES ASSUME NEW i \in Inodes PROVE i \in Opened \cup {file}
    OBVIOUS
  <2>1. i # 0
    BY WritersAreFinite DEF Inodes
  <2>2. i = file \/ \E q \in Procs : fd[q] = i
    BY <2>1 DEF Free
  <2> QED  BY <2>1, <2>2 DEF Inv, Writing
<1>5. Cardinality(Inodes) <= n + 1
  <2> HIDE DEF Opened
  <2>1. Cardinality(Inodes) <= Cardinality(Opened \cup {file})
    BY <1>3, <1>4, FS_Subset
  <2>2. Cardinality(Opened \cup {file}) \in Nat
    BY <1>3, FS_CardinalityType
  <2> QED  BY <1>3, <2>1, <2>2, WritersAreFinite
<1> QED  BY <1>5, WritersAreFinite

-----------------------------------------------------------------------------
(* The steps.                                                              *)

\* A call begins with nothing seen yet.
LEMMA CallKeeps ==
  ASSUME Inv, NEW p \in Procs, Call(p)
  PROVE  Inv'
<1> USE ResolutionAssumption DEF Inv, TypeOK, Call, Goto, names
<1>1. TypeOK'  BY DEF Busy, Procs
<1>2. Writing'  BY DEF Writing, Busy, Procs
<1>3. EmptyHasACause'  BY DEF EmptyHasACause, HasACause, Writing, Procs
<1>4. Undisturbed'  BY DEF Undisturbed, Writing, Busy, Procs
<1>5. EmptyIsShared'  BY DEF EmptyIsShared, Undisturbed, Writing, Procs
<1> QED  BY <1>1, <1>2, <1>3, <1>4, <1>5

\* What is read is there.
LEMMA LookKeeps ==
  ASSUME Inv, NEW p \in Procs, Look(p)
  PROVE  Inv'
<1> USE ResolutionAssumption DEF Inv, TypeOK, Look, Goto, names
<1>1. TypeOK'  BY DEF Busy, Procs
<1>2. Writing'  BY DEF Writing, Busy, Procs
<1>3. EmptyHasACause'  BY DEF EmptyHasACause, HasACause, Writing, Procs
<1>4. Undisturbed'  BY DEF Undisturbed, Writing, Busy, Procs
<1>5. EmptyIsShared'  BY DEF EmptyIsShared, Undisturbed, Writing, Procs
<1> QED  BY <1>1, <1>2, <1>3, <1>4, <1>5

\* A file that is gone was taken away by another.
LEMMA ReadKeeps ==
  ASSUME Inv, NEW p \in Procs, Read(p)
  PROVE  Inv'
<1> USE ResolutionAssumption DEF Inv, TypeOK, Read, Goto, names
<1>1. TypeOK'  BY DEF Busy, Procs
<1>2. Writing'  BY DEF Writing, Busy, Procs
<1>3. EmptyHasACause'  BY DEF EmptyHasACause, HasACause, Writing, Procs
<1>4. Undisturbed'  BY DEF Undisturbed, Writing, Busy, Procs
<1>5. EmptyIsShared'  BY DEF EmptyIsShared, Undisturbed, Writing, Procs
<1> QED  BY <1>1, <1>2, <1>3, <1>4, <1>5

\* The directory is there for the next step.
LEMMA MkdirKeeps ==
  ASSUME Inv, NEW p \in Procs, Mkdir(p)
  PROVE  Inv'
<1> USE ResolutionAssumption DEF Inv, TypeOK, Mkdir, Goto
<1>1. TypeOK'  BY DEF Busy, Procs
<1>2. Writing'  BY DEF Writing, Busy, Procs
<1>3. EmptyHasACause'  BY DEF EmptyHasACause, HasACause, Writing, Procs
<1>4. Undisturbed'  BY DEF Undisturbed, Writing, Busy, Procs
<1>5. EmptyIsShared'  BY DEF EmptyIsShared, Undisturbed, Writing, Procs
<1> QED  BY <1>1, <1>2, <1>3, <1>4, <1>5

\* A file is empty because this writer is about to write to it.
LEMMA OpenKeeps ==
  ASSUME Inv, NEW p \in Procs, Open(p)
  PROVE  Inv'
<1> USE ResolutionAssumption
<1>1. CASE ~dir
  <2> USE <1>1 DEF Inv, TypeOK, Open, Goto
  <2>1. TypeOK'  BY DEF Busy
  <2>2. Writing'  BY DEF Writing
  <2>3. EmptyHasACause'  BY DEF EmptyHasACause, HasACause, Procs
  <2>4. Undisturbed'  BY DEF Undisturbed, Writing
  <2>5. EmptyIsShared'  BY DEF EmptyIsShared
  <2> QED  BY <2>1, <2>2, <2>3, <2>4, <2>5 DEF Inv
<1>2. CASE dir
  <2>1. PICK i \in IF tmp # 0 THEN {tmp} ELSE {CHOOSE j \in Free : TRUE} :
          /\ tmp' = i
          /\ fd' = [fd EXCEPT ![p] = i]
          /\ content' = [content EXCEPT ![i] = Empty]
          /\ orphans' = orphans \ {i}
          /\ Crosses({p})
          /\ Goto(p, "write")
    BY <1>2 DEF Open
  <2>2. i \in Inodes /\ i # 0
    BY FreeInode, WritersAreFinite DEF Inv, TypeOK, Free, Inodes
  <2>3. pc[p] = "open" /\ UNCHANGED <<file, dir, value, shared>>
    BY DEF Open
  <2>f. i # file
    BY FreeInode DEF Inv, EmptyIsShared, Free
  <2> USE <2>1, <2>2, <2>3 DEF Inv, TypeOK, Goto, Crosses
  <2>4. TypeOK'  BY DEF Busy
  <2>5. Writing'  BY DEF Writing
  <2>6. EmptyHasACause'  BY DEF EmptyHasACause, HasACause, Writing
  <2>7. Undisturbed'  BY DEF Undisturbed, Writing, Busy
  <2>8. EmptyIsShared'  BY <2>f DEF EmptyIsShared
  <2> QED  BY <2>4, <2>5, <2>6, <2>7, <2>8
<1> QED  BY <1>1, <1>2

\* A written file is not empty.
LEMMA WriteKeeps ==
  ASSUME Inv, NEW p \in Procs, Write(p)
  PROVE  Inv'
<1> USE ResolutionAssumption DEF Inv, TypeOK, Write, Goto, Crosses, names
<1>a. fd[p] \in Inodes
  BY DEF Writing
<1>1. TypeOK'  BY <1>a DEF Busy, Procs, Writing
<1>2. Writing'  BY DEF Writing, Busy, Procs
<1>3. EmptyHasACause'  BY DEF EmptyHasACause, HasACause, Writing, Procs
<1>4. Undisturbed'  BY DEF Undisturbed, Writing, Busy, Procs
<1>5. EmptyIsShared'  BY DEF EmptyIsShared, Undisturbed, Writing, Procs
<1> QED  BY <1>1, <1>2, <1>3, <1>4, <1>5

\* The file is what the temporary file was.
LEMMA RenameKeeps ==
  ASSUME Inv, NEW p \in Procs, Rename(p)
  PROVE  Inv'
<1> USE ResolutionAssumption DEF Inv, TypeOK, Rename, Goto, Crosses
<1>1. TypeOK'  BY DEF Busy, Procs
<1>2. Writing'  BY DEF Writing, Busy, Procs
<1>3. EmptyHasACause'  BY DEF EmptyHasACause, HasACause, Writing, Procs
<1>4. Undisturbed'  BY DEF Undisturbed, Writing, Busy, Procs
<1>5. EmptyIsShared'  BY DEF EmptyIsShared, Undisturbed, Writing, Procs
<1> QED  BY <1>1, <1>2, <1>3, <1>4, <1>5

\* Dead writers are remembered.
LEMMA DieKeeps ==
  ASSUME Inv, NEW p \in Procs, Die(p)
  PROVE  Inv'
<1> USE ResolutionAssumption DEF Inv, TypeOK, Die, Goto, names
<1>a. pc[p] = "write" => fd[p] \in Inodes
  BY DEF Writing
<1>1. TypeOK'  BY <1>a DEF Busy, Procs
<1>2. Writing'  BY DEF Writing, Busy, Procs
<1>3. EmptyHasACause'  BY DEF EmptyHasACause, HasACause, Writing, Procs
<1>4. Undisturbed'  BY DEF Undisturbed, Writing, Busy, Procs
<1>5. EmptyIsShared'  BY DEF EmptyIsShared, Undisturbed, Writing, Procs
<1> QED  BY <1>1, <1>2, <1>3, <1>4, <1>5

\* A removed name is missed only by those who have seen a change.
LEMMA UnlinkKeeps ==
  ASSUME Inv, Unlink
  PROVE  Inv'
<1> USE ResolutionAssumption DEF Inv, TypeOK, Unlink, Crosses
<1>1. TypeOK'  BY DEF Busy, Procs
<1>2. Writing'  BY DEF Writing, Busy, Procs
<1>3. EmptyHasACause'  BY DEF EmptyHasACause, HasACause, Writing, Procs
<1>4. Undisturbed'  BY DEF Undisturbed, Writing, Busy, Procs
<1>5. EmptyIsShared'  BY DEF EmptyIsShared, Undisturbed, Writing, Procs
<1> QED  BY <1>1, <1>2, <1>3, <1>4, <1>5

\* A removed directory likewise.
LEMMA RmDirKeeps ==
  ASSUME Inv, RmDir
  PROVE  Inv'
<1> USE ResolutionAssumption DEF Inv, TypeOK, RmDir, Crosses
<1>1. TypeOK'  BY DEF Busy, Procs
<1>2. Writing'  BY DEF Writing, Busy, Procs
<1>3. EmptyHasACause'  BY DEF EmptyHasACause, HasACause, Writing, Procs
<1>4. Undisturbed'  BY DEF Undisturbed, Writing, Busy, Procs
<1>5. EmptyIsShared'  BY DEF EmptyIsShared, Undisturbed, Writing, Procs
<1> QED  BY <1>1, <1>2, <1>3, <1>4, <1>5


-----------------------------------------------------------------------------
(* The theorems.                                                           *)

\* The invariant holds before the first call.
LEMMA InitHolds == Init => Inv
<1> SUFFICES ASSUME Init PROVE Inv
  OBVIOUS
<1> USE DEF Init
<1>1. TypeOK  BY DEF TypeOK
<1>2. Writing /\ EmptyHasACause  BY DEF Writing, EmptyHasACause
<1>3. Undisturbed /\ EmptyIsShared  BY DEF Undisturbed, EmptyIsShared
<1> QED  BY <1>1, <1>2, <1>3 DEF Inv

\* Every step preserves the invariant.
LEMMA NextKeeps == Inv /\ [Next]_vars => Inv'
<1> SUFFICES ASSUME Inv, [Next]_vars PROVE Inv'
  OBVIOUS
<1>1. CASE Unlink \/ RmDir
  BY <1>1, UnlinkKeeps, RmDirKeeps
<1>2. ASSUME NEW p \in Procs, Call(p) \/ Step(p) \/ Die(p)
      PROVE  Inv'
  BY <1>2, CallKeeps, LookKeeps, ReadKeeps, MkdirKeeps, OpenKeeps, WriteKeeps, RenameKeeps,
    DieKeeps DEF Step
<1>3. CASE UNCHANGED vars
  BY <1>3 DEF vars, Inv, TypeOK, Writing, EmptyHasACause, HasACause, Undisturbed,
    EmptyIsShared
<1> QED  BY <1>1, <1>2, <1>3 DEF Next

\* All of it, always.
LEMMA InvHolds == Spec => []Inv
<1> QED  BY InitHolds, NextKeeps, PTL DEF Spec

\* Every variable has its type; in particular the inode that open() makes
\* exists, whoever else has files open.
THEOREM TypeCorrect == Spec => []TypeOK
<1>1. Inv => TypeOK  BY DEF Inv
<1> QED  BY <1>1, InvHolds, PTL

\* A resolution is found empty only while another writer is about to fill it or
\* because one died in the middle, whoever renames whose temporary file.
THEOREM EmptinessIsExplained == Spec => []TornHasACause
<1>1. Inv => TornHasACause
  BY DEF Inv, TypeOK, EmptyHasACause, HasACause, TornHasACause
<1> QED  BY <1>1, InvHolds, PTL

\* No call fails for what a single writer does or leaves behind: it finds its
\* file or directory gone only if another call or clean has changed one of them
\* meanwhile, and the file empty only if that happened to the call that renamed
\* it.
THEOREM FailuresHaveACause == Spec => FailuresAreShared
<1> DEFINE Shared == \A p \in Procs : pc'[p] # pc[p] =>
                       /\ pc'[p] = "failed" => p \in crossed
                       /\ pc'[p] = "torn" => file \in shared
<1>1. Inv /\ [Next]_vars => [Shared]_vars
  <2> SUFFICES ASSUME Inv, Next, NEW q \in Procs, pc'[q] # pc[q],
                      pc'[q] \in {"failed", "torn"}
               PROVE  /\ pc'[q] = "failed" => q \in crossed
                      /\ pc'[q] = "torn" => file \in shared
    OBVIOUS
  <2>1. PICK p \in Procs : Call(p) \/ Step(p) \/ Die(p)
    BY DEF Next, Unlink, RmDir
  <2>2. q = p
    BY <2>1 DEF Inv, TypeOK, Step, Call, Look, Read, Mkdir, Open, Write, Rename, Die, Goto
  <2> USE <2>2 DEF Inv, TypeOK, Goto, Undisturbed
  <2>3. CASE Read(p)
    BY <2>3 DEF Read, EmptyIsShared
  <2>4. CASE Open(p)
    BY <2>4 DEF Open
  <2>5. CASE Rename(p)
    BY <2>5 DEF Rename
  <2>6. CASE Call(p) \/ Look(p) \/ Mkdir(p) \/ Write(p) \/ Die(p)
    BY <2>6 DEF Call, Look, Mkdir, Write, Die
  <2> QED
    BY <2>1, <2>3, <2>4, <2>5, <2>6 DEF Step
<1> QED
  BY <1>1, InvHolds, PTL DEF Spec, FailuresAreShared
=============================================================================

----------------------------- MODULE LoadProofs -----------------------------
(***************************************************************************)
(* What Load promises for any number of callers, any registries in any     *)
(* order, any Releases and any number of calls.                            *)
(***************************************************************************)
EXTENDS Load, Integers, SequenceTheorems, TLAPS

(***************************************************************************)
(* The invariant, in parts.                                                *)
(***************************************************************************)

\* Where a caller holds the lock of its BuildKey, and where it fills the cache.
Filling == {"binary", "source", "compile", "validate", "commit"}
Locked == Filling \cup {"recheck"}

\* A caller has a Release, and somebody who knows it, once the version is resolved.
Resolved(p) ==
  pc[p] \in (Busy \cup {"served"}) \ {"ask"} =>
    digest[p] \in Releases /\ authority[p] \in Registries

\* What it took for the Release of a dev version is one since its call began.
Follows(p) ==
  /\ pc[p] \in Busy => bound \in current[p]
  /\ dev /\ ~offline[p] /\ pc[p] \in (Busy \cup {"served"}) \ {"ask"} => digest[p] \in current[p]

\* The registries before the one it is asking were unreachable.
Walking(p) ==
  /\ pc[p] = "ask" =>
       /\ dev => idx[p] = 1
       /\ \A j \in 1 .. idx[p] - 1 : tried[p][ResolveOrder[j]] = "unreachable"
  /\ pc[p] = "binary" =>
       /\ \A j \in 1 .. idx[p] - 1 : tried[p][BinaryOrder(p)[j]] = "unreachable"
       /\ \A r \in Registries : tried[p][r] \in {"no", "unreachable"}

\* It compiles after a miss, and gives up when all were unreachable.
Decided(p) ==
  /\ ~offline[p] /\ pc[p] \in {"source", "compile"} =>
       /\ tried[p][authority[p]] = "absent"
       /\ \A r \in Registries \ {authority[p]} : tried[p][r] \in {"no", "unreachable"}
  /\ pc[p] = "failed" /\ error[p] \in {<<"resolve", "access">>, <<"binary", "access">>} =>
       \/ \A r \in Registries : tried[p][r] = "unreachable"
       \/ dev /\ error[p][1] = "resolve" /\ tried[p][Primary] = "unreachable"

\* Bad content goes no further than validation, and only good content is committed.
Checks(p) ==
  /\ (\E r \in Registries : tried[p][r] \in Damaged) =>
       /\ pc[p] \in {"validate", "failed", "idle"}
       /\ pc[p] = "failed" => error[p][2] \in {"content", "raw"}
       /\ pc[p] = "validate" => held[p] = "bad"
  /\ pc[p] = "validate" => held[p] # "none"
  /\ pc[p] = "commit" => held[p] = "good"

\* A warm call finds everything on its way.
Warm(p) ==
  warm[p] =>
    /\ pc[p] \in {"release", "build", "served", "idle"} /\ tried[p] = NotTried
    /\ pc[p] \in {"release", "build"} => digest[p] \in releases /\ builds[digest[p]] # "none"

\* An offline call asks nobody.
Silent(p) ==
  offline[p] => pc[p] \notin {"ask", "pull", "binary", "source"} /\ tried[p] = NotTried

\* One caller at a time fills a BuildKey, which nobody has filled.
Fills(p) ==
  /\ pc[p] \in Locked => holder[digest[p]] = p
  /\ pc[p] \in Filling => builds[digest[p]] = "none"

\* Whoever is served is served content that has been validated.
Served(p) == pc[p] = "served" => builds[digest[p]] = "good"

CallerInv(p) ==
  /\ Resolved(p) /\ Follows(p) /\ Walking(p) /\ Decided(p) /\ Checks(p)
  /\ Warm(p) /\ Silent(p) /\ Fills(p) /\ Served(p)

StoredIsGood == \A d \in Releases : builds[d] # "bad"

Inv == TypeOK /\ StoredIsGood /\ \A p \in Callers : CallerInv(p)

-----------------------------------------------------------------------------
(* The walk over the registries.                                           *)

Walk(r) == <<r>> \o Others(r)

\* r, followed by the others, is every registry.
LEMMA WalkVisitsAll ==
  ASSUME NEW r \in Registries
  PROVE  /\ Len(Order) \in Nat \ {0} /\ Walk(r)[1] = r
         /\ \A i \in 1 .. Len(Order) : Walk(r)[i] \in Registries
         /\ \A s \in Registries : \E i \in 1 .. Len(Order) : Walk(r)[i] = s
<1> DEFINE k == CHOOSE i \in DOMAIN Order : Order[i] = r
           n == Len(Order)
           before == SubSeq(Order, 1, k - 1)
           after == SubSeq(Order, k + 1, n)
<1>1. Order \in Seq(Registries) /\ n \in Nat /\ DOMAIN Order = 1 .. n
  BY LoadAssumption
<1>2. k \in 1 .. n /\ Order[k] = r
  BY <1>1 DEF Registries
<1>3. Others(r) = before \o after
  BY DEF Others
<1> HIDE DEF k
<1>4. /\ before \in Seq(Registries) /\ Len(before) = k - 1
      /\ \A i \in 1 .. k - 1 : before[i] = Order[i]
  BY <1>1, <1>2
<1>5. /\ after \in Seq(Registries) /\ Len(after) = n - k
      /\ \A i \in 1 .. n - k : after[i] = Order[k + i]
  <2>1. \A i \in k + 1 .. n : Order[i] \in Registries
    BY <1>1, <1>2
  <2>2. k + 1 \in Int /\ n \in Int
    BY <1>1, <1>2
  <2>3. /\ after \in Seq(Registries)
        /\ Len(after) = IF k + 1 <= n THEN n - (k + 1) + 1 ELSE 0
        /\ \A i \in 1 .. n - (k + 1) + 1 : after[i] = Order[(k + 1) + i - 1]
    BY <2>1, <2>2, SubSeqProperties
  <2> HIDE DEF after
  <2>4. Len(after) = n - k
    <3>1. k \in Nat /\ n \in Nat /\ k <= n
      BY <1>1, <1>2
    <3> HIDE DEF n
    <3>2. (IF k + 1 <= n THEN n - (k + 1) + 1 ELSE 0) = n - k
      BY <3>1
    <3>3. QED
      BY <2>3, <3>2
  <2>5. n - (k + 1) + 1 = n - k /\ \A i \in 1 .. n - k : (k + 1) + i - 1 = k + i
    BY <1>1, <1>2
  <2>6. QED
    BY <2>3, <2>4, <2>5
<1> HIDE DEF before, after, n
<1>6. /\ Others(r) \in Seq(Registries) /\ Len(Others(r)) = n - 1
      /\ \A i \in 1 .. n - 1 : Others(r)[i] = IF i < k THEN Order[i] ELSE Order[i + 1]
  <2>1. Len(before \o after) = n - 1 /\ before \o after \in Seq(Registries)
    BY <1>1, <1>2, <1>4, <1>5
  <2>2. ASSUME NEW i \in 1 .. n - 1
        PROVE  (before \o after)[i] = IF i < k THEN Order[i] ELSE Order[i + 1]
    <3>1. CASE i < k
      BY <1>1, <1>2, <1>4, <1>5, <2>2, <3>1
    <3>2. CASE ~(i < k)
      <4>1. i - (k - 1) \in 1 .. n - k /\ k + (i - (k - 1)) = i + 1 /\ i > k - 1
        BY <1>1, <1>2, <2>2, <3>2
      <4>2. (before \o after)[i] = after[i - (k - 1)]
        BY <1>1, <1>2, <1>4, <1>5, <2>2, <4>1
      <4>3. QED
        BY <1>5, <3>2, <4>1, <4>2
    <3>3. QED
      BY <3>1, <3>2
  <2>3. QED
    BY <1>3, <2>1, <2>2
<1>7. Walk(r)[1] = r /\ \A i \in 2 .. n : Walk(r)[i] = Others(r)[i - 1]
  BY <1>1, <1>6 DEF Walk
<1>8. ASSUME NEW s \in Registries
      PROVE  \E i \in 1 .. n : Walk(r)[i] = s
  <2>1. PICK j \in 1 .. n : Order[j] = s
    BY <1>1 DEF Registries
  <2>2. CASE j = k
    BY <1>1, <1>2, <1>7, <2>1, <2>2
  <2>3. CASE j < k
    <3>1. j \in 1 .. n - 1 /\ j + 1 \in 2 .. n /\ j + 1 \in 1 .. n /\ (j + 1) - 1 = j
      BY <1>1, <1>2, <2>3
    <3>2. Walk(r)[j + 1] = s
      BY <1>6, <1>7, <2>1, <2>3, <3>1
    <3>3. QED
      BY <3>1, <3>2
  <2>4. CASE j > k
    <3>1. j - 1 \in 1 .. n - 1 /\ j \in 2 .. n /\ ~(j - 1 < k) /\ (j - 1) + 1 = j
      BY <1>1, <1>2, <2>4
    <3>2. Walk(r)[j] = s
      BY <1>6, <1>7, <2>1, <3>1
    <3>3. QED
      BY <3>2
  <2>5. j = k \/ j < k \/ j > k
    BY <1>1, <1>2
  <2>6. QED
    BY <2>2, <2>3, <2>4, <2>5
<1>9. ASSUME NEW i \in 1 .. n
      PROVE  Walk(r)[i] \in Registries
  <2>1. CASE i = 1
    BY <1>7, <2>1
  <2>2. CASE i # 1
    <3>1. i \in 2 .. n /\ i - 1 \in 1 .. n - 1
      BY <1>1, <2>2
    <3>2. QED
      BY <1>6, <1>7, <3>1
  <2>3. QED
    BY <2>1, <2>2
<1>10. QED
  BY <1>1, <1>2, <1>7, <1>8, <1>9 DEF n

\* The two walks.
LEMMA WalksAreWalks ==
  ASSUME TypeOK, NEW p \in Callers
  PROVE  /\ ResolveOrder = Walk(Primary) /\ BinaryOrder(p) = Walk(authority[p])
         /\ ResolveOrder[idx[p]] \in Registries
         /\ authority[p] \in Registries => BinaryOrder(p)[idx[p]] \in Registries
<1>1. ResolveOrder = Walk(Primary) /\ BinaryOrder(p) = Walk(authority[p])
  BY DEF ResolveOrder, BinaryOrder, Walk
<1>2. idx[p] \in 1 .. Len(Order)
  BY DEF TypeOK
<1>3. QED
  BY <1>1, <1>2, WalkVisitsAll, LoadAssumption

-----------------------------------------------------------------------------
(* Types, and what a step may change.                                      *)

\* A caller has its variables for itself, and loses no lock to another.
LEMMA OthersUnchanged ==
  ASSUME TypeOK, NEW p \in Callers, Begin(p) \/ Step(p) \/ Die(p), NEW q \in Callers, q # p
  PROVE  /\ pc'[q] = pc[q] /\ calls'[q] = calls[q] /\ offline'[q] = offline[q]
         /\ digest'[q] = digest[q] /\ authority'[q] = authority[q] /\ idx'[q] = idx[q]
         /\ held'[q] = held[q] /\ error'[q] = error[q] /\ tried'[q] = tried[q]
         /\ current'[q] = current[q] /\ warm'[q] = warm[q]
         /\ \A d \in Releases : holder[d] = q <=> holder'[d] = q
<1> USE LoadAssumption DEF TypeOK, Goto, Fail, Unlocked, cache, call
<1>1. CASE Begin(p)
  BY <1>1 DEF Begin
<1>2. CASE AskVersion(p)
  BY <1>2 DEF AskVersion, Answer, VersionUnreachable, NamedBy, NextRegistry
<1>3. CASE Record(p)
  BY <1>3 DEF Record
<1>4. CASE LookRelease(p)
  BY <1>4 DEF LookRelease
<1>5. CASE PullRelease(p)
  BY <1>5 DEF PullRelease, Answer
<1>6. CASE CommitRelease(p)
  BY <1>6 DEF CommitRelease
<1>7. CASE LookBuild(p)
  BY <1>7 DEF LookBuild
<1>8. CASE Lock(p)
  BY <1>8 DEF Lock
<1>9. CASE Recheck(p)
  BY <1>9 DEF Recheck
<1>10. CASE AskBinary(p)
  BY <1>10 DEF AskBinary, Answer, NextRegistry
<1>11. CASE PullSource(p)
  BY <1>11 DEF PullSource
<1>12. CASE Compile(p)
  BY <1>12 DEF Compile
<1>13. CASE Validate(p)
  BY <1>13 DEF Validate
<1>14. CASE CommitBuild(p)
  BY <1>14 DEF CommitBuild
<1>15. CASE Die(p)
  BY <1>15 DEF Die
<1>16. QED
  BY <1>1, <1>2, <1>3, <1>4, <1>5, <1>6, <1>7, <1>8, <1>9, <1>10, <1>11, <1>12, <1>13,
     <1>14, <1>15 DEF Step

\* The shared variables: only commits change the cache.
LEMMA CacheGrows ==
  ASSUME TypeOK, NEW p \in Callers, Begin(p) \/ Step(p) \/ Die(p)
  PROVE  /\ UNCHANGED version
         /\ releases \subseteq releases'
         /\ \/ builds' = builds
            \/ pc[p] = "commit" /\ builds' = [builds EXCEPT ![digest[p]] = held[p]]
<1> USE DEF TypeOK, Goto, Fail, cache, version
<1>1. CASE Begin(p)
  BY <1>1 DEF Begin
<1>2. CASE AskVersion(p)
  BY <1>2 DEF AskVersion, Answer, VersionUnreachable, NamedBy, NextRegistry
<1>3. CASE Record(p)
  BY <1>3 DEF Record
<1>4. CASE LookRelease(p)
  BY <1>4 DEF LookRelease
<1>5. CASE PullRelease(p)
  BY <1>5 DEF PullRelease, Answer
<1>6. CASE CommitRelease(p)
  BY <1>6 DEF CommitRelease
<1>7. CASE LookBuild(p)
  BY <1>7 DEF LookBuild
<1>8. CASE Lock(p)
  BY <1>8 DEF Lock
<1>9. CASE Recheck(p)
  BY <1>9 DEF Recheck
<1>10. CASE AskBinary(p)
  BY <1>10 DEF AskBinary, Answer, NextRegistry
<1>11. CASE PullSource(p)
  BY <1>11 DEF PullSource
<1>12. CASE Compile(p)
  BY <1>12 DEF Compile
<1>13. CASE Validate(p)
  BY <1>13 DEF Validate
<1>14. CASE CommitBuild(p)
  BY <1>14 DEF CommitBuild
<1>15. CASE Die(p)
  BY <1>15 DEF Die
<1>16. QED
  BY <1>1, <1>2, <1>3, <1>4, <1>5, <1>6, <1>7, <1>8, <1>9, <1>10, <1>11, <1>12, <1>13,
     <1>14, <1>15 DEF Step

\* An answer, an exception, and the lock that the exception releases.
LEMMA AnswerTypes ==
  ASSUME TypeOK, NEW p \in Callers, NEW r \in Registries, NEW a \in Answers, Answer(p, r, a)
  PROVE  /\ tried' \in [Callers -> [Registries -> Answers]]
         /\ tried'[p] = [tried[p] EXCEPT ![r] = a]
<1>1. tried[p] \in [Registries -> Answers]
  BY DEF TypeOK
<1>2. tried' = [tried EXCEPT ![p] = [@ EXCEPT ![r] = a]]
  BY DEF Answer
<1>3. [tried[p] EXCEPT ![r] = a] \in [Registries -> Answers]
  BY <1>1
<1>4. QED
  BY <1>2, <1>3 DEF TypeOK

\* Leaving the lock leaves everybody else's.
LEMMA UnlockTypes ==
  ASSUME TypeOK, NEW p \in Callers
  PROVE  Unlocked(p) \in [Releases -> Callers \cup {None}]
BY DEF TypeOK, Unlocked

\* An exception on the way: the call is over, and `with` has released the lock.
LEMMA FailTypes ==
  ASSUME TypeOK, NEW p \in Callers, NEW stage \in Stages, NEW kind \in Kinds,
         Fail(p, stage, kind)
  PROVE  /\ pc' \in [Callers -> Busy \cup {"idle", "served", "failed"}]
         /\ error' \in [Callers -> Stages \X Kinds]
         /\ holder' \in [Releases -> Callers \cup {None}]
         /\ pc'[p] = "failed" /\ error'[p] = <<stage, kind>> /\ holder' = Unlocked(p)
BY UnlockTypes DEF TypeOK, Fail, Goto

\* Walking on.
LEMMA WalkTypes ==
  ASSUME TypeOK, NEW p \in Callers, NEW stage \in Stages, NextRegistry(p, stage)
  PROVE  /\ pc' \in [Callers -> Busy \cup {"idle", "served", "failed"}]
         /\ error' \in [Callers -> Stages \X Kinds]
         /\ holder' \in [Releases -> Callers \cup {None}]
         /\ idx' \in [Callers -> 1 .. Len(Order)]
         /\ \/ /\ idx[p] < Len(Order) /\ idx'[p] = idx[p] + 1
               /\ UNCHANGED <<pc, error, holder>>
            \/ /\ idx[p] = Len(Order) /\ UNCHANGED idx /\ Fail(p, stage, "access")
<1>1. Len(Order) \in Nat \ {0} /\ idx[p] \in 1 .. Len(Order)
  BY WalkVisitsAll, LoadAssumption DEF TypeOK
<1>2. CASE idx[p] < Len(Order)
  <2>1. idx[p] + 1 \in 1 .. Len(Order)
    BY <1>1, <1>2
  <2>2. idx' = [idx EXCEPT ![p] = idx[p] + 1] /\ UNCHANGED <<pc, error, holder>>
    BY <1>2 DEF NextRegistry
  <2>3. QED
    BY <1>2, <2>1, <2>2 DEF TypeOK
<1>3. CASE ~(idx[p] < Len(Order))
  <2>1. Fail(p, stage, "access") /\ UNCHANGED idx /\ idx[p] = Len(Order)
    BY <1>1, <1>3 DEF NextRegistry
  <2>2. QED
    BY <2>1, FailTypes DEF TypeOK, Kinds
<1>4. QED
  BY <1>2, <1>3

\* Every step of a caller keeps the types.
LEMMA StepTypes ==
  ASSUME TypeOK, NEW p \in Callers, Resolved(p), Begin(p) \/ Step(p) \/ Die(p)
  PROVE  TypeOK'
<1>a. /\ ResolveOrder[idx[p]] \in Registries
      /\ authority[p] \in Registries => BinaryOrder(p)[idx[p]] \in Registries
  BY WalksAreWalks
<1>b. 1 \in 1 .. Len(Order) /\ Primary \in Registries
  BY WalkVisitsAll, LoadAssumption
<1>c. pc[p] \in (Busy \cup {"served"}) \ {"ask"} =>
        digest[p] \in Releases /\ authority[p] \in Registries
  BY DEF Resolved
<1>d. \A l \in Busy \cup {"idle", "served", "failed"} :
        Goto(p, l) => pc' \in [Callers -> Busy \cup {"idle", "served", "failed"}]
  BY DEF TypeOK, Goto
<1>e. NotTried \in [Registries -> Answers]
  BY DEF NotTried, Answers
<1> HIDE DEF Registries
<1>1. CASE Begin(p)
  <2>0. PICK off \in BOOLEAN :
          /\ offline' = [offline EXCEPT ![p] = off]
          /\ warm' = [warm EXCEPT ![p] = /\ UseCached(off)
                                         /\ resolution \in releases
                                         /\ builds[resolution] # "none"]
          /\ \/ digest' = digest
             \/ UseCached(off) /\ digest' = [digest EXCEPT ![p] = resolution]
             \/ digest' = [digest EXCEPT ![p] = None]
          /\ \/ authority' = authority
             \/ authority' = [authority EXCEPT ![p] = Primary]
             \/ authority' = [authority EXCEPT ![p] = None]
    BY <1>1 DEF Begin
  <2>1. /\ UNCHANGED <<version, cache>>
        /\ calls' \in [Callers -> Nat] /\ offline' \in [Callers -> BOOLEAN]
        /\ held' \in [Callers -> {"none", "good", "bad"}]
        /\ idx' \in [Callers -> 1 .. Len(Order)] /\ current' \in [Callers -> SUBSET Releases]
    BY <1>1, <1>b, <2>0 DEF TypeOK, Begin
  <2>w. warm' \in [Callers -> BOOLEAN]
    BY <2>0 DEF TypeOK
  <2>t. tried' \in [Callers -> [Registries -> Answers]]
    BY <1>1, <1>e DEF TypeOK, Begin
  <2>2. /\ digest' \in [Callers -> Releases \cup {None}]
        /\ authority' \in [Callers -> Registries \cup {None}]
    <3>1. UseCached(off) => resolution \in Releases
      BY DEF TypeOK, UseCached
    <3>2. digest' \in [Callers -> Releases \cup {None}]
      BY <2>0, <3>1 DEF TypeOK
    <3>3. authority' \in [Callers -> Registries \cup {None}]
      BY <1>b, <2>0 DEF TypeOK
    <3>4. QED
      BY <3>2, <3>3
  <2>3. pc' \in [Callers -> Busy \cup {"idle", "served", "failed"}]
    BY <1>1 DEF TypeOK, Begin, Goto, Busy
  <2>4. error' \in [Callers -> Stages \X Kinds]
    <3>1. PICK e \in Stages \X Kinds : error' = [error EXCEPT ![p] = e]
      BY <1>1 DEF Begin, Stages, Kinds, NoError
    <3>2. QED
      BY <3>1 DEF TypeOK
  <2>5. QED
    BY <2>1, <2>w, <2>t, <2>2, <2>3, <2>4 DEF TypeOK, version, cache
<1>2. CASE AskVersion(p)
  <2>1. PICK a \in {"found", "absent", "bad", "raw", "unreachable"} : Answer(p, ResolveOrder[idx[p]], a)
    BY <1>2 DEF AskVersion
  <2>2. tried' \in [Callers -> [Registries -> Answers]]
    BY <1>a, <2>1, AnswerTypes DEF Answers, Damaged
  <2>3. /\ UNCHANGED <<version, resolution, releases, builds, held, current, call>>
        /\ digest' = digest \/ \E d \in Releases : digest' = [digest EXCEPT ![p] = d]
        /\ \/ authority' = authority
           \/ authority' = [authority EXCEPT ![p] = ResolveOrder[idx[p]]]
    BY <1>2 DEF AskVersion, NamedBy, TypeOK
  <2>6. /\ digest' \in [Callers -> Releases \cup {None}]
        /\ authority' \in [Callers -> Registries \cup {None}]
    <3>1. /\ digest \in [Callers -> Releases \cup {None}] /\ bound \in Releases
          /\ authority \in [Callers -> Registries \cup {None}]
      BY DEF TypeOK
    <3>2. digest' \in [Callers -> Releases \cup {None}]
      BY <2>3, <3>1
    <3>3. authority' \in [Callers -> Registries \cup {None}]
      BY <1>a, <2>3, <3>1
    <3>4. QED
      BY <3>2, <3>3
  <2>4. \/ Goto(p, "record") /\ UNCHANGED <<error, idx, holder>>
        \/ \E kind \in Kinds : Fail(p, "resolve", kind) /\ UNCHANGED idx
        \/ NextRegistry(p, "resolve")
    BY <1>2 DEF AskVersion, VersionUnreachable, Kinds
  <2>5. QED
    BY <1>d, <2>2, <2>3, <2>4, <2>6, FailTypes, WalkTypes DEF TypeOK, version, call, Busy, Stages
<1>3. CASE Record(p)
  <2>1. /\ UNCHANGED <<version, releases, builds, digest, authority, idx, held, tried, current,
                       call>>
        /\ resolution' \in Releases \cup {None, Torn}
    BY <1>3, <1>c DEF TypeOK, Record, Busy
  <2>2. \/ Goto(p, "release") /\ UNCHANGED <<error, holder>>
        \/ Fail(p, "cache", "race")
    BY <1>3 DEF Record
  <2>3. QED
    BY <1>d, <2>1, <2>2, FailTypes DEF TypeOK, version, call, Busy, Stages, Kinds
<1>4. CASE LookRelease(p)
  <2>1. \/ Goto(p, "build") /\ UNCHANGED <<error, holder>>
        \/ Goto(p, "pull") /\ UNCHANGED <<error, holder>>
        \/ Fail(p, "release", "offline")
    BY <1>4 DEF LookRelease
  <2>2. QED
    BY <1>4, <1>d, <2>1, FailTypes
       DEF TypeOK, LookRelease, version, call, Busy, Stages, Kinds
<1>5. CASE PullRelease(p)
  <2>1. PICK a \in {"found", "absent", "bad", "raw", "unreachable"} : Answer(p, authority[p], a)
    BY <1>5 DEF PullRelease
  <2>2. tried' \in [Callers -> [Registries -> Answers]]
    BY <1>5, <1>c, <2>1, AnswerTypes DEF Answers, Damaged, PullRelease, Busy
  <2>3. \/ Goto(p, "commit_release") /\ UNCHANGED <<error, holder>>
        \/ \E kind \in Kinds : Fail(p, "release", kind)
    BY <1>5 DEF PullRelease, Kinds
  <2>4. QED
    BY <1>5, <1>d, <2>2, <2>3, FailTypes DEF TypeOK, PullRelease, version, call, Busy, Stages
<1>6. CASE CommitRelease(p)
  <2>1. /\ UNCHANGED <<version, resolution, builds, digest, authority, idx, held, tried, current,
                       call>>
        /\ releases' \subseteq Releases
    BY <1>6, <1>c DEF TypeOK, CommitRelease, Busy
  <2>2. \/ Goto(p, "build") /\ UNCHANGED <<error, holder>>
        \/ Fail(p, "cache", "race")
    BY <1>6 DEF CommitRelease
  <2>3. QED
    BY <1>d, <2>1, <2>2, FailTypes DEF TypeOK, version, call, Busy, Stages, Kinds
<1>7. CASE LookBuild(p)
  BY <1>7, <1>d DEF TypeOK, LookBuild, version, cache, call, Busy
<1>8. CASE Lock(p)
  BY <1>8, <1>d DEF TypeOK, Lock, version, call, Busy
<1>9. CASE Recheck(p)
  <2>1. /\ UNCHANGED <<version, resolution, releases, builds, digest, authority, held, current,
                       call>>
        /\ tried' \in [Callers -> [Registries -> Answers]]
        /\ idx' \in [Callers -> 1 .. Len(Order)]
    BY <1>9, <1>b, <1>e DEF TypeOK, Recheck
  <2>2. \/ Goto(p, "served") /\ holder' = Unlocked(p) /\ UNCHANGED error
        \/ (Goto(p, "compile") \/ Goto(p, "binary")) /\ UNCHANGED <<error, holder>>
        \/ Fail(p, "source", "offline")
    BY <1>9 DEF Recheck
  <2>3. pc' \in [Callers -> Busy \cup {"idle", "served", "failed"}]
    BY <1>d, <2>2, FailTypes DEF Busy, Stages, Kinds
  <2>4. /\ error' \in [Callers -> Stages \X Kinds]
        /\ holder' \in [Releases -> Callers \cup {None}]
    <3>1. error \in [Callers -> Stages \X Kinds] /\ holder \in [Releases -> Callers \cup {None}]
      BY DEF TypeOK
    <3>2. QED
      BY <2>2, <3>1, FailTypes, UnlockTypes DEF Stages, Kinds
  <2>5. QED
    BY <2>1, <2>3, <2>4 DEF TypeOK, version, call
<1>10. CASE AskBinary(p)
  <2>1. BinaryOrder(p)[idx[p]] \in Registries
    BY <1>10, <1>a, <1>c DEF AskBinary, Busy
  <2>2. PICK a \in {"found", "absent", "bad", "raw", "unreachable"} :
          Answer(p, BinaryOrder(p)[idx[p]], a)
    BY <1>10 DEF AskBinary
  <2>3. tried' \in [Callers -> [Registries -> Answers]]
    BY <2>1, <2>2, AnswerTypes DEF Answers, Damaged
  <2>4. /\ UNCHANGED <<version, resolution, releases, builds, digest, current, call>>
        /\ authority' \in [Callers -> Registries \cup {None}]
        /\ held' \in [Callers -> {"none", "good", "bad"}]
    BY <1>10, <2>1 DEF TypeOK, AskBinary
  <2>5. \/ (Goto(p, "validate") \/ Goto(p, "source")) /\ UNCHANGED <<idx, error, holder>>
        \/ Fail(p, "binary", "raw") /\ UNCHANGED idx
        \/ NextRegistry(p, "binary")
    BY <1>10 DEF AskBinary
  <2>6. /\ pc' \in [Callers -> Busy \cup {"idle", "served", "failed"}]
        /\ error' \in [Callers -> Stages \X Kinds]
        /\ holder' \in [Releases -> Callers \cup {None}]
        /\ idx' \in [Callers -> 1 .. Len(Order)]
    <3>1. CASE (Goto(p, "validate") \/ Goto(p, "source")) /\ UNCHANGED <<idx, error, holder>>
      BY <1>d, <3>1 DEF TypeOK, Busy
    <3>2. CASE Fail(p, "binary", "raw") /\ UNCHANGED idx
      BY <3>2, FailTypes DEF TypeOK, Stages, Kinds
    <3>3. CASE NextRegistry(p, "binary")
      BY <3>3, WalkTypes DEF Stages
    <3>4. QED
      BY <2>5, <3>1, <3>2, <3>3
  <2>7. QED
    BY <2>3, <2>4, <2>6 DEF TypeOK, version, call
<1>11. CASE PullSource(p)
  <2>1. \/ Goto(p, "compile") /\ UNCHANGED <<error, holder>>
        \/ \E kind \in Kinds : Fail(p, "source", kind)
    BY <1>11 DEF PullSource, Kinds
  <2>2. QED
    BY <1>11, <1>d, <2>1, FailTypes DEF TypeOK, PullSource, version, call, Busy, Stages
<1>12. CASE Compile(p)
  <2>1. held' \in [Callers -> {"none", "good", "bad"}]
    BY <1>12 DEF TypeOK, Compile
  <2>2. \/ Goto(p, "validate") /\ UNCHANGED <<error, holder>>
        \/ Fail(p, "compile", "build")
    BY <1>12 DEF Compile
  <2>3. QED
    BY <1>12, <1>d, <2>1, <2>2, FailTypes
       DEF TypeOK, Compile, version, call, Busy, Stages, Kinds
<1>13. CASE Validate(p)
  <2>1. \/ Goto(p, "commit") /\ UNCHANGED <<error, holder>>
        \/ Fail(p, "validate", "content")
    BY <1>13 DEF Validate
  <2>2. QED
    BY <1>13, <1>d, <2>1, FailTypes DEF TypeOK, Validate, version, call, Busy, Stages, Kinds
<1>14. CASE CommitBuild(p)
  <2>1. builds' \in [Releases -> {"none", "good", "bad"}]
    BY <1>14 DEF TypeOK, CommitBuild
  <2>2. QED
    BY <1>14, <1>d, <2>1, UnlockTypes DEF TypeOK, CommitBuild, version, call, Busy
<1>15. CASE Die(p)
  <2>1. /\ digest' \in [Callers -> Releases \cup {None}]
        /\ authority' \in [Callers -> Registries \cup {None}]
        /\ idx' \in [Callers -> 1 .. Len(Order)]
    BY <1>15, <1>b DEF TypeOK, Die
  <2>2. /\ held' \in [Callers -> {"none", "good", "bad"}]
        /\ error' \in [Callers -> Stages \X Kinds]
        /\ tried' \in [Callers -> [Registries -> Answers]]
    BY <1>15, <1>e DEF TypeOK, Die, NoError, Stages, Kinds
  <2>3. QED
    BY <1>15, <1>d, <2>1, <2>2, UnlockTypes DEF TypeOK, Die, version, call
<1>16. QED
  BY <1>1, <1>2, <1>3, <1>4, <1>5, <1>6, <1>7, <1>8, <1>9, <1>10, <1>11, <1>12, <1>13,
     <1>14, <1>15 DEF Step

-----------------------------------------------------------------------------
(* What another caller's step leaves alone.                                *)

\* No caller disturbs what is known of another.
LEMMA OthersKeep ==
  ASSUME TypeOK, NEW p \in Callers, Begin(p) \/ Step(p) \/ Die(p), CallerInv(p),
         NEW q \in Callers, q # p, CallerInv(q)
  PROVE  CallerInv(q)'
<1>1. /\ pc'[q] = pc[q] /\ calls'[q] = calls[q] /\ offline'[q] = offline[q]
      /\ digest'[q] = digest[q] /\ authority'[q] = authority[q] /\ idx'[q] = idx[q]
      /\ held'[q] = held[q] /\ error'[q] = error[q] /\ tried'[q] = tried[q]
      /\ current'[q] = current[q] /\ warm'[q] = warm[q]
      /\ \A d \in Releases : holder[d] = q <=> holder'[d] = q
  BY OthersUnchanged
<1>2. dev' = dev /\ bound' = bound /\ releases \subseteq releases'
  BY CacheGrows DEF version
<1>3. /\ pc[p] = "commit" => held[p] = "good" /\ digest[p] \in Releases /\ holder[digest[p]] = p
      /\ pc[q] \in Locked => digest[q] \in Releases /\ holder[digest[q]] = q
  BY DEF CallerInv, Checks, Fills, Locked, Filling, Resolved, Busy
<1>4. ASSUME NEW d \in Releases
      PROVE  \/ builds'[d] = builds[d]
             \/ builds'[d] = "good" /\ holder[d] = p
  BY <1>3, CacheGrows DEF TypeOK
<1>5. Resolved(q)' /\ Follows(q)' /\ Decided(q)' /\ Checks(q)' /\ Silent(q)'
  BY <1>1, <1>2 DEF CallerInv, Resolved, Follows, Decided, Checks, Silent
<1>6. Walking(q)'
  <2>1. BinaryOrder(q)' = BinaryOrder(q)
    BY <1>1 DEF BinaryOrder
  <2>2. QED
    BY <1>1, <1>2, <2>1 DEF CallerInv, Walking
<1>7. Warm(q)'
  BY <1>1, <1>2, <1>4 DEF CallerInv, Warm, Resolved, Busy
<1>8. Fills(q)'
  BY <1>1, <1>3, <1>4 DEF CallerInv, Fills, Locked
<1>9. Served(q)'
  BY <1>1, <1>4 DEF CallerInv, Served, Resolved
<1>10. QED
  BY <1>5, <1>6, <1>7, <1>8, <1>9 DEF CallerInv

-----------------------------------------------------------------------------
(* What a caller's own step does.                                          *)

\* Whoever goes past the resolution has a Release and a registry that knows it.
LEMMA KeepsResolved ==
  ASSUME TypeOK, NEW p \in Callers, CallerInv(p), Begin(p) \/ Step(p) \/ Die(p)
  PROVE  Resolved(p)'
<1>a. /\ ResolveOrder[idx[p]] \in Registries /\ Primary \in Registries
      /\ authority[p] \in Registries => BinaryOrder(p)[idx[p]] \in Registries
  BY WalksAreWalks, LoadAssumption
<1> HIDE DEF Registries
<1> USE <1>a DEF TypeOK, Goto, Fail, Busy, cache, version, call, UseCached, CallerInv, Resolved
<1>1. CASE Begin(p)
  BY <1>1 DEF Begin
<1>2. CASE AskVersion(p)
  BY <1>2 DEF AskVersion, Answer, VersionUnreachable, NamedBy, NextRegistry
<1>3. CASE Record(p)
  BY <1>3 DEF Record
<1>4. CASE LookRelease(p)
  BY <1>4 DEF LookRelease
<1>5. CASE PullRelease(p)
  BY <1>5 DEF PullRelease, Answer
<1>6. CASE CommitRelease(p)
  BY <1>6 DEF CommitRelease
<1>7. CASE LookBuild(p)
  BY <1>7 DEF LookBuild
<1>8. CASE Lock(p)
  BY <1>8 DEF Lock
<1>9. CASE Recheck(p)
  BY <1>9 DEF Recheck
<1>10. CASE AskBinary(p)
  BY <1>10 DEF AskBinary, Answer, NextRegistry
<1>11. CASE PullSource(p)
  BY <1>11 DEF PullSource
<1>12. CASE Compile(p)
  BY <1>12 DEF Compile
<1>13. CASE Validate(p)
  BY <1>13 DEF Validate
<1>14. CASE CommitBuild(p)
  BY <1>14 DEF CommitBuild
<1>15. CASE Die(p)
  BY <1>15 DEF Die
<1>16. QED
  BY <1>1, <1>2, <1>3, <1>4, <1>5, <1>6, <1>7, <1>8, <1>9, <1>10, <1>11, <1>12, <1>13,
     <1>14, <1>15 DEF Step

\* Nobody but the primary is asked for a dev version, so what a call learns is
\* what the version names at that moment.
LEMMA VersionIs ==
  ASSUME TypeOK, NEW p \in Callers, Walking(p), AskVersion(p)
  PROVE  /\ pc[p] = "ask" /\ UNCHANGED <<version, resolution, builds, current, offline>>
         /\ \/ pc'[p] = "record" /\ digest'[p] = bound
            \/ pc'[p] \in {"ask", "failed"} /\ digest'[p] = digest[p]
<1> DEFINE r == ResolveOrder[idx[p]]
<1>1. /\ pc[p] = "ask" /\ UNCHANGED <<version, resolution, builds, current, offline>>
  BY DEF AskVersion, call
<1>2. NamedBy(r) = {bound}
  <2>1. dev => r = Primary
    <3>1. dev => idx[p] = 1
      BY <1>1 DEF Walking
    <3>2. ResolveOrder[1] = Primary
      BY WalksAreWalks, WalkVisitsAll, LoadAssumption
    <3>3. QED
      BY <3>1, <3>2
  <2>2. QED
    BY <2>1 DEF NamedBy
<1> HIDE DEF r
<1>3. \/ /\ digest' = [digest EXCEPT ![p] = bound] /\ Goto(p, "record")
      \/ /\ UNCHANGED digest
         /\ pc' = pc \/ Goto(p, "failed")
  BY <1>2 DEF AskVersion, VersionUnreachable, NextRegistry, Fail, r
<1>4. QED
  BY <1>1, <1>3 DEF TypeOK, Goto

\* A Release that an online call resolves for a dev version is what the version
\* names at that moment.
LEMMA KeepsFollows ==
  ASSUME TypeOK, NEW p \in Callers, CallerInv(p), Begin(p) \/ Step(p) \/ Die(p)
  PROVE  Follows(p)'
<1> USE DEF TypeOK, Goto, Fail, Busy, cache, version, call, UseCached, CallerInv, Follows
<1>1. CASE Begin(p)
  BY <1>1 DEF Begin
<1>2. CASE AskVersion(p)
  <2> HIDE DEF TypeOK, Goto, Fail, Follows
  <2>1. Walking(p) /\ Follows(p)
    OBVIOUS
  <2>2. /\ pc[p] = "ask" /\ UNCHANGED <<dev, bound, current, offline>>
        /\ pc'[p] = "record" => digest'[p] = bound
        /\ pc'[p] \in {"record", "ask", "failed"}
    BY <1>2, <2>1, VersionIs
  <2> QED
    BY <2>1, <2>2 DEF Follows
<1>3. CASE Record(p)
  BY <1>3 DEF Record
<1>4. CASE LookRelease(p)
  BY <1>4 DEF LookRelease
<1>5. CASE PullRelease(p)
  BY <1>5 DEF PullRelease, Answer
<1>6. CASE CommitRelease(p)
  BY <1>6 DEF CommitRelease
<1>7. CASE LookBuild(p)
  BY <1>7 DEF LookBuild
<1>8. CASE Lock(p)
  BY <1>8 DEF Lock
<1>9. CASE Recheck(p)
  BY <1>9 DEF Recheck
<1>10. CASE AskBinary(p)
  BY <1>10 DEF AskBinary, Answer, NextRegistry
<1>11. CASE PullSource(p)
  BY <1>11 DEF PullSource
<1>12. CASE Compile(p)
  BY <1>12 DEF Compile
<1>13. CASE Validate(p)
  BY <1>13 DEF Validate
<1>14. CASE CommitBuild(p)
  BY <1>14 DEF CommitBuild
<1>15. CASE Die(p)
  BY <1>15 DEF Die
<1>16. QED
  BY <1>1, <1>2, <1>3, <1>4, <1>5, <1>6, <1>7, <1>8, <1>9, <1>10, <1>11, <1>12, <1>13,
     <1>14, <1>15 DEF Step

\* It looks again under the lock before it fills.
LEMMA KeepsFills ==
  ASSUME TypeOK, NEW p \in Callers, CallerInv(p), Begin(p) \/ Step(p) \/ Die(p)
  PROVE  Fills(p)'
<1> USE LoadAssumption DEF TypeOK, Goto, Fail, Busy, cache, version, call, Unlocked, CallerInv,
        Resolved, Fills, Locked, Filling
<1>1. CASE Begin(p)
  BY <1>1 DEF Begin
<1>2. CASE AskVersion(p)
  BY <1>2 DEF AskVersion, Answer, VersionUnreachable, NamedBy, NextRegistry
<1>3. CASE Record(p)
  BY <1>3 DEF Record
<1>4. CASE LookRelease(p)
  BY <1>4 DEF LookRelease
<1>5. CASE PullRelease(p)
  BY <1>5 DEF PullRelease, Answer
<1>6. CASE CommitRelease(p)
  BY <1>6 DEF CommitRelease
<1>7. CASE LookBuild(p)
  BY <1>7 DEF LookBuild
<1>8. CASE Lock(p)
  BY <1>8 DEF Lock
<1>9. CASE Recheck(p)
  BY <1>9 DEF Recheck
<1>10. CASE AskBinary(p)
  BY <1>10 DEF AskBinary, Answer, NextRegistry
<1>11. CASE PullSource(p)
  BY <1>11 DEF PullSource
<1>12. CASE Compile(p)
  BY <1>12 DEF Compile
<1>13. CASE Validate(p)
  BY <1>13 DEF Validate
<1>14. CASE CommitBuild(p)
  BY <1>14 DEF CommitBuild
<1>15. CASE Die(p)
  BY <1>15 DEF Die
<1>16. QED
  BY <1>1, <1>2, <1>3, <1>4, <1>5, <1>6, <1>7, <1>8, <1>9, <1>10, <1>11, <1>12, <1>13,
     <1>14, <1>15 DEF Step

\* It returns what the cache has, and no step of its own stores anything bad.
LEMMA KeepsServed ==
  ASSUME TypeOK, StoredIsGood, NEW p \in Callers, CallerInv(p), Begin(p) \/ Step(p) \/ Die(p)
  PROVE  Served(p)'
<1> USE DEF TypeOK, Goto, Fail, Busy, cache, version, call, CallerInv, Resolved, Checks, Served,
        StoredIsGood
<1>1. CASE Begin(p)
  BY <1>1 DEF Begin
<1>2. CASE AskVersion(p)
  BY <1>2 DEF AskVersion, Answer, VersionUnreachable, NamedBy, NextRegistry
<1>3. CASE Record(p)
  BY <1>3 DEF Record
<1>4. CASE LookRelease(p)
  BY <1>4 DEF LookRelease
<1>5. CASE PullRelease(p)
  BY <1>5 DEF PullRelease, Answer
<1>6. CASE CommitRelease(p)
  BY <1>6 DEF CommitRelease
<1>7. CASE LookBuild(p)
  BY <1>7 DEF LookBuild
<1>8. CASE Lock(p)
  BY <1>8 DEF Lock
<1>9. CASE Recheck(p)
  BY <1>9 DEF Recheck
<1>10. CASE AskBinary(p)
  BY <1>10 DEF AskBinary, Answer, NextRegistry
<1>11. CASE PullSource(p)
  BY <1>11 DEF PullSource
<1>12. CASE Compile(p)
  BY <1>12 DEF Compile
<1>13. CASE Validate(p)
  BY <1>13 DEF Validate
<1>14. CASE CommitBuild(p)
  BY <1>14 DEF CommitBuild
<1>15. CASE Die(p)
  BY <1>15 DEF Die
<1>16. QED
  BY <1>1, <1>2, <1>3, <1>4, <1>5, <1>6, <1>7, <1>8, <1>9, <1>10, <1>11, <1>12, <1>13,
     <1>14, <1>15 DEF Step

\* The answers to the three requests are remembered; this is what follows from them.
LEMMA VersionAnswers ==
  ASSUME TypeOK, NEW p \in Callers, AskVersion(p)
  PROVE  LET r == ResolveOrder[idx[p]] IN
         /\ pc[p] = "ask" /\ r \in Registries
         /\ UNCHANGED <<dev, offline, warm, held>>
         /\ \E a \in Answers :
              /\ tried'[p] = [tried[p] EXCEPT ![r] = a]
              /\ \/ a = "found" /\ pc'[p] = "record"
                 \/ /\ a \in {"absent", "bad", "raw"} /\ pc'[p] = "failed"
                    /\ a = "bad" => error'[p] = <<"resolve", "content">>
                    /\ a = "raw" => error'[p] = <<"resolve", "raw">>
                    /\ a = "absent" => error'[p] = <<"resolve", "not_found">>
                 \/ /\ a = "unreachable" /\ ~dev /\ idx[p] < Len(Order)
                    /\ idx'[p] = idx[p] + 1 /\ pc'[p] = "ask"
                 \/ /\ dev \/ idx[p] = Len(Order)
                    /\ a = "unreachable" /\ pc'[p] = "failed" /\ error'[p] = <<"resolve", "access">>
<1> DEFINE r == ResolveOrder[idx[p]]
<1>1. /\ pc[p] = "ask" /\ r \in Registries
      /\ UNCHANGED <<dev, offline, warm, held>>
  BY WalksAreWalks DEF AskVersion, version, call
<1>2. ASSUME NEW a \in Answers, Answer(p, r, a)
      PROVE  tried'[p] = [tried[p] EXCEPT ![r] = a]
  BY <1>1, <1>2, AnswerTypes
<1>3. ASSUME NEW kind \in Kinds, Fail(p, "resolve", kind)
      PROVE  pc'[p] = "failed" /\ error'[p] = <<"resolve", kind>>
  BY <1>3, FailTypes DEF Stages
<1>4. CASE Answer(p, r, "found") /\ Goto(p, "record")
  BY <1>1, <1>2, <1>4 DEF TypeOK, Goto, Answers, Damaged
<1>5. CASE Answer(p, r, "absent") /\ Fail(p, "resolve", "not_found")
  BY <1>1, <1>2, <1>3, <1>5 DEF Answers, Damaged, Kinds
<1>6. CASE Answer(p, r, "bad") /\ Fail(p, "resolve", "content")
  BY <1>1, <1>2, <1>3, <1>6 DEF Answers, Damaged, Kinds
<1>r. CASE Answer(p, r, "raw") /\ Fail(p, "resolve", "raw")
  BY <1>1, <1>2, <1>3, <1>r DEF Answers, Damaged, Kinds
<1>7. CASE Answer(p, r, "unreachable") /\ dev /\ Fail(p, "resolve", "access")
  BY <1>1, <1>2, <1>3, <1>7 DEF Answers, Damaged, Kinds
<1>8. CASE Answer(p, r, "unreachable") /\ ~dev /\ NextRegistry(p, "resolve")
  BY <1>1, <1>2, <1>3, <1>8, WalkTypes DEF Answers, Damaged, Kinds, Stages
<1>9. QED
  BY <1>4, <1>5, <1>6, <1>r, <1>7, <1>8 DEF AskVersion, VersionUnreachable

\* The Release is asked of the registry that resolved the version, and of no other.
LEMMA ReleaseAnswers ==
  ASSUME TypeOK, NEW p \in Callers, Resolved(p), PullRelease(p)
  PROVE  /\ pc[p] = "pull" /\ authority[p] \in Registries
         /\ UNCHANGED <<dev, offline, warm, held>>
         /\ \E a \in Answers :
              /\ tried'[p] = [tried[p] EXCEPT ![authority[p]] = a]
              /\ \/ a = "found" /\ pc'[p] = "commit_release"
                 \/ /\ a # "found" /\ pc'[p] = "failed"
                    /\ \E kind \in Kinds : error'[p] = <<"release", kind>>
                    /\ a = "bad" => error'[p] = <<"release", "content">>
                    /\ a = "raw" => error'[p] = <<"release", "raw">>
<1>1. /\ pc[p] = "pull" /\ authority[p] \in Registries
      /\ UNCHANGED <<dev, offline, warm, held>>
  BY DEF PullRelease, Resolved, Busy, version, call
<1>2. ASSUME NEW a \in Answers, Answer(p, authority[p], a)
      PROVE  tried'[p] = [tried[p] EXCEPT ![authority[p]] = a]
  BY <1>1, <1>2, AnswerTypes
<1>3. ASSUME NEW kind \in Kinds, Fail(p, "release", kind)
      PROVE  pc'[p] = "failed" /\ error'[p] = <<"release", kind>>
  BY <1>3, FailTypes DEF Stages
<1>4. CASE Answer(p, authority[p], "found") /\ Goto(p, "commit_release")
  BY <1>1, <1>2, <1>4 DEF TypeOK, Goto, Answers, Damaged
<1>5. CASE Answer(p, authority[p], "absent") /\ Fail(p, "release", "not_found")
  BY <1>1, <1>2, <1>3, <1>5 DEF Answers, Damaged, Kinds
<1>6. CASE Answer(p, authority[p], "bad") /\ Fail(p, "release", "content")
  BY <1>1, <1>2, <1>3, <1>6 DEF Answers, Damaged, Kinds
<1>r. CASE Answer(p, authority[p], "raw") /\ Fail(p, "release", "raw")
  BY <1>1, <1>2, <1>3, <1>r DEF Answers, Damaged, Kinds
<1>7. CASE Answer(p, authority[p], "unreachable") /\ Fail(p, "release", "access")
  BY <1>1, <1>2, <1>3, <1>7 DEF Answers, Damaged, Kinds
<1>8. QED
  BY <1>4, <1>5, <1>6, <1>r, <1>7 DEF PullRelease

\* The first registry that can be reached decides on the Build.
LEMMA BinaryAnswers ==
  ASSUME TypeOK, NEW p \in Callers, Resolved(p), AskBinary(p)
  PROVE  LET r == BinaryOrder(p)[idx[p]] IN
         /\ pc[p] = "binary" /\ r \in Registries
         /\ UNCHANGED <<dev, offline, warm>>
         /\ \E a \in Answers :
              /\ tried'[p] = [tried[p] EXCEPT ![r] = a]
              /\ \/ /\ a \in {"found", "bad"} /\ pc'[p] = "validate"
                    /\ held'[p] = IF a = "bad" THEN "bad" ELSE "good"
                 \/ a = "absent" /\ pc'[p] = "source" /\ authority'[p] = r
                 \/ a = "raw" /\ pc'[p] = "failed" /\ error'[p] = <<"binary", "raw">>
                 \/ /\ a = "unreachable" /\ idx[p] < Len(Order) /\ UNCHANGED authority
                    /\ idx'[p] = idx[p] + 1 /\ pc'[p] = "binary"
                 \/ /\ a = "unreachable" /\ idx[p] = Len(Order)
                    /\ pc'[p] = "failed" /\ error'[p] = <<"binary", "access">>
<1> DEFINE r == BinaryOrder(p)[idx[p]]
<1>1. /\ pc[p] = "binary" /\ r \in Registries
      /\ UNCHANGED <<dev, offline, warm>>
  BY WalksAreWalks DEF AskBinary, Resolved, Busy, version, call
<1>2. ASSUME NEW a \in Answers, Answer(p, r, a)
      PROVE  tried'[p] = [tried[p] EXCEPT ![r] = a]
  BY <1>1, <1>2, AnswerTypes
<1>3. CASE /\ \E a \in {"found", "bad"} :
                /\ Answer(p, r, a)
                /\ held' = [held EXCEPT ![p] = IF a = "bad" THEN "bad" ELSE "good"]
           /\ Goto(p, "validate")
  BY <1>1, <1>2, <1>3 DEF TypeOK, Goto, Answers, Damaged
<1>4. CASE /\ Answer(p, r, "absent")
           /\ authority' = [authority EXCEPT ![p] = r]
           /\ Goto(p, "source")
  BY <1>1, <1>2, <1>4 DEF TypeOK, Goto, Answers, Damaged
<1>5. CASE Answer(p, r, "unreachable") /\ NextRegistry(p, "binary") /\ UNCHANGED authority
  <2>1. /\ "binary" \in Stages /\ "access" \in Kinds /\ "unreachable" \in Answers
    BY DEF Stages, Kinds, Answers
  <2>2. QED
    BY <1>1, <1>2, <1>5, <2>1, WalkTypes, FailTypes
<1>6. CASE Answer(p, r, "raw") /\ Fail(p, "binary", "raw")
  <2>1. "binary" \in Stages /\ "raw" \in Kinds /\ "raw" \in Answers
    BY DEF Stages, Kinds, Answers, Damaged
  <2>2. QED
    BY <1>1, <1>2, <1>6, <2>1, FailTypes
<1>7. QED
  BY <1>3, <1>4, <1>5, <1>6 DEF AskBinary

\* It goes on to the next registry only when one was unreachable.
LEMMA KeepsWalking ==
  ASSUME TypeOK, NEW p \in Callers, CallerInv(p), Begin(p) \/ Step(p) \/ Die(p)
  PROVE  Walking(p)'
<1> USE DEF TypeOK, Goto, Fail, cache, version, call, CallerInv, Walking, NotTried
<1>1. CASE Begin(p)
  BY <1>1 DEF Begin
<1>2. CASE AskVersion(p)
  <2> DEFINE r == ResolveOrder[idx[p]]
  <2>1. /\ pc[p] = "ask" /\ r \in Registries /\ dev' = dev
        /\ tried[p] \in [Registries -> Answers] /\ idx[p] \in 1 .. Len(Order)
        /\ ResolveOrder = Walk(Primary) /\ ResolveOrder' = ResolveOrder
        /\ \A i \in 1 .. Len(Order) : ResolveOrder[i] \in Registries
    BY <1>2, VersionAnswers, WalksAreWalks, WalkVisitsAll, LoadAssumption DEF ResolveOrder
  <2>2. CASE pc'[p] # "ask"
    BY <1>2, <2>1, <2>2, VersionAnswers
  <2>3. CASE pc'[p] = "ask"
    <3>1. /\ tried'[p] = [tried[p] EXCEPT ![r] = "unreachable"]
          /\ ~dev /\ idx'[p] = idx[p] + 1
      <4> HIDE DEF TypeOK, Goto, Fail, cache, version, call, CallerInv, Walking, NotTried
      <4> QED
        BY <1>2, <2>3, VersionAnswers
    <3>2. ASSUME NEW j \in 1 .. idx'[p] - 1
          PROVE  tried'[p][ResolveOrder[j]] = "unreachable"
      <4>1. j = idx[p] \/ j \in 1 .. idx[p] - 1
        BY <2>1, <3>1
      <4>2. ResolveOrder[j] \in Registries
        BY <2>1, <4>1
      <4>3. QED
        BY <2>1, <3>1, <4>1, <4>2
    <3>3. QED
      BY <2>1, <2>3, <3>1, <3>2
  <2>4. QED
    BY <2>2, <2>3
<1>3. CASE Record(p)
  BY <1>3 DEF Record
<1>4. CASE LookRelease(p)
  BY <1>4 DEF LookRelease
<1>5. CASE PullRelease(p)
  BY <1>5, ReleaseAnswers
<1>6. CASE CommitRelease(p)
  BY <1>6 DEF CommitRelease
<1>7. CASE LookBuild(p)
  BY <1>7 DEF LookBuild
<1>8. CASE Lock(p)
  BY <1>8 DEF Lock
<1>9. CASE Recheck(p)
  BY <1>9 DEF Recheck
<1>10. CASE AskBinary(p)
  <2> DEFINE w == BinaryOrder(p)
  <2>1. /\ pc[p] = "binary" /\ w[idx[p]] \in Registries
        /\ tried[p] \in [Registries -> Answers] /\ idx[p] \in 1 .. Len(Order)
        /\ w = Walk(authority[p]) /\ authority[p] \in Registries
    BY <1>10, BinaryAnswers, WalksAreWalks, LoadAssumption DEF Resolved, Busy, AskBinary
  <2>2. CASE pc'[p] # "binary"
    BY <1>10, <2>1, <2>2, BinaryAnswers
  <2>3. CASE pc'[p] = "binary"
    <3>1. /\ tried'[p] = [tried[p] EXCEPT ![w[idx[p]]] = "unreachable"]
          /\ BinaryOrder(p)' = w /\ idx'[p] = idx[p] + 1
      <4> HIDE DEF TypeOK, Goto, Fail, cache, version, call, CallerInv, Walking, NotTried
      <4>1. Resolved(p)
        BY DEF CallerInv
      <4>2. /\ tried'[p] = [tried[p] EXCEPT ![w[idx[p]]] = "unreachable"]
            /\ UNCHANGED authority /\ idx'[p] = idx[p] + 1
        BY <1>10, <2>3, <4>1, BinaryAnswers
      <4> QED
        BY <4>2 DEF BinaryOrder
    <3>2. ASSUME NEW j \in 1 .. idx'[p] - 1
          PROVE  tried'[p][w[j]] = "unreachable"
      <4>1. j = idx[p] \/ j \in 1 .. idx[p] - 1
        BY <2>1, <3>1
      <4>2. w[j] \in Registries
        BY <2>1, <3>1, <4>1, WalkVisitsAll
      <4>3. QED
        BY <2>1, <3>1, <4>1, <4>2
    <3>3. \A s \in Registries : tried'[p][s] \in {"no", "unreachable"}
      BY <2>1, <3>1
    <3>4. QED
      BY <2>3, <3>1, <3>2, <3>3
  <2>4. QED
    BY <2>2, <2>3
<1>11. CASE PullSource(p)
  BY <1>11 DEF PullSource
<1>12. CASE Compile(p)
  BY <1>12 DEF Compile
<1>13. CASE Validate(p)
  BY <1>13 DEF Validate
<1>14. CASE CommitBuild(p)
  BY <1>14 DEF CommitBuild
<1>15. CASE Die(p)
  BY <1>15 DEF Die
<1>16. QED
  BY <1>1, <1>2, <1>3, <1>4, <1>5, <1>6, <1>7, <1>8, <1>9, <1>10, <1>11, <1>12, <1>13,
     <1>14, <1>15 DEF Step

\* A bad answer leads to validation or to a content error, and nowhere else.
LEMMA KeepsChecks ==
  ASSUME TypeOK, NEW p \in Callers, CallerInv(p), Begin(p) \/ Step(p) \/ Die(p)
  PROVE  Checks(p)'
<1> USE DEF TypeOK, Goto, Fail, cache, version, call, CallerInv, Resolved, Walking, Checks,
        NotTried, Busy
<1>1. CASE Begin(p)
  BY <1>1 DEF Begin, Damaged
<1>2. CASE AskVersion(p)
  <2>1. tried[p] \in [Registries -> Answers] /\ \A s \in Registries : tried[p][s] \notin Damaged
    BY <1>2 DEF AskVersion
  <2>2. PICK a \in Answers :
          /\ tried'[p] = [tried[p] EXCEPT ![ResolveOrder[idx[p]]] = a]
          /\ pc'[p] \in {"record", "failed", "ask"}
          /\ a \in Damaged => pc'[p] = "failed" /\ error'[p][2] \in {"content", "raw"}
    <3> HIDE DEF TypeOK, Goto, Fail, cache, version, call, Walking, Checks
    <3>1. PICK a \in Answers :
            /\ tried'[p] = [tried[p] EXCEPT ![ResolveOrder[idx[p]]] = a]
            /\ \/ a = "found" /\ pc'[p] = "record"
               \/ a = "absent" /\ pc'[p] = "failed"
               \/ a = "bad" /\ pc'[p] = "failed" /\ error'[p] = <<"resolve", "content">>
               \/ a = "raw" /\ pc'[p] = "failed" /\ error'[p] = <<"resolve", "raw">>
               \/ a = "unreachable" /\ pc'[p] \in {"ask", "failed"}
      BY <1>2, VersionAnswers
    <3>2. QED
      BY <3>1 DEF Damaged
  <2>3. (\E s \in Registries : tried'[p][s] \in Damaged) => a \in Damaged
    BY <2>1, <2>2
  <2>4. QED
    BY <2>2, <2>3
<1>3. CASE Record(p)
  BY <1>3 DEF Record
<1>4. CASE LookRelease(p)
  BY <1>4 DEF LookRelease
<1>5. CASE PullRelease(p)
  <2>1. tried[p] \in [Registries -> Answers] /\ \A s \in Registries : tried[p][s] \notin Damaged
    BY <1>5 DEF PullRelease
  <2>2. PICK a \in Answers :
          /\ tried'[p] = [tried[p] EXCEPT ![authority[p]] = a]
          /\ pc'[p] \in {"commit_release", "failed"}
          /\ a \in Damaged => pc'[p] = "failed" /\ error'[p][2] \in {"content", "raw"}
    <3> HIDE DEF TypeOK, Goto, Fail, cache, version, call, Walking, Checks
    <3>1. PICK a \in Answers :
            /\ tried'[p] = [tried[p] EXCEPT ![authority[p]] = a]
            /\ pc'[p] \in {"commit_release", "failed"}
            /\ a = "bad" => pc'[p] = "failed" /\ error'[p] = <<"release", "content">>
            /\ a = "raw" => pc'[p] = "failed" /\ error'[p] = <<"release", "raw">>
      BY <1>5, ReleaseAnswers
    <3>2. QED
      BY <3>1 DEF Damaged
  <2>3. (\E s \in Registries : tried'[p][s] \in Damaged) => a \in Damaged
    BY <2>1, <2>2
  <2>4. QED
    BY <2>2, <2>3
<1>6. CASE CommitRelease(p)
  BY <1>6 DEF CommitRelease
<1>7. CASE LookBuild(p)
  BY <1>7 DEF LookBuild
<1>8. CASE Lock(p)
  BY <1>8 DEF Lock
<1>9. CASE Recheck(p)
  BY <1>9 DEF Recheck, Damaged
<1>10. CASE AskBinary(p)
  <2>1. tried[p] \in [Registries -> Answers] /\ \A s \in Registries : tried[p][s] \notin Damaged
    BY <1>10 DEF AskBinary
  <2>2. PICK a \in Answers :
          /\ tried'[p] = [tried[p] EXCEPT ![BinaryOrder(p)[idx[p]]] = a]
          /\ pc'[p] \in {"validate", "source", "binary", "failed"}
          /\ pc'[p] = "validate" => held'[p] # "none"
          /\ a \in Damaged =>
               \/ pc'[p] = "validate" /\ held'[p] = "bad"
               \/ pc'[p] = "failed" /\ error'[p][2] = "raw"
    <3> HIDE DEF TypeOK, Goto, Fail, cache, version, call, Walking, Checks
    <3>1. PICK a \in Answers :
            /\ tried'[p] = [tried[p] EXCEPT ![BinaryOrder(p)[idx[p]]] = a]
            /\ pc'[p] \in {"validate", "source", "binary", "failed"}
            /\ pc'[p] = "validate" => held'[p] # "none"
            /\ a = "bad" => pc'[p] = "validate" /\ held'[p] = "bad"
            /\ a = "raw" => pc'[p] = "failed" /\ error'[p] = <<"binary", "raw">>
      BY <1>10, BinaryAnswers
    <3>2. QED
      BY <3>1 DEF Damaged
  <2>3. (\E s \in Registries : tried'[p][s] \in Damaged) => a \in Damaged
    BY <2>1, <2>2
  <2>4. QED
    BY <2>2, <2>3
<1>11. CASE PullSource(p)
  BY <1>11 DEF PullSource
<1>12. CASE Compile(p)
  BY <1>12 DEF Compile
<1>13. CASE Validate(p)
  BY <1>13 DEF Validate
<1>14. CASE CommitBuild(p)
  BY <1>14 DEF CommitBuild
<1>15. CASE Die(p)
  BY <1>15 DEF Die, Damaged
<1>16. QED
  BY <1>1, <1>2, <1>3, <1>4, <1>5, <1>6, <1>7, <1>8, <1>9, <1>10, <1>11, <1>12, <1>13,
     <1>14, <1>15 DEF Step

\* A call that began with all it needs in the caches finds it there.
LEMMA KeepsWarm ==
  ASSUME TypeOK, NEW p \in Callers, CallerInv(p), Begin(p) \/ Step(p) \/ Die(p)
  PROVE  Warm(p)'
<1> USE DEF TypeOK, Goto, Fail, cache, version, call, CallerInv, Resolved, Warm, UseCached, Busy,
        NotTried
<1>1. CASE Begin(p)
  <2>1. PICK off \in BOOLEAN :
          /\ warm' = [warm EXCEPT ![p] = /\ UseCached(off)
                                         /\ resolution \in releases
                                         /\ builds[resolution] # "none"]
          /\ UseCached(off) => Goto(p, "release") /\ digest' = [digest EXCEPT ![p] = resolution]
    BY <1>1 DEF Begin
  <2>2. warm'[p] <=> UseCached(off) /\ resolution \in releases /\ builds[resolution] # "none"
    BY <2>1
  <2>3. tried'[p] = NotTried /\ releases' = releases /\ builds' = builds
    BY <1>1 DEF Begin
  <2>4. UseCached(off) => pc'[p] = "release" /\ digest'[p] = resolution
    BY <2>1
  <2>5. QED
    BY <2>2, <2>3, <2>4
<1>2. CASE AskVersion(p)
  BY <1>2, VersionAnswers
<1>3. CASE Record(p)
  BY <1>3 DEF Record
<1>4. CASE LookRelease(p)
  BY <1>4 DEF LookRelease
<1>5. CASE PullRelease(p)
  BY <1>5, ReleaseAnswers
<1>6. CASE CommitRelease(p)
  BY <1>6 DEF CommitRelease
<1>7. CASE LookBuild(p)
  BY <1>7 DEF LookBuild
<1>8. CASE Lock(p)
  BY <1>8 DEF Lock
<1>9. CASE Recheck(p)
  BY <1>9 DEF Recheck
<1>10. CASE AskBinary(p)
  BY <1>10, BinaryAnswers
<1>11. CASE PullSource(p)
  BY <1>11 DEF PullSource
<1>12. CASE Compile(p)
  BY <1>12 DEF Compile
<1>13. CASE Validate(p)
  BY <1>13 DEF Validate
<1>14. CASE CommitBuild(p)
  BY <1>14 DEF CommitBuild
<1>15. CASE Die(p)
  BY <1>15 DEF Die
<1>16. QED
  BY <1>1, <1>2, <1>3, <1>4, <1>5, <1>6, <1>7, <1>8, <1>9, <1>10, <1>11, <1>12, <1>13,
     <1>14, <1>15 DEF Step

\* The offline branches of api.get and materialize avoid every request.
LEMMA KeepsSilent ==
  ASSUME TypeOK, NEW p \in Callers, CallerInv(p), Begin(p) \/ Step(p) \/ Die(p)
  PROVE  Silent(p)'
<1> USE DEF TypeOK, Goto, Fail, cache, version, call, CallerInv, Silent, Resolved, Busy, NotTried
<1>1. CASE Begin(p)
  <2>1. PICK off \in BOOLEAN :
          /\ offline' = [offline EXCEPT ![p] = off]
          /\ off => Goto(p, "failed") \/ Goto(p, "release")
    BY <1>1 DEF Begin
  <2>2. tried'[p] = NotTried
    BY <1>1 DEF Begin
  <2>3. QED
    BY <2>1, <2>2
<1>2. CASE AskVersion(p)
  BY <1>2, VersionAnswers
<1>3. CASE Record(p)
  BY <1>3 DEF Record
<1>4. CASE LookRelease(p)
  BY <1>4 DEF LookRelease
<1>5. CASE PullRelease(p)
  BY <1>5, ReleaseAnswers
<1>6. CASE CommitRelease(p)
  BY <1>6 DEF CommitRelease
<1>7. CASE LookBuild(p)
  BY <1>7 DEF LookBuild
<1>8. CASE Lock(p)
  BY <1>8 DEF Lock
<1>9. CASE Recheck(p)
  BY <1>9 DEF Recheck
<1>10. CASE AskBinary(p)
  BY <1>10, BinaryAnswers
<1>11. CASE PullSource(p)
  BY <1>11 DEF PullSource
<1>12. CASE Compile(p)
  BY <1>12 DEF Compile
<1>13. CASE Validate(p)
  BY <1>13 DEF Validate
<1>14. CASE CommitBuild(p)
  BY <1>14 DEF CommitBuild
<1>15. CASE Die(p)
  BY <1>15 DEF Die
<1>16. QED
  BY <1>1, <1>2, <1>3, <1>4, <1>5, <1>6, <1>7, <1>8, <1>9, <1>10, <1>11, <1>12, <1>13,
     <1>14, <1>15 DEF Step

\* The walks decide: the last unreachable registry, or the first other answer.
LEMMA KeepsDecided ==
  ASSUME TypeOK, NEW p \in Callers, CallerInv(p), Begin(p) \/ Step(p) \/ Die(p)
  PROVE  Decided(p)'
<1> USE DEF TypeOK, Goto, Fail, cache, version, call, CallerInv, Walking, Decided, Busy
<1>1. CASE Begin(p)
  BY <1>1 DEF Begin
<1>2. CASE AskVersion(p)
  <2> DEFINE r == ResolveOrder[idx[p]]
  <2>1. /\ r \in Registries /\ dev' = dev /\ pc[p] = "ask" /\ idx[p] \in 1 .. Len(Order)
        /\ tried[p] \in [Registries -> Answers]
        /\ ResolveOrder = Walk(Primary) /\ Primary \in Registries
    BY <1>2, VersionAnswers, WalksAreWalks, LoadAssumption
  <2>2. CASE pc'[p] # "failed"
    <3>1. pc'[p] \in {"record", "ask"}
      BY <1>2, <2>2, VersionAnswers
    <3>2. QED
      BY <3>1
  <2>3. CASE pc'[p] = "failed" /\ error'[p] \notin {<<"resolve", "access">>, <<"binary", "access">>}
    BY <2>3
  <2>4. CASE pc'[p] = "failed" /\ error'[p] \in {<<"resolve", "access">>, <<"binary", "access">>}
    <3>1. /\ tried'[p] = [tried[p] EXCEPT ![r] = "unreachable"]
          /\ dev \/ idx[p] = Len(Order)
          /\ error'[p] = <<"resolve", "access">>
      <4> HIDE DEF TypeOK, Goto, Fail, cache, version, call, Walking, Decided
      <4>1. PICK a \in Answers :
              /\ tried'[p] = [tried[p] EXCEPT ![r] = a]
              /\ \/ a \in {"absent", "bad", "raw"} /\ \E kind \in {"not_found", "content", "raw"} :
                                                  error'[p] = <<"resolve", kind>>
                 \/ a = "unreachable" /\ (dev \/ idx[p] = Len(Order))
                    /\ error'[p] = <<"resolve", "access">>
        BY <1>2, <2>4, VersionAnswers
      <4>2. QED
        BY <2>4, <4>1
    <3>2. CASE dev
      <4>1. r = Primary
        BY <2>1, <3>2, WalkVisitsAll
      <4>2. QED
        BY <2>1, <2>4, <3>1, <3>2, <4>1
    <3>3. CASE idx[p] = Len(Order)
      <4>1. ASSUME NEW s \in Registries
            PROVE  tried'[p][s] = "unreachable"
        <5>1. PICK i \in 1 .. Len(Order) : ResolveOrder[i] = s
          BY <2>1, WalkVisitsAll
        <5>2. i = idx[p] \/ i \in 1 .. idx[p] - 1
          BY <2>1, <3>3
        <5>3. QED
          BY <2>1, <3>1, <5>1, <5>2
      <4>2. QED
        BY <2>4, <4>1
    <3>4. QED
      BY <3>1, <3>2, <3>3
  <2>5. QED
    BY <2>2, <2>3, <2>4
<1>3. CASE Record(p)
  BY <1>3 DEF Record
<1>4. CASE LookRelease(p)
  BY <1>4 DEF LookRelease
<1>5. CASE PullRelease(p)
  <2>1. \/ pc'[p] = "commit_release"
        \/ pc'[p] = "failed" /\ \E kind \in Kinds : error'[p] = <<"release", kind>>
    BY <1>5, ReleaseAnswers
  <2>2. QED
    BY <2>1
<1>6. CASE CommitRelease(p)
  BY <1>6 DEF CommitRelease
<1>7. CASE LookBuild(p)
  BY <1>7 DEF LookBuild
<1>8. CASE Lock(p)
  BY <1>8 DEF Lock
<1>9. CASE Recheck(p)
  BY <1>9 DEF Recheck
<1>10. CASE AskBinary(p)
  <2> DEFINE w == BinaryOrder(p)
             r == w[idx[p]]
  <2>1. /\ pc[p] = "binary" /\ r \in Registries /\ idx[p] \in 1 .. Len(Order)
        /\ tried[p] \in [Registries -> Answers]
        /\ w = Walk(authority[p]) /\ authority[p] \in Registries
    BY <1>10, BinaryAnswers, WalksAreWalks DEF Resolved, Busy, AskBinary
  <2>2. CASE pc'[p] \notin {"source", "failed"}
    <3>1. pc'[p] \notin {"source", "compile", "failed"}
      BY <1>10, <2>2, BinaryAnswers
    <3>2. QED
      BY <3>1
  <2>3. CASE pc'[p] = "source"
    <3>1. tried'[p] = [tried[p] EXCEPT ![r] = "absent"] /\ authority'[p] = r
      <4> HIDE DEF TypeOK, Goto, Fail, cache, version, call, Walking, Decided
      <4>1. QED
        BY <1>10, <2>1, <2>3, BinaryAnswers
    <3>2. QED
      BY <2>1, <2>3, <3>1
  <2>r. CASE pc'[p] = "failed" /\ error'[p] # <<"binary", "access">>
    <3>1. error'[p] = <<"binary", "raw">>
      <4> HIDE DEF TypeOK, Goto, Fail, cache, version, call, Walking, Decided
      <4>1. QED
        BY <1>10, <2>r, BinaryAnswers
    <3>2. QED
      BY <2>r, <3>1
  <2>4. CASE pc'[p] = "failed" /\ error'[p] = <<"binary", "access">>
    <3>1. tried'[p] = [tried[p] EXCEPT ![r] = "unreachable"] /\ idx[p] = Len(Order)
      <4> HIDE DEF TypeOK, Goto, Fail, cache, version, call, Walking, Decided, w
      <4>1. PICK a \in Answers :
              /\ tried'[p] = [tried[p] EXCEPT ![r] = a]
              /\ \/ a # "unreachable" /\ (pc'[p] # "failed" \/ error'[p] = <<"binary", "raw">>)
                 \/ a = "unreachable" /\ (pc'[p] = "binary" \/ idx[p] = Len(Order))
        <5> HIDE DEF CallerInv
        <5>1. Resolved(p)
          BY DEF CallerInv
        <5> QED
          BY <1>10, <5>1, BinaryAnswers DEF w
      <4>2. a = "unreachable"
        BY <2>4, <4>1
      <4>3. QED
        BY <2>4, <4>1, <4>2
    <3>2. ASSUME NEW s \in Registries
          PROVE  tried'[p][s] = "unreachable"
      <4>1. PICK i \in 1 .. Len(Order) : w[i] = s
        <5> HIDE DEF TypeOK, Goto, Fail, cache, version, call, Walking, Decided, w
        <5>1. authority[p] \in Registries /\ w = Walk(authority[p])
          BY <2>1
        <5>2. \E i \in 1 .. Len(Order) : Walk(authority[p])[i] = s
          BY <5>1, WalkVisitsAll
        <5>3. QED
          BY <5>1, <5>2
      <4>2. i = idx[p] \/ i \in 1 .. idx[p] - 1
        BY <2>1, <3>1
      <4>3. i \in 1 .. idx[p] - 1 => tried[p][s] = "unreachable"
        BY <2>1, <4>1
      <4>4. i = idx[p] => r = s
        BY <4>1
      <4> HIDE DEF r, w, TypeOK, Goto, Fail, cache, version, call, CallerInv, Walking, Decided
      <4>5. QED
        BY <2>1, <3>1, <4>2, <4>3, <4>4
    <3>3. QED
      BY <2>4, <3>2
  <2>5. QED
    BY <2>2, <2>3, <2>r, <2>4
<1>11. CASE PullSource(p)
  BY <1>11 DEF PullSource
<1>12. CASE Compile(p)
  BY <1>12 DEF Compile
<1>13. CASE Validate(p)
  BY <1>13 DEF Validate
<1>14. CASE CommitBuild(p)
  BY <1>14 DEF CommitBuild
<1>15. CASE Die(p)
  BY <1>15 DEF Die
<1>16. QED
  BY <1>1, <1>2, <1>3, <1>4, <1>5, <1>6, <1>7, <1>8, <1>9, <1>10, <1>11, <1>12, <1>13,
     <1>14, <1>15 DEF Step

-----------------------------------------------------------------------------
(* The invariant is inductive.                                             *)

\* Nobody has called, and nothing is cached.
LEMMA InitInv == Init => Inv
<1> SUFFICES ASSUME Init
             PROVE  Inv
  OBVIOUS
<1>1. 1 \in 1 .. Len(Order)
  BY WalkVisitsAll, LoadAssumption
<1>2. TypeOK
  <2> HIDE DEF Registries
  <2>1. NotTried \in [Registries -> Answers]
    BY DEF NotTried, Answers
  <2>2. NoError \in Stages \X Kinds
    BY DEF NoError, Stages, Kinds
  <2>3. QED
    BY <1>1, <2>1, <2>2 DEF Init, TypeOK
<1>3. StoredIsGood
  BY DEF Init, StoredIsGood
<1>4. ASSUME NEW p \in Callers
      PROVE  CallerInv(p)
  <2>1. /\ pc[p] = "idle" /\ offline[p] = FALSE /\ warm[p] = FALSE /\ tried[p] = NotTried
        /\ error[p] = NoError
    BY DEF Init
  <2>2. \A r \in Registries : tried[p][r] = "no"
    BY <2>1 DEF NotTried
  <2>3. QED
    BY <2>1, <2>2 DEF CallerInv, Resolved, Follows, Walking, Decided, Checks, Warm, Silent, Fills,
                      Served, Locked, Filling, Busy
<1>5. QED
  BY <1>2, <1>3, <1>4 DEF Inv

\* A step of a caller.
LEMMA CallerStep ==
  ASSUME Inv, NEW p \in Callers, Begin(p) \/ Step(p) \/ Die(p)
  PROVE  Inv'
<1>1. TypeOK /\ StoredIsGood /\ CallerInv(p)
  BY DEF Inv
<1>2. TypeOK'
  BY <1>1, StepTypes DEF CallerInv
<1>3. StoredIsGood'
  BY <1>1, CacheGrows DEF StoredIsGood, TypeOK, CallerInv, Checks
<1>4. ASSUME NEW q \in Callers, q # p
      PROVE  CallerInv(q)
  BY DEF Inv
<1>5. ASSUME NEW q \in Callers
      PROVE  Resolved(q)'
  <2>1. CASE q = p
    BY <1>1, <2>1, KeepsResolved DEF Resolved
  <2>2. CASE q # p
    BY <1>1, <1>4, <2>2, OthersKeep DEF CallerInv, Resolved
  <2>3. QED
    BY <2>1, <2>2
<1>6. ASSUME NEW q \in Callers
      PROVE  Follows(q)'
  <2>1. CASE q = p
    BY <1>1, <2>1, KeepsFollows DEF Follows
  <2>2. CASE q # p
    BY <1>1, <1>4, <2>2, OthersKeep DEF CallerInv, Follows
  <2>3. QED
    BY <2>1, <2>2
<1>7. ASSUME NEW q \in Callers
      PROVE  Walking(q)'
  <2>1. CASE q = p
    BY <1>1, <2>1, KeepsWalking DEF Walking, BinaryOrder
  <2>2. CASE q # p
    BY <1>1, <1>4, <2>2, OthersKeep DEF CallerInv, Walking, BinaryOrder
  <2>3. QED
    BY <2>1, <2>2
<1>8. ASSUME NEW q \in Callers
      PROVE  Decided(q)'
  <2>1. CASE q = p
    BY <1>1, <2>1, KeepsDecided DEF Decided
  <2>2. CASE q # p
    BY <1>1, <1>4, <2>2, OthersKeep DEF CallerInv, Decided
  <2>3. QED
    BY <2>1, <2>2
<1>9. ASSUME NEW q \in Callers
      PROVE  Checks(q)'
  <2>1. CASE q = p
    BY <1>1, <2>1, KeepsChecks DEF Checks
  <2>2. CASE q # p
    BY <1>1, <1>4, <2>2, OthersKeep DEF CallerInv, Checks
  <2>3. QED
    BY <2>1, <2>2
<1>10. ASSUME NEW q \in Callers
      PROVE  Warm(q)'
  <2>1. CASE q = p
    BY <1>1, <2>1, KeepsWarm DEF Warm
  <2>2. CASE q # p
    BY <1>1, <1>4, <2>2, OthersKeep DEF CallerInv, Warm
  <2>3. QED
    BY <2>1, <2>2
<1>11. ASSUME NEW q \in Callers
      PROVE  Silent(q)'
  <2>1. CASE q = p
    BY <1>1, <2>1, KeepsSilent DEF Silent
  <2>2. CASE q # p
    BY <1>1, <1>4, <2>2, OthersKeep DEF CallerInv, Silent
  <2>3. QED
    BY <2>1, <2>2
<1>12. ASSUME NEW q \in Callers
      PROVE  Fills(q)'
  <2>1. CASE q = p
    BY <1>1, <2>1, KeepsFills DEF Fills
  <2>2. CASE q # p
    BY <1>1, <1>4, <2>2, OthersKeep DEF CallerInv, Fills
  <2>3. QED
    BY <2>1, <2>2
<1>13. ASSUME NEW q \in Callers
      PROVE  Served(q)'
  <2>1. CASE q = p
    BY <1>1, <2>1, KeepsServed DEF Served
  <2>2. CASE q # p
    BY <1>1, <1>4, <2>2, OthersKeep DEF CallerInv, Served
  <2>3. QED
    BY <2>1, <2>2
<1>14. ASSUME NEW q \in Callers
       PROVE  CallerInv(q)'
  <2>1. Resolved(q)' /\ Follows(q)' /\ Fills(q)' /\ Served(q)'
    BY <1>5, <1>6, <1>12, <1>13 DEF Resolved, Follows, Fills, Served
  <2>2. Walking(q)'
    BY <1>7 DEF Walking, BinaryOrder
  <2>3. Decided(q)' /\ Checks(q)'
    BY <1>8, <1>9 DEF Decided, Checks
  <2>4. Warm(q)' /\ Silent(q)'
    BY <1>10, <1>11 DEF Warm, Silent
  <2>5. QED
    BY <2>1, <2>2, <2>3, <2>4 DEF CallerInv
<1>15. QED
  BY <1>2, <1>3, <1>14 DEF Inv

\* Somebody publishes another Release under the dev version.
LEMMA MoveStep ==
  ASSUME Inv, NEW d \in Releases, Move(d)
  PROVE  Inv'
<1> USE DEF cache, call
<1>1. TypeOK'
  BY DEF Inv, TypeOK, Move
<1>2. StoredIsGood'
  BY DEF Inv, StoredIsGood, Move
<1>3. ASSUME NEW p \in Callers
      PROVE  CallerInv(p)'
  <2>1. CallerInv(p)
    BY DEF Inv
  <2>2. /\ current[p] \subseteq current'[p]
        /\ pc[p] \in Busy => bound' \in current'[p]
    BY DEF Inv, TypeOK, Move
  <2>3. Follows(p)'
    BY <2>1, <2>2 DEF CallerInv, Follows, Move
  <2>4. Walking(p)'
    BY <2>1 DEF CallerInv, Walking, Move, BinaryOrder
  <2>5. QED
    BY <2>1, <2>3, <2>4 DEF CallerInv, Resolved, Decided, Checks, Warm, Silent, Fills, Served, Move
<1>4. QED
  BY <1>1, <1>2, <1>3 DEF Inv

\* Nothing changes.
LEMMA StutterStep ==
  ASSUME Inv, UNCHANGED vars
  PROVE  Inv'
<1> USE DEF vars
<1>1. TypeOK' /\ StoredIsGood'
  BY DEF Inv, TypeOK, StoredIsGood
<1>2. ASSUME NEW p \in Callers
      PROVE  CallerInv(p)'
  <2>1. CallerInv(p)
    BY DEF Inv
  <2>2. Walking(p)'
    BY <2>1 DEF CallerInv, Walking, BinaryOrder
  <2>3. QED
    BY <2>1, <2>2 DEF CallerInv, Resolved, Follows, Decided, Checks, Warm, Silent, Fills, Served
<1>3. QED
  BY <1>1, <1>2 DEF Inv

\* All of it, always.
LEMMA Invariant == Spec => []Inv
<1>1. Inv /\ [Next]_vars => Inv'
  BY CallerStep, MoveStep, StutterStep DEF Next
<1>2. QED
  BY <1>1, InitInv, PTL DEF Spec

-----------------------------------------------------------------------------
(* The theorems.                                                           *)

\* Every variable keeps its type.
THEOREM TypeCorrect == Spec => []TypeOK
<1>1. Inv => TypeOK
  BY DEF Inv
<1>2. QED
  BY <1>1, Invariant, PTL

\* An online load of a dev version takes a Release that the version has named
\* since the load began (resolve_release never falls back for it).
THEOREM DevLoadsAreCurrent == Spec => []DevIsCurrent
<1>1. Inv => DevIsCurrent
  BY DEF Inv, CallerInv, Follows, DevIsCurrent
<1>2. QED
  BY <1>1, Invariant, PTL

\* Nobody compiles online but after one registry's 404 for the very BuildKey,
\* none of the others having answered (_binary_registry).
THEOREM MissesAreAuthoritative == Spec => []CompileOnlyAfterMiss
<1>1. Inv => CompileOnlyAfterMiss
  BY DEF Inv, CallerInv, Decided, CompileOnlyAfterMiss
<1>2. QED
  BY <1>1, Invariant, PTL

\* Both walks give up for want of access only after every registry they may
\* ask, however many there are and whichever is the primary.
THEOREM WalksAreExhaustive == Spec => []WalkIsExhaustive
<1>1. Inv => WalkIsExhaustive
  BY DEF Inv, CallerInv, Decided, WalkIsExhaustive
<1>2. QED
  BY <1>1, Invariant, PTL

\* Damaged content ends the call with a content error: no other registry is
\* asked and nothing is compiled in its place.
THEOREM DamageIsFinal == Spec => []FailClosed
<1>1. Inv => FailClosed
  BY DEF Inv, CallerInv, Checks, FailClosed
<1>2. QED
  BY <1>1, Invariant, PTL

\* A call that finds everything cached succeeds without a request.
THEOREM WarmCallsAreServed == Spec => []WarmServes
<1>1. Inv => WarmServes
  BY DEF Inv, CallerInv, Warm, WarmServes
<1>2. QED
  BY <1>1, Invariant, PTL

\* No call with K_DASH_OFFLINE=1 makes a request.
THEOREM OfflineAsksNobody == Spec => []OfflineIsSilent
<1>1. Inv => OfflineIsSilent
  BY DEF Inv, CallerInv, Silent, OfflineIsSilent
<1>2. QED
  BY <1>1, Invariant, PTL

\* Two callers never download or compile for the same BuildKey at a time, and
\* none does for a BuildKey that is there (build_lock and the second look).
THEOREM FillsAreSerialized ==
  Spec => [](\A p, q \in Callers :
               pc[p] \in Filling /\ pc[q] \in Filling /\ digest[p] = digest[q] =>
                 p = q /\ builds[digest[p]] = "none")
<1>1. Inv => \A p, q \in Callers :
               pc[p] \in Filling /\ pc[q] \in Filling /\ digest[p] = digest[q] =>
                 p = q /\ builds[digest[p]] = "none"
  BY DEF Inv, CallerInv, Fills, Locked
<1>2. QED
  BY <1>1, Invariant, PTL

\* Whoever is served is served a Build that has passed validation, whoever has
\* downloaded or compiled it.
THEOREM ServedIsValidated ==
  Spec => [](\A p \in Callers : pc[p] = "served" => builds[digest[p]] = "good")
<1>1. Inv => \A p \in Callers : pc[p] = "served" => builds[digest[p]] = "good"
  BY DEF Inv, CallerInv, Served
<1>2. QED
  BY <1>1, Invariant, PTL

\* What is stored under a BuildKey is never replaced.
THEOREM BuildsAreKept ==
  Spec => [][\A d \in Releases : builds[d] # "none" => builds'[d] = builds[d]]_vars
<1>1. Inv /\ [Next]_vars =>
        [\A d \in Releases : builds[d] # "none" => builds'[d] = builds[d]]_vars
  <2> SUFFICES ASSUME Inv, Next, NEW d \in Releases, builds[d] # "none"
               PROVE  builds'[d] = builds[d]
    OBVIOUS
  <2>1. CASE \E e \in Releases : Move(e)
    BY <2>1 DEF Move, cache
  <2>2. ASSUME NEW p \in Callers, Begin(p) \/ Step(p) \/ Die(p)
        PROVE  builds'[d] = builds[d]
    <3>1. TypeOK /\ (pc[p] = "commit" => builds[digest[p]] = "none")
      BY <2>2 DEF Inv, CallerInv, Fills, Filling
    <3>2. QED
      BY <2>2, <3>1, CacheGrows DEF TypeOK
  <2>3. QED
    BY <2>1, <2>2 DEF Next
<1>2. QED
  BY <1>1, Invariant, PTL DEF Spec

-----------------------------------------------------------------------------
(* The implementation of KernelGet.                                        *)

\* Nobody knows a Release that the version has not named.
NamedInv ==
  /\ bound \in named
  /\ resolution \in Releases => resolution \in named
  /\ \A p \in Callers : digest[p] # None => digest[p] \in named

\* A step of a call, seen from outside: it goes on, ends without a trace, or
\* returns a Build that was there or that it has just stored; and it learns of
\* Releases only from the version.
LEMMA StepOutcome ==
  ASSUME TypeOK, NEW p \in Callers, Walking(p), Step(p) \/ Die(p)
  PROVE  /\ pc[p] \in Busy /\ UNCHANGED <<version, offline, current>>
         /\ \/ digest'[p] = digest[p]
            \/ digest'[p] \in {bound, None} /\ pc'[p] # "served"
         /\ resolution' \in {resolution, Torn, digest[p]}
         /\ \/ pc'[p] \in Busy \cup {"failed", "idle"} /\ builds' = builds
            \/ /\ pc[p] \in {"build", "recheck"} /\ pc'[p] = "served"
               /\ builds' = builds /\ builds[digest[p]] # "none"
            \/ /\ pc[p] = "commit" /\ pc'[p] = "served"
               /\ builds' = [builds EXCEPT ![digest[p]] = held[p]]
<1>0. /\ pc \in [Callers -> Busy \cup {"idle", "served", "failed"}]
      /\ digest \in [Callers -> Releases \cup {None}]
  BY DEF TypeOK
<1> USE <1>0 DEF Goto, Fail, cache, version, call
<1>1. CASE AskVersion(p)
  BY <1>1, VersionIs DEF Busy
<1>2. CASE Record(p)
  BY <1>2 DEF Record, Busy
<1>3. CASE LookRelease(p)
  BY <1>3 DEF LookRelease, Busy
<1>4. CASE PullRelease(p)
  BY <1>4 DEF PullRelease, Busy
<1>5. CASE CommitRelease(p)
  BY <1>5 DEF CommitRelease, Busy
<1>6. CASE LookBuild(p)
  <2>1. /\ pc[p] = "build" /\ UNCHANGED <<version, offline, current, digest, resolution, builds>>
        /\ pc'[p] = IF builds[digest[p]] # "none" THEN "served" ELSE "lock"
    BY <1>6 DEF LookBuild
  <2>2. QED
    BY <2>1 DEF Busy
<1>7. CASE Lock(p)
  BY <1>7 DEF Lock, Busy
<1>8. CASE Recheck(p)
  <2>1. /\ pc[p] = "recheck" /\ UNCHANGED <<version, offline, current, digest, resolution, builds>>
        /\ \/ pc'[p] = "served" /\ builds[digest[p]] # "none"
           \/ pc'[p] \in {"compile", "binary", "failed"}
    BY <1>8 DEF Recheck
  <2>2. QED
    BY <2>1 DEF Busy
<1>9. CASE AskBinary(p)
  BY <1>9 DEF AskBinary, NextRegistry, Busy
<1>10. CASE PullSource(p)
  BY <1>10 DEF PullSource, Busy
<1>11. CASE Compile(p)
  BY <1>11 DEF Compile, Busy
<1>12. CASE Validate(p)
  BY <1>12 DEF Validate, Busy
<1>13. CASE CommitBuild(p)
  <2>1. /\ pc[p] = "commit" /\ UNCHANGED <<version, offline, current, digest, resolution>>
        /\ pc'[p] = "served" /\ builds' = [builds EXCEPT ![digest[p]] = held[p]]
    BY <1>13 DEF CommitBuild
  <2>2. QED
    BY <2>1 DEF Busy
<1>14. CASE Die(p)
  BY <1>14 DEF Die, Busy
<1>15. QED
  BY <1>1, <1>2, <1>3, <1>4, <1>5, <1>6, <1>7, <1>8, <1>9, <1>10, <1>11, <1>12, <1>13,
     <1>14 DEF Step

\* The beginning of a call, seen from outside.
LEMMA BeginOutcome ==
  ASSUME TypeOK, NEW p \in Callers, Begin(p)
  PROVE  /\ pc[p] \notin Busy /\ pc'[p] \in Busy \cup {"failed"}
         /\ UNCHANGED <<version, resolution, builds>>
         /\ \E off \in BOOLEAN : offline' = [offline EXCEPT ![p] = off]
         /\ current' = [current EXCEPT ![p] = {bound}]
         /\ \/ digest'[p] \in {digest[p], None}
            \/ digest'[p] = resolution /\ resolution \notin {None, Torn}
<1>1. /\ pc[p] \notin Busy /\ UNCHANGED <<version, resolution, builds>>
      /\ \E off \in BOOLEAN : offline' = [offline EXCEPT ![p] = off]
      /\ current' = [current EXCEPT ![p] = {bound}]
  BY DEF TypeOK, Begin, Busy, cache
<1>2. Goto(p, "failed") \/ Goto(p, "release") \/ Goto(p, "ask")
  BY DEF Begin
<1>3. pc'[p] \in Busy \cup {"failed"}
  BY <1>2 DEF TypeOK, Goto, Busy
<1>4. \/ digest'[p] \in {digest[p], None}
      \/ digest'[p] = resolution /\ resolution \notin {None, Torn}
  BY DEF TypeOK, Begin, UseCached
<1>5. QED
  BY <1>1, <1>3, <1>4

\* What the callers know stays what the version has named.
LEMMA KeepsNamed ==
  ASSUME Inv, NamedInv, [Next]_vars
  PROVE  NamedInv'
<1> USE DEF NamedInv, version
<1>1. TypeOK /\ None \notin Releases /\ Torn \notin Releases
  BY LoadAssumption DEF Inv
<1>2. ASSUME NEW p \in Callers, Begin(p) \/ Step(p) \/ Die(p)
      PROVE  NamedInv'
  <2>1. \A q \in Callers \ {p} : digest'[q] = digest[q]
    BY <1>1, <1>2, OthersUnchanged
  <2>2. CASE Begin(p)
    <3>1. /\ UNCHANGED <<dev, bound, named, resolution>>
          /\ \/ digest'[p] \in {digest[p], None}
             \/ digest'[p] = resolution /\ resolution \in Releases
      BY <1>1, <2>2, BeginOutcome DEF TypeOK, UseCached
    <3>2. QED
      BY <2>1, <3>1
  <2>3. CASE Step(p) \/ Die(p)
    <3>1. /\ UNCHANGED <<dev, bound, named>> /\ digest'[p] \in {digest[p], bound, None}
          /\ resolution' \in {resolution, Torn, digest[p]}
      BY <1>1, <2>3, StepOutcome DEF Inv, CallerInv
    <3>2. QED
      BY <1>1, <2>1, <3>1
  <2>4. QED
    BY <1>2, <2>2, <2>3
<1>3. ASSUME NEW d \in Releases, Move(d)
      PROVE  NamedInv'
  BY <1>3 DEF Move, cache
<1>4. CASE UNCHANGED vars
  BY <1>4 DEF vars
<1>5. QED
  BY <1>2, <1>3, <1>4 DEF Next

\* The state of KernelGet that a state of Load stands for.
Built == {d \in Releases : builds[d] = "good"}
Statuses == [p \in Callers |-> Status(p)]
Gots == [p \in Callers |-> IF pc[p] = "served" THEN digest[p] ELSE None]

\* A caller's step changes what it has come to itself, and nobody else.
LEMMA StatusesFollow ==
  ASSUME TypeOK, NEW p \in Callers, Begin(p) \/ Step(p) \/ Die(p)
  PROVE  /\ Statuses' = [Statuses EXCEPT ![p] = Status(p)']
         /\ Gots' = [Gots EXCEPT ![p] = IF pc'[p] = "served" THEN digest'[p] ELSE None]
<1>1. \A q \in Callers \ {p} : pc'[q] = pc[q] /\ digest'[q] = digest[q]
  BY OthersUnchanged
<1>2. \A q \in Callers \ {p} : Status(q)' = Status(q)
  BY <1>1 DEF Status
<1>3. QED
  BY <1>1, <1>2 DEF Statuses, Gots

\* From outside a call is under way, has returned, has raised, or is no more.
LEMMA StatusIs ==
  ASSUME NEW p \in Callers
  PROVE  /\ pc[p] \in Busy => Status(p) = "in"
         /\ pc[p] \notin Busy => Status(p) # "in"
         /\ pc[p] = "served" => Status(p) = "returned"
         /\ pc[p] = "failed" => Status(p) = "raised"
         /\ pc[p] = "idle" => Status(p) = "out"
BY DEF Status, Busy

\* A call begins.
LEMMA BeginImplements ==
  ASSUME TypeOK, NEW p \in Callers, Begin(p)
  PROVE  Get!Next
<1>1. /\ UNCHANGED <<dev, bound, named, builds>> /\ pc[p] \notin Busy
      /\ pc'[p] \in Busy \cup {"failed"}
      /\ current' = [current EXCEPT ![p] = {bound}]
  BY BeginOutcome DEF version
<1>2. PICK off \in BOOLEAN : offline' = [offline EXCEPT ![p] = off]
  BY BeginOutcome
<1>3. Status(p) # "in" /\ Status(p)' \in {"in", "raised"} /\ pc'[p] # "served"
  BY <1>1 DEF Status, Busy
<1>4. /\ Statuses[p] # "in"
      /\ \E s \in {"in", "raised"} : Statuses' = [Statuses EXCEPT ![p] = s]
      /\ Gots' = [Gots EXCEPT ![p] = None]
      /\ Built' = Built
  BY <1>1, <1>3, StatusesFollow DEF Statuses, Built
<1>5. Get!Call(p)
  BY <1>1, <1>2, <1>4 DEF Get!Call, Statuses, Gots, Built
<1>6. QED
  BY <1>5 DEF Get!Next

\* A call goes on, returns or ends.
LEMMA StepImplements ==
  ASSUME Inv, NamedInv, NEW p \in Callers, Step(p) \/ Die(p)
  PROVE  [Get!Next]_(Get!vars)
<1>1. TypeOK /\ Resolved(p) /\ Follows(p) /\ Walking(p) /\ Checks(p) /\ Fills(p)
  BY DEF Inv, CallerInv
<1>2. /\ pc[p] \in Busy /\ Statuses[p] = "in"
      /\ UNCHANGED <<dev, bound, named, offline, current>>
      /\ Statuses' = [Statuses EXCEPT ![p] = Status(p)']
      /\ Gots' = [Gots EXCEPT ![p] = IF pc'[p] = "served" THEN digest'[p] ELSE None]
  BY <1>1, StepOutcome, StatusIs, StatusesFollow DEF version, Statuses
<1>3. CASE pc'[p] \in Busy /\ builds' = builds
  <2>1. Status(p)' = "in" /\ pc'[p] # "served" /\ Gots[p] = None
    BY <1>2, <1>3 DEF Status, Busy, Gots
  <2>2. Statuses' = Statuses /\ Gots' = Gots /\ Built' = Built
    BY <1>2, <1>3, <2>1 DEF Statuses, Gots, Built
  <2>3. QED
    BY <1>2, <2>2 DEF Get!vars, Statuses, Gots, Built
<1>4. CASE pc'[p] \in {"failed", "idle"} /\ builds' = builds
  <2>1. Status(p)' \in {"raised", "out"} /\ pc'[p] # "served" /\ Gots[p] = None
    BY <1>2, <1>4 DEF Status, Busy, Gots
  <2>2. /\ \E s \in {"raised", "out"} : Statuses' = [Statuses EXCEPT ![p] = s]
        /\ Gots' = Gots /\ Built' = Built
    BY <1>2, <1>4, <2>1 DEF Gots, Built
  <2>3. Get!Stop(p)
    BY <1>2, <2>2 DEF Get!Stop, Statuses, Gots, Built
  <2>4. QED
    BY <2>3 DEF Get!Next
<1>5. CASE pc'[p] = "served"
  <2> DEFINE d == digest[p]
  <2>1. pc[p] # "ask" /\ digest'[p] = d
    <3>1. pc[p] \in {"build", "recheck", "commit"}
      BY <1>1, <1>5, StepOutcome DEF Busy
    <3>2. digest'[p] = d
      BY <1>1, <1>5, StepOutcome
    <3>3. QED
      BY <3>1, <3>2
  <2>2. d \in Releases /\ d # None
    BY <1>1, <1>2, <2>1, LoadAssumption DEF Resolved
  <2>3. d \in Get!Eligible(p)
    <3>1. dev /\ ~offline[p] => d \in current[p]
      BY <1>1, <1>2, <2>1 DEF Follows
    <3>2. d \in named
      BY <2>2 DEF NamedInv
    <3>3. QED
      BY <3>1, <3>2 DEF Get!Eligible
  <2>4. /\ Statuses' = [Statuses EXCEPT ![p] = "returned"]
        /\ Gots' = [Gots EXCEPT ![p] = d]
    BY <1>2, <1>5, <2>1, StatusIs DEF Status, Busy
  <2>5. Get!Return(p, d)
    BY <1>2, <2>3, <2>4 DEF Get!Return, Statuses, Gots
  <2>6. CASE builds' = builds /\ builds[d] # "none"
    <3>1. d \in Built /\ Built' = Built
      BY <1>1, <2>2, <2>6 DEF Inv, StoredIsGood, TypeOK, Built
    <3>2. Get!Find(p, d)
      BY <2>5, <3>1 DEF Get!Find, Built
    <3>3. QED
      BY <2>2, <3>2 DEF Get!Next
  <2>7. CASE pc[p] = "commit" /\ builds' = [builds EXCEPT ![d] = held[p]]
    <3>1. held[p] = "good" /\ builds[d] = "none"
      BY <1>1, <2>7 DEF Checks, Fills, Filling
    <3>2. d \notin Built /\ Built' = Built \cup {d}
      BY <1>1, <2>2, <2>7, <3>1 DEF TypeOK, Built
    <3>3. Get!Make(p, d)
      BY <2>5, <3>2 DEF Get!Make, Built
    <3>4. QED
      BY <2>2, <3>3 DEF Get!Next, Get!Make, Get!Return
  <2>8. QED
    BY <1>1, <1>5, <2>6, <2>7, StepOutcome DEF Busy
<1>6. QED
  BY <1>1, <1>3, <1>4, <1>5, StepOutcome

\* Somebody publishes.
LEMMA MoveImplements ==
  ASSUME TypeOK, NEW d \in Releases, Move(d)
  PROVE  Get!Next
<1>1. /\ dev /\ bound' = d /\ named' = named \cup {d}
      /\ UNCHANGED <<dev, offline, pc, digest, builds>>
      /\ current' = [p \in Callers |-> IF pc[p] \in Busy THEN current[p] \cup {d} ELSE current[p]]
  BY DEF Move, call, cache
<1>2. \A p \in Callers : pc[p] \in Busy <=> Statuses[p] = "in"
  BY StatusIs DEF Statuses
<1>3. current' = [p \in Callers |-> IF Statuses[p] = "in" THEN current[p] \cup {d} ELSE current[p]]
  BY <1>1, <1>2
<1>4. Statuses' = Statuses /\ Gots' = Gots /\ Built' = Built
  BY <1>1 DEF Statuses, Status, Gots, Built
<1>5. Get!Move(d)
  BY <1>1, <1>3, <1>4 DEF Get!Move, Statuses, Gots, Built
<1>6. QED
  BY <1>5 DEF Get!Next

\* Load implements KernelGet: for any callers, registries, answers and deaths,
\* what callers see of k_dash.get is a call that returns the one Build there is
\* of a Release it may use, or that raises and leaves every Build as it was.
THEOREM ImplementsContract == Spec => Contract
<1>1. Init => Get!Init /\ NamedInv
  <2> SUFFICES ASSUME Init
               PROVE  Get!Init /\ NamedInv
    OBVIOUS
  <2>1. /\ Statuses = [p \in Callers |-> "out"] /\ Gots = [p \in Callers |-> None]
        /\ Built = {}
    BY DEF Init, Statuses, Status, Gots, Built, Busy
  <2>2. NamedInv
    BY LoadAssumption DEF Init, NamedInv
  <2>3. QED
    BY <2>1, <2>2 DEF Init, Get!Init, Statuses, Gots, Built
<1>2. Inv /\ NamedInv /\ [Next]_vars => NamedInv' /\ [Get!Next]_(Get!vars)
  <2> SUFFICES ASSUME Inv, NamedInv, [Next]_vars
               PROVE  [Get!Next]_(Get!vars)
    BY KeepsNamed
  <2>1. TypeOK
    BY DEF Inv
  <2>2. CASE UNCHANGED vars
    BY <2>2 DEF vars, Get!vars, Status
  <2>3. CASE Next
    BY <2>1, <2>3, BeginImplements, StepImplements, MoveImplements DEF Next
  <2>4. QED
    BY <2>2, <2>3
<1>3. QED
  BY <1>1, <1>2, Invariant, PTL DEF Spec, Contract, Get!Spec
=============================================================================

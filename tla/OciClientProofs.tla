-------------------------- MODULE OciClientProofs ---------------------------
(***************************************************************************)
(* What OciClient promises for any artifacts, any number of operations and *)
(* every kind of registry.                                                 *)
(***************************************************************************)
EXTENDS OciClient, TLAPS

(***************************************************************************)
(* The invariant, in parts.                                                *)
(***************************************************************************)

\* What each operation asks for, and that what has been named is remembered.
Follows ==
  /\ op = "none" => request = NoRequest /\ phase = "send"
  /\ op # "none" => outcome = "none" /\ tag \in named
  /\ op = "check" => request = Tagged("get_manifest")
  /\ op = "pull" => request \in {Tagged("get_manifest")} \cup ({"get_blob"} \X Parts)
  /\ op = "push" => /\ request \in {Tagged("put_manifest")} \cup ({"head", "post", "put"} \X Parts)
                    /\ art \in Artifacts

\* A pull has downloaded what comes before its request, of the artifact whose
\* manifest it has read.
Reads ==
  op = "pull" =>
    /\ request = Tagged("get_manifest") => got = {}
    /\ request = <<"get_blob", "config">> => art \in named \ {None} /\ got = {}
    /\ request = <<"get_blob", "layer">> => art \in named \ {None} /\ got = {<<art, "config">>}

\* A push has uploaded what comes before its request.
Uploads ==
  op = "push" /\ ~Collects =>
    /\ request[2] = "layer" => <<art, "config">> \in blobs
    /\ request = Tagged("put_manifest") => BlobsOf(art) \subseteq blobs

\* The token a request is sent again with suits it, or something is to blame.
TokenSuits == phase = "resend" => Allowed \/ excuse

Inv ==
  /\ TypeOK /\ Follows /\ Reads /\ Uploads /\ TokenSuits
  /\ PulledIsOneArtifact /\ NotFoundIsAbsent /\ TokenIsRenewed

\* A 401: if the request was already sent again, the token suits it or something is to blame.
LEMMA RefusedKeeps ==
  ASSUME Inv, UNCHANGED policy, Refused
  PROVE  Inv'
<1> USE ClientAssumption DEF Inv, TypeOK, Refused, Excused, Sending, End, registry
<1>a. request' \in Requests  BY DEF Requests
<1>b. /\ op' \in {"none", "check", "pull", "push"} /\ phase' \in {"send", "authorize", "resend"}
      /\ outcome' \in {"none", "found", "not_found", "integrity", "access", "raw", "pulled", "pushed"}
      /\ excuse' \in BOOLEAN
  OBVIOUS
<1>1. TypeOK'
  <2> HIDE DEF Refused
  <2>1. UNCHANGED <<registry, art, bearer, got, ops, named>>  BY DEF Refused
  <2> QED  BY <1>a, <1>b, <2>1
<1>2. Follows'  BY DEF Follows, Parts, NoRequest, Tagged
<1>3. Reads'  BY DEF Reads, Follows, Parts, NoRequest, Tagged
<1>4. Uploads'  BY DEF Uploads, Follows, Parts, BlobsOf, NoRequest, Tagged,
      Collects
<1>5. TokenSuits'  BY DEF TokenSuits, Follows, Allowed, Need, Protected,
      MayPush, NoRequest
<1>6. PulledIsOneArtifact'  BY DEF PulledIsOneArtifact, Follows, Reads,
      Parts, BlobsOf, Tagged
<1>7. NotFoundIsAbsent'  BY DEF NotFoundIsAbsent, Follows
<1>8. TokenIsRenewed'  BY DEF TokenIsRenewed, TokenSuits, Follows, NoRequest
<1> QED  BY <1>1, <1>2, <1>3, <1>4, <1>5, <1>6, <1>7, <1>8

\* A new token allows what is needed, unless the service does not grant it.
LEMMA AuthorizeKeeps ==
  ASSUME Inv, UNCHANGED policy, Authorize
  PROVE  Inv'
<1> USE ClientAssumption DEF Inv, TypeOK, Authorize, End, Excused, Need,
      MayPush, registry
<1>a. request' \in Requests  BY DEF Requests
<1>b. /\ op' \in {"none", "check", "pull", "push"} /\ phase' \in {"send", "authorize", "resend"}
      /\ outcome' \in {"none", "found", "not_found", "integrity", "access", "raw", "pulled", "pushed"}
      /\ bearer' \in {"none", "pull", "push", "stale"} /\ excuse' \in BOOLEAN
  OBVIOUS
<1>1. TypeOK'
  <2> HIDE DEF Authorize
  <2>1. UNCHANGED <<registry, art, got, ops, named>>  BY DEF Authorize
  <2> QED  BY <1>a, <1>b, <2>1
<1>2. Follows'  BY DEF Follows, Parts, NoRequest, Tagged
<1>3. Reads'  BY DEF Reads, Follows, Parts, NoRequest, Tagged
<1>4. Uploads'  BY DEF Uploads, Follows, Parts, BlobsOf, NoRequest, Tagged,
      Collects
<1>5. TokenSuits'  BY DEF TokenSuits, Follows, Allowed, Protected, NoRequest
<1>6. PulledIsOneArtifact'  BY DEF PulledIsOneArtifact, Follows, Reads,
      Parts, BlobsOf, Tagged
<1>7. NotFoundIsAbsent'  BY DEF NotFoundIsAbsent, Follows
<1>8. TokenIsRenewed'  BY DEF TokenIsRenewed, TokenSuits, Follows, NoRequest
<1> QED  BY <1>1, <1>2, <1>3, <1>4, <1>5, <1>6, <1>7, <1>8

\* A request without an answer ends the operation, whatever it has done.
LEMMA NoAnswerKeeps ==
  ASSUME Inv, UNCHANGED policy, NoAnswer
  PROVE  Inv'
<1> USE ClientAssumption DEF Inv, TypeOK, NoAnswer, Sending, End, Excused,
      Allowed, Verifies, BlobsOf, registry
<1>a. blobs' \subseteq Artifacts \X Parts
  <2>1. ASSUME request[1] = "put"  PROVE <<art, request[2]>> \in Artifacts \X Parts
    BY <2>1 DEF Follows, Parts, NoRequest, Tagged
  <2> QED  BY <2>1
<1>b. tag' \in Artifacts \cup {None}
  OBVIOUS
<1>1. TypeOK'  BY <1>a, <1>b DEF Requests
<1>2. Follows'  BY DEF Follows, Parts, NoRequest, Tagged
<1>3. Reads'  BY DEF Reads, Follows, Parts, NoRequest, Tagged
<1>4. Uploads'  BY DEF Uploads, Follows, Parts, NoRequest, Tagged, Collects
<1>5. TokenSuits'  BY DEF TokenSuits, Follows, Need, Protected, MayPush,
      NoRequest
<1>6. PulledIsOneArtifact'  BY DEF PulledIsOneArtifact, Follows, Reads,
      Parts, Tagged
<1>7. NotFoundIsAbsent'  BY DEF NotFoundIsAbsent, Follows
<1>8. TokenIsRenewed'  BY DEF TokenIsRenewed, TokenSuits, Follows, NoRequest
<1> QED  BY <1>1, <1>2, <1>3, <1>4, <1>5, <1>6, <1>7, <1>8

\* The manifest is that of the artifact the tag names now, which has been named.
LEMMA GetManifestKeeps ==
  ASSUME Inv, UNCHANGED policy, GetManifest
  PROVE  Inv'
<1> USE ClientAssumption DEF Inv, TypeOK, GetManifest, Answered, Sending,
      End, Continue, Excused, Tagged, registry
<1>a. request' \in Requests
  BY DEF Requests, Parts, NoRequest
<1>b. art' \in Artifacts \cup {None}
  OBVIOUS
<1>1. TypeOK'  BY <1>a, <1>b
<1>2. Follows'  BY DEF Follows, Parts, NoRequest
<1>3. Reads'  BY DEF Reads, Follows, Parts, NoRequest
<1>4. Uploads'  BY DEF Uploads, Follows, Parts, BlobsOf, NoRequest, Collects
<1>5. TokenSuits'  BY DEF TokenSuits, Follows, Allowed, Need, Protected,
      MayPush, NoRequest
<1>6. PulledIsOneArtifact'  BY DEF PulledIsOneArtifact, Follows, Reads,
      Parts, BlobsOf
<1>7. NotFoundIsAbsent'  BY DEF NotFoundIsAbsent, Follows
<1>8. TokenIsRenewed'  BY DEF TokenIsRenewed, TokenSuits, Follows, NoRequest
<1> QED  BY <1>1, <1>2, <1>3, <1>4, <1>5, <1>6, <1>7, <1>8

\* The blobs of one artifact, in order.
LEMMA GetBlobKeeps ==
  ASSUME Inv, UNCHANGED policy, GetBlob
  PROVE  Inv'
<1> USE ClientAssumption DEF Inv, TypeOK, GetBlob, Answered, Sending, End,
      Continue, Downloaded, registry
<1>a. request' \in Requests
  BY DEF Requests, Parts, NoRequest, Tagged
<1>b. got' \subseteq (Artifacts \X Parts) \cup {Damaged}
  OBVIOUS
<1>1. TypeOK'  BY <1>a, <1>b
<1>2. Follows'  BY DEF Follows, Parts, NoRequest, Tagged
<1>3. Reads'  BY DEF Reads, Follows, Parts, NoRequest, Tagged
<1>4. Uploads'  BY DEF Uploads, Follows, Parts, BlobsOf, NoRequest, Tagged,
      Collects
<1>5. TokenSuits'  BY DEF TokenSuits, Follows, Allowed, Need, Protected,
      MayPush, NoRequest
<1>6. PulledIsOneArtifact'  BY DEF PulledIsOneArtifact, Follows, Reads,
      Parts, BlobsOf, Tagged
<1>7. NotFoundIsAbsent'  BY DEF NotFoundIsAbsent, Follows
<1>8. TokenIsRenewed'  BY DEF TokenIsRenewed, TokenSuits, Follows, NoRequest
<1> QED  BY <1>1, <1>2, <1>3, <1>4, <1>5, <1>6, <1>7, <1>8

\* A blob that is there need not be uploaded.
LEMMA HeadKeeps ==
  ASSUME Inv, UNCHANGED policy, Head
  PROVE  Inv'
<1> USE ClientAssumption DEF Inv, TypeOK, Head, Answered, Sending, Continue,
      AfterBlob, Tagged, registry
<1>1. TypeOK'  BY DEF Requests, Parts, NoRequest, Policies
<1>2. Follows'  BY DEF Follows, Parts, NoRequest
<1>3. Reads'  BY DEF Reads, Follows, Parts, NoRequest
<1>4. Uploads'  BY DEF Uploads, Follows, Parts, BlobsOf, NoRequest, Collects
<1>5. TokenSuits'  BY DEF TokenSuits, Follows, Allowed, Need, Protected,
      MayPush, NoRequest
<1>6. PulledIsOneArtifact'  BY DEF PulledIsOneArtifact, Follows, Reads,
      Parts, BlobsOf
<1>7. NotFoundIsAbsent'  BY DEF NotFoundIsAbsent, Follows
<1>8. TokenIsRenewed'  BY DEF TokenIsRenewed, TokenSuits, Follows, NoRequest
<1> QED  BY <1>1, <1>2, <1>3, <1>4, <1>5, <1>6, <1>7, <1>8

\* An upload that is only opened changes nothing.
LEMMA PostKeeps ==
  ASSUME Inv, UNCHANGED policy, Post
  PROVE  Inv'
<1> USE ClientAssumption DEF Inv, TypeOK, Post, Answered, Sending, Continue,
      registry
<1>1. TypeOK'  BY DEF Requests, Parts, NoRequest, Tagged, Policies
<1>2. Follows'  BY DEF Follows, Parts, NoRequest, Tagged
<1>3. Reads'  BY DEF Reads, Follows, Parts, NoRequest, Tagged
<1>4. Uploads'  BY DEF Uploads, Follows, Parts, BlobsOf, NoRequest, Tagged,
      Collects
<1>5. TokenSuits'  BY DEF TokenSuits, Follows, Allowed, Need, Protected,
      MayPush, NoRequest
<1>6. PulledIsOneArtifact'  BY DEF PulledIsOneArtifact, Follows, Reads,
      Parts, BlobsOf, Tagged
<1>7. NotFoundIsAbsent'  BY DEF NotFoundIsAbsent, Follows
<1>8. TokenIsRenewed'  BY DEF TokenIsRenewed, TokenSuits, Follows, NoRequest
<1> QED  BY <1>1, <1>2, <1>3, <1>4, <1>5, <1>6, <1>7, <1>8

\* After its upload a blob is there.
LEMMA PutKeeps ==
  ASSUME Inv, UNCHANGED policy, Put
  PROVE  Inv'
<1> USE ClientAssumption DEF Inv, TypeOK, Put, Answered, Sending, Continue,
      AfterBlob, Tagged
<1>a. request[2] \in Parts /\ art \in Artifacts
  BY DEF Follows, Parts, NoRequest
<1>b. request' \in Requests
  BY <1>a DEF Requests, Parts
<1>1. TypeOK'  BY <1>a, <1>b
<1>2. Follows'  BY DEF Follows, Parts, NoRequest
<1>3. Reads'  BY DEF Reads, Follows, Parts, NoRequest
<1>4. Uploads'  BY DEF Uploads, Follows, Parts, BlobsOf, NoRequest, Collects
<1>5. TokenSuits'  BY DEF TokenSuits, Follows, Allowed, Need, Protected,
      MayPush, NoRequest
<1>6. PulledIsOneArtifact'  BY DEF PulledIsOneArtifact, Follows, Reads,
      Parts, BlobsOf
<1>7. NotFoundIsAbsent'  BY DEF NotFoundIsAbsent, Follows
<1>8. TokenIsRenewed'  BY DEF TokenIsRenewed, TokenSuits, Follows, NoRequest
<1> QED  BY <1>1, <1>2, <1>3, <1>4, <1>5, <1>6, <1>7, <1>8

\* The tag is moved to an artifact that is there.
LEMMA PutManifestKeeps ==
  ASSUME Inv, UNCHANGED policy, PutManifest
  PROVE  Inv'
<1> USE ClientAssumption DEF Inv, TypeOK, PutManifest, Answered, Sending,
      End, Excused, Verifies, BlobsOf
<1>1. TypeOK'  BY DEF Requests, Parts, NoRequest, Tagged, Policies
<1>2. Follows'  BY DEF Follows, Parts, NoRequest, Tagged
<1>3. Reads'  BY DEF Reads, Follows, Parts, NoRequest, Tagged
<1>4. Uploads'  BY DEF Uploads, Follows, Parts, NoRequest, Tagged, Collects
<1>5. TokenSuits'  BY DEF TokenSuits, Follows, Allowed, Need, Protected,
      MayPush, NoRequest
<1>6. PulledIsOneArtifact'  BY DEF PulledIsOneArtifact, Follows, Reads,
      Parts, Tagged
<1>7. NotFoundIsAbsent'  BY DEF NotFoundIsAbsent, Follows
<1>8. TokenIsRenewed'  BY DEF TokenIsRenewed, TokenSuits, Follows, NoRequest
<1> QED  BY <1>1, <1>2, <1>3, <1>4, <1>5, <1>6, <1>7, <1>8

\* A new operation starts from what the tag names now.
LEMMA BeginKeeps ==
  ASSUME Inv, UNCHANGED policy,
         NEW o \in {"check", "pull", "push"}, NEW a \in Artifacts, Begin(o, a)
  PROVE  Inv'
<1> USE ClientAssumption DEF Inv, TypeOK, Begin, Tagged, registry
<1>a. request' \in Requests
  BY DEF Requests, Parts
<1>b. ops' \in 0 .. MaxOps
  OBVIOUS
<1>c. named' \subseteq Artifacts \cup {None} /\ art' \in Artifacts \cup {None}
  OBVIOUS
<1>1. TypeOK'  BY <1>a, <1>b, <1>c
<1>2. Follows'  BY DEF Follows, Parts, NoRequest
<1>3. Reads'  BY DEF Reads, Follows, Parts, NoRequest
<1>4. Uploads'  BY DEF Uploads, Follows, Parts, BlobsOf, NoRequest, Collects
<1>5. TokenSuits'  BY DEF TokenSuits, Follows, Allowed, Need, Protected,
      MayPush, NoRequest
<1>6. PulledIsOneArtifact'  BY DEF PulledIsOneArtifact, Follows, Reads,
      Parts, BlobsOf
<1>7. NotFoundIsAbsent'  BY DEF NotFoundIsAbsent, Follows
<1>8. TokenIsRenewed'  BY DEF TokenIsRenewed, TokenSuits, Follows, NoRequest
<1> QED  BY <1>1, <1>2, <1>3, <1>4, <1>5, <1>6, <1>7, <1>8

\* Another client adds to what has been named and to the blobs.
LEMMA MoveKeeps ==
  ASSUME Inv, UNCHANGED policy, NEW a \in Artifacts, Move(a)
  PROVE  Inv'
<1> USE ClientAssumption DEF Inv, TypeOK, Move, BlobsOf
<1>1. TypeOK'  BY DEF Requests, Parts, NoRequest, Tagged, Policies
<1>2. Follows'  BY DEF Follows, Parts, NoRequest, Tagged
<1>3. Reads'  BY DEF Reads, Follows, Parts, NoRequest, Tagged
<1>4. Uploads'  BY DEF Uploads, Follows, Parts, NoRequest, Tagged, Collects
<1>5. TokenSuits'  BY DEF TokenSuits, Follows, Allowed, Need, Protected,
      MayPush, NoRequest
<1>6. PulledIsOneArtifact'  BY DEF PulledIsOneArtifact, Follows, Reads,
      Parts, Tagged
<1>7. NotFoundIsAbsent'  BY DEF NotFoundIsAbsent, Follows
<1>8. TokenIsRenewed'  BY DEF TokenIsRenewed, TokenSuits, Follows, NoRequest
<1> QED  BY <1>1, <1>2, <1>3, <1>4, <1>5, <1>6, <1>7, <1>8

\* Nothing is another thing to be named.
LEMMA UntagKeeps ==
  ASSUME Inv, UNCHANGED policy, Untag
  PROVE  Inv'
<1> USE ClientAssumption DEF Inv, TypeOK, Untag
<1>1. TypeOK'  BY DEF Requests, Parts, NoRequest, Tagged, Policies
<1>2. Follows'  BY DEF Follows, Parts, NoRequest, Tagged
<1>3. Reads'  BY DEF Reads, Follows, Parts, NoRequest, Tagged
<1>4. Uploads'  BY DEF Uploads, Follows, Parts, BlobsOf, NoRequest, Tagged,
      Collects
<1>5. TokenSuits'  BY DEF TokenSuits, Follows, Allowed, Need, Protected,
      MayPush, NoRequest
<1>6. PulledIsOneArtifact'  BY DEF PulledIsOneArtifact, Follows, Reads,
      Parts, BlobsOf, Tagged
<1>7. NotFoundIsAbsent'  BY DEF NotFoundIsAbsent, Follows
<1>8. TokenIsRenewed'  BY DEF TokenIsRenewed, TokenSuits, Follows, NoRequest
<1> QED  BY <1>1, <1>2, <1>3, <1>4, <1>5, <1>6, <1>7, <1>8

\* Where blobs are removed, nothing is said of uploads.
LEMMA CollectKeeps ==
  ASSUME Inv, UNCHANGED policy, Collect
  PROVE  Inv'
<1> USE ClientAssumption DEF Inv, TypeOK, Collect
<1>1. TypeOK'  BY DEF Requests, Parts, NoRequest, Tagged, Policies
<1>2. Follows'  BY DEF Follows, Parts, NoRequest, Tagged
<1>3. Reads'  BY DEF Reads, Follows, Parts, NoRequest, Tagged
<1>4. Uploads'  BY DEF Uploads, Follows, Parts, BlobsOf, NoRequest, Tagged,
      Collects
<1>5. TokenSuits'  BY DEF TokenSuits, Follows, Allowed, Need, Protected,
      MayPush, NoRequest
<1>6. PulledIsOneArtifact'  BY DEF PulledIsOneArtifact, Follows, Reads,
      Parts, BlobsOf, Tagged
<1>7. NotFoundIsAbsent'  BY DEF NotFoundIsAbsent, Follows
<1>8. TokenIsRenewed'  BY DEF TokenIsRenewed, TokenSuits, Follows, NoRequest
<1> QED  BY <1>1, <1>2, <1>3, <1>4, <1>5, <1>6, <1>7, <1>8

\* A token that expires under a repeated request is to blame.
LEMMA ExpireKeeps ==
  ASSUME Inv, UNCHANGED policy, Expire
  PROVE  Inv'
<1> USE ClientAssumption DEF Inv, TypeOK, Expire, registry
<1>1. TypeOK'  BY DEF Requests, Parts, NoRequest, Tagged, Policies
<1>2. Follows'  BY DEF Follows, Parts, NoRequest, Tagged
<1>3. Reads'  BY DEF Reads, Follows, Parts, NoRequest, Tagged
<1>4. Uploads'  BY DEF Uploads, Follows, Parts, BlobsOf, NoRequest, Tagged,
      Collects
<1>5. TokenSuits'  BY DEF TokenSuits, Follows, Allowed, Need, Protected,
      MayPush, NoRequest
<1>6. PulledIsOneArtifact'  BY DEF PulledIsOneArtifact, Follows, Reads,
      Parts, BlobsOf, Tagged
<1>7. NotFoundIsAbsent'  BY DEF NotFoundIsAbsent, Follows
<1>8. TokenIsRenewed'  BY DEF TokenIsRenewed, TokenSuits, Follows, NoRequest
<1> QED  BY <1>1, <1>2, <1>3, <1>4, <1>5, <1>6, <1>7, <1>8

-----------------------------------------------------------------------------
(* The theorems.                                                           *)

\* The invariant holds before the first operation.
LEMMA InitHolds == Init => Inv
<1> SUFFICES ASSUME Init PROVE Inv
  OBVIOUS
<1> USE ClientAssumption DEF Init
<1>0. 0 \in 0 .. MaxOps  OBVIOUS
<1>1. TypeOK  BY <1>0 DEF TypeOK, Requests, NoRequest
<1>2. Follows  BY DEF Follows
<1>3. Reads /\ Uploads  BY DEF Reads, Uploads
<1>4. TokenSuits  BY DEF TokenSuits
<1>5. PulledIsOneArtifact /\ NotFoundIsAbsent /\ TokenIsRenewed
  BY DEF PulledIsOneArtifact, NotFoundIsAbsent, TokenIsRenewed
<1> QED  BY <1>1, <1>2, <1>3, <1>4, <1>5 DEF Inv

\* Every step preserves the invariant.
LEMMA NextKeeps == Inv /\ [Next]_vars => Inv'
<1> SUFFICES ASSUME Inv, [Next]_vars PROVE Inv'
  OBVIOUS
<1>1. CASE Next
  <2>0. UNCHANGED policy
    BY <1>1 DEF Next
  <2>1. ASSUME NEW o \in {"check", "pull", "push"}, NEW a \in Artifacts, Begin(o, a)
        PROVE  Inv'
    BY <2>0, <2>1, BeginKeeps
  <2>2. CASE Step
    BY <2>0, <2>2, RefusedKeeps, AuthorizeKeeps, NoAnswerKeeps, GetManifestKeeps, GetBlobKeeps,
      HeadKeeps, PostKeeps, PutKeeps, PutManifestKeeps DEF Step
  <2>3. ASSUME NEW a \in Artifacts, Move(a) PROVE Inv'
    BY <2>0, <2>3, MoveKeeps
  <2>4. CASE Untag \/ Collect \/ Expire
    BY <2>0, <2>4, UntagKeeps, CollectKeeps, ExpireKeeps
  <2> QED  BY <1>1, <2>1, <2>2, <2>3, <2>4 DEF Next
<1>2. CASE UNCHANGED vars
  BY <1>2 DEF vars, registry, Inv, TypeOK, Follows, Reads, Uploads, TokenSuits, Allowed, Need,
    Protected, Collects, PulledIsOneArtifact, NotFoundIsAbsent, TokenIsRenewed
<1> QED  BY <1>1, <1>2

\* All of it, always.
LEMMA InvHolds == Spec => []Inv
<1> QED  BY InitHolds, NextKeeps, PTL DEF Spec

\* Every variable has its type, whatever the registry answers: the client only
\* ever makes the requests of its three operations.
THEOREM TypeCorrect == Spec => []TypeOK
<1>1. Inv => TypeOK  BY DEF Inv
<1> QED  BY <1>1, InvHolds, PTL

\* A pull returns the config and the layer of one artifact that the tag named
\* since the pull began, however often the tag is moved between its requests.
THEOREM PullsAreWhole == Spec => []PulledIsOneArtifact
<1>1. Inv => PulledIsOneArtifact  BY DEF Inv
<1> QED  BY <1>1, InvHolds, PTL

\* ArtifactNotFound is raised only if the tag was absent since the operation
\* began: no token, missing blob, lost answer or moving tag looks like it.
THEOREM AbsenceIsReal == Spec => []NotFoundIsAbsent
<1>1. Inv => NotFoundIsAbsent  BY DEF Inv
<1> QED  BY <1>1, InvHolds, PTL

\* A RegistryAccessFailure always has a cause outside the client: a token kept
\* from an earlier operation is replaced before it can fail a request.
THEOREM TokensAreRenewed == Spec => []TokenIsRenewed
<1>1. Inv => TokenIsRenewed  BY DEF Inv
<1> QED  BY <1>1, InvHolds, PTL

\* A push returns only with the tag on what it pushed and both blobs there, in
\* a registry that keeps its blobs, whether or not the registry checks them.
THEOREM PushesAreWhole == Spec => PushedIsWhole
<1>1. ASSUME Inv, [Next]_vars, ~Collects, outcome' = "pushed", outcome # "pushed"
      PROVE  tag' = art' /\ BlobsOf(art') \subseteq blobs'
  <2>1. PutManifest
    <3> USE DEF End, Continue, Downloaded, registry
    <3>1. Next
      BY <1>1 DEF vars
    <3>2. ASSUME NEW o \in {"check", "pull", "push"}, NEW a \in Artifacts PROVE ~Begin(o, a)
      BY <1>1 DEF Begin
    <3>3. ~Refused /\ ~Authorize /\ ~NoAnswer
      BY <1>1 DEF Refused, Authorize, NoAnswer
    <3>4. ~GetManifest /\ ~GetBlob
      BY <1>1 DEF GetManifest, GetBlob
    <3>5. ~Head /\ ~Post /\ ~Put
      BY <1>1 DEF Head, Post, Put
    <3>6. ~Untag /\ ~Collect /\ ~Expire /\ \A a \in Artifacts : ~Move(a)
      BY <1>1 DEF Untag, Collect, Expire, Move
    <3> QED  BY <3>1, <3>2, <3>3, <3>4, <3>5, <3>6 DEF Next, Step
  <2>2. op = "push" /\ request = Tagged("put_manifest")
    BY <1>1, <2>1 DEF PutManifest, Answered, Sending, Inv, TypeOK, Follows, Parts, Tagged
  <2>3. BlobsOf(art) \subseteq blobs
    BY <1>1, <2>2 DEF Inv, Uploads
  <2>4. tag' = art /\ art' = art /\ blobs' = blobs
    BY <1>1, <2>1 DEF PutManifest, End
  <2> QED  BY <2>3, <2>4 DEF BlobsOf
<1>2. Inv /\ [Next]_vars =>
        [~Collects /\ outcome' = "pushed" /\ outcome # "pushed" =>
           tag' = art' /\ BlobsOf(art') \subseteq blobs']_vars
  BY <1>1 DEF BlobsOf
<1> QED  BY <1>2, InvHolds, PTL DEF Spec, PushedIsWhole

=============================================================================

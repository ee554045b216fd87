----------------------------- MODULE OciClient ------------------------------
(***************************************************************************)
(* One OCIClient (oci.py) talking to one repository of one registry, at    *)
(* the grain of HTTP exchanges: get_manifest, pull and push, with bearer   *)
(* tokens that are narrow and expire, answers that are lost or damaged,    *)
(* and other clients that move the tag meanwhile.                          *)
(*                                                                         *)
(* The client keeps its token from one operation to the next, as in        *)
(* publish_release, which checks all tags with a client before it pushes   *)
(* with it.  One tag; an artifact has two blobs, its config and one layer. *)
(* What kind of registry it is is chosen once.                             *)
(***************************************************************************)
EXTENDS Naturals

CONSTANTS
  Artifacts,  \* the artifacts the tag may name
  MaxOps,     \* bound: operations of the client
  None        \* "no value"

ASSUME ClientAssumption ==
  /\ Artifacts # {}
  /\ MaxOps \in Nat
  /\ None \notin Artifacts

VARIABLES
  policy,   \* what kind of registry this is; never changes
  tag,      \* the artifact the tag names
  blobs,    \* the blobs in the registry, <<artifact, part>>
  op,       \* the operation under way: "check" (get_manifest), "pull", "push"
  art,      \* the artifact it pushes, or has read the manifest of
  request,  \* the request it is making, <<kind, part>>
  phase,    \* "send", "authorize" or "resend"
  bearer,   \* what the token allows: "none", "pull", "push", or "stale"
  got,      \* the blobs it has downloaded
  outcome,  \* how the last operation ended
  ops,      \* how many operations have begun
  \* History, for the properties.
  named,    \* what the tag has named since the operation began (None: nothing)
  excuse    \* whether anything happened that may fail an operation

vars == <<policy, tag, blobs, op, art, request, phase, bearer, got, outcome, ops, named, excuse>>
registry == <<tag, blobs>>

\* It asks for bearer tokens; its token service grants push to this client; it
\* refuses a manifest whose blobs it lacks; it removes blobs that no tag refers to.
Policies == [protected: BOOLEAN, may_push: BOOLEAN, verifies: BOOLEAN, collects: BOOLEAN]
Protected == policy.protected
MayPush == policy.may_push
Verifies == policy.verifies
Collects == policy.collects

Parts == {"config", "layer"}
BlobsOf(a) == {<<a, "config">>, <<a, "layer">>}
Damaged == <<None, "damaged">>
NoRequest == <<"none", "none">>
Tagged(kind) == <<kind, "tag">>

Requests ==
  {NoRequest, Tagged("get_manifest"), Tagged("put_manifest")}
    \cup ({"get_blob", "head", "post", "put"} \X Parts)

TypeOK ==
  /\ policy \in Policies
  /\ tag \in Artifacts \cup {None}
  /\ blobs \subseteq Artifacts \X Parts
  /\ op \in {"none", "check", "pull", "push"}
  /\ art \in Artifacts \cup {None}
  /\ request \in Requests
  /\ phase \in {"send", "authorize", "resend"}
  /\ bearer \in {"none", "pull", "push", "stale"}
  /\ got \subseteq (Artifacts \X Parts) \cup {Damaged}
  /\ outcome \in {"none", "found", "not_found", "integrity", "access", "raw", "pulled", "pushed"}
  /\ ops \in 0 .. MaxOps
  /\ named \subseteq Artifacts \cup {None}
  /\ excuse \in BOOLEAN

Init ==
  /\ policy \in Policies
  /\ tag = None /\ blobs = {}
  /\ op = "none" /\ art = None /\ request = NoRequest /\ phase = "send"
  /\ bearer = "none" /\ got = {} /\ outcome = "none" /\ ops = 0
  /\ named = {} /\ excuse = FALSE

-----------------------------------------------------------------------------
(* Parts of the handlers.                                                  *)

\* The operation returns or raises.
End(o) ==
  /\ op' = "none"
  /\ outcome' = o
  /\ request' = NoRequest
  /\ phase' = "send"

\* Its next request.
Continue(r) ==
  /\ request' = r
  /\ phase' = "send"
  /\ UNCHANGED <<op, outcome>>

\* What may be to blame has happened.
Excused == excuse' = TRUE

\* What the request needs the token to allow.
Need == IF request[1] \in {"post", "put", "put_manifest"} THEN "push" ELSE "pull"

Allowed == ~Protected \/ bearer = "push" \/ bearer = Need

\* push: the config, the layer, then the manifest.
AfterBlob(part) == IF part = "config" THEN <<"head", "layer">> ELSE Tagged("put_manifest")

-----------------------------------------------------------------------------
(* The operations.                                                         *)

Begin(o, a) ==
  /\ op = "none"
  /\ ops < MaxOps
  /\ ops' = ops + 1
  /\ op' = o
  /\ art' = IF o = "push" THEN a ELSE None
  /\ request' = IF o = "push" THEN <<"head", "config">> ELSE Tagged("get_manifest")
  /\ phase' = "send"
  /\ got' = {}
  /\ outcome' = "none"
  /\ named' = {tag}
  /\ excuse' = FALSE
  /\ UNCHANGED <<registry, bearer>>

Sending == op # "none" /\ phase \in {"send", "resend"}

\* Mutant: a token, once there, is not asked for again.
RefusedOnce ==
  /\ Sending
  /\ ~Allowed
  /\ IF bearer = "none" /\ phase = "send"
     THEN phase' = "authorize" /\ UNCHANGED <<op, outcome, request>>
     ELSE End("access")
  /\ UNCHANGED <<registry, art, bearer, got, ops, named, excuse>>

\* Mutant: as long as the registry asks for one.
RefusedAgain ==
  /\ Sending
  /\ ~Allowed
  /\ phase' = "authorize"
  /\ UNCHANGED <<registry, op, outcome, request, art, bearer, got, ops, named, excuse>>

\* _request: a 401 with a bearer challenge; the second one is final.  A registry
\* that answers 403 to a token that is too narrow asks for no other one.
Refused ==
  /\ Sending
  /\ ~Allowed
  /\ \/ /\ IF phase = "send"
           THEN phase' = "authorize" /\ UNCHANGED <<op, outcome, request>>
           ELSE End("access")
        /\ UNCHANGED excuse
     \/ bearer = "pull" /\ End("access") /\ Excused
  /\ UNCHANGED <<registry, art, bearer, got, ops, named>>

\* _authorize: a token for what the challenge asks for, as far as the service
\* grants it; or no answer, a refusal, an incomplete one (RegistryAccessFailure)
\* or one that is not JSON (which is not caught).
Authorize ==
  /\ op # "none"
  /\ phase = "authorize"
  /\ \/ /\ bearer' = IF Need = "push" /\ MayPush THEN "push" ELSE "pull"
        /\ excuse' = (excuse \/ (Need = "push" /\ ~MayPush))
        /\ phase' = "resend"
        /\ UNCHANGED <<op, outcome, request>>
     \/ /\ \E o \in {"access", "raw"} : End(o)
        /\ Excused
        /\ UNCHANGED bearer
  /\ UNCHANGED <<registry, art, got, ops, named>>

\* The request or its answer is lost, or the registry answers 429 or 5xx.
\* What it asked for may have been done.
NoAnswer ==
  /\ Sending
  /\ End("access")
  /\ Excused
  /\ \/ UNCHANGED registry
     \/ /\ Allowed /\ request[1] = "put"
        /\ blobs' = blobs \cup {<<art, request[2]>>}
        /\ UNCHANGED tag
     \/ /\ Allowed /\ request[1] = "put_manifest"
        /\ Verifies => BlobsOf(art) \subseteq blobs
        /\ tag' = art
        /\ UNCHANGED blobs
  /\ UNCHANGED <<art, bearer, got, ops, named>>

Answered(kind) == Sending /\ Allowed /\ request[1] = kind

\* get_manifest.  A damaged manifest does not match its digest, has the wrong
\* type, or is not JSON at all (artifact.py then raises a NameError).  Without a
\* Docker-Content-Digest it is compared with nothing: a check then takes it for
\* another artifact, and a pull for one whose blobs are not there.
GetManifest ==
  /\ Answered("get_manifest")
  /\ \/ /\ tag = None
        /\ End("not_found")
        /\ UNCHANGED <<art, excuse>>
     \/ /\ tag # None
        /\ art' = tag
        /\ IF op = "check" THEN End("found") ELSE Continue(<<"get_blob", "config">>)
        /\ UNCHANGED excuse
     \/ /\ tag # None
        /\ \/ op = "check" /\ End("found")
           \/ \E o \in {"integrity", "raw"} : End(o)
        /\ Excused
        /\ UNCHANGED art
  /\ UNCHANGED <<registry, bearer, got, ops, named>>

Downloaded(part, blob) ==
  /\ got' = got \cup {blob}
  /\ IF part = "config" THEN Continue(<<"get_blob", "layer">>) ELSE End("pulled")

\* Mutant: a missing blob is an ArtifactNotFound.
GetBlobNotFound ==
  LET part == request[2] IN
  /\ Answered("get_blob")
  /\ \/ <<art, part>> \in blobs /\ Downloaded(part, <<art, part>>)
     \/ <<art, part>> \notin blobs /\ End("not_found") /\ UNCHANGED got
  /\ UNCHANGED <<registry, art, bearer, ops, named, excuse>>

\* Mutant: the content is not compared with the digest.
GetBlobUnverified ==
  LET part == request[2] IN
  /\ Answered("get_blob")
  /\ \E blob \in {<<art, part>>, Damaged} : Downloaded(part, blob)
  /\ UNCHANGED <<registry, art, bearer, ops, named, excuse>>

\* get_blob and verify_descriptor: by the digest in the manifest.  A blob that
\* is gone or damaged is an ArtifactIntegrityError.
GetBlob ==
  LET part == request[2] IN
  /\ Answered("get_blob")
  /\ \/ /\ <<art, part>> \in blobs
        /\ Downloaded(part, <<art, part>>)
        /\ UNCHANGED excuse
     \/ /\ End("integrity")
        /\ excuse' = (excuse \/ <<art, part>> \in blobs)
        /\ UNCHANGED got
  /\ UNCHANGED <<registry, art, bearer, ops, named>>

\* _blob_exists.
Head ==
  LET part == request[2] IN
  /\ Answered("head")
  /\ Continue(IF <<art, part>> \in blobs THEN AfterBlob(part) ELSE <<"post", part>>)
  /\ UNCHANGED <<registry, art, bearer, got, ops, named, excuse>>

\* push_blob: an upload is opened ...
Post ==
  /\ Answered("post")
  /\ Continue(<<"put", request[2]>>)
  /\ UNCHANGED <<registry, art, bearer, got, ops, named, excuse>>

\* Mutant: nobody looks whether the upload was accepted.
PutIgnored ==
  /\ Sending
  /\ request[1] = "put"
  /\ Continue(AfterBlob(request[2]))
  /\ UNCHANGED <<registry, art, bearer, got, ops, named, excuse>>

\* ... and filled.
Put ==
  /\ Answered("put")
  /\ blobs' = blobs \cup {<<art, request[2]>>}
  /\ Continue(AfterBlob(request[2]))
  /\ UNCHANGED <<tag, art, bearer, got, ops, named, excuse>>

\* push_manifest.
PutManifest ==
  /\ Answered("put_manifest")
  /\ \/ /\ Verifies => BlobsOf(art) \subseteq blobs
        /\ tag' = art
        /\ End("pushed")
        /\ UNCHANGED excuse
     \/ /\ Verifies /\ ~(BlobsOf(art) \subseteq blobs)
        /\ End("access")
        /\ Excused
        /\ UNCHANGED tag
  /\ UNCHANGED <<blobs, art, bearer, got, ops, named>>

Step ==
  \/ Refused \/ Authorize \/ NoAnswer
  \/ GetManifest \/ GetBlob \/ Head \/ Post \/ Put \/ PutManifest

-----------------------------------------------------------------------------
(* The surroundings.                                                       *)

\* Another client pushes a whole artifact.
Move(a) ==
  /\ tag # a
  /\ tag' = a
  /\ blobs' = blobs \cup BlobsOf(a)
  /\ named' = named \cup {a}
  /\ UNCHANGED <<op, art, request, phase, bearer, got, outcome, ops, excuse>>

Untag ==
  /\ tag # None
  /\ tag' = None
  /\ named' = named \cup {None}
  /\ UNCHANGED <<blobs, op, art, request, phase, bearer, got, outcome, ops, excuse>>

Collect ==
  /\ Collects
  /\ \E b \in blobs : b[1] # tag /\ blobs' = blobs \ {b}
  /\ UNCHANGED <<tag, op, art, request, phase, bearer, got, outcome, ops, named, excuse>>

\* The token expires.  A request may be lost to that, if it is the second one.
Expire ==
  /\ bearer \in {"pull", "push"}
  /\ bearer' = "stale"
  /\ excuse' = (excuse \/ phase = "resend")
  /\ UNCHANGED <<registry, op, art, request, phase, got, outcome, ops, named>>

Next ==
  /\ UNCHANGED policy
  /\ \/ \E o \in {"check", "pull", "push"}, a \in Artifacts : Begin(o, a)
     \/ Step
     \/ \E a \in Artifacts : Move(a)
     \/ Untag \/ Collect \/ Expire

Spec == Init /\ [][Next]_vars

\* Every request has a timeout of 30 seconds.
FairSpec == Spec /\ WF_vars(Step /\ UNCHANGED policy)

-----------------------------------------------------------------------------
(* Properties.                                                             *)

\* A pull returns the config and the layer of one artifact, one that the tag
\* named after the pull began, although the tag moves between its requests
\* and what it downloads may be damaged or gone: everything but the first
\* request is by digest.
PulledIsOneArtifact ==
  outcome = "pulled" => \E a \in named \ {None} : got = BlobsOf(a)

\* ArtifactNotFound, which sends a caller to the compiler, is raised only if
\* the tag really was absent: neither a missing token nor a missing blob, nor
\* a tag that moves, looks like it.
NotFoundIsAbsent == outcome = "not_found" => None \in named

\* A push that returns has left a tag whose blobs are all there, also in a
\* registry that does not check it, unless it removes blobs meanwhile.
PushedIsWhole ==
  [][~Collects /\ outcome' = "pushed" /\ outcome # "pushed" =>
       tag' = art' /\ BlobsOf(art') \subseteq blobs']_vars

\* The client's own token is never the reason for a RegistryAccessFailure,
\* which would make it pass over a registry that works: a token that is too
\* narrow or has expired is replaced, in whatever operation that shows, if the
\* registry asks for another one (with 401 and not 403).
TokenIsRenewed == outcome = "access" => excuse

\* Every operation ends, whatever the registry answers and for however long
\* it goes on refusing tokens it has just issued.
Ends == op # "none" ~> op = "none"
=============================================================================

------------------------------- MODULE SignedCalls -------------------------------
(***************************************************************************)
(* RotatingClient with the requests it sends: the operations of            *)
(* qstorage::client and qkms::client build a request, every iteration      *)
(* signs it for the endpoint it goes to, libcurl transmits it, and the     *)
(* service checks it.  A client that is not called may presign a link,     *)
(* which somebody uses later.                                              *)
(***************************************************************************)
EXTENDS RotatingClient, S3Service

CONSTANTS
  Asked,         (* the calls that are made, see StorageCall and KmsCall     *)
  LinkAsked,     (* the calls that links are made for                        *)
  Lifetime,      (* seconds asked for a link                                 *)
  Requested,     (* sets of headers asked to be signed with a link           *)
  MaxCallTime,   (* bound: ticks of a behaviour with calls                   *)
  MaxTime        (* bound: ticks of a behaviour with a link                  *)

VARIABLES
  asked,         (* what each caller's call is for                           *)
  now,           (* time in ticks                                            *)
  wire,          (* what each caller's latest send put on the wire, and when *)
  link           (* the presigned link, or why there is none                 *)

traffic == <<asked, now, wire, link>>
allVars == <<vars, traffic>>

-----------------------------------------------------------------------------
(* The operations.  bucket, key and parameters say what is meant.          *)

Asking(service, verb, target, fields, body, bucket, key, parameters) ==
  [service |-> service, verb |-> verb, target |-> target, fields |-> fields, body |-> body,
   bucket |-> bucket, key |-> key, parameters |-> parameters]

Storage == <<306>>
Kms == <<307>>
NoBody == <<>>

\* Mutant of PathFor: a '/' in the name of a bucket is kept.
PathForUnquoted(bucket, key) ==
  <<Slash>> \o PercentEncode(bucket, {Slash})
    \o IF key = <<>> THEN <<>> ELSE <<Slash>> \o PercentEncode(key, {Slash})

PathFor(bucket, key) ==
  <<Slash>> \o PercentEncode(bucket, {})
    \o IF key = <<>> THEN <<>> ELSE <<Slash>> \o PercentEncode(key, {Slash})

\* A query as the operations write it: names of their own, values encoded.
QueryText(parameters) ==
  IF parameters = <<>> THEN <<>>
  ELSE <<Question>> \o Join([k \in DOMAIN parameters |->
         parameters[k][1] \o IF parameters[k][2] = <<>> THEN <<>>
                             ELSE <<Equals>> \o PercentEncode(parameters[k][2], {})], Ampersand)

StorageCall(verb, bucket, key, parameters, fields, body) ==
  Asking(Storage, verb, PathFor(bucket, key) \o QueryText(parameters), fields, body, bucket, key, parameters)

Field(name, value) == With(NoFields, name, value)
Uploads == <<308>>
UploadId == <<310>>
PartNumber == <<309>>

PutObject(bucket, key, type, data) ==
  StorageCall("put", bucket, key, <<>>, Field(ContentType, type), data)
ReadObject(verb, bucket, key) == StorageCall(verb, bucket, key, <<>>, NoFields, NoBody)
CopyObject(bucket, key, source) ==
  StorageCall("put", bucket, key, <<>>, Field(Header("copy_source"), source), NoBody)
CreateUpload(bucket, key, type) ==
  StorageCall("post", bucket, key, <<<<Uploads, <<>>>>>>, Field(ContentType, type), NoBody)
UploadPart(bucket, key, id, number, data) ==
  StorageCall("put", bucket, key, <<<<PartNumber, number>>, <<UploadId, id>>>>, NoFields, data)
EndUpload(verb, bucket, key, id) ==
  StorageCall(verb, bucket, key, <<<<UploadId, id>>>>, NoFields, NoBody)

\* list_objects puts the caller's query into the target as it is.
ListObjects(bucket, query) ==
  Asking(Storage, "get", PathFor(bucket, <<>>) \o IF query = <<>> THEN <<>> ELSE <<Question>> \o query,
    NoFields, NoBody, bucket, <<>>, Received(query))

\* qkms::client::invoke.
Invoke(name, query, payload) ==
  Asking(Kms, "post", <<Slash>> \o IF query = <<>> THEN <<>> ELSE <<Question>> \o query,
    With(Field(ContentType, <<311>>), Header("target"), <<312, 46>> \o name), payload,
    <<>>, <<>>, Received(query))

\* A word that stands in a query as it is.
PlainName(name) == name # <<>> /\ \A i \in DOMAIN name : Unreserved(name[i])

\* A call whose query an operation writes: names of its own, values encoded.
Composed(a) ==
  /\ a.parameters \in Seq(Seq(Nat) \X Seq(Nat))
  /\ \A k \in DOMAIN a.parameters : PlainName(a.parameters[k][1])
  /\ a.target = PathFor(a.bucket, a.key) \o QueryText(a.parameters)

\* The calls that are made, or presigned, are those of the operations: a path for
\* a bucket and a key, and a query of theirs or the caller's own.
ASSUME AskedAssumption ==
  \A a \in Asked \cup LinkAsked :
    /\ a.bucket \in Seq(Nat) /\ a.key \in Seq(Nat)
    /\ \/ Composed(a)
       \/ LET query == Cut(a.target, Question)[2]
          IN  /\ query \in Seq(Nat)
              /\ a.target = PathFor(a.bucket, a.key) \o IF query = <<>> THEN <<>> ELSE <<Question>> \o query
              /\ a.parameters = Received(query)

\* The names of the fields are in lower case, and a body stands for itself.
ASSUME ContentAssumption ==
  \A a \in Asked \cup LinkAsked :
    /\ \A n \in DOMAIN a.fields : n \in Seq(Nat) /\ LowerCase(n) = n
    /\ a.body \in Seq(Nat) /\ \A i \in DOMAIN a.body : a.body[i] > 255

\* The base path of an endpoint, as parse_endpoint leaves it.
ASSUME BaseAssumption ==
  \A e \in Endpoint : e.base \in Seq(Nat) /\ (e.base # <<>> => e.base[1] = Slash)

\* The fields of a link: no name has the ';' that stands between signed names.
ASSUME LinkFieldsAssumption ==
  \A a \in LinkAsked :
    /\ IsFiniteSet(DOMAIN a.fields)
    /\ \A n \in DOMAIN a.fields : (\A i \in DOMAIN n : n[i] # 59) /\ a.fields[n] \in Seq(Nat)

\* Texts, and a token that trim_collapse leaves as it is.
ASSUME TokenAssumption ==
  /\ Account.id \in Seq(Nat) /\ Account.region \in Seq(Nat)
  /\ Account.token \in Seq(Nat) /\ \A i \in DOMAIN Account.token : Account.token[i] \notin Space

CreateKeyName == <<313>>
IsCreateKey(a) ==
  /\ a.service = Kms
  /\ a.fields[Header("target")] = <<312, 46>> \o CreateKeyName

OperationOf(a) == IF IsCreateKey(a) THEN "create_key" ELSE "other"

-----------------------------------------------------------------------------
\* The signer of the client; one that cannot sign has no secret.
Signer(service) ==
  [id |-> Account.id, token |-> Account.token, region |-> Account.region, service |-> service,
   secret |-> IF client.signs THEN Account.secret ELSE <<>>]

RequestTo(endpoint, a) ==
  [endpoint |-> endpoint, verb |-> a.verb, target |-> a.target, fields |-> a.fields, body |-> a.body]

SignedInit ==
  /\ Init
  /\ asked = [c \in Caller |-> None]
  /\ now = 0
  /\ wire = [c \in Caller |-> None]
  /\ link = None

SignedBegin(c, a, o) ==
  /\ link = None
  /\ Begin(c, OperationOf(a), o)
  /\ asked' = [asked EXCEPT ![c] = a]
  /\ wire' = [wire EXCEPT ![c] = None]
  /\ UNCHANGED <<now, link>>

\* Mutant of SignedRequest: signed once, for the first endpoint of the list.
SignedForFirst(c) ==
  LET selected == client.endpoints[Rotation(attempt[c])]
      signed == Signed(Signer(asked[c].service), now, RequestTo(client.endpoints[1], asked[c]))
  IN  [signed EXCEPT !.endpoint = selected]

\* The request of an iteration: built anew, signed with the time it is sent.
SignedRequest(c) ==
  Signed(Signer(asked[c].service), now, RequestTo(client.endpoints[Rotation(attempt[c])], asked[c]))

SignedSend(c) ==
  /\ Send(c)
  /\ wire' = [wire EXCEPT ![c] = [at |-> now, request |-> Transmitted(SignedRequest(c))]]
  /\ UNCHANGED <<asked, now, link>>

\* The other steps of the loop have nothing to do with the contents.
SignedLoop(c) ==
  /\ \/ Refuse(c) \/ Enter(c) \/ SignFails(c)
     \/ \E result \in Outcome : Answered(c, result)
     \/ DecideError(c) \/ DecideBusy(c) \/ DecideResponse(c)
  /\ UNCHANGED traffic

\* presign and the presign_ operations, for the first endpoint.  A behaviour
\* that presigns makes no calls: the two share nothing but the client.
Presign(c, a, requested, expires) ==
  /\ link = None
  /\ pc[c] = "idle"
  /\ link' = IF client.endpoints = <<>> THEN [refused |-> "no_endpoints"]
             ELSE LET signer == Signer(a.service)
                      request == RequestTo(client.endpoints[1], a)
                      refusal == Refusal(signer, request, requested, expires)
                  IN  IF refusal # "none" THEN [refused |-> refusal]
                      ELSE Presigned(signer, now, request, requested, expires)
  /\ UNCHANGED <<vars, asked, now, wire>>

\* Time passes while an attempt is answered, and in the life of a link.
Tick ==
  /\ now < IF link = None THEN MaxCallTime ELSE MaxTime
  /\ \A c \in Caller : pc[c] \in {"idle", "wait"}
  /\ now' = now + 1
  /\ UNCHANGED <<vars, asked, wire, link>>

SignedStep(c) == SignedSend(c) \/ SignedLoop(c)

SignedNext ==
  \/ \E c \in Caller :
       \/ SignedStep(c)
       \/ \E a \in Asked, o \in Option : SignedBegin(c, a, o)
       \/ \E a \in LinkAsked, requested \in Requested, expires \in Lifetime :
            Presign(c, a, requested, expires)
  \/ Tick

\* The fairness of the loop: a call goes on, whatever it carries.
SignedSpec ==
  SignedInit /\ [][SignedNext]_allVars /\ \A c \in Caller : WF_vars(Step(c))

-----------------------------------------------------------------------------
\* What a call must be, and the endpoint it goes to, for libcurl to send what was
\* signed: no dot segments, no headers without a value, and no escapes of bytes
\* that need none in a base path or in a query that the caller wrote.
PathOf(e, a) == e.base \o PathFor(a.bucket, a.key)

Sendable(e, a) ==
  /\ NoDots(PathOf(e, a))
  /\ EscapesNeeded(e.base)
  /\ Composed(a) \/ EscapesNeeded(Cut(a.target, Question)[2])
  /\ e.authority \in Seq(Nat) \ {<<>>} /\ \A i \in DOMAIN e.authority : e.authority[i] \notin Space
  /\ \A n \in DOMAIN a.fields : TrimCollapse(a.fields[n]) # <<>>

\* What a link must be for the service to accept it: no escapes of bytes that need
\* none, as above, and the header that its user adds is none of its own.
Linkable(e, a) ==
  /\ a.service = Storage
  /\ EscapesNeeded(e.base)
  /\ Composed(a) \/ EscapesNeeded(Cut(a.target, Question)[2])
  /\ <<314>> \notin DOMAIN a.fields

\* What tells a changed header of a link from the signed one: its name is asked for
\* as it is sent, it is not the host, and its value is not the changed one.
Telling(a, requested) ==
  /\ \A n \in requested : LowerCase(n) = n /\ n # Host
  /\ \A n \in DOMAIN a.fields : TrimCollapse(a.fields[n]) # <<316>>

\* Every attempt of every call is accepted by the service it goes to: the
\* signature is for that endpoint, that time, and for the bytes libcurl sends
\* and the service decodes and encodes in its own way.
EveryAttemptVerifies ==
  \A c \in Caller :
    pc[c] = "wait" /\ wire[c].at = now => Accepts(asked[c].service, wire[c].request, now)

\* The service reads the bucket, the key and the parameters the caller meant,
\* whatever bytes they are made of.
ObjectAddressed ==
  \A c \in Caller :
    pc[c] = "wait" =>
      LET endpoint == client.endpoints[Rotation(attempt[c])]
          sent == wire[c].request
      IN  /\ sent.authority = endpoint.authority
          /\ Address(sent.path, endpoint.base) = <<asked[c].bucket, asked[c].key>>
          /\ Received(sent.query) = asked[c].parameters

\* Somebody uses the link, with the headers it requires and some of their own.
Used(fields) ==
  [authority |-> link.authority, path |-> link.path, query |-> link.query, verb |-> link.verb,
   fields |-> fields, signature |-> link.signature]

Issued == link # None /\ link.refused = "none"

\* A link is accepted from the moment it is made to the last full second of its
\* life, and with headers nobody asked for.  (The service counts from the
\* second in X-Amz-Date, expires_at from the time point itself.)
LinkAccepted ==
  Issued /\ now + Second <= link.expires_at =>
    /\ AcceptsLink(Storage, Used(link.required), now)
    /\ AcceptsLink(Storage, Used(With(link.required, <<314>>, <<315>>)), now)

\* README.md on presigned PUT: changing or omitting a signed header invalidates
\* the request; and so do another object, another verb and the end of its life.
LinkBound ==
  Issued =>
    LET exact == Used(link.required)
        accepted(use) == AcceptsLink(Storage, use, now)
    IN  /\ \A n \in link.requested :
             /\ ~accepted(Used([m \in DOMAIN link.required \ {n} |-> link.required[m]]))
             /\ ~accepted(Used(With(link.required, n, <<316>>)))
        /\ \A verb \in {"get", "put", "head", "delete"} \ {link.verb} :
             ~accepted([exact EXCEPT !.verb = verb])
        /\ ~accepted([exact EXCEPT !.path = Append(@, 317)])
        /\ ~accepted([exact EXCEPT !.query = <<318, Ampersand>> \o @])
        /\ now >= link.expires_at => ~accepted(exact)
=============================================================================

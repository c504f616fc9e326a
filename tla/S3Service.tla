-------------------------------- MODULE S3Service --------------------------------
(***************************************************************************)
(* What is outside of the client: libcurl, which puts a request on the     *)
(* wire, and the service, which takes it apart, computes the signature     *)
(* from what it received, and compares.  Both as the code relies on them.  *)
(***************************************************************************)
EXTENDS SigV4

CONSTANTS
  Account,       (* the credentials the service knows, with its region       *)
  Skew           (* seconds a signed request may be old                      *)

ASSUME SkewAssumption == Skew \in Nat

-----------------------------------------------------------------------------
(* libcurl.                                                                *)

Dot == <<46>>
DotDot == <<46, 46>>

\* libcurl removes dot segments from the path of a URL.
WithoutDots(path) ==
  LET segments == Split(path, Slash)
      step(kept, segment) ==
        IF segment = Dot THEN kept
        ELSE IF segment = DotDot THEN SubSeq(kept, 1, IF Len(kept) > 1 THEN Len(kept) - 1 ELSE 1)
        ELSE Append(kept, segment)
      kept[k \in 0..Len(segments)] ==
        IF k = 0 THEN <<>> ELSE step(kept[k - 1], segments[k])
      all == kept[Len(segments)]
  IN  Join(IF segments[Len(segments)] \in {Dot, DotDot} THEN Append(all, <<>>) ELSE all, Slash)

\* Every escape of a text stands for a byte that has to be quoted.
EscapesNeeded(text) ==
  \A i \in DOMAIN text :
    IsEscape(text, i) => ~Unreserved(16 * HexValue(text[i + 1]) + HexValue(text[i + 2]))

\* A path libcurl has nothing to remove from.
NoDots(path) ==
  \A k \in DOMAIN Split(path, Slash) : Split(path, Slash)[k] \notin {Dot, DotDot}

\* libcurl leaves out a header that has no value.
Transmitted(request) ==
  LET target == Cut(request.target, Question)
      sent == {n \in DOMAIN request.fields : TrimCollapse(request.fields[n]) # <<>>}
  IN  [authority |-> request.endpoint.authority,
       verb |-> request.verb,
       path |-> WithoutDots(request.endpoint.base \o target[1]),
       query |-> target[2],
       fields |-> [n \in sent |-> request.fields[n]],
       body |-> request.body,
       credential |-> request.credential,
       signed |-> request.signed,
       signature |-> request.signature]

-----------------------------------------------------------------------------
(* The service.                                                            *)

Decoded(text) ==
  Rewritten(text, LAMBDA h, l : <<16 * HexValue(h) + HexValue(l)>>, LAMBDA c : <<c>>)

\* The parameters of a query, decoded.
Received(query) ==
  IF query = <<>> THEN <<>>
  ELSE LET segments == Split(query, Ampersand)
       IN  [k \in DOMAIN segments |->
              LET pair == Cut(segments[k], Equals) IN <<Decoded(pair[1]), Decoded(pair[2])>>]

Encoded(parameters) ==
  [k \in DOMAIN parameters |->
     <<PercentEncode(parameters[k][1], {}), PercentEncode(parameters[k][2], {})>>]

\* The path is encoded segment by segment: a quoted '/' is part of a name.
ServicePath(path) ==
  LET segments == Split(path, Slash)
  IN  Join([k \in DOMAIN segments |-> PercentEncode(Decoded(segments[k]), {})], Slash)

ServiceQuery(query) == Pairs(InOrder(Encoded(Received(query))))

\* Bucket and key, below the base path of an endpoint.
Address(path, base) ==
  LET pair == Cut(SubSeq(path, Len(base) + 2, Len(path)), Slash)
  IN  <<Decoded(pair[1]), Decoded(pair[2])>>

ServiceScope(date, service) ==
  Join(<<<<2000 + ((date[1] - 1000) \div Day)>>, Account.region, service, <<Request4>>>>, Slash)

\* The headers that a signature has to cover, and those that it names.
Covers(names, fields) ==
  /\ Host \in names
  /\ \A n \in DOMAIN fields : IsAmz(n) => n \in names
  /\ names \subseteq DOMAIN fields

\* A request with an authorization header.
Accepts(service, wire, now) ==
  LET fields == NormalizedHeaders(wire.fields)
      date == fields[Header("date")]
      scope == ServiceScope(date, service)
  IN  /\ {Header("date"), Header("content_sha256")} \subseteq DOMAIN fields
      /\ Covers(wire.signed, fields)
      /\ fields[Host] = wire.authority
      /\ fields[Header("content_sha256")] = PayloadHash(wire.body)
      /\ (now \div Second) - (date[1] - 1000) \in 0..Skew
      /\ wire.credential = Account.id \o <<Slash>> \o scope
      /\ Account.token # <<>> => /\ Header("security_token") \in DOMAIN fields
                                 /\ fields[Header("security_token")] = Account.token
      /\ wire.signature =
           Signature(Account.secret, date, scope, wire.verb, ServicePath(wire.path),
             ServiceQuery(wire.query), [n \in wire.signed |-> fields[n]], PayloadHash(wire.body))

\* A request with the authorization in its query; the Host header is the
\* authority of the URL.
AcceptsLink(service, wire, now) ==
  LET fields == With(NormalizedHeaders(wire.fields), Host, wire.authority)
      parameters == Received(wire.query)
      values(word) == {parameters[k][2] : k \in {j \in DOMAIN parameters : parameters[j][1] = Parameter(word)}}
  IN  \E date \in values("date"), expires \in values("expires"),
         credential \in values("credential"), signed \in values("signed_headers") :
        LET names == ToSet(Split(signed, 59))
            scope == ServiceScope(date, service)
        IN  /\ Covers(names, fields)
            /\ expires[1] - 3000 \in 1..MaxExpires
            /\ (now \div Second) - (date[1] - 1000) \in 0..(expires[1] - 3001)
            /\ credential = Account.id \o <<Slash>> \o scope
            /\ Account.token # <<>> => values("security_token") = {Account.token}
            /\ wire.signature =
                 Signature(Account.secret, date, scope, wire.verb, ServicePath(wire.path),
                   ServiceQuery(wire.query), [n \in names |-> fields[n]], UnsignedPayload)
=============================================================================

---------------------------------- MODULE SigV4 ----------------------------------
(***************************************************************************)
(* The signer (sigv4.cpp): what of a request it signs, in a header or in a *)
(* URL.  A text is a sequence of bytes; a number above 255 is a word, that *)
(* is a run of unreserved bytes nothing here looks into, in either case.   *)
(* Hash and HMAC are perfect: they stand for the text they are made from.  *)
(* Time is counted in ticks, Second of them a second, Day seconds a day.   *)
(***************************************************************************)
EXTENDS Integers, Sequences, SequencesExt

CONSTANTS
  Second,
  Day,
  MaxExpires     (* max_presign_expiration, in seconds                       *)

ASSUME TimeAssumption == Second \in Nat \ {0} /\ Day \in Nat \ {0} /\ MaxExpires \in Nat \ {0}

Slash == 47
Percent == 37
Question == 63
Ampersand == 38
Equals == 61

Digit == 48..57
Upper == 65..90
Lower == 97..122
Space == 9..13 \cup {32}

\* Words of the names below, in alphabetical order.
Names == [algorithm |-> 401, content_sha256 |-> 402, copy_source |-> 403, credential |-> 404,
          date |-> 405, expires |-> 406, security_token |-> 407, signature |-> 408,
          signed_headers |-> 409, target |-> 410]
Amz == 300
Header(word) == <<120, Amz, Names[word]>>
Parameter(word) == <<88, Amz, Names[word]>>
ContentType == <<99, 301>>
Host == <<104, 302>>
Algorithm == <<303>>
Request4 == 304

-----------------------------------------------------------------------------
(* Texts.                                                                  *)

Unreserved(c) == c \in Digit \cup Upper \cup Lower \cup {45, 46, 95, 126} \/ c > 255

IsHex(c) == c \in Digit \cup 65..70 \cup 97..102
UpperHex(c) == IF c \in Lower THEN c - 32 ELSE c
HexDigit(n) == IF n < 10 THEN 48 + n ELSE 55 + n
HexValue(c) == IF c \in Digit THEN c - 48 ELSE UpperHex(c) - 55

Escape(c) == <<Percent, HexDigit(c \div 16), HexDigit(c % 16)>>

\* A byte as it stands in a canonical text, '/' among them where it is kept.
Raw(c, kept) == IF Unreserved(c) \/ c \in kept THEN <<c>> ELSE Escape(c)

\* percent_encode and append_raw_encoded.
PercentEncode(text, kept) == FlattenSeq([i \in DOMAIN text |-> Raw(text[i], kept)])

IsEscape(text, i) ==
  /\ text[i] = Percent
  /\ i + 2 <= Len(text)
  /\ IsHex(text[i + 1]) /\ IsHex(text[i + 2])

\* A text read from the left, with its escapes and its other bytes replaced.
Rewritten(text, escape(_, _), other(_)) ==
  LET from[i \in 1..Len(text) + 3] ==
        IF i > Len(text) THEN <<>>
        ELSE IF IsEscape(text, i) THEN escape(text[i + 1], text[i + 2]) \o from[i + 3]
        ELSE other(text[i]) \o from[i + 1]
  IN  from[1]

\* canonicalize_encoded_component, append_canonical_encoded.
CanonicalText(text, kept) ==
  Rewritten(text, LAMBDA h, l : <<Percent, UpperHex(h), UpperHex(l)>>, LAMBDA c : Raw(c, kept))

Below(s, t) ==
  \/ IsStrictPrefix(s, t)
  \/ \E i \in DOMAIN s \cap DOMAIN t :
       SubSeq(s, 1, i - 1) = SubSeq(t, 1, i - 1) /\ s[i] < t[i]

LowerCase(text) == [i \in DOMAIN text |-> IF text[i] \in Upper THEN text[i] + 32 ELSE text[i]]

\* The texts of a set in order, as a std::set or a std::map has them.
Ordered(texts) ==
  [k \in 1..Cardinality(texts) |->
     CHOOSE s \in texts : Cardinality({t \in texts : Below(t, s)}) = k - 1]

\* One space is left of a run of them, and none at either end.
TrimCollapse(text) ==
  LET Keep(i) ==
        /\ i > 1 /\ text[i - 1] \notin Space
        /\ \E j \in i..Len(text) : text[j] \notin Space
  IN  FlattenSeq([i \in DOMAIN text |->
        IF text[i] \notin Space THEN <<text[i]>> ELSE IF Keep(i) THEN <<32>> ELSE <<>>])

\* The pieces between separators, and texts with a separator between them.
Split(text, separator) ==
  LET from[i \in 1..Len(text) + 1] ==
        IF i > Len(text) THEN <<<<>>>>
        ELSE IF text[i] = separator THEN <<<<>>>> \o from[i + 1]
        ELSE [from[i + 1] EXCEPT ![1] = <<text[i]>> \o @]
  IN  from[1]

Join(texts, separator) ==
  FlattenSeq([k \in DOMAIN texts |-> IF k = 1 THEN texts[k] ELSE <<separator>> \o texts[k]])

\* What stands before the first separator, and what after it.
Cut(text, separator) ==
  LET i == SelectInSeq(text, LAMBDA c : c = separator)
  IN  IF i = 0 THEN <<text, <<>>>>
      ELSE <<SubSeq(text, 1, i - 1), SubSeq(text, i + 1, Len(text))>>

-----------------------------------------------------------------------------
(* Canonical forms.  A request is [endpoint, verb, target, fields, body];  *)
(* fields are a map from names to values, as in http_headers.              *)

NoFields == [name \in {} |-> <<>>]
With(fields, name, value) ==
  [n \in DOMAIN fields \cup {name} |-> IF n = name THEN value ELSE fields[n]]

CanonicalUri(request, path) ==
  LET absolute == request.endpoint.base \o path
      slash == IF absolute # <<>> /\ absolute[1] = Slash THEN <<>> ELSE <<Slash>>
  IN  CanonicalText(slash \o absolute, {Slash})

ParseExistingQuery(query) ==
  IF query = <<>> THEN <<>>
  ELSE LET segments == Split(query, Ampersand)
       IN  [k \in DOMAIN segments |->
              LET pair == Cut(segments[k], Equals)
              IN  <<CanonicalText(pair[1], {}), CanonicalText(pair[2], {})>>]

ParameterBelow(p, q) == IF p[1] # q[1] THEN Below(p[1], q[1]) ELSE Below(p[2], q[2])

\* The parameter at i comes before the one at j; of equal ones the earlier does.
Before(parameters, i, j) ==
  \/ ParameterBelow(parameters[i], parameters[j])
  \/ parameters[i] = parameters[j] /\ i < j

InOrder(parameters) ==
  [k \in DOMAIN parameters |->
     parameters[CHOOSE j \in DOMAIN parameters :
       Cardinality({i \in DOMAIN parameters : Before(parameters, i, j)}) = k - 1]]

Pairs(parameters) ==
  Join([k \in DOMAIN parameters |-> parameters[k][1] \o <<Equals>> \o parameters[k][2]], Ampersand)

\* Mutant of CanonicalQuery: the parameters stay in the order of the target.
CanonicalQueryUnsorted(parameters) == Pairs(parameters)

CanonicalQuery(parameters) == Pairs(InOrder(parameters))

\* normalized_headers: names that differ in case only are one, in map order.
NormalizedHeaders(fields) ==
  [name \in {LowerCase(n) : n \in DOMAIN fields} |->
     LET same == Ordered({n \in DOMAIN fields : LowerCase(n) = name})
     IN  Join([k \in DOMAIN same |-> TrimCollapse(fields[same[k]])], 44)]

IsAmz(name) == IsPrefix(<<120, Amz>>, name)

AmzDate(now) == <<1000 + (now \div Second)>>
DateStamp(now) == <<2000 + ((now \div Second) \div Day)>>

\* sha256_hex of a body, as the value of a header.
PayloadHash(body) == <<305>> \o body

\* Scope and signature; the signed header names are the domain of the block.
Scope(now, signer) == Join(<<DateStamp(now), signer.region, signer.service, <<Request4>>>>, Slash)

Signature(secret, date, scope, verb, path, query, block, payload) ==
  [secret |-> secret, date |-> date, scope |-> scope, verb |-> verb, path |-> path,
   query |-> query, block |-> block, payload |-> payload]

-----------------------------------------------------------------------------
(* sign.  A signer is [id, secret, token, region, service].                *)

Complete(signer) == signer.id # <<>> /\ signer.secret # <<>>

\* The fields sign adds before it builds the canonical request.
Stamped(signer, now, request) ==
  LET dated == With(With(request.fields, Host, request.endpoint.authority), Header("date"), AmzDate(now))
      known == IF signer.token = <<>> THEN dated ELSE With(dated, Header("security_token"), signer.token)
  IN  With(known, Header("content_sha256"), PayloadHash(request.body))

Signed(signer, now, request) ==
  LET fields == Stamped(signer, now, request)
      target == Cut(request.target, Question)
  IN  [endpoint |-> request.endpoint, verb |-> request.verb, target |-> request.target,
       fields |-> fields, body |-> request.body,
       credential |-> signer.id \o <<Slash>> \o Scope(now, signer),
       signed |-> {LowerCase(n) : n \in DOMAIN fields},
       signature |-> Signature(signer.secret, AmzDate(now), Scope(now, signer), request.verb,
                       CanonicalUri(request, target[1]), CanonicalQuery(ParseExistingQuery(target[2])),
                       NormalizedHeaders(fields), PayloadHash(request.body))]

-----------------------------------------------------------------------------
(* presign, with the payload unsigned.  The URL is kept as its endpoint,   *)
(* path and query; the signature at its end is a field of its own.         *)

UnsignedPayload == <<320>>
Reserved == {"algorithm", "credential", "date", "expires", "signed_headers", "signature",
             "security_token"}

IsReserved(name) == LowerCase(name) \in {Header(word) : word \in Reserved}

\* Mutant of SignedNames: only the Host header is bound to the link.
SignedNamesHostOnly(normalized, requested) == {Host}

\* Host, every x-amz- header, and what the options ask for.
SignedNames(normalized, requested) ==
  {Host} \cup {n \in DOMAIN normalized : IsAmz(n)} \cup {LowerCase(n) : n \in requested}

\* The parameters appended to those of the target.
AuthParameters(signer, now, expires, names) ==
  LET value(text) == PercentEncode(text, {})
  IN  <<<<Parameter("algorithm"), value(Algorithm)>>,
        <<Parameter("credential"), value(signer.id \o <<Slash>> \o Scope(now, signer))>>,
        <<Parameter("date"), value(AmzDate(now))>>,
        <<Parameter("expires"), <<3000 + expires>>>>,
        <<Parameter("signed_headers"), value(Join(Ordered(names), 59))>>>>
      \o IF signer.token = <<>> THEN <<>>
         ELSE <<<<Parameter("security_token"), value(signer.token)>>>>

\* Why presign returns no link.
Refusal(signer, request, requested, expires) ==
  LET parameters == ParseExistingQuery(Cut(request.target, Question)[2])
      normalized == NormalizedHeaders(request.fields)
  IN  IF ~Complete(signer) THEN "incomplete_credentials"
      ELSE IF expires \notin 1..MaxExpires THEN "invalid_expiration"
      ELSE IF request.endpoint.scheme \notin {"http", "https"} THEN "unsupported_endpoint_scheme"
      ELSE IF \E k \in DOMAIN parameters : IsReserved(parameters[k][1])
        THEN "conflicting_query_parameter"
      ELSE IF \E n \in requested : LowerCase(n) \notin DOMAIN normalized \cup {Host}
        THEN "missing_signed_header"
      ELSE "none"

Presigned(signer, now, request, requested, expires) ==
  LET normalized == With(NormalizedHeaders(request.fields), Host, request.endpoint.authority)
      names == SignedNames(normalized, requested)
      block == [n \in names |-> normalized[n]]
      target == Cut(request.target, Question)
      query == CanonicalQuery(ParseExistingQuery(target[2]) \o AuthParameters(signer, now, expires, names))
      path == CanonicalUri(request, target[1])
  IN  [refused |-> "none",
       authority |-> request.endpoint.authority,
       verb |-> request.verb,
       path |-> path,
       query |-> query,
       requested |-> requested,
       required |-> [n \in names \ {Host} |-> normalized[n]],
       expires_at |-> now + expires * Second,
       signature |-> Signature(signer.secret, AmzDate(now), Scope(now, signer), request.verb,
                       path, query, block, UnsignedPayload)]
=============================================================================

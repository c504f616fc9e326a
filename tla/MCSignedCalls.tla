------------------------------ MODULE MCSignedCalls ------------------------------
(* The instance of SignedCalls for TLC. *)
EXTENDS SignedCalls

MCEndpoint ==
  {[scheme |-> "https", authority |-> <<601>>, base |-> <<>>],
   [scheme |-> "https", authority |-> <<602, 58, 56>>, base |-> <<Slash, 98>>],
   [scheme |-> "http", authority |-> <<603>>, base |-> <<Slash>>]}

At_(word) == CHOOSE e \in MCEndpoint : e.authority[1] = word
Built(words, h, s) ==
  [endpoints |-> [i \in DOMAIN words |-> At_(words[i])], has_transport |-> h, signs |-> s]

MCClient ==
  {Built(<<601, 602>>, TRUE, TRUE), Built(<<602, 601, 603>>, TRUE, TRUE),
   Built(<<601>>, TRUE, FALSE), Built(<<601>>, FALSE, TRUE), Built(<<>>, TRUE, TRUE)}

MCOption ==
  {[max_attempts |-> n, allow_failover |-> f, idempotent |-> TRUE] : n \in {0, 4}, f \in BOOLEAN}

MCAccount == [id |-> <<604>>, secret |-> <<605>>, token |-> <<606, 43, Slash, Equals>>, region |-> <<607>>]

\* Bytes that are kept, quoted, separators elsewhere, or look like an escape.
Bucket == <<98, Slash>>
Key == <<107, Slash, 32, Percent, 52, 97, Question, 200>>
MCAsked ==
  {PutObject(Bucket, Key, <<32, 608, 32, 32, 609>>, <<610>>),
   ReadObject("get", <<98>>, <<Slash, 107, Slash>>),
   CopyObject(<<98>>, <<107>>, <<Slash, 98, Slash, 107>>),
   UploadPart(<<98>>, <<107>>, <<117, 43, Ampersand, Equals>>, <<49>>, <<610>>),
   ListObjects(<<98>>, <<112, Equals, 97, Slash, Equals, Ampersand, 77, Percent, 50, 102, Ampersand, 97>>),
   Invoke(<<614>>, <<>>, <<610>>),
   Invoke(CreateKeyName, <<97, Equals, 49>>, <<610>>)}

MCLinkAsked ==
  {PutObject(Bucket, Key, <<608, 32, 32, 609>>, NoBody), ReadObject("head", Bucket, Key),
   CreateUpload(<<98>>, <<107>>, <<608>>), EndUpload("get", <<98>>, <<107>>, <<117, 43>>),
   ListObjects(<<98>>, <<120, Amz, 405, Equals, 49>>)}

MCRequested == {{}, {ContentType}}

(* What the theorems ask of the calls and the endpoints holds of the instance. *)
ASSUME AllSendable == \A e \in MCEndpoint, a \in MCAsked : Sendable(e, a)
ASSUME AllLinkable ==
  /\ \A e \in MCEndpoint, a \in MCLinkAsked : Linkable(e, a)
  /\ \A a \in MCLinkAsked, requested \in MCRequested : Telling(a, requested)
=============================================================================

--------------------------- MODULE CurlTransfer ---------------------------
(***************************************************************************)
(* One HTTP exchange of src/curl_transport.cpp.  libcurl calls             *)
(* write_header for every header line and write_body for every piece of    *)
(* the body.  A redirect (FOLLOWLOCATION) or an interim response makes the *)
(* exchange go through several hops; write_header is called for the lines  *)
(* of all of them and files them in one map, and the trailers of a gRPC    *)
(* response come through it as well.  The body of a redirect is discarded  *)
(* by libcurl.                                                             *)
(*                                                                         *)
(* The server and libcurl are the environment: what lines and bytes come,  *)
(* in how many pieces, and where the connection breaks.                    *)
(***************************************************************************)
EXTENDS Integers, SequencesExt

CONSTANTS Names,      \* names of header fields, in lower case
          Values,     \* values of header fields
          Statuses,   \* status codes of a final response
          Bodies,     \* what a server may send as a body
          MaxHops,    \* bound: responses of one exchange
          MaxLines    \* bound: header lines of one hop

VARIABLES stage,      \* "head", "done" or "broken"
          hops,       \* responses that have begun
          lines,      \* the header lines of the current hop, in order
          sending,    \* the part of the body the server has yet to send
          sent,       \* the body the server set out to send
          fields,     \* transfer_context::headers
          body,       \* transfer_context::body
          result      \* what curl_http_send returns

transferVars == <<stage, hops, lines, sending, sent, fields, body, result>>

None == [none |-> TRUE]

\* The outcomes of curl_easy_perform that leave no response; the others of
\* libcurl are like "ssl".
CurlCodes == {"timed_out", "couldnt_connect", "couldnt_resolve", "recv", "send", "ssl"}
TransportError(rc) == [rc |-> rc, retryable |-> rc # "ssl"]
Response(status) == [status |-> status, fields |-> fields, body |-> body]

TransferInit ==
    /\ stage = "head" /\ hops = 1 /\ lines = <<>>
    /\ sent \in Bodies /\ sending = sent
    /\ fields = <<>> /\ body = <<>> /\ result = None

\* Mutant of Filed: the first line of a name is kept (map::emplace).
FiledFirst(name, value) == [n \in DOMAIN fields \cup {name} |->
                               IF n \in DOMAIN fields THEN fields[n] ELSE value]

\* write_header: the name in lower case, the value trimmed; a later line of
\* the same name takes the place of an earlier one, whatever hop it is from.
Filed(name, value) == [n \in DOMAIN fields \cup {name} |->
                          IF n = name THEN value ELSE fields[n]]

HeaderLine(name, value) ==
    /\ stage = "head" /\ Len(lines) < MaxLines
    /\ lines' = Append(lines, [name |-> name, value |-> value])
    /\ fields' = Filed(name, value)
    /\ UNCHANGED <<stage, hops, sending, sent, body, result>>

\* The response so far was a redirect or an interim one; another begins.
\* Its status line has no colon and write_header passes over it.
NextHop ==
    /\ stage = "head" /\ hops < MaxHops /\ body = <<>>
    /\ hops' = hops + 1 /\ lines' = <<>>
    /\ UNCHANGED <<stage, sending, sent, fields, body, result>>

\* write_body: a piece of the body arrives.
BodyPiece(n) ==
    /\ stage = "head" /\ n \in 1..Len(sending)
    /\ body' = body \o SubSeq(sending, 1, n)
    /\ sending' = SubSeq(sending, n + 1, Len(sending))
    /\ UNCHANGED <<stage, hops, lines, sent, fields, result>>

\* The exchange ends.  A server that closes the connection early need not
\* be noticed by libcurl: without a content length that is a full body.
Completed(status) ==
    /\ stage = "head"
    /\ stage' = "done" /\ result' = Response(status)
    /\ UNCHANGED <<hops, lines, sending, sent, fields, body>>

Broken(rc) ==
    /\ stage = "head"
    /\ stage' = "broken" /\ result' = TransportError(rc)
    /\ UNCHANGED <<hops, lines, sending, sent, fields, body>>

TransferNext ==
    \/ \E name \in Names, value \in Values : HeaderLine(name, value)
    \/ NextHop
    \/ \E n \in 1..Len(sending) : BodyPiece(n)
    \/ \E status \in Statuses : Completed(status)
    \/ \E rc \in CurlCodes : Broken(rc)

---------------------------------------------------------------------------
\* What the final response says in a header field is what the caller reads,
\* its last line if there are several, whatever earlier hops said.
FinalHopRules ==
    \A name \in Names :
        LET i == SelectLastInSeq(lines, LAMBDA l : l.name = name)
        IN  stage = "done" /\ i # 0 => result.fields[name] = lines[i].value
=============================================================================

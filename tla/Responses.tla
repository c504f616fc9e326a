----------------------------- MODULE Responses -----------------------------
(***************************************************************************)
(* From bytes on the wire to what a call returns: an HTTP exchange         *)
(* (CurlTransfer), and then what the two kinds of callers in               *)
(* src/sdk_facade.cpp make of the response: native_api::call checks the    *)
(* status, the grpc-status field and the frame (GrpcFrame),                *)
(* parse_json_response checks the status and reads the body as JSON        *)
(* (Json).  The two consumers never run on one response, so the exchange   *)
(* is explored in full for native calls, and for JSON the body is chosen   *)
(* while it is read.                                                       *)
(***************************************************************************)
EXTENDS CurlTransfer, GrpcFrame, JsonGrammar

CONSTANT Messages    \* protobuf messages a server may answer with

\* Bodies and messages are bytes, and "none" stands for no header line.
ASSUME ResponsesAssumption ==
    /\ Bodies \cup Messages \subseteq Seq(0..(Base - 1))
    /\ "none" \notin Values

VARIABLES caller,    \* "native" or "json"
          reply      \* what the call returns

vars == <<caller, reply, transferVars, jsonVars>>

HttpSuccess(status) == status \in 200..299

\* Mutant of NativeReply: the grpc-status field is not consulted.
NativeReplyHttpOnly(response) ==
    IF response.status # 200 THEN Failure(response.status) ELSE Unframe(response.body)

\* native_api::call behind send_with_failover.
NativeReply(response) ==
    IF response.status # 200 THEN Failure(response.status)
    ELSE IF "grpc-status" \in DOMAIN response.fields /\ response.fields["grpc-status"] # "0"
    THEN Failure(865)
    ELSE Unframe(response.body)

Init == /\ caller \in {"native", "json"} /\ reply = None
        /\ TransferInit /\ JsonInit
        /\ caller = "json" => sent = <<>>
        /\ caller = "native" => alphabet = CHOOSE A \in Alphabets : TRUE

Receive == /\ stage = "head" /\ TransferNext
           /\ caller = "json" => lines' = lines /\ hops' = hops
           /\ UNCHANGED <<caller, reply, jsonVars>>

\* send_with_failover's error is passed on.
PassError == /\ stage = "broken" /\ reply = None
             /\ reply' = result
             /\ UNCHANGED <<caller, transferVars, jsonVars>>

DecodeNative == /\ stage = "done" /\ caller = "native" /\ reply = None
                /\ reply' = NativeReply(result)
                /\ UNCHANGED <<caller, transferVars, jsonVars>>

\* response_error
RefuseStatus == /\ stage = "done" /\ caller = "json" /\ reply = None
                /\ ~HttpSuccess(result.status)
                /\ reply' = Failure(result.status)
                /\ UNCHANGED <<caller, transferVars, jsonVars>>

\* json::parse has a code for each kind of error, 700 to 707; one stands for all.
ReadJson == /\ stage = "done" /\ caller = "json" /\ reply = None
            /\ HttpSuccess(result.status)
            /\ JsonNext
            /\ reply' = IF Accepted(p') THEN [json |-> p'.value]
                        ELSE IF Stopped(p') THEN Failure(700) ELSE None
            /\ UNCHANGED <<caller, transferVars>>

Next == Receive \/ PassError \/ DecodeNative \/ RefuseStatus \/ ReadJson

Spec == Init /\ [][Next]_vars
---------------------------------------------------------------------------
Payloads(r) == IF "payload" \in DOMAIN r THEN {r.payload} ELSE {}
LastStatus == LET i == SelectLastInSeq(lines, LAMBDA l : l.name = "grpc-status")
              IN  IF i = 0 THEN "none" ELSE lines[i].value

\* A native call that succeeds returns the whole message the server framed,
\* not a part of it when the connection was cut, and not a frame of another
\* kind.  Messages so long that five and their length do not fit 32 bits are
\* left out: there the comparison in grpc_unframe wraps.
PayloadIntact ==
    \A m \in Messages :
        sent = Frame(m) /\ 5 + Len(m) < Wrap => /\ reply # Undefined
                                                /\ Payloads(reply) \subseteq {m}

\* A call that the server reports as failed, in its status or in the last
\* grpc-status line it sends, header or trailer, never looks like a success;
\* and a message that arrived in full with a good status, and no earlier hop
\* that said otherwise, is never lost.
OutcomeReported ==
    caller = "native" /\ stage = "done" /\ reply # None =>
        /\ result.status # 200 \/ LastStatus \notin {"0", "none"} => Payloads(reply) = {}
        /\ \A m \in Messages :
               /\ sent = Frame(m) /\ 5 + Len(m) < Wrap /\ sending = <<>>
               /\ result.status = 200 /\ (LastStatus = "0" \/ (hops = 1 /\ LastStatus = "none"))
               => Payloads(reply) = {m}
=============================================================================

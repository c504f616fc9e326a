---------------------------- MODULE RotatingClient ----------------------------
(***************************************************************************)
(* The stand-alone clients of QStorage (qstorage::client::execute) and     *)
(* QKMS (qkms::client::invoke): the same loop, which rotates through the   *)
(* configured endpoints by attempt number and keeps no health record.      *)
(*                                                                         *)
(* The client's state (endpoints, signer, transport) is set by its         *)
(* constructor and only read afterwards, so calls share nothing and an     *)
(* iteration of the loop is two steps: sign and send; the answer and the   *)
(* decision.                                                               *)
(***************************************************************************)
EXTENDS Integers, Sequences

CONSTANTS
  Endpoint,    (* endpoint values                                           *)
  Client,      (* clients that may be constructed, see Clients              *)
  Caller,      (* callers, one outstanding call each                        *)
  Option,      (* the call_options they use                                 *)
  MaxCalls,    (* bound: calls made by one caller                           *)
  None

Options == [max_attempts: Nat, allow_failover: BOOLEAN, idempotent: BOOLEAN]

\* signs: the signer accepts its credentials.
Clients == [endpoints: Seq(Endpoint), has_transport: BOOLEAN, signs: BOOLEAN]

ASSUME OptionAssumption == Option \subseteq Options /\ Option # {}
ASSUME ClientAssumption == Client \subseteq Clients
ASSUME MaxCallsAssumption == MaxCalls \in Nat

VARIABLES
  client,      (* the client's impl, never changed                          *)
  pc,          (* where a call is in the loop                               *)
  operation,   (* what it asks for                                          *)
  opt,         (* options                                                   *)
  attempt,     (* attempt                                                   *)
  outcome,     (* what the transport answered to the latest send            *)
  last_error,  (* last_error                                                *)
  answer,      (* what the call returned                                    *)
  sends,       (* history: requests given to the transport                  *)
  applied,     (* history: how many of them the service carried out         *)
  tried,       (* history: positions of the list this call went to          *)
  calls        (* calls made so far                                         *)

vars == <<client, pc, operation, opt, attempt, outcome, last_error, answer,
          sends, applied, tried, calls>>

-----------------------------------------------------------------------------
\* Outcomes of send_now, as in Failover.
Response == {"response", "busy"}
TransportError == {"lost", "fatal"}
Outcome == Response \cup TransportError
Retryable == {"busy", "lost"}

\* Errors 300/400, 301/401 and the signer's.
LocalError == {"no_transport", "no_endpoints", "unsigned"}

InitialError == "request_failed"
StatusError == "busy_error"

\* The operations that qkms::client marks as not idempotent, and all others.
Operation == {"create_key", "other"}

\* create_key and create_key_async clear the flag, the forwards pass options on.
OptionsFor(op, o) ==
  IF op = "create_key" THEN [o EXCEPT !.idempotent = FALSE] ELSE o

\* All the options the loop may be entered with.
LoopOption == Option \cup {OptionsFor(op, o) : op \in Operation, o \in Option}

Attempts(o) == IF o.max_attempts > 1 THEN o.max_attempts ELSE 1

\* Mutant of Rotation: always the first endpoint.
RotationFixed(n) == 1 + (n % 1)

\* endpoints[attempt % size], as a position of the list.
Rotation(n) == 1 + (n % Len(client.endpoints))

Goto(c, label) == pc' = [pc EXCEPT ![c] = label]

Return(c, value) ==
  /\ Goto(c, "done")
  /\ answer' = [answer EXCEPT ![c] = value]

-----------------------------------------------------------------------------
Init ==
  /\ client \in Client
  /\ pc = [c \in Caller |-> "idle"]
  /\ operation = [c \in Caller |-> "other"]
  /\ opt = [c \in Caller |-> CHOOSE o \in Option : TRUE]
  /\ attempt = [c \in Caller |-> 0]
  /\ outcome = [c \in Caller |-> None]
  /\ last_error = [c \in Caller |-> InitialError]
  /\ answer = [c \in Caller |-> None]
  /\ sends = [c \in Caller |-> 0]
  /\ applied = [c \in Caller |-> 0]
  /\ tried = [c \in Caller |-> {}]
  /\ calls = [c \in Caller |-> 0]

Begin(c, op, o) ==
  /\ pc[c] \in {"idle", "done"}
  /\ calls[c] < MaxCalls
  /\ calls' = [calls EXCEPT ![c] = @ + 1]
  /\ operation' = [operation EXCEPT ![c] = op]
  /\ opt' = [opt EXCEPT ![c] = OptionsFor(op, o)]
  /\ attempt' = [attempt EXCEPT ![c] = 0]
  /\ outcome' = [outcome EXCEPT ![c] = None]
  /\ last_error' = [last_error EXCEPT ![c] = InitialError]
  /\ answer' = [answer EXCEPT ![c] = None]
  /\ sends' = [sends EXCEPT ![c] = 0]
  /\ applied' = [applied EXCEPT ![c] = 0]
  /\ tried' = [tried EXCEPT ![c] = {}]
  /\ Goto(c, "begin")
  /\ UNCHANGED client

\* The two checks before the loop.
Refuse(c) ==
  /\ pc[c] = "begin"
  /\ \/ ~client.has_transport /\ Return(c, "no_transport")
     \/ /\ client.has_transport
        /\ client.endpoints = <<>>
        /\ Return(c, "no_endpoints")
  /\ UNCHANGED <<client, operation, opt, attempt, outcome, last_error,
                 sends, applied, tried, calls>>

Enter(c) ==
  /\ pc[c] = "begin"
  /\ client.has_transport
  /\ client.endpoints # <<>>
  /\ Goto(c, "send")
  /\ UNCHANGED <<client, operation, opt, attempt, outcome, last_error, answer,
                 sends, applied, tried, calls>>

SignFails(c) ==
  /\ pc[c] = "send"
  /\ ~client.signs
  /\ Return(c, "unsigned")
  /\ UNCHANGED <<client, operation, opt, attempt, outcome, last_error,
                 sends, applied, tried, calls>>

Send(c) ==
  /\ pc[c] = "send"
  /\ client.signs
  /\ Goto(c, "wait")
  /\ sends' = [sends EXCEPT ![c] = @ + 1]
  /\ tried' = [tried EXCEPT ![c] = @ \cup {Rotation(attempt[c])}]
  /\ outcome' = [outcome EXCEPT ![c] = None]
  /\ UNCHANGED <<client, operation, opt, attempt, last_error, answer, applied, calls>>

\* send_now returns; the service may have carried out a request whose answer
\* is a retryable status or was lost.
Answered(c, result) ==
  /\ pc[c] = "wait"
  /\ Goto(c, "decide")
  /\ outcome' = [outcome EXCEPT ![c] = result]
  /\ \E done \in (IF result = "response" THEN {1} ELSE {0, 1}) :
       applied' = [applied EXCEPT ![c] = @ + done]
  /\ UNCHANGED <<client, operation, opt, attempt, last_error, answer,
                 sends, tried, calls>>

\* Mutant of NextIteration: one attempt more than the options allow.
NextIterationInclusive(c) ==
  /\ attempt' = [attempt EXCEPT ![c] = @ + 1]
  /\ IF attempt[c] < Attempts(opt[c])
       THEN Goto(c, "send") /\ UNCHANGED answer
       ELSE Return(c, last_error'[c])

\* The head of the loop: another iteration, or the return after it.
NextIteration(c) ==
  /\ attempt' = [attempt EXCEPT ![c] = @ + 1]
  /\ IF attempt[c] + 1 < Attempts(opt[c])
       THEN Goto(c, "send") /\ UNCHANGED answer
       ELSE Return(c, last_error'[c])

DecideError(c) ==
  /\ pc[c] = "decide"
  /\ outcome[c] \in TransportError
  /\ last_error' = [last_error EXCEPT ![c] = outcome[c]]
  /\ IF ~opt[c].allow_failover \/ outcome[c] = "fatal"
       THEN Return(c, outcome[c]) /\ UNCHANGED attempt
       ELSE NextIteration(c)
  /\ UNCHANGED <<client, operation, opt, outcome, sends, applied, tried, calls>>

\* Mutant of MayRetryStatus: the last attempt is retried too.
MayRetryStatusUnbounded(c) == outcome[c] = "busy" /\ opt[c].allow_failover

MayRetryStatus(c) ==
  /\ outcome[c] = "busy"
  /\ opt[c].allow_failover
  /\ attempt[c] + 1 < Attempts(opt[c])

DecideBusy(c) ==
  /\ pc[c] = "decide"
  /\ MayRetryStatus(c)
  /\ last_error' = [last_error EXCEPT ![c] = StatusError]
  /\ NextIteration(c)
  /\ UNCHANGED <<client, operation, opt, outcome, sends, applied, tried, calls>>

DecideResponse(c) ==
  /\ pc[c] = "decide"
  /\ outcome[c] \in Response
  /\ ~MayRetryStatus(c)
  /\ Return(c, outcome[c])
  /\ UNCHANGED <<client, operation, opt, attempt, outcome, last_error,
                 sends, applied, tried, calls>>

Step(c) ==
  \/ Refuse(c)
  \/ Enter(c)
  \/ SignFails(c)
  \/ Send(c)
  \/ \E result \in Outcome : Answered(c, result)
  \/ DecideError(c)
  \/ DecideBusy(c)
  \/ DecideResponse(c)

Next ==
  \E c \in Caller :
    \/ Step(c)
    \/ \E op \in Operation, o \in Option : Begin(c, op, o)

Spec == Init /\ [][Next]_vars /\ \A c \in Caller : WF_vars(Step(c))

-----------------------------------------------------------------------------
\* The type invariant of the loop.
TypeOK ==
  /\ client \in Client
  /\ pc \in [Caller -> {"idle", "begin", "send", "wait", "decide", "done"}]
  /\ operation \in [Caller -> Operation]
  /\ opt \in [Caller -> LoopOption]
  /\ attempt \in [Caller -> Nat]
  /\ \A c \in Caller : attempt[c] <= Attempts(opt[c])
  /\ outcome \in [Caller -> Outcome \cup {None}]
  /\ last_error \in [Caller -> TransportError \cup {InitialError, StatusError}]
  /\ answer \in [Caller -> Outcome \cup LocalError \cup {InitialError, StatusError, None}]
  /\ sends \in [Caller -> Nat]
  /\ applied \in [Caller -> Nat]
  /\ tried \in [Caller -> SUBSET (1..Len(client.endpoints))]
  /\ calls \in [Caller -> 0..MaxCalls]

\* A call that gives up on a retryable outcome although failover was allowed,
\* and had at least as many attempts as there are endpoints, has tried each
\* endpoint of the list.
RotationCovers ==
  \A c \in Caller :
    /\ pc[c] = "done"
    /\ answer[c] \in Retryable
    /\ opt[c].allow_failover
    /\ Attempts(opt[c]) >= Len(client.endpoints)
    => tried[c] = 1..Len(client.endpoints)

\* RELEASE-NOTES.md on CreateKey: a time-out or a 5xx answer cannot make the
\* client create a second key for one call.
CreateKeyOnce ==
  \A c \in Caller : operation[c] = "create_key" => applied[c] <= 1

\* The loop keeps the contract of CallContract in which allow_failover alone
\* makes a call replay-safe.
Phase(label) ==
  CASE label = "idle" -> "idle"
    [] label \in {"begin", "send", "decide"} -> "open"
    [] label = "wait" -> "trying"
    [] label = "done" -> "closed"

Contract == INSTANCE CallContract WITH
  Option <- LoopOption,
  Budget <- [o \in LoopOption |-> Attempts(o)],
  ReplaySafe <- {o \in LoopOption : o.allow_failover},
  Final <- Outcome \ Retryable,
  Nothing <- None,
  phase <- [c \in Caller |-> Phase(pc[c])],
  option <- opt,
  heard <- outcome

\* Sends, answer and the end of every call are as the contract says.
KeepsContract == Contract!Spec
=============================================================================

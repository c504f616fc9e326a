---------------------------- MODULE HyperSnapClient ----------------------------
(***************************************************************************)
(* The stand-alone HyperSnap client (hypersnap.cpp): get, which every      *)
(* named read goes through, and post, both loops over one                  *)
(* net::endpoint_pool that concurrent callers share.                       *)
(*                                                                         *)
(* The loops are those of Failover without the signing, but they do not    *)
(* treat the call_options alike: get never reads idempotent, and neither   *)
(* records a retryable status in last_error.                               *)
(***************************************************************************)
EXTENDS RoutePool

CONSTANTS
  Caller,      (* threads sharing the client                                *)
  Request,     (* the requests they make, see Requests                      *)
  Transport,   (* whether the client has a transport: a set of booleans     *)
  MaxCalls,    (* bound: calls made by one caller                           *)
  None         (* no endpoint, no outcome, no error                         *)

\* A verb and the call_options that the loops read.
Requests == [verb: {"get", "post"}, max_attempts: Nat,
             allow_failover: BOOLEAN, idempotent: BOOLEAN]

ASSUME RequestAssumption == Request \subseteq Requests /\ Request # {}
ASSUME TransportAssumption == Transport \subseteq BOOLEAN
ASSUME MaxCallsAssumption == MaxCalls \in Nat

\* The client's pool is the variable entries of RoutePool.
VARIABLES
  transport,   (* transport is set, never changed                           *)
  pc,          (* where a caller is in the loop                             *)
  req,         (* its request                                               *)
  attempt,     (* attempt                                                   *)
  route,       (* *selected                                                 *)
  outcome,     (* what the transport answered to the latest send            *)
  last_error,  (* last_error                                                *)
  answer,      (* what the call returned                                    *)
  sends,       (* history: requests of this call given to the transport     *)
  applied,     (* history: how many of them the service carried out         *)
  calls,       (* calls made so far                                         *)
  faults       (* history: endpoints that ever failed a request             *)

thread == <<pc, req, attempt, route, outcome, last_error, answer>>
history == <<sends, applied, calls, faults>>
vars == <<entries, transport, thread, history>>

-----------------------------------------------------------------------------
\* Outcomes of send_now, as in Failover.
Response == {"response", "busy"}
TransportError == {"lost", "fatal"}
Outcome == Response \cup TransportError
Retryable == {"busy", "lost"}

\* Errors 500 and 501, and error 10 of the pool.
LocalError == {"no_transport", "empty_pool"}

\* Errors 502 and 503: last_error before any attempt failed.
InitialError == "request_failed"

Attempts(r) == IF r.max_attempts > 1 THEN r.max_attempts ELSE 1

\* Mutant of MayReplay: post forgets the idempotent option as well.
MayReplayAnyVerb(r) == r.allow_failover

\* The options under which a request may be sent again.
MayReplay(r) == r.allow_failover /\ (r.verb = "post" => r.idempotent)

Goto(c, label) == pc' = [pc EXCEPT ![c] = label]

Return(c, value) ==
  /\ Goto(c, "done")
  /\ answer' = [answer EXCEPT ![c] = value]

-----------------------------------------------------------------------------
Init ==
  /\ PoolInit
  /\ transport \in Transport
  /\ pc = [c \in Caller |-> "idle"]
  /\ req = [c \in Caller |-> CHOOSE r \in Request : TRUE]
  /\ attempt = [c \in Caller |-> 0]
  /\ route = [c \in Caller |-> None]
  /\ outcome = [c \in Caller |-> None]
  /\ last_error = [c \in Caller |-> InitialError]
  /\ answer = [c \in Caller |-> None]
  /\ sends = [c \in Caller |-> 0]
  /\ applied = [c \in Caller |-> 0]
  /\ calls = [c \in Caller |-> 0]
  /\ faults = {}

Begin(c, r) ==
  /\ pc[c] \in {"idle", "done"}
  /\ calls[c] < MaxCalls
  /\ calls' = [calls EXCEPT ![c] = @ + 1]
  /\ req' = [req EXCEPT ![c] = r]
  /\ attempt' = [attempt EXCEPT ![c] = 0]
  /\ route' = [route EXCEPT ![c] = None]
  /\ outcome' = [outcome EXCEPT ![c] = None]
  /\ last_error' = [last_error EXCEPT ![c] = InitialError]
  /\ answer' = [answer EXCEPT ![c] = None]
  /\ sends' = [sends EXCEPT ![c] = 0]
  /\ applied' = [applied EXCEPT ![c] = 0]
  /\ Goto(c, "begin")
  /\ UNCHANGED <<entries, transport, faults>>

NoTransport(c) ==
  /\ pc[c] = "begin"
  /\ ~transport
  /\ Return(c, "no_transport")
  /\ UNCHANGED <<entries, transport, req, attempt, route, outcome, last_error, history>>

Enter(c) ==
  /\ pc[c] = "begin"
  /\ transport
  /\ Goto(c, "select")
  /\ UNCHANGED <<entries, transport, req, attempt, route, outcome, last_error,
                 answer, history>>

\* endpoints.select() finds no entry at all.
SelectNothing(c) ==
  /\ pc[c] = "select"
  /\ Slots = {}
  /\ Return(c, "empty_pool")
  /\ UNCHANGED <<entries, transport, req, attempt, route, outcome, last_error, history>>

Select(c) ==
  /\ pc[c] = "select"
  /\ \E i \in Slots :
       /\ Selectable(i)
       /\ route' = [route EXCEPT ![c] = entries[i].value]
  /\ Goto(c, "send")
  /\ UNCHANGED <<entries, transport, req, attempt, outcome, last_error, answer, history>>

Send(c) ==
  /\ pc[c] = "send"
  /\ Goto(c, "wait")
  /\ sends' = [sends EXCEPT ![c] = @ + 1]
  /\ outcome' = [outcome EXCEPT ![c] = None]
  /\ UNCHANGED <<entries, transport, req, attempt, route, last_error, answer,
                 applied, calls, faults>>

\* send_now returns; the service may have carried out a request whose answer
\* is a retryable status or was lost.
Answered(c, result) ==
  /\ pc[c] = "wait"
  /\ Goto(c, "report")
  /\ outcome' = [outcome EXCEPT ![c] = result]
  /\ \E done \in (IF result = "response" THEN {1} ELSE {0, 1}) :
       applied' = [applied EXCEPT ![c] = @ + done]
  /\ faults' = IF result = "response" THEN faults ELSE faults \cup {route[c]}
  /\ UNCHANGED <<entries, transport, req, attempt, route, last_error, answer,
                 sends, calls>>

\* Mutant of NextIteration: one attempt more than the options allow.
NextIterationInclusive(c) ==
  /\ attempt' = [attempt EXCEPT ![c] = @ + 1]
  /\ IF attempt[c] < Attempts(req[c])
       THEN Goto(c, "select") /\ UNCHANGED answer
       ELSE Return(c, last_error'[c])

\* The head of the loop: another iteration, or the return after it.
NextIteration(c) ==
  /\ attempt' = [attempt EXCEPT ![c] = @ + 1]
  /\ IF attempt[c] + 1 < Attempts(req[c])
       THEN Goto(c, "select") /\ UNCHANGED answer
       ELSE Return(c, last_error'[c])

ReportError(c) ==
  /\ pc[c] = "report"
  /\ outcome[c] \in TransportError
  /\ last_error' = [last_error EXCEPT ![c] = outcome[c]]
  /\ ReportFailure(route[c])
  /\ IF outcome[c] = "fatal" \/ ~MayReplay(req[c])
       THEN Return(c, outcome[c]) /\ UNCHANGED attempt
       ELSE NextIteration(c)
  /\ UNCHANGED <<transport, req, route, outcome, history>>

\* Mutant of MayRetryStatus: the last attempt is not told from the others.
MayRetryStatusOnLast(c) ==
  /\ outcome[c] = "busy"
  /\ MayReplay(req[c])

\* A retryable status that another attempt is still allowed for.
MayRetryStatus(c) ==
  /\ outcome[c] = "busy"
  /\ MayReplay(req[c])
  /\ attempt[c] + 1 < Attempts(req[c])

\* Mutant of ReportBusy: the failure is not reported to the pool.
ReportBusyUnbooked(c) ==
  /\ pc[c] = "report"
  /\ MayRetryStatus(c)
  /\ NextIteration(c)
  /\ UNCHANGED <<entries, transport, req, route, outcome, last_error, history>>

\* last_error keeps its value: another attempt follows for certain.
ReportBusy(c) ==
  /\ pc[c] = "report"
  /\ MayRetryStatus(c)
  /\ ReportFailure(route[c])
  /\ UNCHANGED last_error
  /\ NextIteration(c)
  /\ UNCHANGED <<transport, req, route, outcome, history>>

ReportResponse(c) ==
  /\ pc[c] = "report"
  /\ outcome[c] \in Response
  /\ ~MayRetryStatus(c)
  /\ \E elapsed \in Samples : ReportSuccess(route[c], elapsed)
  /\ Return(c, outcome[c])
  /\ UNCHANGED <<transport, req, attempt, route, outcome, last_error, history>>

Tick == PoolTick /\ UNCHANGED <<transport, thread, history>>

Step(c) ==
  \/ NoTransport(c)
  \/ Enter(c)
  \/ SelectNothing(c)
  \/ Select(c)
  \/ Send(c)
  \/ \E result \in Outcome : Answered(c, result)
  \/ ReportError(c)
  \/ ReportBusy(c)
  \/ ReportResponse(c)

Next ==
  \/ \E c \in Caller : Step(c) \/ \E r \in Request : Begin(c, r)
  \/ Tick

Spec == Init /\ [][Next]_vars /\ \A c \in Caller : WF_vars(Step(c))

-----------------------------------------------------------------------------
\* The type invariant of the loops and the pool: an attempt is one that the
\* options allow.
TypeOK ==
  /\ PoolTypeOK
  /\ transport \in Transport
  /\ pc \in [Caller -> {"idle", "begin", "select", "send", "wait", "report", "done"}]
  /\ req \in [Caller -> Request]
  /\ attempt \in [Caller -> Nat]
  /\ \A c \in Caller : pc[c] # "done" => attempt[c] < Attempts(req[c])
  /\ route \in [Caller -> Endpoint \cup {None}]
  /\ outcome \in [Caller -> Outcome \cup {None}]
  /\ last_error \in [Caller -> TransportError \cup {InitialError}]
  /\ answer \in [Caller -> Outcome \cup LocalError \cup {InitialError, None}]
  /\ sends \in [Caller -> Nat]
  /\ applied \in [Caller -> Nat]
  /\ calls \in [Caller -> 0..MaxCalls]
  /\ faults \subseteq Endpoint \cup {None}

\* A post that is not idempotent is carried out at most once, although an
\* attempt whose answer was lost may already have been carried out.
PostAppliedOnce ==
  \A c \in Caller :
    req[c].verb = "post" /\ ~req[c].idempotent => applied[c] <= 1

\* Failures stay with the host they happened on: an entry is held responsible
\* only if an endpoint its reports are matched with has failed a request.
QuarantineDeserved ==
  \A i \in Slots : entries[i].failures > 0 =>
    \E e \in faults : e \in Endpoint /\ Key[e] = Key[entries[i].value]

\* README.md and net.cppm promise failover and a quarantine: when a loop goes
\* round, the endpoint it has just failed on is not the one the pool would
\* select at that moment, as long as any is available.
MovesOn ==
  [][\A c \in Caller :
       pc[c] = "report" /\ pc'[c] = "select" /\ (Available)' # {} =>
         \A i \in DOMAIN entries' :
           Selectable(i)' => entries'[i].value # route[c]]_vars

\* Every call keeps the contract of CallContract, in which reads may always be
\* repeated and posts only if they are idempotent.
Phase(label) ==
  CASE label = "idle" -> "idle"
    [] label \in {"begin", "select", "send", "report"} -> "open"
    [] label = "wait" -> "trying"
    [] label = "done" -> "closed"

Contract == INSTANCE CallContract WITH
  Option <- Request,
  Budget <- [r \in Request |-> Attempts(r)],
  ReplaySafe <- {r \in Request : MayReplay(r)},
  Final <- Outcome \ Retryable,
  Nothing <- None,
  phase <- [c \in Caller |-> Phase(pc[c])],
  option <- req,
  heard <- outcome

\* Sends, answer and the end of every call are as the contract says, although
\* a retryable status leaves last_error as it was.
KeepsContract == Contract!Spec
=============================================================================

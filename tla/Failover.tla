------------------------------- MODULE Failover -------------------------------
(***************************************************************************)
(* send_with_failover of the facade (sdk_facade.cpp): the loop every       *)
(* HyperSnap, QStorage, QKMS and native call of an sdk goes through, run   *)
(* by several threads over the one route_pool they share.                  *)
(*                                                                         *)
(* A pool operation is atomic (it holds the pool's mutex); between two of  *)
(* them any other thread may run, so an iteration of the loop is four      *)
(* steps: select and sign; send; the transport answers; report and decide. *)
(***************************************************************************)
EXTENDS RoutePool

CONSTANTS
  Caller,      (* threads calling into the sdk                              *)
  Option,      (* the call_options they use                                 *)
  Setup,       (* how the sdk may be configured, see below                  *)
  Timeout,     (* the transport's timeout, in seconds                       *)
  MaxCalls,    (* bound: calls made by one caller                           *)
  None         (* no endpoint, no outcome, no error                         *)

\* The three call_options the loop reads.  (timeout is the constant Timeout:
\* the loop hands it to the transport and never looks at it.)
Options == [max_attempts: Nat, allow_failover: BOOLEAN, idempotent: BOOLEAN]

\* has_transport: state.http is set.  credentials: "unused" for HyperSnap and
\* native calls, which are not signed; "missing", "refused" (the signer returns
\* an error for them) or "valid" for QStorage and QKMS.
Setups == [has_transport: BOOLEAN,
           credentials: {"unused", "missing", "refused", "valid"}]

ASSUME OptionAssumption == Option \subseteq Options /\ Option # {}
ASSUME SetupAssumption == Setup \subseteq Setups
ASSUME TimeoutAssumption == Timeout \in Nat
ASSUME MaxCallsAssumption == MaxCalls \in Nat

\* The shared pool is the variable entries of RoutePool.
VARIABLES
  setup,       (* the sdk_state's transport and credentials, never changed  *)
  pc,          (* where a caller is in the loop                             *)
  opt,         (* options of its call                                       *)
  attempt,     (* attempt                                                   *)
  route,       (* *selected                                                 *)
  outcome,     (* what the transport answered to the latest send            *)
  last_error,  (* last_error                                                *)
  answer,      (* what the call returned                                    *)
  sends,       (* history: requests of this call given to the transport     *)
  applied,     (* history: how many of them the service carried out         *)
  calls,       (* calls made so far                                         *)
  waiting,     (* seconds the current send has been with the transport      *)
  faults,      (* history: endpoints that ever failed a request             *)
  waited       (* seconds the call has spent in the transport altogether    *)

thread == <<pc, opt, attempt, route, outcome, last_error, answer>>
history == <<sends, applied, calls, faults, waiting, waited>>
vars == <<entries, setup, thread, history>>

-----------------------------------------------------------------------------
\* Outcomes of send_now: a response whose status is not retryable, one whose
\* status is (408, 425, 429, 5xx), a transport error flagged retryable (a time-
\* out, a broken connection) and one that is not.
Response == {"response", "busy"}
TransportError == {"lost", "fatal"}
Outcome == Response \cup TransportError

\* The outcomes after which the loop considers another attempt.
Retryable == {"busy", "lost"}

\* Errors 701, 700 (864 from native_api::call, which looks at the pool first),
\* 703 and the signer's, all returned before anything is sent.
LocalError == {"no_transport", "empty_pool", "no_credentials", "unsigned"}

\* last_error before any attempt failed (code 702), and for a retryable status.
InitialError == "request_failed"
StatusError == "busy_error"

Attempts(o) == IF o.max_attempts > 1 THEN o.max_attempts ELSE 1

MayReplay(o) == o.allow_failover /\ o.idempotent

Goto(c, label) == pc' = [pc EXCEPT ![c] = label]

Return(c, value) ==
  /\ Goto(c, "done")
  /\ answer' = [answer EXCEPT ![c] = value]

-----------------------------------------------------------------------------
Init ==
  /\ PoolInit
  /\ setup \in Setup
  /\ pc = [c \in Caller |-> "idle"]
  /\ opt = [c \in Caller |-> CHOOSE o \in Option : TRUE]
  /\ attempt = [c \in Caller |-> 0]
  /\ route = [c \in Caller |-> None]
  /\ outcome = [c \in Caller |-> None]
  /\ last_error = [c \in Caller |-> InitialError]
  /\ answer = [c \in Caller |-> None]
  /\ sends = [c \in Caller |-> 0]
  /\ applied = [c \in Caller |-> 0]
  /\ calls = [c \in Caller |-> 0]
  /\ faults = {}
  /\ waiting = [c \in Caller |-> 0]
  /\ waited = [c \in Caller |-> 0]

\* Entry of send_with_failover, up to the head of the loop.
Begin(c, o) ==
  /\ pc[c] \in {"idle", "done"}
  /\ calls[c] < MaxCalls
  /\ calls' = [calls EXCEPT ![c] = @ + 1]
  /\ opt' = [opt EXCEPT ![c] = o]
  /\ attempt' = [attempt EXCEPT ![c] = 0]
  /\ route' = [route EXCEPT ![c] = None]
  /\ outcome' = [outcome EXCEPT ![c] = None]
  /\ last_error' = [last_error EXCEPT ![c] = InitialError]
  /\ answer' = [answer EXCEPT ![c] = None]
  /\ sends' = [sends EXCEPT ![c] = 0]
  /\ applied' = [applied EXCEPT ![c] = 0]
  /\ waited' = [waited EXCEPT ![c] = 0]
  /\ Goto(c, "begin")
  /\ UNCHANGED <<entries, setup, faults, waiting>>

NoTransport(c) ==
  /\ pc[c] = "begin"
  /\ ~setup.has_transport
  /\ Return(c, "no_transport")
  /\ UNCHANGED <<entries, setup, opt, attempt, route, outcome, last_error, history>>

Enter(c) ==
  /\ pc[c] = "begin"
  /\ setup.has_transport
  /\ Goto(c, "select")
  /\ UNCHANGED <<entries, setup, opt, attempt, route, outcome, last_error,
                 answer, history>>

\* pool.select() finds no entry at all.
SelectNothing(c) ==
  /\ pc[c] = "select"
  /\ Slots = {}
  /\ Return(c, "empty_pool")
  /\ UNCHANGED <<entries, setup, opt, attempt, route, outcome, last_error, history>>

\* pool.select(), then the credentials check and signer.sign().
Select(c) ==
  /\ pc[c] = "select"
  /\ \E i \in Slots :
       /\ Selectable(i)
       /\ route' = [route EXCEPT ![c] = entries[i].value]
  /\ \/ setup.credentials = "missing" /\ Return(c, "no_credentials")
     \/ setup.credentials = "refused" /\ Return(c, "unsigned")
     \/ /\ setup.credentials \in {"unused", "valid"}
        /\ Goto(c, "send")
        /\ UNCHANGED answer
  /\ UNCHANGED <<entries, setup, opt, attempt, outcome, last_error, history>>

\* send_now is entered: the request goes out.
Send(c) ==
  /\ pc[c] = "send"
  /\ Goto(c, "wait")
  /\ sends' = [sends EXCEPT ![c] = @ + 1]
  /\ outcome' = [outcome EXCEPT ![c] = None]
  /\ waiting' = [waiting EXCEPT ![c] = 0]
  /\ UNCHANGED <<entries, setup, opt, attempt, route, last_error, answer,
                 applied, calls, faults, waited>>

\* send_now returns.  The service has carried the request out if it answered
\* normally; after a retryable status or an error it may have done so or not.
Answered(c, result) ==
  /\ pc[c] = "wait"
  /\ Goto(c, "report")
  /\ outcome' = [outcome EXCEPT ![c] = result]
  /\ \E done \in (IF result = "response" THEN {1} ELSE {0, 1}) :
       applied' = [applied EXCEPT ![c] = @ + done]
  /\ faults' = IF result = "response" THEN faults ELSE faults \cup {route[c]}
  /\ waited' = [waited EXCEPT ![c] = @ + waiting[c]]
  /\ waiting' = [waiting EXCEPT ![c] = 0]
  /\ UNCHANGED <<entries, setup, opt, attempt, route, last_error, answer,
                 sends, calls>>

\* Mutant of NextIteration: attempt <= attempts.
NextIterationOneMore(c) ==
  /\ attempt' = [attempt EXCEPT ![c] = @ + 1]
  /\ IF attempt[c] + 1 <= Attempts(opt[c])
       THEN Goto(c, "select") /\ UNCHANGED answer
       ELSE Return(c, last_error'[c])

\* The head of the loop: another iteration, or the return after it.
NextIteration(c) ==
  /\ attempt' = [attempt EXCEPT ![c] = @ + 1]
  /\ IF attempt[c] + 1 < Attempts(opt[c])
       THEN Goto(c, "select") /\ UNCHANGED answer
       ELSE Return(c, last_error'[c])

\* Mutant of ReportError: last_error keeps its previous value.
ReportErrorStale(c) ==
  /\ pc[c] = "report"
  /\ outcome[c] \in TransportError
  /\ UNCHANGED last_error
  /\ ReportFailure(route[c])
  /\ IF ~opt[c].allow_failover \/ outcome[c] = "fatal" \/ ~opt[c].idempotent
       THEN Return(c, outcome[c]) /\ UNCHANGED attempt
       ELSE NextIteration(c)
  /\ UNCHANGED <<setup, opt, route, outcome, history>>

\* if (!response): the failure is booked, then the call ends or goes on.
ReportError(c) ==
  /\ pc[c] = "report"
  /\ outcome[c] \in TransportError
  /\ last_error' = [last_error EXCEPT ![c] = outcome[c]]
  /\ ReportFailure(route[c])
  /\ IF ~opt[c].allow_failover \/ outcome[c] = "fatal" \/ ~opt[c].idempotent
       THEN Return(c, outcome[c]) /\ UNCHANGED attempt
       ELSE NextIteration(c)
  /\ UNCHANGED <<setup, opt, route, outcome, history>>

\* Mutant of MayRetryStatus: the idempotent option is not consulted.
MayRetryStatusAnyCall(c) ==
  /\ outcome[c] = "busy"
  /\ opt[c].allow_failover
  /\ attempt[c] + 1 < Attempts(opt[c])

\* A retryable status that another attempt is still allowed for.
MayRetryStatus(c) ==
  /\ outcome[c] = "busy"
  /\ MayReplay(opt[c])
  /\ attempt[c] + 1 < Attempts(opt[c])

\* Mutant of ReportBusy: the failure is not reported to the pool.
ReportBusyUnbooked(c) ==
  /\ pc[c] = "report"
  /\ MayRetryStatus(c)
  /\ last_error' = [last_error EXCEPT ![c] = StatusError]
  /\ NextIteration(c)
  /\ UNCHANGED <<entries, setup, opt, route, outcome, history>>

ReportBusy(c) ==
  /\ pc[c] = "report"
  /\ MayRetryStatus(c)
  /\ last_error' = [last_error EXCEPT ![c] = StatusError]
  /\ ReportFailure(route[c])
  /\ NextIteration(c)
  /\ UNCHANGED <<setup, opt, route, outcome, history>>

\* Any other response: a success of the route, whatever the status.
ReportResponse(c) ==
  /\ pc[c] = "report"
  /\ outcome[c] \in Response
  /\ ~MayRetryStatus(c)
  /\ \E elapsed \in Samples : ReportSuccess(route[c], elapsed)
  /\ Return(c, outcome[c])
  /\ UNCHANGED <<setup, opt, attempt, route, outcome, last_error, history>>

\* Mutant of Tick: the transport has no timeout.
TickNoTimeout ==
  /\ PoolTick
  /\ waiting' = [c \in Caller |-> IF pc[c] = "wait" THEN waiting[c] + 1 ELSE 0]
  /\ UNCHANGED <<setup, thread, sends, applied, calls, faults, waited>>

\* One second passes: quarantines run down, and no request stays with the
\* transport for longer than its timeout.
Tick ==
  /\ \A c \in Caller : pc[c] = "wait" => waiting[c] < Timeout
  /\ PoolTick
  /\ waiting' = [c \in Caller |-> IF pc[c] = "wait" THEN waiting[c] + 1 ELSE 0]
  /\ UNCHANGED <<setup, thread, sends, applied, calls, faults, waited>>

Step(c) ==
  \/ NoTransport(c)
  \/ Enter(c)
  \/ SelectNothing(c)
  \/ Select(c)
  \/ Send(c)
  \/ \E result \in Outcome : Answered(c, result)
  \/ ReportError(c)
  \/ ReportBusy(c)
  \/ ReportResponse(c)

Next ==
  \/ \E c \in Caller : Step(c) \/ \E o \in Option : Begin(c, o)
  \/ Tick

Fairness == \A c \in Caller : WF_vars(Step(c))

Spec == Init /\ [][Next]_vars /\ Fairness

-----------------------------------------------------------------------------
Label == {"idle", "begin", "select", "send", "wait", "report", "done"}

\* The type invariant of the loop and the pool.
TypeOK ==
  /\ PoolTypeOK
  /\ setup \in Setup
  /\ pc \in [Caller -> Label]
  /\ opt \in [Caller -> Option]
  /\ attempt \in [Caller -> Nat]
  /\ route \in [Caller -> Endpoint \cup {None}]
  /\ outcome \in [Caller -> Outcome \cup {None}]
  /\ last_error \in [Caller -> TransportError \cup {InitialError, StatusError}]
  /\ answer \in [Caller -> Outcome \cup LocalError \cup {InitialError, StatusError, None}]
  /\ sends \in [Caller -> Nat]
  /\ applied \in [Caller -> Nat]
  /\ calls \in [Caller -> 0..MaxCalls]
  /\ faults \subseteq Endpoint \cup {None}
  /\ waiting \in [Caller -> 0..Timeout]
  /\ waited \in [Caller -> Nat]

\* A call that is not idempotent, or for which failover is switched off, is
\* carried out at most once, although an attempt whose answer was lost or was
\* a retryable status may already have been carried out.
AppliedOnce ==
  \A c \in Caller : ~MayReplay(opt[c]) => applied[c] <= 1

\* A call spends at most one timeout per allowed attempt in the transport.
TransportTimeBounded ==
  \A c \in Caller : waited[c] + waiting[c] <= Attempts(opt[c]) * Timeout

\* Failures are booked to the route they happened on: an endpoint that never
\* failed a request has a clean record, whatever the other threads report.
QuarantineDeserved ==
  \A i \in Slots : entries[i].failures > 0 => entries[i].value \in faults

\* When the loop goes round again, the route it has just failed on is not the
\* one the pool would select at that moment, as long as any route is available.
MovesOn ==
  [][\A c \in Caller :
       pc[c] = "report" /\ pc'[c] = "select" /\ (Available)' # {} =>
         \A i \in DOMAIN entries' :
           Selectable(i)' => entries'[i].value # route[c]]_vars

\* docs/ARCHITECTURE.md lists what each route tracks, retryable service errors
\* among them: a retryable status leaves its trace in the route it came from.
ServiceErrorsTracked ==
  [][\A c \in Caller :
       pc[c] = "report" /\ pc'[c] # "report" /\ outcome[c] = "busy" =>
         \E i \in Slots : entries'[i].failures > entries[i].failures]_vars

\* core.cppm calls timeout the deadline of a CALL: a call is not with the
\* transport for longer.
CallDeadline == \A c \in Caller : waited[c] <= Timeout

\* Every call keeps the contract of CallContract.
Phase(label) ==
  CASE label = "idle" -> "idle"
    [] label \in {"begin", "select", "send", "report"} -> "open"
    [] label = "wait" -> "trying"
    [] label = "done" -> "closed"

Contract == INSTANCE CallContract WITH
  Budget <- [o \in Option |-> Attempts(o)],
  ReplaySafe <- {o \in Option : MayReplay(o)},
  Final <- Outcome \ Retryable,
  Nothing <- None,
  phase <- [c \in Caller |-> Phase(pc[c])],
  option <- opt,
  heard <- outcome

\* The loop implements the contract: sends, answer and, with the fairness of
\* the threads and of the transport's timeout, the end of every call.
KeepsContract == Contract!Spec
=============================================================================

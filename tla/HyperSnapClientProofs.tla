------------------------ MODULE HyperSnapClientProofs ------------------------
(***************************************************************************)
(* Proofs about get and post of hypersnap::client, for any number of       *)
(* threads, pools of any size, and any requests: types, what is carried    *)
(* out how often, whose failures are recorded, and the safety part of the  *)
(* call contract.                                                          *)
(***************************************************************************)
EXTENDS HyperSnapClient, LatencyHistoryProofs

Label == {"idle", "begin", "select", "send", "wait", "report", "done"}

-----------------------------------------------------------------------------
(***************************************************************************)
(* The inductive invariant.  Past its first attempt a call may be replayed *)
(* and the latest outcome is retryable; the service carried out no more    *)
(* than was sent; a route that is about to be reported as failed did fail; *)
(* and a call that sent anything found an entry to send it to.             *)
(***************************************************************************)
InAttempt(c) ==
  /\ sends[c] = attempt[c] + 1
  /\ attempt[c] < Attempts(req[c])
  /\ attempt[c] > 0 => MayReplay(req[c])
  /\ route[c] \in Endpoint

LoopInv(c) ==
  /\ pc[c] \in {"idle", "begin"} => sends[c] = 0 /\ applied[c] = 0 /\ attempt[c] = 0
  /\ pc[c] \in {"select", "send"} =>
       /\ sends[c] = attempt[c]
       /\ applied[c] <= sends[c]
       /\ attempt[c] < Attempts(req[c])
       /\ attempt[c] > 0 => MayReplay(req[c]) /\ outcome[c] \in Retryable
  /\ pc[c] = "send" => route[c] \in Endpoint
  /\ pc[c] = "wait" => InAttempt(c) /\ applied[c] <= attempt[c]
  /\ pc[c] = "report" =>
       /\ InAttempt(c)
       /\ applied[c] <= sends[c]
       /\ outcome[c] \in Outcome
       /\ outcome[c] # "response" => route[c] \in faults
  /\ pc[c] = "done" =>
       /\ applied[c] <= sends[c]
       /\ sends[c] > 1 => MayReplay(req[c])
  /\ sends[c] > 0 \/ pc[c] = "send" => Slots # {}

LoopInvariant == \A c \in Caller : LoopInv(c)

-----------------------------------------------------------------------------
(***************************************************************************)
(* Type correctness.                                                       *)
(***************************************************************************)
LEMMA AttemptsPositive ==
  ASSUME NEW r \in Request
  PROVE  Attempts(r) \in Nat /\ Attempts(r) >= 1
BY RequestAssumption DEF Requests, Attempts

LEMMA InitTypeOK == Init => TypeOK
<1> SUFFICES ASSUME Init PROVE TypeOK
  OBVIOUS
<1>1. PoolTypeOK
  BY InitType DEF Init
<1>2. (CHOOSE r \in Request : TRUE) \in Request
  BY RequestAssumption
<1>3. ASSUME NEW c \in Caller
      PROVE  attempt[c] < Attempts(req[c])
  <2>1. req[c] \in Request /\ attempt[c] = 0
    BY <1>2 DEF Init
  <2> QED
    BY <2>1, AttemptsPositive
<1> QED
  BY <1>1, <1>2, <1>3, MaxCallsAssumption DEF Init, TypeOK, InitialError

\* The steps of one caller, one by one.
LEMMA StepTypeOK ==
  ASSUME TypeOK, NEW c \in Caller, Step(c)
  PROVE  TypeOK'
<1> USE DEF Goto, Return
<1>1. CASE NoTransport(c)
  BY <1>1 DEF NoTransport, TypeOK, PoolTypeOK, LocalError, history
<1>2. CASE Enter(c)
  BY <1>2 DEF Enter, TypeOK, PoolTypeOK, history
<1>3. CASE SelectNothing(c)
  BY <1>3 DEF SelectNothing, TypeOK, PoolTypeOK, LocalError, history
<1>4. CASE Select(c)
  <2>1. \A i \in Slots : entries[i].value \in Endpoint
    BY EntryTypes DEF TypeOK, Entry
  <2>2. route' \in [Caller -> Endpoint \cup {None}]
    BY <1>4, <2>1 DEF Select, TypeOK
  <2> QED
    BY <1>4, <2>2 DEF Select, TypeOK, PoolTypeOK, history
<1>5. CASE Send(c)
  BY <1>5 DEF Send, TypeOK, PoolTypeOK
<1>6. ASSUME NEW result \in Outcome, Answered(c, result)
      PROVE  TypeOK'
  <2>1. PoolTypeOK' /\ applied' \in [Caller -> Nat]
    BY <1>6 DEF Answered, TypeOK, PoolTypeOK
  <2>2. /\ outcome' \in [Caller -> Outcome \cup {None}]
        /\ faults' \subseteq Endpoint \cup {None}
    BY <1>6 DEF Answered, TypeOK
  <2> QED
    BY <1>6, <2>1, <2>2 DEF Answered, TypeOK
<1>7. CASE ReportError(c) \/ ReportBusy(c)
  <2>1. PoolTypeOK'
    BY <1>7, FailureType DEF ReportError, ReportBusy, TypeOK
  <2>2. last_error' \in [Caller -> TransportError \cup {InitialError}]
    BY <1>7 DEF ReportError, ReportBusy, TypeOK
  <2>3. attempt' \in [Caller -> Nat]
    BY <1>7 DEF ReportError, ReportBusy, NextIteration, TypeOK
  <2>4. PICK label \in Label, a \in Outcome \cup {InitialError} :
          /\ pc' = [pc EXCEPT ![c] = label]
          /\ answer' \in {answer, [answer EXCEPT ![c] = a]}
    BY <1>7, <2>2 DEF ReportError, ReportBusy, NextIteration, TypeOK, Label, Outcome
  <2>5. /\ pc' \in [Caller -> Label]
        /\ answer' \in [Caller -> Outcome \cup LocalError \cup {InitialError, None}]
    BY <2>4 DEF TypeOK, Label
  <2>6. pc'[c] # "done" => attempt'[c] < Attempts(req[c])
    BY <1>7 DEF ReportError, ReportBusy, NextIteration, TypeOK, Label
  <2>7. \A d \in Caller : pc'[d] # "done" => attempt'[d] < Attempts(req'[d])
    BY <1>7, <2>4, <2>6 DEF ReportError, ReportBusy, NextIteration, TypeOK, Label
  <2> QED
    BY <1>7, <2>1, <2>2, <2>3, <2>5, <2>7 DEF ReportError, ReportBusy, TypeOK, history, Label
<1>8. CASE ReportResponse(c)
  <2>1. PoolTypeOK'
    BY <1>8, SuccessType, SamplesAssumption DEF ReportResponse, TypeOK
  <2>2. answer' \in [Caller -> Outcome \cup LocalError \cup {InitialError, None}]
    BY <1>8 DEF ReportResponse, TypeOK, Outcome
  <2> QED
    BY <1>8, <2>1, <2>2 DEF ReportResponse, TypeOK, history
<1> QED
  BY <1>1, <1>2, <1>3, <1>4, <1>5, <1>6, <1>7, <1>8 DEF Step

LEMMA NextTypeOK == TypeOK /\ [Next]_vars => TypeOK'
<1> SUFFICES ASSUME TypeOK, [Next]_vars PROVE TypeOK'
  OBVIOUS
<1>1. ASSUME NEW c \in Caller, NEW r \in Request, Begin(c, r)
      PROVE  TypeOK'
  <2>1. calls' \in [Caller -> 0..MaxCalls]
    BY <1>1, MaxCallsAssumption DEF Begin, TypeOK
  <2>2. \A d \in Caller : pc'[d] # "done" => attempt'[d] < Attempts(req'[d])
    BY <1>1, AttemptsPositive DEF Begin, TypeOK, Goto
  <2> QED
    BY <1>1, <2>1, <2>2 DEF Begin, TypeOK, PoolTypeOK, Goto, InitialError
<1>2. CASE Tick
  <2>1. PoolTypeOK'
    BY <1>2, TickType DEF Tick, TypeOK
  <2> QED
    BY <1>2, <2>1 DEF Tick, TypeOK, thread, history
<1>3. CASE UNCHANGED vars
  BY <1>3 DEF vars, thread, history, TypeOK, PoolTypeOK
<1> QED
  BY <1>1, <1>2, <1>3, StepTypeOK DEF Next

\* The loops and their pool keep their types for any threads and requests.
THEOREM ClientTypeCorrect == Spec => []TypeOK
BY InitTypeOK, NextTypeOK, PTL DEF Spec

\* What TypeOK says of one caller.
LEMMA ThreadTypes ==
  ASSUME TypeOK, NEW c \in Caller
  PROVE  /\ pc[c] \in Label
         /\ req[c] \in Request
         /\ attempt[c] \in Nat /\ sends[c] \in Nat /\ applied[c] \in Nat
         /\ Attempts(req[c]) \in Nat /\ Attempts(req[c]) >= 1
BY AttemptsPositive DEF TypeOK, Label

-----------------------------------------------------------------------------
(***************************************************************************)
(* The loop invariant.                                                     *)
(***************************************************************************)
LEMMA SlotsStay ==
  ASSUME [Next]_vars
  PROVE  Slots' = Slots /\ transport' = transport
BY DEF Slots, Next, Step, NoTransport, Enter, SelectNothing, Select, Send, Answered, ReportError,
       ReportBusy, ReportResponse, Begin, Tick, PoolTick, ReportFailure, ReportSuccess, vars

LEMMA InitLoop == Init => LoopInvariant
BY DEF Init, LoopInvariant, LoopInv

\* The step of a caller, as far as its own invariant is concerned.
LEMMA OwnLoop ==
  ASSUME TypeOK, NEW c \in Caller, LoopInv(c), Step(c), Slots' = Slots
  PROVE  LoopInv(c)'
<1> USE DEF Goto, Return
<1>0. /\ pc[c] \in Label
      /\ attempt[c] \in Nat /\ sends[c] \in Nat /\ applied[c] \in Nat
      /\ Attempts(req[c]) \in Nat /\ Attempts(req[c]) >= 1
  BY ThreadTypes
<1>1. CASE NoTransport(c)
  <2>1. pc[c] = "begin" /\ pc'[c] = "done" /\ UNCHANGED <<req, history>>
    BY <1>1 DEF NoTransport, TypeOK
  <2> QED
    BY <2>1 DEF LoopInv, history
<1>2. CASE Enter(c)
  <2>1. pc[c] = "begin" /\ pc'[c] = "select" /\ UNCHANGED <<req, attempt, outcome, history>>
    BY <1>2 DEF Enter, TypeOK
  <2> QED
    BY <1>0, <2>1 DEF LoopInv, history
<1>3. CASE SelectNothing(c)
  <2>1. pc[c] = "select" /\ pc'[c] = "done" /\ UNCHANGED <<req, attempt, outcome, history>>
    BY <1>3 DEF SelectNothing, TypeOK
  <2> QED
    BY <1>0, <2>1 DEF LoopInv, history
<1>4. CASE Select(c)
  <2>1. /\ pc[c] = "select" /\ pc'[c] = "send"
        /\ UNCHANGED <<req, attempt, outcome, history>>
        /\ Slots # {}
    BY <1>4 DEF Select, TypeOK
  <2>2. \A i \in Slots : entries[i].value \in Endpoint
    BY EntryTypes DEF TypeOK, Entry
  <2>3. route'[c] \in Endpoint
    BY <1>4, <2>2 DEF Select, TypeOK
  <2> QED
    BY <1>0, <2>1, <2>3 DEF LoopInv, history
<1>5. CASE Send(c)
  <2>1. /\ pc[c] = "send" /\ pc'[c] = "wait"
        /\ sends'[c] = sends[c] + 1
        /\ UNCHANGED <<req, attempt, route, applied>>
    BY <1>5 DEF Send, TypeOK
  <2> QED
    BY <1>0, <2>1 DEF LoopInv, InAttempt
<1>6. ASSUME NEW result \in Outcome, Answered(c, result)
      PROVE  LoopInv(c)'
  <2>1. /\ pc[c] = "wait" /\ pc'[c] = "report"
        /\ outcome'[c] = result
        /\ applied'[c] \in {applied[c], applied[c] + 1}
        /\ result # "response" => route[c] \in faults'
        /\ UNCHANGED <<req, attempt, route, sends>>
    BY <1>6 DEF Answered, TypeOK
  <2> QED
    BY <1>0, <2>1 DEF LoopInv, InAttempt
<1>7. CASE ReportError(c) \/ ReportBusy(c)
  <2>1. /\ pc[c] = "report" /\ pc'[c] \in {"select", "done"}
        /\ UNCHANGED <<req, route, outcome, history>>
    BY <1>7 DEF ReportError, ReportBusy, NextIteration, TypeOK
  <2>2. pc'[c] = "select" =>
          /\ attempt'[c] = attempt[c] + 1
          /\ attempt[c] + 1 < Attempts(req[c])
          /\ MayReplay(req[c])
          /\ outcome[c] \in Retryable
    BY <1>7 DEF ReportError, ReportBusy, MayRetryStatus, NextIteration, TypeOK,
                TransportError, Retryable
  <2> QED
    BY <1>0, <2>1, <2>2 DEF LoopInv, InAttempt, history
<1>8. CASE ReportResponse(c)
  <2>1. pc[c] = "report" /\ pc'[c] = "done" /\ UNCHANGED <<req, history>>
    BY <1>8 DEF ReportResponse, TypeOK
  <2> QED
    BY <1>0, <2>1 DEF LoopInv, InAttempt, history
<1> QED
  BY <1>1, <1>2, <1>3, <1>4, <1>5, <1>6, <1>7, <1>8 DEF Step

\* A caller that does not move keeps its invariant: faults only grows.
LEMMA UntouchedLoop ==
  ASSUME NEW d \in Caller, LoopInv(d), faults \subseteq faults', Slots' = Slots,
         pc'[d] = pc[d], req'[d] = req[d], attempt'[d] = attempt[d],
         route'[d] = route[d], outcome'[d] = outcome[d],
         sends'[d] = sends[d], applied'[d] = applied[d]
  PROVE  LoopInv(d)'
BY DEF LoopInv, InAttempt

LEMMA StepIsLocal ==
  ASSUME TypeOK, NEW c \in Caller, Step(c), NEW d \in Caller, d # c
  PROVE  /\ pc'[d] = pc[d] /\ req'[d] = req[d] /\ attempt'[d] = attempt[d]
         /\ route'[d] = route[d] /\ outcome'[d] = outcome[d]
         /\ sends'[d] = sends[d] /\ applied'[d] = applied[d]
         /\ faults \subseteq faults'
<1> USE DEF TypeOK, Goto, Return, NextIteration, history
<1>1. CASE NoTransport(c) \/ Enter(c) \/ SelectNothing(c) \/ Select(c)
  BY <1>1 DEF NoTransport, Enter, SelectNothing, Select
<1>2. CASE Send(c)
  BY <1>2 DEF Send
<1>3. CASE \E result \in Outcome : Answered(c, result)
  BY <1>3 DEF Answered
<1>4. CASE ReportError(c) \/ ReportBusy(c)
  BY <1>4 DEF ReportError, ReportBusy
<1>5. CASE ReportResponse(c)
  BY <1>5 DEF ReportResponse
<1> QED
  BY <1>1, <1>2, <1>3, <1>4, <1>5 DEF Step

LEMMA NextLoop == TypeOK /\ LoopInvariant /\ [Next]_vars => LoopInvariant'
<1> SUFFICES ASSUME TypeOK, LoopInvariant, [Next]_vars, NEW d \in Caller
             PROVE  LoopInv(d)'
  BY DEF LoopInvariant
<1>1. LoopInv(d) /\ Slots' = Slots
  BY SlotsStay DEF LoopInvariant
<1>2. ASSUME NEW c \in Caller, Step(c)
      PROVE  LoopInv(d)'
  BY <1>1, <1>2, OwnLoop, StepIsLocal, UntouchedLoop
<1>3. ASSUME NEW c \in Caller, NEW r \in Request, Begin(c, r)
      PROVE  LoopInv(d)'
  <2>1. CASE d = c
    BY <1>3, <2>1 DEF Begin, Goto, TypeOK, LoopInv
  <2>2. CASE d # c
    BY <1>1, <1>3, <2>2, UntouchedLoop DEF Begin, Goto, TypeOK
  <2> QED
    BY <2>1, <2>2
<1>4. CASE Tick \/ UNCHANGED vars
  BY <1>1, <1>4, UntouchedLoop DEF Tick, vars, thread, history
<1> QED
  BY <1>2, <1>3, <1>4 DEF Next

LEMMA LoopInvariantHolds == Spec => []LoopInvariant
BY InitLoop, NextLoop, ClientTypeCorrect, PTL DEF Spec

\* A post that is not idempotent is carried out at most once, whatever is lost
\* and however many attempts the options allow.
THEOREM PostsAppliedOnce == Spec => []PostAppliedOnce
<1>1. TypeOK /\ LoopInvariant => PostAppliedOnce
  <2> SUFFICES ASSUME TypeOK, LoopInvariant, NEW c \in Caller,
                      req[c].verb = "post", ~req[c].idempotent
               PROVE  applied[c] <= 1
    BY DEF PostAppliedOnce
  <2>1. LoopInv(c) /\ ~MayReplay(req[c])
    BY DEF LoopInvariant, MayReplay
  <2>2. pc[c] \in Label /\ attempt[c] \in Nat /\ sends[c] \in Nat /\ applied[c] \in Nat
    BY ThreadTypes
  <2> QED
    BY <2>1, <2>2 DEF LoopInv, InAttempt, Label
<1> QED
  BY <1>1, ClientTypeCorrect, LoopInvariantHolds, PTL

-----------------------------------------------------------------------------
(***************************************************************************)
(* The records of the pool.                                                *)
(***************************************************************************)

\* What a step does to the pool: nothing, a second, a success, or the failure
\* of an endpoint that failed a request.
LEMMA PoolSteps ==
  ASSUME TypeOK, LoopInvariant, [Next]_vars
  PROVE  /\ faults \subseteq faults'
         /\ \/ UNCHANGED entries
            \/ PoolTick
            \/ \E e \in Endpoint, sample \in Samples : ReportSuccess(e, sample)
            \/ \E e \in Endpoint : e \in faults /\ ReportFailure(e)
<1>1. ASSUME NEW c \in Caller, Step(c)
      PROVE  /\ faults \subseteq faults'
             /\ \/ UNCHANGED entries
                \/ \E e \in Endpoint, sample \in Samples : ReportSuccess(e, sample)
                \/ \E e \in Endpoint : e \in faults /\ ReportFailure(e)
  <2>1. CASE NoTransport(c) \/ Enter(c) \/ SelectNothing(c) \/ Select(c)
    BY <2>1 DEF NoTransport, Enter, SelectNothing, Select, history
  <2>2. CASE Send(c) \/ \E result \in Outcome : Answered(c, result)
    BY <2>2 DEF Send, Answered
  <2>3. CASE ReportError(c) \/ ReportBusy(c) \/ ReportResponse(c)
    <3>1. route[c] \in Endpoint /\ (outcome[c] # "response" => route[c] \in faults)
      BY <2>3 DEF ReportError, ReportBusy, ReportResponse, LoopInvariant, LoopInv, InAttempt
    <3> QED
      BY <2>3, <3>1 DEF ReportError, ReportBusy, ReportResponse, MayRetryStatus,
                       TransportError, history
  <2> QED
    BY <1>1, <2>1, <2>2, <2>3 DEF Step
<1>2. CASE Tick
  BY <1>2 DEF Tick, history
<1>3. CASE \E c \in Caller, r \in Request : Begin(c, r)
  BY <1>3 DEF Begin
<1>4. CASE UNCHANGED vars
  BY <1>4 DEF vars, history
<1> QED
  BY <1>1, <1>2, <1>3, <1>4 DEF Next

\* No step changes the endpoint of an entry.
LEMMA PoolShape ==
  ASSUME TypeOK, LoopInvariant, [Next]_vars
  PROVE  Slots' = Slots /\ \A i \in Slots : entries'[i].value = entries[i].value
<1>1. \A i \in Slots : entries[i] \in Entry
  BY EntryTypes DEF TypeOK
<1>2. CASE PoolTick
  BY <1>1, <1>2 DEF PoolTick, Slots, Entry
<1>3. ASSUME NEW e \in Endpoint, NEW sample \in Samples, ReportSuccess(e, sample)
      PROVE  Slots' = Slots /\ \A i \in Slots : entries'[i].value = entries[i].value
  BY <1>1, <1>3 DEF ReportSuccess, Healed, Slots
<1>4. ASSUME NEW e \in Endpoint, ReportFailure(e)
      PROVE  Slots' = Slots /\ \A i \in Slots : entries'[i].value = entries[i].value
  BY <1>1, <1>4 DEF ReportFailure, Penalised, Slots, Entry
<1> QED
  BY <1>2, <1>3, <1>4, PoolSteps DEF Slots

\* A failure of the host of this entry, as QuarantineDeserved has it.
Blamed(i) == \E e \in faults : e \in Endpoint /\ Key[e] = Key[entries[i].value]

LEMMA NextDeserved ==
  ASSUME TypeOK, LoopInvariant, QuarantineDeserved, [Next]_vars
  PROVE  QuarantineDeserved'
<1>1. \A i \in Slots : entries[i] \in Entry
  BY EntryTypes DEF TypeOK
<1> SUFFICES ASSUME NEW i \in Slots, entries'[i].failures > 0
             PROVE  \E e \in faults' : e \in Endpoint /\ Key[e] = Key[entries'[i].value]
  BY PoolShape DEF QuarantineDeserved
<1>2. SUFFICES Blamed(i)
  BY PoolShape, PoolSteps DEF Blamed
<1>3. entries[i].failures > 0 => Blamed(i)
  BY DEF QuarantineDeserved, Blamed
<1>4. CASE PoolTick
  BY <1>1, <1>3, <1>4 DEF PoolTick, Entry
<1>5. ASSUME NEW e \in Endpoint, NEW sample \in Samples, ReportSuccess(e, sample)
      PROVE  Blamed(i)
  BY <1>3, <1>5 DEF ReportSuccess, Healed
<1>6. ASSUME NEW e \in Endpoint, e \in faults, ReportFailure(e)
      PROVE  Blamed(i)
  <2>1. CASE Matches(i, e)
    BY <1>6, <2>1 DEF Matches, Blamed
  <2>2. CASE ~Matches(i, e)
    BY <1>3, <1>6, <2>2 DEF ReportFailure
  <2> QED
    BY <2>1, <2>2
<1> QED
  BY <1>3, <1>4, <1>5, <1>6, PoolSteps

\* An entry of which no endpoint with its key ever failed has no failures
\* counted against it, whatever the keys are and the other threads do.
THEOREM HostRecordsDeserved == Spec => []QuarantineDeserved
<1>1. Init => QuarantineDeserved
  BY DEF Init, PoolInit, QuarantineDeserved, Slots, Fresh
<1>2. TypeOK /\ LoopInvariant /\ QuarantineDeserved /\ [Next]_vars => QuarantineDeserved'
  BY NextDeserved
<1> QED
  BY <1>1, <1>2, ClientTypeCorrect, LoopInvariantHolds, PTL DEF Spec

-----------------------------------------------------------------------------
(***************************************************************************)
(* Failing over moves on, when no two entries of a pool have one key: for  *)
(* this client, when no two are on one host.                               *)
(***************************************************************************)
DistinctConfigs ==
  \A config \in Configs : \A i, j \in DOMAIN config :
    Key[config[i]] = Key[config[j]] => i = j

DistinctEntries ==
  \A i, j \in Slots : Key[entries[i].value] = Key[entries[j].value] => i = j

LEMMA ReportMovesOn ==
  ASSUME TypeOK, DistinctEntries, NEW e \in Endpoint, ReportFailure(e), Available' # {},
         NEW i \in Slots, Selectable(i)'
  PROVE  entries'[i].value # e
<1>1. entries'[i].quarantine = 0
  BY DEF Selectable, Available
<1>2. entries[i] \in Entry
  BY EntryTypes DEF TypeOK
<1>3. CASE Matches(i, e)
  <2>1. entries[i].failures + 1 \in Nat /\ entries[i].failures + 1 > 0
    BY <1>2 DEF Entry
  <2>2. entries'[i].quarantine = Backoff(entries[i].failures + 1)
    BY <1>2, <1>3 DEF ReportFailure, Penalised, Entry
  <2> QED
    BY <1>1, <2>1, <2>2, BackoffRange
<1>4. CASE ~Matches(i, e)
  <2>1. entries'[i].value = entries[i].value
    BY <1>4 DEF ReportFailure
  <2>2. Slots = 1..Len(entries)
    BY EntryTypes DEF TypeOK
  <2>3. Key[entries[i].value] # Key[e]
    BY <1>4, <2>2 DEF Matches, DistinctEntries
  <2> QED
    BY <2>1, <2>3
<1> QED
  BY <1>3, <1>4

\* Whenever a loop goes round again, the pool would not select the endpoint
\* that has just failed, as long as any is available.
THEOREM ClientMovesOn ==
  ASSUME DistinctConfigs
  PROVE  Spec => MovesOn
<1>1. Init => DistinctEntries
  BY DEF Init, PoolInit, DistinctEntries, DistinctConfigs, Slots, Fresh
<1>2. TypeOK /\ LoopInvariant /\ DistinctEntries /\ [Next]_vars => DistinctEntries'
  <2> SUFFICES ASSUME TypeOK, LoopInvariant, DistinctEntries, [Next]_vars
               PROVE  DistinctEntries'
    OBVIOUS
  <2> QED
    BY PoolShape DEF DistinctEntries
<1>3. TypeOK /\ LoopInvariant /\ DistinctEntries /\ [Next]_vars =>
        [\A c \in Caller :
           pc[c] = "report" /\ pc'[c] = "select" /\ (Available)' # {} =>
             \A i \in DOMAIN entries' :
               Selectable(i)' => entries'[i].value # route[c]]_vars
  <2> SUFFICES ASSUME TypeOK, LoopInvariant, DistinctEntries, [Next]_vars,
                      NEW c \in Caller, pc[c] = "report", pc'[c] = "select",
                      Available' # {}, NEW i \in DOMAIN entries', Selectable(i)'
               PROVE  entries'[i].value # route[c]
    OBVIOUS
  <2>1. i \in Slots
    BY PoolShape DEF Slots
  <2>2. route[c] \in Endpoint
    BY DEF LoopInvariant, LoopInv, InAttempt
  <2>3. \E d \in Caller : Step(d)
    BY DEF Next, Begin, Tick, vars, thread, TypeOK, Goto
  <2>4. Step(c)
    BY <2>3, StepIsLocal
  <2>5. ReportFailure(route[c])
    BY <2>4 DEF Step, NoTransport, Enter, SelectNothing, Select, Send, Answered,
                ReportError, ReportBusy, ReportResponse, Return, Goto, TypeOK
  <2> QED
    BY <2>1, <2>2, <2>5, ReportMovesOn
<1> QED
  BY <1>1, <1>2, <1>3, ClientTypeCorrect, LoopInvariantHolds, PTL DEF Spec, MovesOn

-----------------------------------------------------------------------------
(***************************************************************************)
(* The loops implement the call contract: each of their steps is a step of *)
(* the contract, or none of it.                                            *)
(***************************************************************************)

\* Contract!Spec without the promise that every call returns.
ContractSafety == Contract!Init /\ [][Contract!Next]_(Contract!vars)

LEMMA Phases ==
  /\ Phase("idle") = "idle" /\ Phase("begin") = "open" /\ Phase("select") = "open"
  /\ Phase("send") = "open" /\ Phase("wait") = "trying" /\ Phase("report") = "open"
  /\ Phase("done") = "closed"
BY DEF Phase

LEMMA PhaseMoves ==
  ASSUME TypeOK, NEW c \in Caller, NEW label \in Label, pc' = [pc EXCEPT ![c] = label]
  PROVE  /\ [d \in Caller |-> Phase(pc[d])]' =
              [[d \in Caller |-> Phase(pc[d])] EXCEPT ![c] = Phase(label)]
         /\ Phase(label) = Phase(pc[c]) =>
              [d \in Caller |-> Phase(pc[d])]' = [d \in Caller |-> Phase(pc[d])]
BY DEF TypeOK

\* The contract's licence to send, in terms of the loops.
LEMMA ContractMaySend ==
  ASSUME TypeOK, NEW c \in Caller
  PROVE  Contract!MaySend(c) <=>
           \/ sends[c] = 0
           \/ /\ outcome[c] \in Retryable
              /\ MayReplay(req[c])
              /\ sends[c] < Attempts(req[c])
BY DEF Contract!MaySend, TypeOK

\* The steps that only move the caller inside the loop.
LEMMA QuietSteps ==
  ASSUME TypeOK, NEW c \in Caller,
         \/ Enter(c)
         \/ Select(c)
         \/ (ReportError(c) \/ ReportBusy(c)) /\ pc'[c] = "select"
  PROVE  UNCHANGED Contract!vars
<1> USE DEF Goto, Return, history
<1>1. PICK label \in {"select", "send"} :
        pc' = [pc EXCEPT ![c] = label] /\ pc[c] \in {"begin", "select", "report"}
  BY DEF Enter, Select, ReportError, ReportBusy, NextIteration, TypeOK
<1>2. UNCHANGED <<req, sends, outcome, answer>>
  BY DEF Enter, Select, ReportError, ReportBusy, NextIteration, TypeOK
<1>3. [d \in Caller |-> Phase(pc[d])]' = [d \in Caller |-> Phase(pc[d])]
  BY <1>1, Phases, PhaseMoves DEF Label
<1> QED
  BY <1>2, <1>3 DEF Contract!vars

\* A call that ends before it sent anything: nothing to send with, or no entry
\* to send to.
LEMMA LocalErrorCloses ==
  ASSUME TypeOK, LoopInvariant, NEW c \in Caller, NoTransport(c) \/ SelectNothing(c)
  PROVE  Contract!Close(c)
<1> USE DEF Goto, Return, history
<1>1. /\ pc' = [pc EXCEPT ![c] = "done"]
      /\ pc[c] \in {"begin", "select"}
      /\ \E e \in LocalError : answer' = [answer EXCEPT ![c] = e]
      /\ UNCHANGED <<req, sends, outcome>>
  BY DEF NoTransport, SelectNothing, LocalError
<1>2. sends[c] = 0
  BY DEF NoTransport, SelectNothing, LoopInvariant, LoopInv, TypeOK
<1>3. [d \in Caller |-> Phase(pc[d])]' = [[d \in Caller |-> Phase(pc[d])] EXCEPT ![c] = "closed"]
  BY <1>1, Phases, PhaseMoves DEF Label
<1> QED
  BY <1>1, <1>2, <1>3, Phases DEF Contract!Close

\* A call that ends with what its last send brought.
LEMMA LastOutcomeCloses ==
  ASSUME TypeOK, LoopInvariant, NEW c \in Caller,
         ReportResponse(c) \/ (ReportError(c) /\ pc'[c] = "done")
  PROVE  Contract!Close(c)
<1> USE DEF Goto, Return, history
<1>1. /\ pc' = [pc EXCEPT ![c] = "done"]
      /\ pc[c] = "report"
      /\ UNCHANGED <<req, sends, outcome>>
  BY DEF ReportResponse, ReportError, NextIteration, TypeOK
<1>2. answer' = [answer EXCEPT ![c] = outcome[c]]
  BY DEF ReportResponse, ReportError, NextIteration, TypeOK
<1>3. sends[c] = attempt[c] + 1 /\ attempt[c] \in Nat
  BY <1>1, ThreadTypes DEF LoopInvariant, LoopInv, InAttempt
<1>4. ~Contract!MaySend(c)
  <2>1. CASE ReportResponse(c)
    BY <1>3, <2>1, ContractMaySend DEF ReportResponse, MayRetryStatus, Response, Retryable
  <2>2. CASE ReportError(c)
    <3>1. \/ outcome[c] = "fatal"
          \/ ~MayReplay(req[c])
          \/ ~(attempt[c] + 1 < Attempts(req[c]))
      BY <1>1, <2>2 DEF ReportError, NextIteration, TypeOK
    <3> QED
      BY <1>3, <3>1, ContractMaySend DEF Retryable
  <2> QED
    BY <2>1, <2>2
<1>5. [d \in Caller |-> Phase(pc[d])]' = [[d \in Caller |-> Phase(pc[d])] EXCEPT ![c] = "closed"]
  BY <1>1, Phases, PhaseMoves DEF Label
<1> QED
  BY <1>1, <1>2, <1>3, <1>4, <1>5, Phases DEF Contract!Close

\* The request goes out.
LEMMA SendTries ==
  ASSUME TypeOK, LoopInvariant, NEW c \in Caller, Send(c)
  PROVE  Contract!Try(c)
<1>1. /\ pc[c] = "send" /\ pc' = [pc EXCEPT ![c] = "wait"]
      /\ sends' = [sends EXCEPT ![c] = @ + 1]
      /\ outcome' = [outcome EXCEPT ![c] = None]
      /\ UNCHANGED <<req, answer>>
  BY DEF Send, Goto
<1>2. Contract!MaySend(c)
  <2>1. /\ attempt[c] \in Nat /\ sends[c] = attempt[c] /\ attempt[c] < Attempts(req[c])
        /\ attempt[c] > 0 => MayReplay(req[c]) /\ outcome[c] \in Retryable
    BY <1>1, ThreadTypes DEF LoopInvariant, LoopInv
  <2> QED
    BY <2>1, ContractMaySend
<1>3. [d \in Caller |-> Phase(pc[d])]' = [[d \in Caller |-> Phase(pc[d])] EXCEPT ![c] = "trying"]
  BY <1>1, Phases, PhaseMoves DEF Label
<1> QED
  BY <1>1, <1>2, <1>3, Phases DEF Contract!Try

\* The transport answers.
LEMMA AnsweredHears ==
  ASSUME TypeOK, NEW c \in Caller, NEW result \in Outcome, Answered(c, result)
  PROVE  Contract!Hear(c, result)
<1>1. /\ pc[c] = "wait" /\ pc' = [pc EXCEPT ![c] = "report"]
      /\ outcome' = [outcome EXCEPT ![c] = result]
      /\ UNCHANGED <<req, sends, answer>>
  BY DEF Answered, Goto
<1>2. [d \in Caller |-> Phase(pc[d])]' = [[d \in Caller |-> Phase(pc[d])] EXCEPT ![c] = "open"]
  BY <1>1, Phases, PhaseMoves DEF Label
<1> QED
  BY <1>1, <1>2, Phases DEF Contract!Hear

\* The caller makes a call.
LEMMA BeginOpens ==
  ASSUME TypeOK, NEW c \in Caller, NEW r \in Request, Begin(c, r)
  PROVE  Contract!Open(c, r)
<1>1. /\ pc[c] \in {"idle", "done"} /\ pc' = [pc EXCEPT ![c] = "begin"]
      /\ req' = [req EXCEPT ![c] = r]
      /\ sends' = [sends EXCEPT ![c] = 0]
      /\ outcome' = [outcome EXCEPT ![c] = None]
      /\ answer' = [answer EXCEPT ![c] = None]
  BY DEF Begin, Goto
<1>2. [d \in Caller |-> Phase(pc[d])]' = [[d \in Caller |-> Phase(pc[d])] EXCEPT ![c] = "open"]
  BY <1>1, Phases, PhaseMoves DEF Label
<1> QED
  BY <1>1, <1>2, Phases DEF Contract!Open

LEMMA StepRefines ==
  ASSUME TypeOK, LoopInvariant, NEW c \in Caller, Step(c)
  PROVE  Contract!Next \/ UNCHANGED Contract!vars
<1>1. CASE NoTransport(c) \/ SelectNothing(c)
  BY <1>1, LocalErrorCloses DEF Contract!Next
<1>2. CASE Enter(c) \/ Select(c)
  BY <1>2, QuietSteps
<1>3. CASE Send(c)
  BY <1>3, SendTries DEF Contract!Next
<1>4. ASSUME NEW result \in Outcome, Answered(c, result)
      PROVE  Contract!Next
  <2>1. result \in Retryable \cup (Outcome \ Retryable)
    OBVIOUS
  <2> QED
    BY <1>4, <2>1, AnsweredHears DEF Contract!Next, Contract!Outcome
<1>5. CASE ReportError(c)
  <2>1. pc'[c] \in {"done", "select"}
    BY <1>5 DEF ReportError, NextIteration, Return, Goto, TypeOK
  <2> QED
    BY <1>5, <2>1, LastOutcomeCloses, QuietSteps DEF Contract!Next
<1>6. CASE ReportBusy(c)
  <2>1. pc'[c] = "select"
    BY <1>6 DEF ReportBusy, MayRetryStatus, NextIteration, Goto, TypeOK
  <2> QED
    BY <1>6, <2>1, QuietSteps
<1>7. CASE ReportResponse(c)
  BY <1>7, LastOutcomeCloses DEF Contract!Next
<1> QED
  BY <1>1, <1>2, <1>3, <1>4, <1>5, <1>6, <1>7 DEF Step

LEMMA InitRefines == Init => Contract!Init
<1> SUFFICES ASSUME Init PROVE Contract!Init
  OBVIOUS
<1>1. TypeOK
  BY InitTypeOK
<1>2. [d \in Caller |-> Phase(pc[d])] = [d \in Caller |-> "idle"]
  BY Phases DEF Init
<1> QED
  BY <1>1, <1>2 DEF Init, Contract!Init, TypeOK

LEMMA NextRefines ==
  TypeOK /\ LoopInvariant /\ [Next]_vars => [Contract!Next]_(Contract!vars)
<1> SUFFICES ASSUME TypeOK, LoopInvariant, [Next]_vars
             PROVE  Contract!Next \/ UNCHANGED Contract!vars
  OBVIOUS
<1>1. CASE \E c \in Caller, r \in Request : Begin(c, r)
  BY <1>1, BeginOpens DEF Contract!Next
<1>2. CASE Tick \/ UNCHANGED vars
  BY <1>2 DEF Tick, thread, history, vars, Contract!vars
<1> QED
  BY <1>1, <1>2, StepRefines DEF Next

\* Every behaviour of get and post is one the call contract allows: reads are
\* sent again after a retryable outcome, posts only if they are idempotent, and
\* a call returns its last outcome although last_error may hold an older one.
THEOREM ClientContractImplemented == Spec => ContractSafety
BY InitRefines, NextRefines, ClientTypeCorrect, LoopInvariantHolds, PTL
DEF Spec, ContractSafety
=============================================================================

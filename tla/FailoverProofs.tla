---------------------------- MODULE FailoverProofs ----------------------------
(***************************************************************************)
(* Proofs about send_with_failover run by any number of threads over a     *)
(* pool of any size.                                                       *)
(***************************************************************************)
EXTENDS Failover, LatencyHistoryProofs

-----------------------------------------------------------------------------
(***************************************************************************)
(* The inductive invariant.  A thread between two attempts has sent exactly *)
(* `attempt' requests, one more while a request is out or being reported;   *)
(* only a replayable call gets past attempt 0; and a route that is about to *)
(* be reported as failed really did fail.                                   *)
(***************************************************************************)
BetweenAttempts(c) ==
  /\ sends[c] = attempt[c]
  /\ applied[c] <= sends[c]
  /\ attempt[c] < Attempts(opt[c])
  /\ attempt[c] > 0 => MayReplay(opt[c])
  /\ attempt[c] > 0 => outcome[c] \in Retryable
  /\ waiting[c] = 0
  /\ waited[c] <= attempt[c] * Timeout

InAttempt(c) ==
  /\ sends[c] = attempt[c] + 1
  /\ attempt[c] < Attempts(opt[c])
  /\ attempt[c] > 0 => MayReplay(opt[c])
  /\ route[c] \in Endpoint

LoopInv(c) ==
  /\ pc[c] \in {"idle", "begin"} =>
       sends[c] = 0 /\ applied[c] = 0 /\ attempt[c] = 0 /\ waiting[c] = 0 /\ waited[c] = 0
  /\ pc[c] \in {"select", "send"} => BetweenAttempts(c)
  /\ pc[c] = "send" => route[c] \in Endpoint
  /\ pc[c] = "wait" =>
       /\ InAttempt(c)
       /\ applied[c] <= attempt[c]
       /\ waited[c] <= attempt[c] * Timeout
  /\ pc[c] = "report" =>
       /\ InAttempt(c)
       /\ applied[c] <= sends[c]
       /\ waiting[c] = 0
       /\ waited[c] <= sends[c] * Timeout
       /\ outcome[c] \in Outcome
       /\ outcome[c] # "response" => route[c] \in faults
  /\ pc[c] = "done" =>
       /\ applied[c] <= sends[c]
       /\ sends[c] <= Attempts(opt[c])
       /\ sends[c] > 1 => MayReplay(opt[c])
       /\ waiting[c] = 0
       /\ waited[c] <= sends[c] * Timeout

LoopInvariant == \A c \in Caller : LoopInv(c)

-----------------------------------------------------------------------------
(***************************************************************************)
(* Type correctness.                                                       *)
(***************************************************************************)

-----------------------------------------------------------------------------
(***************************************************************************)
(* Type correctness.                                                       *)
(***************************************************************************)
LEMMA AttemptsPositive ==
  ASSUME NEW o \in Option
  PROVE  Attempts(o) \in Nat /\ Attempts(o) >= 1
BY OptionAssumption DEF Options, Attempts

LEMMA InitTypeOK == Init => TypeOK
<1> SUFFICES ASSUME Init PROVE TypeOK
  OBVIOUS
<1>1. PoolTypeOK
  BY InitType DEF Init
<1>2. (CHOOSE o \in Option : TRUE) \in Option
  BY OptionAssumption
<1> QED
  BY <1>1, <1>2, TimeoutAssumption, MaxCallsAssumption
  DEF Init, TypeOK, Label, InitialError

\* The steps of one thread, one by one.
LEMMA StepTypeOK ==
  ASSUME TypeOK, NEW c \in Caller, Step(c)
  PROVE  TypeOK'
<1> USE DEF Goto, Return, Label
<1>1. CASE NoTransport(c)
  BY <1>1 DEF NoTransport, TypeOK, PoolTypeOK, LocalError, history
<1>2. CASE Enter(c)
  BY <1>2 DEF Enter, TypeOK, PoolTypeOK, history
<1>3. CASE SelectNothing(c)
  BY <1>3 DEF SelectNothing, TypeOK, PoolTypeOK, LocalError, history
<1>4. CASE Select(c)
  <2>1. \A i \in Slots : entries[i].value \in Endpoint
    BY EntryTypes DEF TypeOK, Entry
  <2>2. route' \in [Caller -> Endpoint \cup {None}]
    BY <1>4, <2>1 DEF Select, TypeOK
  <2>3. /\ pc' \in [Caller -> Label]
        /\ answer' \in [Caller -> Outcome \cup LocalError \cup {InitialError, StatusError, None}]
    BY <1>4 DEF Select, TypeOK, LocalError
  <2> QED
    BY <1>4, <2>2, <2>3 DEF Select, TypeOK, PoolTypeOK, history
<1>5. CASE Send(c)
  BY <1>5, TimeoutAssumption, SMTT(20) DEF Send, TypeOK, PoolTypeOK
<1>6. ASSUME NEW result \in Outcome, Answered(c, result)
      PROVE  TypeOK'
  <2>1. pc[c] = "wait" /\ PoolTypeOK'
    BY <1>6 DEF Answered, TypeOK, PoolTypeOK
  <2>2. /\ pc' \in [Caller -> Label]
        /\ outcome' \in [Caller -> Outcome \cup {None}]
    BY <1>6 DEF Answered, TypeOK
  <2>3. applied' \in [Caller -> Nat]
    BY <1>6 DEF Answered, TypeOK
  <2>4. waited' \in [Caller -> Nat] /\ waiting' \in [Caller -> 0..Timeout]
    BY <1>6, TimeoutAssumption DEF Answered, TypeOK
  <2> QED
    BY <1>6, <2>1, <2>2, <2>3, <2>4 DEF Answered, TypeOK
<1>7. CASE ReportError(c)
  <2>1. PoolTypeOK'
    BY <1>7, FailureType DEF ReportError, TypeOK
  <2>2. last_error' \in [Caller -> TransportError \cup {InitialError, StatusError}]
    BY <1>7 DEF ReportError, TypeOK
  <2>3. /\ pc' \in [Caller -> Label]
        /\ answer' \in [Caller -> Outcome \cup LocalError \cup {InitialError, StatusError, None}]
        /\ attempt' \in [Caller -> Nat]
    BY <1>7, <2>2 DEF ReportError, NextIteration, TypeOK, Outcome
  <2> QED
    BY <1>7, <2>1, <2>2, <2>3 DEF ReportError, TypeOK, history
<1>8. CASE ReportBusy(c)
  <2>1. PoolTypeOK'
    BY <1>8, FailureType DEF ReportBusy, TypeOK
  <2>2. last_error' \in [Caller -> TransportError \cup {InitialError, StatusError}]
    BY <1>8 DEF ReportBusy, TypeOK
  <2>3. /\ pc' \in [Caller -> Label]
        /\ answer' \in [Caller -> Outcome \cup LocalError \cup {InitialError, StatusError, None}]
        /\ attempt' \in [Caller -> Nat]
    BY <1>8, <2>2 DEF ReportBusy, NextIteration, TypeOK, Outcome
  <2> QED
    BY <1>8, <2>1, <2>2, <2>3 DEF ReportBusy, TypeOK, history
<1>9. CASE ReportResponse(c)
  <2>1. PoolTypeOK'
    BY <1>9, SuccessType, SamplesAssumption DEF ReportResponse, TypeOK
  <2>2. answer' \in [Caller -> Outcome \cup LocalError \cup {InitialError, StatusError, None}]
    BY <1>9 DEF ReportResponse, TypeOK, Outcome
  <2> QED
    BY <1>9, <2>1, <2>2 DEF ReportResponse, TypeOK, history
<1> QED
  BY <1>1, <1>2, <1>3, <1>4, <1>5, <1>6, <1>7, <1>8, <1>9 DEF Step

LEMMA BeginTypeOK ==
  ASSUME TypeOK, NEW c \in Caller, NEW o \in Option, Begin(c, o)
  PROVE  TypeOK'
<1>1. calls' \in [Caller -> 0..MaxCalls]
  BY MaxCallsAssumption DEF Begin, TypeOK
<1> QED
  BY <1>1 DEF Begin, TypeOK, PoolTypeOK, Goto, Label, InitialError

LEMMA TickTypeOK ==
  ASSUME TypeOK, Tick
  PROVE  TypeOK'
<1>1. PoolTypeOK'
  BY TickType DEF Tick, TypeOK
<1>2. waiting' \in [Caller -> 0..Timeout]
  BY TimeoutAssumption DEF Tick, TypeOK
<1> QED
  BY <1>1, <1>2 DEF Tick, TypeOK, thread

LEMMA NextTypeOK == TypeOK /\ [Next]_vars => TypeOK'
<1> SUFFICES ASSUME TypeOK, [Next]_vars PROVE TypeOK'
  OBVIOUS
<1>1. CASE UNCHANGED vars
  BY <1>1 DEF vars, thread, history, TypeOK, PoolTypeOK
<1> QED
  BY <1>1, StepTypeOK, BeginTypeOK, TickTypeOK DEF Next

\* Every variable of the loop and of the pool keeps its type, for any number
\* of threads, routes, options and attempts.
THEOREM TypeCorrect == Spec => []TypeOK
BY InitTypeOK, NextTypeOK, PTL DEF Spec
-----------------------------------------------------------------------------
(***************************************************************************)
(* The loop invariant.                                                     *)
(***************************************************************************)
LEMMA OneMoreTimeout ==
  ASSUME NEW n \in Nat
  PROVE  (n + 1) * Timeout = n * Timeout + Timeout /\ n * Timeout \in Nat
BY TimeoutAssumption

\* What TypeOK says of one thread.
LEMMA ThreadTypes ==
  ASSUME TypeOK, NEW c \in Caller
  PROVE  /\ pc[c] \in Label
         /\ opt[c] \in Option
         /\ attempt[c] \in Nat /\ sends[c] \in Nat /\ applied[c] \in Nat
         /\ waiting[c] \in 0..Timeout /\ waited[c] \in Nat
BY DEF TypeOK

\* A thread that does not move keeps the invariant: faults only grows.
LEMMA OtherThread ==
  ASSUME NEW d \in Caller, LoopInv(d), faults \subseteq faults',
         pc'[d] = pc[d], opt'[d] = opt[d], attempt'[d] = attempt[d],
         route'[d] = route[d], outcome'[d] = outcome[d],
         sends'[d] = sends[d], applied'[d] = applied[d],
         waiting'[d] = waiting[d], waited'[d] = waited[d]
  PROVE  LoopInv(d)'
BY DEF LoopInv, BetweenAttempts, InAttempt

LEMMA InitLoopInvariant == Init => LoopInvariant
BY DEF Init, LoopInvariant, LoopInv

\* The step of thread c, as far as the invariant of c itself is concerned.
LEMMA OwnStep ==
  ASSUME TypeOK, NEW c \in Caller, LoopInv(c), Step(c)
  PROVE  LoopInv(c)'
<1> USE DEF Goto, Return
<1>0. /\ pc[c] \in Label
      /\ opt[c] \in Option
      /\ attempt[c] \in Nat /\ sends[c] \in Nat /\ applied[c] \in Nat
      /\ waiting[c] \in 0..Timeout /\ waited[c] \in Nat
      /\ Attempts(opt[c]) \in Nat /\ Attempts(opt[c]) >= 1
  BY ThreadTypes, AttemptsPositive
<1>1. CASE NoTransport(c)
  <2>1. pc[c] = "begin" /\ pc'[c] = "done" /\ UNCHANGED <<opt, history>>
    BY <1>1 DEF NoTransport, TypeOK
  <2> QED
    BY <1>0, <2>1, OneMoreTimeout DEF LoopInv, history
<1>2. CASE Enter(c)
  <2>1. pc[c] = "begin" /\ pc'[c] = "select" /\ UNCHANGED <<opt, attempt, outcome, history>>
    BY <1>2 DEF Enter, TypeOK
  <2> QED
    BY <1>0, <2>1, OneMoreTimeout DEF LoopInv, BetweenAttempts, history
<1>3. CASE SelectNothing(c)
  <2>1. pc[c] = "select" /\ pc'[c] = "done" /\ UNCHANGED <<opt, attempt, outcome, history>>
    BY <1>3 DEF SelectNothing, TypeOK
  <2> QED
    BY <1>0, <2>1 DEF LoopInv, BetweenAttempts, history
<1>4. CASE Select(c)
  <2>1. /\ pc[c] = "select" /\ pc'[c] \in {"send", "done"}
        /\ UNCHANGED <<opt, attempt, outcome, history>>
    BY <1>4 DEF Select, TypeOK
  <2>2. \A i \in Slots : entries[i].value \in Endpoint
    BY EntryTypes DEF TypeOK, Entry
  <2>3. route'[c] \in Endpoint
    BY <1>4, <2>2 DEF Select, TypeOK
  <2> QED
    BY <1>0, <2>1, <2>3 DEF LoopInv, BetweenAttempts, history
<1>5. CASE Send(c)
  <2>1. /\ pc[c] = "send" /\ pc'[c] = "wait"
        /\ sends'[c] = sends[c] + 1
        /\ UNCHANGED <<opt, attempt, route, applied, waited>>
    BY <1>5 DEF Send, TypeOK
  <2> QED
    BY <1>0, <2>1 DEF LoopInv, BetweenAttempts, InAttempt
<1>6. ASSUME NEW result \in Outcome, Answered(c, result)
      PROVE  LoopInv(c)'
  <2>1. /\ pc[c] = "wait" /\ pc'[c] = "report"
        /\ outcome'[c] = result
        /\ applied'[c] \in {applied[c], applied[c] + 1}
        /\ waited'[c] = waited[c] + waiting[c]
        /\ waiting'[c] = 0
        /\ result # "response" => route[c] \in faults'
        /\ UNCHANGED <<opt, attempt, route, sends>>
    BY <1>6 DEF Answered, TypeOK
  <2>2. waited'[c] <= sends[c] * Timeout
    BY <1>0, <2>1, OneMoreTimeout, TimeoutAssumption DEF LoopInv, InAttempt
  <2> QED
    BY <1>0, <2>1, <2>2 DEF LoopInv, InAttempt
<1>7. CASE ReportError(c)
  <2>1. /\ pc[c] = "report" /\ pc'[c] \in {"select", "done"}
        /\ UNCHANGED <<opt, route, outcome, history>>
    BY <1>7 DEF ReportError, NextIteration, TypeOK
  <2>2. pc'[c] = "select" =>
          /\ attempt'[c] = attempt[c] + 1
          /\ attempt[c] + 1 < Attempts(opt[c])
          /\ MayReplay(opt[c])
          /\ outcome[c] \in Retryable
    BY <1>7 DEF ReportError, NextIteration, TypeOK, TransportError, MayReplay, Retryable
  <2> QED
    BY <1>0, <2>1, <2>2 DEF LoopInv, BetweenAttempts, InAttempt, history
<1>8. CASE ReportBusy(c)
  <2>1. /\ pc[c] = "report" /\ pc'[c] = "select"
        /\ attempt'[c] = attempt[c] + 1
        /\ attempt[c] + 1 < Attempts(opt[c])
        /\ MayReplay(opt[c])
        /\ outcome[c] \in Retryable
        /\ UNCHANGED <<opt, route, outcome, history>>
    BY <1>8 DEF ReportBusy, MayRetryStatus, NextIteration, TypeOK, Retryable
  <2> QED
    BY <1>0, <2>1 DEF LoopInv, BetweenAttempts, InAttempt, history
<1>9. CASE ReportResponse(c)
  <2>1. pc[c] = "report" /\ pc'[c] = "done" /\ UNCHANGED <<opt, attempt, outcome, history>>
    BY <1>9 DEF ReportResponse, TypeOK
  <2> QED
    BY <1>0, <2>1 DEF LoopInv, InAttempt, history
<1> QED
  BY <1>1, <1>2, <1>3, <1>4, <1>5, <1>6, <1>7, <1>8, <1>9 DEF Step

\* Nothing of another thread changes in a step of thread c.
LEMMA StepIsLocal ==
  ASSUME TypeOK, NEW c \in Caller, Step(c), NEW d \in Caller, d # c
  PROVE  /\ pc'[d] = pc[d] /\ opt'[d] = opt[d] /\ attempt'[d] = attempt[d]
         /\ route'[d] = route[d] /\ outcome'[d] = outcome[d]
         /\ sends'[d] = sends[d] /\ applied'[d] = applied[d]
         /\ waiting'[d] = waiting[d] /\ waited'[d] = waited[d]
         /\ faults \subseteq faults'
<1> USE DEF TypeOK, Goto, Return, NextIteration, history
<1>1. CASE NoTransport(c) \/ Enter(c) \/ SelectNothing(c) \/ Select(c)
  BY <1>1 DEF NoTransport, Enter, SelectNothing, Select
<1>2. CASE Send(c)
  BY <1>2 DEF Send
<1>3. ASSUME NEW result \in Outcome, Answered(c, result)
      PROVE  /\ pc'[d] = pc[d] /\ opt'[d] = opt[d] /\ attempt'[d] = attempt[d]
             /\ route'[d] = route[d] /\ outcome'[d] = outcome[d]
             /\ sends'[d] = sends[d] /\ applied'[d] = applied[d]
             /\ waiting'[d] = waiting[d] /\ waited'[d] = waited[d]
             /\ faults \subseteq faults'
  BY <1>3 DEF Answered
<1>4. CASE ReportError(c)
  BY <1>4 DEF ReportError
<1>5. CASE ReportBusy(c)
  BY <1>5 DEF ReportBusy
<1>6. CASE ReportResponse(c)
  BY <1>6 DEF ReportResponse
<1> QED
  BY <1>1, <1>2, <1>3, <1>4, <1>5, <1>6 DEF Step

LEMMA NextLoopInvariant == TypeOK /\ LoopInvariant /\ [Next]_vars => LoopInvariant'
<1> SUFFICES ASSUME TypeOK, LoopInvariant, [Next]_vars, NEW d \in Caller
             PROVE  LoopInv(d)'
  BY DEF LoopInvariant
<1>0. LoopInv(d)
  BY DEF LoopInvariant
<1>1. ASSUME NEW c \in Caller, Step(c)
      PROVE  LoopInv(d)'
  BY <1>0, <1>1, OwnStep, StepIsLocal, OtherThread
<1>2. ASSUME NEW c \in Caller, NEW o \in Option, Begin(c, o)
      PROVE  LoopInv(d)'
  <2>1. CASE c = d
    <3>1. /\ pc'[d] = "begin" /\ sends'[d] = 0 /\ applied'[d] = 0
          /\ attempt'[d] = 0 /\ waited'[d] = 0 /\ waiting'[d] = waiting[d]
          /\ pc[d] \in {"idle", "done"}
      BY <1>2, <2>1 DEF Begin, TypeOK, Goto
    <3> QED
      BY <1>0, <3>1 DEF LoopInv
  <2>2. CASE c # d
    <3>1. /\ pc'[d] = pc[d] /\ opt'[d] = opt[d] /\ attempt'[d] = attempt[d]
          /\ route'[d] = route[d] /\ outcome'[d] = outcome[d]
          /\ sends'[d] = sends[d] /\ applied'[d] = applied[d]
          /\ waiting'[d] = waiting[d] /\ waited'[d] = waited[d]
          /\ faults' = faults
      BY <1>2, <2>2 DEF Begin, TypeOK, Goto
    <3> QED
      BY <1>0, <3>1, OtherThread
  <2> QED
    BY <2>1, <2>2
<1>3. CASE Tick
  <2>1. /\ UNCHANGED <<pc, opt, attempt, route, outcome, sends, applied, waited, faults>>
        /\ pc[d] # "wait" => waiting'[d] = 0
    BY <1>3 DEF Tick, thread
  <2> QED
    BY <1>0, <2>1 DEF LoopInv, BetweenAttempts, InAttempt
<1>4. CASE UNCHANGED vars
  BY <1>0, <1>4, OtherThread DEF vars, thread, history
<1> QED
  BY <1>1, <1>2, <1>3, <1>4 DEF Next

LEMMA LoopInvariantHolds == Spec => []LoopInvariant
BY InitLoopInvariant, NextLoopInvariant, TypeCorrect, PTL DEF Spec
-----------------------------------------------------------------------------
(***************************************************************************)
(* What follows from the loop invariant.                                   *)
(***************************************************************************)

\* A call that may not be replayed is carried out at most once, however many
\* threads share the pool and whatever the transport answers.
THEOREM AppliedAtMostOnce == Spec => []AppliedOnce
<1>1. TypeOK /\ LoopInvariant => AppliedOnce
  <2> SUFFICES ASSUME TypeOK, LoopInvariant, NEW c \in Caller, ~MayReplay(opt[c])
               PROVE  applied[c] <= 1
    BY DEF AppliedOnce
  <2>1. LoopInv(c)
    BY DEF LoopInvariant
  <2>2. /\ pc[c] \in Label /\ attempt[c] \in Nat
        /\ sends[c] \in Nat /\ applied[c] \in Nat
    BY ThreadTypes
  <2> QED
    BY <2>1, <2>2 DEF LoopInv, BetweenAttempts, InAttempt, Label
<1> QED
  BY <1>1, TypeCorrect, LoopInvariantHolds, PTL

LEMMA FewerTimeouts ==
  ASSUME NEW m \in Nat, NEW n \in Nat, m <= n
  PROVE  m * Timeout <= n * Timeout
BY TimeoutAssumption

\* A call is with the transport for at most one timeout per allowed attempt.
THEOREM TransportTimeIsBounded == Spec => []TransportTimeBounded
<1>1. TypeOK /\ LoopInvariant => TransportTimeBounded
  <2> SUFFICES ASSUME TypeOK, LoopInvariant, NEW c \in Caller
               PROVE  waited[c] + waiting[c] <= Attempts(opt[c]) * Timeout
    BY DEF TransportTimeBounded
  <2> DEFINE n == Attempts(opt[c])
  <2>1. LoopInv(c)
    BY DEF LoopInvariant
  <2>2. /\ pc[c] \in Label /\ attempt[c] \in Nat /\ sends[c] \in Nat
        /\ waiting[c] \in 0..Timeout /\ waited[c] \in Nat
        /\ n \in Nat /\ n >= 1
    BY ThreadTypes, AttemptsPositive
  <2>3. n * Timeout \in Nat
    BY <2>2, OneMoreTimeout
  <2>4. CASE pc[c] \in {"idle", "begin"}
    BY <2>1, <2>2, <2>3, <2>4 DEF LoopInv
  <2>5. CASE pc[c] \in {"select", "send"}
    <3>1. attempt[c] * Timeout <= n * Timeout
      BY <2>1, <2>2, <2>5, FewerTimeouts DEF LoopInv, BetweenAttempts
    <3> QED
      BY <2>1, <2>2, <2>3, <2>5, <3>1, OneMoreTimeout DEF LoopInv, BetweenAttempts
  <2>6. CASE pc[c] = "wait"
    <3>1. (attempt[c] + 1) * Timeout <= n * Timeout
      BY <2>1, <2>2, <2>6, FewerTimeouts DEF LoopInv, InAttempt
    <3>2. waited[c] <= attempt[c] * Timeout
      BY <2>1, <2>6 DEF LoopInv
    <3> QED
      BY <2>2, <2>3, <3>1, <3>2, OneMoreTimeout, TimeoutAssumption
  <2>7. CASE pc[c] \in {"report", "done"}
    <3>1. sends[c] <= n
      BY <2>1, <2>2, <2>7 DEF LoopInv, InAttempt
    <3>2. sends[c] * Timeout <= n * Timeout
      BY <2>2, <3>1, FewerTimeouts
    <3> QED
      BY <2>1, <2>2, <2>3, <2>7, <3>2, OneMoreTimeout DEF LoopInv
  <2> QED
    BY <2>2, <2>4, <2>5, <2>6, <2>7 DEF Label
<1> QED
  BY <1>1, TypeCorrect, LoopInvariantHolds, PTL

-----------------------------------------------------------------------------
(***************************************************************************)
(* The record of a route is its own, when reports match whole endpoints.   *)
(***************************************************************************)

\* What a step does to the pool: nothing, a success of the thread's route, or
\* a failure of a route that really failed.
LEMMA PoolSteps ==
  ASSUME TypeOK, LoopInvariant, [Next]_vars
  PROVE  /\ faults \subseteq faults'
         /\ \/ UNCHANGED entries
            \/ PoolTick
            \/ \E e \in Endpoint, sample \in Samples : ReportSuccess(e, sample)
            \/ \E e \in Endpoint : e \in faults /\ ReportFailure(e)
<1>1. ASSUME NEW c \in Caller, Step(c)
      PROVE  /\ faults \subseteq faults'
             /\ \/ UNCHANGED entries
                \/ \E e \in Endpoint, sample \in Samples : ReportSuccess(e, sample)
                \/ \E e \in Endpoint : e \in faults /\ ReportFailure(e)
  <2>1. CASE NoTransport(c) \/ Enter(c) \/ SelectNothing(c) \/ Select(c)
    BY <2>1 DEF NoTransport, Enter, SelectNothing, Select, history
  <2>2. CASE Send(c) \/ \E result \in Outcome : Answered(c, result)
    BY <2>2 DEF Send, Answered
  <2>3. CASE pc[c] = "report"
    <3>1. /\ route[c] \in Endpoint
          /\ outcome[c] # "response" => route[c] \in faults
      BY <2>3 DEF LoopInvariant, LoopInv, InAttempt
    <3>2. CASE ReportError(c)
      BY <3>1, <3>2 DEF ReportError, TransportError, history
    <3>3. CASE ReportBusy(c)
      BY <3>1, <3>3 DEF ReportBusy, MayRetryStatus, history
    <3>4. CASE ReportResponse(c)
      BY <3>1, <3>4 DEF ReportResponse, history
    <3> QED
      BY <1>1, <2>1, <2>2, <3>2, <3>3, <3>4 DEF Step
  <2> QED
    BY <1>1, <2>1, <2>2, <2>3 DEF Step, ReportError, ReportBusy, ReportResponse
<1>2. CASE Tick
  BY <1>2 DEF Tick
<1>3. CASE \E c \in Caller, o \in Option : Begin(c, o)
  BY <1>3 DEF Begin
<1>4. CASE UNCHANGED vars
  BY <1>4 DEF vars, history
<1> QED
  BY <1>1, <1>2, <1>3, <1>4 DEF Next

LEMMA NextDeserved ==
  ASSUME Key = [e \in Endpoint |-> e],
         TypeOK, LoopInvariant, QuarantineDeserved, [Next]_vars
  PROVE  QuarantineDeserved'
<1>1. \A i \in Slots : entries[i] \in Entry
  BY EntryTypes DEF TypeOK
<1>2. Slots' = Slots
  BY PoolSteps DEF ReportSuccess, ReportFailure, PoolTick, Slots
<1> SUFFICES ASSUME NEW i \in Slots, entries'[i].failures > 0
             PROVE  entries'[i].value \in faults'
  BY <1>2 DEF QuarantineDeserved
<1>3. CASE UNCHANGED entries
  BY <1>3, PoolSteps DEF QuarantineDeserved
<1>4. CASE PoolTick
  BY <1>1, <1>4, PoolSteps DEF PoolTick, QuarantineDeserved, Entry
<1>5. ASSUME NEW e \in Endpoint, NEW sample \in Samples, ReportSuccess(e, sample)
      PROVE  entries'[i].value \in faults'
  <2>1. ~Matches(i, e)
    BY <1>5 DEF ReportSuccess, Healed
  <2> QED
    BY <1>5, <2>1, PoolSteps DEF ReportSuccess, QuarantineDeserved
<1>6. ASSUME NEW e \in Endpoint, e \in faults, ReportFailure(e)
      PROVE  entries'[i].value \in faults'
  <2>1. CASE Matches(i, e)
    <3>1. entries[i].value = e
      BY <1>1, <2>1 DEF Matches, Entry
    <3>2. entries'[i].value = e
      BY <1>1, <1>6, <2>1, <3>1 DEF ReportFailure, Penalised, Entry
    <3> QED
      BY <1>6, <3>2, PoolSteps
  <2>2. CASE ~Matches(i, e)
    BY <1>6, <2>2, PoolSteps DEF ReportFailure, QuarantineDeserved
  <2> QED
    BY <2>1, <2>2
<1> QED
  BY <1>3, <1>4, <1>5, <1>6, PoolSteps

\* An endpoint that never failed a request has no failure counted against it,
\* and so is never quarantined, whatever the other threads and routes do.
THEOREM RecordsAreDeserved ==
  ASSUME Key = [e \in Endpoint |-> e]
  PROVE  Spec => []QuarantineDeserved
<1>1. Init => QuarantineDeserved
  BY DEF Init, PoolInit, QuarantineDeserved, Slots, Fresh
<1>2. TypeOK /\ LoopInvariant /\ QuarantineDeserved /\ [Next]_vars => QuarantineDeserved'
  BY NextDeserved
<1> QED
  BY <1>1, <1>2, TypeCorrect, LoopInvariantHolds, PTL DEF Spec
-----------------------------------------------------------------------------
(***************************************************************************)
(* Failing over moves on, when no two entries of a pool have the same key. *)
(***************************************************************************)
DistinctConfigs ==
  \A config \in Configs : \A i, j \in DOMAIN config :
    Key[config[i]] = Key[config[j]] => i = j

DistinctEntries ==
  \A i, j \in Slots : Key[entries[i].value] = Key[entries[j].value] => i = j

\* No step changes the length of the pool or the endpoint of an entry.
LEMMA PoolShape ==
  ASSUME TypeOK, LoopInvariant, [Next]_vars
  PROVE  /\ Slots' = Slots
         /\ \A i \in Slots : entries'[i].value = entries[i].value
<1>1. \A i \in Slots : entries[i] \in Entry
  BY EntryTypes DEF TypeOK
<1>2. CASE UNCHANGED entries
  BY <1>2 DEF Slots
<1>3. CASE PoolTick
  BY <1>1, <1>3 DEF PoolTick, Slots, Entry
<1>4. ASSUME NEW e \in Endpoint, NEW sample \in Samples, ReportSuccess(e, sample)
      PROVE  /\ Slots' = Slots
             /\ \A i \in Slots : entries'[i].value = entries[i].value
  BY <1>1, <1>4 DEF ReportSuccess, Healed, Slots
<1>5. ASSUME NEW e \in Endpoint, ReportFailure(e)
      PROVE  /\ Slots' = Slots
             /\ \A i \in Slots : entries'[i].value = entries[i].value
  BY <1>1, <1>5 DEF ReportFailure, Penalised, Slots, Entry
<1> QED
  BY <1>2, <1>3, <1>4, <1>5, PoolSteps

LEMMA ReportMovesOn ==
  ASSUME TypeOK, DistinctEntries, NEW c \in Caller, route[c] \in Endpoint,
         ReportFailure(route[c]), Available' # {},
         NEW i \in Slots, Selectable(i)'
  PROVE  entries'[i].value # route[c]
<1>1. entries'[i].quarantine = 0
  BY DEF Selectable, Available
<1>2. entries[i] \in Entry
  BY EntryTypes DEF TypeOK
<1>3. CASE Matches(i, route[c])
  <2>1. entries[i].failures + 1 \in Nat /\ entries[i].failures + 1 > 0
    BY <1>2 DEF Entry
  <2>2. entries'[i].quarantine = Backoff(entries[i].failures + 1)
    BY <1>2, <1>3 DEF ReportFailure, Penalised, Entry
  <2> QED
    BY <1>1, <2>1, <2>2, BackoffRange
<1>4. CASE ~Matches(i, route[c])
  <2>1. entries'[i].value = entries[i].value
    BY <1>4 DEF ReportFailure
  <2>2. Slots = 1..Len(entries)
    BY EntryTypes DEF TypeOK
  <2>3. Key[entries[i].value] # Key[route[c]]
    BY <1>4, <2>2 DEF Matches, DistinctEntries
  <2> QED
    BY <2>1, <2>3
<1> QED
  BY <1>3, <1>4

\* Whenever the loop goes round again, the pool would not select the route that
\* has just failed, as long as any route is available.
THEOREM FailoverMovesOn ==
  ASSUME DistinctConfigs
  PROVE  Spec => MovesOn
<1>1. Init => DistinctEntries
  BY DEF Init, PoolInit, DistinctEntries, DistinctConfigs, Slots, Fresh
<1>2. TypeOK /\ LoopInvariant /\ DistinctEntries /\ [Next]_vars => DistinctEntries'
  <2> SUFFICES ASSUME TypeOK, LoopInvariant, DistinctEntries, [Next]_vars
               PROVE  DistinctEntries'
    OBVIOUS
  <2> QED
    BY PoolShape DEF DistinctEntries
<1>3. TypeOK /\ LoopInvariant /\ DistinctEntries /\ [Next]_vars =>
        [\A c \in Caller :
           pc[c] = "report" /\ pc'[c] = "select" /\ Available' # {} =>
             \A i \in DOMAIN entries' :
               Selectable(i)' => entries'[i].value # route[c]]_vars
  <2> SUFFICES ASSUME TypeOK, LoopInvariant, DistinctEntries, [Next]_vars,
                      NEW c \in Caller, pc[c] = "report", pc'[c] = "select",
                      Available' # {}, NEW i \in DOMAIN entries', Selectable(i)'
               PROVE  entries'[i].value # route[c]
    OBVIOUS
  <2>1. i \in Slots
    BY PoolShape DEF Slots
  <2>2. route[c] \in Endpoint
    BY DEF LoopInvariant, LoopInv, InAttempt
  <2>3. \E d \in Caller : Step(d)
    BY DEF Next, Begin, Tick, vars, thread, TypeOK, Goto
  <2>4. Step(c)
    BY <2>3, StepIsLocal
  <2>5. ReportError(c) \/ ReportBusy(c)
    BY <2>4 DEF Step, NoTransport, Enter, SelectNothing, Select, Send, Answered,
                ReportResponse, Return, Goto, TypeOK
  <2>6. ReportFailure(route[c])
    BY <2>5 DEF ReportError, ReportBusy
  <2> QED
    BY <2>1, <2>2, <2>6, ReportMovesOn
<1> QED
  BY <1>1, <1>2, <1>3, TypeCorrect, LoopInvariantHolds, PTL DEF Spec, MovesOn

-----------------------------------------------------------------------------
(***************************************************************************)
(* send_with_failover implements the call contract: the safety part of     *)
(* KeepsContract, for any number of threads, routes and options.           *)
(***************************************************************************)

\* Contract!Spec without the promise that every call returns.
ContractSafety == Contract!Init /\ [][Contract!Next]_(Contract!vars)

\* A call that has sent, or is about to, found a route and usable credentials.
Equipped(c) ==
  sends[c] > 0 \/ pc[c] \in {"send", "wait", "report"} =>
    Slots # {} /\ setup.credentials \in {"unused", "valid"}

EquippedInvariant == \A c \in Caller : Equipped(c)

-----------------------------------------------------------------------------
LEMMA InitEquipped == Init => EquippedInvariant
BY DEF Init, EquippedInvariant, Equipped

LEMMA OwnEquipped ==
  ASSUME TypeOK, NEW c \in Caller, LoopInv(c), Equipped(c), Step(c), Slots' = Slots
  PROVE  Equipped(c)'
<1> USE DEF Goto, Return, TypeOK
<1>1. setup' = setup
  BY DEF Step, NoTransport, Enter, SelectNothing, Select, Send, Answered,
         ReportError, ReportBusy, ReportResponse
<1>2. CASE Select(c)
  BY <1>1, <1>2 DEF Select, Equipped, history
<1>3. CASE Send(c)
  BY <1>1, <1>3 DEF Send, Equipped
<1>4. CASE ~Select(c) /\ ~Send(c)
  <2>1. sends'[c] = sends[c]
    BY <1>4 DEF Step, NoTransport, Enter, SelectNothing, Answered,
                ReportError, ReportBusy, ReportResponse, history
  <2>2. pc'[c] \in {"wait", "report", "send"} => pc[c] \in {"wait", "report", "send"}
    BY <1>4 DEF Step, NoTransport, Enter, SelectNothing, Answered,
                ReportError, ReportBusy, ReportResponse, NextIteration
  <2> QED
    BY <1>1, <2>1, <2>2 DEF Equipped
<1> QED
  BY <1>2, <1>3, <1>4

LEMMA NextEquipped ==
  TypeOK /\ LoopInvariant /\ EquippedInvariant /\ [Next]_vars => EquippedInvariant'
<1> SUFFICES ASSUME TypeOK, LoopInvariant, EquippedInvariant, [Next]_vars,
                    NEW d \in Caller
             PROVE  Equipped(d)'
  BY DEF EquippedInvariant
<1>1. Slots' = Slots /\ setup' = setup
  BY PoolShape DEF Next, Step, NoTransport, Enter, SelectNothing, Select, Send, Answered,
     ReportError, ReportBusy, ReportResponse, Begin, Tick, vars
<1>2. ASSUME NEW c \in Caller, Step(c)
      PROVE  Equipped(d)'
  <2>1. CASE c = d
    BY <1>1, <1>2, <2>1, OwnEquipped DEF LoopInvariant, EquippedInvariant
  <2>2. CASE c # d
    <3>1. sends'[d] = sends[d] /\ pc'[d] = pc[d]
      BY <1>2, <2>2, StepIsLocal
    <3> QED
      BY <1>1, <3>1 DEF EquippedInvariant, Equipped
  <2> QED
    BY <2>1, <2>2
<1>3. ASSUME NEW c \in Caller, NEW o \in Option, Begin(c, o)
      PROVE  Equipped(d)'
  BY <1>1, <1>3 DEF Begin, EquippedInvariant, Equipped, Goto, TypeOK
<1>4. CASE Tick \/ UNCHANGED vars
  BY <1>1, <1>4 DEF Tick, vars, thread, history, EquippedInvariant, Equipped
<1> QED
  BY <1>2, <1>3, <1>4 DEF Next

-----------------------------------------------------------------------------
(***************************************************************************)
(* Each step of the loop is a step of the contract, or none of it.         *)
(***************************************************************************)
LEMMA PhaseMoves ==
  ASSUME TypeOK, NEW c \in Caller, NEW label \in Label, pc' = [pc EXCEPT ![c] = label]
  PROVE  [d \in Caller |-> Phase(pc[d])]' =
           [[d \in Caller |-> Phase(pc[d])] EXCEPT ![c] = Phase(label)]
BY DEF TypeOK

LEMMA PhaseStays ==
  ASSUME TypeOK, NEW c \in Caller, NEW label \in Label, pc' = [pc EXCEPT ![c] = label],
         Phase(label) = Phase(pc[c])
  PROVE  [d \in Caller |-> Phase(pc[d])]' = [d \in Caller |-> Phase(pc[d])]
BY DEF TypeOK

LEMMA Phases ==
  /\ Phase("idle") = "idle" /\ Phase("begin") = "open" /\ Phase("select") = "open"
  /\ Phase("send") = "open" /\ Phase("wait") = "trying" /\ Phase("report") = "open"
  /\ Phase("done") = "closed"
BY DEF Phase

\* The contract's licence to send, in terms of the loop.
LEMMA ContractMaySend ==
  ASSUME TypeOK, NEW c \in Caller
  PROVE  Contract!MaySend(c) <=>
           \/ sends[c] = 0
           \/ /\ outcome[c] \in Retryable
              /\ MayReplay(opt[c])
              /\ sends[c] < Attempts(opt[c])
BY DEF Contract!MaySend, TypeOK

\* The steps that only move the thread inside the loop.
LEMMA QuietSteps ==
  ASSUME TypeOK, NEW c \in Caller,
         \/ Enter(c)
         \/ Select(c) /\ pc'[c] = "send"
         \/ ReportError(c) /\ pc'[c] = "select"
         \/ ReportBusy(c)
  PROVE  UNCHANGED Contract!vars
<1> USE DEF Goto, Return, Label, history
<1>1. PICK label \in {"select", "send"} :
        pc' = [pc EXCEPT ![c] = label] /\ pc[c] \in {"begin", "select", "report"}
  BY DEF Enter, Select, ReportError, ReportBusy, NextIteration, MayRetryStatus, TypeOK
<1>2. UNCHANGED <<opt, sends, outcome, answer>>
  BY DEF Enter, Select, ReportError, ReportBusy, NextIteration, MayRetryStatus, TypeOK
<1>3. [d \in Caller |-> Phase(pc[d])]' = [d \in Caller |-> Phase(pc[d])]
  BY <1>1, Phases, PhaseStays
<1> QED
  BY <1>2, <1>3 DEF Contract!vars

\* A call that ends before it sent anything.
LEMMA LocalErrorCloses ==
  ASSUME TypeOK, LoopInvariant, EquippedInvariant, NEW c \in Caller,
         \/ NoTransport(c)
         \/ SelectNothing(c)
         \/ Select(c) /\ pc'[c] = "done"
  PROVE  Contract!Close(c)
<1> USE DEF Goto, Return, Label, history
<1>1. /\ pc' = [pc EXCEPT ![c] = "done"]
      /\ pc[c] \in {"begin", "select"}
      /\ \E e \in LocalError : answer' = [answer EXCEPT ![c] = e]
      /\ UNCHANGED <<opt, sends, outcome>>
  BY DEF NoTransport, SelectNothing, Select, TypeOK, LocalError
<1>2. sends[c] = 0
  <2>1. CASE NoTransport(c)
    BY <2>1 DEF NoTransport, LoopInvariant, LoopInv
  <2>2. CASE SelectNothing(c)
    BY <2>2, ThreadTypes DEF SelectNothing, EquippedInvariant, Equipped
  <2>3. CASE Select(c) /\ pc'[c] = "done"
    <3>1. setup.credentials \in {"missing", "refused"}
      BY <2>3 DEF Select, TypeOK
    <3> QED
      BY <3>1, ThreadTypes DEF EquippedInvariant, Equipped
  <2> QED
    BY <2>1, <2>2, <2>3
<1>3. [d \in Caller |-> Phase(pc[d])]' = [[d \in Caller |-> Phase(pc[d])] EXCEPT ![c] = "closed"]
  BY <1>1, Phases, PhaseMoves
<1> QED
  BY <1>1, <1>2, <1>3, Phases DEF Contract!Close

\* A call that ends with what its last send brought.
LEMMA LastOutcomeCloses ==
  ASSUME TypeOK, LoopInvariant, NEW c \in Caller,
         ReportResponse(c) \/ (ReportError(c) /\ pc'[c] = "done")
  PROVE  Contract!Close(c)
<1> USE DEF Goto, Return, Label, history
<1>1. /\ pc' = [pc EXCEPT ![c] = "done"]
      /\ pc[c] = "report"
      /\ UNCHANGED <<opt, sends, outcome>>
  BY DEF ReportResponse, ReportError, NextIteration, TypeOK
<1>2. answer' = [answer EXCEPT ![c] = outcome[c]]
  BY DEF ReportResponse, ReportError, NextIteration, TypeOK
<1>3. sends[c] = attempt[c] + 1 /\ attempt[c] \in Nat
  BY <1>1, ThreadTypes DEF LoopInvariant, LoopInv, InAttempt
<1>4. ~Contract!MaySend(c)
  <2>1. CASE ReportResponse(c)
    BY <1>3, <2>1, ContractMaySend
    DEF ReportResponse, MayRetryStatus, Response, Retryable
  <2>2. CASE ReportError(c) /\ pc'[c] = "done"
    <3>1. \/ outcome[c] = "fatal"
          \/ ~MayReplay(opt[c])
          \/ ~(attempt[c] + 1 < Attempts(opt[c]))
      BY <2>2 DEF ReportError, NextIteration, MayReplay, TypeOK
    <3> QED
      BY <1>3, <3>1, ContractMaySend DEF Retryable
  <2> QED
    BY <2>1, <2>2
<1>5. [d \in Caller |-> Phase(pc[d])]' = [[d \in Caller |-> Phase(pc[d])] EXCEPT ![c] = "closed"]
  BY <1>1, Phases, PhaseMoves
<1> QED
  BY <1>1, <1>2, <1>3, <1>4, <1>5, Phases DEF Contract!Close

\* The request goes out.
LEMMA SendTries ==
  ASSUME TypeOK, LoopInvariant, NEW c \in Caller, Send(c)
  PROVE  Contract!Try(c)
<1>1. /\ pc[c] = "send" /\ pc' = [pc EXCEPT ![c] = "wait"]
      /\ sends' = [sends EXCEPT ![c] = @ + 1]
      /\ outcome' = [outcome EXCEPT ![c] = None]
      /\ UNCHANGED <<opt, answer>>
  BY DEF Send, Goto
<1>2. Contract!MaySend(c)
  <2>1. BetweenAttempts(c) /\ attempt[c] \in Nat
    BY <1>1, ThreadTypes DEF LoopInvariant, LoopInv
  <2> QED
    BY <2>1, ContractMaySend DEF BetweenAttempts
<1>3. [d \in Caller |-> Phase(pc[d])]' = [[d \in Caller |-> Phase(pc[d])] EXCEPT ![c] = "trying"]
  BY <1>1, Phases, PhaseMoves DEF Label
<1> QED
  BY <1>1, <1>2, <1>3, Phases DEF Contract!Try

\* The transport answers.
LEMMA AnsweredHears ==
  ASSUME TypeOK, NEW c \in Caller, NEW result \in Outcome, Answered(c, result)
  PROVE  Contract!Hear(c, result)
<1>1. /\ pc[c] = "wait" /\ pc' = [pc EXCEPT ![c] = "report"]
      /\ outcome' = [outcome EXCEPT ![c] = result]
      /\ UNCHANGED <<opt, sends, answer>>
  BY DEF Answered, Goto
<1>2. [d \in Caller |-> Phase(pc[d])]' = [[d \in Caller |-> Phase(pc[d])] EXCEPT ![c] = "open"]
  BY <1>1, Phases, PhaseMoves DEF Label
<1> QED
  BY <1>1, <1>2, Phases DEF Contract!Hear

\* The caller makes a call.
LEMMA BeginOpens ==
  ASSUME TypeOK, NEW c \in Caller, NEW o \in Option, Begin(c, o)
  PROVE  Contract!Open(c, o)
<1>1. /\ pc[c] \in {"idle", "done"} /\ pc' = [pc EXCEPT ![c] = "begin"]
      /\ opt' = [opt EXCEPT ![c] = o]
      /\ sends' = [sends EXCEPT ![c] = 0]
      /\ outcome' = [outcome EXCEPT ![c] = None]
      /\ answer' = [answer EXCEPT ![c] = None]
  BY DEF Begin, Goto
<1>2. [d \in Caller |-> Phase(pc[d])]' = [[d \in Caller |-> Phase(pc[d])] EXCEPT ![c] = "open"]
  BY <1>1, Phases, PhaseMoves DEF Label
<1> QED
  BY <1>1, <1>2, Phases DEF Contract!Open

LEMMA StepRefines ==
  ASSUME TypeOK, LoopInvariant, EquippedInvariant, NEW c \in Caller, Step(c)
  PROVE  Contract!Next \/ UNCHANGED Contract!vars
<1>1. CASE NoTransport(c) \/ SelectNothing(c)
  BY <1>1, LocalErrorCloses DEF Contract!Next
<1>2. CASE Enter(c) \/ ReportBusy(c)
  BY <1>2, QuietSteps
<1>3. CASE Select(c)
  <2>1. pc'[c] \in {"done", "send"}
    BY <1>3 DEF Select, Return, Goto, TypeOK
  <2> QED
    BY <1>3, <2>1, LocalErrorCloses, QuietSteps DEF Contract!Next
<1>4. CASE Send(c)
  BY <1>4, SendTries DEF Contract!Next
<1>5. ASSUME NEW result \in Outcome, Answered(c, result)
      PROVE  Contract!Next
  <2>1. result \in Retryable \cup (Outcome \ Retryable)
    OBVIOUS
  <2> QED
    BY <1>5, <2>1, AnsweredHears DEF Contract!Next, Contract!Outcome
<1>6. CASE ReportError(c)
  <2>1. pc'[c] \in {"done", "select"}
    BY <1>6 DEF ReportError, NextIteration, Return, Goto, TypeOK
  <2> QED
    BY <1>6, <2>1, LastOutcomeCloses, QuietSteps DEF Contract!Next
<1>7. CASE ReportResponse(c)
  BY <1>7, LastOutcomeCloses DEF Contract!Next
<1> QED
  BY <1>1, <1>2, <1>3, <1>4, <1>5, <1>6, <1>7 DEF Step

LEMMA InitRefines == Init => Contract!Init
<1> SUFFICES ASSUME Init PROVE Contract!Init
  OBVIOUS
<1>1. TypeOK
  BY InitTypeOK
<1>2. [d \in Caller |-> Phase(pc[d])] = [d \in Caller |-> "idle"]
  BY Phases DEF Init
<1> QED
  BY <1>1, <1>2 DEF Init, Contract!Init, TypeOK

LEMMA NextRefines ==
  TypeOK /\ LoopInvariant /\ EquippedInvariant /\ [Next]_vars =>
    [Contract!Next]_(Contract!vars)
<1> SUFFICES ASSUME TypeOK, LoopInvariant, EquippedInvariant, [Next]_vars
             PROVE  Contract!Next \/ UNCHANGED Contract!vars
  OBVIOUS
<1>1. CASE \E c \in Caller, o \in Option : Begin(c, o)
  BY <1>1, BeginOpens DEF Contract!Next
<1>2. CASE Tick \/ UNCHANGED vars
  BY <1>2 DEF Tick, thread, history, vars, Contract!vars
<1> QED
  BY <1>1, <1>2, StepRefines DEF Next

\* Every behaviour of the loop is one the call contract allows: how often a
\* request is sent, after what, and what the call returns.
THEOREM ContractImplemented == Spec => ContractSafety
<1>1. Spec => []EquippedInvariant
  BY InitEquipped, NextEquipped, TypeCorrect, LoopInvariantHolds, PTL DEF Spec
<1> QED
  BY <1>1, InitRefines, NextRefines, TypeCorrect, LoopInvariantHolds, PTL
  DEF Spec, ContractSafety
=============================================================================

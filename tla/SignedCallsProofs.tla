------------------------- MODULE SignedCallsProofs -------------------------
(***************************************************************************)
(* Proofs about qstorage::client and qkms::client, for any number of       *)
(* callers, lists of any length and any options: of the loop its type, the *)
(* rotation through the whole list and the safety part of the contract; of *)
(* the requests that the service reads the object and the parameters that  *)
(* the caller meant, and that it accepts the signature.  The second part   *)
(* rests on lemmas about texts: what is quoted reads back, what is joined  *)
(* splits again, where a target is cut, and that a text without wasted     *)
(* escapes has one canonical form.                                         *)
(***************************************************************************)
EXTENDS SignedCalls, FiniteSetTheorems, WellFoundedInduction, SequenceTheorems, TLAPS

Label == {"idle", "begin", "send", "wait", "decide", "done"}

\* The call went to the endpoint of each of its first n attempts.
Reached(c, n) == \A k \in Nat : k < n => Rotation(k) \in tried[c]

-----------------------------------------------------------------------------
(***************************************************************************)
(* The inductive invariant.  A call has sent as many requests as it has    *)
(* made attempts, and went to the endpoint of each; only a call that       *)
(* allows failover gets past its first attempt, and it gives up on a       *)
(* retryable outcome only after its last one.                              *)
(***************************************************************************)
Trying(c) ==
  /\ client.endpoints # <<>>
  /\ attempt[c] < Attempts(opt[c])
  /\ attempt[c] > 0 => opt[c].allow_failover

LoopInv(c) ==
  /\ pc[c] \in {"idle", "begin"} => sends[c] = 0 /\ attempt[c] = 0
  /\ pc[c] = "send" =>
       /\ Trying(c)
       /\ sends[c] = attempt[c]
       /\ attempt[c] > 0 => outcome[c] \in Retryable
       /\ Reached(c, attempt[c])
  /\ pc[c] \in {"wait", "decide"} =>
       /\ Trying(c)
       /\ client.signs
       /\ sends[c] = attempt[c] + 1
       /\ Reached(c, attempt[c] + 1)
  /\ pc[c] = "decide" => outcome[c] \in Outcome
  /\ pc[c] = "done" /\ answer[c] \in Retryable /\ opt[c].allow_failover =>
       Reached(c, Attempts(opt[c]))
  /\ sends[c] > 0 => client.signs

LoopInvariant == \A c \in Caller : LoopInv(c)

-----------------------------------------------------------------------------
(* The options and the arithmetic of the rotation.                         *)

LEMMA OptionsForType ==
  ASSUME NEW op \in Operation, NEW o \in Options
  PROVE  OptionsFor(op, o) \in Options
<1>1. [o EXCEPT !.idempotent = FALSE] \in Options
  BY DEF Options
<1> QED
  BY <1>1 DEF OptionsFor

LEMMA LoopOptionType ==
  /\ LoopOption \subseteq Options
  /\ \A o \in LoopOption : Attempts(o) \in Nat /\ Attempts(o) >= 1
<1>1. LoopOption \subseteq Options
  BY OptionAssumption, OptionsForType DEF LoopOption
<1>2. \A o \in Options : Attempts(o) \in Nat /\ Attempts(o) >= 1
  BY DEF Options, Attempts
<1> QED
  BY <1>1, <1>2

LEMMA OptionsForLoop ==
  ASSUME NEW op \in Operation, NEW o \in Option
  PROVE  OptionsFor(op, o) \in LoopOption
BY DEF LoopOption

LEMMA EndpointsType == TypeOK => client.endpoints \in Seq(Endpoint)
BY ClientAssumption DEF TypeOK, Clients

\* Remainders: below the divisor, and the dividend itself if that is below it.
LEMMA Remainder ==
  ASSUME NEW n \in Nat, NEW m \in Nat, m > 0
  PROVE  n % m \in 0..(m - 1) /\ (n < m => n % m = n)
OBVIOUS

LEMMA RotationInList ==
  ASSUME TypeOK, client.endpoints # <<>>, NEW n \in Nat
  PROVE  Rotation(n) \in 1..Len(client.endpoints)
<1> DEFINE m == Len(client.endpoints)
<1>1. m \in Nat /\ m > 0
  BY EndpointsType
<1>2. n % m \in 0..(m - 1)
  BY <1>1, Remainder
<1>3. Rotation(n) = 1 + (n % m)
  BY DEF Rotation
<1> HIDE DEF m
<1>4. 1 + (n % m) \in 1..m
  BY <1>1, <1>2
<1> QED
  BY <1>3, <1>4 DEF m

LEMMA RotationFirstRound ==
  ASSUME TypeOK, NEW i \in 1..Len(client.endpoints)
  PROVE  i - 1 \in Nat /\ Rotation(i - 1) = i
<1> DEFINE m == Len(client.endpoints)
<1>1. m \in Nat /\ i \in Int /\ i >= 1 /\ i <= m
  BY EndpointsType
<1>2. Rotation(i - 1) = 1 + ((i - 1) % m)
  BY DEF Rotation
<1> HIDE DEF m
<1>3. i - 1 \in Nat /\ m > 0 /\ i - 1 < m
  BY <1>1
<1>4. (i - 1) % m = i - 1
  BY <1>1, <1>3, Remainder
<1> QED
  BY <1>1, <1>2, <1>3, <1>4

-----------------------------------------------------------------------------
(***************************************************************************)
(* Type correctness.                                                       *)
(***************************************************************************)
LEMMA InitTypeOK == Init => TypeOK
<1> SUFFICES ASSUME Init PROVE TypeOK
  OBVIOUS
<1>1. (CHOOSE o \in Option : TRUE) \in LoopOption
  BY OptionAssumption DEF LoopOption
<1>2. \A c \in Caller : attempt[c] <= Attempts(opt[c])
  BY <1>1, LoopOptionType DEF Init
<1>3. /\ opt \in [Caller -> LoopOption]
      /\ tried \in [Caller -> SUBSET (1..Len(client.endpoints))]
      /\ operation \in [Caller -> Operation]
  BY <1>1 DEF Init, Operation
<1>4. calls \in [Caller -> 0..MaxCalls]
  BY MaxCallsAssumption DEF Init
<1>5. /\ last_error \in [Caller -> TransportError \cup {InitialError, StatusError}]
      /\ outcome \in [Caller -> Outcome \cup {None}]
      /\ answer \in [Caller -> Outcome \cup LocalError \cup {InitialError, StatusError, None}]
  BY DEF Init
<1>6. attempt \in [Caller -> Nat] /\ sends \in [Caller -> Nat] /\ applied \in [Caller -> Nat]
  BY DEF Init
<1> QED
  BY <1>2, <1>3, <1>4, <1>5, <1>6 DEF Init, TypeOK

LEMMA StepTypeOK ==
  ASSUME TypeOK, LoopInvariant, NEW c \in Caller, Step(c)
  PROVE  TypeOK'
<1> USE DEF Goto, Return, TypeOK
<1>1. CASE Refuse(c)
  BY <1>1 DEF Refuse, LocalError
<1>2. CASE Enter(c)
  BY <1>2 DEF Enter
<1>3. CASE SignFails(c)
  BY <1>3 DEF SignFails, LocalError
<1>4. CASE Send(c)
  <2>1. Rotation(attempt[c]) \in 1..Len(client.endpoints)
    BY <1>4, RotationInList DEF Send, LoopInvariant, LoopInv, Trying
  <2> QED
    BY <1>4, <2>1 DEF Send
<1>5. ASSUME NEW result \in Outcome, Answered(c, result)
      PROVE  TypeOK'
  BY <1>5 DEF Answered
<1>6. CASE DecideError(c) \/ DecideBusy(c)
  <2>1. /\ pc[c] = "decide"
        /\ last_error' \in [Caller -> TransportError \cup {InitialError, StatusError}]
        /\ UNCHANGED <<client, operation, opt, outcome, sends, applied, tried, calls>>
    BY <1>6 DEF DecideError, DecideBusy
  <2>2. attempt[c] \in Nat /\ attempt[c] < Attempts(opt[c]) /\ Attempts(opt[c]) \in Nat
    BY <2>1, LoopOptionType DEF LoopInvariant, LoopInv, Trying
  <2>3. attempt' \in {attempt, [attempt EXCEPT ![c] = @ + 1]}
    BY <1>6 DEF DecideError, DecideBusy, NextIteration
  <2>4. attempt' \in [Caller -> Nat] /\ \A d \in Caller : attempt'[d] <= Attempts(opt[d])
    <3>1. attempt[c] + 1 \in Nat /\ attempt[c] + 1 <= Attempts(opt[c])
      BY <2>2
    <3> QED
      BY <2>3, <3>1
  <2>5. PICK label \in Label, a \in Outcome \cup LocalError \cup {InitialError, StatusError, None} :
          /\ pc' = [pc EXCEPT ![c] = label]
          /\ answer' \in {answer, [answer EXCEPT ![c] = a]}
    BY <1>6, <2>1 DEF DecideError, DecideBusy, NextIteration, Label, Outcome
  <2>6. /\ pc' \in [Caller -> Label]
        /\ answer' \in [Caller -> Outcome \cup LocalError \cup {InitialError, StatusError, None}]
    BY <2>5 DEF Label
  <2> QED
    BY <2>1, <2>4, <2>6 DEF Label
<1>7. CASE DecideResponse(c)
  BY <1>7 DEF DecideResponse, Outcome
<1> QED
  BY <1>1, <1>2, <1>3, <1>4, <1>5, <1>6, <1>7 DEF Step

LEMMA NextTypeOK == TypeOK /\ LoopInvariant /\ [Next]_vars => TypeOK'
<1> SUFFICES ASSUME TypeOK, LoopInvariant, [Next]_vars PROVE TypeOK'
  OBVIOUS
<1>1. ASSUME NEW c \in Caller, NEW op \in Operation, NEW o \in Option, Begin(c, op, o)
      PROVE  TypeOK'
  <2>1. OptionsFor(op, o) \in LoopOption /\ Attempts(OptionsFor(op, o)) >= 1
    BY OptionsForLoop, LoopOptionType
  <2>2. opt' \in [Caller -> LoopOption] /\ attempt' \in [Caller -> Nat]
    BY <1>1, <2>1 DEF Begin, TypeOK
  <2>3. ASSUME NEW d \in Caller PROVE attempt'[d] <= Attempts(opt'[d])
    <3>1. CASE d = c
      BY <1>1, <2>1, <3>1, LoopOptionType DEF Begin, TypeOK
    <3>2. CASE d # c
      BY <1>1, <3>2 DEF Begin, TypeOK
    <3> QED
      BY <3>1, <3>2
  <2>4. calls' \in [Caller -> 0..MaxCalls]
    BY <1>1, MaxCallsAssumption DEF Begin, TypeOK
  <2> QED
    BY <1>1, <2>2, <2>3, <2>4 DEF Begin, TypeOK, Goto, InitialError
<1>2. CASE UNCHANGED vars
  BY <1>2 DEF vars, TypeOK
<1> QED
  BY <1>1, <1>2, StepTypeOK DEF Next

-----------------------------------------------------------------------------
(***************************************************************************)
(* The invariant of the loop.                                              *)
(***************************************************************************)
LEMMA RotationStays == client' = client => \A n \in Nat : Rotation(n)' = Rotation(n)
BY DEF Rotation

LEMMA ClientStays ==
  ASSUME [Next]_vars
  PROVE  client' = client
BY DEF Next, Step, Refuse, Enter, SignFails, Send, Answered, DecideError, DecideBusy,
       DecideResponse, Begin, vars

LEMMA InitLoop == Init => LoopInvariant
BY DEF Init, LoopInvariant, LoopInv

LEMMA OwnLoop ==
  ASSUME TypeOK, NEW c \in Caller, LoopInv(c), Step(c), client' = client
  PROVE  LoopInv(c)'
<1> USE DEF Goto, Return, TypeOK
<1>0. /\ \A n \in Nat : Rotation(n)' = Rotation(n)
      /\ attempt[c] \in Nat /\ sends[c] \in Nat /\ opt[c] \in LoopOption
      /\ Attempts(opt[c]) \in Nat /\ Attempts(opt[c]) >= 1
  BY RotationStays, LoopOptionType
<1>1. CASE Refuse(c)
  BY <1>1 DEF Refuse, LoopInv, Trying, Retryable
<1>2. CASE Enter(c)
  <2>1. Reached(c, attempt[c])'
    BY <1>0, <1>2 DEF Enter, Reached, LoopInv
  <2> QED
    BY <1>0, <1>2, <2>1 DEF Enter, LoopInv, Trying
<1>3. CASE SignFails(c)
  BY <1>3 DEF SignFails, LoopInv, Retryable
<1>4. CASE Send(c)
  <2>1. /\ pc[c] = "send" /\ pc'[c] = "wait"
        /\ sends'[c] = sends[c] + 1
        /\ tried'[c] = tried[c] \cup {Rotation(attempt[c])}
        /\ client.signs
        /\ UNCHANGED <<opt, attempt, answer>>
    BY <1>4 DEF Send
  <2>2. \A k \in Nat : k < attempt[c] + 1 => k < attempt[c] \/ k = attempt[c]
    BY <1>0
  <2>3. Reached(c, attempt[c] + 1)'
    BY <1>0, <2>1, <2>2 DEF Reached, LoopInv
  <2> QED
    BY <1>0, <2>1, <2>3 DEF LoopInv, Trying
<1>5. ASSUME NEW result \in Outcome, Answered(c, result)
      PROVE  LoopInv(c)'
  <2>1. /\ pc[c] = "wait" /\ pc'[c] = "decide" /\ outcome'[c] = result
        /\ UNCHANGED <<opt, attempt, answer, sends, tried>>
    BY <1>5 DEF Answered
  <2>2. Reached(c, attempt[c] + 1)'
    BY <1>0, <2>1 DEF Reached, LoopInv
  <2> QED
    BY <2>1, <2>2 DEF LoopInv, Trying
<1>6. CASE DecideError(c) \/ DecideBusy(c)
  <2>1. /\ pc[c] = "decide"
        /\ UNCHANGED <<opt, outcome, sends, tried>>
    BY <1>6 DEF DecideError, DecideBusy
  <2>2. CASE pc'[c] = "send"
    <3>1. /\ attempt'[c] = attempt[c] + 1
          /\ attempt[c] + 1 < Attempts(opt[c])
          /\ opt[c].allow_failover
          /\ outcome[c] \in Retryable
      BY <1>6, <2>2 DEF DecideError, DecideBusy, NextIteration, MayRetryStatus,
                       TransportError, Retryable
    <3>2. Reached(c, attempt[c])'
      BY <1>0, <2>1, <3>1 DEF Reached, LoopInv
    <3> QED
      BY <1>0, <2>1, <2>2, <3>1, <3>2 DEF LoopInv, Trying
  <2>3. CASE pc'[c] = "done"
    <3>1. answer'[c] \in Retryable /\ opt[c].allow_failover => attempt[c] + 1 >= Attempts(opt[c])
      BY <1>0, <1>6, <2>3 DEF DecideError, DecideBusy, NextIteration, MayRetryStatus, Retryable
    <3>2. answer'[c] \in Retryable /\ opt[c].allow_failover => Reached(c, Attempts(opt[c]))'
      BY <1>0, <2>1, <3>1 DEF Reached, LoopInv
    <3> QED
      BY <2>1, <2>3, <3>2 DEF LoopInv
  <2>4. pc'[c] \in {"send", "done"}
    BY <1>6 DEF DecideError, DecideBusy, NextIteration
  <2> QED
    BY <2>2, <2>3, <2>4
<1>7. CASE DecideResponse(c)
  <2>1. /\ pc[c] = "decide" /\ pc'[c] = "done" /\ answer'[c] = outcome[c]
        /\ UNCHANGED <<opt, sends, tried>>
    BY <1>7 DEF DecideResponse
  <2>2. outcome[c] \in Retryable /\ opt[c].allow_failover => attempt[c] + 1 >= Attempts(opt[c])
    BY <1>0, <1>7 DEF DecideResponse, MayRetryStatus, Response, Retryable
  <2>3. outcome[c] \in Retryable /\ opt[c].allow_failover => Reached(c, Attempts(opt[c]))'
    BY <1>0, <2>1, <2>2 DEF Reached, LoopInv
  <2> QED
    BY <2>1, <2>3 DEF LoopInv
<1> QED
  BY <1>1, <1>2, <1>3, <1>4, <1>5, <1>6, <1>7 DEF Step

\* A step of one call leaves the others alone.
LEMMA StepIsLocal ==
  ASSUME TypeOK, NEW c \in Caller, Step(c), NEW d \in Caller, d # c
  PROVE  /\ pc'[d] = pc[d] /\ opt'[d] = opt[d] /\ attempt'[d] = attempt[d]
         /\ outcome'[d] = outcome[d] /\ answer'[d] = answer[d]
         /\ sends'[d] = sends[d] /\ tried'[d] = tried[d]
BY DEF TypeOK, Goto, Return, NextIteration, Step, Refuse, Enter, SignFails, Send, Answered,
       DecideError, DecideBusy, DecideResponse

LEMMA UntouchedLoop ==
  ASSUME NEW d \in Caller, LoopInv(d), client' = client,
         pc'[d] = pc[d], opt'[d] = opt[d], attempt'[d] = attempt[d], outcome'[d] = outcome[d],
         answer'[d] = answer[d], sends'[d] = sends[d], tried'[d] = tried[d]
  PROVE  LoopInv(d)'
<1>1. \A n \in Nat : Rotation(n)' = Rotation(n)
  BY RotationStays
<1> QED
  BY <1>1 DEF LoopInv, Trying, Reached

LEMMA NextLoop == TypeOK /\ LoopInvariant /\ [Next]_vars => LoopInvariant'
<1> SUFFICES ASSUME TypeOK, LoopInvariant, [Next]_vars, NEW d \in Caller
             PROVE  LoopInv(d)'
  BY DEF LoopInvariant
<1>1. client' = client /\ LoopInv(d)
  BY ClientStays DEF LoopInvariant
<1>2. ASSUME NEW c \in Caller, Step(c)
      PROVE  LoopInv(d)'
  BY <1>1, <1>2, OwnLoop, StepIsLocal, UntouchedLoop
<1>3. ASSUME NEW c \in Caller, NEW op \in Operation, NEW o \in Option, Begin(c, op, o)
      PROVE  LoopInv(d)'
  <2>1. CASE d = c
    BY <1>3, <2>1 DEF Begin, Goto, TypeOK, LoopInv
  <2>2. CASE d # c
    BY <1>1, <1>3, <2>2, UntouchedLoop DEF Begin, Goto, TypeOK
  <2> QED
    BY <2>1, <2>2
<1>4. CASE UNCHANGED vars
  BY <1>1, <1>4, UntouchedLoop DEF vars
<1> QED
  BY <1>2, <1>3, <1>4 DEF Next

LEMMA InvariantsHold == Spec => [](TypeOK /\ LoopInvariant)
BY InitTypeOK, InitLoop, NextTypeOK, NextLoop, PTL DEF Spec

\* The loop keeps its types: in particular it never makes more attempts than
\* the options of the call allow, whatever is in the options.
THEOREM RotationTypeCorrect == Spec => []TypeOK
BY InvariantsHold, PTL

\* A call that gives up on a retryable outcome with enough attempts allowed has
\* tried every endpoint of the list, however long the list is.
THEOREM RotationReachesAll == Spec => []RotationCovers
<1>1. TypeOK /\ LoopInvariant => RotationCovers
  <2> SUFFICES ASSUME TypeOK, LoopInvariant, NEW c \in Caller,
                      pc[c] = "done", answer[c] \in Retryable, opt[c].allow_failover,
                      Attempts(opt[c]) >= Len(client.endpoints)
               PROVE  tried[c] = 1..Len(client.endpoints)
    BY DEF RotationCovers
  <2>1. Reached(c, Attempts(opt[c]))
    BY DEF LoopInvariant, LoopInv
  <2>2. ASSUME NEW i \in 1..Len(client.endpoints)
        PROVE  i \in tried[c]
    <3>1. i - 1 \in Nat /\ Rotation(i - 1) = i
      BY RotationFirstRound
    <3>2. Attempts(opt[c]) \in Nat /\ Len(client.endpoints) \in Nat /\ i <= Len(client.endpoints)
      BY EndpointsType, LoopOptionType DEF TypeOK
    <3>3. i - 1 < Attempts(opt[c])
      BY <3>1, <3>2
    <3> QED
      BY <2>1, <3>1, <3>3 DEF Reached
  <2>3. tried[c] \subseteq 1..Len(client.endpoints)
    BY DEF TypeOK
  <2> QED
    BY <2>2, <2>3
<1> QED
  BY <1>1, InvariantsHold, PTL

-----------------------------------------------------------------------------
(***************************************************************************)
(* The loop implements the call contract: each of its steps is a step of   *)
(* the contract, or none of it.                                            *)
(***************************************************************************)

\* Contract!Spec without the promise that every call returns.
ContractSafety == Contract!Init /\ [][Contract!Next]_(Contract!vars)

LEMMA Phases ==
  /\ Phase("idle") = "idle" /\ Phase("begin") = "open" /\ Phase("send") = "open"
  /\ Phase("wait") = "trying" /\ Phase("decide") = "open" /\ Phase("done") = "closed"
BY DEF Phase

LEMMA PhaseMoves ==
  ASSUME TypeOK, NEW c \in Caller, NEW label \in Label, pc' = [pc EXCEPT ![c] = label]
  PROVE  [d \in Caller |-> Phase(pc[d])]' =
           [[d \in Caller |-> Phase(pc[d])] EXCEPT ![c] = Phase(label)]
BY DEF TypeOK

LEMMA PhaseStays ==
  ASSUME TypeOK, NEW c \in Caller, NEW label \in Label, pc' = [pc EXCEPT ![c] = label],
         Phase(label) = Phase(pc[c])
  PROVE  [d \in Caller |-> Phase(pc[d])]' = [d \in Caller |-> Phase(pc[d])]
BY DEF TypeOK

\* The contract's licence to send, in terms of the loop.
LEMMA ContractMaySend ==
  ASSUME TypeOK, NEW c \in Caller
  PROVE  Contract!MaySend(c) <=>
           \/ sends[c] = 0
           \/ /\ outcome[c] \in Retryable
              /\ opt[c].allow_failover
              /\ sends[c] < Attempts(opt[c])
BY DEF Contract!MaySend, TypeOK

\* The steps that only move the call inside the loop.
LEMMA QuietSteps ==
  ASSUME TypeOK, NEW c \in Caller,
         \/ Enter(c)
         \/ (DecideError(c) \/ DecideBusy(c)) /\ pc'[c] = "send"
  PROVE  UNCHANGED Contract!vars
<1> USE DEF Goto, Return
<1>1. pc' = [pc EXCEPT ![c] = "send"] /\ pc[c] \in {"begin", "decide"}
  BY DEF Enter, DecideError, DecideBusy, NextIteration, TypeOK
<1>2. UNCHANGED <<opt, sends, outcome, answer>>
  BY DEF Enter, DecideError, DecideBusy, NextIteration, TypeOK
<1>3. [d \in Caller |-> Phase(pc[d])]' = [d \in Caller |-> Phase(pc[d])]
  BY <1>1, Phases, PhaseStays DEF Label
<1> QED
  BY <1>2, <1>3 DEF Contract!vars

\* A call that ends before it sent anything: nothing to send with, nowhere to
\* send to, or a signer that refuses its credentials.
LEMMA LocalErrorCloses ==
  ASSUME TypeOK, LoopInvariant, NEW c \in Caller, Refuse(c) \/ SignFails(c)
  PROVE  Contract!Close(c)
<1> USE DEF Goto, Return
<1>1. /\ pc' = [pc EXCEPT ![c] = "done"]
      /\ pc[c] \in {"begin", "send"}
      /\ \E e \in LocalError : answer' = [answer EXCEPT ![c] = e]
      /\ UNCHANGED <<opt, sends, outcome>>
  BY DEF Refuse, SignFails, LocalError
<1>2. sends[c] = 0
  BY DEF Refuse, SignFails, LoopInvariant, LoopInv, TypeOK
<1>3. [d \in Caller |-> Phase(pc[d])]' = [[d \in Caller |-> Phase(pc[d])] EXCEPT ![c] = "closed"]
  BY <1>1, Phases, PhaseMoves DEF Label
<1> QED
  BY <1>1, <1>2, <1>3, Phases DEF Contract!Close

\* A call that ends with what its last send brought.
LEMMA LastOutcomeCloses ==
  ASSUME TypeOK, LoopInvariant, NEW c \in Caller,
         DecideResponse(c) \/ ((DecideError(c) \/ DecideBusy(c)) /\ pc'[c] = "done")
  PROVE  Contract!Close(c)
<1> USE DEF Goto, Return
<1>1. /\ pc' = [pc EXCEPT ![c] = "done"]
      /\ pc[c] = "decide"
      /\ UNCHANGED <<opt, sends, outcome>>
  BY DEF DecideResponse, DecideError, DecideBusy, NextIteration, TypeOK
<1>2. ~DecideBusy(c)
  BY <1>1 DEF DecideBusy, MayRetryStatus, NextIteration, TypeOK
<1>3. answer' = [answer EXCEPT ![c] = outcome[c]]
  BY <1>1, <1>2 DEF DecideResponse, DecideError, NextIteration, TypeOK
<1>4. sends[c] = attempt[c] + 1 /\ attempt[c] \in Nat
  BY <1>1 DEF LoopInvariant, LoopInv, TypeOK
<1>5. ~Contract!MaySend(c)
  <2>1. CASE DecideResponse(c)
    BY <1>4, <2>1, ContractMaySend DEF DecideResponse, MayRetryStatus, Response, Retryable
  <2>2. CASE DecideError(c)
    <3>1. \/ outcome[c] = "fatal"
          \/ ~opt[c].allow_failover
          \/ ~(attempt[c] + 1 < Attempts(opt[c]))
      BY <1>1, <2>2 DEF DecideError, NextIteration, TypeOK
    <3> QED
      BY <1>4, <3>1, ContractMaySend DEF Retryable
  <2> QED
    BY <1>2, <2>1, <2>2
<1>6. [d \in Caller |-> Phase(pc[d])]' = [[d \in Caller |-> Phase(pc[d])] EXCEPT ![c] = "closed"]
  BY <1>1, Phases, PhaseMoves DEF Label
<1> QED
  BY <1>1, <1>3, <1>4, <1>5, <1>6, Phases DEF Contract!Close

\* The request goes out.
LEMMA SendTries ==
  ASSUME TypeOK, LoopInvariant, NEW c \in Caller, Send(c)
  PROVE  Contract!Try(c)
<1>1. /\ pc[c] = "send" /\ pc' = [pc EXCEPT ![c] = "wait"]
      /\ sends' = [sends EXCEPT ![c] = @ + 1]
      /\ outcome' = [outcome EXCEPT ![c] = None]
      /\ UNCHANGED <<opt, answer>>
  BY DEF Send, Goto
<1>2. Contract!MaySend(c)
  <2>1. /\ attempt[c] \in Nat /\ sends[c] = attempt[c] /\ attempt[c] < Attempts(opt[c])
        /\ attempt[c] > 0 => opt[c].allow_failover /\ outcome[c] \in Retryable
    BY <1>1 DEF LoopInvariant, LoopInv, Trying, TypeOK
  <2> QED
    BY <2>1, ContractMaySend
<1>3. [d \in Caller |-> Phase(pc[d])]' = [[d \in Caller |-> Phase(pc[d])] EXCEPT ![c] = "trying"]
  BY <1>1, Phases, PhaseMoves DEF Label
<1> QED
  BY <1>1, <1>2, <1>3, Phases DEF Contract!Try

\* The transport answers.
LEMMA AnsweredHears ==
  ASSUME TypeOK, NEW c \in Caller, NEW result \in Outcome, Answered(c, result)
  PROVE  Contract!Hear(c, result)
<1>1. /\ pc[c] = "wait" /\ pc' = [pc EXCEPT ![c] = "decide"]
      /\ outcome' = [outcome EXCEPT ![c] = result]
      /\ UNCHANGED <<opt, sends, answer>>
  BY DEF Answered, Goto
<1>2. [d \in Caller |-> Phase(pc[d])]' = [[d \in Caller |-> Phase(pc[d])] EXCEPT ![c] = "open"]
  BY <1>1, Phases, PhaseMoves DEF Label
<1> QED
  BY <1>1, <1>2, Phases DEF Contract!Hear

\* The caller makes a call, under the options its operation turns them into.
LEMMA BeginOpens ==
  ASSUME TypeOK, NEW c \in Caller, NEW op \in Operation, NEW o \in Option, Begin(c, op, o)
  PROVE  Contract!Open(c, OptionsFor(op, o))
<1>1. /\ pc[c] \in {"idle", "done"} /\ pc' = [pc EXCEPT ![c] = "begin"]
      /\ opt' = [opt EXCEPT ![c] = OptionsFor(op, o)]
      /\ sends' = [sends EXCEPT ![c] = 0]
      /\ outcome' = [outcome EXCEPT ![c] = None]
      /\ answer' = [answer EXCEPT ![c] = None]
  BY DEF Begin, Goto
<1>2. [d \in Caller |-> Phase(pc[d])]' = [[d \in Caller |-> Phase(pc[d])] EXCEPT ![c] = "open"]
  BY <1>1, Phases, PhaseMoves DEF Label
<1> QED
  BY <1>1, <1>2, Phases DEF Contract!Open

LEMMA StepRefines ==
  ASSUME TypeOK, LoopInvariant, NEW c \in Caller, Step(c)
  PROVE  Contract!Next \/ UNCHANGED Contract!vars
<1>1. CASE Refuse(c) \/ SignFails(c)
  BY <1>1, LocalErrorCloses DEF Contract!Next
<1>2. CASE Enter(c)
  BY <1>2, QuietSteps
<1>3. CASE Send(c)
  BY <1>3, SendTries DEF Contract!Next
<1>4. ASSUME NEW result \in Outcome, Answered(c, result)
      PROVE  Contract!Next
  <2>1. result \in Retryable \cup (Outcome \ Retryable)
    OBVIOUS
  <2> QED
    BY <1>4, <2>1, AnsweredHears DEF Contract!Next, Contract!Outcome
<1>5. CASE DecideError(c) \/ DecideBusy(c)
  <2>1. pc'[c] \in {"done", "send"}
    BY <1>5 DEF DecideError, DecideBusy, NextIteration, Return, Goto, TypeOK
  <2> QED
    BY <1>5, <2>1, LastOutcomeCloses, QuietSteps DEF Contract!Next
<1>6. CASE DecideResponse(c)
  BY <1>6, LastOutcomeCloses DEF Contract!Next
<1> QED
  BY <1>1, <1>2, <1>3, <1>4, <1>5, <1>6 DEF Step

LEMMA InitRefines == Init => Contract!Init
<1> SUFFICES ASSUME Init PROVE Contract!Init
  OBVIOUS
<1>1. TypeOK
  BY InitTypeOK
<1>2. [d \in Caller |-> Phase(pc[d])] = [d \in Caller |-> "idle"]
  BY Phases DEF Init
<1> QED
  BY <1>1, <1>2 DEF Init, Contract!Init, TypeOK

LEMMA NextRefines ==
  TypeOK /\ LoopInvariant /\ [Next]_vars => [Contract!Next]_(Contract!vars)
<1> SUFFICES ASSUME TypeOK, LoopInvariant, [Next]_vars
             PROVE  Contract!Next \/ UNCHANGED Contract!vars
  OBVIOUS
<1>1. CASE \E c \in Caller, op \in Operation, o \in Option : Begin(c, op, o)
  BY <1>1, BeginOpens, OptionsForLoop DEF Contract!Next
<1>2. CASE UNCHANGED vars
  BY <1>2 DEF vars, Contract!vars
<1> QED
  BY <1>1, <1>2, StepRefines DEF Next

\* Every behaviour of the loop is one the call contract allows: a request is
\* sent again only after a retryable outcome, when the options allow failover,
\* and at most as often as they say; the call returns its last outcome.
THEOREM RotationContractImplemented == Spec => ContractSafety
BY InitRefines, NextRefines, InvariantsHold, PTL DEF Spec, ContractSafety

-----------------------------------------------------------------------------
(***************************************************************************)
(* SignedCalls: the loop with the requests it signs and sends.  Whatever a *)
(* call carries, and with links and time beside it, the loop is the same   *)
(* loop, so that everything above holds of it too.                         *)
(***************************************************************************)
LEMMA OperationOfType == \A a \in Asked : OperationOf(a) \in Operation
BY DEF OperationOf, Operation

LEMMA SignedStepIsStep ==
  ASSUME NEW c \in Caller, SignedStep(c)
  PROVE  Step(c)
BY DEF SignedStep, SignedSend, SignedLoop, Step

LEMMA SignedNextRefines == [SignedNext]_allVars => [Next]_vars
<1>1. ASSUME NEW c \in Caller, NEW a \in Asked, NEW o \in Option, SignedBegin(c, a, o)
      PROVE  Next
  BY <1>1, OperationOfType DEF SignedBegin, Next
<1>2. ASSUME NEW c \in Caller, SignedStep(c)
      PROVE  Next
  BY <1>2, SignedStepIsStep DEF Next
<1>3. ASSUME NEW c \in Caller, NEW a \in LinkAsked, NEW requested \in Requested,
             NEW expires \in Lifetime, Presign(c, a, requested, expires)
      PROVE  UNCHANGED vars
  BY <1>3 DEF Presign, vars
<1>4. CASE Tick
  BY <1>4 DEF Tick, vars
<1>5. CASE UNCHANGED allVars
  BY <1>5 DEF allVars
<1> QED
  BY <1>1, <1>2, <1>3, <1>4, <1>5 DEF SignedNext

\* What is signed, transmitted and presigned never changes the course of a
\* call: the client with its requests implements the loop without them, and
\* its fairness.
THEOREM SignedImplementsLoop == SignedSpec => Spec
<1>1. SignedInit => Init
  BY DEF SignedInit
<1> QED
  BY <1>1, SignedNextRefines, PTL DEF SignedSpec, Spec

\* The types of the loop, in the run of the whole client.
THEOREM SignedTypeCorrect == SignedSpec => []TypeOK
BY SignedImplementsLoop, RotationTypeCorrect, PTL

\* Failover of the whole client reaches every endpoint of the list.
THEOREM SignedReachesAll == SignedSpec => []RotationCovers
BY SignedImplementsLoop, RotationReachesAll, PTL

\* The call contract, of the whole client.
THEOREM SignedContractImplemented == SignedSpec => ContractSafety
BY SignedImplementsLoop, RotationContractImplemented, PTL

-----------------------------------------------------------------------------
(***************************************************************************)
(* Every attempt is signed anew.  While a request is on the wire, it is    *)
(* what its caller asked for, signed for the endpoint this attempt goes to *)
(* and with the time it was sent: no part of it is left over from an       *)
(* earlier attempt at another endpoint.                                    *)
(***************************************************************************)
SentAs(a, endpoint, at) == Transmitted(Signed(Signer(a.service), at, RequestTo(endpoint, a)))

Fresh(c) ==
  pc[c] = "wait" =>
    /\ client.signs
    /\ wire[c].at \in 0..now
    /\ wire[c].request = SentAs(asked[c], client.endpoints[Rotation(attempt[c])], wire[c].at)

WireInv ==
  /\ now \in Nat
  /\ DOMAIN wire = Caller /\ DOMAIN asked = Caller
  /\ \A c \in Caller : Fresh(c)
  /\ \A c \in Caller : pc[c] # "idle" => asked[c] \in Asked

LEMMA InitWire == SignedInit => WireInv
BY DEF SignedInit, Init, WireInv, Fresh

\* A waiting call goes on with what it has sent.
LEMMA FreshStays ==
  ASSUME NEW c \in Caller, Fresh(c), pc'[c] = "wait" => pc[c] = "wait", now \in Nat,
         now' \in {now, now + 1}, client' = client, attempt'[c] = attempt[c],
         wire'[c] = wire[c], asked'[c] = asked[c]
  PROVE  Fresh(c)'
<1>1. ASSUME pc[c] = "wait", wire[c].at \in 0..now
      PROVE  wire[c].at \in 0..now'
  BY <1>1
<1>2. Signer(asked[c].service)' = Signer(asked[c].service)
  BY DEF Signer
<1>3. Rotation(attempt[c])' = Rotation(attempt[c])
  BY DEF Rotation
<1> QED
  BY <1>1, <1>2, <1>3 DEF Fresh, SentAs


LEMMA SendIsFresh ==
  ASSUME TypeOK, WireInv, NEW c \in Caller, SignedSend(c)
  PROVE  Fresh(c)'
<1>1. wire'[c] = [at |-> now, request |-> Transmitted(SignedRequest(c))]
  BY DEF SignedSend, WireInv
<1>2. UNCHANGED <<asked, now, client, attempt>>
  BY DEF SignedSend, Send
<1>3. client'.signs /\ now' \in Nat /\ wire'[c].at \in 0..now'
  BY <1>1, <1>2 DEF WireInv, SignedSend, Send
<1>4. Transmitted(SignedRequest(c)) = SentAs(asked[c], client.endpoints[Rotation(attempt[c])], now)
  BY DEF SignedRequest, SentAs
<1>5. SentAs(asked[c], client.endpoints[Rotation(attempt[c])], now)
        = SentAs(asked[c], client.endpoints[Rotation(attempt[c])], now)'
  BY <1>2 DEF SentAs, Signer, Rotation
<1> QED
  BY <1>1, <1>2, <1>3, <1>4, <1>5 DEF Fresh


LEMMA NextWire == TypeOK /\ WireInv /\ [SignedNext]_allVars => WireInv'
<1> SUFFICES ASSUME TypeOK, WireInv, [SignedNext]_allVars
             PROVE  WireInv'
  OBVIOUS
<1>0. client' = client
  BY SignedNextRefines, ClientStays
<1> DEFINE Steps == \E c \in Caller : SignedStep(c)
           Begins == \E c \in Caller : \E a \in Asked, o \in Option : SignedBegin(c, a, o)
           Rests == \/ \E c \in Caller :
                         \E a \in LinkAsked, requested \in Requested, expires \in Lifetime :
                           Presign(c, a, requested, expires)
                    \/ Tick
                    \/ UNCHANGED allVars
<1>c. Steps \/ Begins \/ Rests
  BY DEF SignedNext
<1>r. Rests => UNCHANGED <<vars, asked, wire>> /\ now' \in {now, now + 1}
  BY DEF Presign, Tick, allVars, traffic
<1>s. Steps => now' = now /\ DOMAIN wire' = Caller /\ asked' = asked
  BY DEF SignedStep, SignedSend, SignedLoop, traffic, WireInv
<1>b. Begins => now' = now /\ DOMAIN wire' = Caller /\ DOMAIN asked' = Caller
  BY DEF SignedBegin, WireInv
<1>1. now' \in Nat /\ DOMAIN wire' = Caller /\ DOMAIN asked' = Caller
  <2>1. now' \in {now, now + 1}
    BY <1>c, <1>r, <1>s, <1>b
  <2>2. DOMAIN wire' = Caller /\ DOMAIN asked' = Caller
    BY <1>c, <1>r, <1>s, <1>b DEF WireInv
  <2> QED
    BY <2>1, <2>2 DEF WireInv
<1>2. ASSUME NEW c \in Caller, SignedStep(c), NEW d \in Caller
      PROVE  Fresh(d)'
  <2>1. CASE d # c
    <3>1. pc'[d] = pc[d] /\ attempt'[d] = attempt[d]
      BY <1>2, <2>1, SignedStepIsStep, StepIsLocal
    <3>2. wire'[d] = wire[d] /\ asked'[d] = asked[d] /\ now' = now
      BY <1>2, <2>1 DEF SignedStep, SignedSend, SignedLoop, traffic, WireInv
    <3> QED
      BY <1>0, <3>1, <3>2, FreshStays DEF WireInv
  <2>2. CASE d = c /\ SignedSend(c)
    BY <2>2, SendIsFresh
  <2>3. CASE d = c /\ SignedLoop(c)
    <3>1. pc'[c] # "wait"
      BY <2>3 DEF SignedLoop, Refuse, Enter, SignFails, Answered, DecideError, DecideBusy,
                  DecideResponse, NextIteration, Return, Goto, TypeOK
    <3> QED
      BY <2>3, <3>1 DEF Fresh
  <2> QED
    BY <1>2, <2>1, <2>2, <2>3 DEF SignedStep
<1>3. ASSUME NEW c \in Caller, NEW a \in Asked, NEW o \in Option, SignedBegin(c, a, o),
             NEW d \in Caller
      PROVE  Fresh(d)'
  <2>1. CASE d = c
    BY <1>3, <2>1 DEF SignedBegin, Begin, Goto, TypeOK, Fresh
  <2>2. CASE d # c
    <3>1. /\ pc'[d] = pc[d] /\ attempt'[d] = attempt[d]
          /\ wire'[d] = wire[d] /\ asked'[d] = asked[d] /\ now' = now
      BY <1>3, <2>2 DEF SignedBegin, Begin, Goto, TypeOK, WireInv
    <3> QED
      BY <1>0, <3>1, FreshStays DEF WireInv
  <2> QED
    BY <2>1, <2>2
<1>4. ASSUME UNCHANGED <<vars, asked, wire>>, now' \in {now, now + 1}, NEW d \in Caller
      PROVE  Fresh(d)'
  BY <1>0, <1>4, FreshStays DEF vars, WireInv
<1>5. ASSUME NEW d \in Caller PROVE Fresh(d)'
  BY <1>c, <1>r, <1>2, <1>3, <1>4, <1>5
<1>6. ASSUME NEW d \in Caller, pc'[d] # "idle" PROVE asked'[d] \in Asked
  <2>1. ASSUME NEW c \in Caller, SignedStep(c) PROVE asked'[d] \in Asked
    <3>1. asked' = asked
      BY <1>s, <2>1
    <3>2. pc[c] # "idle"
      BY <2>1, SignedStepIsStep DEF Step, Refuse, Enter, SignFails, Send, Answered, DecideError,
                  DecideBusy, DecideResponse
    <3>3. d # c => pc'[d] = pc[d]
      BY <2>1, SignedStepIsStep, StepIsLocal
    <3> QED
      BY <1>6, <3>1, <3>2, <3>3 DEF WireInv
  <2>2. ASSUME NEW c \in Caller, NEW a \in Asked, NEW o \in Option, SignedBegin(c, a, o)
        PROVE  asked'[d] \in Asked
    <3>1. d # c => pc'[d] = pc[d]
      BY <2>2 DEF SignedBegin, Begin, Goto, TypeOK
    <3>2. asked' = [asked EXCEPT ![c] = a]
      BY <2>2 DEF SignedBegin
    <3> QED
      BY <1>6, <3>1, <3>2 DEF WireInv
  <2>3. Rests => asked'[d] \in Asked
    BY <1>r, <1>6 DEF vars, WireInv
  <2> QED
    BY <1>c, <2>1, <2>2, <2>3
<1> QED
  BY <1>1, <1>5, <1>6 DEF WireInv

LEMMA WireHolds == SignedSpec => []WireInv
<1>1. SignedInit => WireInv
  BY InitWire
<1> QED
  BY <1>1, NextWire, SignedTypeCorrect, PTL DEF SignedSpec


-----------------------------------------------------------------------------
(***************************************************************************)
(* Induction over the natural numbers, with a set for the predicate.       *)
(***************************************************************************)
LEMMA LeastNatural ==
  ASSUME NEW T, T \subseteq Nat, T # {}
  PROVE  \E x \in T : \A y \in T : x <= y
<1> DEFINE less == OpToRel(<, Nat)
<1>1. \A x, y \in Nat : y < x => <<y, x>> \in less
  BY DEF OpToRel
<1>2. IsWellFoundedOn(less, Nat)
  BY NatLessThanWellFounded
<1> HIDE DEF less
<1>3. PICK x \in T : \A y \in T : ~ (<<y, x>> \in less)
  BY <1>2, WFMin
<1>4. ASSUME NEW y \in T PROVE x <= y
  <2>1. x \in Nat /\ y \in Nat /\ ~ (y < x)
    BY <1>1, <1>3
  <2> QED
    BY <2>1
<1> QED
  BY <1>4

LEMMA SetInduction ==
  ASSUME NEW T, 0 \in T, \A n \in Nat : n \in T => n + 1 \in T
  PROVE  Nat \subseteq T
<1> DEFINE missing == Nat \ T
<1> SUFFICES ASSUME missing # {} PROVE FALSE
  OBVIOUS
<1>1. PICK x \in missing : \A y \in missing : x <= y
  BY LeastNatural
<1>2. x # 0 /\ x \in Nat
  OBVIOUS
<1>3. x - 1 \in Nat /\ ~ (x <= x - 1) /\ (x - 1) + 1 = x
  BY <1>2
<1>4. x - 1 \in T
  BY <1>1, <1>3
<1> QED
  BY <1>3, <1>4

-----------------------------------------------------------------------------
(***************************************************************************)
(* The recursive functions of the texts: that there is a function with the *)
(* equations of its definition, read from the right or from the left.      *)
(***************************************************************************)

\* What Rewritten reads from position i on, given what it reads further right.
ReadFrom(f, i, n, jumps, piece) ==
  IF i > n THEN <<>> ELSE IF jumps[i] THEN piece[i] \o f[i + 3] ELSE piece[i] \o f[i + 1]

ReadsOn(f, n, jumps, piece) == f = [i \in 1..n + 3 |-> ReadFrom(f, i, n, jumps, piece)]

LEMMA ReadingExists ==
  ASSUME NEW n \in Nat, NEW jumps, NEW piece
  PROVE  \E f : ReadsOn(f, n, jumps, piece)
<1> DEFINE Dom == 1..n + 3
           At(f, i) == ReadFrom(f, i, n, jumps, piece)
           Known(m) == \E f : /\ f = [i \in Dom |-> f[i]]
                              /\ \A i \in Dom : i > n - m => f[i] = At(f, i)
           T == {m \in Nat : Known(m)}
<1>1. 0 \in T
  <2> DEFINE f == [i \in Dom |-> <<>>]
  <2>1. f = [i \in Dom |-> f[i]]
    OBVIOUS
  <2>2. \A i \in Dom : i > n - 0 => f[i] = At(f, i)
    BY DEF ReadFrom
  <2> QED
    BY <2>1, <2>2
<1>2. ASSUME NEW m \in Nat, m \in T PROVE m + 1 \in T
  <2>1. PICK f : /\ f = [i \in Dom |-> f[i]]
                 /\ \A i \in Dom : i > n - m => f[i] = At(f, i)
    BY <1>2
  <2>2. CASE m >= n
    <3>1. \A i \in Dom : i > n - m
      BY <2>2
    <3> QED
      BY <2>1, <3>1
  <2>3. CASE m < n
    <3> DEFINE k == n - m
               g == [i \in Dom |-> IF i = k THEN At(f, k) ELSE f[i]]
    <3>1. k \in 1..n /\ k \in Dom
      BY <2>3
    <3>2. ASSUME NEW i \in Dom, i >= k PROVE At(g, i) = At(f, i)
      <4>1. CASE i > n
        BY <4>1 DEF ReadFrom
      <4>2. CASE i <= n
        <5>1. i + 1 \in Dom /\ i + 3 \in Dom /\ i + 1 # k /\ i + 3 # k
          BY <3>1, <3>2, <4>2
        <5>2. g[i + 1] = f[i + 1] /\ g[i + 3] = f[i + 3]
          BY <5>1
        <5> QED
          BY <5>2 DEF ReadFrom
      <4> QED
        BY <4>1, <4>2
    <3>3. ASSUME NEW i \in Dom, i > n - (m + 1) PROVE g[i] = At(g, i)
      <4>1. i = k \/ (i > k /\ i > n - m)
        BY <3>1, <3>3
      <4>2. At(g, i) = At(f, i)
        BY <3>1, <3>2, <4>1
      <4>3. g[i] = At(f, i)
        <5>1. CASE i = k
          BY <3>1, <5>1
        <5>2. CASE i # k
          BY <2>1, <3>1, <4>1, <5>2
        <5> QED
          BY <5>1, <5>2
      <4> QED
        BY <4>2, <4>3
    <3>4. g = [i \in Dom |-> g[i]]
      OBVIOUS
    <3> HIDE DEF g
    <3> QED
      BY <3>3, <3>4
  <2> QED
    BY <2>2, <2>3
<1>3. n \in T
  <2> HIDE DEF T
  <2> QED
    BY <1>1, <1>2, SetInduction
<1>4. PICK f : f = [i \in Dom |-> f[i]] /\ \A i \in Dom : i > n - n => f[i] = At(f, i)
  BY <1>3
<1>5. \A i \in Dom : f[i] = At(f, i)
  BY <1>4
<1>6. f = [i \in Dom |-> At(f, i)]
  BY <1>4, <1>5
<1> QED
  BY <1>6 DEF ReadsOn

\* A text and what comes after it, joined from the left.
JoinedUpTo(f, i, s) == IF i = 1 THEN s[i] ELSE f[i - 1] \o s[i]

LEMMA JoiningExists ==
  ASSUME NEW n \in Nat, NEW s
  PROVE  \E f : f = [i \in 1..n |-> JoinedUpTo(f, i, s)]
<1> DEFINE Dom == 1..n
           At(f, i) == JoinedUpTo(f, i, s)
           Known(m) == \E f : /\ f = [i \in Dom |-> f[i]]
                              /\ \A i \in Dom : i <= m => f[i] = At(f, i)
           T == {m \in Nat : Known(m)}
<1>1. 0 \in T
  <2> DEFINE f == [i \in Dom |-> <<>>]
  <2>1. f = [i \in Dom |-> f[i]]
    OBVIOUS
  <2>2. \A i \in Dom : i <= 0 => f[i] = At(f, i)
    OBVIOUS
  <2> HIDE DEF f
  <2> QED
    BY <2>1, <2>2
<1>2. ASSUME NEW m \in Nat, m \in T PROVE m + 1 \in T
  <2>1. PICK f : /\ f = [i \in Dom |-> f[i]]
                 /\ \A i \in Dom : i <= m => f[i] = At(f, i)
    BY <1>2
  <2> DEFINE k == m + 1
             g == [i \in Dom |-> IF i = k THEN At(f, k) ELSE f[i]]
  <2>2. ASSUME NEW i \in Dom, i <= k PROVE At(g, i) = At(f, i)
    <3>1. CASE i = 1
      BY <3>1 DEF JoinedUpTo
    <3>2. CASE i # 1
      <4>1. i - 1 \in Dom /\ i - 1 # k
        BY <2>2, <3>2
      <4>2. g[i - 1] = f[i - 1]
        BY <4>1
      <4> QED
        BY <4>2 DEF JoinedUpTo
    <3> QED
      BY <3>1, <3>2
  <2>3. ASSUME NEW i \in Dom, i <= k PROVE g[i] = At(g, i)
    <3>1. CASE i = k
      BY <2>2, <2>3, <3>1
    <3>2. CASE i # k
      <4>1. i <= m
        BY <2>3, <3>2
      <4>2. g[i] = f[i]
        BY <3>2
      <4> QED
        BY <2>1, <2>2, <2>3, <4>1, <4>2
    <3> QED
      BY <3>1, <3>2
  <2>4. g = [i \in Dom |-> g[i]]
    OBVIOUS
  <2> HIDE DEF g
  <2> QED
    BY <2>3, <2>4
<1>3. n \in T
  <2> HIDE DEF T
  <2> QED
    BY <1>1, <1>2, SetInduction
<1>4. PICK f : f = [i \in Dom |-> f[i]] /\ \A i \in Dom : i <= n => f[i] = At(f, i)
  BY <1>3
<1>5. \A i \in Dom : f[i] = At(f, i)
  BY <1>4
<1>6. f = [i \in Dom |-> At(f, i)]
  BY <1>4, <1>5
<1> QED
  BY <1>6

\* FlattenSeq of a sequence of texts, as the last of the texts joined so far.
LEMMA FlattenJoins ==
  ASSUME NEW S, NEW s \in Seq(Seq(S))
  PROVE  \E p \in [0..Len(s) -> Seq(S)] :
           /\ p[0] = <<>>
           /\ \A k \in 1..Len(s) : p[k] = p[k - 1] \o s[k]
           /\ FlattenSeq(s) = p[Len(s)]
<1> DEFINE n == Len(s)
           Rec(f) == f = [i \in 1..n |-> IF i = 1 THEN s[i] ELSE f[i - 1] \o s[i]]
           f == CHOOSE g : Rec(g)
<1>0. n \in Nat /\ \A i \in 1..n : s[i] \in Seq(S)
  OBVIOUS
<1>1. \E g : Rec(g)
  BY <1>0, JoiningExists DEF JoinedUpTo
<1>2. Rec(f)
  BY <1>1
<1>3. n # 0 => FlattenSeq(s) = f[n]
  BY DEF FlattenSeq
<1>4. n = 0 => FlattenSeq(s) = <<>>
  BY <1>0 DEF FlattenSeq
<1> HIDE DEF f
<1>5. \A i \in 1..n : f[i] = IF i = 1 THEN s[i] ELSE f[i - 1] \o s[i]
  BY <1>2
<1> HIDE DEF Rec, n
<1> DEFINE p == [k \in 0..n |-> IF k = 0 THEN <<>> ELSE f[k]]
           T == {k \in Nat : k <= n => p[k] \in Seq(S)}
<1>6. ASSUME NEW k \in 1..n PROVE p[k] = p[k - 1] \o s[k]
  <2>1. CASE k = 1
    <3>1. p[k] = s[k] /\ p[k - 1] = <<>>
      BY <1>0, <1>5, <2>1
    <3> QED
      BY <1>0, <3>1, ConcatEmptySeq
  <2>2. CASE k # 1
    <3>1. k - 1 \in 0..n /\ k - 1 # 0 /\ k \in 0..n /\ k # 0
      BY <1>0, <2>2
    <3> QED
      BY <1>5, <2>2, <3>1
  <2> QED
    BY <2>1, <2>2
<1>8. p[0] = <<>> /\ FlattenSeq(s) = p[n]
  BY <1>0, <1>3, <1>4
<1>p. p = [k \in 0..n |-> p[k]]
  OBVIOUS
<1> HIDE DEF p
<1>7. \A k \in 0..n : p[k] \in Seq(S)
  <2>1. 0 \in T
    BY <1>8, EmptySeq
  <2>2. ASSUME NEW k \in Nat, k \in T PROVE k + 1 \in T
    <3>1. CASE k + 1 <= n
      <4>1. k + 1 \in 1..n /\ k <= n /\ (k + 1) - 1 = k
        BY <1>0, <3>1
      <4>2. p[k + 1] = p[k] \o s[k + 1] /\ p[k] \in Seq(S) /\ s[k + 1] \in Seq(S)
        BY <1>0, <1>6, <2>2, <4>1
      <4>3. p[k] \o s[k + 1] \in Seq(S)
        BY <4>2, ConcatProperties
      <4>4. p[k + 1] \in Seq(S)
        BY <4>2, <4>3, Zenon
      <4> QED
        BY <4>4
    <3> QED
      BY <3>1
  <2> HIDE DEF T
  <2>3. Nat \subseteq T
    BY <2>1, <2>2, SetInduction
  <2> QED
    BY <1>0, <2>3 DEF T
<1>9. p \in [0..n -> Seq(S)]
  BY <1>7, <1>p
<1> QED
  BY <1>6, <1>8, <1>9 DEF n

-----------------------------------------------------------------------------
(***************************************************************************)
(* Percent coding: what the signer and the operations encode is what the   *)
(* service decodes, whatever bytes it is made of.                          *)
(***************************************************************************)
LEMMA HexRoundTrip ==
  ASSUME NEW d \in 0..15
  PROVE  /\ HexDigit(d) \in Nat /\ IsHex(HexDigit(d)) /\ Unreserved(HexDigit(d))
         /\ HexValue(HexDigit(d)) = d
BY DEF HexDigit, IsHex, HexValue, UpperHex, Unreserved, Digit, Lower, Upper

LEMMA Nibbles ==
  ASSUME NEW c \in 0..255
  PROVE  c \div 16 \in 0..15 /\ c % 16 \in 0..15 /\ 16 * (c \div 16) + (c % 16) = c
OBVIOUS

LEMMA RawShape ==
  ASSUME NEW c \in Nat, NEW kept
  PROVE  \/ Raw(c, kept) = <<c>> /\ (Unreserved(c) \/ c \in kept)
         \/ \E h, l \in Nat :
              /\ Raw(c, kept) = <<Percent, h, l>>
              /\ IsHex(h) /\ IsHex(l) /\ Unreserved(h) /\ Unreserved(l)
              /\ 16 * HexValue(h) + HexValue(l) = c
<1>1. CASE Unreserved(c) \/ c \in kept
  BY <1>1 DEF Raw
<1>2. CASE ~(Unreserved(c) \/ c \in kept)
  <2>1. c \in 0..255
    BY <1>2 DEF Unreserved
  <2> DEFINE h == HexDigit(c \div 16)
             l == HexDigit(c % 16)
  <2>2. Raw(c, kept) = <<Percent, h, l>>
    BY <1>2 DEF Raw, Escape
  <2>3. /\ h \in Nat /\ IsHex(h) /\ Unreserved(h) /\ HexValue(h) = c \div 16
        /\ l \in Nat /\ IsHex(l) /\ Unreserved(l) /\ HexValue(l) = c % 16
    BY <2>1, Nibbles, HexRoundTrip
  <2>4. 16 * HexValue(h) + HexValue(l) = c
    BY <2>1, <2>3, Nibbles
  <2> HIDE DEF h, l
  <2> QED
    BY <2>2, <2>3, <2>4
<1> QED
  BY <1>1, <1>2

\* The bytes an encoded text is made of.
Plain(kept) == {c \in Nat : Unreserved(c) \/ c \in kept} \cup {Percent}

LEMMA Literals ==
  ASSUME NEW S, NEW a \in S, NEW b \in S, NEW c \in S
  PROVE  <<a>> \in Seq(S) /\ <<a, b, c>> \in Seq(S)
OBVIOUS

LEMMA RawType ==
  ASSUME NEW c \in Nat, NEW kept
  PROVE  Raw(c, kept) \in Seq(Nat) /\ Raw(c, kept) \in Seq(Plain(kept))
<1>0. Percent \in Nat /\ Percent \in Plain(kept)
  BY DEF Percent, Plain
<1>1. Raw(c, kept) \in Seq(Nat)
  <2>1. CASE Raw(c, kept) = <<c>>
    BY <2>1, Literals, Zenon
  <2>2. ASSUME NEW h \in Nat, NEW l \in Nat, Raw(c, kept) = <<Percent, h, l>>
        PROVE  Raw(c, kept) \in Seq(Nat)
    BY <1>0, <2>2, Literals, Zenon
  <2> QED
    BY <2>1, <2>2, RawShape, Zenon
<1>2. Raw(c, kept) \in Seq(Plain(kept))
  <2>1. CASE Raw(c, kept) = <<c>> /\ (Unreserved(c) \/ c \in kept)
    <3>1. c \in Plain(kept)
      BY <2>1 DEF Plain
    <3> QED
      BY <2>1, <3>1, Literals, Zenon
  <2>2. ASSUME NEW h \in Nat, NEW l \in Nat, Raw(c, kept) = <<Percent, h, l>>,
               Unreserved(h), Unreserved(l)
        PROVE  Raw(c, kept) \in Seq(Plain(kept))
    <3>1. h \in Plain(kept) /\ l \in Plain(kept)
      BY <2>2 DEF Plain
    <3> QED
      BY <1>0, <2>2, <3>1, Literals, Zenon
  <2> QED
    BY <2>1, <2>2, RawShape, Zenon
<1> QED
  BY <1>1, <1>2

\* p[k] is the encoding of the first k bytes of a text.
Encoding(p, text, kept, S) ==
  /\ p \in [0..Len(text) -> Seq(S)]
  /\ p[0] = <<>>
  /\ \A k \in 1..Len(text) : p[k] = p[k - 1] \o Raw(text[k], kept)
  /\ PercentEncode(text, kept) = p[Len(text)]

LEMMA EncodedPieces ==
  ASSUME NEW S, NEW kept, NEW text \in Seq(Nat), \A c \in Nat : Raw(c, kept) \in Seq(S)
  PROVE  \E p : Encoding(p, text, kept, S)
<1> DEFINE s == [i \in DOMAIN text |-> Raw(text[i], kept)]
<1>1. DOMAIN text = 1..Len(text) /\ Len(text) \in Nat /\ \A i \in 1..Len(text) : text[i] \in Nat
  BY LenProperties, ElementOfSeq
<1>2. s \in Seq(Seq(S)) /\ Len(s) = Len(text) /\ \A k \in 1..Len(text) : s[k] = Raw(text[k], kept)
  BY <1>1
<1>3. PercentEncode(text, kept) = FlattenSeq(s)
  BY DEF PercentEncode
<1> HIDE DEF s
<1>4. PICK p \in [0..Len(s) -> Seq(S)] :
        /\ p[0] = <<>>
        /\ \A k \in 1..Len(s) : p[k] = p[k - 1] \o s[k]
        /\ FlattenSeq(s) = p[Len(s)]
  BY <1>2, FlattenJoins
<1>5. \A k \in 1..Len(text) : p[k] = p[k - 1] \o Raw(text[k], kept)
  BY <1>2, <1>4
<1>6. p \in [0..Len(text) -> Seq(S)] /\ PercentEncode(text, kept) = p[Len(text)]
  BY <1>2, <1>3, <1>4
<1> QED
  BY <1>4, <1>5, <1>6 DEF Encoding

LEMMA EncodedType ==
  ASSUME NEW text \in Seq(Nat), NEW kept
  PROVE  PercentEncode(text, kept) \in Seq(Nat) /\ PercentEncode(text, kept) \in Seq(Plain(kept))
<1>1. Len(text) \in 0..Len(text)
  BY LenProperties
<1>3. PercentEncode(text, kept) \in Seq(Nat)
  <2>1. \A c \in Nat : Raw(c, kept) \in Seq(Nat)
    BY RawType
  <2>2. PICK p : Encoding(p, text, kept, Nat)
    BY <2>1, EncodedPieces
  <2> QED
    BY <1>1, <2>2 DEF Encoding
<1>4. PercentEncode(text, kept) \in Seq(Plain(kept))
  <2>1. \A c \in Nat : Raw(c, kept) \in Seq(Plain(kept))
    BY RawType
  <2>2. PICK p : Encoding(p, text, kept, Plain(kept))
    BY <2>1, EncodedPieces
  <2> QED
    BY <1>1, <2>2 DEF Encoding
<1> QED
  BY <1>3, <1>4

\* f[i] is what the service reads in a text from position i on.
Reading(f, text) ==
  /\ Decoded(text) = f[1]
  /\ \A i \in 1..Len(text) + 3 :
       f[i] = IF i > Len(text) THEN <<>>
              ELSE IF IsEscape(text, i)
                THEN <<16 * HexValue(text[i + 1]) + HexValue(text[i + 2])>> \o f[i + 3]
              ELSE <<text[i]>> \o f[i + 1]

LEMMA DecodedRead ==
  ASSUME NEW text \in Seq(Nat)
  PROVE  \E f : Reading(f, text)
<1> DEFINE Dom == 1..Len(text) + 3
           Rec(f) == f = [i \in Dom |->
                            IF i > Len(text) THEN <<>>
                            ELSE IF IsEscape(text, i)
                              THEN <<16 * HexValue(text[i + 1]) + HexValue(text[i + 2])>> \o f[i + 3]
                            ELSE <<text[i]>> \o f[i + 1]]
           n == Len(text)
           jumps == [i \in Dom |-> IsEscape(text, i)]
           piece == [i \in Dom |-> IF IsEscape(text, i)
                                     THEN <<16 * HexValue(text[i + 1]) + HexValue(text[i + 2])>>
                                     ELSE <<text[i]>>]
<1>0. n \in Nat
  BY LenProperties
<1>1. \E f : Rec(f)
  <2>1. /\ \A i \in Dom : jumps[i] = IsEscape(text, i)
        /\ \A i \in Dom : IsEscape(text, i) =>
             piece[i] = <<16 * HexValue(text[i + 1]) + HexValue(text[i + 2])>>
        /\ \A i \in Dom : ~IsEscape(text, i) => piece[i] = <<text[i]>>
    OBVIOUS
  <2> HIDE DEF jumps, piece
  <2>2. PICK f : ReadsOn(f, n, jumps, piece)
    BY <1>0, ReadingExists
  <2>3. ASSUME NEW i \in Dom
        PROVE  ReadFrom(f, i, n, jumps, piece)
                 = IF i > n THEN <<>>
                   ELSE IF IsEscape(text, i)
                     THEN <<16 * HexValue(text[i + 1]) + HexValue(text[i + 2])>> \o f[i + 3]
                   ELSE <<text[i]>> \o f[i + 1]
    BY <2>1, Zenon DEF ReadFrom
  <2>4. Rec(f)
    BY <2>2, <2>3, Zenon DEF ReadsOn
  <2> QED
    BY <2>4
<1> DEFINE f == CHOOSE g : Rec(g)
<1>2. Rec(f)
  BY <1>1
<1>3. Decoded(text) = f[1]
  BY DEF Decoded, Rewritten
<1> HIDE DEF f
<1>4. \A i \in Dom :
       f[i] = IF i > Len(text) THEN <<>>
              ELSE IF IsEscape(text, i)
                THEN <<16 * HexValue(text[i + 1]) + HexValue(text[i + 2])>> \o f[i + 3]
              ELSE <<text[i]>> \o f[i + 1]
  BY <1>2, Zenon
<1> QED
  BY <1>3, <1>4, Zenon DEF Reading

\* The encoded text starts with the encoding of each of its beginnings.
LEMMA EncodingStarts ==
  ASSUME NEW text \in Seq(Nat), NEW kept, NEW p, Encoding(p, text, kept, Nat),
         NEW k \in 0..Len(text)
  PROVE  /\ Len(p[k]) <= Len(PercentEncode(text, kept))
         /\ \A j \in 1..Len(p[k]) : PercentEncode(text, kept)[j] = p[k][j]
<1> DEFINE n == Len(text)
           e == PercentEncode(text, kept)
           Starts(i) == Len(p[i]) <= Len(e) /\ \A j \in 1..Len(p[i]) : e[j] = p[i][j]
           T == {m \in Nat : m <= n => Starts(n - m)}
<1>0. n \in Nat /\ \A i \in 0..n : p[i] \in Seq(Nat) /\ Len(p[i]) \in Nat
  BY LenProperties DEF Encoding
<1>1. 0 \in T
  <2>1. n - 0 = n /\ p[n] = e
    BY <1>0 DEF Encoding
  <2>2. Len(p[n]) \in Nat
    BY <1>0
  <2> QED
    BY <2>1, <2>2
<1>2. ASSUME NEW m \in Nat, m \in T PROVE m + 1 \in T
  <2> SUFFICES ASSUME m + 1 <= n PROVE Starts(n - (m + 1))
    OBVIOUS
  <2> DEFINE i == n - m
  <2>1. i \in 1..n /\ i \in 0..n /\ i - 1 \in 0..n /\ n - (m + 1) = i - 1 /\ m <= n
    BY <1>0
  <2>2. Starts(i)
    BY <1>2, <2>1
  <2> HIDE DEF i
  <2> DEFINE r == Raw(text[i], kept)
  <2>3. r \in Seq(Nat) /\ p[i - 1] \in Seq(Nat) /\ p[i] = p[i - 1] \o r
    BY <1>0, <2>1, RawType, ElementOfSeq DEF Encoding
  <2> HIDE DEF r
  <2> DEFINE q == p[i - 1]
  <2>4. /\ Len(p[i]) = Len(q) + Len(r) /\ Len(q) \in Nat /\ Len(r) \in Nat
        /\ \A j \in 1..Len(q) + Len(r) : p[i][j] = IF j <= Len(q) THEN q[j] ELSE r[j - Len(q)]
    BY <2>3, ConcatProperties, LenProperties
  <2> HIDE DEF q, e
  <2>5. Len(e) \in Int
    <3>1. e \in Seq(Nat)
      BY EncodedType DEF e
    <3> QED
      BY <3>1, LenProperties
  <2>6. Len(q) <= Len(e) /\ \A j \in 1..Len(q) : e[j] = q[j]
    <3> DEFINE whole == p[i]
    <3>1. Len(whole) <= Len(e) /\ \A j \in 1..Len(whole) : e[j] = whole[j]
      BY <2>2
    <3>2. /\ Len(whole) = Len(q) + Len(r)
          /\ \A j \in 1..Len(q) + Len(r) : whole[j] = IF j <= Len(q) THEN q[j] ELSE r[j - Len(q)]
      BY <2>4
    <3> HIDE DEF whole
    <3>3. Len(q) <= Len(e)
      BY <2>4, <2>5, <3>1, <3>2
    <3>4. ASSUME NEW j \in 1..Len(q) PROVE e[j] = q[j]
      <4>1. j \in 1..Len(q) + Len(r) /\ j <= Len(q)
        BY <2>4
      <4> QED
        BY <3>1, <3>2, <4>1
    <3> QED
      BY <3>3, <3>4
  <2> QED
    BY <2>1, <2>6 DEF q
<1>3. n - k \in T
  <2>1. Nat \subseteq T
    <3> HIDE DEF T
    <3> QED
      BY <1>1, <1>2, SetInduction
  <2> QED
    BY <1>0, <2>1
<1>4. Starts(k)
  <2>1. n - k <= n /\ n - (n - k) = k
    BY <1>0
  <2> QED
    BY <1>3, <2>1
<1> QED
  BY <1>4

\* One piece of an encoding, at the place where it stands, and what follows it.
LEMMA PieceRead ==
  ASSUME NEW text \in Seq(Nat), NEW kept, Percent \notin kept,
         NEW p, Encoding(p, text, kept, Nat),
         NEW f, Reading(f, PercentEncode(text, kept)), NEW k \in 1..Len(text)
  PROVE  f[Len(p[k - 1]) + 1] = <<text[k]>> \o f[Len(p[k]) + 1]
<1> DEFINE e == PercentEncode(text, kept)
           c == text[k]
           r == Raw(c, kept)
           q == p[k - 1]
           i == Len(q) + 1
<1>1. c \in Nat /\ k \in 0..Len(text) /\ k - 1 \in 0..Len(text)
  BY LenProperties, ElementOfSeq
<1>2. q \in Seq(Nat) /\ p[k] \in Seq(Nat) /\ p[k] = q \o r /\ r \in Seq(Nat) /\ e \in Seq(Nat)
  BY <1>1, RawType, EncodedType DEF Encoding
<1>3. Len(p[k]) <= Len(e) /\ \A j \in 1..Len(p[k]) : e[j] = p[k][j]
  BY <1>1, EncodingStarts
<1>4. \/ r = <<c>> /\ (Unreserved(c) \/ c \in kept)
      \/ \E h, l \in Nat :
           /\ r = <<Percent, h, l>>
           /\ IsHex(h) /\ IsHex(l)
           /\ 16 * HexValue(h) + HexValue(l) = c
  BY <1>1, RawShape
<1>5. \A j \in 1..Len(e) + 3 :
        f[j] = IF j > Len(e) THEN <<>>
               ELSE IF IsEscape(e, j)
                 THEN <<16 * HexValue(e[j + 1]) + HexValue(e[j + 2])>> \o f[j + 3]
               ELSE <<e[j]>> \o f[j + 1]
  BY DEF Reading
<1> HIDE DEF e, c, r, q
<1>6. /\ Len(q) \in Nat /\ Len(r) \in Nat /\ Len(e) \in Nat /\ Len(p[k]) = Len(q) + Len(r)
      /\ \A j \in 1..Len(r) : p[k][Len(q) + j] = r[j]
  <2>1. /\ Len(q) \in Nat /\ Len(r) \in Nat /\ Len(e) \in Nat /\ Len(p[k]) = Len(q) + Len(r)
        /\ \A j \in 1..Len(q) + Len(r) : p[k][j] = IF j <= Len(q) THEN q[j] ELSE r[j - Len(q)]
    BY <1>2, ConcatProperties, LenProperties
  <2>2. ASSUME NEW j \in 1..Len(r) PROVE p[k][Len(q) + j] = r[j]
    <3>1. Len(q) + j \in 1..Len(q) + Len(r) /\ ~(Len(q) + j <= Len(q)) /\ (Len(q) + j) - Len(q) = j
      BY <2>1
    <3> QED
      BY <2>1, <3>1
  <2> QED
    BY <2>1, <2>2
<1>7. \A j \in 1..Len(r) : e[Len(q) + j] = r[j]
  <2> SUFFICES ASSUME NEW j \in 1..Len(r) PROVE e[Len(q) + j] = r[j]
    OBVIOUS
  <2>1. Len(q) + j \in 1..Len(p[k])
    BY <1>6
  <2> QED
    BY <1>3, <1>6, <2>1
<1>8. CASE r = <<c>> /\ (Unreserved(c) \/ c \in kept)
  <2>1. Len(r) = 1 /\ r[1] = c
    BY <1>8
  <2>2. e[i] = c /\ i \in 1..Len(e) + 3 /\ ~(i > Len(e)) /\ Len(p[k]) + 1 = i + 1
    BY <1>3, <1>6, <1>7, <2>1
  <2>3. c # Percent
    <3>1. ~Unreserved(Percent)
      BY DEF Unreserved, Percent, Digit, Upper, Lower
    <3> QED
      BY <1>8, <3>1
  <2>4. ~IsEscape(e, i)
    BY <2>2, <2>3 DEF IsEscape
  <2>5. f[i] = <<c>> \o f[i + 1]
    BY <1>5, <2>2, <2>4
  <2> QED
    BY <2>2, <2>5 DEF q, c
<1>9. ASSUME NEW h \in Nat, NEW l \in Nat, r = <<Percent, h, l>>, IsHex(h), IsHex(l),
             16 * HexValue(h) + HexValue(l) = c
      PROVE  f[i] = <<c>> \o f[Len(p[k]) + 1]
  <2>1. Len(r) = 3 /\ r[1] = Percent /\ r[2] = h /\ r[3] = l
    BY <1>9
  <2>2. /\ i \in 1..Len(e) + 3 /\ ~(i > Len(e)) /\ i + 2 <= Len(e) /\ Len(p[k]) + 1 = i + 3
        /\ Len(q) + 1 = i /\ Len(q) + 2 = i + 1 /\ Len(q) + 3 = i + 2
    <3> DEFINE x == Len(q)
               y == Len(e)
               z == Len(p[k])
    <3>1. x \in Nat /\ y \in Nat /\ z = x + 3 /\ z <= y
      BY <1>3, <1>6, <2>1
    <3> HIDE DEF x, y, z
    <3>2. /\ x + 1 \in 1..y + 3 /\ ~(x + 1 > y) /\ (x + 1) + 2 <= y /\ z + 1 = (x + 1) + 3
          /\ x + 2 = (x + 1) + 1 /\ x + 3 = (x + 1) + 2
      BY <3>1
    <3> QED
      BY <3>2 DEF x, y, z
  <2>3. e[i] = Percent /\ e[i + 1] = h /\ e[i + 2] = l
    BY <1>6, <1>7, <2>1, <2>2
  <2>4. IsEscape(e, i)
    BY <1>9, <2>2, <2>3 DEF IsEscape
  <2>5. f[i] = <<16 * HexValue(e[i + 1]) + HexValue(e[i + 2])>> \o f[i + 3]
    BY <1>5, <2>2, <2>4
  <2> QED
    BY <1>9, <2>2, <2>3, <2>5, Zenon
<1> QED
  BY <1>4, <1>8, <1>9 DEF q, c

\* What was encoded is decoded: any bytes, whichever of them are kept.
LEMMA DecodedEncoded ==
  ASSUME NEW text \in Seq(Nat), NEW kept, Percent \notin kept
  PROVE  Decoded(PercentEncode(text, kept)) = text
<1> DEFINE n == Len(text)
           e == PercentEncode(text, kept)
<1>1. n \in Nat
  BY LenProperties
<1>2. PICK p : Encoding(p, text, kept, Nat)
  BY RawType, EncodedPieces
<1>3. PICK f : Reading(f, e)
  BY EncodedType, DecodedRead
<1>p. ASSUME NEW k \in 1..Len(text)
      PROVE  f[Len(p[k - 1]) + 1] = <<text[k]>> \o f[Len(p[k]) + 1]
  <2> HIDE DEF n
  <2> QED
    BY <1>2, <1>3, PieceRead
<1> DEFINE Rest(k) == f[Len(p[k]) + 1] = SubSeq(text, k + 1, n)
           T == {m \in Nat : m <= n => Rest(n - m)}
<1>4. 0 \in T
  <2>1. p[n] = e /\ n - 0 = n
    BY <1>1, <1>2 DEF Encoding
  <2>2. Len(e) \in Nat
    BY EncodedType, LenProperties
  <2>3. f[Len(e) + 1] = <<>>
    <3>1. Len(e) + 1 \in 1..Len(e) + 3 /\ Len(e) + 1 > Len(e)
      BY <2>2
    <3> QED
      BY <1>3, <3>1, Zenon DEF Reading
  <2>4. SubSeq(text, n + 1, n) = <<>>
    BY <1>1, SubSeqEmpty
  <2> QED
    BY <2>1, <2>3, <2>4
<1>5. ASSUME NEW m \in Nat, m \in T PROVE m + 1 \in T
  <2> SUFFICES ASSUME m + 1 <= n PROVE Rest(n - (m + 1))
    OBVIOUS
  <2> DEFINE k == n - m
  <2>1. k \in 1..n /\ n - (m + 1) = k - 1 /\ m <= n /\ (k - 1) + 1 = k /\ n \in k..n
    BY <1>1
  <2>2. Rest(k)
    BY <1>5, <2>1
  <2> HIDE DEF k
  <2>3. f[Len(p[k - 1]) + 1] = <<text[k]>> \o f[Len(p[k]) + 1]
    BY <1>p, <2>1
  <2>4. SubSeq(text, k, n) = <<text[k]>> \o SubSeq(text, k + 1, n)
    BY <2>1, SubSeqRecursiveFirst
  <2>5. f[Len(p[k - 1]) + 1] = SubSeq(text, k, n)
    BY <2>2, <2>3, <2>4, Zenon
  <2>6. Rest(k - 1)
    BY <2>1, <2>5
  <2> QED
    BY <2>1, <2>6
<1>6. Rest(0)
  <2>1. Nat \subseteq T
    <3> HIDE DEF T
    <3> QED
      BY <1>4, <1>5, SetInduction
  <2>2. n <= n /\ n - n = 0
    BY <1>1
  <2> QED
    BY <1>1, <2>1, <2>2
<1>7. Len(p[0]) + 1 = 1
  BY <1>2 DEF Encoding
<1>8. f[1] = SubSeq(text, 1, n)
  BY <1>6, <1>7
<1> QED
  BY <1>3, <1>8, SubSeqFull DEF Reading

-----------------------------------------------------------------------------
(***************************************************************************)
(* Taking a text apart at a separator.                                     *)
(***************************************************************************)
Associates(S) == \A x, y, z \in Seq(S) : (x \o y) \o z = x \o (y \o z)

LEMMA Associative ==
  ASSUME NEW S
  PROVE  Associates(S)
BY SMTT(60) DEF Associates

LEMMA Parts ==
  ASSUME NEW S, NEW u \in Seq(S), NEW v \in Seq(S)
  PROVE  /\ SubSeq(u \o v, 1, Len(u)) = u
         /\ SubSeq(u \o v, Len(u) + 1, Len(u \o v)) = v
<1> DEFINE t == u \o v
           n == Len(u)
           m == Len(v)
<1>1. /\ n \in Nat /\ m \in Nat /\ Len(t) = n + m /\ t \in Seq(S)
      /\ \A i \in 1..n + m : t[i] = IF i <= n THEN u[i] ELSE v[i - n]
      /\ \A i \in 1..n : u[i] \in S
      /\ \A i \in 1..m : v[i] \in S
  BY ConcatProperties, LenProperties, ElementOfSeq
<1> HIDE DEF t
<1>2. SubSeq(t, 1, n) = u
  <2> DEFINE w == SubSeq(t, 1, n)
  <2>1. \A i \in 1..n : t[i] = u[i]
    BY <1>1
  <2>2. w \in Seq(S) /\ Len(w) = n /\ \A i \in 1..n : w[i] = u[i]
    <3>1. \A i \in 1..n : t[i] \in S
      BY <1>1, <2>1
    <3>2. /\ w \in Seq(S) /\ Len(w) = IF 1 <= n THEN n - 1 + 1 ELSE 0
          /\ \A i \in 1..n - 1 + 1 : w[i] = t[1 + i - 1]
      BY <1>1, <3>1, SubSeqProperties
    <3> HIDE DEF w
    <3>3. \A i \in 1..n : i \in 1..n - 1 + 1 /\ 1 + i - 1 = i
      BY <1>1
    <3> QED
      BY <1>1, <2>1, <3>2, <3>3
  <2> HIDE DEF w
  <2> QED
    BY <2>2, SeqEqual DEF w
<1>3. SubSeq(t, n + 1, n + m) = v
  <2> DEFINE w == SubSeq(t, n + 1, n + m)
  <2>1. \A i \in 1..m : t[n + i] = v[i]
    <3> SUFFICES ASSUME NEW i \in 1..m PROVE t[n + i] = v[i]
      OBVIOUS
    <3>1. n + i \in 1..n + m /\ ~(n + i <= n) /\ (n + i) - n = i
      BY <1>1
    <3> QED
      BY <1>1, <3>1
  <2>2. w \in Seq(S) /\ Len(w) = m /\ \A i \in 1..m : w[i] = v[i]
    <3>1. \A i \in n + 1..n + m : t[i] \in S
      <4> SUFFICES ASSUME NEW i \in n + 1..n + m PROVE t[i] \in S
        OBVIOUS
      <4>1. i \in 1..n + m /\ ~(i <= n) /\ i - n \in 1..m
        BY <1>1
      <4> QED
        BY <1>1, <4>1
    <3>2. /\ w \in Seq(S) /\ Len(w) = IF n + 1 <= n + m THEN (n + m) - (n + 1) + 1 ELSE 0
          /\ \A i \in 1..(n + m) - (n + 1) + 1 : w[i] = t[(n + 1) + i - 1]
      BY <1>1, <3>1, SubSeqProperties
    <3> HIDE DEF w
    <3> HIDE DEF n, m
    <3>3. ASSUME NEW i \in 1..m PROVE w[i] = v[i]
      <4>1. i \in 1..(n + m) - (n + 1) + 1 /\ (n + 1) + i - 1 = n + i
        BY <1>1
      <4>2. w[i] = t[n + i]
        BY <3>2, <4>1
      <4> QED
        BY <2>1, <4>2
    <3>4. Len(w) = m
      BY <1>1, <3>2
    <3> QED
      BY <3>2, <3>3, <3>4
  <2> HIDE DEF w
  <2> QED
    BY <2>2, SeqEqual DEF w
<1> QED
  BY <1>1, <1>2, <1>3 DEF t

FreeOf(s, x) == \A i \in 1..Len(s) : s[i] # x

LEMMA FreeConcat ==
  ASSUME NEW S, NEW u \in Seq(S), NEW v \in Seq(S), NEW x, FreeOf(u, x), FreeOf(v, x)
  PROVE  FreeOf(u \o v, x)
<1> DEFINE t == u \o v
           n == Len(u)
           m == Len(v)
<1>1. /\ n \in Nat /\ m \in Nat /\ Len(t) = n + m
      /\ \A i \in 1..n + m : t[i] = IF i <= n THEN u[i] ELSE v[i - n]
  BY ConcatProperties, LenProperties
<1>2. (\A i \in 1..n : u[i] # x) /\ (\A i \in 1..m : v[i] # x)
  BY DEF FreeOf
<1> HIDE DEF t, n, m
<1>3. ASSUME NEW i \in 1..n + m PROVE t[i] # x
  <2>1. CASE i <= n
    <3>1. i \in 1..n
      BY <1>1, <2>1
    <3> QED
      BY <1>1, <1>2, <2>1, <3>1
  <2>2. CASE ~(i <= n)
    <3>1. i - n \in 1..m
      BY <1>1, <2>2
    <3> QED
      BY <1>1, <1>2, <2>2, <3>1
  <2> QED
    BY <2>1, <2>2
<1> QED
  BY <1>1, <1>3 DEF FreeOf, t

LEMMA FreeOne ==
  ASSUME NEW x, NEW y, x # y
  PROVE  FreeOf(<<x>>, y)
BY DEF FreeOf

LEMMA CutNowhere ==
  ASSUME NEW S, NEW u \in Seq(S), NEW sep, FreeOf(u, sep)
  PROVE  Cut(u, sep) = <<u, <<>>>>
<1>1. {i \in 1..Len(u) : u[i] = sep} = {}
  BY DEF FreeOf
<1>2. SelectInSeq(u, LAMBDA c : c = sep) = 0
  BY <1>1 DEF SelectInSeq
<1> QED
  BY <1>2 DEF Cut

LEMMA CutAt ==
  ASSUME NEW S, NEW u \in Seq(S), NEW v \in Seq(S), NEW sep \in S, FreeOf(u, sep)
  PROVE  Cut(u \o (<<sep>> \o v), sep) = <<u, v>>
<1> DEFINE t == u \o (<<sep>> \o v)
           n == Len(u)
           places == {i \in 1..Len(t) : t[i] = sep}
<1>1. <<sep>> \in Seq(S) /\ Len(<<sep>>) = 1 /\ <<sep>> \o v \in Seq(S) /\ (<<sep>> \o v)[1] = sep
  <2>1. <<sep>> \in Seq(S)
    BY Literals
  <2>2. /\ <<sep>> \o v \in Seq(S)
        /\ \A i \in 1..1 + Len(v) : (<<sep>> \o v)[i] = IF i <= 1 THEN <<sep>>[i] ELSE v[i - 1]
    BY <2>1, ConcatProperties
  <2>3. Len(v) \in Nat /\ 1 \in 1..1 + Len(v)
    BY LenProperties
  <2> QED
    BY <2>1, <2>2, <2>3
<1>2. t = (u \o <<sep>>) \o v
  <2>1. Associates(S)
    BY Associative, Zenon
  <2> QED
    BY <1>1, <2>1, Zenon DEF Associates
<1>3. Len(u \o <<sep>>) = n + 1 /\ u \o <<sep>> \in Seq(S)
  BY <1>1, ConcatProperties
<1>4. /\ n \in Nat /\ Len(t) \in Nat /\ n + 1 <= Len(t)
      /\ t[n + 1] = sep
      /\ \A i \in 1..n : t[i] = u[i]
  <2> DEFINE w == <<sep>> \o v
  <2>1. /\ n \in Nat /\ Len(w) \in Nat /\ Len(w) >= 1 /\ w[1] = sep /\ Len(t) = n + Len(w)
        /\ \A i \in 1..n + Len(w) : t[i] = IF i <= n THEN u[i] ELSE w[i - n]
    <3>1. Len(w) = 1 + Len(v) /\ Len(v) \in Nat
      BY <1>1, ConcatProperties, LenProperties
    <3> QED
      BY <1>1, <3>1, ConcatProperties, LenProperties
  <2> HIDE DEF w, t, n
  <2>2. n + 1 \in 1..n + Len(w) /\ ~(n + 1 <= n) /\ (n + 1) - n = 1
    BY <2>1
  <2>3. \A i \in 1..n : i \in 1..n + Len(w) /\ i <= n
    BY <2>1
  <2> QED
    BY <2>1, <2>2, <2>3
<1> HIDE DEF t
<1>5. SelectInSeq(t, LAMBDA c : c = sep) = n + 1
  <2>1. n + 1 \in places
    BY <1>4
  <2>2. ASSUME NEW i \in places PROVE n + 1 <= i
    <3>1. i \in Nat /\ i \notin 1..n
      BY <1>4 DEF FreeOf
    <3> QED
      BY <1>4, <3>1
  <2> HIDE DEF places
  <2>3. Min(places) \in places /\ \A y \in places : Min(places) <= y
    BY <2>1, <2>2 DEF Min
  <2>4. Min(places) \in Int
    BY <2>3 DEF places
  <2>5. Min(places) = n + 1
    BY <1>4, <2>1, <2>2, <2>3, <2>4
  <2>6. SelectInSeq(t, LAMBDA c : c = sep) = IF places # {} THEN Min(places) ELSE 0
    BY DEF SelectInSeq, places
  <2> QED
    BY <2>1, <2>5, <2>6
<1>6. Cut(t, sep) = <<SubSeq(t, 1, (n + 1) - 1), SubSeq(t, (n + 1) + 1, Len(t))>>
  <2>1. n + 1 # 0
    BY <1>4
  <2> HIDE DEF n
  <2> QED
    BY <1>5, <2>1, Zenon DEF Cut
<1>7. SubSeq(t, 1, n) = u
  BY <1>1, Parts DEF t
<1>8. SubSeq(t, (n + 1) + 1, Len(t)) = v
  BY <1>2, <1>3, Parts
<1>9. (n + 1) - 1 = n
  BY <1>4
<1> HIDE DEF n
<1> QED
  BY <1>6, <1>7, <1>8, <1>9, Zenon DEF t

-----------------------------------------------------------------------------
(***************************************************************************)
(* The path of an object: bucket and key, encoded, below the base path of  *)
(* the endpoint.                                                           *)
(***************************************************************************)
LEMMA SeparatorsNotPlain ==
  /\ Slash \notin Plain({}) /\ Question \notin Plain({}) /\ Question \notin Plain({Slash})
  /\ Ampersand \notin Plain({}) /\ Equals \notin Plain({})
  /\ Slash \in Nat /\ Question \in Nat /\ Ampersand \in Nat /\ Equals \in Nat
  /\ Slash # Question /\ Slash # Percent /\ Question # Percent /\ Equals # Ampersand
BY DEF Plain, Unreserved, Digit, Upper, Lower, Slash, Question, Ampersand, Equals, Percent

LEMMA EncodedPlain ==
  ASSUME NEW text \in Seq(Nat), NEW kept, NEW x, x \notin Plain(kept)
  PROVE  /\ PercentEncode(text, kept) \in Seq(Nat)
         /\ FreeOf(PercentEncode(text, kept), x)
BY EncodedType, ElementOfSeq DEF FreeOf

LEMMA EncodedEmpty == PercentEncode(<<>>, {Slash}) = <<>>
<1>1. <<>> \in Seq(Nat) /\ Len(<<>>) = 0
  BY EmptySeq
<1>2. PICK p : Encoding(p, <<>>, {Slash}, Nat)
  BY <1>1, RawType, EncodedPieces
<1> QED
  BY <1>1, <1>2 DEF Encoding

\* Bucket and key as they stand in a path.
Named(bucket, key) ==
  PercentEncode(bucket, {}) \o IF key = <<>> THEN <<>> ELSE <<Slash>> \o PercentEncode(key, {Slash})

LEMMA NamedCut ==
  ASSUME NEW bucket \in Seq(Nat), NEW key \in Seq(Nat)
  PROVE  /\ Named(bucket, key) \in Seq(Nat)
         /\ FreeOf(Named(bucket, key), Question)
         /\ Cut(Named(bucket, key), Slash) = <<PercentEncode(bucket, {}), PercentEncode(key, {Slash})>>
<1> DEFINE b == PercentEncode(bucket, {})
           k == PercentEncode(key, {Slash})
           s == <<Slash>>
           w == s \o k
<1>1. /\ b \in Seq(Nat) /\ FreeOf(b, Slash) /\ FreeOf(b, Question)
      /\ k \in Seq(Nat) /\ FreeOf(k, Question)
  BY EncodedPlain, SeparatorsNotPlain
<1>2. s \in Seq(Nat) /\ FreeOf(s, Question)
  BY SeparatorsNotPlain, Literals, FreeOne
<1>3. key = <<>> => k = <<>> /\ Named(bucket, key) = b
  <2>1. key = <<>> => Named(bucket, key) = b \o <<>>
    BY DEF Named
  <2> QED
    BY <1>1, <2>1, ConcatEmptySeq, EncodedEmpty
<1>4. key # <<>> => Named(bucket, key) = b \o w
  BY DEF Named
<1>5. Cut(b \o w, Slash) = <<b, k>>
  <2> HIDE DEF b, k
  <2> QED
    BY <1>1, SeparatorsNotPlain, CutAt
<1> HIDE DEF b, k, s
<1>6. w \in Seq(Nat) /\ FreeOf(w, Question)
  BY <1>1, <1>2, ConcatProperties, FreeConcat
<1> HIDE DEF w
<1>7. b \o w \in Seq(Nat) /\ FreeOf(b \o w, Question)
  BY <1>1, <1>6, ConcatProperties, FreeConcat
<1>8. Cut(b, Slash) = <<b, <<>>>>
  BY <1>1, CutNowhere
<1> QED
  BY <1>1, <1>3, <1>4, <1>5, <1>7, <1>8, Zenon DEF b, k

\* A path with a query or without one comes apart at its '?'.
LEMMA PathIs ==
  ASSUME NEW bucket \in Seq(Nat), NEW key \in Seq(Nat)
  PROVE  /\ PathFor(bucket, key) = <<Slash>> \o Named(bucket, key)
         /\ PathFor(bucket, key) \in Seq(Nat)
         /\ FreeOf(PathFor(bucket, key), Question)
<1> DEFINE w == Named(bucket, key)
           s == <<Slash>>
           b == PercentEncode(bucket, {})
           rest == IF key = <<>> THEN <<>> ELSE <<Slash>> \o PercentEncode(key, {Slash})
<1>1. w \in Seq(Nat) /\ FreeOf(w, Question)
  BY NamedCut
<1>2. s \in Seq(Nat) /\ FreeOf(s, Question)
  BY SeparatorsNotPlain, Literals, FreeOne
<1>3. b \in Seq(Nat) /\ rest \in Seq(Nat)
  <2>1. PercentEncode(key, {Slash}) \in Seq(Nat)
    BY EncodedType
  <2>2. <<Slash>> \o PercentEncode(key, {Slash}) \in Seq(Nat)
    BY <1>2, <2>1, ConcatProperties
  <2>3. rest = <<>> \/ rest = <<Slash>> \o PercentEncode(key, {Slash})
    OBVIOUS
  <2> HIDE DEF rest
  <2> QED
    BY <2>2, <2>3, EmptySeq, EncodedType
<1>4. PathFor(bucket, key) = (s \o b) \o rest
  BY DEF PathFor
<1>5. w = b \o rest
  BY Zenon DEF Named
<1> HIDE DEF b, rest, s, w
<1>6. (s \o b) \o rest = s \o (b \o rest)
  <2>1. Associates(Nat)
    BY Associative, Zenon
  <2> QED
    BY <1>2, <1>3, <2>1, ZenonT(60) DEF Associates
<1>7. PathFor(bucket, key) = s \o w
  BY <1>4, <1>5, <1>6, Zenon
<1>8. s \o w \in Seq(Nat) /\ FreeOf(s \o w, Question)
  BY <1>1, <1>2, ConcatProperties, FreeConcat
<1> QED
  BY <1>7, <1>8, Zenon DEF s, w

LEMMA PathCut ==
  ASSUME NEW bucket \in Seq(Nat), NEW key \in Seq(Nat), NEW query \in Seq(Nat)
  PROVE  /\ Cut(PathFor(bucket, key), Question) = <<PathFor(bucket, key), <<>>>>
         /\ Cut(PathFor(bucket, key) \o (<<Question>> \o query), Question)
              = <<PathFor(bucket, key), query>>
<1>1. PathFor(bucket, key) \in Seq(Nat) /\ FreeOf(PathFor(bucket, key), Question) /\ Question \in Nat
  BY PathIs, SeparatorsNotPlain
<1>2. Cut(PathFor(bucket, key), Question) = <<PathFor(bucket, key), <<>>>>
  BY <1>1, CutNowhere
<1>3. Cut(PathFor(bucket, key) \o (<<Question>> \o query), Question) = <<PathFor(bucket, key), query>>
  BY <1>1, CutAt
<1> QED
  BY <1>2, <1>3

\* The service finds the bucket and the key the caller meant.
LEMMA AddressOfPath ==
  ASSUME NEW base \in Seq(Nat), NEW bucket \in Seq(Nat), NEW key \in Seq(Nat)
  PROVE  Address(base \o PathFor(bucket, key), base) = <<bucket, key>>
<1>0. ASSUME NEW x \in Seq(Nat), NEW y \in Seq(Nat) PROVE (base \o x) \o y = base \o (x \o y)
  <2>1. Associates(Nat)
    BY Associative, Zenon
  <2> QED
    BY <2>1, ZenonT(40) DEF Associates
<1> DEFINE w == Named(bucket, key)
           s == <<Slash>>
           whole == base \o PathFor(bucket, key)
<1>1. w \in Seq(Nat) /\ Cut(w, Slash) = <<PercentEncode(bucket, {}), PercentEncode(key, {Slash})>>
  BY NamedCut
<1>2. PathFor(bucket, key) = s \o w
  BY PathIs
<1>3. s \in Seq(Nat) /\ Len(s) = 1
  BY SeparatorsNotPlain, Literals
<1>4. whole = (base \o s) \o w /\ base \o s \in Seq(Nat) /\ Len(base \o s) = Len(base) + 1
  <2> HIDE DEF w, s
  <2>1. (base \o s) \o w = base \o (s \o w)
    <3>1. base \in Seq(Nat) /\ s \in Seq(Nat) /\ w \in Seq(Nat)
      BY <1>1, <1>3
    <3> QED
      BY <1>0, <3>1, Zenon
  <2>2. base \o s \in Seq(Nat) /\ Len(base \o s) = Len(base) + 1
    <3>1. base \o s \in Seq(Nat) /\ Len(base \o s) = Len(base) + Len(s)
      BY <1>3, ConcatProperties
    <3> QED
      BY <1>3, <3>1
  <2> QED
    BY <1>2, <2>1, <2>2, Zenon
<1>5. SubSeq(whole, Len(base) + 2, Len(whole)) = w
  <2>1. Len(base) + 2 = (Len(base) + 1) + 1
    BY LenProperties
  <2>2. SubSeq((base \o s) \o w, Len(base \o s) + 1, Len((base \o s) \o w)) = w
    BY <1>1, <1>4, Parts
  <2> HIDE DEF whole, w, s
  <2> QED
    BY <1>4, <2>1, <2>2, Zenon
<1>6. Address(whole, base) = <<Decoded(PercentEncode(bucket, {})), Decoded(PercentEncode(key, {Slash}))>>
  <2> HIDE DEF whole, w
  <2>1. Address(whole, base) = <<Decoded(Cut(w, Slash)[1]), Decoded(Cut(w, Slash)[2])>>
    BY <1>5, Zenon DEF Address
  <2>2. /\ Cut(w, Slash)[1] = PercentEncode(bucket, {})
        /\ Cut(w, Slash)[2] = PercentEncode(key, {Slash})
    BY <1>1
  <2> QED
    BY <2>1, <2>2, Zenon
<1>7. Percent \notin {} /\ Percent \notin {Slash}
  BY SeparatorsNotPlain
<1> QED
  BY <1>6, <1>7, DecodedEncoded

-----------------------------------------------------------------------------
(***************************************************************************)
(* Pieces joined by a separator come apart into the same pieces.           *)
(***************************************************************************)

\* The pieces from a byte on, given those after it.
PiecesFrom(c, sep, rest) ==
  IF c = sep THEN <<<<>>>> \o rest ELSE [rest EXCEPT ![1] = <<c>> \o @]

SplitFrom(f, i, n, text, sep) ==
  IF i > n THEN <<<<>>>> ELSE PiecesFrom(text[i], sep, f[i + 1])

SplitsOn(f, n, text, sep) == f = [i \in 1..n + 1 |-> SplitFrom(f, i, n, text, sep)]

LEMMA SplittingExists ==
  ASSUME NEW n \in Nat, NEW text, NEW sep
  PROVE  \E f : SplitsOn(f, n, text, sep)
<1> DEFINE Dom == 1..n + 1
           At(f, i) == SplitFrom(f, i, n, text, sep)
           Known(m) == \E f : /\ f = [i \in Dom |-> f[i]]
                              /\ \A i \in Dom : i > n - m => f[i] = At(f, i)
           T == {m \in Nat : Known(m)}
<1>1. 0 \in T
  <2> DEFINE f == [i \in Dom |-> <<<<>>>>]
  <2>1. f = [i \in Dom |-> f[i]]
    OBVIOUS
  <2>2. \A i \in Dom : i > n - 0 => f[i] = At(f, i)
    BY DEF SplitFrom
  <2> QED
    BY <2>1, <2>2
<1>2. ASSUME NEW m \in Nat, m \in T PROVE m + 1 \in T
  <2>1. PICK f : /\ f = [i \in Dom |-> f[i]]
                 /\ \A i \in Dom : i > n - m => f[i] = At(f, i)
    BY <1>2
  <2>2. CASE m >= n
    <3>1. \A i \in Dom : i > n - m
      BY <2>2
    <3> QED
      BY <2>1, <3>1
  <2>3. CASE m < n
    <3> DEFINE k == n - m
               g == [i \in Dom |-> IF i = k THEN At(f, k) ELSE f[i]]
    <3>1. k \in 1..n /\ k \in Dom
      BY <2>3
    <3>2. ASSUME NEW i \in Dom, i >= k PROVE At(g, i) = At(f, i)
      <4>1. CASE i > n
        BY <4>1 DEF SplitFrom
      <4>2. CASE i <= n
        <5>1. i + 1 \in Dom /\ i + 1 # k
          BY <3>1, <3>2, <4>2
        <5>2. g[i + 1] = f[i + 1]
          BY <5>1
        <5> QED
          BY <5>2 DEF SplitFrom
      <4> QED
        BY <4>1, <4>2
    <3>3. ASSUME NEW i \in Dom, i > n - (m + 1) PROVE g[i] = At(g, i)
      <4>1. i = k \/ (i > k /\ i > n - m)
        BY <3>1, <3>3
      <4>2. At(g, i) = At(f, i)
        BY <3>1, <3>2, <4>1
      <4>3. g[i] = At(f, i)
        <5>1. CASE i = k
          BY <3>1, <5>1
        <5>2. CASE i # k
          BY <2>1, <3>1, <4>1, <5>2
        <5> QED
          BY <5>1, <5>2
      <4> QED
        BY <4>2, <4>3
    <3>4. g = [i \in Dom |-> g[i]]
      OBVIOUS
    <3> HIDE DEF g
    <3> QED
      BY <3>3, <3>4
  <2> QED
    BY <2>2, <2>3
<1>3. n \in T
  <2> HIDE DEF T
  <2> QED
    BY <1>1, <1>2, SetInduction
<1>4. PICK f : f = [i \in Dom |-> f[i]] /\ \A i \in Dom : i > n - n => f[i] = At(f, i)
  BY <1>3
<1>5. \A i \in Dom : f[i] = At(f, i)
  BY <1>4
<1>6. f = [i \in Dom |-> At(f, i)]
  BY <1>4, <1>5
<1> QED
  BY <1>6 DEF SplitsOn

\* Splits(f, text, sep): f[i] is what Split makes of a text from position i on.
Splits(f, text, sep) ==
  /\ Split(text, sep) = f[1]
  /\ f[Len(text) + 1] = <<<<>>>>
  /\ \A i \in 1..Len(text) : f[i] = PiecesFrom(text[i], sep, f[i + 1])

LEMMA SplitReads ==
  ASSUME NEW S, NEW text \in Seq(S), NEW sep
  PROVE  \E f : Splits(f, text, sep)
<1> DEFINE n == Len(text)
           Rec(f) == f = [i \in 1..Len(text) + 1 |->
                            IF i > Len(text) THEN <<<<>>>>
                            ELSE IF text[i] = sep THEN <<<<>>>> \o f[i + 1]
                            ELSE [f[i + 1] EXCEPT ![1] = <<text[i]>> \o @]]
           f == CHOOSE g : Rec(g)
<1>0. n \in Nat
  BY LenProperties
<1>1. \E g : Rec(g)
  <2>1. PICK g : SplitsOn(g, n, text, sep)
    BY <1>0, SplittingExists
  <2>2. Rec(g)
    BY <2>1, Zenon DEF SplitsOn, SplitFrom, PiecesFrom
  <2> QED
    BY <2>2, Zenon
<1>2. Rec(f)
  BY <1>1, Zenon
<1>3. Split(text, sep) = f[1]
  BY Zenon DEF Split
<1> HIDE DEF f
<1>4. \A i \in 1..n + 1 :
         f[i] = IF i > n THEN <<<<>>>>
                ELSE IF text[i] = sep THEN <<<<>>>> \o f[i + 1]
                ELSE [f[i + 1] EXCEPT ![1] = <<text[i]>> \o @]
  BY <1>2, Zenon
<1> HIDE DEF Rec, n
<1>5. f[n + 1] = <<<<>>>>
  <2>1. n + 1 \in 1..n + 1 /\ n + 1 > n
    BY <1>0
  <2> QED
    BY <1>4, <2>1, Zenon
<1>6. ASSUME NEW i \in 1..n
      PROVE  f[i] = PiecesFrom(text[i], sep, f[i + 1])
  <2>1. i \in 1..n + 1 /\ ~(i > n)
    BY <1>0
  <2> QED
    BY <1>4, <2>1, Zenon DEF PiecesFrom
<1> QED
  BY <1>3, <1>5, <1>6, Zenon DEF Splits, n

LEMMA FirstReplaced ==
  ASSUME NEW a, NEW b
  PROVE  [<<a>> EXCEPT ![1] = b \o @] = <<(b \o a)>>
OBVIOUS

\* A text without the separator from some position on is one piece from there.
LEMMA OnePiece ==
  ASSUME NEW S, NEW text \in Seq(S), NEW sep, NEW f, Splits(f, text, sep),
         NEW m \in 0..Len(text), \A i \in m + 1..Len(text) : text[i] # sep
  PROVE  f[m + 1] = <<SubSeq(text, m + 1, Len(text))>>
<1> DEFINE n == Len(text)
           T == {j \in Nat : j <= n - m => f[n - j + 1] = <<SubSeq(text, n - j + 1, n)>>}
<1>0. n \in Nat /\ \A i \in 1..n : text[i] \in S
  BY LenProperties, ElementOfSeq
<1>1. 0 \in T
  <2>1. SubSeq(text, n + 1, n) = <<>>
    BY <1>0, SubSeqEmpty
  <2>2. n - 0 + 1 = n + 1
    BY <1>0
  <2> QED
    BY <2>1, <2>2 DEF Splits
<1>2. ASSUME NEW j \in Nat, j \in T PROVE j + 1 \in T
  <2> SUFFICES ASSUME j + 1 <= n - m
               PROVE  f[n - (j + 1) + 1] = <<SubSeq(text, n - (j + 1) + 1, n)>>
    OBVIOUS
  <2> DEFINE i == n - j
  <2>1. /\ i \in 1..n /\ i \in m + 1..n /\ n - (j + 1) + 1 = i /\ n - j + 1 = i + 1
        /\ j <= n - m /\ n \in i..n
    BY <1>0
  <2>2. f[i + 1] = <<SubSeq(text, i + 1, n)>>
    BY <1>2, <2>1
  <2> HIDE DEF i
  <2>3. f[i] = PiecesFrom(text[i], sep, f[i + 1]) /\ text[i] # sep
    BY <2>1 DEF Splits
  <2>4. f[i] = [<<SubSeq(text, i + 1, n)>> EXCEPT ![1] = <<text[i]>> \o @]
    BY <2>2, <2>3, Zenon DEF PiecesFrom
  <2>5. f[i] = <<(<<text[i]>> \o SubSeq(text, i + 1, n))>>
    BY <2>4, FirstReplaced, Zenon
  <2>6. SubSeq(text, i, n) = <<text[i]>> \o SubSeq(text, i + 1, n)
    BY <1>0, <2>1, SubSeqRecursiveFirst
  <2> QED
    BY <2>1, <2>5, <2>6
<1>3. n - m \in T
  <2>1. Nat \subseteq T
    <3> HIDE DEF T
    <3> QED
      BY <1>1, <1>2, SetInduction
  <2>2. n - m \in Nat
    BY <1>0
  <2> QED
    BY <2>1, <2>2
<1>4. n - (n - m) + 1 = m + 1 /\ n - m <= n - m
  BY <1>0
<1> QED
  BY <1>3, <1>4

LEMMA SplitFree ==
  ASSUME NEW S, NEW u \in Seq(S), NEW sep, FreeOf(u, sep)
  PROVE  Split(u, sep) = <<u>>
<1>1. Len(u) \in Nat /\ 0 \in 0..Len(u) /\ 0 + 1 = 1
  BY LenProperties
<1>2. PICK f : Splits(f, u, sep)
  BY SplitReads
<1>3. \A i \in 0 + 1..Len(u) : u[i] # sep
  BY DEF FreeOf
<1>4. f[1] = <<SubSeq(u, 1, Len(u))>>
  BY <1>1, <1>2, <1>3, OnePiece
<1> QED
  BY <1>2, <1>4, SubSeqFull DEF Splits

LEMMA FirstOfConcat ==
  ASSUME NEW X, NEW g \in Seq(X), Len(g) >= 1, NEW h \in Seq(X), NEW b \in X
  PROVE  /\ [g EXCEPT ![1] = b] \in Seq(X) /\ Len([g EXCEPT ![1] = b]) = Len(g)
         /\ [(g \o h) EXCEPT ![1] = b] = [g EXCEPT ![1] = b] \o h
<1> DEFINE n == Len(g)
           m == Len(h)
           k == [g EXCEPT ![1] = b]
           l == [(g \o h) EXCEPT ![1] = b]
           r == k \o h
<1>1. /\ n \in Nat /\ m \in Nat /\ n >= 1
      /\ \A i \in 1..n : g[i] \in X
      /\ \A i \in 1..m : h[i] \in X
  BY LenProperties, ElementOfSeq
<1>2. k \in Seq(X) /\ Len(k) = n /\ \A i \in 1..n : k[i] = IF i = 1 THEN b ELSE g[i]
  BY <1>1
<1>3. /\ g \o h \in Seq(X) /\ Len(g \o h) = n + m
      /\ \A i \in 1..n + m : (g \o h)[i] = IF i <= n THEN g[i] ELSE h[i - n]
  BY ConcatProperties
<1>4. l \in Seq(X) /\ Len(l) = n + m /\ \A i \in 1..n + m : l[i] = IF i = 1 THEN b ELSE (g \o h)[i]
  <2> DEFINE u == g \o h
  <2>1. u \in Seq(X) /\ Len(u) = n + m
    BY <1>3
  <2> HIDE DEF u, n, m
  <2>2. /\ [u EXCEPT ![1] = b] \in Seq(X) /\ Len([u EXCEPT ![1] = b]) = n + m
        /\ \A i \in 1..n + m : [u EXCEPT ![1] = b][i] = IF i = 1 THEN b ELSE u[i]
    BY <1>1, <2>1
  <2> QED
    BY <2>2 DEF u
<1> HIDE DEF k
<1>5. /\ r \in Seq(X) /\ Len(r) = n + m
      /\ \A i \in 1..n + m : r[i] = IF i <= n THEN k[i] ELSE h[i - n]
  <2>1. /\ k \o h \in Seq(X) /\ Len(k \o h) = Len(k) + Len(h)
        /\ \A i \in 1..Len(k) + Len(h) : (k \o h)[i] = IF i <= Len(k) THEN k[i] ELSE h[i - Len(k)]
    <3>1. k \in Seq(X)
      BY <1>2
    <3> HIDE DEF l, r, n, m
    <3> QED
      BY <3>1, ConcatProperties
  <2> HIDE DEF n
  <2> QED
    BY <1>2, <2>1
<1> HIDE DEF l, r, n, m
<1>6. ASSUME NEW i \in 1..n + m PROVE l[i] = r[i]
  <2>1. CASE i <= n
    <3>1. i \in 1..n
      BY <1>1, <2>1
    <3>2. r[i] = k[i]
      BY <1>5, <2>1
    <3>3. l[i] = IF i = 1 THEN b ELSE g[i]
      BY <1>3, <1>4, <2>1
    <3> QED
      BY <1>2, <3>1, <3>2, <3>3
  <2>2. CASE ~(i <= n)
    <3>1. i # 1
      BY <1>1, <2>2
    <3> QED
      BY <1>3, <1>4, <1>5, <2>2, <3>1
  <2> QED
    BY <2>1, <2>2
<1>7. l = r
  BY <1>4, <1>5, <1>6, SeqEqual
<1> QED
  BY <1>2, <1>7 DEF k, l, r, n

\* One piece more, after the others.
Longer(whole, g, h) == whole = g \o h

LEMMA PiecesConcat ==
  ASSUME NEW S, NEW sep, NEW c \in S, NEW g \in Seq(Seq(S)), Len(g) >= 1, NEW h \in Seq(Seq(S)),
         NEW whole, Longer(whole, g, h)
  PROVE  /\ PiecesFrom(c, sep, g) \in Seq(Seq(S)) /\ Len(PiecesFrom(c, sep, g)) >= 1
         /\ Longer(PiecesFrom(c, sep, whole), PiecesFrom(c, sep, g), h)
<1> USE DEF Longer
<1>0. ASSUME NEW x \in Seq(Seq(S)) PROVE (x \o g) \o h = x \o (g \o h)
  <2>1. Associates(Seq(S))
    BY Associative, Zenon
  <2> QED
    BY <2>1, Zenon DEF Associates
<1> DEFINE e == <<<<>>>>
<1>1. CASE c = sep
  <2>1. e \in Seq(Seq(S)) /\ Len(e) = 1
    <3>1. <<>> \in Seq(S)
      BY EmptySeq
    <3> QED
      BY <3>1, Literals
  <2>2. \A s \in Seq(Seq(S)) : PiecesFrom(c, sep, s) = e \o s
    BY <1>1, Zenon DEF PiecesFrom
  <2> HIDE DEF e
  <2>3. e \o g \in Seq(Seq(S)) /\ Len(e \o g) >= 1
    <3>1. e \o g \in Seq(Seq(S)) /\ Len(e \o g) = Len(e) + Len(g) /\ Len(g) \in Nat
      BY <2>1, ConcatProperties, LenProperties
    <3> QED
      BY <2>1, <3>1
  <2>4. (e \o g) \o h = e \o (g \o h)
    BY <1>0, <2>1, Zenon
  <2>5. g \o h \in Seq(Seq(S))
    BY ConcatProperties
  <2>6. PiecesFrom(c, sep, g) = e \o g /\ PiecesFrom(c, sep, whole) = e \o whole
    BY <2>2, <2>5, Zenon
  <2> QED
    BY <2>3, <2>4, <2>6, Zenon
<1>2. CASE c # sep
  <2> DEFINE b == <<c>> \o g[1]
  <2>1. b \in Seq(S)
    <3>1. <<c>> \in Seq(S) /\ g[1] \in Seq(S)
      BY Literals, LenProperties, ElementOfSeq
    <3> QED
      BY <3>1, ConcatProperties
  <2>2. (g \o h)[1] = g[1]
    <3>1. 1 \in 1..Len(g) + Len(h) /\ 1 <= Len(g)
      BY LenProperties
    <3> QED
      BY <3>1, ConcatProperties
  <2>3. PiecesFrom(c, sep, g) = [g EXCEPT ![1] = b]
    BY <1>2 DEF PiecesFrom
  <2>4. PiecesFrom(c, sep, g \o h) = [(g \o h) EXCEPT ![1] = b]
    <3> DEFINE u == g \o h
    <3>1. u[1] = g[1]
      BY <2>2
    <3> HIDE DEF u
    <3>2. PiecesFrom(c, sep, u) = [u EXCEPT ![1] = b]
      BY <1>2, <3>1 DEF PiecesFrom
    <3> QED
      BY <3>2 DEF u
  <2> HIDE DEF b
  <2> QED
    BY <2>1, <2>3, <2>4, FirstOfConcat
<1> QED
  BY <1>1, <1>2

\* One more piece behind a separator is one more piece of the split.
LEMMA SplitAppend ==
  ASSUME NEW S, NEW w \in Seq(S), NEW u \in Seq(S), NEW sep \in S, FreeOf(u, sep)
  PROVE  Split(w \o (<<sep>> \o u), sep) = Split(w, sep) \o <<u>>
<1> DEFINE s == <<sep>>
           x == w \o s
           t == w \o (s \o u)
           n == Len(w)
           h == <<u>>
<1>1. s \in Seq(S) /\ Len(s) = 1 /\ s[1] = sep
  BY Literals
<1>2. h \in Seq(Seq(S))
  BY Literals
<1> HIDE DEF s, h
<1>3. /\ x \in Seq(S) /\ Len(x) = n + 1 /\ n \in Nat
      /\ \A i \in 1..n + 1 : x[i] = IF i <= n THEN w[i] ELSE s[i - n]
  <2>1. /\ x \in Seq(S) /\ Len(x) = n + Len(s)
        /\ \A i \in 1..n + Len(s) : x[i] = IF i <= n THEN w[i] ELSE s[i - n]
    BY <1>1, ConcatProperties
  <2> HIDE DEF x
  <2> QED
    BY <1>1, <2>1, LenProperties
<1>4. t = x \o u
  <2>1. Associates(S)
    BY Associative, Zenon
  <2> QED
    BY <1>1, <2>1, Zenon DEF Associates, t, x
<1> HIDE DEF x, t
<1>5. /\ t \in Seq(S) /\ Len(t) = (n + 1) + Len(u) /\ Len(u) \in Nat
      /\ \A i \in 1..(n + 1) + Len(u) : t[i] = IF i <= n + 1 THEN x[i] ELSE u[i - (n + 1)]
      /\ SubSeq(t, (n + 1) + 1, Len(t)) = u
  <2>1. /\ x \o u \in Seq(S) /\ Len(x \o u) = Len(x) + Len(u)
        /\ \A i \in 1..Len(x) + Len(u) : (x \o u)[i] = IF i <= Len(x) THEN x[i] ELSE u[i - Len(x)]
        /\ SubSeq(x \o u, Len(x) + 1, Len(x \o u)) = u
    <3>1. x \in Seq(S)
      BY <1>3
    <3>2. SubSeq(x \o u, Len(x) + 1, Len(x \o u)) = u
      BY <3>1, Parts, Zenon
    <3> QED
      BY <3>1, <3>2, ConcatProperties, Zenon
  <2>2. Len(u) \in Nat
    BY LenProperties
  <2> HIDE DEF n
  <2> QED
    BY <1>3, <1>4, <2>1, <2>2
<1> HIDE DEF n
<1>6. ASSUME NEW i \in 1..n PROVE t[i] = w[i] /\ w[i] \in S
  <2>1. i \in 1..(n + 1) + Len(u) /\ i <= n + 1 /\ i \in 1..n + 1 /\ i <= n
    BY <1>3, <1>5
  <2>2. w[i] \in S
    BY ElementOfSeq DEF n
  <2> QED
    BY <1>3, <1>5, <2>1, <2>2
<1>7. t[n + 1] = sep
  <2>1. n + 1 \in 1..(n + 1) + Len(u) /\ n + 1 <= n + 1 /\ n + 1 \in 1..n + 1 /\ ~(n + 1 <= n)
        /\ (n + 1) - n = 1
    <3>1. n \in Nat /\ Len(u) \in Nat
      BY <1>3, <1>5
    <3> DEFINE m == Len(u)
    <3> HIDE DEF m
    <3>2. m \in Nat
      BY <3>1 DEF m
    <3>3. n + 1 \in 1..(n + 1) + m
      BY <3>1, <3>2
    <3> QED
      BY <3>1, <3>3 DEF m
  <2> QED
    BY <1>1, <1>3, <1>5, <2>1
<1>8. ASSUME NEW i \in (n + 1) + 1..Len(t) PROVE t[i] # sep
  <2>1. i \in 1..(n + 1) + Len(u) /\ ~(i <= n + 1) /\ i - (n + 1) \in 1..Len(u)
    BY <1>3, <1>5
  <2> QED
    BY <1>5, <2>1 DEF FreeOf
<1>9. PICK f : Splits(f, t, sep)
  BY <1>5, SplitReads
<1>10. PICK g : Splits(g, w, sep)
  BY SplitReads
<1>11. f[(n + 1) + 1] = h
  <2>1. n + 1 \in 0..Len(t)
    BY <1>3, <1>5
  <2> DEFINE m == n + 1
  <2>2. m \in 0..Len(t) /\ \A i \in m + 1..Len(t) : t[i] # sep
    BY <1>8, <2>1
  <2> HIDE DEF m
  <2>3. f[m + 1] = <<SubSeq(t, m + 1, Len(t))>>
    BY <1>5, <1>9, <2>2, OnePiece
  <2>4. SubSeq(t, m + 1, Len(t)) = u
    BY <1>5 DEF m
  <2> QED
    BY <2>3, <2>4, Zenon DEF h, m
<1> DEFINE Same(i) == g[i] \in Seq(Seq(S)) /\ Len(g[i]) >= 1 /\ f[i] = g[i] \o h
           T == {j \in Nat : j <= n => Same(n - j + 1)}
<1>12. Same(n + 1)
  <2>1. n + 1 \in 1..Len(t)
    BY <1>3, <1>5
  <2>2. f[n + 1] = <<<<>>>> \o h
    <3>1. f[n + 1] = PiecesFrom(t[n + 1], sep, f[(n + 1) + 1])
      BY <1>9, <2>1 DEF Splits
    <3> QED
      BY <1>7, <1>11, <3>1, Zenon DEF PiecesFrom
  <2>3. g[n + 1] = <<<<>>>>
    BY <1>10 DEF Splits, n
  <2>4. <<<<>>>> \in Seq(Seq(S)) /\ Len(<<<<>>>>) = 1
    <3>1. <<>> \in Seq(S)
      BY EmptySeq
    <3> QED
      BY <3>1, Literals
  <2> QED
    BY <2>2, <2>3, <2>4
<1>13. 0 \in T
  <2>1. n - 0 + 1 = n + 1
    BY <1>3
  <2> HIDE DEF Same
  <2> QED
    BY <1>12, <2>1
<1>14. ASSUME NEW j \in Nat, j \in T PROVE j + 1 \in T
  <2> SUFFICES ASSUME j + 1 <= n PROVE Same(n - (j + 1) + 1)
    BY DEF T
  <2> DEFINE i == n - j
  <2>1. /\ i \in 1..n /\ i \in 1..Len(t) /\ i \in 1..Len(w)
        /\ n - (j + 1) + 1 = i /\ n - j + 1 = i + 1 /\ j <= n
    BY <1>3, <1>5 DEF n
  <2>2. Same(i + 1)
    BY <1>14, <2>1
  <2> HIDE DEF i
  <2>3. f[i] = PiecesFrom(w[i], sep, f[i + 1]) /\ g[i] = PiecesFrom(w[i], sep, g[i + 1])
    BY <1>6, <1>9, <1>10, <2>1, Zenon DEF Splits
  <2>4. w[i] \in S
    BY <1>6, <2>1
  <2>6. Same(i)
    <3> DEFINE y == g[i + 1]
               z == f[i + 1]
               c == w[i]
    <3>1. y \in Seq(Seq(S)) /\ Len(y) >= 1 /\ c \in S /\ Longer(z, y, h)
      BY <2>2, <2>4 DEF Longer
    <3>2. f[i] = PiecesFrom(c, sep, z) /\ g[i] = PiecesFrom(c, sep, y)
      BY <2>3
    <3> HIDE DEF y, c, z
    <3>3. /\ PiecesFrom(c, sep, y) \in Seq(Seq(S)) /\ Len(PiecesFrom(c, sep, y)) >= 1
          /\ Longer(PiecesFrom(c, sep, z), PiecesFrom(c, sep, y), h)
      BY <1>2, <3>1, PiecesConcat
    <3> QED
      BY <3>2, <3>3 DEF Longer
  <2> HIDE DEF Same
  <2> QED
    BY <2>1, <2>6
<1>15. Same(1)
  <2>1. Nat \subseteq T
    <3> HIDE DEF T
    <3> QED
      BY <1>13, <1>14, SetInduction
  <2>2. n <= n /\ n - n + 1 = 1
    BY <1>3
  <2>3. n \in T
    <3> HIDE DEF T, n
    <3> QED
      BY <1>3, <2>1
  <2> HIDE DEF Same
  <2> QED
    BY <2>2, <2>3
<1> QED
  BY <1>9, <1>10, <1>15, Zenon DEF Splits, t, s, h

LEMMA FunctionIsSeq ==
  ASSUME NEW X, NEW n \in Nat, NEW s \in [1..n -> X]
  PROVE  s \in Seq(X) /\ Len(s) = n
OBVIOUS

\* p[k] is the first k texts, joined.
Joining(p, texts, sep, S) ==
  /\ p \in [1..Len(texts) -> Seq(S)]
  /\ p[1] = texts[1]
  /\ \A k \in 2..Len(texts) : p[k] = p[k - 1] \o (<<sep>> \o texts[k])
  /\ Join(texts, sep) = p[Len(texts)]

LEMMA JoinPieces ==
  ASSUME NEW S, NEW sep \in S, NEW texts \in Seq(Seq(S)), texts # <<>>
  PROVE  \E p : Joining(p, texts, sep, S)
<1> DEFINE n == Len(texts)
           s == [k \in DOMAIN texts |-> IF k = 1 THEN texts[k] ELSE <<sep>> \o texts[k]]
<1>1. /\ n \in Nat /\ n >= 1 /\ DOMAIN texts = 1..n
      /\ \A k \in 1..n : texts[k] \in Seq(S)
  BY LenProperties, ElementOfSeq, EmptySeq
<1>2. \A k \in 1..n : <<sep>> \o texts[k] \in Seq(S)
  <2> TAKE k \in 1..n
  <2>1. <<sep>> \in Seq(S)
    BY Literals
  <2> HIDE DEF n
  <2> QED
    BY <1>1, <2>1, ConcatProperties
<1>3. /\ s \in Seq(Seq(S)) /\ Len(s) = n
      /\ s[1] = texts[1] /\ \A k \in 2..n : s[k] = <<sep>> \o texts[k]
  <2> HIDE DEF n
  <2>1. \A k \in 1..n : s[k] \in Seq(S)
    BY <1>1, <1>2
  <2>2. s = [k \in 1..n |-> s[k]]
    BY <1>1
  <2>3. s[1] = texts[1] /\ \A k \in 2..n : s[k] = <<sep>> \o texts[k]
    BY <1>1
  <2> HIDE DEF s
  <2>4. s \in [1..n -> Seq(S)]
    BY <2>1, <2>2
  <2>5. s \in Seq(Seq(S)) /\ Len(s) = n
    BY <1>1, <2>4, FunctionIsSeq
  <2> QED
    BY <2>3, <2>5
<1>4. Join(texts, sep) = FlattenSeq(s)
  BY DEF Join
<1> HIDE DEF s
<1>5. PICK q \in [0..Len(s) -> Seq(S)] :
        /\ q[0] = <<>>
        /\ \A k \in 1..Len(s) : q[k] = q[k - 1] \o s[k]
        /\ FlattenSeq(s) = q[Len(s)]
  BY <1>3, FlattenJoins
<1> HIDE DEF n
<1> DEFINE p == [k \in 1..n |-> q[k]]
<1>6. p \in [1..n -> Seq(S)]
  BY <1>1, <1>3, <1>5
<1>7. p[1] = texts[1]
  <2>1. 1 \in 1..n /\ 1 - 1 = 0
    BY <1>1
  <2>2. q[1] = q[0] \o s[1]
    BY <1>3, <1>5, <2>1
  <2>3. q[1] = texts[1]
    BY <1>1, <1>3, <1>5, <2>1, <2>2, ConcatEmptySeq
  <2> QED
    BY <2>1, <2>3
<1>8. ASSUME NEW k \in 2..n PROVE p[k] = p[k - 1] \o (<<sep>> \o texts[k])
  <2>1. k \in 1..n /\ k - 1 \in 1..n
    BY <1>1
  <2>2. q[k] = q[k - 1] \o s[k] /\ s[k] = <<sep>> \o texts[k]
    BY <1>3, <1>5, <2>1
  <2> QED
    BY <2>1, <2>2
<1>9. Join(texts, sep) = p[n]
  <2>1. n \in 1..n
    BY <1>1
  <2> QED
    BY <1>3, <1>4, <1>5, <2>1
<1> HIDE DEF p
<1>10. Joining(p, texts, sep, S)
  BY <1>6, <1>7, <1>8, <1>9 DEF Joining, n
<1> QED
  BY <1>10

LEMMA SplitJoin ==
  ASSUME NEW S, NEW sep \in S, NEW texts \in Seq(Seq(S)), texts # <<>>,
         \A k \in 1..Len(texts) : FreeOf(texts[k], sep)
  PROVE  Join(texts, sep) \in Seq(S) /\ Split(Join(texts, sep), sep) = texts
<1> DEFINE n == Len(texts)
<1>1. n \in Nat /\ n >= 1 /\ \A k \in 1..n : texts[k] \in Seq(S)
  BY LenProperties, ElementOfSeq, EmptySeq
<1>2. PICK p : Joining(p, texts, sep, S)
  BY JoinPieces
<1> DEFINE Good(k) == Split(p[k], sep) = SubSeq(texts, 1, k)
           T == {m \in Nat : m + 1 <= n => Good(m + 1)}
<1>3. 0 \in T
  <2>1. p[1] = texts[1] /\ texts[1] \in Seq(S) /\ FreeOf(texts[1], sep)
    BY <1>1, <1>2 DEF Joining
  <2>2. Split(p[1], sep) = <<texts[1]>>
    BY <2>1, SplitFree
  <2>3. SubSeq(texts, 1, 1) = <<texts[1]>>
    <3>1. SubSeq(texts, 1, 1) = SubSeq(texts, 1, 0) \o <<texts[1]>>
      <4>1. 1 \in 1..n /\ 1 \in 1..1 /\ 1 - 1 = 0
        BY <1>1
      <4> QED
        BY <4>1, SubSeqRecursiveSecond
    <3>2. SubSeq(texts, 1, 0) = <<>>
      BY SubSeqEmpty
    <3>3. <<texts[1]>> \in Seq(Seq(S))
      BY <2>1, Literals
    <3> QED
      BY <3>1, <3>2, <3>3, ConcatEmptySeq
  <2> QED
    BY <2>2, <2>3
<1>4. ASSUME NEW m \in Nat, m \in T PROVE m + 1 \in T
  <2> SUFFICES ASSUME (m + 1) + 1 <= n PROVE Good((m + 1) + 1)
    BY DEF T
  <2> DEFINE k == (m + 1) + 1
  <2>1. k \in 2..n /\ k \in 1..n /\ k - 1 = m + 1 /\ m + 1 <= n /\ k - 1 \in 1..n /\ 1 \in 1..n
    BY <1>1
  <2> HIDE DEF k
  <2>2. p[k] = p[k - 1] \o (<<sep>> \o texts[k]) /\ p[k - 1] \in Seq(S)
    BY <1>2, <2>1 DEF Joining
  <2>3. Split(p[k - 1], sep) = SubSeq(texts, 1, k - 1)
    BY <1>4, <2>1
  <2>4. texts[k] \in Seq(S) /\ FreeOf(texts[k], sep)
    BY <1>1, <2>1
  <2>5. Split(p[k], sep) = Split(p[k - 1], sep) \o <<texts[k]>>
    <3> DEFINE w == p[k - 1]
               u == texts[k]
    <3>1. w \in Seq(S) /\ u \in Seq(S) /\ FreeOf(u, sep) /\ p[k] = w \o (<<sep>> \o u)
      BY <2>2, <2>4
    <3> HIDE DEF w, u
    <3>2. Split(w \o (<<sep>> \o u), sep) = Split(w, sep) \o <<u>>
      BY <3>1, SplitAppend
    <3>3. Split(p[k], sep) = Split(w, sep) \o <<u>>
      BY <3>1, <3>2, Zenon
    <3> QED
      BY <3>3 DEF w, u
  <2>6. SubSeq(texts, 1, k) = SubSeq(texts, 1, k - 1) \o <<texts[k]>>
    BY <2>1, SubSeqRecursiveSecond
  <2>7. Good(k)
    BY <2>3, <2>5, <2>6, Zenon
  <2> QED
    BY <2>7 DEF k
<1>5. Good(n)
  <2>1. Nat \subseteq T
    <3> HIDE DEF T
    <3> QED
      BY <1>3, <1>4, SetInduction
  <2>2. n - 1 \in Nat /\ (n - 1) + 1 = n /\ n <= n
    BY <1>1
  <2>3. n - 1 \in T
    BY <2>1, <2>2
  <2> HIDE DEF Good
  <2> QED
    BY <2>2, <2>3
<1>6. n \in 1..n
  BY <1>1
<1> QED
  BY <1>2, <1>5, <1>6, SubSeqFull DEF Joining

\* A name of the client's own stands in a query as it is.
LEMMA KeptEncoded ==
  ASSUME NEW name \in Seq(Nat), NEW kept,
         \A i \in DOMAIN name : Unreserved(name[i]) \/ name[i] \in kept
  PROVE  PercentEncode(name, kept) = name
<1> DEFINE n == Len(name)
<1>0. n \in Nat /\ \A i \in 1..n : name[i] \in Nat /\ (Unreserved(name[i]) \/ name[i] \in kept)
  BY LenProperties, ElementOfSeq
<1>1. PICK p : Encoding(p, name, kept, Nat)
  BY RawType, EncodedPieces
<1>2. \A i \in 1..n : Raw(name[i], kept) = <<name[i]>>
  BY <1>0 DEF Raw
<1> DEFINE T == {k \in Nat : k <= n => p[k] = SubSeq(name, 1, k)}
<1>3. 0 \in T
  BY <1>1, SubSeqEmpty DEF Encoding
<1>4. ASSUME NEW m \in Nat, m \in T PROVE m + 1 \in T
  <2> SUFFICES ASSUME m + 1 <= n PROVE p[m + 1] = SubSeq(name, 1, m + 1)
    OBVIOUS
  <2>1. m + 1 \in 1..n /\ 1 \in 1..n /\ m + 1 \in 1..m + 1 /\ (m + 1) - 1 = m /\ m <= n
    BY <1>0
  <2>2. p[m + 1] = p[m] \o Raw(name[m + 1], kept)
    BY <1>1, <2>1 DEF Encoding
  <2>3. Raw(name[m + 1], kept) = <<name[m + 1]>>
    BY <1>2, <2>1
  <2>4. p[m] = SubSeq(name, 1, m)
    BY <1>4, <2>1
  <2>5. SubSeq(name, 1, m + 1) = SubSeq(name, 1, m) \o <<name[m + 1]>>
    <3> DEFINE k == m + 1
    <3>1. 1 \in 1..Len(name) /\ k \in 1..Len(name) /\ k - 1 = m
      BY <2>1
    <3> HIDE DEF k
    <3>2. SubSeq(name, 1, k) = SubSeq(name, 1, k - 1) \o <<name[k]>>
      BY <3>1, SubSeqRecursiveSecond
    <3> QED
      BY <3>1, <3>2 DEF k
  <2> QED
    BY <2>2, <2>3, <2>4, <2>5, Zenon
<1>5. n \in T
  <2>1. Nat \subseteq T
    <3> HIDE DEF T
    <3> QED
      BY <1>3, <1>4, SetInduction
  <2> QED
    BY <1>0, <2>1
<1>6. p[n] = name
  <2>1. p[n] = SubSeq(name, 1, n)
    BY <1>0, <1>5
  <2> QED
    BY <2>1, SubSeqFull
<1> QED
  BY <1>1, <1>6 DEF Encoding

LEMMA NameEncoded ==
  ASSUME NEW name \in Seq(Nat), \A i \in DOMAIN name : Unreserved(name[i])
  PROVE  PercentEncode(name, {}) = name
BY KeptEncoded

LEMMA NameReads ==
  ASSUME NEW name \in Seq(Nat), PlainName(name)
  PROVE  /\ Decoded(name) = name
         /\ FreeOf(name, Ampersand) /\ FreeOf(name, Equals) /\ FreeOf(name, Question)
<1>1. PercentEncode(name, {}) = name
  BY NameEncoded DEF PlainName
<1>2. Percent \notin {}
  OBVIOUS
<1>3. Decoded(PercentEncode(name, {})) = name
  BY <1>2, DecodedEncoded
<1>4. /\ FreeOf(PercentEncode(name, {}), Ampersand) /\ FreeOf(PercentEncode(name, {}), Equals)
      /\ FreeOf(PercentEncode(name, {}), Question)
  BY SeparatorsNotPlain, EncodedPlain
<1> QED
  BY <1>1, <1>3, <1>4, Zenon

LEMMA EncodedNothing == PercentEncode(<<>>, {}) = <<>>
<1>1. <<>> \in Seq(Nat) /\ \A i \in DOMAIN <<>> : Unreserved(<<>>[i])
  BY EmptySeq
<1> QED
  BY <1>1, NameEncoded

LEMMA PairParts ==
  ASSUME NEW A, NEW B, NEW q \in A \X B
  PROVE  q[1] \in A /\ q[2] \in B /\ q = <<q[1], q[2]>>
OBVIOUS

\* A parameter as it is written.
Written(name, value) ==
  name \o IF value = <<>> THEN <<>> ELSE <<Equals>> \o PercentEncode(value, {})

LEMMA WrittenReads ==
  ASSUME NEW name \in Seq(Nat), PlainName(name), NEW value \in Seq(Nat)
  PROVE  /\ Written(name, value) \in Seq(Nat) /\ Written(name, value) # <<>>
         /\ FreeOf(Written(name, value), Ampersand)
         /\ Cut(Written(name, value), Equals) = <<name, PercentEncode(value, {})>>
<1> DEFINE v == PercentEncode(value, {})
           s == <<Equals>>
           w == s \o v
<1>0. FreeOf(name, Ampersand) /\ FreeOf(name, Equals) /\ name # <<>>
  BY NameReads DEF PlainName
<1>1. v \in Seq(Nat) /\ FreeOf(v, Ampersand)
  BY EncodedPlain, SeparatorsNotPlain
<1>2. s \in Seq(Nat) /\ FreeOf(s, Ampersand)
  BY SeparatorsNotPlain, Literals, FreeOne
<1>3. CASE value = <<>>
  <2>1. v = <<>>
    BY <1>3, EncodedNothing
  <2>2. Written(name, value) = name \o <<>>
    BY <1>3 DEF Written
  <2>3. Written(name, value) = name
    BY <2>2, ConcatEmptySeq
  <2>4. Cut(name, Equals) = <<name, <<>>>>
    BY <1>0, CutNowhere
  <2> HIDE DEF v
  <2> QED
    BY <1>0, <2>1, <2>3, <2>4, Zenon DEF v
<1>4. CASE value # <<>>
  <2>1. Written(name, value) = name \o w
    BY <1>4 DEF Written
  <2>2. Cut(name \o w, Equals) = <<name, v>>
    <3> HIDE DEF v
    <3> QED
      BY <1>0, <1>1, SeparatorsNotPlain, CutAt
  <2> HIDE DEF v, s
  <2>3. w \in Seq(Nat) /\ FreeOf(w, Ampersand)
    BY <1>1, <1>2, ConcatProperties, FreeConcat
  <2> HIDE DEF w
  <2>4. name \o w \in Seq(Nat) /\ FreeOf(name \o w, Ampersand)
    BY <1>0, <2>3, ConcatProperties, FreeConcat
  <2>5. name \o w # <<>>
    <3>1. Len(name \o w) = Len(name) + Len(w) /\ Len(name) \in Nat /\ Len(w) \in Nat
      BY <2>3, ConcatProperties, LenProperties
    <3>2. Len(name) # 0
      BY <1>0, EmptySeq
    <3>3. Len(name \o w) # 0
      BY <3>1, <3>2
    <3> QED
      BY <3>3, EmptySeq
  <2> QED
    BY <2>1, <2>2, <2>4, <2>5, Zenon DEF v
<1> QED
  BY <1>3, <1>4

\* The service reads the parameters that an operation wrote.
LEMMA QueryReads ==
  ASSUME NEW parameters \in Seq(Seq(Nat) \X Seq(Nat)), parameters # <<>>,
         \A k \in DOMAIN parameters : PlainName(parameters[k][1])
  PROVE  \E query \in Seq(Nat) :
           QueryText(parameters) = <<Question>> \o query /\ Received(query) = parameters
<1> DEFINE n == Len(parameters)
           texts == [k \in DOMAIN parameters |-> Written(parameters[k][1], parameters[k][2])]
           query == Join(texts, Ampersand)
<1>1. /\ n \in Nat /\ n >= 1 /\ DOMAIN parameters = 1..n
      /\ \A k \in 1..n : parameters[k] \in Seq(Nat) \X Seq(Nat)
  BY LenProperties, ElementOfSeq, EmptySeq
<1>2. ASSUME NEW k \in 1..n
      PROVE  /\ parameters[k][1] \in Seq(Nat) /\ parameters[k][2] \in Seq(Nat)
             /\ parameters[k] = <<parameters[k][1], parameters[k][2]>>
             /\ PlainName(parameters[k][1])
  <2>1. PlainName(parameters[k][1])
    BY <1>1, Zenon
  <2>2. parameters[k] \in Seq(Nat) \X Seq(Nat)
    BY <1>1
  <2> QED
    BY <2>1, <2>2, PairParts
<1>3. ASSUME NEW k \in 1..n
      PROVE  /\ texts[k] \in Seq(Nat) /\ texts[k] # <<>> /\ FreeOf(texts[k], Ampersand)
             /\ Cut(texts[k], Equals) = <<parameters[k][1], PercentEncode(parameters[k][2], {})>>
  <2> DEFINE name == parameters[k][1]
             value == parameters[k][2]
  <2>1. name \in Seq(Nat) /\ value \in Seq(Nat) /\ PlainName(name)
    BY <1>2
  <2>2. texts[k] = Written(name, value)
    BY <1>1
  <2> HIDE DEF name, value, texts
  <2>3. /\ Written(name, value) \in Seq(Nat) /\ Written(name, value) # <<>>
        /\ FreeOf(Written(name, value), Ampersand)
        /\ Cut(Written(name, value), Equals) = <<name, PercentEncode(value, {})>>
    BY <2>1, WrittenReads
  <2> QED
    BY <2>2, <2>3, Zenon DEF name, value
<1>4. texts = [k \in 1..n |-> texts[k]]
  BY <1>1
<1>5. QueryText(parameters) = <<Question>> \o query
  BY Zenon DEF QueryText, Written
<1> HIDE DEF texts, n
<1>6. texts \in Seq(Seq(Nat)) /\ Len(texts) = n /\ DOMAIN texts = 1..n
  <2>1. texts \in [1..n -> Seq(Nat)]
    BY <1>3, <1>4
  <2> QED
    BY <1>1, <2>1, FunctionIsSeq
<1>7. query \in Seq(Nat) /\ Split(query, Ampersand) = texts
  <2>1. texts # <<>>
    BY <1>1, <1>6, EmptySeq
  <2>2. \A k \in 1..Len(texts) : FreeOf(texts[k], Ampersand)
    BY <1>3, <1>6
  <2> QED
    BY <1>6, <2>1, <2>2, SplitJoin, SeparatorsNotPlain
<1> HIDE DEF query
<1>8. query # <<>>
  <2> SUFFICES ASSUME query = <<>> PROVE FALSE
    OBVIOUS
  <2>1. <<>> \in Seq(Nat) /\ FreeOf(<<>>, Ampersand)
    BY EmptySeq DEF FreeOf
  <2>2. Split(<<>>, Ampersand) = <<<<>>>>
    BY <2>1, SplitFree
  <2>3. texts[1] = <<>>
    BY <1>7, <2>2
  <2> QED
    BY <1>1, <1>3, <2>3
<1>9. Received(query) = [k \in 1..n |-> <<Decoded(Cut(texts[k], Equals)[1]), Decoded(Cut(texts[k], Equals)[2])>>]
  BY <1>6, <1>7, <1>8, Zenon DEF Received
<1>10. ASSUME NEW k \in 1..n
       PROVE  <<Decoded(Cut(texts[k], Equals)[1]), Decoded(Cut(texts[k], Equals)[2])>> = parameters[k]
  <2> DEFINE name == parameters[k][1]
             value == parameters[k][2]
  <2>1. name \in Seq(Nat) /\ value \in Seq(Nat) /\ PlainName(name) /\ parameters[k] = <<name, value>>
    BY <1>2
  <2>2. Cut(texts[k], Equals)[1] = name /\ Cut(texts[k], Equals)[2] = PercentEncode(value, {})
    BY <1>3
  <2> HIDE DEF name, value
  <2>3. Percent \notin {}
    OBVIOUS
  <2>4. Decoded(name) = name /\ Decoded(PercentEncode(value, {})) = value
    BY <2>1, <2>3, NameReads, DecodedEncoded
  <2> QED
    BY <2>1, <2>2, <2>4, Zenon
<1>11. Received(query) = [k \in 1..n |-> parameters[k]]
  BY <1>9, <1>10
<1>12. parameters = [k \in 1..n |-> parameters[k]]
  BY <1>1
<1> QED
  BY <1>5, <1>7, <1>11, <1>12, Zenon

-----------------------------------------------------------------------------
(***************************************************************************)
(* Joined again, the pieces of a text are the text.                        *)
(***************************************************************************)
LEMMA LastSeparator ==
  ASSUME NEW S, NEW text \in Seq(S), NEW sep, ~FreeOf(text, sep)
  PROVE  \E w, u \in Seq(S) :
           text = w \o (<<sep>> \o u) /\ FreeOf(u, sep) /\ Len(w) < Len(text)
<1> DEFINE n == Len(text)
           after == {j \in Nat : j < n /\ text[n - j] = sep}
<1>1. n \in Nat /\ \A i \in 1..n : text[i] \in S
  BY LenProperties, ElementOfSeq
<1>2. PICK i \in 1..n : text[i] = sep
  BY DEF FreeOf
<1>3. n - i \in after
  <2>1. n - i \in Nat /\ n - i < n /\ n - (n - i) = i
    BY <1>1
  <2> QED
    BY <1>2, <2>1
<1>4. PICK j \in after : \A k \in after : j <= k
  BY <1>3, LeastNatural
<1> DEFINE m == n - j
<1>5. j \in Nat /\ m \in 1..n /\ text[m] = sep
  BY <1>1, <1>4
<1>6. ASSUME NEW k \in m + 1..n PROVE text[k] # sep
  <2>1. n - k \in Nat /\ n - k < n /\ n - (n - k) = k /\ ~(j <= n - k)
    BY <1>1, <1>5
  <2> QED
    BY <1>4, <2>1
<1> HIDE DEF after, m
<1> DEFINE w == SubSeq(text, 1, m - 1)
           u == SubSeq(text, m + 1, n)
<1>7. text = w \o (<<sep>> \o u)
  <2>1. /\ 1 \in 1..n + 1 /\ m - 1 \in 1 - 1..n /\ n \in m - 1..n /\ (m - 1) + 1 = m
        /\ m \in 1..n /\ n \in m..n
    BY <1>1, <1>5
  <2>2. w \o SubSeq(text, (m - 1) + 1, n) = SubSeq(text, 1, n)
    <3> DEFINE k == m - 1
    <3>1. 1 \in 1..Len(text) + 1 /\ k \in 1 - 1..Len(text) /\ n \in k..Len(text)
      BY <2>1
    <3> HIDE DEF k, n
    <3>2. SubSeq(text, 1, k) \o SubSeq(text, k + 1, n) = SubSeq(text, 1, n)
      BY <3>1, ConcatAdjacentSubSeq
    <3> QED
      BY <3>2 DEF k
  <2>3. SubSeq(text, m, n) = <<text[m]>> \o SubSeq(text, m + 1, n)
    BY <2>1, SubSeqRecursiveFirst
  <2>4. SubSeq(text, 1, n) = text
    BY SubSeqFull
  <2> QED
    BY <1>5, <2>1, <2>2, <2>3, <2>4, Zenon
<1>8. w \in Seq(S) /\ Len(w) < n
  <2>1. \A k \in 1..m - 1 : text[k] \in S
    BY <1>1, <1>5
  <2>2. w \in Seq(S) /\ Len(w) = IF 1 <= m - 1 THEN (m - 1) - 1 + 1 ELSE 0
    BY <1>5, <2>1, SubSeqProperties
  <2> HIDE DEF w, n
  <2> QED
    BY <1>1, <1>5, <2>2
<1>9. u \in Seq(S) /\ FreeOf(u, sep)
  <2>1. \A k \in m + 1..n : text[k] \in S
    BY <1>1, <1>5
  <2>2. /\ u \in Seq(S) /\ Len(u) = IF m + 1 <= n THEN n - (m + 1) + 1 ELSE 0
        /\ \A k \in 1..n - (m + 1) + 1 : u[k] = text[(m + 1) + k - 1]
    BY <1>1, <1>5, <2>1, SubSeqProperties
  <2> HIDE DEF u, n
  <2>3. ASSUME NEW k \in 1..Len(u) PROVE u[k] # sep
    <3>1. k \in 1..n - (m + 1) + 1 /\ (m + 1) + k - 1 \in m + 1..n
      BY <1>1, <1>5, <2>2
    <3> QED
      BY <1>6, <2>2, <3>1
  <2> QED
    BY <2>2, <2>3 DEF FreeOf
<1> HIDE DEF w, u
<1> QED
  BY <1>7, <1>8, <1>9

LEMMA JoinOne ==
  ASSUME NEW S, NEW sep \in S, NEW u \in Seq(S)
  PROVE  Join(<<u>>, sep) = u
<1> DEFINE h == <<u>>
<1>1. h \in Seq(Seq(S)) /\ Len(h) = 1 /\ h[1] = u /\ h # <<>>
  BY Literals
<1> HIDE DEF h
<1>2. PICK p : Joining(p, h, sep, S)
  BY <1>1, JoinPieces
<1> QED
  BY <1>1, <1>2 DEF Joining, h

LEMMA JoinAppend ==
  ASSUME NEW S, NEW sep \in S, NEW texts \in Seq(Seq(S)), texts # <<>>, NEW u \in Seq(S)
  PROVE  Join(texts \o <<u>>, sep) = Join(texts, sep) \o (<<sep>> \o u)
<1> DEFINE h == <<u>>
           n == Len(texts)
           longer == texts \o h
<1>1. h \in Seq(Seq(S)) /\ Len(h) = 1 /\ h[1] = u
  BY Literals
<1>2. n \in Nat /\ n >= 1
  BY LenProperties, EmptySeq
<1> HIDE DEF h
<1>3. /\ longer \in Seq(Seq(S)) /\ Len(longer) = n + 1
      /\ \A i \in 1..n + 1 : longer[i] = IF i <= n THEN texts[i] ELSE h[i - n]
  <2>1. /\ longer \in Seq(Seq(S)) /\ Len(longer) = Len(texts) + Len(h)
        /\ \A i \in 1..Len(texts) + Len(h) : longer[i] = IF i <= Len(texts) THEN texts[i] ELSE h[i - Len(texts)]
    BY <1>1, ConcatProperties
  <2> HIDE DEF longer
  <2> QED
    BY <1>1, <2>1
<1> HIDE DEF longer
<1>4. longer # <<>>
  BY <1>2, <1>3, EmptySeq
<1>5. PICK p : Joining(p, texts, sep, S)
  BY JoinPieces
<1>6. PICK q : Joining(q, longer, sep, S)
  BY <1>3, <1>4, JoinPieces
<1> DEFINE T == {k \in Nat : k + 1 <= n => q[k + 1] = p[k + 1]}
<1>l. \A i \in 1..n : longer[i] = texts[i]
  BY <1>2, <1>3
<1>7. 0 \in T
  <2>1. 1 \in 1..n
    BY <1>2
  <2> QED
    BY <1>5, <1>6, <1>l, <2>1 DEF Joining
<1>8. ASSUME NEW k \in Nat, k \in T PROVE k + 1 \in T
  <2> SUFFICES ASSUME (k + 1) + 1 <= n PROVE q[(k + 1) + 1] = p[(k + 1) + 1]
    OBVIOUS
  <2> DEFINE i == (k + 1) + 1
  <2>1. i \in 2..n /\ i \in 2..n + 1 /\ i \in 1..n /\ i - 1 = k + 1 /\ k + 1 <= n
    BY <1>2
  <2>2. q[i - 1] = p[i - 1]
    BY <1>8, <2>1
  <2> HIDE DEF i
  <2>3. q[i] = q[i - 1] \o (<<sep>> \o longer[i])
    BY <1>3, <1>6, <2>1 DEF Joining
  <2>4. p[i] = p[i - 1] \o (<<sep>> \o texts[i])
    BY <1>5, <2>1 DEF Joining
  <2>5. longer[i] = texts[i]
    BY <1>l, <2>1
  <2>6. q[i] = p[i]
    BY <2>2, <2>3, <2>4, <2>5, Zenon
  <2> QED
    BY <2>6 DEF i
<1>9. q[n] = p[n]
  <2>1. Nat \subseteq T
    <3> HIDE DEF T
    <3> QED
      BY <1>7, <1>8, SetInduction
  <2>2. n - 1 \in Nat /\ (n - 1) + 1 = n /\ n <= n
    BY <1>2
  <2>3. n - 1 \in T
    BY <2>1, <2>2
  <2> QED
    BY <2>2, <2>3
<1>10. q[n + 1] = q[n] \o (<<sep>> \o u)
  <2>1. n + 1 \in 2..n + 1 /\ (n + 1) - 1 = n /\ n + 1 \in 1..n + 1 /\ ~(n + 1 <= n) /\ (n + 1) - n = 1
    BY <1>2
  <2>2. longer[n + 1] = u
    BY <1>1, <1>3, <2>1
  <2>3. q[n + 1] = q[(n + 1) - 1] \o (<<sep>> \o longer[n + 1])
    BY <1>3, <1>6, <2>1 DEF Joining
  <2> QED
    BY <2>1, <2>2, <2>3, Zenon
<1>11. Join(longer, sep) = q[n + 1] /\ Join(texts, sep) = p[n]
  BY <1>3, <1>5, <1>6 DEF Joining
<1> QED
  BY <1>9, <1>10, <1>11, Zenon DEF longer, h

SplitShape(S, text, sep) ==
  /\ Split(text, sep) \in Seq(Seq(S)) /\ Split(text, sep) # <<>>
  /\ Join(Split(text, sep), sep) = text

LEMMA JoinSplit ==
  ASSUME NEW S, NEW sep \in S, NEW text \in Seq(S)
  PROVE  SplitShape(S, text, sep)
<1> DEFINE T == {m \in Nat : \A t \in Seq(S) : Len(t) <= m => SplitShape(S, t, sep)}
<1>1. ASSUME NEW t \in Seq(S), FreeOf(t, sep) PROVE SplitShape(S, t, sep)
  <2> DEFINE h == <<t>>
  <2>1. Split(t, sep) = h
    BY <1>1, SplitFree
  <2>2. h \in Seq(Seq(S)) /\ h # <<>>
    BY Literals
  <2>3. Join(h, sep) = t
    BY JoinOne
  <2> QED
    BY <2>1, <2>2, <2>3, Zenon DEF SplitShape
<1>2. ASSUME NEW m \in Nat, NEW t \in Seq(S), ~FreeOf(t, sep), Len(t) <= m + 1,
             \A w \in Seq(S) : Len(w) <= m => SplitShape(S, w, sep)
      PROVE  SplitShape(S, t, sep)
  <2>1. PICK w \in Seq(S), u \in Seq(S) :
          t = w \o (<<sep>> \o u) /\ FreeOf(u, sep) /\ Len(w) < Len(t)
    BY <1>2, LastSeparator
  <2>2. Len(w) <= m
    BY <1>2, <2>1, LenProperties
  <2>3. SplitShape(S, w, sep)
    BY <1>2, <2>2
  <2> DEFINE pieces == Split(w, sep)
             h == <<u>>
  <2>4. pieces \in Seq(Seq(S)) /\ pieces # <<>> /\ Join(pieces, sep) = w
    BY <2>3 DEF SplitShape
  <2>5. Split(w \o (<<sep>> \o u), sep) = pieces \o h
    BY <2>1, SplitAppend
  <2>6. h \in Seq(Seq(S)) /\ Len(h) = 1
    BY Literals
  <2> HIDE DEF pieces
  <2>7. Join(pieces \o h, sep) = w \o (<<sep>> \o u)
    BY <2>4, JoinAppend
  <2> HIDE DEF h
  <2>8. pieces \o h \in Seq(Seq(S)) /\ pieces \o h # <<>>
    <3>1. /\ pieces \o h \in Seq(Seq(S)) /\ Len(pieces \o h) = Len(pieces) + Len(h)
          /\ Len(pieces) \in Nat
      BY <2>4, <2>6, ConcatProperties, LenProperties
    <3>2. Len(pieces \o h) # 0
      BY <2>6, <3>1
    <3> QED
      BY <3>1, <3>2, EmptySeq
  <2> QED
    BY <2>1, <2>5, <2>7, <2>8, Zenon DEF SplitShape
<1>3. 0 \in T
  <2> SUFFICES ASSUME NEW t \in Seq(S), Len(t) <= 0 PROVE SplitShape(S, t, sep)
    OBVIOUS
  <2>1. FreeOf(t, sep)
    BY LenProperties DEF FreeOf
  <2> QED
    BY <1>1, <2>1
<1>4. ASSUME NEW m \in Nat, m \in T PROVE m + 1 \in T
  <2> SUFFICES ASSUME NEW t \in Seq(S), Len(t) <= m + 1 PROVE SplitShape(S, t, sep)
    OBVIOUS
  <2> QED
    BY <1>1, <1>2, <1>4
<1>5. Nat \subseteq T
  <2> HIDE DEF T
  <2> QED
    BY <1>3, <1>4, SetInduction
<1>6. Len(text) \in Nat /\ Len(text) <= Len(text)
  BY LenProperties
<1> QED
  BY <1>5, <1>6

-----------------------------------------------------------------------------
(***************************************************************************)
(* A path without dot segments is put on the wire as it is.                *)
(***************************************************************************)
\* What is kept of the first i segments of a path, given what of those before.
KeptOf(f, i, segments) ==
  IF i = 0 THEN <<>>
  ELSE IF segments[i] = Dot THEN f[i - 1]
  ELSE IF segments[i] = DotDot
    THEN SubSeq(f[i - 1], 1, IF Len(f[i - 1]) > 1 THEN Len(f[i - 1]) - 1 ELSE 1)
  ELSE Append(f[i - 1], segments[i])

LEMMA DotsKept ==
  ASSUME NEW path \in Seq(Nat), NoDots(path)
  PROVE  WithoutDots(path) = path
<1> DEFINE segments == Split(path, Slash)
           n == Len(segments)
           Rec(f) == f = [k \in 0..Len(segments) |->
                            IF k = 0 THEN <<>>
                            ELSE IF segments[k] = Dot THEN f[k - 1]
                            ELSE IF segments[k] = DotDot
                              THEN SubSeq(f[k - 1], 1, IF Len(f[k - 1]) > 1 THEN Len(f[k - 1]) - 1 ELSE 1)
                            ELSE Append(f[k - 1], segments[k])]
           f == CHOOSE g : Rec(g)
<1>1. /\ segments \in Seq(Seq(Nat)) /\ segments # <<>> /\ Join(segments, Slash) = path
      /\ \A k \in DOMAIN segments : segments[k] \notin {Dot, DotDot}
  BY JoinSplit, SeparatorsNotPlain DEF SplitShape, NoDots
<1>2. WithoutDots(path) = Join(IF segments[n] \in {Dot, DotDot} THEN Append(f[n], <<>>) ELSE f[n], Slash)
  BY Zenon DEF WithoutDots
<1> HIDE DEF segments
<1>3. /\ n \in Nat /\ n >= 1 /\ DOMAIN segments = 1..n
      /\ \A k \in 1..n : segments[k] \in Seq(Nat)
      /\ \A k \in 1..n : segments[k] # Dot /\ segments[k] # DotDot
  BY <1>1, LenProperties, ElementOfSeq, EmptySeq
<1>4. \A k \in 1..n : SubSeq(segments, 1, k) = Append(SubSeq(segments, 1, k - 1), segments[k])
  <2> TAKE k \in 1..n
  <2>1. 1 \in 1..n /\ k \in 1..k
    BY <1>3
  <2>2. SubSeq(segments, 1, k) = SubSeq(segments, 1, k - 1) \o <<segments[k]>>
    BY <1>1, <2>1, SubSeqRecursiveSecond
  <2>3. SubSeq(segments, 1, k - 1) \in Seq(Seq(Nat))
    <3>1. \A i \in 1..k - 1 : segments[i] \in Seq(Nat)
      BY <1>3
    <3> QED
      BY <1>3, <3>1, SubSeqProperties
  <2> DEFINE w == SubSeq(segments, 1, k - 1)
             u == segments[k]
  <2>4. u \in Seq(Nat)
    BY <1>3
  <2> HIDE DEF w, u, n
  <2>5. Append(w, u) = w \o <<u>>
    BY <2>3, <2>4, AppendIsConcat DEF w
  <2> QED
    BY <2>2, <2>5, Zenon DEF w, u
<1>5. \E g : Rec(g)
  <2> DEFINE g == [k \in 0..n |-> SubSeq(segments, 1, k)]
  <2>1. ASSUME NEW k \in 0..n
        PROVE  g[k] = KeptOf(g, k, segments)
    <3>1. CASE k = 0
      <4>1. g[k] = <<>>
        BY <3>1, SubSeqEmpty
      <4> QED
        BY <3>1, <4>1 DEF KeptOf
    <3>2. CASE k # 0
      <4>1. k \in 1..n /\ k - 1 \in 0..n
        BY <3>2, <1>3
      <4>2. g[k] = SubSeq(segments, 1, k) /\ g[k - 1] = SubSeq(segments, 1, k - 1)
        BY <4>1
      <4>3. segments[k] # Dot /\ segments[k] # DotDot
        BY <1>3, <4>1
      <4> HIDE DEF g
      <4>4. g[k] = Append(g[k - 1], segments[k])
        BY <1>4, <4>1, <4>2, Zenon
      <4> QED
        BY <3>2, <4>3, <4>4, Zenon DEF KeptOf
    <3> QED
      BY <3>1, <3>2
  <2>2. g = [k \in 0..n |-> g[k]]
    OBVIOUS
  <2> HIDE DEF g
  <2>3. g = [k \in 0..n |-> KeptOf(g, k, segments)]
    BY <2>1, <2>2
  <2>4. Rec(g)
    BY <2>3, Zenon DEF KeptOf
  <2> QED
    BY <2>4, Zenon
<1>6. Rec(f)
  BY <1>5, Zenon
<1> HIDE DEF f
<1>7. f = [k \in 0..n |-> KeptOf(f, k, segments)]
  BY <1>6, Zenon DEF KeptOf
<1> HIDE DEF Rec, n
<1> DEFINE T == {k \in Nat : k <= n => f[k] = SubSeq(segments, 1, k)}
<1>8. 0 \in T
  <2>1. 0 \in 0..n
    BY <1>3
  <2>2. f[0] = <<>>
    BY <1>7, <2>1 DEF KeptOf
  <2>3. SubSeq(segments, 1, 0) = <<>>
    BY SubSeqEmpty
  <2> QED
    BY <2>2, <2>3
<1>9. ASSUME NEW m \in Nat, m \in T PROVE m + 1 \in T
  <2> SUFFICES ASSUME m + 1 <= n PROVE f[m + 1] = SubSeq(segments, 1, m + 1)
    OBVIOUS
  <2> DEFINE k == m + 1
  <2>1. k \in 1..n /\ k \in 0..n /\ k # 0 /\ k - 1 = m /\ m <= n
    BY <1>3
  <2>2. f[k - 1] = SubSeq(segments, 1, k - 1)
    BY <1>9, <2>1
  <2> HIDE DEF k
  <2>3. f[k] = KeptOf(f, k, segments)
    BY <1>7, <2>1
  <2>4. f[k] = Append(f[k - 1], segments[k])
    BY <1>3, <2>1, <2>3, Zenon DEF KeptOf
  <2>5. f[k] = SubSeq(segments, 1, k)
    BY <1>4, <2>1, <2>2, <2>4, Zenon
  <2> QED
    BY <2>5 DEF k
<1>10. f[n] = SubSeq(segments, 1, n)
  <2>1. Nat \subseteq T
    <3> HIDE DEF T
    <3> QED
      BY <1>8, <1>9, SetInduction
  <2> QED
    BY <1>3, <2>1
<1>11. f[n] = segments
  BY <1>1, <1>10, SubSeqFull DEF n
<1>12. segments[n] \notin {Dot, DotDot}
  BY <1>3
<1> QED
  BY <1>1, <1>2, <1>11, <1>12, Zenon

-----------------------------------------------------------------------------
(***************************************************************************)
(* What the service makes of an attempt.                                   *)
(***************************************************************************)

\* The target of a call comes apart into its path and its query, and the query
\* is read as the parameters that were meant.
LEMMA TargetReads ==
  ASSUME NEW a \in Asked \cup LinkAsked
  PROVE  /\ Cut(a.target, Question)[1] = PathFor(a.bucket, a.key)
         /\ Received(Cut(a.target, Question)[2]) = a.parameters
<1> DEFINE path == PathFor(a.bucket, a.key)
           given == Cut(a.target, Question)[2]
<1>1. a.bucket \in Seq(Nat) /\ a.key \in Seq(Nat)
  BY AskedAssumption
<1>2. path \in Seq(Nat) /\ Cut(path, Question) = <<path, <<>>>>
  BY <1>1, PathIs, PathCut, EmptySeq
<1>3. \A query \in Seq(Nat) : Cut(path \o (<<Question>> \o query), Question) = <<path, query>>
  BY <1>1, PathCut
<1>4. path \o <<>> = path
  BY <1>2, ConcatEmptySeq
<1>5. Received(<<>>) = <<>>
  BY DEF Received
<1>6. CASE Composed(a)
  <2>0. /\ a.parameters \in Seq(Seq(Nat) \X Seq(Nat))
        /\ \A k \in DOMAIN a.parameters : PlainName(a.parameters[k][1])
        /\ a.target = path \o QueryText(a.parameters)
    BY <1>6 DEF Composed
  <2>1. CASE a.parameters = <<>>
    <3>1. QueryText(a.parameters) = <<>>
      BY <2>1 DEF QueryText
    <3> HIDE DEF path
    <3>2. a.target = path
      BY <1>4, <2>0, <3>1, Zenon
    <3>3. Cut(a.target, Question) = <<path, <<>>>>
      BY <1>2, <3>2, Zenon
    <3> QED
      BY <1>5, <2>1, <3>3 DEF path
  <2>2. CASE a.parameters # <<>>
    <3>1. PICK query \in Seq(Nat) :
            QueryText(a.parameters) = <<Question>> \o query /\ Received(query) = a.parameters
      BY <2>0, <2>2, QueryReads
    <3> HIDE DEF path
    <3>2. Cut(a.target, Question) = <<path, query>>
      BY <1>3, <2>0, <3>1, Zenon
    <3> QED
      BY <3>1, <3>2 DEF path
  <2> QED
    BY <2>1, <2>2
<1>7. CASE /\ given \in Seq(Nat)
           /\ a.target = path \o IF given = <<>> THEN <<>> ELSE <<Question>> \o given
           /\ a.parameters = Received(given)
  <2> HIDE DEF path
  <2>1. CASE given = <<>>
    <3>1. a.target = path
      BY <1>4, <1>7, <2>1, Zenon
    <3>2. Cut(a.target, Question) = <<path, <<>>>>
      BY <1>2, <3>1, Zenon
    <3> QED
      BY <1>7, <3>2 DEF path
  <2>2. CASE given # <<>>
    <3> HIDE DEF given
    <3>1. a.target = path \o (<<Question>> \o given)
      BY <1>7, <2>2, Zenon
    <3>2. Cut(a.target, Question) = <<path, given>>
      BY <1>3, <1>7, <3>1, Zenon
    <3> QED
      BY <1>7, <3>2 DEF path, given
  <2> QED
    BY <2>1, <2>2
<1> QED
  BY <1>6, <1>7, AskedAssumption

\* What of a request depends on the endpoint and on the target only.
LEMMA SentParts ==
  ASSUME NEW a, NEW endpoint, NEW at
  PROVE  /\ SentAs(a, endpoint, at).authority = endpoint.authority
         /\ SentAs(a, endpoint, at).path = WithoutDots(endpoint.base \o Cut(a.target, Question)[1])
         /\ SentAs(a, endpoint, at).query = Cut(a.target, Question)[2]
BY DEF SentAs, Transmitted, Signed, RequestTo

LEMMA WaitingSent ==
  ASSUME TypeOK, LoopInvariant, WireInv, NEW c \in Caller, pc[c] = "wait"
  PROVE  /\ client.endpoints[Rotation(attempt[c])] \in Endpoint
         /\ asked[c] \in Asked
         /\ wire[c].request =
              SentAs(asked[c], client.endpoints[Rotation(attempt[c])], wire[c].at)
<1>1. client.endpoints \in Seq(Endpoint) /\ client.endpoints # <<>> /\ attempt[c] \in Nat
  BY EndpointsType DEF TypeOK, LoopInvariant, LoopInv, Trying
<1>2. Rotation(attempt[c]) \in 1..Len(client.endpoints)
  BY <1>1, RotationInList
<1>3. client.endpoints[Rotation(attempt[c])] \in Endpoint
  BY <1>1, <1>2, ElementOfSeq
<1> QED
  BY <1>3 DEF WireInv, Fresh

\* Every attempt of every call, whichever endpoint it goes to.
AddressedUnlessDotted ==
  \A c \in Caller :
    pc[c] = "wait" =>
      LET endpoint == client.endpoints[Rotation(attempt[c])]
          sent == wire[c].request
      IN  /\ sent.authority = endpoint.authority
          /\ NoDots(PathOf(endpoint, asked[c])) =>
               Address(sent.path, endpoint.base) = <<asked[c].bucket, asked[c].key>>
          /\ Received(sent.query) = asked[c].parameters

LEMMA Addressed == TypeOK /\ LoopInvariant /\ WireInv => AddressedUnlessDotted
<1> SUFFICES ASSUME TypeOK, LoopInvariant, WireInv, NEW c \in Caller, pc[c] = "wait"
             PROVE  LET endpoint == client.endpoints[Rotation(attempt[c])]
                        sent == wire[c].request
                    IN  /\ sent.authority = endpoint.authority
                        /\ NoDots(PathOf(endpoint, asked[c])) =>
                             Address(sent.path, endpoint.base) = <<asked[c].bucket, asked[c].key>>
                        /\ Received(sent.query) = asked[c].parameters
  BY DEF AddressedUnlessDotted
<1>0. /\ client.endpoints[Rotation(attempt[c])] \in Endpoint
      /\ asked[c] \in Asked
      /\ wire[c].request = SentAs(asked[c], client.endpoints[Rotation(attempt[c])], wire[c].at)
  BY WaitingSent
<1> DEFINE e == client.endpoints[Rotation(attempt[c])]
           a == asked[c]
           sent == wire[c].request
           at == wire[c].at
<1>1. e \in Endpoint /\ a \in Asked /\ sent = SentAs(a, e, at)
  BY <1>0, Zenon
<1> HIDE DEF e, a, sent, at
<1>2. /\ sent.authority = e.authority
      /\ sent.path = WithoutDots(e.base \o Cut(a.target, Question)[1])
      /\ sent.query = Cut(a.target, Question)[2]
  BY <1>1, SentParts, ZenonT(40)
<1>3. sent.path = WithoutDots(PathOf(e, a)) /\ Received(sent.query) = a.parameters
  BY <1>1, <1>2, TargetReads, Zenon DEF PathOf
<1>4. ASSUME NoDots(PathOf(e, a))
      PROVE  Address(sent.path, e.base) = <<a.bucket, a.key>>
  <2> DEFINE base == e.base
             bucket == a.bucket
             key == a.key
             path == PathFor(bucket, key)
  <2>1. base \in Seq(Nat) /\ bucket \in Seq(Nat) /\ key \in Seq(Nat)
    BY <1>1, AskedAssumption, BaseAssumption
  <2> HIDE DEF base, bucket, key
  <2>2. path \in Seq(Nat)
    BY <2>1, PathIs
  <2> HIDE DEF path
  <2>3. base \o path \in Seq(Nat)
    BY <2>1, <2>2, ConcatProperties
  <2>4. PathOf(e, a) = base \o path
    BY Zenon DEF PathOf, base, path, bucket, key
  <2>5. WithoutDots(base \o path) = base \o path
    BY <1>4, <2>3, <2>4, DotsKept
  <2>6. Address(base \o path, base) = <<bucket, key>>
    BY <2>1, AddressOfPath DEF path
  <2> QED
    BY <1>3, <2>4, <2>5, <2>6, Zenon DEF base, bucket, key
<1> QED
  BY <1>2, <1>3, <1>4 DEF e, a, sent

\* Whatever endpoint an attempt goes to, the service there reads the bucket, the
\* key and the parameters that the caller meant, whatever bytes they are made
\* of, unless libcurl takes a dot segment out of the path.
THEOREM RequestsAddressed == SignedSpec => []AddressedUnlessDotted
<1>1. Spec => []LoopInvariant
  BY InvariantsHold, PTL
<1> QED
  BY <1>1, Addressed, SignedImplementsLoop, SignedTypeCorrect, WireHolds, PTL

\* Where no path has a dot segment, every object is addressed as it was meant.
THEOREM ObjectsAddressed ==
  ASSUME \A e \in Endpoint, a \in Asked : NoDots(PathOf(e, a))
  PROVE  SignedSpec => []ObjectAddressed
<1>1. TypeOK /\ LoopInvariant /\ WireInv => ObjectAddressed
  BY Addressed, WaitingSent DEF AddressedUnlessDotted, ObjectAddressed
<1>2. Spec => []LoopInvariant
  BY InvariantsHold, PTL
<1> QED
  BY <1>1, <1>2, SignedImplementsLoop, SignedTypeCorrect, WireHolds, PTL

-----------------------------------------------------------------------------
(***************************************************************************)
(* Escapes, and what the service makes of them.  A text of which only what *)
(* has to be quoted is quoted is its own canonical form, whatever service  *)
(* reads it: decoding and quoting it again gives the same text.            *)
(***************************************************************************)

\* The digits of an escape in upper case are those that Escape writes.
LEMMA DigitsRewritten ==
  ASSUME NEW h \in Nat, IsHex(h)
  PROVE  /\ HexValue(h) \in 0..15 /\ HexDigit(HexValue(h)) = UpperHex(h)
         /\ UpperHex(h) \in Nat
BY DEF IsHex, HexValue, HexDigit, UpperHex, Digit, Lower

LEMMA EscapeRewritten ==
  ASSUME NEW h \in Nat, NEW l \in Nat, IsHex(h), IsHex(l), NEW kept,
         ~Unreserved(16 * HexValue(h) + HexValue(l)), 16 * HexValue(h) + HexValue(l) \notin kept
  PROVE  /\ 16 * HexValue(h) + HexValue(l) \in Nat
         /\ Raw(16 * HexValue(h) + HexValue(l), kept) = <<Percent, UpperHex(h), UpperHex(l)>>
<1> DEFINE a == HexValue(h)
           b == HexValue(l)
           x == 16 * a + b
<1>1. /\ a \in 0..15 /\ HexDigit(a) = UpperHex(h)
      /\ b \in 0..15 /\ HexDigit(b) = UpperHex(l)
  BY DigitsRewritten
<1> HIDE DEF a, b
<1>2. x \in Nat /\ x \div 16 = a /\ (x % 16) = b
  BY <1>1
<1> HIDE DEF x
<1>3. Raw(x, kept) = Escape(x)
  BY DEF Raw, x, a, b
<1>4. Escape(x) = <<Percent, UpperHex(h), UpperHex(l)>>
  BY <1>1, <1>2 DEF Escape
<1> QED
  BY <1>2, <1>3, <1>4 DEF x, a, b

\* The encoding of a text begins with that of its first byte.
LEMMA EncodedFirst ==
  ASSUME NEW c \in Nat, NEW v \in Seq(Nat), NEW kept
  PROVE  PercentEncode(<<c>> \o v, kept) = Raw(c, kept) \o PercentEncode(v, kept)
<1> DEFINE t == <<c>> \o v
           n == Len(v)
           r == Raw(c, kept)
<1>1. r \in Seq(Nat)
  BY RawType
<1>2. /\ t \in Seq(Nat) /\ Len(t) = n + 1 /\ n \in Nat
      /\ t[1] = c /\ \A k \in 1..n : t[k + 1] = v[k] /\ v[k] \in Nat
  <2> DEFINE h == <<c>>
  <2>1. h \in Seq(Nat) /\ Len(h) = 1 /\ h[1] = c
    BY Literals
  <2> HIDE DEF h
  <2> HIDE DEF n
  <2>0. /\ h \o v \in Seq(Nat) /\ Len(h \o v) = Len(h) + Len(v) /\ Len(v) \in Nat
        /\ \A k \in 1..Len(h) + Len(v) : (h \o v)[k] = IF k <= Len(h) THEN h[k] ELSE v[k - Len(h)]
    BY <2>1, ConcatProperties, LenProperties
  <2>2. /\ h \o v \in Seq(Nat) /\ Len(h \o v) = 1 + n /\ n \in Nat
        /\ \A k \in 1..1 + n : (h \o v)[k] = IF k <= 1 THEN h[k] ELSE v[k - 1]
    BY <2>0, <2>1, Zenon DEF n
  <2>3. ASSUME NEW k \in 1..n PROVE (h \o v)[k + 1] = v[k] /\ v[k] \in Nat
    <3>1. k + 1 \in 1..1 + n /\ ~(k + 1 <= 1) /\ (k + 1) - 1 = k
      BY <2>2
    <3>2. v[k] \in Nat
      BY ElementOfSeq DEF n
    <3> QED
      BY <2>2, <3>1, <3>2
  <2>4. (h \o v)[1] = c
    BY <2>1, <2>2
  <2> QED
    BY <2>2, <2>3, <2>4 DEF h
<1> HIDE DEF t
<1>3. PICK p : Encoding(p, t, kept, Nat)
  BY <1>2, RawType, EncodedPieces
<1>4. PICK q : Encoding(q, v, kept, Nat)
  BY RawType, EncodedPieces
<1>5. Associates(Nat)
  BY Associative, Zenon
<1> DEFINE T == {k \in Nat : k <= n => p[k + 1] = r \o q[k]}
<1>6. 0 \in T
  <2>1. p[1] = p[0] \o Raw(t[1], kept) /\ p[0] = <<>> /\ q[0] = <<>>
    <3>1. 1 \in 1..Len(t) /\ 1 - 1 = 0
      BY <1>2
    <3> QED
      BY <1>3, <1>4, <3>1 DEF Encoding
  <2>2. p[1] = r
    BY <1>1, <1>2, <2>1, ConcatEmptySeq DEF r
  <2>3. r \o <<>> = r
    BY <1>1, ConcatEmptySeq
  <2>4. p[0 + 1] = r \o q[0]
    BY <2>1, <2>2, <2>3
  <2> HIDE DEF r
  <2> QED
    BY <2>4
<1>7. ASSUME NEW k \in Nat, k \in T PROVE k + 1 \in T
  <2> SUFFICES ASSUME k + 1 <= n PROVE p[(k + 1) + 1] = r \o q[k + 1]
    OBVIOUS
  <2> DEFINE j == k + 1
             s == Raw(v[j], kept)
  <2> HIDE DEF n
  <2>1. /\ k <= n /\ j \in 1..n /\ j + 1 \in 1..n + 1 /\ (j + 1) - 1 = j /\ j - 1 = k
        /\ k \in 0..n
    BY <1>2
  <2>2. s \in Seq(Nat)
    BY <1>2, <2>1, RawType
  <2>3. p[j + 1] = p[j] \o s
    <3>1. p[j + 1] = p[(j + 1) - 1] \o Raw(t[j + 1], kept)
      BY <1>2, <1>3, <2>1 DEF Encoding
    <3> QED
      BY <1>2, <2>1, <3>1
  <2>4. q[j] = q[k] \o s
    BY <1>4, <2>1 DEF Encoding, n
  <2>5. p[j] = r \o q[k]
    BY <1>7, <2>1
  <2>6. q[k] \in Seq(Nat)
    BY <1>4, <2>1 DEF Encoding, n
  <2> HIDE DEF r, s, j
  <2>7. (r \o q[k]) \o s = r \o (q[k] \o s)
    BY <1>1, <1>5, <2>2, <2>6, Zenon DEF Associates
  <2>8. p[j + 1] = r \o q[j]
    BY <2>3, <2>4, <2>5, <2>7, Zenon
  <2> QED
    BY <2>8 DEF j
<1>8. Nat \subseteq T
  <2> HIDE DEF T
  <2> QED
    BY <1>6, <1>7, SetInduction
<1>9. p[n + 1] = r \o q[n]
  <2> HIDE DEF r
  <2> QED
    BY <1>2, <1>8
<1>10. PercentEncode(t, kept) = p[n + 1] /\ PercentEncode(v, kept) = q[n]
  BY <1>2, <1>3, <1>4 DEF Encoding
<1> QED
  BY <1>9, <1>10, Zenon DEF t, r

\* A concatenation, byte by byte.
LEMMA Bytes ==
  ASSUME NEW u \in Seq(Nat), NEW v \in Seq(Nat)
  PROVE  /\ u \o v \in Seq(Nat) /\ Len(u) \in Nat /\ Len(v) \in Nat /\ Len(u \o v) = Len(u) + Len(v)
         /\ \A i \in 1..Len(u) : (u \o v)[i] = u[i] /\ u[i] \in Nat
         /\ \A i \in 1..Len(v) : (u \o v)[Len(u) + i] = v[i] /\ v[i] \in Nat
<1> DEFINE t == u \o v
           n == Len(u)
           m == Len(v)
<1>1. /\ t \in Seq(Nat) /\ n \in Nat /\ m \in Nat /\ Len(t) = n + m
      /\ \A i \in 1..n + m : t[i] = IF i <= n THEN u[i] ELSE v[i - n]
  BY ConcatProperties, LenProperties
<1>2. (\A i \in 1..n : u[i] \in Nat) /\ (\A i \in 1..m : v[i] \in Nat)
  BY ElementOfSeq
<1> HIDE DEF t, n, m
<1>3. ASSUME NEW i \in 1..n PROVE t[i] = u[i]
  <2>1. i \in 1..n + m /\ i <= n
    BY <1>1
  <2> QED
    BY <1>1, <2>1
<1>4. ASSUME NEW i \in 1..m PROVE t[n + i] = v[i]
  <2>1. n + i \in 1..n + m /\ ~(n + i <= n) /\ (n + i) - n = i
    BY <1>1
  <2> QED
    BY <1>1, <2>1
<1> QED
  BY <1>1, <1>2, <1>3, <1>4 DEF t, n, m

\* An escape does not reach over a byte that is not a hexadecimal digit.
LEMMA EscapeInside ==
  ASSUME NEW u \in Seq(Nat), NEW v \in Seq(Nat), v = <<>> \/ ~IsHex(v[1])
  PROVE  /\ \A i \in 1..Len(u) : IsEscape(u \o v, i) => i + 2 <= Len(u)
         /\ \A i \in 1..Len(u) : IsEscape(u \o v, i) <=> IsEscape(u, i)
         /\ \A i \in 1..Len(v) : IsEscape(u \o v, Len(u) + i) <=> IsEscape(v, i)
<1> DEFINE t == u \o v
           n == Len(u)
           m == Len(v)
<1>1. /\ t \in Seq(Nat) /\ n \in Nat /\ m \in Nat /\ Len(t) = n + m
      /\ \A i \in 1..n : t[i] = u[i]
      /\ \A i \in 1..m : t[n + i] = v[i]
  BY Bytes
<1>2. m > 0 => ~IsHex(t[n + 1])
  <2> SUFFICES ASSUME m > 0 PROVE ~IsHex(t[n + 1])
    OBVIOUS
  <2>1. v # <<>>
    BY EmptySeq
  <2> HIDE DEF t, n, m
  <2>2. 1 \in 1..m
    BY <1>1
  <2> QED
    BY <1>1, <2>1, <2>2
<1>3. /\ \A i : IsEscape(t, i) <=> /\ t[i] = Percent /\ i + 2 <= n + m
                                   /\ IsHex(t[i + 1]) /\ IsHex(t[i + 2])
      /\ \A i : IsEscape(u, i) <=> /\ u[i] = Percent /\ i + 2 <= n
                                   /\ IsHex(u[i + 1]) /\ IsHex(u[i + 2])
      /\ \A i : IsEscape(v, i) <=> /\ v[i] = Percent /\ i + 2 <= m
                                   /\ IsHex(v[i + 1]) /\ IsHex(v[i + 2])
  BY <1>1 DEF IsEscape
<1> HIDE DEF t, n, m
<1>n. n \in Nat /\ m \in Nat
  BY <1>1
<1>4. ASSUME NEW i \in 1..n, IsEscape(t, i) PROVE i + 2 <= n
  <2>1. i + 2 <= n + m /\ IsHex(t[i + 1]) /\ IsHex(t[i + 2])
    BY <1>3, <1>4
  <2>2. ASSUME ~(i + 2 <= n) PROVE FALSE
    <3>1. m > 0 /\ (i + 1 = n + 1 \/ i + 2 = n + 1)
      <4>1. i + 2 <= n + m
        BY <2>1
      <4> QED
        BY <1>n, <2>2, <4>1
    <3> QED
      BY <1>2, <2>1, <3>1
  <2> QED
    BY <2>2
<1>5. ASSUME NEW i \in 1..n PROVE IsEscape(t, i) <=> IsEscape(u, i)
  <2>1. i + 2 <= n => i + 1 \in 1..n /\ i + 2 \in 1..n /\ i + 2 <= n + m
    BY <1>1
  <2> QED
    BY <1>1, <1>3, <1>4, <2>1
<1>6. ASSUME NEW i \in 1..m PROVE IsEscape(t, n + i) <=> IsEscape(v, i)
  <2>1. /\ (n + i) + 2 <= n + m <=> i + 2 <= m
        /\ (n + i) + 1 = n + (i + 1) /\ (n + i) + 2 = n + (i + 2)
        /\ i + 2 <= m => i + 1 \in 1..m /\ i + 2 \in 1..m
    BY <1>n
  <2>2. t[n + i] = v[i]
    BY <1>1
  <2>3. CASE i + 2 <= m
    <3>1. t[n + (i + 1)] = v[i + 1] /\ t[n + (i + 2)] = v[i + 2]
      BY <1>1, <2>1, <2>3
    <3> QED
      BY <1>3, <2>1, <2>2, <2>3, <3>1
  <2>4. CASE ~(i + 2 <= m)
    BY <1>3, <2>1, <2>4
  <2> QED
    BY <2>3, <2>4
<1> QED
  BY <1>4, <1>5, <1>6 DEF t, n, m

LEMMA EscapesConcat ==
  ASSUME NEW u \in Seq(Nat), NEW v \in Seq(Nat), v = <<>> \/ ~IsHex(v[1]),
         EscapesNeeded(u), EscapesNeeded(v)
  PROVE  EscapesNeeded(u \o v)
<1> DEFINE t == u \o v
           n == Len(u)
           m == Len(v)
<1>1. /\ t \in Seq(Nat) /\ n \in Nat /\ m \in Nat /\ Len(t) = n + m
      /\ \A i \in 1..n : t[i] = u[i]
      /\ \A i \in 1..m : t[n + i] = v[i]
  BY Bytes
<1>2. /\ \A i \in 1..n : IsEscape(t, i) => i + 2 <= n
      /\ \A i \in 1..n : IsEscape(t, i) <=> IsEscape(u, i)
      /\ \A i \in 1..m : IsEscape(t, n + i) <=> IsEscape(v, i)
  BY EscapeInside
<1>3. /\ \A i \in 1..n : IsEscape(u, i) => ~Unreserved(16 * HexValue(u[i + 1]) + HexValue(u[i + 2]))
      /\ \A i \in 1..m : IsEscape(v, i) => ~Unreserved(16 * HexValue(v[i + 1]) + HexValue(v[i + 2]))
      /\ \A i \in 1..m : IsEscape(v, i) => i + 2 <= m
      /\ DOMAIN t = 1..n + m
  BY <1>1, LenProperties DEF EscapesNeeded, IsEscape
<1> HIDE DEF t, n, m
<1>4. ASSUME NEW i \in 1..n + m, IsEscape(t, i)
      PROVE  ~Unreserved(16 * HexValue(t[i + 1]) + HexValue(t[i + 2]))
  <2>1. CASE i <= n
    <3>1. i \in 1..n
      BY <1>1, <2>1
    <3>2. i + 2 <= n /\ IsEscape(u, i)
      BY <1>2, <1>4, <3>1
    <3>3. i + 1 \in 1..n /\ i + 2 \in 1..n
      BY <1>1, <3>1, <3>2
    <3> QED
      BY <1>1, <1>3, <3>1, <3>2, <3>3
  <2>2. CASE ~(i <= n)
    <3> DEFINE j == i - n
    <3>1. j \in 1..m /\ i = n + j /\ i + 1 = n + (j + 1) /\ i + 2 = n + (j + 2)
      BY <1>1, <2>2
    <3> HIDE DEF j
    <3>2. IsEscape(v, j)
      BY <1>2, <1>4, <3>1
    <3>3. j + 1 \in 1..m /\ j + 2 \in 1..m
      BY <1>1, <1>3, <3>1, <3>2
    <3> QED
      BY <1>1, <1>3, <3>1, <3>2, <3>3
  <2> QED
    BY <2>1, <2>2
<1> QED
  BY <1>3, <1>4 DEF EscapesNeeded, t

\* Any part of such a text is one.
LEMMA EscapesPart ==
  ASSUME NEW u \in Seq(Nat), NEW v \in Seq(Nat), EscapesNeeded(u \o v), v = <<>> \/ ~IsHex(v[1])
  PROVE  EscapesNeeded(u) /\ EscapesNeeded(v)
<1> DEFINE t == u \o v
           n == Len(u)
           m == Len(v)
<1>1. /\ t \in Seq(Nat) /\ n \in Nat /\ m \in Nat /\ Len(t) = n + m
      /\ \A i \in 1..n : t[i] = u[i]
      /\ \A i \in 1..m : t[n + i] = v[i]
  BY Bytes
<1>2. /\ \A i \in 1..n : IsEscape(t, i) <=> IsEscape(u, i)
      /\ \A i \in 1..m : IsEscape(t, n + i) <=> IsEscape(v, i)
  BY EscapeInside
<1>3. /\ \A i \in 1..n : IsEscape(u, i) => i + 2 <= n
      /\ \A i \in 1..m : IsEscape(v, i) => i + 2 <= m
      /\ \A i \in 1..n + m : IsEscape(t, i) => ~Unreserved(16 * HexValue(t[i + 1]) + HexValue(t[i + 2]))
      /\ DOMAIN u = 1..n /\ DOMAIN v = 1..m
  BY <1>1, LenProperties DEF EscapesNeeded, IsEscape
<1> HIDE DEF t, n, m
<1>4. ASSUME NEW i \in 1..n, IsEscape(u, i)
      PROVE  ~Unreserved(16 * HexValue(u[i + 1]) + HexValue(u[i + 2]))
  <2>1. i \in 1..n + m /\ i + 1 \in 1..n /\ i + 2 \in 1..n
    BY <1>1, <1>3, <1>4
  <2> QED
    BY <1>1, <1>2, <1>3, <1>4, <2>1
<1>5. ASSUME NEW i \in 1..m, IsEscape(v, i)
      PROVE  ~Unreserved(16 * HexValue(v[i + 1]) + HexValue(v[i + 2]))
  <2>1. /\ n + i \in 1..n + m /\ i + 1 \in 1..m /\ i + 2 \in 1..m
        /\ (n + i) + 1 = n + (i + 1) /\ (n + i) + 2 = n + (i + 2)
    BY <1>1, <1>3, <1>5
  <2>2. ~Unreserved(16 * HexValue(t[n + (i + 1)]) + HexValue(t[n + (i + 2)]))
    BY <1>2, <1>3, <1>5, <2>1
  <2> QED
    BY <1>1, <2>1, <2>2
<1> QED
  BY <1>3, <1>4, <1>5 DEF EscapesNeeded

LEMMA FirstAndRest ==
  ASSUME NEW text \in Seq(Nat), text # <<>>
  PROVE  \E c \in Nat, v \in Seq(Nat) : text = <<c>> \o v /\ Len(text) = Len(v) + 1
<1> DEFINE n == Len(text)
           v == SubSeq(text, 2, n)
<1>1. n \in Nat /\ n >= 1 /\ 1 \in 1..n /\ text[1] \in Nat
  BY LenProperties, ElementOfSeq, EmptySeq
<1>2. SubSeq(text, 1, n) = <<text[1]>> \o SubSeq(text, 1 + 1, n)
  BY <1>1, SubSeqRecursiveFirst
<1>3. SubSeq(text, 1, n) = text
  BY SubSeqFull
<1>4. v \in Seq(Nat) /\ Len(v) = n - 1
  <2>1. \A i \in 2..n : text[i] \in Nat
    BY <1>1, ElementOfSeq
  <2>2. v \in Seq(Nat) /\ Len(v) = IF 2 <= n THEN n - 2 + 1 ELSE 0
    BY <1>1, <2>1, SubSeqProperties
  <2> HIDE DEF v, n
  <2> QED
    BY <1>1, <2>2
<1>5. text = <<text[1]>> \o v
  <2>1. 1 + 1 = 2
    OBVIOUS
  <2> HIDE DEF n
  <2> QED
    BY <1>2, <1>3, <2>1, Zenon
<1>6. Len(text) = Len(v) + 1
  <2> HIDE DEF v
  <2> QED
    BY <1>1, <1>4
<1> HIDE DEF n, v
<1> QED
  BY <1>1, <1>4, <1>5, <1>6, Zenon

\* The encoding writes an escape only for a byte that needs one.
LEMMA EscapesBehind ==
  ASSUME NEW c \in Nat, NEW kept, Percent \notin kept, NEW x \in Seq(Nat), EscapesNeeded(x)
  PROVE  EscapesNeeded(Raw(c, kept) \o x)
<1> DEFINE r == Raw(c, kept)
           t == r \o x
           n == Len(r)
           m == Len(x)
<1>0. r \in Seq(Nat)
  BY RawType
<1>1. /\ t \in Seq(Nat) /\ n \in Nat /\ m \in Nat /\ Len(t) = n + m
      /\ \A i \in 1..n : t[i] = r[i]
      /\ \A i \in 1..m : t[n + i] = x[i]
  <2> HIDE DEF r
  <2> QED
    BY <1>0, Bytes
<1>2. \/ r = <<c>> /\ (Unreserved(c) \/ c \in kept)
      \/ /\ ~Unreserved(c)
         /\ \E h, l \in Nat :
              /\ r = <<Percent, h, l>>
              /\ Unreserved(h) /\ Unreserved(l)
              /\ 16 * HexValue(h) + HexValue(l) = c
  <2>1. CASE Unreserved(c) \/ c \in kept
    BY <2>1 DEF Raw
  <2>2. CASE ~(Unreserved(c) \/ c \in kept)
    BY <2>2, RawShape
  <2> QED
    BY <2>1, <2>2
<1>3. /\ \A i : IsEscape(t, i) <=> /\ t[i] = Percent /\ i + 2 <= n + m
                                   /\ IsHex(t[i + 1]) /\ IsHex(t[i + 2])
      /\ \A i : IsEscape(x, i) <=> /\ x[i] = Percent /\ i + 2 <= m
                                   /\ IsHex(x[i + 1]) /\ IsHex(x[i + 2])
      /\ \A i \in 1..m : IsEscape(x, i) => ~Unreserved(16 * HexValue(x[i + 1]) + HexValue(x[i + 2]))
      /\ DOMAIN t = 1..n + m
  BY <1>1, LenProperties DEF EscapesNeeded, IsEscape
<1>p. ~Unreserved(Percent)
  BY DEF Unreserved, Percent, Digit, Upper, Lower
<1> HIDE DEF r, t, n, m
<1>n. n \in Nat /\ m \in Nat
  BY <1>1
<1> DEFINE Fine(i) == IsEscape(t, i) => ~Unreserved(16 * HexValue(t[i + 1]) + HexValue(t[i + 2]))
<1>4. ASSUME NEW i \in 1..m PROVE Fine(n + i)
  <2> SUFFICES ASSUME IsEscape(t, n + i)
               PROVE  ~Unreserved(16 * HexValue(t[(n + i) + 1]) + HexValue(t[(n + i) + 2]))
    OBVIOUS
  <2>0. (n + i) + 2 <= n + m
    BY <1>3
  <2>1. /\ (n + i) + 1 = n + (i + 1) /\ (n + i) + 2 = n + (i + 2)
        /\ i + 1 \in 1..m /\ i + 2 \in 1..m /\ i + 2 <= m
    BY <1>n, <2>0
  <2>2. t[n + i] = x[i] /\ t[n + (i + 1)] = x[i + 1] /\ t[n + (i + 2)] = x[i + 2]
    BY <1>1, <2>1
  <2>3. IsEscape(x, i)
    BY <1>3, <2>1, <2>2
  <2> QED
    BY <1>3, <2>1, <2>2, <2>3
<1>5. ASSUME NEW i \in 1..n PROVE Fine(i)
  <2>1. CASE r = <<c>> /\ (Unreserved(c) \/ c \in kept)
    <3>1. n = 1 /\ r[1] = c
      BY <2>1 DEF n
    <3>2. t[i] = c
      BY <1>1, <3>1
    <3> QED
      BY <1>3, <1>p, <2>1, <3>2
  <2>2. ASSUME ~Unreserved(c), NEW h \in Nat, NEW l \in Nat,
               r = <<Percent, h, l>>, Unreserved(h), Unreserved(l),
               16 * HexValue(h) + HexValue(l) = c
        PROVE  Fine(i)
    <3>1. n = 3 /\ r[1] = Percent /\ r[2] = h /\ r[3] = l
      BY <2>2 DEF n
    <3>2. t[2] = h /\ t[3] = l
      BY <1>1, <3>1
    <3>3. CASE i = 1
      BY <2>2, <3>2, <3>3
    <3>4. CASE i # 1
      <4>1. i = 2 \/ i = 3
        BY <3>1, <3>4
      <4>2. t[i] # Percent
        BY <1>p, <2>2, <3>2, <4>1
      <4> QED
        BY <1>3, <4>2
    <3> QED
      BY <3>3, <3>4
  <2> QED
    BY <1>2, <2>1, <2>2
<1>6. ASSUME NEW i \in 1..n + m PROVE Fine(i)
  <2>1. CASE i <= n
    BY <1>5, <2>1
  <2>2. CASE ~(i <= n)
    <3>1. i - n \in 1..m /\ n + (i - n) = i
      BY <1>n, <2>2
    <3> HIDE DEF Fine
    <3> QED
      BY <1>4, <3>1
  <2> QED
    BY <2>1, <2>2
<1>7. EscapesNeeded(t)
  BY <1>3, <1>6 DEF EscapesNeeded
<1> QED
  BY <1>7 DEF t, r

LEMMA EscapesEncoded ==
  ASSUME NEW text \in Seq(Nat), NEW kept, Percent \notin kept
  PROVE  EscapesNeeded(PercentEncode(text, kept))
<1> DEFINE T == {m \in Nat : \A t \in Seq(Nat) : Len(t) = m => EscapesNeeded(PercentEncode(t, kept))}
<1>1. 0 \in T
  <2> SUFFICES ASSUME NEW t \in Seq(Nat), Len(t) = 0 PROVE EscapesNeeded(PercentEncode(t, kept))
    OBVIOUS
  <2>1. PICK p : Encoding(p, t, kept, Nat)
    BY RawType, EncodedPieces
  <2>2. PercentEncode(t, kept) = <<>>
    BY <2>1 DEF Encoding
  <2> QED
    BY <2>2 DEF EscapesNeeded
<1>2. ASSUME NEW m \in Nat, m \in T PROVE m + 1 \in T
  <2> SUFFICES ASSUME NEW t \in Seq(Nat), Len(t) = m + 1 PROVE EscapesNeeded(PercentEncode(t, kept))
    OBVIOUS
  <2>1. t # <<>>
    <3>1. Len(t) # 0
      OBVIOUS
    <3> QED
      BY <3>1, EmptySeq
  <2>2. PICK c \in Nat, v \in Seq(Nat) : t = <<c>> \o v /\ Len(t) = Len(v) + 1
    BY <2>1, FirstAndRest
  <2>3. Len(v) = m
    BY <2>2, LenProperties
  <2>4. EscapesNeeded(PercentEncode(v, kept)) /\ PercentEncode(v, kept) \in Seq(Nat)
    BY <1>2, <2>3, EncodedType
  <2> DEFINE q == PercentEncode(v, kept)
             r == Raw(c, kept)
  <2>5. PercentEncode(t, kept) = r \o q
    BY <2>2, EncodedFirst, ZenonT(40)
  <2>6. EscapesNeeded(r \o q)
    BY <2>4, EscapesBehind
  <2> QED
    BY <2>5, <2>6, Zenon
<1>3. Nat \subseteq T
  <2> HIDE DEF T
  <2> QED
    BY <1>1, <1>2, SetInduction
<1>4. Len(text) \in T
  <2>1. Len(text) \in Nat
    BY LenProperties
  <2> HIDE DEF T
  <2> QED
    BY <1>3, <2>1
<1> QED
  BY <1>4

-----------------------------------------------------------------------------
(***************************************************************************)
(* The canonical form of a text that has escapes, position by position from *)
(* its end.                                                                *)
(***************************************************************************)

\* g[i] is the canonical form of a text from position i on.
Canonical(g, text, kept) ==
  /\ CanonicalText(text, kept) = g[1]
  /\ \A i \in 1..Len(text) + 3 :
       g[i] = IF i > Len(text) THEN <<>>
              ELSE IF IsEscape(text, i)
                THEN <<Percent, UpperHex(text[i + 1]), UpperHex(text[i + 2])>> \o g[i + 3]
              ELSE Raw(text[i], kept) \o g[i + 1]

LEMMA CanonicalRead ==
  ASSUME NEW text \in Seq(Nat), NEW kept
  PROVE  \E g : Canonical(g, text, kept)
<1> DEFINE Dom == 1..Len(text) + 3
           Rec(f) == f = [i \in Dom |->
                            IF i > Len(text) THEN <<>>
                            ELSE IF IsEscape(text, i)
                              THEN <<Percent, UpperHex(text[i + 1]), UpperHex(text[i + 2])>> \o f[i + 3]
                            ELSE Raw(text[i], kept) \o f[i + 1]]
           n == Len(text)
           jumps == [i \in Dom |-> IsEscape(text, i)]
           piece == [i \in Dom |-> IF IsEscape(text, i)
                                     THEN <<Percent, UpperHex(text[i + 1]), UpperHex(text[i + 2])>>
                                     ELSE Raw(text[i], kept)]
<1>0. n \in Nat
  BY LenProperties
<1>1. \E f : Rec(f)
  <2>1. /\ \A i \in Dom : jumps[i] = IsEscape(text, i)
        /\ \A i \in Dom : IsEscape(text, i) =>
             piece[i] = <<Percent, UpperHex(text[i + 1]), UpperHex(text[i + 2])>>
        /\ \A i \in Dom : ~IsEscape(text, i) => piece[i] = Raw(text[i], kept)
    OBVIOUS
  <2> HIDE DEF jumps, piece
  <2>2. PICK f : ReadsOn(f, n, jumps, piece)
    BY <1>0, ReadingExists
  <2>3. ASSUME NEW i \in Dom
        PROVE  ReadFrom(f, i, n, jumps, piece)
                 = IF i > n THEN <<>>
                   ELSE IF IsEscape(text, i)
                     THEN <<Percent, UpperHex(text[i + 1]), UpperHex(text[i + 2])>> \o f[i + 3]
                   ELSE Raw(text[i], kept) \o f[i + 1]
    BY <2>1, Zenon DEF ReadFrom
  <2>4. Rec(f)
    BY <2>2, <2>3, Zenon DEF ReadsOn
  <2> QED
    BY <2>4
<1> DEFINE f == CHOOSE g : Rec(g)
<1>2. Rec(f)
  BY <1>1
<1>3. CanonicalText(text, kept) = f[1]
  BY DEF CanonicalText, Rewritten
<1> HIDE DEF f
<1>4. \A i \in Dom :
       f[i] = IF i > Len(text) THEN <<>>
              ELSE IF IsEscape(text, i)
                THEN <<Percent, UpperHex(text[i + 1]), UpperHex(text[i + 2])>> \o f[i + 3]
              ELSE Raw(text[i], kept) \o f[i + 1]
  BY <1>2, Zenon
<1> QED
  BY <1>3, <1>4, Zenon DEF Canonical

\* Decoding a text and encoding it again gives its canonical form, when no
\* escape is a waste and none of the bytes that may be kept occurs.
Agree(f, g, i) == f[i] \in Seq(Nat) /\ g[i] = PercentEncode(f[i], {})

LEMMA Reencoded ==
  ASSUME NEW text \in Seq(Nat), EscapesNeeded(text),
         NEW kept, \A i \in 1..Len(text) : text[i] \notin kept
  PROVE  /\ Decoded(text) \in Seq(Nat)
         /\ CanonicalText(text, kept) = PercentEncode(Decoded(text), {})
<1> DEFINE n == Len(text)
<1>0. n \in Nat /\ DOMAIN text = 1..n /\ \A i \in 1..n : text[i] \in Nat
  BY LenProperties, ElementOfSeq
<1>1. PICK f : Reading(f, text)
  BY DecodedRead
<1>2. PICK g : Canonical(g, text, kept)
  BY CanonicalRead
<1> HIDE DEF n
<1>3. ASSUME NEW i \in n + 1..n + 3 PROVE Agree(f, g, i)
  <2>1. i \in 1..n + 3 /\ i > n
    BY <1>0, <1>3
  <2>2. f[i] = <<>> /\ g[i] = <<>>
    BY <1>1, <1>2, <2>1, Zenon DEF Reading, Canonical, n
  <2> QED
    BY <2>2, EncodedNothing, EmptySeq DEF Agree
<1>4. ASSUME NEW i \in 1..n, \A j \in i + 1..n + 3 : Agree(f, g, j) PROVE Agree(f, g, i)
  <2>1. i \in 1..n + 3 /\ ~(i > n) /\ i + 1 \in i + 1..n + 3 /\ i + 3 \in i + 1..n + 3
    BY <1>0
  <2>2. CASE IsEscape(text, i)
    <3> DEFINE h == text[i + 1]
               l == text[i + 2]
               x == 16 * HexValue(h) + HexValue(l)
               rest == f[i + 3]
    <3>1. f[i] = <<x>> \o rest
          /\ g[i] = <<Percent, UpperHex(h), UpperHex(l)>> \o g[i + 3]
      BY <1>1, <1>2, <2>1, <2>2, Zenon DEF Reading, Canonical, n
    <3>2. h \in Nat /\ l \in Nat /\ IsHex(h) /\ IsHex(l) /\ ~Unreserved(x)
      <4>1. i + 2 <= n /\ IsHex(h) /\ IsHex(l)
        BY <2>2 DEF IsEscape, n
      <4>2. i + 1 \in 1..n /\ i + 2 \in 1..n
        BY <1>0, <4>1
      <4>3. ~Unreserved(x)
        BY <1>0, <2>2 DEF EscapesNeeded
      <4> QED
        BY <1>0, <4>1, <4>2, <4>3
    <3>3. rest \in Seq(Nat) /\ g[i + 3] = PercentEncode(rest, {})
      BY <1>4, <2>1 DEF Agree
    <3> HIDE DEF h, l, rest
    <3>4. x \in Nat /\ Raw(x, {}) = <<Percent, UpperHex(h), UpperHex(l)>>
      BY <3>2, EscapeRewritten
    <3> HIDE DEF x
    <3>5. PercentEncode(<<x>> \o rest, {}) = Raw(x, {}) \o PercentEncode(rest, {})
      BY <3>3, <3>4, EncodedFirst
    <3>6. <<x>> \o rest \in Seq(Nat)
      BY <3>3, <3>4, Literals, ConcatProperties
    <3> QED
      BY <3>1, <3>3, <3>4, <3>5, <3>6, Zenon DEF Agree
  <2>3. CASE ~IsEscape(text, i)
    <3> DEFINE c == text[i]
               rest == f[i + 1]
    <3>1. f[i] = <<c>> \o rest /\ g[i] = Raw(c, kept) \o g[i + 1]
      BY <1>1, <1>2, <2>1, <2>3, Zenon DEF Reading, Canonical, n
    <3>2. c \in Nat /\ Raw(c, kept) = Raw(c, {})
      BY <1>0 DEF Raw, n
    <3>3. rest \in Seq(Nat) /\ g[i + 1] = PercentEncode(rest, {})
      BY <1>4, <2>1 DEF Agree
    <3> HIDE DEF c, rest
    <3>4. PercentEncode(<<c>> \o rest, {}) = Raw(c, {}) \o PercentEncode(rest, {})
      BY <3>2, <3>3, EncodedFirst
    <3>5. <<c>> \o rest \in Seq(Nat)
      BY <3>2, <3>3, Literals, ConcatProperties
    <3> QED
      BY <3>1, <3>2, <3>3, <3>4, <3>5, Zenon DEF Agree
  <2> QED
    BY <2>2, <2>3
<1> DEFINE T == {m \in Nat : m <= n => \A j \in n + 1 - m..n + 3 : Agree(f, g, j)}
<1>5. 0 \in T
  <2>1. \A j \in n + 1 - 0..n + 3 : j \in n + 1..n + 3
    BY <1>0
  <2> QED
    BY <1>3, <2>1
<1>6. ASSUME NEW m \in Nat, m \in T PROVE m + 1 \in T
  <2> SUFFICES ASSUME m + 1 <= n, NEW j \in n + 1 - (m + 1)..n + 3 PROVE Agree(f, g, j)
    OBVIOUS
  <2>1. m <= n /\ n - m \in 1..n /\ (n - m) + 1 = n + 1 - m /\ (j = n - m \/ j \in n + 1 - m..n + 3)
    BY <1>0
  <2>2. \A k \in n + 1 - m..n + 3 : Agree(f, g, k)
    BY <1>6, <2>1
  <2>3. Agree(f, g, n - m)
    BY <1>4, <2>1, <2>2
  <2> QED
    BY <2>1, <2>2, <2>3
<1>7. Nat \subseteq T
  <2> HIDE DEF T
  <2> QED
    BY <1>5, <1>6, SetInduction
<1>8. Agree(f, g, 1)
  <2>1. n \in T /\ n <= n /\ 1 \in n + 1 - n..n + 3
    BY <1>0, <1>7
  <2> QED
    BY <2>1
<1> QED
  BY <1>1, <1>2, <1>8 DEF Agree, Reading, Canonical

\* What holds at the end of a text, and at a position once it holds behind it,
\* holds everywhere.
LEMMA Backwards ==
  ASSUME NEW n \in Nat, NEW T, n + 1..n + 3 \subseteq T,
         \A i \in 1..n : i + 1..n + 3 \subseteq T => i \in T
  PROVE  1..n + 3 \subseteq T
<1> DEFINE U == {m \in Nat : m <= n => n + 1 - m..n + 3 \subseteq T}
<1>1. 0 \in U
  OBVIOUS
<1>2. ASSUME NEW m \in Nat, m \in U PROVE m + 1 \in U
  <2> SUFFICES ASSUME m + 1 <= n, NEW j \in n + 1 - (m + 1)..n + 3 PROVE j \in T
    OBVIOUS
  <2>1. m <= n /\ n - m \in 1..n /\ (n - m) + 1 = n + 1 - m /\ (j = n - m \/ j \in n + 1 - m..n + 3)
    OBVIOUS
  <2>2. n + 1 - m..n + 3 \subseteq T
    BY <1>2, <2>1
  <2>3. (n - m) + 1..n + 3 \subseteq T
    BY <2>1, <2>2
  <2>4. n - m \in T
    BY <2>1, <2>3
  <2> QED
    BY <2>1, <2>2, <2>4
<1>3. Nat \subseteq U
  <2> HIDE DEF U
  <2> QED
    BY <1>1, <1>2, SetInduction
<1>4. n \in U /\ n <= n /\ n + 1 - n = 1
  BY <1>3
<1> QED
  BY <1>4

\* Behind the first part of a text everything is as in the second part alone.
LEMMA EscapeAfter ==
  ASSUME NEW u \in Seq(Nat), NEW v \in Seq(Nat), NEW i \in 1..Len(v)
  PROVE  IsEscape(u \o v, Len(u) + i) <=> IsEscape(v, i)
<1> DEFINE t == u \o v
           n == Len(u)
           m == Len(v)
<1>1. /\ n \in Nat /\ m \in Nat /\ Len(t) = n + m
      /\ \A j \in 1..m : t[n + j] = v[j]
  BY Bytes
<1>2. /\ IsEscape(t, n + i) <=> /\ t[n + i] = Percent /\ n + i + 2 <= n + m
                                /\ IsHex(t[n + i + 1]) /\ IsHex(t[n + i + 2])
      /\ IsEscape(v, i) <=> /\ v[i] = Percent /\ i + 2 <= m
                            /\ IsHex(v[i + 1]) /\ IsHex(v[i + 2])
  BY <1>1 DEF IsEscape
<1> HIDE DEF t, n, m
<1>0. i \in 1..m
  BY DEF m
<1>3. n + i + 2 <= n + m <=> i + 2 <= m
  BY <1>1, <1>0
<1>4. i + 2 <= m => i + 1 \in 1..m /\ i + 2 \in 1..m /\ n + i + 1 = n + (i + 1) /\ n + i + 2 = n + (i + 2)
  BY <1>1, <1>0
<1>5. IsEscape(t, n + i) <=> IsEscape(v, i)
  <2>1. CASE i + 2 <= m
    <3>1. t[n + i] = v[i] /\ t[n + (i + 1)] = v[i + 1] /\ t[n + (i + 2)] = v[i + 2]
      BY <1>0, <1>1, <1>4, <2>1
    <3>2. t[n + i] = v[i] /\ t[n + i + 1] = v[i + 1] /\ t[n + i + 2] = v[i + 2]
      BY <1>4, <2>1, <3>1
    <3> QED
      BY <1>2, <1>3, <2>1, <3>2
  <2>2. CASE ~(i + 2 <= m)
    BY <1>2, <1>3, <2>2
  <2> QED
    BY <2>1, <2>2
<1> QED
  BY <1>5 DEF t, n

\* A canonical form at a position.
PieceAt(g, text, kept, i) ==
  IF IsEscape(text, i)
    THEN <<Percent, UpperHex(text[i + 1]), UpperHex(text[i + 2])>> \o g[i + 3]
  ELSE Raw(text[i], kept) \o g[i + 1]

Pieced(g, text, kept, n) ==
  /\ \A i \in n + 1..n + 3 : g[i] = <<>>
  /\ \A i \in 1..n : g[i] = PieceAt(g, text, kept, i)

LEMMA CanonicalStep ==
  ASSUME NEW text \in Seq(Nat), NEW kept, NEW g, Canonical(g, text, kept)
  PROVE  Pieced(g, text, kept, Len(text))
<1> DEFINE n == Len(text)
<1>0. n \in Nat
  BY LenProperties
<1>1. \A i \in 1..n + 3 :
       g[i] = IF i > n THEN <<>> ELSE PieceAt(g, text, kept, i)
  BY Zenon DEF Canonical, PieceAt, n
<1> HIDE DEF n
<1>2. ASSUME NEW i \in n + 1..n + 3 PROVE g[i] = <<>>
  <2>1. i \in 1..n + 3 /\ i > n
    BY <1>0
  <2> QED
    BY <1>1, <2>1, Zenon
<1>3. ASSUME NEW i \in 1..n PROVE g[i] = PieceAt(g, text, kept, i)
  <2>1. i \in 1..n + 3 /\ ~(i > n)
    BY <1>0
  <2> QED
    BY <1>1, <2>1, Zenon
<1> QED
  BY <1>2, <1>3 DEF n, Pieced

LEMMA CanonicalType ==
  ASSUME NEW text \in Seq(Nat), NEW kept, NEW g, Canonical(g, text, kept)
  PROVE  /\ \A i \in 1..Len(text) + 3 : g[i] \in Seq(Nat)
         /\ CanonicalText(text, kept) = g[1] /\ g[1] \in Seq(Nat)
<1> DEFINE n == Len(text)
           T == {i \in 1..n + 3 : g[i] \in Seq(Nat)}
<1>0. n \in Nat /\ \A i \in 1..n : text[i] \in Nat
  BY LenProperties, ElementOfSeq
<1>1. /\ \A i \in n + 1..n + 3 : g[i] = <<>>
      /\ \A i \in 1..n : g[i] = PieceAt(g, text, kept, i)
  BY CanonicalStep DEF Pieced
<1>2. n + 1..n + 3 \subseteq T
  <2>1. \A i \in n + 1..n + 3 : i \in 1..n + 3
    BY <1>0
  <2>2. <<>> \in Seq(Nat)
    BY EmptySeq
  <2> QED
    BY <1>1, <2>1, <2>2
<1>3. ASSUME NEW i \in 1..n, i + 1..n + 3 \subseteq T PROVE i \in T
  <2>1. i \in 1..n + 3 /\ i + 1 \in i + 1..n + 3 /\ i + 3 \in i + 1..n + 3
    BY <1>0
  <2>2. g[i + 1] \in Seq(Nat) /\ g[i + 3] \in Seq(Nat)
    BY <1>3, <2>1
  <2>3. CASE IsEscape(text, i)
    <3> DEFINE h == text[i + 1]
               l == text[i + 2]
               w == <<Percent, UpperHex(h), UpperHex(l)>>
    <3>1. i + 2 <= n /\ IsHex(h) /\ IsHex(l)
      BY <2>3 DEF IsEscape
    <3>2. i + 1 \in 1..n /\ i + 2 \in 1..n
      BY <1>0, <3>1
    <3>3. UpperHex(h) \in Nat /\ UpperHex(l) \in Nat
      BY <1>0, <3>1, <3>2, DigitsRewritten
    <3>4. w \in Seq(Nat)
      BY <3>3, Literals DEF Percent
    <3>5. g[i] = w \o g[i + 3]
      BY <1>1, <2>3, Zenon DEF PieceAt
    <3> HIDE DEF w
    <3>6. g[i] \in Seq(Nat)
      BY <2>2, <3>4, <3>5, ConcatProperties
    <3> QED
      BY <2>1, <3>6
  <2>4. CASE ~IsEscape(text, i)
    <3> DEFINE w == Raw(text[i], kept)
    <3>1. w \in Seq(Nat)
      BY <1>0, RawType
    <3>2. g[i] = w \o g[i + 1]
      BY <1>1, <2>4, Zenon DEF PieceAt
    <3> HIDE DEF w
    <3>3. g[i] \in Seq(Nat)
      BY <2>2, <3>1, <3>2, ConcatProperties
    <3> QED
      BY <2>1, <3>3
  <2> QED
    BY <2>3, <2>4
<1>4. 1..n + 3 \subseteq T
  <2> HIDE DEF T, n
  <2> QED
    BY <1>0, <1>2, <1>3, Backwards
<1>5. 1 \in 1..n + 3
  BY <1>0
<1> QED
  BY <1>4, <1>5 DEF Canonical

Follows(g, f, n, m) == \A i \in 1..m + 3 : g[n + i] = f[i]

LEMMA CanonicalAfter ==
  ASSUME NEW u \in Seq(Nat), NEW v \in Seq(Nat), NEW kept, NEW t, t = u \o v,
         NEW g, Canonical(g, t, kept), NEW f, Canonical(f, v, kept)
  PROVE  Follows(g, f, Len(u), Len(v))
<1> DEFINE n == Len(u)
           m == Len(v)
           T == {i \in 1..m + 3 : g[n + i] = f[i]}
<1>1. /\ t \in Seq(Nat) /\ n \in Nat /\ m \in Nat /\ Len(t) = n + m
      /\ \A i \in 1..m : t[n + i] = v[i]
  BY Bytes
<1>2. /\ \A i \in (n + m) + 1..(n + m) + 3 : g[i] = <<>>
      /\ \A i \in 1..n + m : g[i] = PieceAt(g, t, kept, i)
  <2>1. Pieced(g, t, kept, Len(t))
    BY <1>1, CanonicalStep, Zenon
  <2> QED
    BY <1>1, <2>1 DEF Pieced
<1>3. /\ \A i \in m + 1..m + 3 : f[i] = <<>>
      /\ \A i \in 1..m : f[i] = PieceAt(f, v, kept, i)
  BY CanonicalStep DEF Pieced
<1>4. \A i \in 1..m : IsEscape(t, n + i) <=> IsEscape(v, i)
  BY EscapeAfter
<1>5. \A i \in 1..m : IsEscape(v, i) => i + 2 <= m
  BY DEF IsEscape
<1> HIDE DEF n, m
<1>6. m + 1..m + 3 \subseteq T
  <2> SUFFICES ASSUME NEW i \in m + 1..m + 3 PROVE i \in T
    OBVIOUS
  <2>1. i \in 1..m + 3 /\ n + i \in (n + m) + 1..(n + m) + 3
    BY <1>1
  <2>2. g[n + i] = f[i]
    BY <1>2, <1>3, <2>1
  <2> QED
    BY <2>1, <2>2
<1>7. ASSUME NEW i \in 1..m, i + 1..m + 3 \subseteq T PROVE i \in T
  <2>1. /\ i \in 1..m + 3 /\ i + 1 \in i + 1..m + 3 /\ i + 3 \in i + 1..m + 3 /\ n + i \in 1..n + m
        /\ n + (i + 1) = (n + i) + 1 /\ n + (i + 2) = (n + i) + 2 /\ n + (i + 3) = (n + i) + 3
    BY <1>1
  <2>2. g[(n + i) + 1] = f[i + 1] /\ g[(n + i) + 3] = f[i + 3]
    <3>1. i + 1 \in T /\ i + 3 \in T
      BY <1>7, <2>1
    <3>2. g[n + (i + 1)] = f[i + 1] /\ g[n + (i + 3)] = f[i + 3]
      BY <3>1
    <3> QED
      BY <2>1, <3>2
  <2>3. g[n + i] = PieceAt(g, t, kept, n + i) /\ f[i] = PieceAt(f, v, kept, i)
    BY <1>2, <1>3, <2>1
  <2>4. CASE IsEscape(v, i)
    <3>1. i + 1 \in 1..m /\ i + 2 \in 1..m
      BY <1>1, <1>5, <2>4
    <3>2. t[(n + i) + 1] = v[i + 1] /\ t[(n + i) + 2] = v[i + 2]
      <4>1. t[n + (i + 1)] = v[i + 1] /\ t[n + (i + 2)] = v[i + 2]
        BY <1>1, <3>1
      <4> QED
        BY <2>1, <4>1
    <3>3. IsEscape(t, n + i)
      BY <1>4, <2>4
    <3>4. g[n + i] = f[i]
      BY <2>2, <2>3, <2>4, <3>2, <3>3, Zenon DEF PieceAt
    <3> QED
      BY <2>1, <3>4
  <2>5. CASE ~IsEscape(v, i)
    <3>1. ~IsEscape(t, n + i) /\ t[n + i] = v[i]
      BY <1>1, <1>4, <2>5
    <3>2. g[n + i] = f[i]
      BY <2>2, <2>3, <2>5, <3>1, Zenon DEF PieceAt
    <3> QED
      BY <2>1, <3>2
  <2> QED
    BY <2>4, <2>5
<1>8. 1..m + 3 \subseteq T
  <2> HIDE DEF T
  <2> QED
    BY <1>1, <1>6, <1>7, Backwards
<1> QED
  BY <1>8 DEF n, m, Follows

\* Two parts, the second of which does not finish an escape of the first.
LEMMA CanonicalConcat ==
  ASSUME NEW u \in Seq(Nat), NEW v \in Seq(Nat), NEW kept, v = <<>> \/ ~IsHex(v[1])
  PROVE  CanonicalText(u \o v, kept) = CanonicalText(u, kept) \o CanonicalText(v, kept)
<1> DEFINE t == u \o v
           n == Len(u)
           m == Len(v)
<1>1. /\ t \in Seq(Nat) /\ n \in Nat /\ m \in Nat /\ Len(t) = n + m
      /\ \A i \in 1..n : t[i] = u[i] /\ u[i] \in Nat
  BY Bytes
<1>2. /\ \A i \in 1..n : IsEscape(u, i) => i + 2 <= n
      /\ \A i \in 1..n : IsEscape(t, i) <=> IsEscape(u, i)
  BY EscapeInside DEF IsEscape
<1>3. PICK g : Canonical(g, t, kept)
  BY <1>1, CanonicalRead
<1>4. PICK f : Canonical(f, u, kept)
  BY CanonicalRead
<1>5. PICK e : Canonical(e, v, kept)
  BY CanonicalRead
<1> DEFINE r == e[1]
           T == {i \in 1..n + 1 : g[i] = f[i] \o r}
<1>6. /\ r \in Seq(Nat) /\ CanonicalText(v, kept) = r
      /\ CanonicalText(u, kept) = f[1] /\ CanonicalText(t, kept) = g[1]
      /\ \A i \in 1..n + 3 : f[i] \in Seq(Nat)
  BY <1>1, <1>3, <1>4, <1>5, CanonicalType
<1>7. g[n + 1] = r
  <2>1. 1 \in 1..m + 3
    BY <1>1
  <2>2. Follows(g, e, n, m)
    BY <1>3, <1>5, CanonicalAfter, Zenon
  <2> QED
    BY <2>1, <2>2 DEF Follows
<1>8. /\ f[n + 1] = <<>>
      /\ \A i \in 1..n : f[i] = PieceAt(f, u, kept, i)
  <2>1. n + 1 \in n + 1..n + 3
    BY <1>1
  <2> QED
    BY <1>4, <2>1, CanonicalStep DEF Pieced
<1>9. \A i \in 1..n : g[i] = PieceAt(g, t, kept, i)
  <2>1. Pieced(g, t, kept, Len(t))
    BY <1>1, <1>3, CanonicalStep, Zenon
  <2> QED
    BY <1>1, <2>1 DEF Pieced
<1>a. Associates(Nat)
  BY Associative, Zenon
<1> HIDE DEF t, n, m, r
<1> DEFINE P(i) == g[i] = f[i] \o r
           S == {i \in 1..n + 3 : i <= n + 1 => P(i)}
<1>10. n + 1..n + 3 \subseteq S
  <2> SUFFICES ASSUME NEW i \in n + 1..n + 3 PROVE i \in S
    OBVIOUS
  <2>1. i \in 1..n + 3 /\ (i <= n + 1 => i = n + 1)
    BY <1>1
  <2>2. P(n + 1)
    BY <1>6, <1>7, <1>8, ConcatEmptySeq
  <2> QED
    BY <2>1, <2>2
<1>11. ASSUME NEW i \in 1..n, i + 1..n + 3 \subseteq S PROVE i \in S
  <2>1. /\ i \in 1..n + 3 /\ i + 1 \in i + 1..n + 3 /\ i + 3 \in i + 1..n + 3
        /\ i + 1 <= n + 1 /\ i + 1 \in 1..n + 3 /\ i + 3 \in 1..n + 3
    BY <1>1
  <2>2. CASE IsEscape(u, i)
    <3> DEFINE w == <<Percent, UpperHex(u[i + 1]), UpperHex(u[i + 2])>>
    <3>0. i + 2 <= n /\ IsHex(u[i + 1]) /\ IsHex(u[i + 2])
      BY <1>2, <2>2 DEF IsEscape
    <3>1. i + 1 \in 1..n /\ i + 2 \in 1..n /\ i + 3 <= n + 1
      BY <1>1, <3>0
    <3>2. P(i + 3) /\ f[i + 3] \in Seq(Nat)
      BY <1>6, <1>11, <2>1, <3>1
    <3>3. w \in Seq(Nat)
      <4>1. UpperHex(u[i + 1]) \in Nat /\ UpperHex(u[i + 2]) \in Nat
        BY <1>1, <3>0, <3>1, DigitsRewritten
      <4> QED
        BY <4>1, Literals DEF Percent
    <3>4. g[i] = w \o g[i + 3]
      <4>1. IsEscape(t, i) /\ t[i + 1] = u[i + 1] /\ t[i + 2] = u[i + 2]
        BY <1>1, <1>2, <2>2, <3>1
      <4> QED
        BY <1>9, <4>1, Zenon DEF PieceAt
    <3>5. f[i] = w \o f[i + 3]
      BY <1>8, <2>2, Zenon DEF PieceAt
    <3> HIDE DEF w
    <3>6. (w \o f[i + 3]) \o r = w \o (f[i + 3] \o r)
      BY <1>a, <1>6, <3>2, <3>3, ZenonT(40) DEF Associates
    <3>7. P(i)
      BY <3>2, <3>4, <3>5, <3>6, Zenon
    <3> HIDE DEF P
    <3> QED
      BY <2>1, <3>7
  <2>3. CASE ~IsEscape(u, i)
    <3> DEFINE w == Raw(u[i], kept)
    <3>1. P(i + 1) /\ f[i + 1] \in Seq(Nat)
      BY <1>6, <1>11, <2>1
    <3>2. w \in Seq(Nat)
      BY <1>1, RawType
    <3>3. g[i] = w \o g[i + 1]
      <4>1. ~IsEscape(t, i) /\ t[i] = u[i]
        BY <1>1, <1>2, <2>3
      <4> QED
        BY <1>9, <4>1, Zenon DEF PieceAt
    <3>4. f[i] = w \o f[i + 1]
      BY <1>8, <2>3, Zenon DEF PieceAt
    <3> HIDE DEF w
    <3>5. (w \o f[i + 1]) \o r = w \o (f[i + 1] \o r)
      BY <1>a, <1>6, <3>1, <3>2, ZenonT(40) DEF Associates
    <3>6. P(i)
      BY <3>1, <3>3, <3>4, <3>5, Zenon
    <3> HIDE DEF P
    <3> QED
      BY <2>1, <3>6
  <2> QED
    BY <2>2, <2>3
<1>12. 1..n + 3 \subseteq S
  <2> HIDE DEF S
  <2> QED
    BY <1>1, <1>10, <1>11, Backwards
<1>13. P(1)
  <2>1. 1 \in 1..n + 3 /\ 1 <= n + 1
    BY <1>1
  <2> QED
    BY <1>12, <2>1
<1> QED
  BY <1>6, <1>13, Zenon DEF t

\* A slash that is kept stands in the canonical form between those of its sides.
LEMMA CanonicalSlash ==
  ASSUME NEW u \in Seq(Nat), NEW v \in Seq(Nat)
  PROVE  CanonicalText(u \o (<<Slash>> \o v), {Slash})
           = CanonicalText(u, {Slash}) \o (<<Slash>> \o CanonicalText(v, {Slash}))
<1> DEFINE s == <<Slash>>
           t == s \o v
<1>1. s \in Seq(Nat) /\ Len(s) = 1 /\ s[1] = Slash
  BY SeparatorsNotPlain, Literals
<1> HIDE DEF s
<1>2. t \in Seq(Nat) /\ Len(t) \in Nat /\ Len(t) >= 1 /\ t[1] = Slash /\ Len(v) \in Nat
  <2>1. /\ t \in Seq(Nat) /\ Len(v) \in Nat /\ Len(t) = Len(s) + Len(v)
        /\ \A i \in 1..Len(s) : t[i] = s[i]
    BY <1>1, Bytes
  <2>2. 1 \in 1..Len(s)
    BY <1>1
  <2> HIDE DEF t
  <2> QED
    BY <1>1, <2>1, <2>2
<1>3. PICK g : Canonical(g, t, {Slash})
  BY <1>2, CanonicalRead
<1>4. PICK f : Canonical(f, v, {Slash})
  BY CanonicalRead
<1>5. g[2] = f[1]
  <2>1. 1 \in 1..Len(v) + 3 /\ Len(s) + 1 = 2
    BY <1>1, <1>2
  <2>2. t = s \o v
    OBVIOUS
  <2> HIDE DEF t
  <2>3. Follows(g, f, Len(s), Len(v))
    BY <1>1, <1>3, <1>4, <2>2, CanonicalAfter, Zenon
  <2> QED
    BY <2>1, <2>3 DEF Follows
<1>6. g[1] = Raw(Slash, {Slash}) \o g[1 + 1]
  <2>1. 1 \in 1..Len(t)
    BY <1>2
  <2>2. Pieced(g, t, {Slash}, Len(t))
    BY <1>2, <1>3, CanonicalStep, Zenon
  <2>3. ~IsEscape(t, 1)
    BY <1>2 DEF IsEscape, Slash, Percent
  <2> HIDE DEF t
  <2>4. g[1] = PieceAt(g, t, {Slash}, 1)
    BY <2>1, <2>2 DEF Pieced
  <2> QED
    BY <1>2, <2>3, <2>4, Zenon DEF PieceAt
<1>7. CanonicalText(t, {Slash}) = s \o CanonicalText(v, {Slash})
  <2>1. Raw(Slash, {Slash}) = s
    BY DEF Raw, s
  <2>2. 1 + 1 = 2
    OBVIOUS
  <2> QED
    BY <1>3, <1>4, <1>5, <1>6, <2>1, <2>2, Zenon DEF Canonical
<1>8. ~IsHex(t[1])
  BY <1>2 DEF IsHex, Slash, Digit
<1> HIDE DEF t
<1>9. CanonicalText(u \o t, {Slash}) = CanonicalText(u, {Slash}) \o CanonicalText(t, {Slash})
  BY <1>2, <1>8, CanonicalConcat
<1> QED
  BY <1>7, <1>9, Zenon DEF t, s

-----------------------------------------------------------------------------
(***************************************************************************)
(* The same for the segments of a path and the parameters of a query, by   *)
(* induction over the separators.                                          *)
(***************************************************************************)

\* What holds of a text without a separator, and of a text with one more piece
\* once it holds of the text before, holds of all texts.
LEMMA PieceInduction ==
  ASSUME NEW S, NEW sep \in S, NEW T,
         \A u \in Seq(S) : FreeOf(u, sep) => u \in T,
         \A w, u \in Seq(S) : w \in T /\ FreeOf(u, sep) => w \o (<<sep>> \o u) \in T
  PROVE  Seq(S) \subseteq T
<1> DEFINE U == {m \in Nat : \A t \in Seq(S) : Len(t) <= m => t \in T}
<1>1. 0 \in U
  <2> SUFFICES ASSUME NEW t \in Seq(S), Len(t) <= 0 PROVE t \in T
    OBVIOUS
  <2>1. FreeOf(t, sep)
    BY LenProperties DEF FreeOf
  <2> QED
    BY <2>1
<1>2. ASSUME NEW m \in Nat, m \in U PROVE m + 1 \in U
  <2> SUFFICES ASSUME NEW t \in Seq(S), Len(t) <= m + 1, ~FreeOf(t, sep) PROVE t \in T
    OBVIOUS
  <2>1. PICK w \in Seq(S), u \in Seq(S) :
          t = w \o (<<sep>> \o u) /\ FreeOf(u, sep) /\ Len(w) < Len(t)
    BY LastSeparator
  <2>2. Len(w) <= m
    BY <2>1, LenProperties
  <2>3. w \in T
    BY <1>2, <2>2
  <2>4. w \o (<<sep>> \o u) \in T
    BY <2>1, <2>3
  <2> QED
    BY <2>1, <2>4
<1>3. Nat \subseteq U
  <2> HIDE DEF U
  <2> QED
    BY <1>1, <1>2, SetInduction
<1>4. ASSUME NEW t \in Seq(S) PROVE t \in T
  <2>1. Len(t) \in U /\ Len(t) <= Len(t)
    BY <1>3, LenProperties
  <2> QED
    BY <2>1
<1> QED
  BY <1>4

\* The second part of a text has no wasted escape if the text has none.
LEMMA EscapesRest ==
  ASSUME NEW u \in Seq(Nat), NEW v \in Seq(Nat), EscapesNeeded(u \o v)
  PROVE  EscapesNeeded(v)
<1> DEFINE t == u \o v
           n == Len(u)
           m == Len(v)
<1>1. /\ t \in Seq(Nat) /\ n \in Nat /\ m \in Nat /\ Len(t) = n + m
      /\ \A i \in 1..m : t[n + i] = v[i]
  BY Bytes
<1>2. \A i \in 1..m : IsEscape(t, n + i) <=> IsEscape(v, i)
  BY EscapeAfter
<1>3. /\ \A i \in 1..m : IsEscape(v, i) => i + 2 <= m
      /\ \A i \in 1..n + m : IsEscape(t, i) => ~Unreserved(16 * HexValue(t[i + 1]) + HexValue(t[i + 2]))
      /\ DOMAIN v = 1..m
  BY <1>1, LenProperties DEF EscapesNeeded, IsEscape
<1> HIDE DEF t, n, m
<1>4. ASSUME NEW i \in 1..m, IsEscape(v, i)
      PROVE  ~Unreserved(16 * HexValue(v[i + 1]) + HexValue(v[i + 2]))
  <2>1. /\ n + i \in 1..n + m /\ (n + i) + 1 = n + (i + 1) /\ (n + i) + 2 = n + (i + 2)
        /\ i + 1 \in 1..m /\ i + 2 \in 1..m
    BY <1>1, <1>3, <1>4
  <2>2. t[(n + i) + 1] = v[i + 1] /\ t[(n + i) + 2] = v[i + 2]
    <3>1. t[n + (i + 1)] = v[i + 1] /\ t[n + (i + 2)] = v[i + 2]
      BY <1>1, <2>1
    <3> QED
      BY <2>1, <3>1
  <2>3. IsEscape(t, n + i)
    BY <1>2, <1>4
  <2>4. ~Unreserved(16 * HexValue(t[(n + i) + 1]) + HexValue(t[(n + i) + 2]))
    BY <1>3, <2>1, <2>3
  <2> QED
    BY <2>2, <2>4
<1> QED
  BY <1>3, <1>4 DEF EscapesNeeded

\* A text that ends in a separator and another piece.
LEMMA EscapesPieces ==
  ASSUME NEW w \in Seq(Nat), NEW u \in Seq(Nat), NEW sep \in Nat, ~IsHex(sep),
         EscapesNeeded(w \o (<<sep>> \o u))
  PROVE  EscapesNeeded(w) /\ EscapesNeeded(u)
<1> DEFINE s == <<sep>>
           v == s \o u
<1>1. s \in Seq(Nat) /\ Len(s) = 1 /\ s[1] = sep
  BY Literals
<1> HIDE DEF s
<1>2. v \in Seq(Nat) /\ v[1] = sep
  <2>1. v \in Seq(Nat) /\ \A i \in 1..Len(s) : v[i] = s[i]
    BY <1>1, Bytes
  <2>2. 1 \in 1..Len(s)
    BY <1>1
  <2> HIDE DEF v
  <2> QED
    BY <1>1, <2>1, <2>2
<1>3. EscapesNeeded(w \o v)
  BY DEF s
<1>4. EscapesNeeded(w) /\ EscapesNeeded(v)
  <2> HIDE DEF v
  <2> QED
    BY <1>2, <1>3, EscapesPart
<1>5. EscapesNeeded(u)
  BY <1>1, <1>4, EscapesRest
<1> QED
  BY <1>4, <1>5

\* The segments of a path, decoded and encoded again.
Recoded(segments) == [k \in DOMAIN segments |-> PercentEncode(Decoded(segments[k]), {})]

LEMMA RecodedType ==
  ASSUME NEW segments \in Seq(Seq(Nat)), NEW u \in Seq(Nat), Decoded(u) \in Seq(Nat),
         \A k \in DOMAIN segments : Decoded(segments[k]) \in Seq(Nat)
  PROVE  /\ Recoded(segments) \in Seq(Seq(Nat)) /\ Len(Recoded(segments)) = Len(segments)
         /\ Recoded(segments \o <<u>>) = Recoded(segments) \o <<PercentEncode(Decoded(u), {})>>
         /\ Recoded(<<u>>) = <<PercentEncode(Decoded(u), {})>>
<1> DEFINE n == Len(segments)
           h == <<u>>
           c == PercentEncode(Decoded(u), {})
           r == Recoded(segments)
           longer == segments \o h
<1>0. n \in Nat /\ DOMAIN segments = 1..n /\ c \in Seq(Nat)
  BY LenProperties, EncodedType
<1>1. r \in Seq(Seq(Nat)) /\ Len(r) = n /\ \A k \in 1..n : r[k] = PercentEncode(Decoded(segments[k]), {})
  <2>1. \A k \in 1..n : PercentEncode(Decoded(segments[k]), {}) \in Seq(Nat)
    BY <1>0, EncodedType
  <2>2. r = [k \in 1..n |-> PercentEncode(Decoded(segments[k]), {})]
    BY <1>0 DEF Recoded
  <2> HIDE DEF r, n
  <2>3. r \in [1..n -> Seq(Nat)]
    BY <2>1, <2>2
  <2> QED
    BY <1>0, <2>2, <2>3, FunctionIsSeq
<1>2. h \in Seq(Seq(Nat)) /\ Len(h) = 1 /\ h[1] = u /\ DOMAIN h = 1..1
  BY Literals
<1>3. Recoded(h) = <<c>>
  <2>1. Recoded(h) = [k \in 1..1 |-> c]
    BY <1>2 DEF Recoded
  <2>2. <<c>> = [k \in 1..1 |-> c]
    OBVIOUS
  <2> QED
    BY <2>1, <2>2
<1> HIDE DEF h
<1>4. /\ longer \in Seq(Seq(Nat)) /\ Len(longer) = n + 1 /\ DOMAIN longer = 1..n + 1
      /\ \A i \in 1..n + 1 : longer[i] = IF i <= n THEN segments[i] ELSE h[i - n]
  <2>1. /\ longer \in Seq(Seq(Nat)) /\ Len(longer) = Len(segments) + Len(h)
        /\ \A i \in 1..Len(segments) + Len(h) :
             longer[i] = IF i <= Len(segments) THEN segments[i] ELSE h[i - Len(segments)]
    BY <1>2, ConcatProperties
  <2> HIDE DEF longer
  <2> QED
    BY <1>2, <2>1, LenProperties
<1> DEFINE e == <<c>>
           right == r \o e
           left == Recoded(longer)
<1>5. e \in Seq(Seq(Nat)) /\ Len(e) = 1 /\ e[1] = c
  BY <1>0, Literals
<1> HIDE DEF c, e
<1>6. /\ right \in Seq(Seq(Nat)) /\ Len(right) = n + 1
      /\ \A i \in 1..n + 1 : right[i] = IF i <= n THEN r[i] ELSE e[i - n]
  <2> HIDE DEF r
  <2>1. /\ right \in Seq(Seq(Nat)) /\ Len(right) = Len(r) + Len(e)
        /\ \A i \in 1..Len(r) + Len(e) :
             right[i] = IF i <= Len(r) THEN r[i] ELSE e[i - Len(r)]
    BY <1>1, <1>5, ConcatProperties
  <2> HIDE DEF right
  <2> QED
    BY <1>1, <1>5, <2>1
<1>7. left = [i \in 1..n + 1 |-> PercentEncode(Decoded(longer[i]), {})]
  <2> HIDE DEF longer
  <2> QED
    BY <1>4 DEF Recoded
<1> HIDE DEF r, right, longer, n
<1>8. ASSUME NEW i \in 1..n + 1 PROVE PercentEncode(Decoded(longer[i]), {}) = right[i]
  <2>1. CASE i <= n
    <3>1. i \in 1..n
      BY <1>0, <2>1
    <3> QED
      BY <1>1, <1>4, <1>6, <2>1, <3>1
  <2>2. CASE ~(i <= n)
    <3>1. i - n = 1
      BY <1>0, <2>2
    <3>2. longer[i] = u /\ right[i] = c
      BY <1>2, <1>4, <1>5, <1>6, <2>2, <3>1
    <3> QED
      BY <3>2 DEF c
  <2> QED
    BY <2>1, <2>2
<1>9. left = right
  <2>1. left = [i \in 1..n + 1 |-> right[i]]
    BY <1>7, <1>8
  <2>2. right = [i \in 1..n + 1 |-> right[i]]
    BY <1>0, <1>6, LenProperties
  <2> HIDE DEF left
  <2> QED
    BY <2>1, <2>2
<1> QED
  BY <1>1, <1>3, <1>9, Zenon DEF r, n, h, c, e, right, left, longer

LEMMA DecodedType ==
  ASSUME NEW text \in Seq(Nat)
  PROVE  Decoded(text) \in Seq(Nat)
<1> DEFINE n == Len(text)
<1>0. n \in Nat /\ \A i \in 1..n : text[i] \in Nat
  BY LenProperties, ElementOfSeq
<1>1. PICK f : Reading(f, text)
  BY DecodedRead
<1> DEFINE T == {i \in 1..n + 3 : f[i] \in Seq(Nat)}
<1>2. n + 1..n + 3 \subseteq T
  <2> SUFFICES ASSUME NEW i \in n + 1..n + 3 PROVE i \in T
    OBVIOUS
  <2>1. i \in 1..n + 3 /\ i > n
    BY <1>0
  <2>2. f[i] = <<>>
    BY <1>1, <2>1, Zenon DEF Reading
  <2> QED
    BY <2>1, <2>2, EmptySeq
<1>3. ASSUME NEW i \in 1..n, i + 1..n + 3 \subseteq T PROVE i \in T
  <2>1. i \in 1..n + 3 /\ ~(i > n) /\ i + 1 \in i + 1..n + 3 /\ i + 3 \in i + 1..n + 3
    BY <1>0
  <2>2. f[i + 1] \in Seq(Nat) /\ f[i + 3] \in Seq(Nat)
    BY <1>3, <2>1
  <2>3. CASE IsEscape(text, i)
    <3> DEFINE x == 16 * HexValue(text[i + 1]) + HexValue(text[i + 2])
    <3>1. i + 2 <= n /\ IsHex(text[i + 1]) /\ IsHex(text[i + 2])
      BY <2>3 DEF IsEscape
    <3>2. i + 1 \in 1..n /\ i + 2 \in 1..n
      BY <1>0, <3>1
    <3>3. HexValue(text[i + 1]) \in 0..15 /\ HexValue(text[i + 2]) \in 0..15
      BY <1>0, <3>1, <3>2, DigitsRewritten
    <3>4. x \in Nat
      <4> DEFINE a == HexValue(text[i + 1])
                 b == HexValue(text[i + 2])
      <4>1. a \in 0..15 /\ b \in 0..15
        BY <3>3
      <4> HIDE DEF a, b
      <4>2. 16 * a + b \in Nat
        BY <4>1
      <4> QED
        BY <4>2 DEF a, b
    <3>5. f[i] = <<x>> \o f[i + 3]
      BY <1>1, <2>1, <2>3, Zenon DEF Reading
    <3> HIDE DEF x
    <3>6. f[i] \in Seq(Nat)
      BY <2>2, <3>4, <3>5, Literals, ConcatProperties
    <3> QED
      BY <2>1, <3>6
  <2>4. CASE ~IsEscape(text, i)
    <3>1. f[i] = <<text[i]>> \o f[i + 1]
      BY <1>1, <2>1, <2>4, Zenon DEF Reading
    <3>2. f[i] \in Seq(Nat)
      BY <1>0, <2>2, <3>1, Literals, ConcatProperties
    <3> QED
      BY <2>1, <3>2
  <2> QED
    BY <2>3, <2>4
<1>4. 1..n + 3 \subseteq T
  <2> HIDE DEF T, n
  <2> QED
    BY <1>0, <1>2, <1>3, Backwards
<1>5. 1 \in T
  BY <1>0, <1>4
<1> QED
  BY <1>1, <1>5 DEF Reading

LEMMA SlashIsNoDigit ==
  /\ ~IsHex(Slash) /\ ~IsHex(Ampersand) /\ ~IsHex(Equals)
  /\ Slash \in Nat /\ Ampersand \in Nat /\ Equals \in Nat
BY DEF IsHex, Digit, Slash, Ampersand, Equals

\* The path the service signs is the path the client signed: decoded and encoded
\* again segment by segment it is its own canonical form.
LEMMA PathRecoded ==
  ASSUME NEW text \in Seq(Nat), EscapesNeeded(text)
  PROVE  ServicePath(text) = CanonicalText(text, {Slash})
<1> DEFINE Whole(t) == Join(Recoded(Split(t, Slash)), Slash) = CanonicalText(t, {Slash})
           T == {t \in Seq(Nat) : EscapesNeeded(t) => Whole(t)}
<1>1. ASSUME NEW u \in Seq(Nat), FreeOf(u, Slash) PROVE u \in T
  <2> SUFFICES ASSUME EscapesNeeded(u) PROVE Whole(u)
    OBVIOUS
  <2> DEFINE c == PercentEncode(Decoded(u), {})
  <2>1. Decoded(u) \in Seq(Nat) /\ CanonicalText(u, {Slash}) = c
    <3>1. \A i \in 1..Len(u) : u[i] \notin {Slash}
      BY <1>1 DEF FreeOf
    <3> QED
      BY <3>1, Reencoded
  <2>2. Split(u, Slash) = <<u>>
    BY <1>1, SplitFree
  <2>3. Recoded(<<u>>) = <<c>>
    <3>1. <<>> \in Seq(Seq(Nat)) /\ DOMAIN <<>> = {}
      BY EmptySeq
    <3> QED
      BY <2>1, <3>1, RecodedType
  <2>4. c \in Seq(Nat)
    BY <2>1, EncodedType
  <2> HIDE DEF c
  <2>5. Join(<<c>>, Slash) = c
    BY <2>4, JoinOne, SlashIsNoDigit
  <2> QED
    BY <2>1, <2>2, <2>3, <2>5, Zenon
<1>2. ASSUME NEW w \in Seq(Nat), NEW u \in Seq(Nat), w \in T, FreeOf(u, Slash)
      PROVE  w \o (<<Slash>> \o u) \in T
  <2> DEFINE s == <<Slash>>
             t == w \o (s \o u)
             c == PercentEncode(Decoded(u), {})
             segments == Split(w, Slash)
  <2>0. s \in Seq(Nat)
    BY SlashIsNoDigit, Literals
  <2>1. t \in Seq(Nat)
    <3> HIDE DEF s
    <3>1. s \o u \in Seq(Nat)
      BY <2>0, ConcatProperties
    <3> QED
      BY <3>1, ConcatProperties
  <2> SUFFICES ASSUME EscapesNeeded(t) PROVE Whole(t)
    BY <2>1
  <2>2. EscapesNeeded(w) /\ EscapesNeeded(u)
    BY EscapesPieces, SlashIsNoDigit
  <2>3. Join(Recoded(segments), Slash) = CanonicalText(w, {Slash})
    BY <1>2, <2>2
  <2>4. Decoded(u) \in Seq(Nat) /\ CanonicalText(u, {Slash}) = c
    <3>1. \A i \in 1..Len(u) : u[i] \notin {Slash}
      BY <1>2 DEF FreeOf
    <3> QED
      BY <2>2, <3>1, Reencoded
  <2>5. c \in Seq(Nat)
    BY <2>4, EncodedType
  <2>6. segments \in Seq(Seq(Nat)) /\ segments # <<>>
    BY JoinSplit, SlashIsNoDigit DEF SplitShape
  <2>7. Split(t, Slash) = segments \o <<u>>
    BY <1>2, SplitAppend, SlashIsNoDigit
  <2> HIDE DEF segments
  <2>8. /\ Recoded(segments) \in Seq(Seq(Nat)) /\ Len(Recoded(segments)) = Len(segments)
        /\ Recoded(segments \o <<u>>) = Recoded(segments) \o <<c>>
    <3>1. \A k \in DOMAIN segments : Decoded(segments[k]) \in Seq(Nat)
      BY <2>6, ElementOfSeq, LenProperties, DecodedType
    <3> QED
      BY <2>4, <2>6, <3>1, RecodedType
  <2>9. Recoded(segments) # <<>>
    BY <2>6, <2>8, EmptySeq
  <2> DEFINE r == Recoded(segments)
  <2> HIDE DEF c, r
  <2>10. Join(r \o <<c>>, Slash) = Join(r, Slash) \o (<<Slash>> \o c)
    BY <2>5, <2>8, <2>9, JoinAppend, SlashIsNoDigit DEF r
  <2>11. CanonicalText(t, {Slash}) = CanonicalText(w, {Slash}) \o (<<Slash>> \o CanonicalText(u, {Slash}))
    BY CanonicalSlash
  <2> HIDE DEF t
  <2> QED
    BY <2>3, <2>4, <2>7, <2>8, <2>10, <2>11, Zenon DEF r
<1>3. Seq(Nat) \subseteq T
  <2> HIDE DEF T
  <2> QED
    BY <1>1, <1>2, PieceInduction, SlashIsNoDigit
<1>4. Join(Recoded(Split(text, Slash)), Slash) = CanonicalText(text, {Slash})
  BY <1>3
<1> QED
  BY <1>4, Zenon DEF ServicePath, Recoded

\* No piece of a text has a wasted escape if the text has none.
LEMMA PiecesNeeded ==
  ASSUME NEW text \in Seq(Nat), NEW sep \in Nat, ~IsHex(sep), EscapesNeeded(text)
  PROVE  \A k \in DOMAIN Split(text, sep) :
           Split(text, sep)[k] \in Seq(Nat) /\ EscapesNeeded(Split(text, sep)[k])
<1> DEFINE All(pieces) == \A k \in DOMAIN pieces : pieces[k] \in Seq(Nat) /\ EscapesNeeded(pieces[k])
           T == {t \in Seq(Nat) : EscapesNeeded(t) => All(Split(t, sep))}
<1>1. ASSUME NEW u \in Seq(Nat), FreeOf(u, sep) PROVE u \in T
  <2>1. Split(u, sep) = <<u>>
    BY <1>1, SplitFree
  <2>2. EscapesNeeded(u) => All(<<u>>)
    OBVIOUS
  <2> QED
    BY <2>1, <2>2, Zenon
<1>2. ASSUME NEW w \in Seq(Nat), NEW u \in Seq(Nat), w \in T, FreeOf(u, sep)
      PROVE  w \o (<<sep>> \o u) \in T
  <2> DEFINE s == <<sep>>
             h == <<u>>
             t == w \o (s \o u)
             pieces == Split(w, sep)
  <2>0. s \in Seq(Nat)
    BY Literals
  <2>1. t \in Seq(Nat)
    <3> HIDE DEF s
    <3>1. s \o u \in Seq(Nat)
      BY <2>0, ConcatProperties
    <3> QED
      BY <3>1, ConcatProperties
  <2> SUFFICES ASSUME EscapesNeeded(t) PROVE All(Split(t, sep))
    BY <2>1
  <2>2. EscapesNeeded(w) /\ EscapesNeeded(u)
    BY EscapesPieces
  <2>3. All(pieces)
    BY <1>2, <2>2
  <2>4. pieces \in Seq(Seq(Nat))
    BY JoinSplit DEF SplitShape
  <2>5. Split(t, sep) = pieces \o h
    BY <1>2, SplitAppend
  <2>6. h \in Seq(Seq(Nat)) /\ Len(h) = 1 /\ h[1] = u
    BY Literals
  <2> HIDE DEF pieces, h, t
  <2>7. /\ DOMAIN (pieces \o h) = 1..Len(pieces) + 1 /\ Len(pieces) \in Nat
        /\ \A k \in 1..Len(pieces) + 1 :
             (pieces \o h)[k] = IF k <= Len(pieces) THEN pieces[k] ELSE h[k - Len(pieces)]
    <3> DEFINE longer == pieces \o h
    <3>1. /\ longer \in Seq(Seq(Nat)) /\ Len(longer) = Len(pieces) + Len(h)
          /\ \A k \in 1..Len(pieces) + Len(h) :
               longer[k] = IF k <= Len(pieces) THEN pieces[k] ELSE h[k - Len(pieces)]
      BY <2>4, <2>6, ConcatProperties
    <3> HIDE DEF longer
    <3>2. DOMAIN longer = 1..Len(longer) /\ Len(pieces) \in Nat
      BY <2>4, <3>1, LenProperties
    <3> QED
      BY <2>6, <3>1, <3>2 DEF longer
  <2>8. ASSUME NEW k \in 1..Len(pieces) + 1
        PROVE  (pieces \o h)[k] \in Seq(Nat) /\ EscapesNeeded((pieces \o h)[k])
    <3>1. CASE k <= Len(pieces)
      <4>1. k \in DOMAIN pieces
        BY <2>4, <2>7, <3>1, LenProperties
      <4> QED
        BY <2>3, <2>7, <3>1, <4>1
    <3>2. CASE ~(k <= Len(pieces))
      <4>1. k - Len(pieces) = 1
        BY <2>7, <3>2
      <4> QED
        BY <2>2, <2>6, <2>7, <3>2, <4>1
    <3> QED
      BY <3>1, <3>2
  <2> QED
    BY <2>5, <2>7, <2>8, Zenon
<1>3. Seq(Nat) \subseteq T
  <2> HIDE DEF T
  <2> QED
    BY <1>1, <1>2, PieceInduction
<1> QED
  BY <1>3

\* The two sides of a cut.
LEMMA CutSides ==
  ASSUME NEW text \in Seq(Nat), NEW sep \in Nat
  PROVE  \/ Cut(text, sep) = <<text, <<>>>>
         \/ \E u, v \in Seq(Nat) : text = u \o (<<sep>> \o v) /\ Cut(text, sep) = <<u, v>>
<1> DEFINE s == <<sep>>
           T == {t \in Seq(Nat) : FreeOf(t, sep)
                   \/ \E u, v \in Seq(Nat) : t = u \o (s \o v) /\ FreeOf(u, sep)}
<1>0. s \in Seq(Nat)
  BY Literals
<1>a. Associates(Nat)
  BY Associative, Zenon
<1>1. ASSUME NEW u \in Seq(Nat), FreeOf(u, sep) PROVE u \in T
  BY <1>1
<1>2. ASSUME NEW w \in Seq(Nat), NEW u \in Seq(Nat), w \in T, FreeOf(u, sep)
      PROVE  w \o (<<sep>> \o u) \in T
  <2> HIDE DEF s
  <2>1. s \o u \in Seq(Nat)
    BY <1>0, ConcatProperties
  <2>2. w \o (s \o u) \in Seq(Nat)
    BY <2>1, ConcatProperties
  <2>3. CASE FreeOf(w, sep)
    BY <2>2, <2>3, Zenon DEF s
  <2>4. CASE ~FreeOf(w, sep)
    <3>1. PICK a \in Seq(Nat), b \in Seq(Nat) : w = a \o (s \o b) /\ FreeOf(a, sep)
      BY <1>2, <2>4
    <3> DEFINE rest == s \o u
               v == b \o rest
    <3>2. rest \in Seq(Nat) /\ s \o b \in Seq(Nat)
      BY <1>0, ConcatProperties
    <3> HIDE DEF rest
    <3>3. v \in Seq(Nat)
      BY <3>2, ConcatProperties
    <3>4. (a \o (s \o b)) \o rest = a \o ((s \o b) \o rest)
      BY <1>a, <3>2, ZenonT(40) DEF Associates
    <3>5. (s \o b) \o rest = s \o (b \o rest)
      <4>1. \A x, y, z \in Seq(Nat) : (x \o y) \o z = x \o (y \o z)
        BY <1>a, Zenon DEF Associates
      <4> QED
        BY <1>0, <3>2, <4>1, ZenonT(40)
    <3>6. w \o rest = a \o (s \o v)
      BY <3>1, <3>4, <3>5, Zenon
    <3> HIDE DEF v
    <3> QED
      BY <2>2, <3>1, <3>3, <3>6, Zenon DEF rest, s
  <2> QED
    BY <2>3, <2>4
<1>3. Seq(Nat) \subseteq T
  <2> HIDE DEF T
  <2> QED
    BY <1>1, <1>2, PieceInduction
<1>4. CASE FreeOf(text, sep)
  BY <1>4, CutNowhere
<1>5. CASE ~FreeOf(text, sep)
  <2>1. PICK u \in Seq(Nat), v \in Seq(Nat) : text = u \o (<<sep>> \o v) /\ FreeOf(u, sep)
    BY <1>3, <1>5
  <2>2. Cut(u \o (<<sep>> \o v), sep) = <<u, v>>
    BY <2>1, CutAt
  <2> QED
    BY <2>1, <2>2, Zenon
<1> QED
  BY <1>4, <1>5

LEMMA CutNeeded ==
  ASSUME NEW text \in Seq(Nat), NEW sep \in Nat, ~IsHex(sep), EscapesNeeded(text)
  PROVE  /\ Cut(text, sep)[1] \in Seq(Nat) /\ EscapesNeeded(Cut(text, sep)[1])
         /\ Cut(text, sep)[2] \in Seq(Nat) /\ EscapesNeeded(Cut(text, sep)[2])
<1>1. CASE Cut(text, sep) = <<text, <<>>>>
  <2>1. <<>> \in Seq(Nat) /\ EscapesNeeded(<<>>)
    BY EmptySeq DEF EscapesNeeded
  <2> QED
    BY <1>1, <2>1
<1>2. ASSUME NEW u \in Seq(Nat), NEW v \in Seq(Nat), text = u \o (<<sep>> \o v), Cut(text, sep) = <<u, v>>
      PROVE  EscapesNeeded(u) /\ EscapesNeeded(v) /\ Cut(text, sep)[1] = u /\ Cut(text, sep)[2] = v
  BY <1>2, EscapesPieces
<1> QED
  BY <1>1, <1>2, CutSides, SMTT(30)

\* The parameters the service signs are those the client signed.
LEMMA QueryRecoded ==
  ASSUME NEW query \in Seq(Nat), EscapesNeeded(query)
  PROVE  ParseExistingQuery(query) = Encoded(Received(query))
<1>1. CASE query = <<>>
  <2>1. ParseExistingQuery(query) = <<>> /\ Received(query) = <<>>
    BY <1>1 DEF ParseExistingQuery, Received
  <2>2. Encoded(<<>>) = <<>>
    BY DEF Encoded
  <2> QED
    BY <2>1, <2>2
<1>2. CASE query # <<>>
  <2> DEFINE segments == Split(query, Ampersand)
             name(k) == Cut(segments[k], Equals)[1]
             value(k) == Cut(segments[k], Equals)[2]
             received == [k \in DOMAIN segments |-> <<Decoded(name(k)), Decoded(value(k))>>]
  <2>1. \A k \in DOMAIN segments : segments[k] \in Seq(Nat) /\ EscapesNeeded(segments[k])
    BY PiecesNeeded, SlashIsNoDigit
  <2>2. /\ ParseExistingQuery(query)
             = [k \in DOMAIN segments |-> <<CanonicalText(name(k), {}), CanonicalText(value(k), {})>>]
        /\ Received(query) = received
    BY <1>2 DEF ParseExistingQuery, Received
  <2> HIDE DEF segments
  <2>3. Encoded(received)
          = [k \in DOMAIN segments |->
               <<PercentEncode(Decoded(name(k)), {}), PercentEncode(Decoded(value(k)), {})>>]
    BY DEF Encoded
  <2>4. ASSUME NEW k \in DOMAIN segments
        PROVE  /\ CanonicalText(name(k), {}) = PercentEncode(Decoded(name(k)), {})
               /\ CanonicalText(value(k), {}) = PercentEncode(Decoded(value(k)), {})
    <3>1. /\ name(k) \in Seq(Nat) /\ EscapesNeeded(name(k))
          /\ value(k) \in Seq(Nat) /\ EscapesNeeded(value(k))
      BY <2>1, CutNeeded, SlashIsNoDigit
    <3> HIDE DEF name, value
    <3> QED
      BY <3>1, Reencoded
  <2> HIDE DEF name, value, received
  <2> QED
    BY <2>2, <2>3, <2>4, Zenon
<1> QED
  BY <1>1, <1>2

-----------------------------------------------------------------------------
(***************************************************************************)
(* The targets of the clients waste no escapes: bucket, key and parameter are *)
(* quoted, and the rest are words.                                         *)
(***************************************************************************)

\* Two texts without wasted escapes, with a separator between them.
LEMMA EscapesBetween ==
  ASSUME NEW u \in Seq(Nat), NEW v \in Seq(Nat), NEW sep \in Nat, ~IsHex(sep), sep # Percent,
         EscapesNeeded(u), EscapesNeeded(v)
  PROVE  /\ u \o (<<sep>> \o v) \in Seq(Nat) /\ EscapesNeeded(u \o (<<sep>> \o v))
         /\ <<sep>> \o v \in Seq(Nat) /\ EscapesNeeded(<<sep>> \o v)
<1> DEFINE s == <<sep>>
           w == s \o v
<1>1. s \in Seq(Nat) /\ Len(s) = 1 /\ s[1] = sep
  BY Literals
<1>2. EscapesNeeded(w)
  <2>1. Percent \notin {sep} /\ Raw(sep, {sep}) = s
    BY DEF Raw
  <2>2. EscapesNeeded(Raw(sep, {sep}) \o v)
    BY <2>1, EscapesBehind
  <2> QED
    BY <2>1, <2>2
<1> HIDE DEF s
<1>3. w \in Seq(Nat) /\ w[1] = sep
  <2>1. w \in Seq(Nat) /\ \A i \in 1..Len(s) : w[i] = s[i]
    BY <1>1, Bytes
  <2>2. 1 \in 1..Len(s)
    BY <1>1
  <2> HIDE DEF w
  <2> QED
    BY <1>1, <2>1, <2>2
<1> HIDE DEF w
<1>4. EscapesNeeded(u \o w) /\ u \o w \in Seq(Nat)
  BY <1>2, <1>3, EscapesConcat, ConcatProperties
<1> QED
  BY <1>2, <1>3, <1>4, Zenon DEF w, s

LEMMA PathNeeded ==
  ASSUME NEW base \in Seq(Nat), EscapesNeeded(base), NEW bucket \in Seq(Nat), NEW key \in Seq(Nat)
  PROVE  /\ base \o PathFor(bucket, key) \in Seq(Nat)
         /\ EscapesNeeded(base \o PathFor(bucket, key))
<1> DEFINE b == PercentEncode(bucket, {})
           k == PercentEncode(key, {Slash})
           w == Named(bucket, key)
<1>1. /\ b \in Seq(Nat) /\ EscapesNeeded(b)
      /\ k \in Seq(Nat) /\ EscapesNeeded(k)
  <2>1. Percent \notin {} /\ Percent \notin {Slash}
    BY SeparatorsNotPlain
  <2> QED
    BY <2>1, EncodedType, EscapesEncoded
<1>2. w = b \/ w = b \o (<<Slash>> \o k)
  <2>1. key = <<>> => w = b \o <<>>
    BY DEF Named
  <2>2. key # <<>> => w = b \o (<<Slash>> \o k)
    BY DEF Named
  <2> QED
    BY <1>1, <2>1, <2>2, ConcatEmptySeq
<1>3. ~IsHex(Slash) /\ Slash \in Nat /\ Slash # Percent
  BY SlashIsNoDigit, SeparatorsNotPlain
<1> HIDE DEF b, k
<1>4. w \in Seq(Nat) /\ EscapesNeeded(w)
  <2>1. EscapesNeeded(b \o (<<Slash>> \o k)) /\ b \o (<<Slash>> \o k) \in Seq(Nat)
    BY <1>1, <1>3, EscapesBetween
  <2> QED
    BY <1>1, <1>2, <2>1, Zenon
<1>5. PathFor(bucket, key) = <<Slash>> \o w
  BY PathIs
<1> HIDE DEF w
<1>6. base \o (<<Slash>> \o w) \in Seq(Nat) /\ EscapesNeeded(base \o (<<Slash>> \o w))
  BY <1>3, <1>4, EscapesBetween
<1> QED
  BY <1>5, <1>6, Zenon

LEMMA WrittenNeeded ==
  ASSUME NEW name \in Seq(Nat), PlainName(name), NEW value \in Seq(Nat)
  PROVE  EscapesNeeded(Written(name, value))
<1> DEFINE v == PercentEncode(value, {})
<1>1. EscapesNeeded(name)
  <2>1. \A i \in DOMAIN name : name[i] # Percent
    <3>1. ~Unreserved(Percent)
      BY DEF Unreserved, Digit, Upper, Lower, Percent
    <3> QED
      BY <3>1, Zenon DEF PlainName
  <2> QED
    BY <2>1 DEF EscapesNeeded, IsEscape
<1>2. v \in Seq(Nat) /\ EscapesNeeded(v)
  <2>1. Percent \notin {}
    OBVIOUS
  <2> QED
    BY <2>1, EncodedType, EscapesEncoded
<1>3. value = <<>> => Written(name, value) = name
  <2>1. value = <<>> => Written(name, value) = name \o <<>>
    BY DEF Written
  <2> QED
    BY <2>1, ConcatEmptySeq
<1>4. value # <<>> => Written(name, value) = name \o (<<Equals>> \o v)
  BY DEF Written
<1>5. ~IsHex(Equals) /\ Equals \in Nat /\ Equals # Percent
  BY SlashIsNoDigit DEF Equals, Percent
<1> HIDE DEF v
<1>6. EscapesNeeded(name \o (<<Equals>> \o v))
  BY <1>1, <1>2, <1>5, EscapesBetween
<1> QED
  BY <1>1, <1>3, <1>4, <1>6, Zenon

LEMMA JoinNeeded ==
  ASSUME NEW sep \in Nat, ~IsHex(sep), sep # Percent, NEW texts \in Seq(Seq(Nat)), texts # <<>>,
         \A k \in 1..Len(texts) : EscapesNeeded(texts[k])
  PROVE  Join(texts, sep) \in Seq(Nat) /\ EscapesNeeded(Join(texts, sep))
<1> DEFINE n == Len(texts)
<1>1. n \in Nat /\ n >= 1 /\ \A k \in 1..n : texts[k] \in Seq(Nat)
  BY LenProperties, ElementOfSeq, EmptySeq
<1>2. PICK p : Joining(p, texts, sep, Nat)
  BY JoinPieces
<1>3. /\ \A k \in 1..n : p[k] \in Seq(Nat)
      /\ p[1] = texts[1] /\ Join(texts, sep) = p[n]
      /\ \A k \in 2..n : p[k] = p[k - 1] \o (<<sep>> \o texts[k])
  BY <1>2 DEF Joining
<1> HIDE DEF n
<1> DEFINE T == {k \in Nat : k + 1 <= n => EscapesNeeded(p[k + 1])}
<1>n. \A k \in 1..n : EscapesNeeded(texts[k])
  BY DEF n
<1>4. 0 \in T
  <2>1. 1 \in 1..n /\ 0 + 1 = 1
    BY <1>1
  <2> QED
    BY <1>3, <1>n, <2>1
<1>5. ASSUME NEW k \in Nat, k \in T PROVE k + 1 \in T
  <2> SUFFICES ASSUME (k + 1) + 1 <= n PROVE EscapesNeeded(p[(k + 1) + 1])
    OBVIOUS
  <2> DEFINE i == (k + 1) + 1
             text == texts[i]
             start == p[k + 1]
  <2>1. i \in 2..n /\ i \in 1..n /\ i - 1 = k + 1 /\ k + 1 <= n /\ k + 1 \in 1..n
    BY <1>1
  <2>2. start \in Seq(Nat) /\ EscapesNeeded(start)
    BY <1>3, <1>5, <2>1
  <2> HIDE DEF i
  <2>3. text \in Seq(Nat) /\ EscapesNeeded(text)
    BY <1>1, <1>n, <2>1
  <2>4. p[i] = start \o (<<sep>> \o text)
    BY <1>3, <2>1
  <2> HIDE DEF text, start
  <2>5. EscapesNeeded(start \o (<<sep>> \o text))
    BY <2>2, <2>3, EscapesBetween
  <2> QED
    BY <2>4, <2>5 DEF i
<1>6. Nat \subseteq T
  <2> HIDE DEF T
  <2> QED
    BY <1>4, <1>5, SetInduction
<1>7. EscapesNeeded(p[n]) /\ n \in 1..n
  <2>1. n - 1 \in Nat /\ (n - 1) + 1 = n /\ n <= n /\ n \in 1..n
    BY <1>1
  <2>2. n - 1 \in T
    BY <1>6, <2>1
  <2> QED
    BY <2>1, <2>2
<1> QED
  BY <1>3, <1>7

LEMMA QueryNeeded ==
  ASSUME NEW parameters \in Seq(Seq(Nat) \X Seq(Nat)), parameters # <<>>,
         \A k \in DOMAIN parameters : PlainName(parameters[k][1])
  PROVE  \E query \in Seq(Nat) :
           QueryText(parameters) = <<Question>> \o query /\ EscapesNeeded(query)
<1> DEFINE n == Len(parameters)
           texts == [k \in DOMAIN parameters |-> Written(parameters[k][1], parameters[k][2])]
           query == Join(texts, Ampersand)
<1>1. /\ n \in Nat /\ n >= 1 /\ DOMAIN parameters = 1..n
      /\ \A k \in 1..n : parameters[k] \in Seq(Nat) \X Seq(Nat)
  BY LenProperties, ElementOfSeq, EmptySeq
<1>2. ASSUME NEW k \in 1..n
      PROVE  Written(parameters[k][1], parameters[k][2]) \in Seq(Nat)
             /\ EscapesNeeded(Written(parameters[k][1], parameters[k][2]))
  <2> DEFINE name == parameters[k][1]
             value == parameters[k][2]
  <2>1. PlainName(name)
    BY <1>1, Zenon
  <2>2. name \in Seq(Nat) /\ value \in Seq(Nat)
    <3>1. parameters[k] \in Seq(Nat) \X Seq(Nat)
      BY <1>1
    <3> QED
      BY <3>1, PairParts
  <2> HIDE DEF name, value
  <2>3. Written(name, value) \in Seq(Nat) /\ EscapesNeeded(Written(name, value))
    BY <2>1, <2>2, WrittenReads, WrittenNeeded
  <2> QED
    BY <2>3 DEF name, value
<1>3. QueryText(parameters) = <<Question>> \o query
  BY Zenon DEF QueryText, Written
<1>4. /\ texts \in Seq(Seq(Nat)) /\ Len(texts) = n
      /\ \A k \in 1..n : EscapesNeeded(texts[k])
  <2>1. texts = [k \in 1..n |-> Written(parameters[k][1], parameters[k][2])]
    BY <1>1
  <2> HIDE DEF texts, n
  <2>2. texts \in [1..n -> Seq(Nat)] /\ \A k \in 1..n : EscapesNeeded(texts[k])
    BY <1>2, <2>1
  <2> QED
    BY <1>1, <2>2, FunctionIsSeq
<1> HIDE DEF texts, n
<1>5. query \in Seq(Nat) /\ EscapesNeeded(query)
  <2>1. texts # <<>>
    BY <1>1, <1>4, EmptySeq
  <2>2. Ampersand # Percent
    BY DEF Ampersand, Percent
  <2> QED
    BY <1>4, <2>1, <2>2, JoinNeeded, SlashIsNoDigit
<1> HIDE DEF query
<1> QED
  BY <1>3, <1>5, Zenon

\* The query of a call has no wasted escape.
LEMMA TargetNeeded ==
  ASSUME NEW a \in Asked \cup LinkAsked, Composed(a) \/ EscapesNeeded(Cut(a.target, Question)[2])
  PROVE  Cut(a.target, Question)[2] \in Seq(Nat) /\ EscapesNeeded(Cut(a.target, Question)[2])
<1> DEFINE path == PathFor(a.bucket, a.key)
           given == Cut(a.target, Question)[2]
<1>1. a.bucket \in Seq(Nat) /\ a.key \in Seq(Nat)
  BY AskedAssumption
<1>2. path \in Seq(Nat) /\ Cut(path, Question) = <<path, <<>>>>
  BY <1>1, PathIs, PathCut, EmptySeq
<1>3. \A query \in Seq(Nat) : Cut(path \o (<<Question>> \o query), Question) = <<path, query>>
  BY <1>1, PathCut
<1>4. path \o <<>> = path
  BY <1>2, ConcatEmptySeq
<1>5. <<>> \in Seq(Nat) /\ EscapesNeeded(<<>>)
  BY EmptySeq DEF EscapesNeeded
<1>6. CASE Composed(a)
  <2>1. /\ a.parameters \in Seq(Seq(Nat) \X Seq(Nat))
        /\ \A k \in DOMAIN a.parameters : PlainName(a.parameters[k][1])
        /\ a.target = path \o QueryText(a.parameters)
    BY <1>6 DEF Composed
  <2>2. CASE a.parameters = <<>>
    <3>1. QueryText(a.parameters) = <<>>
      BY <2>2 DEF QueryText
    <3> HIDE DEF path
    <3>2. a.target = path
      BY <1>4, <2>1, <3>1, Zenon
    <3>3. Cut(a.target, Question) = <<path, <<>>>>
      BY <1>2, <3>2, Zenon
    <3> HIDE DEF given
    <3>4. given = <<>>
      BY <3>3 DEF given
    <3> QED
      BY <1>5, <3>4 DEF given
  <2>3. CASE a.parameters # <<>>
    <3>1. PICK query \in Seq(Nat) :
            QueryText(a.parameters) = <<Question>> \o query /\ EscapesNeeded(query)
      BY <2>1, <2>3, QueryNeeded
    <3> HIDE DEF path
    <3>2. Cut(a.target, Question) = <<path, query>>
      BY <1>3, <2>1, <3>1, Zenon
    <3> QED
      BY <3>1, <3>2
  <2> QED
    BY <2>2, <2>3
<1>7. CASE ~Composed(a)
  BY <1>7, AskedAssumption, Zenon
<1> QED
  BY <1>6, <1>7

-----------------------------------------------------------------------------
(***************************************************************************)
(* The header fields, from the request to the canonical request: they arrive *)
(* as they were stamped, and the service normalizes them to the same values. *)
(***************************************************************************)

\* A header value that trim_collapse leaves alone.
Visible(text) == text \in Seq(Nat) /\ text # <<>> /\ \A i \in DOMAIN text : text[i] \notin Space

LEMMA TrimVisible ==
  ASSUME NEW text, Visible(text)
  PROVE  TrimCollapse(text) = text
<1> DEFINE ones == [i \in DOMAIN text |-> <<text[i]>>]
<1>1. text \in Seq(Nat) /\ \A i \in DOMAIN text : text[i] \notin Space /\ text[i] \in Nat
  BY ElementOfSeq, LenProperties DEF Visible
<1>2. TrimCollapse(text) = FlattenSeq(ones)
  <2> DEFINE Keep(i) == /\ i > 1 /\ text[i - 1] \notin Space
                        /\ \E j \in i..Len(text) : text[j] \notin Space
             pieces == [i \in DOMAIN text |->
                          IF text[i] \notin Space THEN <<text[i]>> ELSE IF Keep(i) THEN <<32>> ELSE <<>>]
  <2>1. TrimCollapse(text) = FlattenSeq(pieces)
    BY Zenon DEF TrimCollapse
  <2> HIDE DEF Keep
  <2>2. pieces = ones
    BY <1>1
  <2> HIDE DEF pieces, ones
  <2> QED
    BY <2>1, <2>2
<1>3. PercentEncode(text, Nat) = FlattenSeq(ones)
  <2> DEFINE pieces == [i \in DOMAIN text |-> Raw(text[i], Nat)]
  <2>1. \A i \in DOMAIN text : Raw(text[i], Nat) = <<text[i]>>
    BY <1>1 DEF Raw
  <2>2. pieces = ones
    BY <2>1
  <2>3. PercentEncode(text, Nat) = FlattenSeq(pieces)
    BY DEF PercentEncode
  <2> HIDE DEF pieces, ones
  <2> QED
    BY <2>2, <2>3
<1>4. PercentEncode(text, Nat) = text
  BY <1>1, KeptEncoded
<1> HIDE DEF ones
<1> QED
  BY <1>2, <1>3, <1>4

LEMMA OrderedOne ==
  ASSUME NEW x \in Seq(Nat)
  PROVE  Ordered({x}) = <<x>>
<1>1. ~Below(x, x)
  <2>1. ~IsStrictPrefix(x, x)
    BY DEF IsStrictPrefix
  <2>2. \A i \in DOMAIN x : ~(x[i] < x[i])
    BY ElementOfSeq, LenProperties
  <2> QED
    BY <2>1, <2>2 DEF Below
<1>2. Cardinality({x}) = 1 /\ Cardinality({}) = 0
  BY FS_Singleton, FS_EmptySet
<1>3. (CHOOSE s \in {x} : Cardinality({t \in {x} : Below(t, s)}) = 1 - 1) = x
  <2>1. {t \in {x} : Below(t, x)} = {}
    BY <1>1
  <2>0. 1 - 1 = 0
    OBVIOUS
  <2>2. Cardinality({t \in {x} : Below(t, x)}) = 1 - 1
    BY <1>2, <2>0, <2>1, Zenon
  <2>3. \E s \in {x} : Cardinality({t \in {x} : Below(t, s)}) = 1 - 1
    BY <2>2
  <2>4. (CHOOSE s \in {x} : Cardinality({t \in {x} : Below(t, s)}) = 1 - 1) \in {x}
    BY <2>3, Zenon
  <2> QED
    BY <2>4
<1>4. Ordered({x}) = [k \in 1..1 |-> CHOOSE s \in {x} : Cardinality({t \in {x} : Below(t, s)}) = k - 1]
  BY <1>2, Zenon DEF Ordered
<1> DEFINE Kth(k) == CHOOSE s \in {x} : Cardinality({t \in {x} : Below(t, s)}) = k - 1
<1>5. Ordered({x}) = [k \in 1..1 |-> Kth(k)] /\ Kth(1) = x
  BY <1>3, <1>4, Zenon
<1> HIDE DEF Kth
<1>6. \A k \in 1..1 : Kth(k) = x
  BY <1>5
<1>7. Ordered({x}) = [k \in 1..1 |-> x]
  BY <1>5, <1>6
<1> QED
  BY <1>7

LowerNamed(fields) == \A n \in DOMAIN fields : n \in Seq(Nat) /\ LowerCase(n) = n

\* A field whose value has no space is signed as it is.
LEMMA HeaderValue ==
  ASSUME NEW fields, LowerNamed(fields)
  PROVE  /\ DOMAIN NormalizedHeaders(fields) = DOMAIN fields
         /\ {LowerCase(n) : n \in DOMAIN fields} = DOMAIN fields
         /\ \A n \in DOMAIN fields : Visible(fields[n]) => NormalizedHeaders(fields)[n] = fields[n]
<1> DEFINE D == DOMAIN fields
           same(name) == Ordered({n \in D : LowerCase(n) = name})
           value(name) == Join([k \in DOMAIN same(name) |-> TrimCollapse(fields[same(name)[k]])], 44)
<1>1. \A n \in D : LowerCase(n) = n /\ n \in Seq(Nat)
  BY DEF LowerNamed
<1>2. {LowerCase(n) : n \in D} = D
  BY <1>1
<1>3. NormalizedHeaders(fields) = [name \in {LowerCase(n) : n \in D} |-> value(name)]
  BY Zenon DEF NormalizedHeaders
<1>4. ASSUME NEW n \in D, Visible(fields[n])
      PROVE  value(n) = fields[n]
  <2>1. {m \in D : LowerCase(m) = n} = {n}
    BY <1>1
  <2>2. same(n) = <<n>>
    BY <1>1, <2>1, OrderedOne
  <2>3. TrimCollapse(fields[n]) = fields[n] /\ fields[n] \in Seq(Nat)
    BY <1>4, TrimVisible DEF Visible
  <2> DEFINE x == fields[n]
  <2> HIDE DEF same
  <2>4. [k \in DOMAIN same(n) |-> TrimCollapse(fields[same(n)[k]])] = <<x>>
    <3> DEFINE f == [k \in DOMAIN same(n) |-> TrimCollapse(fields[same(n)[k]])]
    <3>1. DOMAIN same(n) = 1..1 /\ same(n)[1] = n
      BY <2>2
    <3>2. f = [k \in 1..1 |-> x]
      BY <2>3, <3>1
    <3>3. <<x>> = [k \in 1..1 |-> x]
      OBVIOUS
    <3> QED
      BY <3>2, <3>3
  <2>5. Join(<<x>>, 44) = x
    BY <2>3, JoinOne
  <2> QED
    BY <2>4, <2>5, Zenon
<1> HIDE DEF value
<1>5. \A n \in D : NormalizedHeaders(fields)[n] = value(n)
  BY <1>2, <1>3
<1> QED
  BY <1>2, <1>3, <1>4, <1>5

LEMMA HeaderNames ==
  /\ Header("date") = <<120, Amz, 405>> /\ Header("content_sha256") = <<120, Amz, 402>>
  /\ Header("security_token") = <<120, Amz, 407>>
BY DEF Header, Names

LEMMA LowerText ==
  ASSUME NEW text \in Seq(Nat), \A i \in DOMAIN text : text[i] \notin Upper
  PROVE  LowerCase(text) = text
<1>1. LowerCase(text) = [i \in DOMAIN text |-> text[i]]
  BY DEF LowerCase
<1>2. text = [i \in DOMAIN text |-> text[i]]
  BY LenProperties
<1> QED
  BY <1>1, <1>2

\* The fields that sign adds have names in lower case, each a name of its own.
LEMMA StampNames ==
  /\ \A n \in {Host, Header("date"), Header("content_sha256"), Header("security_token")} :
       n \in Seq(Nat) /\ LowerCase(n) = n
  /\ Host # Header("date") /\ Host # Header("content_sha256") /\ Host # Header("security_token")
  /\ Header("date") # Header("content_sha256") /\ Header("date") # Header("security_token")
  /\ Header("content_sha256") # Header("security_token")
<1>1. ASSUME NEW w \in {405, 402, 407} PROVE <<120, Amz, w>> \in Seq(Nat) /\ LowerCase(<<120, Amz, w>>) = <<120, Amz, w>>
  <2> DEFINE t == <<120, Amz, w>>
  <2>1. t \in Seq(Nat)
    BY DEF Amz
  <2>2. \A i \in DOMAIN t : t[i] \notin Upper
    BY DEF Amz, Upper
  <2> HIDE DEF t
  <2>3. LowerCase(t) = t
    BY <2>1, <2>2, LowerText
  <2> QED
    BY <2>1, <2>3 DEF t
<1>2. Host \in Seq(Nat) /\ LowerCase(Host) = Host
  <2>1. Host \in Seq(Nat)
    BY DEF Host
  <2>2. \A i \in DOMAIN Host : Host[i] \notin Upper
    BY DEF Host, Upper
  <2> QED
    BY <2>1, <2>2, LowerText
<1>3. \A w : Host # <<120, Amz, w>>
  BY DEF Host, Amz
<1>4. <<120, Amz, 405>> # <<120, Amz, 402>> /\ <<120, Amz, 405>> # <<120, Amz, 407>>
      /\ <<120, Amz, 402>> # <<120, Amz, 407>>
  OBVIOUS
<1> DEFINE Lowered(n) == n \in Seq(Nat) /\ LowerCase(n) = n
           a == <<120, Amz, 405>>
           b == <<120, Amz, 402>>
           c == <<120, Amz, 407>>
<1>5. Lowered(a) /\ Lowered(b) /\ Lowered(c) /\ Lowered(Host)
  BY <1>1, <1>2
<1>6. Host # a /\ Host # b /\ Host # c /\ a # b /\ a # c /\ b # c
  BY <1>3, <1>4
<1>7. Header("date") = a /\ Header("content_sha256") = b /\ Header("security_token") = c
  BY HeaderNames
<1> HIDE DEF Lowered, a, b, c
<1>8. \A n \in {Host, Header("date"), Header("content_sha256"), Header("security_token")} : Lowered(n)
  BY <1>5, <1>7
<1> QED
  BY <1>6, <1>7, <1>8 DEF Lowered

Extends(longer, fields, name, value) ==
  /\ DOMAIN longer = DOMAIN fields \cup {name}
  /\ longer = [n \in DOMAIN longer |-> longer[n]]
  /\ longer[name] = value
  /\ \A n \in DOMAIN fields : n # name => longer[n] = fields[n]

LEMMA WithExtends ==
  ASSUME NEW fields, NEW name, NEW value
  PROVE  Extends(With(fields, name, value), fields, name, value)
BY DEF With, Extends

Date == Header("date")
Digest == Header("content_sha256")
Token == Header("security_token")

StampedShape(fields, given, authority, date, digest, token) ==
  /\ fields = [n \in DOMAIN fields |-> fields[n]]
  /\ DOMAIN given \subseteq DOMAIN fields
  /\ {Host, Date, Digest} \subseteq DOMAIN fields
  /\ fields[Host] = authority /\ fields[Date] = date /\ fields[Digest] = digest
  /\ token # <<>> => Token \in DOMAIN fields /\ fields[Token] = token
  /\ \A n \in DOMAIN fields :
       \/ n \in {Host, Date, Digest}
       \/ n = Token /\ token # <<>>
       \/ n \in DOMAIN given /\ fields[n] = given[n]

LEMMA StampedIs ==
  ASSUME NEW signer, NEW at, NEW request
  PROVE  StampedShape(Stamped(signer, at, request), request.fields, request.endpoint.authority,
           AmzDate(at), PayloadHash(request.body), signer.token)
<1> DEFINE given == request.fields
           authority == request.endpoint.authority
           date == AmzDate(at)
           digest == PayloadHash(request.body)
           token == signer.token
           hosted == With(given, Host, authority)
           dated == With(hosted, Date, date)
           known == IF token = <<>> THEN dated ELSE With(dated, Token, token)
           fields == With(known, Digest, digest)
<1>1. Stamped(signer, at, request) = fields
  BY Zenon DEF Stamped, Date, Digest, Token
<1> HIDE DEF given, authority, date, digest, token
<1>2. /\ Host # Date /\ Host # Digest /\ Host # Token
      /\ Date # Digest /\ Date # Token /\ Digest # Token
  BY StampNames DEF Date, Digest, Token
<1>3. /\ DOMAIN hosted = DOMAIN given \cup {Host} /\ hosted[Host] = authority
      /\ \A n \in DOMAIN given : n # Host => hosted[n] = given[n]
  <2>1. Extends(hosted, given, Host, authority)
    BY WithExtends, Zenon
  <2> QED
    BY <2>1, Zenon DEF Extends
<1> HIDE DEF hosted
<1>4. /\ DOMAIN dated = DOMAIN hosted \cup {Date} /\ dated[Date] = date
      /\ \A n \in DOMAIN hosted : n # Date => dated[n] = hosted[n]
  <2>1. Extends(dated, hosted, Date, date)
    BY WithExtends, Zenon
  <2> QED
    BY <2>1, Zenon DEF Extends
<1> HIDE DEF dated
<1>5. /\ DOMAIN dated \subseteq DOMAIN known
      /\ \A n \in DOMAIN known : (n \in DOMAIN dated /\ known[n] = dated[n]) \/ (n = Token /\ token # <<>>)
      /\ \A n \in DOMAIN dated : n # Token => known[n] = dated[n]
      /\ token # <<>> => Token \in DOMAIN known /\ known[Token] = token
  <2>1. CASE token = <<>>
    <3>1. known = dated
      BY <2>1
    <3> HIDE DEF known
    <3> QED
      BY <2>1, <3>1
  <2>2. CASE token # <<>>
    <3>1. known = With(dated, Token, token)
      BY <2>2
    <3>2. /\ DOMAIN known = DOMAIN dated \cup {Token} /\ known[Token] = token
          /\ \A n \in DOMAIN dated : n # Token => known[n] = dated[n]
      <4>1. Extends(known, dated, Token, token)
        BY <3>1, WithExtends, Zenon
      <4> QED
        BY <4>1, Zenon DEF Extends
    <3> HIDE DEF known
    <3> QED
      BY <2>2, <3>2
  <2> QED
    BY <2>1, <2>2
<1> HIDE DEF known
<1>6. /\ DOMAIN fields = DOMAIN known \cup {Digest} /\ fields[Digest] = digest
      /\ fields = [n \in DOMAIN fields |-> fields[n]]
      /\ \A n \in DOMAIN known : n # Digest => fields[n] = known[n]
  <2>1. Extends(fields, known, Digest, digest)
    BY WithExtends, Zenon
  <2> QED
    BY <2>1, Zenon DEF Extends
<1> HIDE DEF fields
<1>7. /\ {Host, Date, Digest} \subseteq DOMAIN fields /\ DOMAIN given \subseteq DOMAIN fields
      /\ fields[Host] = authority /\ fields[Date] = date /\ fields[Digest] = digest
  BY <1>2, <1>3, <1>4, <1>5, <1>6
<1>8. token # <<>> => Token \in DOMAIN fields /\ fields[Token] = token
  BY <1>2, <1>5, <1>6
<1>9. ASSUME NEW n \in DOMAIN fields
      PROVE  \/ n \in {Host, Date, Digest}
             \/ n = Token /\ token # <<>>
             \/ n \in DOMAIN given /\ fields[n] = given[n]
  BY <1>3, <1>4, <1>5, <1>6
<1>10. StampedShape(fields, given, authority, date, digest, token)
  BY <1>6, <1>7, <1>8, <1>9, Zenon DEF StampedShape
<1> QED
  BY <1>1, <1>10, Zenon DEF given, authority, date, digest, token

-----------------------------------------------------------------------------
(***************************************************************************)
(* What the client signs is what the service computes: fields, path, query *)
(* and scope.                                                              *)
(***************************************************************************)

Concatenated(t, u, v) ==
  /\ t \in Seq(Nat) /\ Len(u) \in Nat /\ Len(v) \in Nat /\ Len(t) = Len(u) + Len(v)
  /\ \A i \in 1..Len(u) : t[i] = u[i] /\ u[i] \in Nat
  /\ \A i \in 1..Len(v) : t[Len(u) + i] = v[i] /\ v[i] \in Nat

LEMMA BytesOf ==
  ASSUME NEW u \in Seq(Nat), NEW v \in Seq(Nat)
  PROVE  Concatenated(u \o v, u, v)
BY Bytes DEF Concatenated

LEMMA StampsVisible ==
  ASSUME NEW a \in Asked, NEW at \in Nat
  PROVE  /\ Visible(AmzDate(at)) /\ Visible(PayloadHash(a.body))
         /\ Account.token # <<>> => Visible(Account.token)
<1>1. Visible(AmzDate(at))
  <2> DEFINE s == at \div Second
             x == 1000 + s
  <2>1. s \in Nat
    BY TimeAssumption
  <2> HIDE DEF s
  <2>2. x \in Nat /\ x \notin Space
    BY <2>1 DEF Space
  <2>3. AmzDate(at) = <<x>>
    BY DEF AmzDate, s
  <2> HIDE DEF x
  <2>4. <<x>> \in Seq(Nat) /\ <<x>> # <<>> /\ \A i \in DOMAIN <<x>> : <<x>>[i] \notin Space
    BY <2>2
  <2> QED
    BY <2>3, <2>4 DEF Visible
<1>2. Visible(PayloadHash(a.body))
  <2> DEFINE h == <<305>>
             body == a.body
             t == h \o body
  <2>1. body \in Seq(Nat) /\ \A i \in DOMAIN body : body[i] > 255
    BY ContentAssumption
  <2>2. h \in Seq(Nat) /\ Len(h) = 1 /\ h[1] = 305
    OBVIOUS
  <2> HIDE DEF h, body
  <2>3. /\ t \in Seq(Nat) /\ Len(t) = 1 + Len(body) /\ Len(body) \in Nat /\ t[1] = 305
        /\ \A i \in 1..Len(body) : t[1 + i] = body[i] /\ body[i] \in Nat
    <3>1. /\ t \in Seq(Nat) /\ Len(t) = Len(h) + Len(body) /\ Len(body) \in Nat
          /\ \A i \in 1..Len(h) : t[i] = h[i]
          /\ \A i \in 1..Len(body) : t[Len(h) + i] = body[i] /\ body[i] \in Nat
      <4>1. Concatenated(t, h, body)
        BY <2>1, <2>2, BytesOf, Zenon
      <4> QED
        BY <4>1 DEF Concatenated
    <3>2. 1 \in 1..Len(h)
      BY <2>2
    <3> HIDE DEF t
    <3> QED
      BY <2>2, <3>1, <3>2
  <2> HIDE DEF t
  <2>4. DOMAIN body = 1..Len(body) /\ DOMAIN t = 1..1 + Len(body)
    BY <2>1, <2>3, LenProperties
  <2>5. ASSUME NEW i \in DOMAIN t PROVE t[i] \notin Space
    <3>1. CASE i = 1
      BY <2>3, <3>1 DEF Space
    <3>2. CASE i # 1
      <4> DEFINE j == i - 1
      <4>1. j \in 1..Len(body) /\ i = 1 + j
        BY <2>3, <2>4, <3>2
      <4> HIDE DEF j
      <4>2. t[1 + j] = body[j] /\ body[j] > 255 /\ body[j] \in Nat
        <5>1. t[1 + j] = body[j] /\ body[j] \in Nat
          BY <2>3, <4>1, Zenon
        <5>2. j \in DOMAIN body
          BY <2>4, <4>1
        <5>3. body[j] > 255
          BY <2>1, <5>2
        <5> QED
          BY <5>1, <5>3
      <4> QED
        BY <4>1, <4>2 DEF Space
    <3> QED
      BY <3>1, <3>2
  <2>6. t # <<>>
    BY <2>3, EmptySeq
  <2>7. PayloadHash(a.body) = t
    BY DEF PayloadHash, t, h, body
  <2> QED
    BY <2>3, <2>5, <2>6, <2>7 DEF Visible
<1>3. Account.token # <<>> => Visible(Account.token)
  BY TokenAssumption DEF Visible
<1> QED
  BY <1>1, <1>2, <1>3

\* The fields of a request arrive as they were signed.
LEMMA FieldsArrive ==
  ASSUME NEW e \in Endpoint, NEW a \in Asked, NEW at \in Nat, Sendable(e, a)
  PROVE  LET fields == Stamped(Signer(a.service), at, RequestTo(e, a)) IN
         /\ StampedShape(fields, a.fields, e.authority, AmzDate(at), PayloadHash(a.body), Account.token)
         /\ LowerNamed(fields)
         /\ Visible(e.authority)
         /\ SentAs(a, e, at).fields = fields
<1> DEFINE signer == Signer(a.service)
           request == RequestTo(e, a)
           fields == Stamped(signer, at, request)
           shape == StampedShape(fields, a.fields, e.authority, AmzDate(at), PayloadHash(a.body), Account.token)
<1>1. shape
  <2>1. /\ request.fields = a.fields /\ request.endpoint.authority = e.authority
        /\ request.body = a.body /\ signer.token = Account.token
    BY DEF RequestTo, Signer
  <2>2. StampedShape(fields, request.fields, request.endpoint.authority, AmzDate(at),
          PayloadHash(request.body), signer.token)
    BY StampedIs, Zenon
  <2> HIDE DEF signer, request, fields
  <2> QED
    BY <2>1, <2>2, Zenon
<1> HIDE DEF fields
<1>2. Visible(e.authority)
  BY Zenon DEF Sendable, Visible
<1>3. /\ \A n \in {Host, Date, Digest, Token} : n \in Seq(Nat) /\ LowerCase(n) = n
      /\ \A n \in DOMAIN a.fields : n \in Seq(Nat) /\ LowerCase(n) = n
  BY StampNames, ContentAssumption DEF Date, Digest, Token
<1>4. LowerNamed(fields)
  BY <1>1, <1>3 DEF StampedShape, LowerNamed
<1>5. ASSUME NEW n \in DOMAIN fields
      PROVE  TrimCollapse(fields[n]) # <<>>
  <2>1. CASE Visible(fields[n])
    BY <2>1, TrimVisible, Zenon DEF Visible
  <2>2. CASE n \in DOMAIN a.fields /\ fields[n] = a.fields[n]
    BY <2>2, Zenon DEF Sendable
  <2>3. Visible(AmzDate(at)) /\ Visible(PayloadHash(a.body)) /\ (Account.token # <<>> => Visible(Account.token))
    BY StampsVisible
  <2> QED
    BY <1>1, <1>2, <2>1, <2>2, <2>3 DEF StampedShape
<1>6. SentAs(a, e, at).fields = [n \in {m \in DOMAIN fields : TrimCollapse(fields[m]) # <<>>} |-> fields[n]]
  BY DEF SentAs, Transmitted, Signed, fields
<1>7. {m \in DOMAIN fields : TrimCollapse(fields[m]) # <<>>} = DOMAIN fields
  BY <1>5
<1>8. fields = [n \in DOMAIN fields |-> fields[n]]
  BY <1>1, Zenon DEF StampedShape
<1>9. SentAs(a, e, at).fields = fields
  BY <1>6, <1>7, <1>8, Zenon
<1> QED
  BY <1>1, <1>2, <1>4, <1>9 DEF fields

\* The path that is signed is the one the service signs, for a request or a link.
LEMMA PathWhole ==
  ASSUME NEW e \in Endpoint, NEW a \in Asked \cup LinkAsked, EscapesNeeded(e.base)
  PROVE  /\ PathOf(e, a) \in Seq(Nat) /\ EscapesNeeded(PathOf(e, a))
         /\ CanonicalUri(RequestTo(e, a), Cut(a.target, Question)[1]) = ServicePath(PathOf(e, a))
<1> DEFINE base == e.base
           path == PathFor(a.bucket, a.key)
           whole == base \o path
<1>1. /\ base \in Seq(Nat) /\ (base # <<>> => base[1] = Slash)
      /\ a.bucket \in Seq(Nat) /\ a.key \in Seq(Nat)
  BY AskedAssumption, BaseAssumption
<1>2. EscapesNeeded(base)
  OBVIOUS
<1>3. whole \in Seq(Nat) /\ EscapesNeeded(whole)
  <2> HIDE DEF base
  <2> QED
    BY <1>1, <1>2, PathNeeded
<1>4. path \in Seq(Nat) /\ Len(path) >= 1 /\ path[1] = Slash
  <2> DEFINE s == <<Slash>>
             w == Named(a.bucket, a.key)
  <2>1. path = s \o w /\ path \in Seq(Nat) /\ w \in Seq(Nat)
    BY <1>1, PathIs, NamedCut
  <2>2. s \in Seq(Nat) /\ Len(s) = 1 /\ s[1] = Slash /\ 1 \in 1..Len(s)
    BY SlashIsNoDigit, Literals
  <2> HIDE DEF s, w, path
  <2>3. /\ Len(s \o w) = Len(s) + Len(w) /\ Len(w) \in Nat
        /\ \A i \in 1..Len(s) : (s \o w)[i] = s[i]
    BY <2>1, <2>2, Bytes
  <2> QED
    BY <2>1, <2>2, <2>3
<1>5. whole # <<>> /\ whole[1] = Slash
  <2> HIDE DEF base, path
  <2>1. /\ Len(whole) = Len(base) + Len(path) /\ Len(base) \in Nat /\ Len(path) \in Nat
        /\ \A i \in 1..Len(base) : whole[i] = base[i]
        /\ \A i \in 1..Len(path) : whole[Len(base) + i] = path[i]
    BY <1>1, <1>4, Bytes
  <2>2. whole # <<>>
    BY <1>4, <2>1, EmptySeq
  <2> HIDE DEF whole
  <2>3. CASE base = <<>>
    <3>1. Len(base) = 0 /\ 1 \in 1..Len(path) /\ Len(base) + 1 = 1
      BY <1>4, <2>1, <2>3
    <3>2. whole[Len(base) + 1] = path[1]
      BY <2>1, <3>1
    <3> QED
      BY <1>4, <2>2, <3>1, <3>2
  <2>4. CASE base # <<>>
    <3>1. 1 \in 1..Len(base)
      BY <1>1, <2>1, <2>4, EmptySeq
    <3> QED
      BY <1>1, <2>1, <2>2, <2>4, <3>1
  <2> QED
    BY <2>3, <2>4
<1>6. Cut(a.target, Question)[1] = path
  BY TargetReads
<1>7. CanonicalUri(RequestTo(e, a), path) = CanonicalText(whole, {Slash})
  <2>1. RequestTo(e, a).endpoint.base = base
    BY DEF RequestTo
  <2> HIDE DEF base, path
  <2>2. CanonicalUri(RequestTo(e, a), path) = CanonicalText(<<>> \o whole, {Slash})
    BY <1>5, <2>1, Zenon DEF CanonicalUri
  <2> HIDE DEF whole
  <2>3. <<>> \o whole = whole
    BY <1>3, ConcatEmptySeq
  <2> QED
    BY <2>2, <2>3, Zenon
<1>8. PathOf(e, a) = whole
  BY DEF PathOf
<1> HIDE DEF whole, path
<1>9. ServicePath(whole) = CanonicalText(whole, {Slash})
  BY <1>3, PathRecoded
<1> QED
  BY <1>3, <1>6, <1>7, <1>8, <1>9, Zenon

\* The service signs the path that the client signed.
LEMMA PathSigned ==
  ASSUME NEW e \in Endpoint, NEW a \in Asked, NEW at, Sendable(e, a)
  PROVE  ServicePath(SentAs(a, e, at).path) = CanonicalUri(RequestTo(e, a), Cut(a.target, Question)[1])
<1> DEFINE whole == PathOf(e, a)
<1>1. EscapesNeeded(e.base) /\ NoDots(whole)
  BY Zenon DEF Sendable
<1>2. /\ whole \in Seq(Nat) /\ EscapesNeeded(whole)
      /\ CanonicalUri(RequestTo(e, a), Cut(a.target, Question)[1]) = ServicePath(whole)
  BY <1>1, PathWhole
<1>3. SentAs(a, e, at).path = WithoutDots(whole)
  <2>1. SentAs(a, e, at).path = WithoutDots(e.base \o Cut(a.target, Question)[1])
    BY SentParts
  <2>2. Cut(a.target, Question)[1] = PathFor(a.bucket, a.key)
    BY TargetReads
  <2> QED
    BY <2>1, <2>2, Zenon DEF PathOf
<1> HIDE DEF whole
<1>4. WithoutDots(whole) = whole
  BY <1>1, <1>2, DotsKept
<1> QED
  BY <1>2, <1>3, <1>4, Zenon

\* And the query.
LEMMA QuerySigned ==
  ASSUME NEW e, NEW a \in Asked, NEW at, Sendable(e, a)
  PROVE  ServiceQuery(SentAs(a, e, at).query)
           = CanonicalQuery(ParseExistingQuery(Cut(a.target, Question)[2]))
<1> DEFINE query == Cut(a.target, Question)[2]
<1>1. Composed(a) \/ EscapesNeeded(query)
  BY Zenon DEF Sendable
<1>2. query \in Seq(Nat) /\ EscapesNeeded(query)
  BY <1>1, TargetNeeded
<1>3. SentAs(a, e, at).query = query
  BY SentParts
<1> HIDE DEF query
<1>4. ParseExistingQuery(query) = Encoded(Received(query))
  BY <1>2, QueryRecoded
<1>5. ServiceQuery(query) = CanonicalQuery(ParseExistingQuery(query))
  BY <1>4, Zenon DEF ServiceQuery, CanonicalQuery
<1> QED
  BY <1>3, <1>5 DEF query

LEMMA ScopeSigned ==
  ASSUME NEW at \in Nat, NEW service
  PROVE  /\ ServiceScope(AmzDate(at), service) = Scope(at, Signer(service))
         /\ (at \div Second) - (AmzDate(at)[1] - 1000) \in 0..Skew
<1> DEFINE s == at \div Second
<1>1. s \in Nat
  BY TimeAssumption
<1>2. AmzDate(at)[1] = 1000 + s
  BY DEF AmzDate
<1> HIDE DEF s
<1>3. AmzDate(at)[1] - 1000 = s /\ s - s = 0 /\ 0 \in 0..Skew
  BY <1>1, <1>2, SkewAssumption
<1>4. Signer(service).region = Account.region /\ Signer(service).service = service
  BY DEF Signer
<1> DEFINE day == <<2000 + (s \div Day)>>
           today == <<2000 + ((AmzDate(at)[1] - 1000) \div Day)>>
<1>5. DateStamp(at) = day
  BY DEF DateStamp, s
<1>6. today = day
  BY <1>3
<1>7. ServiceScope(AmzDate(at), service) = Join(<<today, Account.region, service, <<Request4>>>>, Slash)
  BY DEF ServiceScope
<1>8. Scope(at, Signer(service)) = Join(<<DateStamp(at), Signer(service).region, Signer(service).service, <<Request4>>>>, Slash)
  BY DEF Scope
<1> HIDE DEF day, today
<1>9. ServiceScope(AmzDate(at), service) = Scope(at, Signer(service))
  BY <1>4, <1>5, <1>6, <1>7, <1>8
<1>10. s - (AmzDate(at)[1] - 1000) \in 0..Skew
  BY <1>3
<1> QED
  BY <1>9, <1>10 DEF s

-----------------------------------------------------------------------------
(***************************************************************************)
(* EveryAttemptVerifies: the service accepts the attempt.                  *)
(***************************************************************************)

\* What else of a request goes onto the wire as it is.
LEMMA SentIs ==
  ASSUME NEW a, NEW e, NEW at
  PROVE  LET signer == Signer(a.service)
             fields == Stamped(signer, at, RequestTo(e, a))
             sent == SentAs(a, e, at)
         IN  /\ sent.authority = e.authority /\ sent.verb = a.verb /\ sent.body = a.body
             /\ sent.credential = Account.id \o <<Slash>> \o Scope(at, signer)
             /\ sent.signed = {LowerCase(n) : n \in DOMAIN fields}
             /\ sent.signature =
                  Signature(signer.secret, AmzDate(at), Scope(at, signer), a.verb,
                    CanonicalUri(RequestTo(e, a), Cut(a.target, Question)[1]),
                    CanonicalQuery(ParseExistingQuery(Cut(a.target, Question)[2])),
                    NormalizedHeaders(fields), PayloadHash(a.body))
BY Zenon DEF SentAs, Transmitted, Signed, RequestTo, Signer

\* What the service looks at, given the fields that it reads and their date.
LEMMA AcceptedWhen ==
  ASSUME NEW service, NEW request, NEW at, NEW fields, NEW date,
         NormalizedHeaders(request.fields) = fields,
         {Host, Date, Digest} \subseteq DOMAIN fields,
         fields[Host] = request.authority, fields[Date] = date, fields[Digest] = PayloadHash(request.body),
         Account.token # <<>> => Token \in DOMAIN fields /\ fields[Token] = Account.token,
         (at \div Second) - (date[1] - 1000) \in 0..Skew,
         request.credential = Account.id \o <<Slash>> \o ServiceScope(date, service),
         Covers(request.signed, fields),
         request.signature =
           Signature(Account.secret, date, ServiceScope(date, service), request.verb, ServicePath(request.path),
             ServiceQuery(request.query), [n \in request.signed |-> fields[n]], PayloadHash(request.body))
  PROVE  Accepts(service, request, at)
<1>1. NormalizedHeaders(request.fields)[Header("date")] = date
  BY Zenon DEF Date
<1>2. {Header("date"), Header("content_sha256")} \subseteq DOMAIN NormalizedHeaders(request.fields)
  BY DEF Date, Digest
<1>3. NormalizedHeaders(request.fields)[Header("content_sha256")] = PayloadHash(request.body)
  BY Zenon DEF Digest
<1>4. Account.token # <<>> =>
        /\ Header("security_token") \in DOMAIN NormalizedHeaders(request.fields)
        /\ NormalizedHeaders(request.fields)[Header("security_token")] = Account.token
  BY Zenon DEF Token
<1>5. /\ Covers(request.signed, NormalizedHeaders(request.fields))
      /\ NormalizedHeaders(request.fields)[Host] = request.authority
  BY Zenon
<1>6. /\ (at \div Second) - (NormalizedHeaders(request.fields)[Header("date")][1] - 1000) \in 0..Skew
      /\ request.credential =
           Account.id \o <<Slash>> \o ServiceScope(NormalizedHeaders(request.fields)[Header("date")], service)
  BY <1>1
<1>7. request.signature =
        Signature(Account.secret, NormalizedHeaders(request.fields)[Header("date")],
          ServiceScope(NormalizedHeaders(request.fields)[Header("date")], service), request.verb,
          ServicePath(request.path), ServiceQuery(request.query),
          [n \in request.signed |-> NormalizedHeaders(request.fields)[n]], PayloadHash(request.body))
  BY <1>1, Zenon
<1> QED
  BY <1>2, <1>3, <1>4, <1>5, <1>6, <1>7, Zenon DEF Accepts

\* A request that libcurl sends as it is is accepted the second it is signed.
LEMMA AttemptAccepted ==
  ASSUME NEW e \in Endpoint, NEW a \in Asked, NEW at \in Nat, Sendable(e, a), client.signs
  PROVE  Accepts(a.service, SentAs(a, e, at), at)
<1> DEFINE signer == Signer(a.service)
           given == Stamped(signer, at, RequestTo(e, a))
           sent == SentAs(a, e, at)
           fields == NormalizedHeaders(given)
           date == AmzDate(at)
           digest == PayloadHash(a.body)
           scope == Scope(at, signer)
           path == CanonicalUri(RequestTo(e, a), Cut(a.target, Question)[1])
           query == CanonicalQuery(ParseExistingQuery(Cut(a.target, Question)[2]))
<1>1. /\ StampedShape(given, a.fields, e.authority, date, digest, Account.token)
      /\ LowerNamed(given) /\ Visible(e.authority) /\ sent.fields = given
  BY FieldsArrive, Zenon
<1>2. /\ sent.authority = e.authority /\ sent.verb = a.verb /\ sent.body = a.body
      /\ sent.credential = Account.id \o <<Slash>> \o scope
      /\ sent.signed = {LowerCase(n) : n \in DOMAIN given}
      /\ sent.signature = Signature(signer.secret, date, scope, a.verb, path, query, fields, digest)
  BY SentIs, Zenon
<1>3. signer.secret = Account.secret
  BY DEF Signer
<1>4. ServicePath(sent.path) = path /\ ServiceQuery(sent.query) = query
  BY PathSigned, QuerySigned, Zenon
<1>5. /\ ServiceScope(date, a.service) = scope
      /\ (at \div Second) - (date[1] - 1000) \in 0..Skew
  <2> HIDE DEF signer, given, sent, fields, digest, path, query
  <2>1. /\ ServiceScope(AmzDate(at), a.service) = Scope(at, Signer(a.service))
        /\ (at \div Second) - (AmzDate(at)[1] - 1000) \in 0..Skew
    BY ScopeSigned
  <2> QED
    BY <2>1 DEF date, scope, signer
<1>6. Visible(date) /\ Visible(digest) /\ (Account.token # <<>> => Visible(Account.token))
  BY StampsVisible
<1> HIDE DEF signer, given, sent, date, digest, scope, path, query
<1>7. /\ DOMAIN fields = DOMAIN given /\ sent.signed = DOMAIN given
      /\ \A n \in DOMAIN given : Visible(given[n]) => fields[n] = given[n]
  BY <1>1, <1>2, HeaderValue
<1>8. fields = [n \in DOMAIN fields |-> fields[n]]
  BY DEF NormalizedHeaders
<1> HIDE DEF fields
<1>9. /\ {Host, Date, Digest} \subseteq DOMAIN fields
      /\ fields[Host] = sent.authority /\ fields[Date] = date /\ fields[Digest] = digest
      /\ Account.token # <<>> => Token \in DOMAIN fields /\ fields[Token] = Account.token
  BY <1>1, <1>2, <1>6, <1>7, Zenon DEF StampedShape
<1>10. Covers(sent.signed, fields)
  BY <1>7, <1>9 DEF Covers
<1>11. [n \in sent.signed |-> fields[n]] = fields
  BY <1>7, <1>8, Zenon
<1>12. sent.signature =
         Signature(Account.secret, date, ServiceScope(date, a.service), sent.verb, ServicePath(sent.path),
           ServiceQuery(sent.query), [n \in sent.signed |-> fields[n]], PayloadHash(sent.body))
  BY <1>2, <1>3, <1>4, <1>5, <1>11, Zenon DEF digest
<1>13. NormalizedHeaders(sent.fields) = fields
  BY <1>1 DEF fields
<1>14. /\ {Host, Date, Digest} \subseteq DOMAIN fields
       /\ fields[Digest] = PayloadHash(sent.body)
       /\ Account.token # <<>> => Token \in DOMAIN fields /\ fields[Token] = Account.token
       /\ sent.credential = Account.id \o <<Slash>> \o ServiceScope(date, a.service)
  BY <1>2, <1>5, <1>9 DEF digest
<1>15. Accepts(a.service, sent, at)
  BY <1>5, <1>9, <1>10, <1>12, <1>13, <1>14, AcceptedWhen, ZenonT(40)
<1> QED
  BY <1>15 DEF sent

\* Every attempt whose request libcurl sends as it is.
VerifiesIfSendable ==
  \A c \in Caller :
    /\ pc[c] = "wait" /\ wire[c].at = now
    /\ Sendable(client.endpoints[Rotation(attempt[c])], asked[c])
    => Accepts(asked[c].service, wire[c].request, now)

LEMMA Verifies == TypeOK /\ LoopInvariant /\ WireInv => VerifiesIfSendable
<1> SUFFICES ASSUME TypeOK, LoopInvariant, WireInv, NEW c \in Caller, pc[c] = "wait", wire[c].at = now,
                    Sendable(client.endpoints[Rotation(attempt[c])], asked[c])
             PROVE  Accepts(asked[c].service, wire[c].request, now)
  BY DEF VerifiesIfSendable
<1>1. /\ client.endpoints[Rotation(attempt[c])] \in Endpoint
      /\ asked[c] \in Asked
      /\ wire[c].request = SentAs(asked[c], client.endpoints[Rotation(attempt[c])], wire[c].at)
  BY WaitingSent
<1>2. now \in Nat /\ client.signs
  BY DEF WireInv, Fresh
<1>3. Accepts(asked[c].service, SentAs(asked[c], client.endpoints[Rotation(attempt[c])], now), now)
  BY <1>1, <1>2, AttemptAccepted, Zenon
<1> QED
  BY <1>1, <1>3, Zenon

\* Whatever endpoint an attempt goes to, and whatever came of the attempts before
\* it, the service there accepts it in the second it is sent: the signature is for
\* that endpoint, that time and those bytes, which the service decodes and encodes
\* in its own way, if libcurl sends the request as it was signed.
THEOREM AttemptsVerify == SignedSpec => []VerifiesIfSendable
<1>1. Spec => []LoopInvariant
  BY InvariantsHold, PTL
<1> QED
  BY <1>1, Verifies, SignedImplementsLoop, SignedTypeCorrect, WireHolds, PTL

\* Where libcurl sends every call as it was signed, every attempt of every call
\* is accepted.
THEOREM EveryAttemptAccepted ==
  ASSUME \A e \in Endpoint, a \in Asked : Sendable(e, a)
  PROVE  SignedSpec => []EveryAttemptVerifies
<1>1. TypeOK /\ LoopInvariant /\ WireInv => EveryAttemptVerifies
  BY Verifies, WaitingSent, Zenon DEF VerifiesIfSendable, EveryAttemptVerifies
<1>2. Spec => []LoopInvariant
  BY InvariantsHold, PTL
<1> QED
  BY <1>1, <1>2, SignedImplementsLoop, SignedTypeCorrect, WireHolds, PTL
=============================================================================

----------------------------- MODULE CallContract -----------------------------
(***************************************************************************)
(* What a request method of the SDK promises its caller, whatever pool,    *)
(* rotation or client is underneath: how often the request may be put on   *)
(* the wire under the call's routing options, what the answer is, and that *)
(* there is one.                                                           *)
(***************************************************************************)
EXTENDS Integers

CONSTANTS
  Caller,      (* concurrent callers, one outstanding call each             *)
  Option,      (* the call_options a call may be made with                  *)
  Budget,      (* Budget[o]: how many attempts o allows                     *)
  ReplaySafe,  (* the options under which a sent request may be sent again  *)
  Retryable,   (* outcomes of a request that allow another attempt          *)
  Final,       (* outcomes that do not                                      *)
  LocalError,  (* errors found before anything is sent                      *)
  Nothing      (* no outcome, no answer                                     *)

VARIABLES
  phase,       (* what the call is doing                                    *)
  option,      (* its options                                               *)
  sends,       (* how often its request was put on the wire                 *)
  heard,       (* outcome of the latest send                                *)
  answer       (* what the call returned                                    *)

vars == <<phase, option, sends, heard, answer>>

Outcome == Retryable \cup Final

Init ==
  /\ phase = [c \in Caller |-> "idle"]
  /\ option \in [Caller -> Option]
  /\ sends = [c \in Caller |-> 0]
  /\ heard = [c \in Caller |-> Nothing]
  /\ answer = [c \in Caller |-> Nothing]

Open(c, o) ==
  /\ phase[c] \in {"idle", "closed"}
  /\ phase' = [phase EXCEPT ![c] = "open"]
  /\ option' = [option EXCEPT ![c] = o]
  /\ sends' = [sends EXCEPT ![c] = 0]
  /\ heard' = [heard EXCEPT ![c] = Nothing]
  /\ answer' = [answer EXCEPT ![c] = Nothing]

\* The first send is free; another one needs a retryable outcome, replay-safe
\* options and an attempt left.
MaySend(c) ==
  \/ sends[c] = 0
  \/ /\ heard[c] \in Retryable
     /\ option[c] \in ReplaySafe
     /\ sends[c] < Budget[option[c]]

Try(c) ==
  /\ phase[c] = "open"
  /\ MaySend(c)
  /\ phase' = [phase EXCEPT ![c] = "trying"]
  /\ sends' = [sends EXCEPT ![c] = @ + 1]
  /\ heard' = [heard EXCEPT ![c] = Nothing]
  /\ UNCHANGED <<option, answer>>

Hear(c, outcome) ==
  /\ phase[c] = "trying"
  /\ phase' = [phase EXCEPT ![c] = "open"]
  /\ heard' = [heard EXCEPT ![c] = outcome]
  /\ UNCHANGED <<option, sends, answer>>

\* A call that never sent answers with a local error.  One that did answers
\* with the outcome of its LAST send, and gives up on a retryable outcome only
\* when it may not send again.
Close(c) ==
  /\ phase[c] = "open"
  /\ \/ /\ sends[c] = 0
        /\ \E e \in LocalError : answer' = [answer EXCEPT ![c] = e]
     \/ /\ sends[c] > 0
        /\ ~MaySend(c)
        /\ answer' = [answer EXCEPT ![c] = heard[c]]
  /\ phase' = [phase EXCEPT ![c] = "closed"]
  /\ UNCHANGED <<option, sends, heard>>

Next ==
  \E c \in Caller :
    \/ \E o \in Option : Open(c, o)
    \/ Try(c)
    \/ \E outcome \in Outcome : Hear(c, outcome)
    \/ Close(c)

Safety == Init /\ [][Next]_vars

\* A call that was opened is closed in the end.
Returns == \A c \in Caller : phase[c] = "open" ~> phase[c] = "closed"

Spec == Safety /\ Returns
=============================================================================

---------------------------- MODULE SharedOwnership ----------------------------
(***************************************************************************)
(* What shared ownership of an object promises: the object exists as long  *)
(* as somebody has a claim to it, and is freed, once, after the last claim *)
(* is given up.  Nothing is said of how claims are counted.                *)
(***************************************************************************)
CONSTANTS
  Object,      (* objects that may be created                               *)
  Claimant     (* who may have a claim                                      *)

VARIABLES
  life,        (* unborn, alive or deleted                                  *)
  claims       (* claims[o]: who has a claim to o                           *)

vars == <<life, claims>>

Init ==
  /\ life = [o \in Object |-> "unborn"]
  /\ claims = [o \in Object |-> {}]

Create(o, c) ==
  /\ life[o] = "unborn"
  /\ life' = [life EXCEPT ![o] = "alive"]
  /\ claims' = [claims EXCEPT ![o] = {c}]

\* A claim can only be shared by somebody who has one.
Share(o, c) ==
  /\ claims[o] # {}
  /\ claims' = [claims EXCEPT ![o] = @ \cup {c}]
  /\ UNCHANGED life

GiveUp(o, c) ==
  /\ c \in claims[o]
  /\ claims' = [claims EXCEPT ![o] = @ \ {c}]
  /\ UNCHANGED life

Transfer(o, c, d) ==
  /\ c \in claims[o]
  /\ d \notin claims[o]
  /\ claims' = [claims EXCEPT ![o] = (@ \ {c}) \cup {d}]
  /\ UNCHANGED life

Free(o) ==
  /\ life[o] = "alive"
  /\ claims[o] = {}
  /\ life' = [life EXCEPT ![o] = "deleted"]
  /\ UNCHANGED claims

Next ==
  \E o \in Object :
    \/ \E c \in Claimant : Create(o, c) \/ Share(o, c) \/ GiveUp(o, c)
    \/ \E c, d \in Claimant : Transfer(o, c, d)
    \/ Free(o)

Safety == Init /\ [][Next]_vars

\* An object without claims is freed in the end.
Freed == \A o \in Object : WF_vars(Free(o))

Spec == Safety /\ Freed
=============================================================================

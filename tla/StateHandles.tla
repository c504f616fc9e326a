----------------------------- MODULE StateHandles -----------------------------
(***************************************************************************)
(* The handles of the facade (sdk_facade.cpp): sdk and its api objects     *)
(* share one sdk_state through an intrusive atomic reference count.  All   *)
(* handle classes have the same members (QL_DEFINE_STATE_LIFETIME and the  *)
(* ones written out for sdk), and sdk::hypersnap() and its kin construct a *)
(* handle from the state_ of another one, as a copy constructor does.      *)
(*                                                                         *)
(* Threads work on handles at the same time.  fetch_add, fetch_sub and     *)
(* delete are steps of their own.  The language forbids two threads to     *)
(* touch one handle OBJECT when one of them writes it; that is the guard   *)
(* of the Begin actions (CanRead, CanWrite), and the only restriction.     *)
(***************************************************************************)
EXTENDS Integers, FiniteSets

CONSTANTS
  State,       (* the sdk_states that connect may allocate                  *)
  Handle,      (* storage in which a handle object may be constructed       *)
  Thread,      (* threads                                                   *)
  Null,        (* state_ == nullptr                                         *)
  NoObject     (* no handle object is alive in this storage                 *)

ASSUME FiniteAssumption == IsFiniteSet(Handle) /\ IsFiniteSet(Thread)
ASSUME DistinctAssumption ==
  /\ Handle \cap Thread = {}
  /\ Null \notin State \cup Handle
  /\ NoObject \notin State \cup {Null}

VARIABLES
  life,        (* of each state: unborn, alive, deleted                     *)
  refs,        (* sdk_state::refs                                           *)
  held,        (* the state_ of each handle                                 *)
  pc,          (* where a thread is inside a member function                *)
  kind,        (* which member function                                     *)
  dst,         (* *this, for a member that writes it                        *)
  src          (* other, or the handle a call is made on                    *)

vars == <<life, refs, held, pc, kind, dst, src>>

-----------------------------------------------------------------------------
Reads == {"copy", "copy_assign", "use"}

Writing(h) ==
  \E t \in Thread :
    /\ pc[t] # "idle"
    /\ dst[t] = h \/ (src[t] = h /\ kind[t] = "move_assign")

Reading(h) ==
  \E t \in Thread : pc[t] # "idle" /\ src[t] = h /\ kind[t] \in Reads

\* What the language asks of the program that uses the handles.
CanRead(h) == held[h] # NoObject /\ ~Writing(h)
CanWrite(h) == ~Writing(h) /\ ~Reading(h)

Enter(t, member, label, d, s) ==
  /\ pc[t] = "idle"
  /\ pc' = [pc EXCEPT ![t] = label]
  /\ kind' = [kind EXCEPT ![t] = member]
  /\ dst' = [dst EXCEPT ![t] = d]
  /\ src' = [src EXCEPT ![t] = s]

Goto(t, label) ==
  /\ pc' = [pc EXCEPT ![t] = label]
  /\ UNCHANGED <<kind, dst, src>>

Leave(t) ==
  /\ pc' = [pc EXCEPT ![t] = "idle"]
  /\ kind' = [kind EXCEPT ![t] = "use"]
  /\ dst' = [dst EXCEPT ![t] = Null]
  /\ src' = [src EXCEPT ![t] = Null]

-----------------------------------------------------------------------------
Init ==
  /\ life = [s \in State |-> "unborn"]
  /\ refs = [s \in State |-> 0]
  /\ held = [h \in Handle |-> NoObject]
  /\ pc = [t \in Thread |-> "idle"]
  /\ kind = [t \in Thread |-> "use"]
  /\ dst = [t \in Thread |-> Null]
  /\ src = [t \in Thread |-> Null]

\* connect(): new sdk_state, refs{1}, handed out in an sdk.
Connect(t, d) ==
  /\ pc[t] = "idle"
  /\ held[d] = NoObject
  /\ CanWrite(d)
  /\ \E s \in State :
       /\ life[s] = "unborn"
       /\ life' = [life EXCEPT ![s] = "alive"]
       /\ refs' = [refs EXCEPT ![s] = 1]
       /\ held' = [held EXCEPT ![d] = s]
  /\ UNCHANGED <<pc, kind, dst, src>>

DefaultConstruct(t, d) ==
  /\ pc[t] = "idle"
  /\ held[d] = NoObject
  /\ CanWrite(d)
  /\ held' = [held EXCEPT ![d] = Null]
  /\ UNCHANGED <<life, refs, pc, kind, dst, src>>

\* Type(const Type&) and Type(void*): state_ is copied first, then retained.
CopyConstruct(t, d, s) ==
  /\ held[d] = NoObject
  /\ CanWrite(d)
  /\ CanRead(s)
  /\ Enter(t, "copy", "retain", d, s)
  /\ held' = [held EXCEPT ![d] = held[s]]
  /\ UNCHANGED <<life, refs>>

\* operator=(const Type&), which does nothing for x = x.
CopyAssign(t, d, s) ==
  /\ d # s
  /\ held[d] # NoObject
  /\ CanWrite(d)
  /\ CanRead(s)
  /\ Enter(t, "copy_assign", "retain", d, s)
  /\ UNCHANGED <<life, refs, held>>

\* Type(Type&&): one std::exchange.
MoveConstruct(t, d, s) ==
  /\ pc[t] = "idle"
  /\ held[d] = NoObject
  /\ held[s] # NoObject
  /\ CanWrite(d)
  /\ CanWrite(s)
  /\ held' = [held EXCEPT ![d] = held[s], ![s] = Null]
  /\ UNCHANGED <<life, refs, pc, kind, dst, src>>

\* Mutant of MoveAssign: without if(this!=&other).
MoveAssignUnguarded(t, d, s) ==
  /\ held[d] # NoObject
  /\ held[s] # NoObject
  /\ CanWrite(d)
  /\ CanWrite(s)
  /\ Enter(t, "move_assign", "release", d, s)
  /\ UNCHANGED <<life, refs, held>>

\* operator=(Type&&), which does nothing for x = std::move(x).
MoveAssign(t, d, s) ==
  /\ d # s
  /\ held[d] # NoObject
  /\ held[s] # NoObject
  /\ CanWrite(d)
  /\ CanWrite(s)
  /\ Enter(t, "move_assign", "release", d, s)
  /\ UNCHANGED <<life, refs, held>>

Destroy(t, d) ==
  /\ held[d] # NoObject
  /\ CanWrite(d)
  /\ Enter(t, "destroy", "release", d, Null)
  /\ UNCHANGED <<life, refs, held>>

\* A call on a handle reads the state it points to until it returns.
Use(t, s) ==
  /\ CanRead(s)
  /\ held[s] # Null
  /\ Enter(t, "use", "use", Null, s)
  /\ UNCHANGED <<life, refs, held>>

UseEnds(t) ==
  /\ pc[t] = "use"
  /\ Leave(t)
  /\ UNCHANGED <<life, refs, held>>

-----------------------------------------------------------------------------
AfterRetain(t) == IF kind[t] = "copy" THEN Leave(t) ELSE Goto(t, "release")

\* Mutant of Retain: an empty handle's assignment is not counted.
RetainOnlyConstructed(t) ==
  /\ pc[t] = "retain"
  /\ IF held[src[t]] = Null \/ held[dst[t]] = Null
       THEN UNCHANGED refs
       ELSE refs' = [refs EXCEPT ![held[src[t]]] = @ + 1]
  /\ AfterRetain(t)
  /\ UNCHANGED <<life, held>>

\* retain_state: fetch_add, nothing for a null pointer.
Retain(t) ==
  /\ pc[t] = "retain"
  /\ IF held[src[t]] = Null
       THEN UNCHANGED refs
       ELSE refs' = [refs EXCEPT ![held[src[t]]] = @ + 1]
  /\ AfterRetain(t)
  /\ UNCHANGED <<life, held>>

\* Mutant of Release: the count after the subtraction is compared with 1.
ReleaseEarly(t) ==
  /\ pc[t] = "release"
  /\ IF held[dst[t]] = Null
       THEN Goto(t, "finish") /\ UNCHANGED refs
       ELSE /\ refs' = [refs EXCEPT ![held[dst[t]]] = @ - 1]
            /\ Goto(t, IF refs'[held[dst[t]]] = 1 THEN "delete" ELSE "finish")
  /\ UNCHANGED <<life, held>>

\* release_state up to the decision: fetch_sub, and whether it returned 1.
Release(t) ==
  /\ pc[t] = "release"
  /\ IF held[dst[t]] = Null
       THEN Goto(t, "finish") /\ UNCHANGED refs
       ELSE /\ refs' = [refs EXCEPT ![held[dst[t]]] = @ - 1]
            /\ Goto(t, IF refs[held[dst[t]]] = 1 THEN "delete" ELSE "finish")
  /\ UNCHANGED <<life, held>>

\* delete state.
Delete(t) ==
  /\ pc[t] = "delete"
  /\ life' = [life EXCEPT ![held[dst[t]]] = "deleted"]
  /\ Goto(t, "finish")
  /\ UNCHANGED <<refs, held>>

\* state_ gets its new value, or the object is gone.
Finish(t) ==
  /\ pc[t] = "finish"
  /\ \/ /\ kind[t] = "copy_assign"
        /\ held' = [held EXCEPT ![dst[t]] = held[src[t]]]
     \/ /\ kind[t] = "move_assign"
        /\ held' = [held EXCEPT ![src[t]] = Null, ![dst[t]] = held[src[t]]]
     \/ /\ kind[t] = "destroy"
        /\ held' = [held EXCEPT ![dst[t]] = NoObject]
  /\ Leave(t)
  /\ UNCHANGED <<life, refs>>

Step(t) == Retain(t) \/ Release(t) \/ Delete(t) \/ Finish(t)

Next ==
  \E t \in Thread :
    \/ Step(t) \/ UseEnds(t)
    \/ \E d \in Handle : Connect(t, d) \/ DefaultConstruct(t, d) \/ Destroy(t, d)
    \/ \E s \in Handle : Use(t, s)
    \/ \E d, s \in Handle :
         \/ CopyConstruct(t, d, s) \/ CopyAssign(t, d, s)
         \/ MoveConstruct(t, d, s) \/ MoveAssign(t, d, s)

\* A thread inside a member function goes on.
Spec == Init /\ [][Next]_vars /\ \A t \in Thread : WF_vars(Step(t))

-----------------------------------------------------------------------------
Label == {"idle", "use", "retain", "release", "delete", "finish"}
Kind == {"copy", "copy_assign", "move_assign", "destroy", "use"}

\* The type invariant: the reference count never goes below zero.
TypeOK ==
  /\ life \in [State -> {"unborn", "alive", "deleted"}]
  /\ refs \in [State -> Nat]
  /\ held \in [Handle -> State \cup {Null, NoObject}]
  /\ pc \in [Thread -> Label]
  /\ kind \in [Thread -> Kind]
  /\ dst \in [Thread -> Handle \cup {Null}]
  /\ src \in [Thread -> Handle \cup {Null}]

\* A handle whose pointer has no reference behind it: not retained yet, or
\* released already and about to be overwritten.
Uncounted(h) ==
  \E t \in Thread :
    /\ dst[t] = h
    /\ \/ pc[t] \in {"delete", "finish"}
       \/ pc[t] = "retain" /\ kind[t] = "copy"

\* The reference that a copy assignment has taken but not stored yet.
Carries(t, s) ==
  /\ kind[t] = "copy_assign"
  /\ pc[t] \in {"release", "delete", "finish"}
  /\ held[src[t]] = s

Claims(s) ==
  {h \in Handle : held[h] = s /\ ~Uncounted(h)} \cup {t \in Thread : Carries(t, s)}

\* The count is the number of references there are, in the middle of every
\* operation of every thread.
CountExact == \A s \in State : refs[s] = Cardinality(Claims(s))

\* No state is touched after it was deleted: not by a call, not by retain or
\* release, and delete itself comes once.
NoUseAfterFree ==
  \A t \in Thread :
    /\ pc[t] \in {"retain", "use"} /\ held[src[t]] # Null
         => life[held[src[t]]] = "alive"
    /\ pc[t] \in {"release", "delete"} /\ held[dst[t]] # Null
         => life[held[dst[t]]] = "alive"

\* The count implements shared ownership: a state is deleted once, after its
\* last reference is gone, and then it is deleted in the end.
Ownership == INSTANCE SharedOwnership WITH
  Object <- State,
  Claimant <- Handle \cup Thread,
  claims <- [s \in State |-> Claims(s)]

OwnsJointly == Ownership!Spec
=============================================================================

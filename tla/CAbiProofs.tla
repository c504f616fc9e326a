------------------------------ MODULE CAbiProofs ------------------------------
(***************************************************************************)
(* Proofs about the C ABI, for any number of threads and blocks: its type, *)
(* who owns the blocks of the heap, how long the state lives, when a       *)
(* ql_sdk can be used after its destruction, and that the endpoint of a    *)
(* configuration reads back from the URL that is opened.                   *)
(***************************************************************************)
EXTENDS CAbi, FiniteSetTheorems, WellFoundedInduction, SequenceTheorems, TLAPS

Label == {"idle", "entered", "refused", "loaded", "running", "answered", "returned", "raised",
          "closing", "destroyed"}
Out == [size : {0, 1}, data : Block \cup {Null}, message : Block \cup {Null}]

-----------------------------------------------------------------------------
(***************************************************************************)
(* What a thread has in its outputs at each label: nothing until the       *)
(* library fills them, and no body beside an error, which is why bindings  *)
(* that free only the error lose nothing.                                  *)
(***************************************************************************)
Discipline(t) ==
  /\ pc[t] \notin {"returned", "raised"} => out[t] = Zero
  /\ pc[t] \in {"returned", "raised"} /\ code[t] # 0 => out[t].data = Null /\ out[t].size = 0
  /\ pc[t] = "raised" => code[t] = -1
  /\ out[t].size > 0 => out[t].data # Null
  /\ handle = "unset" => pc[t] = "idle"

\* The pointers of a thread, each with a name, and the blocks they refer to.
Names == {"data", "message"}
Points(t, n) == IF n = "data" THEN out[t].data ELSE out[t].message

\* Every block has one pointer to it and every pointer a block.
Owned ==
  /\ \A t \in Thread, n \in Names : Points(t, n) # Null => Points(t, n) \in heap
  /\ \A t, u \in Thread : \A n, m \in Names :
       Points(t, n) # Null /\ Points(t, n) = Points(u, m) => t = u /\ n = m
  /\ \A b \in heap : \E t \in Thread, n \in Names : Points(t, n) = b

\* The count is the number of owners, and the state is alive while there are any.
Counted ==
  /\ refs = Cardinality(Owners)
  /\ handle = "unset" => life = "unborn" /\ sdk = "none"
  /\ Owners # {} => life = "alive"

IInv ==
  /\ CAbiTypeOK
  /\ \A t \in Thread : Discipline(t)
  /\ Owned
  /\ Counted

-----------------------------------------------------------------------------
(* The sets that are counted.                                              *)

LEMMA OwnersMembers ==
  /\ "sdk" \in Owners <=> sdk = "alive"
  /\ \A t \in Thread : t \in Owners <=> pc[t] = "running"
  /\ Owners \subseteq {"sdk"} \cup Thread
BY CAbiAssumption DEF Owners

LEMMA OwnersFinite == IsFiniteSet(Owners)
<1>1. IsFiniteSet({"sdk"} \cup Thread)
  BY FS_AddElement, CAbiAssumption
<1> QED
  BY <1>1, OwnersMembers, FS_Subset

LEMMA PointsType ==
  ASSUME CAbiTypeOK, NEW t \in Thread
  PROVE  /\ out[t] \in Out
         /\ \A n \in Names : Points(t, n) \in Block \cup {Null} /\ Points(t, n) = out[t][n]
<1>1. out[t] \in Out
  BY DEF CAbiTypeOK, Out
<1>2. out[t].data = out[t]["data"] /\ out[t].message = out[t]["message"]
  OBVIOUS
<1> QED
  BY <1>1, <1>2 DEF Out, Names, Points

-----------------------------------------------------------------------------
(* Initial states.                                                         *)

LEMMA InitIInv == CAbiInit => IInv
<1> SUFFICES ASSUME CAbiInit PROVE IInv
  OBVIOUS
<1>1. CAbiTypeOK
  BY DEF CAbiInit, CAbiTypeOK, Zero
<1>2. Owned /\ \A t \in Thread : Discipline(t)
  BY DEF CAbiInit, Owned, Points, Discipline, Zero
<1>3. Owners = {}
  BY OwnersMembers DEF CAbiInit
<1>4. Counted
  BY <1>3, FS_EmptySet DEF CAbiInit, Counted
<1> QED
  BY <1>1, <1>2, <1>4 DEF IInv

-----------------------------------------------------------------------------
(***************************************************************************)
(* Steps that leave the heap and every pointer alone.                      *)
(***************************************************************************)
LEMMA OwnedStays ==
  ASSUME Owned, heap' = heap, \A t \in Thread, n \in Names : Points(t, n)' = Points(t, n)
  PROVE  Owned'
BY DEF Owned

LEMMA CountedStays ==
  ASSUME Counted, UNCHANGED <<handle, sdk, life, refs>>,
         \A t \in Thread : pc'[t] = "running" <=> pc[t] = "running"
  PROVE  Counted'
<1>1. Owners' = Owners
  BY DEF Owners
<1> QED
  BY <1>1 DEF Counted

\* A block is allocated, or not, for a pointer that was null.
LEMMA OwnedGrows ==
  ASSUME CAbiTypeOK, CAbiTypeOK', Owned, NEW t \in Thread, NEW n \in Names, NEW block \in Malloc,
         Points(t, n) = Null, Points(t, n)' = block, Allocated(block),
         \A u \in Thread, m \in Names : u # t \/ m # n => Points(u, m)' = Points(u, m)
  PROVE  Owned'
<1>1. block = Null \/ block \in Block \ heap
  BY DEF Malloc
<1>2. heap' = IF block = Null THEN heap ELSE heap \cup {block}
  BY DEF Allocated
<1>3. \A u \in Thread, m \in Names : Points(u, m)' # Null => Points(u, m)' \in heap'
  BY <1>1, <1>2 DEF Owned
<1>4. ASSUME NEW u \in Thread, NEW v \in Thread, NEW m \in Names, NEW l \in Names,
             Points(u, m)' # Null, Points(u, m)' = Points(v, l)'
      PROVE  u = v /\ m = l
  BY <1>1, <1>2, <1>4 DEF Owned
<1>5. ASSUME NEW b \in heap'
      PROVE  \E u \in Thread, m \in Names : Points(u, m)' = b
  <2>1. CASE b \in heap
    <3>1. PICK u \in Thread, m \in Names : Points(u, m) = b
      BY <2>1 DEF Owned
    <3>2. b # Null
      BY <2>1, CAbiAssumption DEF CAbiTypeOK
    <3> QED
      BY <3>1, <3>2
  <2>2. CASE b \notin heap
    BY <1>2, <1>5, <2>2
  <2> QED
    BY <2>1, <2>2
<1> QED
  BY <1>3, <1>4, <1>5 DEF Owned

\* The pointers of one thread that are cleared, and their blocks freed.
LEMMA OwnedShrinks ==
  ASSUME CAbiTypeOK, Owned, NEW t \in Thread, NEW cleared \in SUBSET Names,
         heap' = heap \ {Points(t, n) : n \in cleared},
         \A n \in cleared : Points(t, n)' = Null,
         \A u \in Thread, m \in Names : u # t \/ m \notin cleared => Points(u, m)' = Points(u, m)
  PROVE  Owned'
<1>1. ASSUME NEW u \in Thread, NEW m \in Names, Points(u, m)' # Null
      PROVE  Points(u, m)' \in heap'
  <2>1. Points(u, m)' = Points(u, m) /\ (u # t \/ m \notin cleared)
    BY <1>1
  <2>2. \A n \in cleared : Points(t, n) # Points(u, m)
    BY <1>1, <2>1 DEF Owned
  <2> QED
    BY <1>1, <2>1, <2>2 DEF Owned
<1>2. ASSUME NEW u \in Thread, NEW v \in Thread, NEW m \in Names, NEW l \in Names,
             Points(u, m)' # Null, Points(u, m)' = Points(v, l)'
      PROVE  u = v /\ m = l
  <2>1. Points(u, m)' = Points(u, m) /\ Points(v, l)' = Points(v, l)
    BY <1>2
  <2>2. Points(u, m) # Null /\ Points(u, m) = Points(v, l)
    BY <1>2, <2>1
  <2> QED
    BY <2>2 DEF Owned
<1>3. ASSUME NEW b \in heap'
      PROVE  \E u \in Thread, m \in Names : Points(u, m)' = b
  <2>1. PICK u \in Thread, m \in Names : Points(u, m) = b
    BY <1>3 DEF Owned
  <2>2. u # t \/ m \notin cleared
    BY <1>3, <2>1
  <2> QED
    BY <2>1, <2>2
<1> QED
  BY <1>1, <1>2, <1>3 DEF Owned

-----------------------------------------------------------------------------
(***************************************************************************)
(* The owners, action by action.                                           *)
(***************************************************************************)
LEMMA CreateCounts ==
  ASSUME IInv, NEW t \in Thread, Create(t)
  PROVE  Counted' /\ Owners' = {"sdk"} /\ life = "unborn"
<1>1. \A u \in Thread : pc'[u] # "running"
  BY DEF IInv, Discipline, Create
<1>2. Owners' = {"sdk"}
  BY <1>1 DEF Owners, Create
<1> QED
  BY <1>2, FS_Singleton DEF Counted, Create, IInv

LEMMA BorrowCounts ==
  ASSUME IInv, NEW t \in Thread, Borrow(t)
  PROVE  Counted' /\ Owners' = Owners \cup {t} /\ Owners # {}
<1>1. handle # "unset"
  BY DEF IInv, Discipline, Borrow, Step
<1>2. Owners # {} /\ t \notin Owners
  BY FS_EmptySet, CAbiAssumption DEF Owners, Borrow, Step, IInv, Counted
<1>3. Owners' = Owners \cup {t}
  BY DEF Owners, Borrow, Step, IInv, CAbiTypeOK, object
<1>4. refs' = Cardinality(Owners')
  BY <1>2, <1>3, OwnersFinite, FS_AddElement DEF Borrow, IInv, Counted
<1> QED
  BY <1>1, <1>2, <1>3, <1>4 DEF Borrow, IInv, Counted, object

LEMMA DropCounts ==
  ASSUME IInv, NEW t \in Thread, Drop(t)
  PROVE  Counted' /\ t \in Owners /\ Owners' = Owners \ {t}
<1>1. t \in Owners
  BY DEF Owners, Drop, Step
<1>2. Owners' = Owners \ {t}
  BY CAbiAssumption DEF Owners, Drop, Step, IInv, CAbiTypeOK, object
<1>3. refs' = Cardinality(Owners')
  BY <1>1, <1>2, OwnersFinite, FS_RemoveElement DEF Drop, IInv, Counted
<1> QED
  BY <1>1, <1>2, <1>3 DEF Drop, IInv, Counted, object

LEMMA DestroyCounts ==
  ASSUME IInv, NEW t \in Thread, Destroy(t)
  PROVE  Counted' /\ "sdk" \in Owners /\ Owners' = Owners \ {"sdk"}
<1>1. "sdk" \in Owners
  BY DEF Owners, Destroy
<1>2. Owners' = Owners \ {"sdk"}
  BY CAbiAssumption DEF Owners, Destroy, Step, IInv, CAbiTypeOK
<1>3. refs' = Cardinality(Owners')
  BY <1>1, <1>2, OwnersFinite, FS_RemoveElement DEF Destroy, IInv, Counted
<1> QED
  BY <1>1, <1>2, <1>3 DEF Destroy, IInv, Counted

\* A close that begins, a handle that is cleared, a misuse: no owner comes or goes.
LEMMA CloseCounts ==
  ASSUME IInv, NEW t \in Thread, BeginClose(t) \/ Finalize(t) \/ Clear(t) \/ Misuse(t)
  PROVE  Counted' /\ Owners' = Owners /\ life' = life
<1>1. /\ life' = life /\ refs' = refs
      /\ sdk' = "alive" <=> sdk = "alive"
      /\ \A u \in Thread : pc'[u] = "running" <=> pc[u] = "running"
  BY DEF BeginClose, Finalize, Clear, Misuse, Step, object, memory, IInv, CAbiTypeOK
<1>2. Owners' = Owners
  BY <1>1 DEF Owners
<1>3. handle' # "unset"
  BY DEF BeginClose, Finalize, Clear, Misuse, Step, object, IInv, Discipline, Counted
<1> QED
  BY <1>1, <1>2, <1>3 DEF IInv, Counted

LEMMA DeleteCounts ==
  ASSUME IInv, DeleteState
  PROVE  Counted' /\ Owners = {} /\ Owners' = {}
<1>1. Owners = {}
  BY OwnersFinite, FS_EmptySet DEF DeleteState, IInv, Counted
<1>2. Owners' = Owners
  BY DEF DeleteState, Owners, object
<1> QED
  BY <1>1, <1>2 DEF DeleteState, IInv, Counted, object

-----------------------------------------------------------------------------
(***************************************************************************)
(* Every step keeps the invariant.                                         *)
(***************************************************************************)
LEMMA RefsType ==
  ASSUME Counted'
  PROVE  refs' \in Nat
<1>1. IsFiniteSet({"sdk"} \cup Thread)
  BY FS_AddElement, CAbiAssumption
<1>2. Owners' \subseteq {"sdk"} \cup Thread
  BY DEF Owners
<1> QED
  BY <1>1, <1>2, FS_Subset, FS_CardinalityType DEF Counted

\* The types of a step, given what it does to the count and to the outputs.
LEMMA StepType ==
  ASSUME CAbiTypeOK, Counted', language' = language,
         handle' \in {"unset", "open", "null", "lost"},
         sdk' \in {"none", "alive", "deleted", "misused"}, raced' \in BOOLEAN,
         life' \in {"unborn", "alive", "deleted"},
         heap' \subseteq Block, NEW t, NEW label \in Label, NEW value \in {0, -1}, NEW o \in Out,
         pc' = [pc EXCEPT ![t] = label] \/ pc' = pc,
         code' = [code EXCEPT ![t] = value] \/ code' = code,
         out' = [out EXCEPT ![t] = o] \/ out' = out
  PROVE  CAbiTypeOK'
<1>1. refs' \in Nat
  BY RefsType
<1>2. pc' \in [Thread -> Label] /\ code' \in [Thread -> {0, -1}] /\ out' \in [Thread -> Out]
  BY DEF CAbiTypeOK, Label, Out
<1> QED
  BY <1>1, <1>2 DEF CAbiTypeOK, Label, Out

LEMMA AllocatedType ==
  ASSUME CAbiTypeOK, NEW block \in Malloc, Allocated(block)
  PROVE  heap' \subseteq Block /\ block \in Block \cup {Null}
BY DEF CAbiTypeOK, Malloc, Allocated

LEMMA ZeroType == Zero \in Out
BY DEF Zero, Out

LEMMA ZeroFilled ==
  ASSUME NEW s, NEW b
  PROVE  [[Zero EXCEPT !.size = s] EXCEPT !.data = b] = [size |-> s, data |-> b, message |-> Null]
<1>1. [Zero EXCEPT !.size = s] = [size |-> s, data |-> Null, message |-> Null]
  BY DEF Zero
<1>2. [[size |-> s, data |-> Null, message |-> Null] EXCEPT !.data = b]
        = [size |-> s, data |-> b, message |-> Null]
  OBVIOUS
<1> QED
  BY <1>1, <1>2

\* What freeing leaves of a thread's outputs.
LEMMA Emptied ==
  ASSUME NEW o \in Out
  PROVE  /\ ErrorFreed(ResponseFreed(o)) = Zero
         /\ o.data = Null /\ o.size = 0 => ErrorFreed(o) = Zero
<1>1. ResponseFreed(o) = [size |-> 0, data |-> Null, message |-> o.message]
  <2>1. [o EXCEPT !.size = 0] = [size |-> 0, data |-> o.data, message |-> o.message]
    BY DEF Out
  <2>2. [[size |-> 0, data |-> o.data, message |-> o.message] EXCEPT !.data = Null]
          = [size |-> 0, data |-> Null, message |-> o.message]
    OBVIOUS
  <2>3. ResponseFreed(o) = [[o EXCEPT !.size = 0] EXCEPT !.data = Null]
    BY DEF ResponseFreed, Out
  <2> QED
    BY <2>1, <2>2, <2>3
<1>2. ErrorFreed([size |-> 0, data |-> Null, message |-> o.message]) = Zero
  BY DEF ErrorFreed, Zero
<1>3. ASSUME o.data = Null, o.size = 0
      PROVE  ErrorFreed(o) = Zero
  BY <1>3 DEF ErrorFreed, Zero, Out
<1> QED
  BY <1>1, <1>2, <1>3

\* A thread that does nothing.
LEMMA DisciplineStays ==
  ASSUME NEW u \in Thread, Discipline(u),
         pc'[u] = pc[u], out'[u] = out[u], code'[u] = code[u],
         handle' = handle \/ handle' # "unset"
  PROVE  Discipline(u)'
BY DEF Discipline, Zero

LEMMA CreateKeeps == ASSUME IInv, NEW t \in Thread, Create(t) PROVE IInv'
<1>1. Counted'
  BY CreateCounts
<1>2. CAbiTypeOK'
  BY <1>1, RefsType DEF Create, memory, IInv, CAbiTypeOK
<1>3. \A u \in Thread : Discipline(u)'
  BY DisciplineStays DEF Create, memory, IInv, Discipline
<1>4. Owned'
  BY OwnedStays DEF Create, memory, IInv, Points
<1> QED
  BY <1>1, <1>2, <1>3, <1>4 DEF IInv

LEMMA CreateFailsKeeps == ASSUME IInv, NEW t \in Thread, CreateFails(t) PROVE IInv'
<1> USE DEF Step
<1>1. PICK block \in Malloc :
        Allocated(block) /\ out' = [out EXCEPT ![t] = [Zero EXCEPT !.message = block]]
  BY DEF CreateFails
<1> DEFINE o == [Zero EXCEPT !.message = block]
<1>2. /\ pc' = [pc EXCEPT ![t] = "raised"] /\ code' = [code EXCEPT ![t] = -1]
      /\ handle = "unset" /\ handle' = "null" /\ pc[t] = "idle"
      /\ UNCHANGED <<language, sdk, life, refs, raced>>
  BY DEF CreateFails
<1>3. o \in Out /\ heap' \subseteq Block
  BY <1>1, AllocatedType DEF Zero, Out, IInv
<1>4. Owners = {} /\ Owners' = {}
  <2>1. \A u \in Thread : pc[u] = "idle" /\ pc'[u] # "running"
    BY <1>2 DEF IInv, Discipline, CAbiTypeOK
  <2> QED
    BY <1>2, <2>1 DEF Owners, IInv, Counted
<1>5. Counted'
  BY <1>2, <1>4 DEF IInv, Counted
<1>6. CAbiTypeOK'
  BY <1>1, <1>2, <1>3, <1>5, StepType DEF IInv, CAbiTypeOK, Label
<1>7. ASSUME NEW u \in Thread PROVE Discipline(u)'
  <2>1. CASE u = t
    BY <1>1, <1>2, <2>1 DEF Discipline, Zero, IInv, CAbiTypeOK
  <2>2. CASE u # t
    <3>1. Discipline(u)
      BY <1>2 DEF IInv, Discipline
    <3> QED
      BY <1>1, <1>2, <2>2, <3>1, DisciplineStays DEF IInv, CAbiTypeOK
  <2> QED
    BY <2>1, <2>2
<1>8. Owned'
  <2>1. out[t] = Zero
    BY <1>2 DEF IInv, Discipline
  <2>2. /\ Points(t, "message") = Null /\ Points(t, "message")' = block
        /\ \A u \in Thread, m \in Names : u # t \/ m # "message" => Points(u, m)' = Points(u, m)
    BY <1>1, <2>1 DEF Points, Names, Zero, IInv, CAbiTypeOK
  <2> QED
    BY <1>1, <1>6, <2>2, OwnedGrows DEF IInv, Names
<1> QED
  BY <1>5, <1>6, <1>7, <1>8 DEF IInv

\* A body is empty, or copied if there is a block for it.
LEMMA SetResponseKeeps == ASSUME IInv, NEW t \in Thread, SetResponse(t) PROVE IInv'
<1> USE DEF Step
<1>1. PICK size \in {0, 1}, block \in Malloc :
        /\ Allocated(block)
        /\ out' = [out EXCEPT ![t].size = IF block = Null THEN 0 ELSE size, ![t].data = block]
        /\ size = 0 => block = Null
  BY DEF SetResponse, Malloc
<1>2. /\ pc[t] = "answered" /\ pc' = [pc EXCEPT ![t] = "returned"]
      /\ code' = [code EXCEPT ![t] = 0]
      /\ UNCHANGED <<language, handle, sdk, life, refs, raced>>
  BY DEF SetResponse, object
<1>3. out[t] = Zero
  BY <1>2 DEF IInv, Discipline
<1> DEFINE o == [size |-> IF block = Null THEN 0 ELSE size, data |-> block, message |-> Null]
<1>4. out' = [out EXCEPT ![t] = o]
  <2>1. [[Zero EXCEPT !.size = IF block = Null THEN 0 ELSE size] EXCEPT !.data = block] = o
    BY ZeroFilled
  <2>2. out' = [out EXCEPT ![t] = [[out[t] EXCEPT !.size = IF block = Null THEN 0 ELSE size]
                                     EXCEPT !.data = block]]
    BY <1>1 DEF IInv, CAbiTypeOK
  <2> QED
    BY <1>3, <2>1, <2>2
<1>5. o \in Out /\ heap' \subseteq Block
  BY <1>1, AllocatedType DEF Out, IInv
<1>6. Counted'
  BY <1>2, CountedStays DEF IInv, CAbiTypeOK
<1>7. CAbiTypeOK'
  BY <1>2, <1>4, <1>5, <1>6, StepType DEF IInv, CAbiTypeOK, Label
<1>8. ASSUME NEW u \in Thread PROVE Discipline(u)'
  <2>1. CASE u = t
    BY <1>2, <1>4, <2>1 DEF Discipline, IInv, CAbiTypeOK
  <2>2. CASE u # t
    BY <1>2, <1>4, <2>2, DisciplineStays DEF IInv, CAbiTypeOK
  <2> QED
    BY <2>1, <2>2
<1>9. Owned'
  <2>1. /\ Points(t, "data") = Null /\ Points(t, "data")' = block
        /\ \A u \in Thread, m \in Names : u # t \/ m # "data" => Points(u, m)' = Points(u, m)
    BY <1>3, <1>4 DEF Points, Names, Zero, IInv, CAbiTypeOK
  <2> QED
    BY <1>1, <1>7, <2>1, OwnedGrows DEF IInv, Names
<1> QED
  BY <1>6, <1>7, <1>8, <1>9 DEF IInv

LEMMA SetErrorKeeps == ASSUME IInv, NEW t \in Thread, SetError(t) PROVE IInv'
<1> USE DEF Step
<1>1. PICK block \in Malloc : Allocated(block) /\ out' = [out EXCEPT ![t].message = block]
  BY DEF SetError
<1>2. /\ pc[t] = "answered" /\ pc' = [pc EXCEPT ![t] = "returned"]
      /\ code' = [code EXCEPT ![t] = -1]
      /\ UNCHANGED <<language, handle, sdk, life, refs, raced>>
  BY DEF SetError, object
<1>3. out[t] = Zero
  BY <1>2 DEF IInv, Discipline
<1> DEFINE o == [size |-> 0, data |-> Null, message |-> block]
<1>4. out' = [out EXCEPT ![t] = o]
  <2>1. [Zero EXCEPT !.message = block] = o
    BY DEF Zero
  <2>2. out' = [out EXCEPT ![t] = [out[t] EXCEPT !.message = block]]
    BY <1>1
  <2> QED
    BY <1>3, <2>1, <2>2
<1>5. o \in Out /\ heap' \subseteq Block
  BY <1>1, AllocatedType DEF Out, IInv
<1>6. Counted'
  BY <1>2, CountedStays DEF IInv, CAbiTypeOK
<1>7. CAbiTypeOK'
  BY <1>2, <1>4, <1>5, <1>6, StepType DEF IInv, CAbiTypeOK, Label
<1>8. ASSUME NEW u \in Thread PROVE Discipline(u)'
  <2>1. CASE u = t
    BY <1>2, <1>4, <2>1 DEF Discipline, IInv, CAbiTypeOK
  <2>2. CASE u # t
    BY <1>2, <1>4, <2>2, DisciplineStays DEF IInv, CAbiTypeOK
  <2> QED
    BY <2>1, <2>2
<1>9. Owned'
  <2>1. /\ Points(t, "message") = Null /\ Points(t, "message")' = block
        /\ \A u \in Thread, m \in Names : u # t \/ m # "message" => Points(u, m)' = Points(u, m)
    BY <1>3, <1>4 DEF Points, Names, Zero, IInv, CAbiTypeOK
  <2> QED
    BY <1>1, <1>7, <2>1, OwnedGrows DEF IInv, Names
<1> QED
  BY <1>6, <1>7, <1>8, <1>9 DEF IInv

\* finish of a binding, and the constructor's: what is owned is freed.
LEMMA FinishKeeps == ASSUME IInv, NEW t \in Thread, Finish(t) PROVE IInv'
<1> USE DEF Step
<1> DEFINE both == code[t] = 0 \/ language \in FreesBothAlways
<1>1. /\ pc[t] = "returned" /\ pc' = [pc EXCEPT ![t] = "idle"]
      /\ UNCHANGED <<language, handle, sdk, life, refs, raced, code>>
      /\ heap' = heap \ ({out[t].message} \cup IF both THEN {out[t].data} ELSE {})
      /\ out' = [out EXCEPT ![t] = ErrorFreed(IF both THEN ResponseFreed(out[t]) ELSE out[t])]
  BY DEF Finish, object
<1>2. out[t] \in Out
  BY DEF IInv, CAbiTypeOK, Out
<1>3. ~both => out[t].data = Null /\ out[t].size = 0
  BY <1>1 DEF IInv, Discipline
<1> HIDE DEF both
<1>4. ErrorFreed(IF both THEN ResponseFreed(out[t]) ELSE out[t]) = Zero
  BY <1>2, <1>3, Emptied
<1>5. out' = [out EXCEPT ![t] = Zero]
  BY <1>1, <1>4
<1>6. heap' = heap \ {out[t].message, out[t].data}
  <2>1. Null \notin heap
    BY CAbiAssumption DEF IInv, CAbiTypeOK
  <2> QED
    BY <1>1, <1>3, <2>1
<1>7. Counted'
  BY <1>1, CountedStays DEF IInv, CAbiTypeOK
<1>8. CAbiTypeOK'
  <2>1. heap' \subseteq Block
    BY <1>6 DEF IInv, CAbiTypeOK
  <2> QED
    BY <1>1, <1>5, <1>7, <2>1, ZeroType, StepType DEF IInv, CAbiTypeOK, Label
<1>9. ASSUME NEW u \in Thread PROVE Discipline(u)'
  <2>1. CASE u = t
    BY <1>1, <1>5, <2>1 DEF Discipline, Zero, IInv, CAbiTypeOK
  <2>2. CASE u # t
    BY <1>1, <1>5, <2>2, DisciplineStays DEF IInv, CAbiTypeOK
  <2> QED
    BY <2>1, <2>2
<1>10. Owned'
  <2>1. heap' = heap \ {Points(t, n) : n \in Names}
    BY <1>6 DEF Points, Names
  <2>2. /\ \A n \in Names : Points(t, n)' = Null
        /\ \A u \in Thread, m \in Names : u # t => Points(u, m)' = Points(u, m)
    BY <1>5 DEF Points, Zero, IInv, CAbiTypeOK
  <2> QED
    BY <2>1, <2>2, OwnedShrinks DEF IInv
<1> QED
  BY <1>7, <1>8, <1>9, <1>10 DEF IInv

LEMMA FinishCreateKeeps == ASSUME IInv, NEW t \in Thread, FinishCreate(t) PROVE IInv'
<1> USE DEF Step
<1>1. /\ pc[t] = "raised" /\ pc' = [pc EXCEPT ![t] = "idle"]
      /\ UNCHANGED <<language, handle, sdk, life, refs, raced, code>>
      /\ heap' = heap \ {out[t].message}
      /\ out' = [out EXCEPT ![t] = ErrorFreed(out[t])]
  BY DEF FinishCreate, object
<1>2. out[t] \in Out /\ out[t].data = Null /\ out[t].size = 0
  BY <1>1 DEF IInv, CAbiTypeOK, Out, Discipline
<1>3. ErrorFreed(out[t]) = Zero
  BY <1>2, Emptied
<1>4. out' = [out EXCEPT ![t] = Zero]
  BY <1>1, <1>3
<1>5. Counted'
  BY <1>1, CountedStays DEF IInv, CAbiTypeOK
<1>6. CAbiTypeOK'
  <2>1. heap' \subseteq Block
    BY <1>1 DEF IInv, CAbiTypeOK
  <2> QED
    BY <1>1, <1>4, <1>5, <2>1, ZeroType, StepType DEF IInv, CAbiTypeOK, Label
<1>7. ASSUME NEW u \in Thread PROVE Discipline(u)'
  <2>1. CASE u = t
    BY <1>1, <1>4, <2>1 DEF Discipline, Zero, IInv, CAbiTypeOK
  <2>2. CASE u # t
    BY <1>1, <1>4, <2>2, DisciplineStays DEF IInv, CAbiTypeOK
  <2> QED
    BY <2>1, <2>2
<1>8. Owned'
  <2>1. heap' = heap \ {Points(t, n) : n \in {"message"}}
    BY <1>1 DEF Points
  <2>2. /\ \A n \in {"message"} : Points(t, n)' = Null
        /\ \A u \in Thread, m \in Names :
             u # t \/ m \notin {"message"} => Points(u, m)' = Points(u, m)
    BY <1>2, <1>4 DEF Points, Zero, IInv, CAbiTypeOK, Names
  <2>3. {"message"} \in SUBSET Names
    BY DEF Names
  <2>4. CAbiTypeOK /\ Owned
    BY DEF IInv
  <2> QED
    BY <2>1, <2>2, <2>3, <2>4, OwnedShrinks
<1> QED
  BY <1>5, <1>6, <1>7, <1>8 DEF IInv

\* The steps that touch no memory, but for the reset of outputs that are empty.
Quiet(t) ==
  \/ Begin(t) \/ Refuse(t) \/ Load(t) \/ Borrow(t) \/ Drop(t)
  \/ BeginClose(t) \/ Finalize(t) \/ Destroy(t) \/ Clear(t) \/ Misuse(t)

LEMMA QuietKeeps ==
  ASSUME IInv, NEW t \in Thread, Quiet(t)
  PROVE  IInv'
<1> USE DEF Step, object, memory, Quiet
<1>1. heap' = heap /\ language' = language /\ life' = life
  BY DEF Begin, Refuse, Load, Borrow, Drop, BeginClose, Finalize, Destroy, Clear, Misuse
<1>2. out'[t] = out[t]
  BY DEF Begin, Refuse, Load, Borrow, Drop, BeginClose, Finalize, Destroy, Clear, Misuse, IInv,
         Discipline, CAbiTypeOK
<1>3. out' = out
  BY <1>2 DEF Begin, Refuse, Load, Borrow, Drop, BeginClose, Finalize, Destroy, Clear, Misuse,
              IInv, CAbiTypeOK
<1>4. Owned'
  BY <1>1, <1>3, OwnedStays DEF IInv, Points
<1>5. Counted'
  <2>1. CASE Begin(t) \/ Refuse(t) \/ Load(t)
    BY <2>1, CountedStays DEF Begin, Refuse, Load, IInv, CAbiTypeOK
  <2> QED
    BY <2>1, BorrowCounts, DropCounts, DestroyCounts, CloseCounts
<1>6. PICK label \in Label, value \in {0, -1} :
        /\ pc' = [pc EXCEPT ![t] = label]
        /\ code' = [code EXCEPT ![t] = value]
  BY DEF Begin, Refuse, Load, Borrow, Drop, BeginClose, Finalize, Destroy, Clear, Misuse, IInv,
         CAbiTypeOK, Label
<1>7. CAbiTypeOK'
  <2>1. /\ handle' \in {"unset", "open", "null", "lost"}
        /\ sdk' \in {"none", "alive", "deleted", "misused"}
        /\ raced' \in BOOLEAN
    BY DEF Begin, Refuse, Load, Borrow, Drop, BeginClose, Finalize, Destroy, Clear, Misuse, IInv,
           CAbiTypeOK
  <2> QED
    BY <1>1, <1>3, <1>5, <1>6, <2>1, ZeroType, StepType DEF IInv, CAbiTypeOK
<1>8. ASSUME NEW u \in Thread PROVE Discipline(u)'
  <2>1. handle' = handle \/ handle' # "unset"
    BY DEF Begin, Refuse, Load, Borrow, Drop, BeginClose, Finalize, Destroy, Clear, Misuse
  <2>2. CASE u # t
    BY <1>3, <1>6, <2>1, <2>2, DisciplineStays DEF IInv, CAbiTypeOK
  <2>3. CASE u = t
    BY <1>3, <2>1, <2>3
    DEF Begin, Refuse, Load, Borrow, Drop, BeginClose, Finalize, Destroy, Clear, Misuse, IInv,
        CAbiTypeOK, Discipline, Zero
  <2> QED
    BY <2>2, <2>3
<1> QED
  BY <1>4, <1>5, <1>7, <1>8 DEF IInv

LEMMA DeleteKeeps == ASSUME IInv, DeleteState PROVE IInv'
<1>1. Counted'
  BY DeleteCounts
<1>2. CAbiTypeOK' /\ Owned' /\ \A u \in Thread : Discipline(u)'
  BY DEF DeleteState, object, memory, IInv, CAbiTypeOK, Owned, Points, Discipline, Zero
<1> QED
  BY <1>1, <1>2 DEF IInv

LEMMA NextIInv == IInv /\ [CAbiNext]_vars => IInv'
<1> SUFFICES ASSUME IInv, [CAbiNext]_vars PROVE IInv'
  OBVIOUS
<1>1. CASE UNCHANGED vars
  <2>1. Owners' = Owners
    BY <1>1 DEF vars, Owners
  <2> QED
    BY <1>1, <2>1 DEF vars, IInv, CAbiTypeOK, Owned, Points, Discipline, Zero, Counted
<1>2. ASSUME NEW t \in Thread, InCall(t)
      PROVE  IInv'
  BY <1>2, QuietKeeps, SetErrorKeeps, SetResponseKeeps, FinishKeeps, FinishCreateKeeps
  DEF InCall, Quiet
<1>3. ASSUME NEW t \in Thread,
             Begin(t) \/ BeginClose(t) \/ Finalize(t) \/ InClose(t) \/ Misuse(t)
      PROVE  IInv'
  BY <1>3, QuietKeeps DEF Quiet, InClose
<1> QED
  BY <1>1, <1>2, <1>3, CreateKeeps, CreateFailsKeeps, DeleteKeeps DEF CAbiNext

LEMMA IInvHolds == CAbiSpec => []IInv
BY InitIInv, NextIInv, PTL DEF CAbiSpec

\* The library and its callers keep their types; the unsigned count of the
\* state never goes below zero.
THEOREM CAbiTypeCorrect == CAbiSpec => []CAbiTypeOK
<1>1. IInv => CAbiTypeOK
  BY DEF IInv
<1> QED
  BY <1>1, IInvHolds, PTL

-----------------------------------------------------------------------------
(***************************************************************************)
(* Blocks of the heap.                                                     *)
(***************************************************************************)
LEMMA PointerNames ==
  /\ \A p \in Pointers : /\ p[1] \in Thread /\ p[2] \in Names /\ p = <<p[1], p[2]>>
                         /\ Pointee(p) = Points(p[1], p[2]) /\ Pointee(p) # Null
  /\ \A t \in Thread, n \in Names :
       Points(t, n) # Null => <<t, n>> \in Pointers /\ Pointee(<<t, n>>) = Points(t, n)
BY DEF Pointers, Pointee, Points, Names

LEMMA BlocksOwned == IInv => BlocksOwnedOnce
<1> SUFFICES ASSUME IInv PROVE BlocksOwnedOnce
  OBVIOUS
<1>1. Null \notin heap /\ IsFiniteSet(heap)
  BY CAbiAssumption, FS_Subset DEF IInv, CAbiTypeOK
<1>2. heap = {Pointee(p) : p \in Pointers}
  <2>1. \A p \in Pointers : Pointee(p) \in heap
    BY PointerNames DEF IInv, Owned
  <2>2. ASSUME NEW b \in heap
        PROVE  \E p \in Pointers : Pointee(p) = b
    <3>1. PICK t \in Thread, n \in Names : Points(t, n) = b
      BY DEF IInv, Owned
    <3> QED
      BY <1>1, <3>1, PointerNames
  <2> QED
    BY <2>1, <2>2
<1> DEFINE f == [p \in Pointers |-> Pointee(p)]
<1>3. f \in [Pointers -> heap]
  BY <1>2
<1>4. \A p, q \in Pointers : f[p] = f[q] => p = q
  BY PointerNames DEF IInv, Owned
<1>5. \A b \in heap : \E p \in Pointers : f[p] = b
  BY <1>2
<1> HIDE DEF f
<1>6. f \in Injection(Pointers, heap) /\ f \in Surjection(Pointers, heap)
  BY <1>3, <1>4, <1>5 DEF Injection, Surjection, IsInjective
<1>7. Cardinality(heap) = Cardinality(Pointers)
  BY <1>1, <1>6, FS_Injection
<1> QED
  BY <1>2, <1>7 DEF BlocksOwnedOnce

\* Every block is freed once, by the one who was given it: whichever calls
\* fail, whatever malloc refuses, and however the binding frees its outputs.
THEOREM BlocksAreOwnedOnce == CAbiSpec => []BlocksOwnedOnce
BY BlocksOwned, IInvHolds, PTL

\* Nothing is owed between calls and no size promises bytes that are not there.
THEOREM OutputsAreReadable == CAbiSpec => []OutputsReadable
<1>1. IInv => OutputsReadable
  <2> SUFFICES ASSUME IInv, NEW t \in Thread
               PROVE  /\ pc[t] = "idle" => out[t] = Zero
                      /\ out[t].size > 0 => out[t].data \in heap
    BY DEF OutputsReadable
  <2>1. Discipline(t)
    BY DEF IInv
  <2>2. out[t].data # Null => out[t].data \in heap
    BY DEF IInv, Owned, Points, Names
  <2> QED
    BY <2>1, <2>2 DEF Discipline
<1> QED
  BY <1>1, IInvHolds, PTL

-----------------------------------------------------------------------------
(***************************************************************************)
(* The state is owned by the ql_sdk and by the calls that run, and by      *)
(* nobody else: each step is a step of shared ownership, or none of it.    *)
(***************************************************************************)
LEMMA OwnershipStutters ==
  ASSUME life' = life, Owners' = Owners
  PROVE  UNCHANGED Ownership!vars
BY DEF Ownership!vars

LEMMA InitOwnership == CAbiInit => Ownership!Init
<1> SUFFICES ASSUME CAbiInit PROVE Ownership!Init
  OBVIOUS
<1>1. Owners = {} /\ life = "unborn"
  BY OwnersMembers DEF CAbiInit
<1> QED
  BY <1>1 DEF Ownership!Init

LEMMA StepOwnership ==
  IInv /\ [CAbiNext]_vars => [Ownership!Next]_(Ownership!vars)
<1> SUFFICES ASSUME IInv, [CAbiNext]_vars
             PROVE  Ownership!Next \/ UNCHANGED Ownership!vars
  OBVIOUS
<1> USE DEF Step, object, memory
<1>1. ASSUME NEW t \in Thread, Create(t)
      PROVE  Ownership!Create("state", "sdk")
  BY <1>1, CreateCounts DEF Ownership!Create, Create
<1>2. ASSUME NEW t \in Thread, Borrow(t)
      PROVE  Ownership!Share("state", t)
  BY <1>2, BorrowCounts DEF Ownership!Share, Borrow
<1>3. ASSUME NEW t \in Thread, Drop(t)
      PROVE  Ownership!GiveUp("state", t)
  BY <1>3, DropCounts DEF Ownership!GiveUp, Drop
<1>4. ASSUME NEW t \in Thread, Destroy(t)
      PROVE  Ownership!GiveUp("state", "sdk")
  BY <1>4, DestroyCounts DEF Ownership!GiveUp, Destroy
<1>5. ASSUME DeleteState
      PROVE  Ownership!Free("state")
  BY <1>5, DeleteCounts DEF Ownership!Free, DeleteState
<1>6. ASSUME NEW t \in Thread,
             \/ CreateFails(t) \/ Begin(t) \/ Refuse(t) \/ Load(t) \/ SetError(t)
             \/ SetResponse(t) \/ Finish(t) \/ FinishCreate(t)
      PROVE  UNCHANGED Ownership!vars
  <2>1. UNCHANGED <<life, sdk>>
    BY <1>6 DEF CreateFails, Begin, Refuse, Load, SetError, SetResponse, Finish, FinishCreate
  <2>2. \A u \in Thread : pc'[u] = "running" <=> pc[u] = "running"
    BY <1>6
    DEF CreateFails, Begin, Refuse, Load, SetError, SetResponse, Finish, FinishCreate, IInv,
        CAbiTypeOK
  <2>3. Owners' = Owners
    BY <2>1, <2>2 DEF Owners
  <2> QED
    BY <2>1, <2>3, OwnershipStutters
<1>7. ASSUME NEW t \in Thread, BeginClose(t) \/ Finalize(t) \/ Clear(t) \/ Misuse(t)
      PROVE  UNCHANGED Ownership!vars
  BY <1>7, CloseCounts, OwnershipStutters
<1>8. CASE UNCHANGED vars
  BY <1>8, OwnershipStutters DEF vars, Owners
<1> QED
  BY <1>1, <1>2, <1>3, <1>4, <1>5, <1>6, <1>7, <1>8
  DEF CAbiNext, InCall, InClose, Ownership!Next

\* Whenever the ql_sdk is destroyed, while calls enter, run and return, and
\* however often closing it is tried, by the program or by a finalizer: the
\* state is freed once, and only when neither the ql_sdk nor a call that has
\* retained it refers to it any more.
THEOREM StateOutlivesHandle == CAbiSpec => Ownership!Safety
BY InitOwnership, StepOwnership, IInvHolds, PTL DEF CAbiSpec, Ownership!Safety

-----------------------------------------------------------------------------
(***************************************************************************)
(* As long as no close has overlapped another one or the entry of a call,  *)
(* whoever has read the handle has a ql_sdk that is alive, closes come    *)
(* one at a time, and a handle is open to a ql_sdk that was destroyed only *)
(* until its closer clears it.                                             *)
(***************************************************************************)
Raceless ==
  /\ \A t \in Thread : pc[t] \in Entering \/ pc[t] = "closing" => sdk = "alive"
  /\ \A t, u \in Thread : pc[t] \in Closing /\ u # t => pc[u] \notin Entering \cup Closing
  /\ handle = "open" => sdk = "alive" \/ \E t \in Thread : pc[t] = "destroyed"
  /\ sdk # "misused"

RaceInv ==
  /\ raced => language \in Concurrent
  /\ ~raced => Raceless

LEMMA InitRace == CAbiInit => RaceInv
BY DEF CAbiInit, RaceInv, Raceless, Entering, Closing

\* Steps within a call only lead out of the entry of the call.
LEMMA RaceStays ==
  ASSUME RaceInv, UNCHANGED <<language, handle, sdk, raced>>,
         \A u \in Thread : /\ pc'[u] \in Entering => pc[u] \in Entering
                           /\ pc'[u] = "closing" <=> pc[u] = "closing"
                           /\ pc'[u] = "destroyed" <=> pc[u] = "destroyed"
  PROVE  RaceInv'
BY DEF RaceInv, Raceless, Closing

\* Where uses may overlap at all, the binding lets several threads in.
LEMMA OverlapIsConcurrent ==
  ASSUME NEW t \in Thread, NEW u \in Thread, MayUse(t), pc[t] = "idle",
         pc[u] \in Entering \cup Closing
  PROVE  language \in Concurrent
BY DEF MayUse, Entering, Closing

LEMMA BeginRace == ASSUME IInv, RaceInv, NEW t \in Thread, Begin(t) PROVE RaceInv'
<1> USE DEF Step
<1>1. /\ pc[t] = "idle" /\ pc' = [pc EXCEPT ![t] = IF handle = "open" THEN "entered" ELSE "refused"]
      /\ raced' = (raced \/ (handle = "open" /\ \E u \in Thread : pc[u] \in Closing))
      /\ UNCHANGED <<language, handle, sdk>>
      /\ MayUse(t)
      /\ pc \in [Thread -> Label]
  BY DEF Begin, IInv, CAbiTypeOK, Label
<1>2. raced' => language \in Concurrent
  BY <1>1, OverlapIsConcurrent DEF RaceInv
<1>3. ASSUME ~raced' PROVE Raceless'
  <2>1. Raceless /\ (handle = "open" => \A u \in Thread : pc[u] \notin Closing)
    BY <1>1, <1>3 DEF RaceInv
  <2>2. handle = "open" => sdk = "alive"
    BY <2>1 DEF Raceless, Closing
  <2>3. /\ \A u \in Thread : u # t => pc'[u] = pc[u]
        /\ pc'[t] \in {"entered", "refused"}
        /\ pc'[t] = "entered" => handle = "open"
    BY <1>1
  <2> QED
    BY <1>1, <2>1, <2>2, <2>3 DEF Raceless, Entering, Closing
<1> QED
  BY <1>1, <1>2, <1>3 DEF RaceInv

\* A close that begins without a race has a ql_sdk that is alive, and is alone.
LEMMA BeginCloseRace ==
  ASSUME IInv, RaceInv, NEW t \in Thread, BeginClose(t) \/ Finalize(t)
  PROVE  RaceInv'
<1> USE DEF Step
<1>1. /\ pc[t] = "idle" /\ pc' = [pc EXCEPT ![t] = "closing"]
      /\ handle = "open" /\ handle' \in {"open", "lost"}
      /\ UNCHANGED <<language, sdk>>
      /\ pc \in [Thread -> Label]
  BY DEF BeginClose, Finalize, IInv, CAbiTypeOK, Label
<1>2. raced' = (raced \/ \E u \in Thread : pc[u] \in Entering \cup Closing)
  BY DEF BeginClose, Finalize
<1>3. raced' => language \in Concurrent
  <2>1. CASE BeginClose(t)
    BY <1>1, <1>2, <2>1, OverlapIsConcurrent DEF RaceInv, BeginClose
  <2>2. CASE Finalize(t)
    BY <2>2 DEF Finalize, Concurrent
  <2> QED
    BY <2>1, <2>2
<1>4. ASSUME ~raced' PROVE Raceless'
  <2>1. Raceless /\ \A u \in Thread : pc[u] \notin Entering \cup Closing
    BY <1>2, <1>4 DEF RaceInv
  <2>2. sdk = "alive"
    BY <1>1, <2>1 DEF Raceless, Closing
  <2>3. \A u \in Thread : u # t => pc'[u] = pc[u]
    BY <1>1
  <2> QED
    BY <1>1, <2>1, <2>2, <2>3 DEF Raceless, Entering, Closing
<1> QED
  BY <1>1, <1>3, <1>4 DEF RaceInv

LEMMA DestroyRace == ASSUME IInv, RaceInv, NEW t \in Thread, Destroy(t) PROVE RaceInv'
<1> USE DEF Step
<1>1. /\ pc[t] = "closing" /\ pc' = [pc EXCEPT ![t] = "destroyed"]
      /\ sdk' = "deleted"
      /\ UNCHANGED <<language, handle, raced>>
      /\ pc \in [Thread -> Label]
  BY DEF Destroy, IInv, CAbiTypeOK, Label
<1>2. ASSUME ~raced PROVE Raceless'
  <2>1. \A u \in Thread : u # t => pc'[u] = pc[u] /\ pc[u] \notin Entering \cup Closing
    BY <1>1, <1>2 DEF RaceInv, Raceless, Closing
  <2>2. pc'[t] = "destroyed"
    BY <1>1
  <2> QED
    BY <1>1, <2>1, <2>2 DEF Raceless, Entering, Closing
<1> QED
  BY <1>1, <1>2 DEF RaceInv

LEMMA ClearRace == ASSUME IInv, RaceInv, NEW t \in Thread, Clear(t) PROVE RaceInv'
<1> USE DEF Step
<1>1. /\ pc[t] = "destroyed" /\ pc' = [pc EXCEPT ![t] = "idle"]
      /\ handle' # "open"
      /\ UNCHANGED <<language, sdk, raced>>
      /\ pc \in [Thread -> Label]
  BY DEF Clear, IInv, CAbiTypeOK, Label
<1>2. \A u \in Thread : pc'[u] = pc[u] \/ pc'[u] = "idle"
  BY <1>1
<1> QED
  BY <1>1, <1>2 DEF RaceInv, Raceless, Entering, Closing

\* Without a race nobody has a ql_sdk that was deleted, or a state without an owner.
LEMMA MisuseRace == ASSUME IInv, RaceInv, NEW t \in Thread, Misuse(t) PROVE RaceInv'
<1>1. raced
  BY DEF Misuse, RaceInv, Raceless, Entering
<1> QED
  BY <1>1 DEF Misuse, RaceInv

LEMMA CreateRace ==
  ASSUME IInv, RaceInv, NEW t \in Thread, Create(t) \/ CreateFails(t)
  PROVE  RaceInv'
<1>1. \A u \in Thread : pc[u] = "idle"
  BY DEF Create, CreateFails, IInv, Discipline
<1>2. \A u \in Thread : pc'[u] \in {"idle", "raised"}
  BY <1>1 DEF Create, CreateFails, Step, IInv, CAbiTypeOK
<1> QED
  BY <1>2 DEF Create, CreateFails, RaceInv, Raceless, Entering, Closing

LEMMA NextRace == IInv /\ RaceInv /\ [CAbiNext]_vars => RaceInv'
<1> SUFFICES ASSUME IInv, RaceInv, [CAbiNext]_vars PROVE RaceInv'
  OBVIOUS
<1>1. ASSUME NEW t \in Thread, InCall(t)
      PROVE  RaceInv'
  <2>1. UNCHANGED <<language, handle, sdk, raced>>
    BY <1>1
    DEF InCall, Refuse, Load, Borrow, Drop, SetError, SetResponse, Finish, FinishCreate, object
  <2>2. PICK from, to \in Label :
          /\ pc[t] = from /\ pc' = [pc EXCEPT ![t] = to]
          /\ from \notin Closing /\ to \notin Closing
          /\ to \in Entering => from \in Entering
    BY <1>1
    DEF InCall, Refuse, Load, Borrow, Drop, SetError, SetResponse, Finish, FinishCreate, Step,
        Label, Entering, Closing
  <2> QED
    BY <2>1, <2>2, RaceStays DEF Closing, IInv, CAbiTypeOK
<1>2. CASE DeleteState \/ UNCHANGED vars
  BY <1>2, RaceStays DEF DeleteState, object, vars
<1> QED
  BY <1>1, <1>2, CreateRace, BeginRace, BeginCloseRace, DestroyRace, ClearRace, MisuseRace
  DEF CAbiNext, InClose

\* For any number of threads that call and close the object, and .NET's
\* finalizer: nothing is used after its destruction unless a close overlapped
\* another one or the entry of a call, in a binding that lets several threads in.
THEOREM MisuseNeedsRace == CAbiSpec => []OnlyRacesMisuse
<1>1. RaceInv => OnlyRacesMisuse
  BY DEF RaceInv, Raceless, OnlyRacesMisuse
<1> QED
  BY <1>1, InitRace, NextRace, IInvHolds, PTL DEF CAbiSpec

-----------------------------------------------------------------------------
(***************************************************************************)
(* Texts: their parts, and the first and last place of a token in them.    *)
(***************************************************************************)

LEMMA LeastNatural ==
  ASSUME NEW T, T \subseteq Nat, T # {}
  PROVE  \E x \in T : \A y \in T : x <= y
<1> DEFINE less == OpToRel(<, Nat)
<1>1. \A x, y \in Nat : y < x => <<y, x>> \in less
  BY DEF OpToRel
<1>2. IsWellFoundedOn(less, Nat)
  BY NatLessThanWellFounded
<1> HIDE DEF less
<1>3. PICK x \in T : \A y \in T : ~ (<<y, x>> \in less)
  BY <1>2, WFMin
<1>4. ASSUME NEW y \in T PROVE x <= y
  <2>1. x \in Nat /\ y \in Nat /\ ~ (y < x)
    BY <1>1, <1>3
  <2> QED
    BY <2>1
<1> QED
  BY <1>4

\* A set of positions that is not empty has a last one.
LEMMA GreatestNumber ==
  ASSUME NEW n \in Nat, NEW T, T \subseteq 1..n, T # {}
  PROVE  Max(T) \in T /\ \A y \in T : y <= Max(T)
<1> DEFINE distances == {n - x : x \in T}
<1>1. distances \subseteq Nat /\ distances # {}
  <2>1. \A x \in T : n - x \in Nat
    OBVIOUS
  <2> QED
    BY <2>1
<1>2. PICK d \in distances : \A e \in distances : d <= e
  BY <1>1, LeastNatural
<1>3. PICK x \in T : d = n - x
  OBVIOUS
<1>4. ASSUME NEW y \in T PROVE x >= y
  <2>1. n - x <= n - y
    BY <1>2, <1>3
  <2>2. x \in Int /\ y \in Int
    OBVIOUS
  <2> HIDE DEF distances
  <2> QED
    BY <2>1, <2>2
<1>5. Max(T) \in T /\ \A y \in T : Max(T) >= y
  BY <1>4 DEF Max
<1> QED
  BY <1>5

LEMMA Parts ==
  ASSUME NEW S, NEW u \in Seq(S), NEW v \in Seq(S)
  PROVE  /\ SubSeq(u \o v, 1, Len(u)) = u
         /\ SubSeq(u \o v, Len(u) + 1, Len(u \o v)) = v
<1> DEFINE t == u \o v
           n == Len(u)
           m == Len(v)
<1>1. /\ n \in Nat /\ m \in Nat /\ Len(t) = n + m /\ t \in Seq(S)
      /\ \A i \in 1..n + m : t[i] = IF i <= n THEN u[i] ELSE v[i - n]
      /\ \A i \in 1..n : u[i] \in S
      /\ \A i \in 1..m : v[i] \in S
  BY ConcatProperties, LenProperties, ElementOfSeq
<1> HIDE DEF t
<1>2. SubSeq(t, 1, n) = u
  <2> DEFINE w == SubSeq(t, 1, n)
  <2>1. \A i \in 1..n : t[i] = u[i]
    BY <1>1
  <2>2. w \in Seq(S) /\ Len(w) = n /\ \A i \in 1..n : w[i] = u[i]
    <3>1. \A i \in 1..n : t[i] \in S
      BY <1>1, <2>1
    <3>2. /\ w \in Seq(S) /\ Len(w) = IF 1 <= n THEN n - 1 + 1 ELSE 0
          /\ \A i \in 1..n - 1 + 1 : w[i] = t[1 + i - 1]
      BY <1>1, <3>1, SubSeqProperties
    <3> HIDE DEF w
    <3>3. \A i \in 1..n : i \in 1..n - 1 + 1 /\ 1 + i - 1 = i
      BY <1>1
    <3> QED
      BY <1>1, <2>1, <3>2, <3>3
  <2> HIDE DEF w
  <2> QED
    BY <2>2, SeqEqual DEF w
<1>3. SubSeq(t, n + 1, n + m) = v
  <2> DEFINE w == SubSeq(t, n + 1, n + m)
  <2>1. \A i \in 1..m : t[n + i] = v[i]
    <3> SUFFICES ASSUME NEW i \in 1..m PROVE t[n + i] = v[i]
      OBVIOUS
    <3>1. n + i \in 1..n + m /\ ~(n + i <= n) /\ (n + i) - n = i
      BY <1>1
    <3> QED
      BY <1>1, <3>1
  <2>2. w \in Seq(S) /\ Len(w) = m /\ \A i \in 1..m : w[i] = v[i]
    <3>1. \A i \in n + 1..n + m : t[i] \in S
      <4> SUFFICES ASSUME NEW i \in n + 1..n + m PROVE t[i] \in S
        OBVIOUS
      <4>1. i \in 1..n + m /\ ~(i <= n) /\ i - n \in 1..m
        BY <1>1
      <4> QED
        BY <1>1, <4>1
    <3>2. /\ w \in Seq(S) /\ Len(w) = IF n + 1 <= n + m THEN (n + m) - (n + 1) + 1 ELSE 0
          /\ \A i \in 1..(n + m) - (n + 1) + 1 : w[i] = t[(n + 1) + i - 1]
      BY <1>1, <3>1, SubSeqProperties
    <3> HIDE DEF w
    <3> HIDE DEF n, m
    <3>3. ASSUME NEW i \in 1..m PROVE w[i] = v[i]
      <4>1. i \in 1..(n + m) - (n + 1) + 1 /\ (n + 1) + i - 1 = n + i
        BY <1>1
      <4>2. w[i] = t[n + i]
        BY <3>2, <4>1
      <4> QED
        BY <2>1, <4>2
    <3>4. Len(w) = m
      BY <1>1, <3>2
    <3> QED
      BY <3>2, <3>3, <3>4
  <2> HIDE DEF w
  <2> QED
    BY <2>2, SeqEqual DEF w
<1> QED
  BY <1>1, <1>2, <1>3 DEF t


FreeOf(s, x) == \A i \in 1..Len(s) : s[i] # x

\* Where a token is in a text, as SelectInSeq and SelectLastInSeq find it.
Places(s, x) == {i \in 1..Len(s) : s[i] = x}
FirstPlace(s, x) == IF Places(s, x) # {} THEN Min(Places(s, x)) ELSE 0
LastPlace(s, x) == IF Places(s, x) # {} THEN Max(Places(s, x)) ELSE 0

LEMMA FirstPlaceIs ==
  ASSUME NEW S, NEW s \in Seq(S), NEW x
  PROVE  \/ FirstPlace(s, x) = 0 /\ FreeOf(s, x)
         \/ /\ FirstPlace(s, x) \in 1..Len(s) /\ s[FirstPlace(s, x)] = x
            /\ \A i \in 1..Len(s) : i < FirstPlace(s, x) => s[i] # x
<1> DEFINE T == Places(s, x)
<1>1. T \subseteq Nat /\ T \subseteq 1..Len(s) /\ \A i \in 1..Len(s) : i \in T <=> s[i] = x
  BY LenProperties DEF Places
<1>2. CASE T = {}
  BY <1>1, <1>2 DEF FirstPlace, FreeOf
<1>3. CASE T # {}
  <2>1. PICK k \in T : \A y \in T : k <= y
    BY <1>1, <1>3, LeastNatural
  <2>2. Min(T) \in T /\ \A y \in T : Min(T) <= y
    BY <2>1 DEF Min
  <2>3. FirstPlace(s, x) = Min(T)
    BY <1>3 DEF FirstPlace
  <2> HIDE DEF T
  <2>4. \A i \in 1..Len(s) : i < Min(T) => i \notin T
    <3>1. ASSUME NEW i \in 1..Len(s), i < Min(T), i \in T PROVE FALSE
      <4>1. Min(T) <= i /\ Min(T) \in Nat
        BY <1>1, <2>2, <3>1
      <4> QED
        BY <3>1, <4>1
    <3> QED
      BY <3>1
  <2> QED
    BY <1>1, <2>2, <2>3, <2>4
<1> QED
  BY <1>2, <1>3

LEMMA LastPlaceIs ==
  ASSUME NEW S, NEW s \in Seq(S), NEW x
  PROVE  \/ LastPlace(s, x) = 0 /\ FreeOf(s, x)
         \/ /\ LastPlace(s, x) \in 1..Len(s) /\ s[LastPlace(s, x)] = x
            /\ \A i \in 1..Len(s) : i > LastPlace(s, x) => s[i] # x
<1> DEFINE T == Places(s, x)
<1>1. T \subseteq Nat /\ T \subseteq 1..Len(s) /\ Len(s) \in Nat
      /\ \A i \in 1..Len(s) : i \in T <=> s[i] = x
  BY LenProperties DEF Places
<1>2. CASE T = {}
  BY <1>1, <1>2 DEF LastPlace, FreeOf
<1>3. CASE T # {}
  <2>1. Max(T) \in T /\ \A y \in T : y <= Max(T)
    BY <1>1, <1>3, GreatestNumber
  <2>2. LastPlace(s, x) = Max(T)
    BY <1>3 DEF LastPlace
  <2> HIDE DEF T
  <2>3. \A i \in 1..Len(s) : i > Max(T) => i \notin T
    <3>1. ASSUME NEW i \in 1..Len(s), i > Max(T), i \in T PROVE FALSE
      <4>1. i <= Max(T) /\ Max(T) \in Nat
        BY <1>1, <2>1, <3>1
      <4> QED
        BY <3>1, <4>1
    <3> QED
      BY <3>1
  <2> QED
    BY <1>1, <2>1, <2>2, <2>3
<1> QED
  BY <1>2, <1>3

\* parse_endpoint in these terms.
LEMMA ParseIs ==
  ASSUME NEW text
  PROVE  LET rest == SubSeq(text, 3, Len(text))
             slash == FirstPlace(rest, "/")
             split == IF slash = 0 THEN Len(rest) + 1 ELSE slash
         IN  ParseEndpoint(text) =
               IF Len(text) < 2 \/ text[2] # "://" \/ text[1] \notin Schemes THEN Nowhere
               ELSE ParseAuthority(text[1], SubSeq(rest, 1, split - 1), SubSeq(rest, split, Len(rest)))
<1>1. SelectInSeq(SubSeq(text, 3, Len(text)), LAMBDA token : token = "/")
        = FirstPlace(SubSeq(text, 3, Len(text)), "/")
  BY DEF SelectInSeq, FirstPlace, Places
<1> QED
  BY <1>1, Zenon DEF ParseEndpoint

LEMMA AuthorityIs ==
  ASSUME NEW scheme, NEW authority, NEW base
  PROVE  LET colon == FirstPlace(authority, ":")
             port == PortOf(SubSeq(authority, colon + 1, Len(authority)))
         IN  ParseAuthority(scheme, authority, base) =
               IF authority = <<>> THEN Nowhere
               ELSE IF colon = 0 \/ LastPlace(authority, ":") # colon
                 THEN Located(scheme, authority, DefaultPort(scheme), base)
               ELSE IF port > MaxPort THEN Nowhere
               ELSE Located(scheme, SubSeq(authority, 1, colon - 1), port, base)
<1>1. SelectInSeq(authority, LAMBDA token : token = ":") = FirstPlace(authority, ":")
  BY DEF SelectInSeq, FirstPlace, Places
<1>2. SelectLastInSeq(authority, LAMBDA token : token = ":") = LastPlace(authority, ":")
  BY DEF SelectLastInSeq, LastPlace, Places
<1> QED
  BY <1>1, <1>2, Zenon DEF ParseAuthority

LEMMA FreeConcat ==
  ASSUME NEW S, NEW u \in Seq(S), NEW v \in Seq(S), NEW x, FreeOf(u, x), FreeOf(v, x)
  PROVE  FreeOf(u \o v, x)
<1> DEFINE t == u \o v
           n == Len(u)
           m == Len(v)
<1>1. /\ n \in Nat /\ m \in Nat /\ Len(t) = n + m
      /\ \A i \in 1..n + m : t[i] = IF i <= n THEN u[i] ELSE v[i - n]
  BY ConcatProperties, LenProperties
<1>2. (\A i \in 1..n : u[i] # x) /\ (\A i \in 1..m : v[i] # x)
  BY DEF FreeOf
<1> HIDE DEF t, n, m
<1>3. ASSUME NEW i \in 1..n + m PROVE t[i] # x
  <2>1. CASE i <= n
    <3>1. i \in 1..n
      BY <1>1, <2>1
    <3> QED
      BY <1>1, <1>2, <2>1, <3>1
  <2>2. CASE ~(i <= n)
    <3>1. i - n \in 1..m
      BY <1>1, <2>2
    <3> QED
      BY <1>1, <1>2, <2>2, <3>1
  <2> QED
    BY <2>1, <2>2
<1> QED
  BY <1>1, <1>3 DEF FreeOf, t

\* The two sides of a text at a position.
LEMMA Sides ==
  ASSUME NEW S, NEW s \in Seq(S), NEW k \in 1..Len(s) + 1
  PROVE  LET u == SubSeq(s, 1, k - 1)
             v == SubSeq(s, k, Len(s))
         IN  /\ u \in Seq(S) /\ Len(u) = k - 1 /\ \A i \in 1..k - 1 : u[i] = s[i]
             /\ v \in Seq(S) /\ Len(v) = Len(s) - k + 1
             /\ \A i \in 1..Len(s) - k + 1 : v[i] = s[k + i - 1]
<1> DEFINE n == Len(s)
<1>1. n \in Nat /\ k \in Nat /\ k >= 1 /\ k <= n + 1 /\ \A i \in 1..n : s[i] \in S
  BY LenProperties, ElementOfSeq
<1> HIDE DEF n
<1>2. \A i \in 1..k - 1 : s[i] \in S
  BY <1>1
<1>3. \A i \in k..n : s[i] \in S
  BY <1>1
<1>4. /\ SubSeq(s, 1, k - 1) \in Seq(S)
      /\ Len(SubSeq(s, 1, k - 1)) = IF 1 <= k - 1 THEN (k - 1) - 1 + 1 ELSE 0
      /\ \A i \in 1..(k - 1) - 1 + 1 : SubSeq(s, 1, k - 1)[i] = s[1 + i - 1]
  <2>1. k - 1 \in Int /\ 1 \in Int
    BY <1>1
  <2> QED
    BY <1>2, <2>1, SubSeqProperties
<1>5. /\ SubSeq(s, k, n) \in Seq(S)
      /\ Len(SubSeq(s, k, n)) = IF k <= n THEN n - k + 1 ELSE 0
      /\ \A i \in 1..n - k + 1 : SubSeq(s, k, n)[i] = s[k + i - 1]
  <2>1. k \in Int /\ n \in Int
    BY <1>1
  <2> QED
    BY <1>3, <2>1, SubSeqProperties
<1> DEFINE u == SubSeq(s, 1, k - 1)
           v == SubSeq(s, k, n)
<1> HIDE DEF u, v
<1>6. Len(u) = k - 1 /\ \A i \in 1..k - 1 : u[i] = s[i]
  <2>1. \A i \in 1..k - 1 : i \in 1..(k - 1) - 1 + 1 /\ 1 + i - 1 = i
    BY <1>1
  <2>2. Len(u) = k - 1
    BY <1>1, <1>4 DEF u
  <2>3. ASSUME NEW i \in 1..k - 1 PROVE u[i] = s[i]
    <3>1. u[i] = s[1 + i - 1]
      BY <1>4, <2>1 DEF u
    <3> QED
      BY <2>1, <3>1
  <2> QED
    BY <2>2, <2>3
<1>7. Len(v) = n - k + 1
  BY <1>1, <1>5 DEF v
<1> QED
  BY <1>4, <1>5, <1>6, <1>7 DEF u, v, n

\* Where a token is found when it is known where it is.
LEMMA FirstPlaceAt ==
  ASSUME NEW S, NEW s \in Seq(S), NEW x, NEW k \in 1..Len(s), s[k] = x,
         \A i \in 1..Len(s) : i < k => s[i] # x
  PROVE  FirstPlace(s, x) = k
<1>1. Len(s) \in Nat
  BY LenProperties
<1> DEFINE f == FirstPlace(s, x)
<1>2. f \in 1..Len(s) /\ s[f] = x /\ \A i \in 1..Len(s) : i < f => s[i] # x
  BY FirstPlaceIs DEF FreeOf
<1> HIDE DEF f
<1>3. ~(f < k) /\ ~(k < f)
  BY <1>2
<1> QED
  BY <1>1, <1>2, <1>3 DEF f

LEMMA LastPlaceAt ==
  ASSUME NEW S, NEW s \in Seq(S), NEW x, NEW k \in 1..Len(s), s[k] = x,
         \A i \in 1..Len(s) : i > k => s[i] # x
  PROVE  LastPlace(s, x) = k
<1>1. Len(s) \in Nat
  BY LenProperties
<1> DEFINE f == LastPlace(s, x)
<1>2. f \in 1..Len(s) /\ s[f] = x /\ \A i \in 1..Len(s) : i > f => s[i] # x
  BY LastPlaceIs DEF FreeOf
<1> HIDE DEF f
<1>3. ~(f > k) /\ ~(k > f)
  BY <1>2
<1> QED
  BY <1>1, <1>2, <1>3 DEF f

LEMMA NoPlace ==
  ASSUME NEW S, NEW s \in Seq(S), NEW x, FreeOf(s, x)
  PROVE  FirstPlace(s, x) = 0 /\ LastPlace(s, x) = 0
<1>1. FirstPlace(s, x) \notin 1..Len(s) \/ s[FirstPlace(s, x)] # x
  BY DEF FreeOf
<1>2. LastPlace(s, x) \notin 1..Len(s) \/ s[LastPlace(s, x)] # x
  BY DEF FreeOf
<1> QED
  BY <1>1, <1>2, FirstPlaceIs, LastPlaceIs

\* A path starts with a slash, if there is one.
PathLike(base) == base = <<>> \/ base[1] = "/"

\* An authority without a slash ends where the path begins.
LEMMA SplitAt ==
  ASSUME NEW a \in Seq(Token), NEW base \in Seq(Token), FreeOf(a, "/"), PathLike(base)
  PROVE  LET rest == a \o base
             slash == FirstPlace(rest, "/")
             split == IF slash = 0 THEN Len(rest) + 1 ELSE slash
         IN  split = Len(a) + 1 /\ SubSeq(rest, 1, split - 1) = a /\ SubSeq(rest, split, Len(rest)) = base
<1> DEFINE rest == a \o base
           n == Len(a)
           m == Len(base)
           slash == FirstPlace(rest, "/")
           split == IF slash = 0 THEN Len(rest) + 1 ELSE slash
<1>1. /\ n \in Nat /\ m \in Nat /\ rest \in Seq(Token) /\ Len(rest) = n + m
      /\ \A i \in 1..n + m : rest[i] = IF i <= n THEN a[i] ELSE base[i - n]
  BY ConcatProperties, LenProperties
<1>2. SubSeq(rest, 1, n) = a /\ SubSeq(rest, n + 1, Len(rest)) = base
  BY Parts
<1>3. \A i \in 1..n : a[i] # "/"
  BY DEF FreeOf
<1>4. base = <<>> <=> m = 0
  BY EmptySeq
<1> HIDE DEF rest, n, m
<1>5. ASSUME base = <<>> PROVE split = n + 1
  <2>1. Len(rest) = n /\ m = 0
    BY <1>1, <1>4, <1>5
  <2>2. FreeOf(rest, "/")
    <3>1. \A i \in 1..n : i \in 1..n + m /\ i <= n
      BY <1>1
    <3> QED
      BY <1>1, <1>3, <2>1, <3>1 DEF FreeOf
  <2>3. slash = 0
    BY <1>1, <2>2, NoPlace
  <2> QED
    BY <2>1, <2>3
<1>6. ASSUME base # <<>> PROVE split = n + 1
  <2>1. n + 1 \in 1..Len(rest) /\ rest[n + 1] = "/"
    <3>1. n + 1 \in 1..n + m /\ ~(n + 1 <= n) /\ (n + 1) - n = 1
      BY <1>1, <1>4, <1>6
    <3> QED
      BY <1>1, <1>6, <3>1 DEF PathLike
  <2>2. ASSUME NEW i \in 1..Len(rest), i < n + 1 PROVE rest[i] # "/"
    <3>1. i \in 1..n /\ i \in 1..n + m /\ i <= n
      BY <1>1, <2>2
    <3> QED
      BY <1>1, <1>3, <3>1
  <2>3. slash = n + 1
    BY <1>1, <2>1, <2>2, FirstPlaceAt
  <2>4. n + 1 # 0
    BY <1>1
  <2> HIDE DEF slash
  <2> QED
    BY <2>3, <2>4
<1>7. split = n + 1
  BY <1>5, <1>6, Zenon
<1>8. (n + 1) - 1 = n
  BY <1>1
<1> HIDE DEF split
<1>9. split = n + 1 /\ SubSeq(rest, 1, split - 1) = a /\ SubSeq(rest, split, Len(rest)) = base
  BY <1>2, <1>7, <1>8
<1> QED
  BY <1>9 DEF split, slash, rest, n

\* A URL that is put together from its parts is taken apart into them.
LEMMA ParseRebuilt ==
  ASSUME NEW scheme \in Schemes, NEW a \in Seq(Token), NEW base \in Seq(Token),
         FreeOf(a, "/"), PathLike(base)
  PROVE  ParseEndpoint((<<scheme, "://">> \o a) \o base) = ParseAuthority(scheme, a, base)
<1> DEFINE head == <<scheme, "://">>
           rest == a \o base
           text == head \o rest
<1>1. scheme \in Token /\ "://" \in Token
  BY TokenAssumption DEF Marks
<1>2. head \in Seq(Token) /\ Len(head) = 2 /\ head[1] = scheme /\ head[2] = "://"
  <2>1. \A x, y \in Token : <<x, y>> \in Seq(Token) /\ Len(<<x, y>>) = 2
    OBVIOUS
  <2> QED
    BY <1>1, <2>1
<1>3. rest \in Seq(Token) /\ Len(rest) \in Nat
  BY ConcatProperties, LenProperties
<1> DEFINE slash == FirstPlace(rest, "/")
           split == IF slash = 0 THEN Len(rest) + 1 ELSE slash
<1>4. SubSeq(rest, 1, split - 1) = a /\ SubSeq(rest, split, Len(rest)) = base
  BY SplitAt
<1> HIDE DEF head, rest
<1>5. (head \o a) \o base = text
  <2>1. \A x, y, z \in Seq(Token) : (x \o y) \o z = x \o (y \o z)
    BY SMTT(60)
  <2> QED
    BY <1>2, <2>1, Zenon DEF rest
<1>6. SubSeq(text, 3, Len(text)) = rest
  <2>1. SubSeq(text, Len(head) + 1, Len(text)) = rest
    BY <1>2, <1>3, Parts
  <2> HIDE DEF text
  <2> QED
    BY <1>2, <2>1
<1>7. Len(text) >= 2 /\ text[1] = scheme /\ text[2] = "://"
  <2>0. /\ Len(text) = Len(head) + Len(rest)
        /\ \A i \in 1..Len(head) + Len(rest) :
             text[i] = IF i <= Len(head) THEN head[i] ELSE rest[i - Len(head)]
    BY <1>2, <1>3, ConcatProperties, Zenon
  <2> HIDE DEF text
  <2>1. /\ Len(text) = 2 + Len(rest)
        /\ \A i \in 1..2 + Len(rest) : text[i] = IF i <= 2 THEN head[i] ELSE rest[i - 2]
    BY <1>2, <2>0
  <2>2. 1 \in 1..2 + Len(rest) /\ 2 \in 1..2 + Len(rest)
    BY <1>3
  <2> QED
    BY <1>2, <1>3, <2>1, <2>2
<1> HIDE DEF text
<1>8. ~(Len(text) < 2 \/ text[2] # "://" \/ text[1] \notin Schemes)
  <2>1. Len(text) \in Nat
    BY <1>2, <1>3, ConcatProperties DEF text
  <2> QED
    BY <1>7, <2>1
<1>9. ParseEndpoint(text) =
        ParseAuthority(text[1], SubSeq(rest, 1, split - 1), SubSeq(rest, split, Len(rest)))
  <2> HIDE DEF rest
  <2> DEFINE r == SubSeq(text, 3, Len(text))
             sl == FirstPlace(r, "/")
             sp == IF sl = 0 THEN Len(r) + 1 ELSE sl
  <2>1. ParseEndpoint(text) =
          IF Len(text) < 2 \/ text[2] # "://" \/ text[1] \notin Schemes THEN Nowhere
          ELSE ParseAuthority(text[1], SubSeq(r, 1, sp - 1), SubSeq(r, sp, Len(r)))
    BY ParseIs, Zenon
  <2>2. r = rest
    BY <1>6
  <2> HIDE DEF r
  <2> QED
    BY <1>8, <2>1, <2>2, Zenon
<1> HIDE DEF split
<1>10. ParseEndpoint(text) = ParseAuthority(scheme, a, base)
  BY <1>4, <1>7, <1>9, Zenon
<1> QED
  BY <1>5, <1>10, Zenon DEF head

-----------------------------------------------------------------------------
(***************************************************************************)
(* parse_endpoint undoes origin: what it accepts consists of a scheme, an  *)
(* authority that is a host, with or without a port, and a path.           *)
(***************************************************************************)

\* What parse_endpoint accepts has a scheme, an authority without a slash and a
\* path that starts with one.
LEMMA ParsedParts ==
  ASSUME NEW text \in Seq(Token), ParseEndpoint(text).valid
  PROVE  \E scheme \in Schemes, a \in Seq(Token), base \in Seq(Token) :
           /\ FreeOf(a, "/") /\ PathLike(base)
           /\ ParseEndpoint(text) = ParseAuthority(scheme, a, base)
<1> DEFINE rest == SubSeq(text, 3, Len(text))
           slash == FirstPlace(rest, "/")
           split == IF slash = 0 THEN Len(rest) + 1 ELSE slash
           a == SubSeq(rest, 1, split - 1)
           base == SubSeq(rest, split, Len(rest))
<1>1. ParseEndpoint(text) =
        IF Len(text) < 2 \/ text[2] # "://" \/ text[1] \notin Schemes THEN Nowhere
        ELSE ParseAuthority(text[1], a, base)
  BY ParseIs, Zenon
<1> HIDE DEF rest
<1>2. ~Nowhere.valid
  BY DEF Nowhere
<1> HIDE DEF a, base
<1>3. /\ ~(Len(text) < 2 \/ text[2] # "://" \/ text[1] \notin Schemes)
      /\ ParseEndpoint(text) = ParseAuthority(text[1], a, base)
  BY <1>1, <1>2, Zenon
<1>4. rest \in Seq(Token) /\ Len(rest) \in Nat
  <2>1. Len(text) \in Nat /\ 3 \in 1..Len(text) + 1
    BY <1>3, LenProperties
  <2> QED
    BY <2>1, Sides, LenProperties DEF rest
<1>5. /\ split \in 1..Len(rest) + 1
      /\ \A i \in 1..Len(rest) : i < split => rest[i] # "/"
      /\ split <= Len(rest) => rest[split] = "/"
  <2>1. CASE slash = 0 /\ FreeOf(rest, "/")
    BY <1>4, <2>1 DEF FreeOf
  <2>2. CASE /\ slash \in 1..Len(rest) /\ rest[slash] = "/"
             /\ \A i \in 1..Len(rest) : i < slash => rest[i] # "/"
    <3>1. slash # 0
      BY <2>2
    <3> HIDE DEF slash
    <3> QED
      BY <1>4, <2>2, <3>1
  <2> QED
    BY <1>4, <2>1, <2>2, FirstPlaceIs
<1> HIDE DEF split
<1>6. /\ a \in Seq(Token) /\ Len(a) = split - 1 /\ \A i \in 1..split - 1 : a[i] = rest[i]
      /\ base \in Seq(Token) /\ Len(base) = Len(rest) - split + 1
      /\ \A i \in 1..Len(rest) - split + 1 : base[i] = rest[split + i - 1]
  BY <1>4, <1>5, Sides DEF a, base
<1>7. FreeOf(a, "/")
  <2>1. \A i \in 1..split - 1 : i \in 1..Len(rest) /\ i < split
    BY <1>4, <1>5
  <2> QED
    BY <1>5, <1>6, <2>1 DEF FreeOf
<1>8. PathLike(base)
  <2>1. CASE split <= Len(rest)
    <3>1. 1 \in 1..Len(rest) - split + 1 /\ split + 1 - 1 = split
      BY <1>4, <1>5, <2>1
    <3> QED
      BY <1>5, <1>6, <2>1, <3>1 DEF PathLike
  <2>2. CASE ~(split <= Len(rest))
    <3>1. Len(base) = 0
      BY <1>4, <1>5, <1>6, <2>2
    <3> QED
      BY <1>6, <3>1, EmptySeq DEF PathLike
  <2> QED
    BY <2>1, <2>2
<1> QED
  BY <1>3, <1>6, <1>7, <1>8

\* A host without a colon is its own authority.
LEMMA BareHost ==
  ASSUME NEW scheme \in Schemes, NEW host \in Seq(Token), NEW base, host # <<>>, FreeOf(host, ":")
  PROVE  ParseAuthority(scheme, host, base) = Located(scheme, host, DefaultPort(scheme), base)
<1>1. FirstPlace(host, ":") = 0
  BY NoPlace
<1> QED
  BY <1>1, AuthorityIs, Zenon

\* A host without a colon and a port behind one.
LEMMA HostAndPort ==
  ASSUME NEW scheme \in Schemes, NEW host \in Seq(Token), NEW base, FreeOf(host, ":"),
         NEW token \in DOMAIN Number, Number[token] <= MaxPort
  PROVE  ParseAuthority(scheme, host \o <<":", token>>, base) = Located(scheme, host, Number[token], base)
<1> DEFINE tail == <<":", token>>
           text == host \o tail
           n == Len(host)
<1>1. /\ tail \in Seq(Token) /\ Len(tail) = 2 /\ tail[1] = ":" /\ tail[2] = token /\ token # ":"
      /\ Number[token] \in Nat
  <2>1. \A x, y \in Token : <<x, y>> \in Seq(Token) /\ Len(<<x, y>>) = 2
    OBVIOUS
  <2>2. ":" \in Token /\ token \in Token /\ token # ":" /\ Number[token] \in Nat
    BY TokenAssumption DEF Marks
  <2> QED
    BY <2>1, <2>2
<1> HIDE DEF tail
<1>2. /\ n \in Nat /\ text \in Seq(Token) /\ Len(text) = n + 2
      /\ \A i \in 1..n + 2 : text[i] = IF i <= n THEN host[i] ELSE tail[i - n]
  <2>1. /\ n \in Nat /\ text \in Seq(Token) /\ Len(text) = n + Len(tail)
        /\ \A i \in 1..n + Len(tail) : text[i] = IF i <= n THEN host[i] ELSE tail[i - n]
    BY <1>1, ConcatProperties, LenProperties, Zenon
  <2> HIDE DEF text, n
  <2> QED
    BY <1>1, <2>1
<1>3. SubSeq(text, 1, n) = host
  BY <1>1, Parts
<1>4. \A i \in 1..n : host[i] # ":"
  BY DEF FreeOf
<1> HIDE DEF text, n
<1>5. /\ n + 1 \in 1..Len(text) /\ text[n + 1] = ":" /\ text[n + 2] = token
      /\ \A i \in 1..Len(text) : i # n + 1 => text[i] # ":"
  <2>1. /\ n + 1 \in 1..n + 2 /\ ~(n + 1 <= n) /\ (n + 1) - n = 1
        /\ n + 2 \in 1..n + 2 /\ ~(n + 2 <= n) /\ (n + 2) - n = 2
    BY <1>2
  <2>2. text[n + 1] = ":" /\ text[n + 2] = token
    BY <1>1, <1>2, <2>1
  <2>3. ASSUME NEW i \in 1..n + 2, i # n + 1 PROVE text[i] # ":"
    <3>1. i <= n \/ i = n + 2
      BY <1>2, <2>3
    <3>2. CASE i <= n
      BY <1>2, <1>4, <3>2
    <3> QED
      BY <1>1, <2>2, <3>1, <3>2
  <2> QED
    BY <1>2, <2>1, <2>2, <2>3
<1>6. FirstPlace(text, ":") = n + 1
  <2>1. \A i \in 1..Len(text) : i < n + 1 => text[i] # ":"
    BY <1>2, <1>5
  <2> QED
    BY <1>2, <1>5, <2>1, FirstPlaceAt
<1>7. LastPlace(text, ":") = n + 1
  <2>1. \A i \in 1..Len(text) : i > n + 1 => text[i] # ":"
    BY <1>2, <1>5
  <2> QED
    BY <1>2, <1>5, <2>1, LastPlaceAt
<1> DEFINE u == SubSeq(text, (n + 1) + 1, Len(text))
<1>8. Len(u) = 1 /\ u[1] = token
  <2>1. n + 2 \in 1..Len(text) + 1 /\ Len(text) - (n + 2) + 1 = 1 /\ (n + 2) + 1 - 1 = n + 2
    BY <1>2
  <2>2. /\ Len(SubSeq(text, n + 2, Len(text))) = Len(text) - (n + 2) + 1
        /\ \A i \in 1..Len(text) - (n + 2) + 1 :
             SubSeq(text, n + 2, Len(text))[i] = text[(n + 2) + i - 1]
    BY <1>2, <2>1, Sides
  <2>3. (n + 1) + 1 = n + 2
    BY <1>2
  <2>4. u = SubSeq(text, n + 2, Len(text))
    BY <2>3
  <2> HIDE DEF u
  <2>5. 1 \in 1..1
    OBVIOUS
  <2> QED
    BY <1>5, <2>1, <2>2, <2>4, <2>5
<1> HIDE DEF u
<1>9. PortOf(u) = Number[token]
  BY <1>8 DEF PortOf
<1>10. ~(Number[token] > MaxPort)
  BY <1>1 DEF MaxPort
<1>11. text # <<>> /\ n + 1 # 0 /\ (n + 1) - 1 = n
  BY <1>2, EmptySeq
<1>12. ParseAuthority(scheme, text, base) =
         IF text = <<>> THEN Nowhere
         ELSE IF n + 1 = 0 \/ n + 1 # n + 1
           THEN Located(scheme, text, DefaultPort(scheme), base)
         ELSE IF PortOf(u) > MaxPort THEN Nowhere
         ELSE Located(scheme, SubSeq(text, 1, (n + 1) - 1), PortOf(u), base)
  BY <1>6, <1>7, AuthorityIs, Zenon DEF u
<1>13. ParseAuthority(scheme, text, base) = Located(scheme, host, Number[token], base)
  BY <1>3, <1>9, <1>10, <1>11, <1>12, Zenon
<1> QED
  BY <1>13 DEF text, tail

\* The endpoint of an authority: all of it is the host, and the port the
\* scheme's own, or it ends in a port.
LEMMA AuthorityCases ==
  ASSUME NEW scheme \in Schemes, NEW a \in Seq(Token), NEW base,
         ParseAuthority(scheme, a, base).valid
  PROVE  \/ ParseAuthority(scheme, a, base) = Located(scheme, a, DefaultPort(scheme), base)
         \/ \E host \in Seq(Token), token \in DOMAIN Number :
              /\ FreeOf(host, ":") /\ Number[token] <= MaxPort
              /\ \A x : FreeOf(a, x) => FreeOf(host, x)
              /\ ParseAuthority(scheme, a, base) = Located(scheme, host, Number[token], base)
<1> DEFINE colon == FirstPlace(a, ":")
           digits == SubSeq(a, colon + 1, Len(a))
           port == PortOf(digits)
           host == SubSeq(a, 1, colon - 1)
           result == ParseAuthority(scheme, a, base)
<1>1. result = IF a = <<>> THEN Nowhere
               ELSE IF colon = 0 \/ LastPlace(a, ":") # colon
                 THEN Located(scheme, a, DefaultPort(scheme), base)
               ELSE IF port > MaxPort THEN Nowhere
               ELSE Located(scheme, host, port, base)
  BY AuthorityIs, Zenon
<1> HIDE DEF host, port, colon
<1>2. result.valid /\ ~Nowhere.valid
  BY DEF Nowhere
<1> HIDE DEF result
<1>3. CASE colon = 0 \/ LastPlace(a, ":") # colon
  <2>1. result = Nowhere \/ result = Located(scheme, a, DefaultPort(scheme), base)
    BY <1>1, <1>3, Zenon
  <2>2. result = Located(scheme, a, DefaultPort(scheme), base)
    BY <1>2, <2>1, Zenon
  <2> QED
    BY <2>2 DEF result
<1>4. CASE ~(colon = 0 \/ LastPlace(a, ":") # colon)
  <2>1. result = Nowhere \/ (~(port > MaxPort) /\ result = Located(scheme, host, port, base))
    BY <1>1, <1>4, Zenon
  <2>2. ~(port > MaxPort) /\ result = Located(scheme, host, port, base)
    BY <1>2, <2>1, Zenon
  <2>3. PICK token \in DOMAIN Number : port = Number[token]
    <3>1. ~(MaxPort + 1 > MaxPort) => FALSE
      BY DEF MaxPort
    <3>2. port # MaxPort + 1
      BY <2>2, <3>1
    <3>3. Len(digits) = 1 /\ digits[1] \in DOMAIN Number /\ port = Number[digits[1]]
      BY <3>2 DEF PortOf, port
    <3> QED
      BY <3>3
  <2>4. port \in Nat /\ port <= MaxPort
    <3>1. port \in Nat
      BY <2>3, TokenAssumption
    <3> QED
      BY <2>2, <3>1 DEF MaxPort
  <2>5. colon \in 1..Len(a) /\ \A i \in 1..Len(a) : i < colon => a[i] # ":"
    BY <1>4, FirstPlaceIs DEF colon
  <2>6. Len(a) \in Nat
    BY LenProperties
  <2>7. host \in Seq(Token) /\ Len(host) = colon - 1 /\ \A i \in 1..colon - 1 : host[i] = a[i]
    <3>1. colon \in 1..Len(a) + 1
      BY <2>5, <2>6
    <3> QED
      BY <3>1, Sides DEF host
  <2>8. \A i \in 1..colon - 1 : i \in 1..Len(a) /\ i < colon
    BY <2>5, <2>6
  <2>9. FreeOf(host, ":")
    BY <2>5, <2>7, <2>8 DEF FreeOf
  <2>10. \A x : FreeOf(a, x) => FreeOf(host, x)
    BY <2>7, <2>8 DEF FreeOf
  <2> QED
    BY <2>2, <2>3, <2>4, <2>7, <2>9, <2>10, Zenon DEF result
<1> QED
  BY <1>3, <1>4

\* The port's text is read as the port.
LEMMA PortRead ==
  ASSUME NEW token \in DOMAIN Number
  PROVE  PortText(Number[token]) \in DOMAIN Number /\ Number[PortText(Number[token])] = Number[token]
BY DEF PortText

\* The authority that origin writes reads back, as long as there is a host.
LEMMA AuthorityReadsBack ==
  ASSUME NEW scheme \in Schemes, NEW a \in Seq(Token), NEW base, FreeOf(a, "/"),
         ParseAuthority(scheme, a, base).valid, ParseAuthority(scheme, a, base).host # <<>>
  PROVE  LET e == ParseAuthority(scheme, a, base)
         IN  /\ e.scheme = scheme /\ e.base = base
             /\ Authority(e) \in Seq(Token) /\ FreeOf(Authority(e), "/")
             /\ ParseAuthority(scheme, Authority(e), base) = e
<1> DEFINE e == ParseAuthority(scheme, a, base)
<1> HIDE DEF e
<1>1. CASE e = Located(scheme, a, DefaultPort(scheme), base)
  <2>1. e.scheme = scheme /\ e.host = a /\ e.port = DefaultPort(scheme) /\ e.base = base
    BY <1>1 DEF Located
  <2>2. Authority(e) = a
    BY <2>1, Zenon DEF Authority
  <2> QED
    BY <2>1, <2>2 DEF e
<1>2. ASSUME NEW host \in Seq(Token), NEW token \in DOMAIN Number,
             FreeOf(host, ":"), Number[token] <= MaxPort, FreeOf(a, "/") => FreeOf(host, "/"),
             e = Located(scheme, host, Number[token], base)
      PROVE  /\ e.scheme = scheme /\ e.base = base
             /\ Authority(e) \in Seq(Token) /\ FreeOf(Authority(e), "/")
             /\ ParseAuthority(scheme, Authority(e), base) = e
  <2>1. e.scheme = scheme /\ e.host = host /\ e.port = Number[token] /\ e.base = base
    BY <1>2 DEF Located
  <2>2. host # <<>>
    BY <2>1 DEF e
  <2>3. CASE Number[token] = DefaultPort(scheme)
    <3>1. Authority(e) = host
      BY <2>1, <2>3, Zenon DEF Authority
    <3>2. ParseAuthority(scheme, host, base) = e
      BY <1>2, <2>2, <2>3, BareHost, Zenon
    <3> QED
      BY <1>2, <2>1, <3>1, <3>2, Zenon
  <2>4. CASE Number[token] # DefaultPort(scheme)
    <3> DEFINE digits == PortText(Number[token])
               tail == <<":", digits>>
    <3>1. digits \in DOMAIN Number /\ Number[digits] = Number[token]
      BY PortRead, Zenon
    <3> HIDE DEF digits
    <3>2. Authority(e) = host \o tail
      BY <2>1, <2>4, Zenon DEF Authority, digits
    <3>3. ParseAuthority(scheme, host \o tail, base) = e
      <4>1. Number[digits] <= MaxPort
        BY <1>2, <3>1
      <4>2. ParseAuthority(scheme, host \o tail, base) = Located(scheme, host, Number[digits], base)
        BY <1>2, <3>1, <4>1, HostAndPort, Zenon
      <4> QED
        BY <1>2, <3>1, <4>2, Zenon
    <3>4. tail \in Seq(Token) /\ FreeOf(tail, "/")
      <4>1. \A x, y \in Token : /\ <<x, y>> \in Seq(Token) /\ Len(<<x, y>>) = 2
                                /\ <<x, y>>[1] = x /\ <<x, y>>[2] = y
        OBVIOUS
      <4>2. ":" \in Token /\ digits \in Token /\ digits # "/" /\ ":" # "/"
        BY <3>1, TokenAssumption DEF Marks
      <4>3. tail \in Seq(Token) /\ Len(tail) = 2 /\ tail[1] = ":" /\ tail[2] = digits
        BY <4>1, <4>2
      <4> HIDE DEF tail
      <4> QED
        BY <4>2, <4>3 DEF FreeOf
    <3> HIDE DEF tail
    <3>5. host \o tail \in Seq(Token) /\ FreeOf(host \o tail, "/")
      BY <1>2, <3>4, ConcatProperties, FreeConcat
    <3> QED
      BY <2>1, <3>2, <3>3, <3>5, Zenon
  <2> QED
    BY <2>3, <2>4
<1> QED
  BY <1>1, <1>2, AuthorityCases DEF e

\* An endpoint whose origin and base path read back.
ReadsBack(e) == e.host # <<>> => ParseEndpoint(Origin(e) \o e.base) = e

LEMMA ParsedReadsBack ==
  ASSUME NEW text \in Seq(Token), ParseEndpoint(text).valid
  PROVE  ReadsBack(ParseEndpoint(text))
<1> DEFINE e == ParseEndpoint(text)
<1> SUFFICES ASSUME e.host # <<>> PROVE ParseEndpoint(Origin(e) \o e.base) = e
  BY DEF ReadsBack
<1>1. PICK scheme \in Schemes, a \in Seq(Token), base \in Seq(Token) :
        FreeOf(a, "/") /\ PathLike(base) /\ e = ParseAuthority(scheme, a, base)
  BY ParsedParts
<1>2. e.valid
  OBVIOUS
<1> HIDE DEF e
<1>3. /\ e.scheme = scheme /\ e.base = base
      /\ Authority(e) \in Seq(Token) /\ FreeOf(Authority(e), "/")
      /\ ParseAuthority(scheme, Authority(e), base) = e
  BY <1>1, <1>2, AuthorityReadsBack
<1>4. Origin(e) = <<scheme, "://">> \o Authority(e)
  BY <1>3, Zenon DEF Origin
<1>5. ParseEndpoint((<<scheme, "://">> \o Authority(e)) \o base) = e
  BY <1>1, <1>3, ParseRebuilt, Zenon
<1> QED
  BY <1>3, <1>4, <1>5, Zenon

LEMMA DefaultReadsBack == ReadsBack(Default)
<1>1. PICK host \in Token \ Marks : Default = Located("https", <<host>>, 443, <<>>)
  BY TextAssumption
<1> DEFINE a == <<host>>
<1>2. a \in Seq(Token) /\ a # <<>> /\ FreeOf(a, ":") /\ FreeOf(a, "/")
  <2>1. host # ":" /\ host # "/"
    BY DEF Marks
  <2>2. a \in Seq(Token) /\ Len(a) = 1 /\ a[1] = host
    OBVIOUS
  <2> QED
    BY <2>1, <2>2 DEF FreeOf
<1> HIDE DEF a
<1>3. "https" \in Schemes /\ DefaultPort("https") = 443
  BY DEF Schemes, DefaultPort
<1>4. Default.scheme = "https" /\ Default.host = a /\ Default.port = 443 /\ Default.base = <<>>
  BY <1>1 DEF a, Located
<1>5. Authority(Default) = a
  BY <1>3, <1>4, Zenon DEF Authority
<1>6. <<>> \in Seq(Token) /\ PathLike(<<>>)
  BY EmptySeq DEF PathLike
<1>7. ParseEndpoint((<<"https", "://">> \o a) \o <<>>) = ParseAuthority("https", a, <<>>)
  BY <1>2, <1>3, <1>6, ParseRebuilt, Zenon
<1>8. ParseAuthority("https", a, <<>>) = Located("https", a, 443, <<>>)
  BY <1>2, <1>3, BareHost, ZenonT(40)
<1>9. Origin(Default) = <<"https", "://">> \o a
  BY <1>4, <1>5, Zenon DEF Origin
<1> QED
  BY <1>1, <1>4, <1>7, <1>8, <1>9, ZenonT(40) DEF ReadsBack, a

LEMMA NextReadsBack == ReadsBack(endpoint) /\ [CAbiNext]_vars => ReadsBack(endpoint)'
<1> SUFFICES ASSUME ReadsBack(endpoint), [CAbiNext]_vars PROVE ReadsBack(endpoint')
  BY DEF ReadsBack
<1>1. CASE endpoint' = endpoint
  BY <1>1
<1>2. ASSUME NEW t \in Thread, Create(t) PROVE ReadsBack(endpoint')
  <2>1. PICK text \in ConfigText : endpoint' = Configured(text)
    BY <1>2 DEF Create
  <2>2. CASE ParseEndpoint(text).valid
    <3>1. endpoint' = ParseEndpoint(text)
      BY <2>1, <2>2 DEF Configured
    <3>2. text \in Seq(Token)
      BY TextAssumption
    <3> QED
      BY <2>2, <3>1, <3>2, ParsedReadsBack, Zenon
  <2>3. CASE ~ParseEndpoint(text).valid
    <3>1. endpoint' = Default
      BY <2>1, <2>3 DEF Configured
    <3> QED
      BY <3>1, DefaultReadsBack, Zenon
  <2> QED
    BY <2>2, <2>3
<1>3. ASSUME NEW t \in Thread,
             \/ CreateFails(t) \/ Begin(t) \/ BeginClose(t) \/ Finalize(t) \/ InClose(t)
             \/ Misuse(t)
      PROVE  endpoint' = endpoint
  BY <1>3 DEF CreateFails, Begin, BeginClose, Finalize, InClose, Destroy, Clear, Misuse, object
<1>4. ASSUME NEW t \in Thread, InCall(t) PROVE endpoint' = endpoint
  BY <1>4
  DEF InCall, Refuse, Load, Borrow, Drop, SetError, SetResponse, Finish, FinishCreate, object
<1>5. ASSUME DeleteState \/ UNCHANGED vars PROVE endpoint' = endpoint
  BY <1>5 DEF DeleteState, object, vars
<1> QED
  BY <1>1, <1>2, <1>3, <1>4, <1>5 DEF CAbiNext

\* Whatever text the configuration names an endpoint with, and connect's default
\* as well: the origin that the transport opens, with the base path, is read by
\* parse_endpoint as the same endpoint, its port and a host with colons included.
THEOREM EndpointsReadBack == CAbiSpec => []EndpointReadsBack
<1>1. CAbiInit => ReadsBack(endpoint)
  BY DefaultReadsBack, Zenon DEF CAbiInit
<1>2. ReadsBack(endpoint) => EndpointReadsBack
  BY DEF ReadsBack, EndpointReadsBack
<1> QED
  BY <1>1, <1>2, NextReadsBack, PTL DEF CAbiSpec
===============================================================================

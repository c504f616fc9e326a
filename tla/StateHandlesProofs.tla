-------------------------- MODULE StateHandlesProofs --------------------------
(***************************************************************************)
(* The reference count of the handles is exact, no state is used after it  *)
(* was deleted, and the handles implement shared ownership: for any        *)
(* numbers of states, handles and threads.                                 *)
(***************************************************************************)
EXTENDS StateHandles, FiniteSetTheorems, TLAPS

\* Every type but that of refs, whose lower bound needs the count.
Types ==
  /\ life \in [State -> {"unborn", "alive", "deleted"}]
  /\ held \in [Handle -> State \cup {Null, NoObject}]
  /\ pc \in [Thread -> Label]
  /\ kind \in [Thread -> Kind]
  /\ dst \in [Thread -> Handle \cup {Null}]
  /\ src \in [Thread -> Handle \cup {Null}]

\* The operands of a thread fit the member function it is in.
Operands(t) ==
  /\ pc[t] = "idle" => dst[t] = Null /\ src[t] = Null /\ kind[t] = "use"
  /\ pc[t] = "use" => dst[t] = Null /\ kind[t] = "use"
  /\ pc[t] = "retain" => kind[t] \in {"copy", "copy_assign"}
  /\ pc[t] \in {"release", "delete", "finish"} =>
       kind[t] \in {"copy_assign", "move_assign", "destroy"}
  /\ pc[t] \in {"retain", "release", "delete", "finish"} =>
       dst[t] \in Handle /\ held[dst[t]] # NoObject
  /\ pc[t] # "idle" /\ kind[t] # "destroy" =>
       src[t] \in Handle /\ held[src[t]] # NoObject /\ src[t] # dst[t]
  /\ kind[t] = "destroy" => src[t] = Null
  /\ pc[t] = "use" => held[src[t]] # Null
  /\ pc[t] = "delete" => held[dst[t]] \in State
  /\ kind[t] = "copy" => held[dst[t]] = held[src[t]]

\* What the language guarantees: a handle one thread writes is no other's.
Exclusive(t, u) ==
  /\ dst[t] \in Handle => dst[u] # dst[t] /\ src[u] # dst[t]
  /\ kind[t] = "move_assign" => src[u] # src[t]

Discipline ==
  /\ \A t \in Thread : Operands(t)
  /\ \A t, u \in Thread : t # u => Exclusive(t, u)

Deleting(t, s) == pc[t] = "delete" /\ held[dst[t]] = s

\* How the life of a state goes with its references and its deletion.
Account(s) ==
  /\ refs[s] = Cardinality(Claims(s))
  /\ Claims(s) # {} => life[s] = "alive"
  /\ life[s] = "unborn" => \A h \in Handle : held[h] # s
  /\ \A t \in Thread : Deleting(t, s) => life[s] = "alive" /\ Claims(s) = {}
  /\ \A t, u \in Thread : Deleting(t, s) /\ Deleting(u, s) => t = u

IInv ==
  /\ Types
  /\ refs \in [State -> Nat]
  /\ Discipline
  /\ \A s \in State : Account(s)

-----------------------------------------------------------------------------
\* The language's rule keeps the operands of the threads apart.
LEMMA DisciplineKept ==
  ASSUME Types, Discipline, [Next]_vars
  PROVE  Types' /\ Discipline'
<1> USE DistinctAssumption DEF Types, Discipline, Operands, Exclusive, Label, Kind
<1> DEFINE Goal == Types' /\ Discipline'
<1>1. CASE UNCHANGED vars
  BY <1>1 DEF vars
<1>2. ASSUME NEW t \in Thread, NEW d \in Handle, Connect(t, d) PROVE Goal
  BY <1>2 DEF Connect, CanWrite, Writing, Reading
<1>3. ASSUME NEW t \in Thread, NEW d \in Handle, DefaultConstruct(t, d) PROVE Goal
  BY <1>3 DEF DefaultConstruct, CanWrite, Writing, Reading
<1>4. ASSUME NEW t \in Thread, NEW d \in Handle, Destroy(t, d) PROVE Goal
  BY <1>4 DEF Destroy, Enter, CanWrite, Writing, Reading, Reads
<1>5. ASSUME NEW t \in Thread, NEW s \in Handle, Use(t, s) PROVE Goal
  BY <1>5 DEF Use, Enter, CanRead, Writing
<1>6. ASSUME NEW t \in Thread, NEW d \in Handle, NEW s \in Handle, CopyConstruct(t, d, s)
      PROVE  Goal
  BY <1>6 DEF CopyConstruct, Enter, CanRead, CanWrite, Writing, Reading, Reads
<1>7. ASSUME NEW t \in Thread, NEW d \in Handle, NEW s \in Handle, CopyAssign(t, d, s)
      PROVE  Goal
  BY <1>7 DEF CopyAssign, Enter, CanRead, CanWrite, Writing, Reading, Reads
<1>8. ASSUME NEW t \in Thread, NEW d \in Handle, NEW s \in Handle, MoveConstruct(t, d, s)
      PROVE  Goal
  BY <1>8 DEF MoveConstruct, CanWrite, Writing, Reading, Reads
<1>9. ASSUME NEW t \in Thread, NEW d \in Handle, NEW s \in Handle, MoveAssign(t, d, s)
      PROVE  Goal
  BY <1>9 DEF MoveAssign, Enter, CanWrite, Writing, Reading, Reads
<1>10. ASSUME NEW t \in Thread, UseEnds(t) PROVE Goal
  BY <1>10 DEF UseEnds, Leave
<1>11. ASSUME NEW t \in Thread, Retain(t) PROVE Goal
  BY <1>11 DEF Retain, AfterRetain, Leave, Goto
<1>12. ASSUME NEW t \in Thread, Release(t) PROVE Goal
  BY <1>12 DEF Release, Goto
<1>13. ASSUME NEW t \in Thread, Delete(t) PROVE Goal
  BY <1>13 DEF Delete, Goto
<1>14. ASSUME NEW t \in Thread, Finish(t) PROVE Goal
  BY <1>14 DEF Finish, Leave
<1> QED
  BY <1>1, <1>2, <1>3, <1>4, <1>5, <1>6, <1>7, <1>8, <1>9, <1>10, <1>11, <1>12,
     <1>13, <1>14 DEF Next, Step

-----------------------------------------------------------------------------
LEMMA ClaimsFinite ==
  ASSUME NEW S \in SUBSET (Handle \cup Thread)
  PROVE  IsFiniteSet(S)
BY FiniteAssumption, FS_Union, FS_Subset

LEMMA ClaimsType == \A s : Claims(s) \subseteq Handle \cup Thread
BY DEF Claims

\* A step that changes no count, no life and no claim keeps the accounts.
LEMMA QuietStep ==
  ASSUME IInv, NEW s \in State,
         UNCHANGED <<life, refs>>,
         Claims(s)' = Claims(s),
         \A t \in Thread : Deleting(t, s)' => Deleting(t, s),
         life[s] = "unborn" => \A h \in Handle : held'[h] # s
  PROVE  Account(s)'
BY DEF IInv, Account

\* The entries into member functions, and the members that move nothing.
LEMMA EntriesKeepAccounts ==
  ASSUME IInv, NEW t \in Thread, NEW d \in Handle, NEW o \in Handle,
         \/ DefaultConstruct(t, d) \/ Destroy(t, d) \/ Use(t, d) \/ UseEnds(t)
         \/ CopyConstruct(t, d, o) \/ CopyAssign(t, d, o) \/ MoveAssign(t, d, o),
         NEW s \in State
  PROVE  Account(s)' /\ Claims(s)' = Claims(s)
<1> USE DistinctAssumption DEF IInv, Types, Discipline, Operands, Label, Kind
<1> DEFINE Quiet == /\ UNCHANGED <<life, refs>>
                    /\ Claims(s)' = Claims(s)
                    /\ \A u \in Thread : Deleting(u, s)' => Deleting(u, s)
                    /\ life[s] = "unborn" => \A h \in Handle : held'[h] # s
<1>0. life[s] = "unborn" => \A h \in Handle : held[h] # s
  BY DEF Account
<1>1. CASE DefaultConstruct(t, d)
  <2>1. Quiet
    BY <1>0, <1>1 DEF DefaultConstruct, CanWrite, Writing, Reading, Reads, Claims,
       Uncounted, Carries, Deleting
  <2> QED
    BY <2>1, QuietStep
<1>2. CASE Destroy(t, d)
  <2>1. Quiet
    BY <1>0, <1>2 DEF Destroy, Enter, Claims, Uncounted, Carries, Deleting
  <2> QED
    BY <2>1, QuietStep
<1>3. CASE Use(t, d)
  <2>1. Quiet
    BY <1>0, <1>3 DEF Use, Enter, Claims, Uncounted, Carries, Deleting
  <2> QED
    BY <2>1, QuietStep
<1>4. CASE UseEnds(t)
  <2>1. Quiet
    BY <1>0, <1>4 DEF UseEnds, Leave, Claims, Uncounted, Carries, Deleting
  <2> QED
    BY <2>1, QuietStep
<1>5. CASE CopyConstruct(t, d, o)
  <2>1. Quiet
    BY <1>0, <1>5 DEF CopyConstruct, Enter, CanRead, CanWrite, Writing, Reading, Reads,
       Claims, Uncounted, Carries, Deleting
  <2> QED
    BY <2>1, QuietStep
<1>6. CASE CopyAssign(t, d, o)
  <2>1. Quiet
    BY <1>0, <1>6 DEF CopyAssign, Enter, Claims, Uncounted, Carries, Deleting
  <2> QED
    BY <2>1, QuietStep
<1>7. CASE MoveAssign(t, d, o)
  <2>1. Quiet
    BY <1>0, <1>7 DEF MoveAssign, Enter, Claims, Uncounted, Carries, Deleting
  <2> QED
    BY <2>1, QuietStep
<1> QED
  BY <1>1, <1>2, <1>3, <1>4, <1>5, <1>6, <1>7

-----------------------------------------------------------------------------
\* connect() makes the first reference.
LEMMA ConnectKeepsAccounts ==
  ASSUME IInv, NEW t \in Thread, NEW d \in Handle, Connect(t, d), NEW s \in State
  PROVE  /\ Account(s)'
         /\ Claims(s)' = IF held'[d] = s THEN {d} ELSE Claims(s)
<1> USE DistinctAssumption DEF IInv, Types, Discipline, Operands, Label, Kind
<1>1. PICK n \in State :
        /\ life[n] = "unborn"
        /\ life' = [life EXCEPT ![n] = "alive"]
        /\ refs' = [refs EXCEPT ![n] = 1]
        /\ held' = [held EXCEPT ![d] = n]
  BY DEF Connect
<1>2. \A u \in Thread : dst[u] # d /\ src[u] # d
  BY DEF Connect, CanWrite, Writing, Reading, Reads
<1>3. UNCHANGED <<pc, kind, dst, src>> /\ held[d] = NoObject
  BY DEF Connect
<1>4. \A u \in Thread : Deleting(u, s)' <=> Deleting(u, s)
  BY <1>1, <1>2, <1>3 DEF Deleting
<1>5. CASE s = n
  <2>1. \A h \in Handle : held[h] # s
    BY <1>1, <1>5 DEF Account
  <2>2. Claims(s)' = {d}
    BY <1>1, <1>2, <1>3, <1>5, <2>1 DEF Claims, Uncounted, Carries
  <2>3. \A u \in Thread : ~Deleting(u, s)
    BY <2>1 DEF Deleting
  <2>4. Cardinality({d}) = 1
    BY FS_Singleton
  <2>5. refs'[s] = Cardinality(Claims(s)') /\ life'[s] = "alive"
    BY <1>1, <1>5, <2>2, <2>4
  <2>6. Account(s)'
    BY <1>4, <2>3, <2>5 DEF Account
  <2> QED
    BY <1>1, <1>5, <2>2, <2>6
<1>6. CASE s # n
  <2>1. Claims(s)' = Claims(s)
    BY <1>1, <1>2, <1>3, <1>6 DEF Claims, Uncounted, Carries
  <2>2. Account(s)'
    BY <1>1, <1>4, <1>6, <2>1 DEF Account
  <2> QED
    BY <1>1, <1>6, <2>1, <2>2
<1> QED
  BY <1>5, <1>6

\* One claimant takes over the claim of another.
Succeeds(s, c, d) ==
  /\ c \in Claims(s)
  /\ d \notin Claims(s)
  /\ Claims(s)' = (Claims(s) \ {c}) \cup {d}

LEMMA TransferStep ==
  ASSUME IInv, NEW s \in State, NEW c, NEW d, Succeeds(s, c, d),
         UNCHANGED <<life, refs>>,
         \A t \in Thread : ~Deleting(t, s)'
  PROVE  Account(s)'
<1> USE DEF Succeeds
<1>1. IsFiniteSet(Claims(s))
  BY ClaimsFinite, ClaimsType
<1>2. /\ IsFiniteSet(Claims(s) \ {c})
      /\ Cardinality(Claims(s) \ {c}) = Cardinality(Claims(s)) - 1
  BY <1>1, FS_RemoveElement
<1>3. Cardinality((Claims(s) \ {c}) \cup {d}) = Cardinality(Claims(s)) - 1 + 1
  BY <1>2, FS_AddElement
<1>4. refs[s] = Cardinality(Claims(s)) /\ refs[s] \in Nat /\ life[s] = "alive"
  BY DEF IInv, Account
<1> QED
  BY <1>3, <1>4 DEF Account

\* A move constructor hands its source's reference on.
LEMMA MoveConstructKeepsAccounts ==
  ASSUME IInv, NEW t \in Thread, NEW d \in Handle, NEW o \in Handle,
         MoveConstruct(t, d, o), NEW s \in State
  PROVE  /\ Account(s)'
         /\ IF held[o] = s THEN Succeeds(s, o, d) ELSE Claims(s)' = Claims(s)
<1> USE DistinctAssumption DEF IInv, Types, Discipline, Operands, Label, Kind
<1>1. \A u \in Thread : dst[u] \notin {d, o} /\ src[u] \notin {d, o}
  BY DEF MoveConstruct, CanWrite, Writing, Reading, Reads
<1>2. /\ held[d] = NoObject /\ held[o] # NoObject
      /\ held' = [held EXCEPT ![d] = held[o], ![o] = Null]
      /\ UNCHANGED <<life, refs, pc, kind, dst, src>>
  BY DEF MoveConstruct
<1>3. d # o
  BY <1>2
<1>4. \A u \in Thread : Deleting(u, s)' <=> Deleting(u, s)
  BY <1>1, <1>2 DEF Deleting
<1>5. CASE held[o] = s
  <2>1. o \in Claims(s) /\ d \notin Claims(s)
    BY <1>1, <1>2, <1>5 DEF Claims, Uncounted
  <2>2. Claims(s)' = (Claims(s) \ {o}) \cup {d}
    BY <1>1, <1>2, <1>3, <1>5 DEF Claims, Uncounted, Carries
  <2>3. \A u \in Thread : ~Deleting(u, s)
    BY <2>1 DEF Account
  <2>4. Succeeds(s, o, d)
    BY <2>1, <2>2 DEF Succeeds
  <2> QED
    BY <1>2, <1>4, <1>5, <2>3, <2>4, TransferStep
<1>6. CASE held[o] # s
  <2>1. Claims(s)' = Claims(s)
    BY <1>1, <1>2, <1>3, <1>6 DEF Claims, Uncounted, Carries
  <2>2. life[s] = "unborn" => \A h \in Handle : held'[h] # s
    BY <1>2, <1>6 DEF Account
  <2> QED
    BY <1>2, <1>4, <1>6, <2>1, <2>2, QuietStep
<1> QED
  BY <1>5, <1>6

\* delete: nobody has a claim to the state, and nobody else deletes it.
LEMMA DeleteKeepsAccounts ==
  ASSUME IInv, NEW t \in Thread, Delete(t), NEW s \in State
  PROVE  /\ Account(s)'
         /\ Claims(s)' = Claims(s)
         /\ s = held[dst[t]] => life[s] = "alive" /\ Claims(s) = {}
<1> USE DistinctAssumption DEF IInv, Types, Discipline, Operands, Label, Kind
<1>1. Deleting(t, held[dst[t]]) /\ held[dst[t]] \in State
  BY DEF Delete, Deleting
<1>2. /\ life' = [life EXCEPT ![held[dst[t]]] = "deleted"]
      /\ pc' = [pc EXCEPT ![t] = "finish"]
      /\ UNCHANGED <<refs, held, kind, dst, src>>
      /\ pc[t] = "delete"
  BY DEF Delete, Goto
<1>3. Claims(s)' = Claims(s)
  BY <1>2 DEF Claims, Uncounted, Carries
<1>4. \A u \in Thread : Deleting(u, s)' => Deleting(u, s) /\ u # t
  BY <1>2 DEF Deleting
<1>5. CASE s = held[dst[t]]
  <2>1. Claims(s) = {} /\ life[s] = "alive" /\ \A u \in Thread : Deleting(u, s) => u = t
    BY <1>1, <1>5 DEF Account
  <2> QED
    BY <1>2, <1>3, <1>4, <1>5, <2>1 DEF Account
<1>6. CASE s # held[dst[t]]
  BY <1>2, <1>3, <1>4, <1>6 DEF Account
<1> QED
  BY <1>5, <1>6

-----------------------------------------------------------------------------
\* A handle that no thread writes holds a counted reference.
LEMMA SourceIsCounted ==
  ASSUME IInv, NEW t \in Thread,
         \/ pc[t] \in {"retain", "use"}
         \/ pc[t] # "idle" /\ kind[t] \in {"copy_assign", "move_assign"},
         NEW s \in State, held[src[t]] = s
  PROVE  src[t] \in Claims(s) /\ life[s] = "alive"
<1>1. src[t] \in Handle /\ \A u \in Thread : dst[u] # src[t]
  BY DEF IInv, Types, Discipline, Operands, Exclusive, Kind, Label
<1>2. src[t] \in Claims(s)
  BY <1>1 DEF Claims, Uncounted
<1> QED
  BY <1>2 DEF IInv, Account

\* So does the handle whose reference is about to be released.
LEMMA TargetIsCounted ==
  ASSUME IInv, NEW t \in Thread, pc[t] = "release", NEW s \in State, held[dst[t]] = s
  PROVE  dst[t] \in Claims(s) /\ life[s] = "alive"
<1>1. dst[t] \in Handle /\ \A u \in Thread : u # t => dst[u] # dst[t]
  BY DEF IInv, Discipline, Operands, Exclusive
<1>2. dst[t] \in Claims(s)
  BY <1>1 DEF Claims, Uncounted
<1> QED
  BY <1>2 DEF IInv, Account

\* retain: the constructed handle, or the assigning thread, joins the claims.
LEMMA RetainKeepsAccounts ==
  ASSUME IInv, NEW t \in Thread, Retain(t), NEW s \in State
  PROVE  /\ Account(s)'
         /\ IF held[src[t]] = s
              THEN /\ Claims(s) # {}
                   /\ Claims(s)' = Claims(s) \cup {IF kind[t] = "copy" THEN dst[t] ELSE t}
              ELSE Claims(s)' = Claims(s)
<1> USE DistinctAssumption DEF IInv, Types, Discipline, Operands, Exclusive, Label, Kind
<1> DEFINE c == IF kind[t] = "copy" THEN dst[t] ELSE t
<1>1. /\ pc[t] = "retain" /\ kind[t] \in {"copy", "copy_assign"}
      /\ dst[t] \in Handle /\ src[t] \in Handle /\ src[t] # dst[t]
      /\ UNCHANGED <<life, held>>
  BY DEF Retain
<1>2. IF kind[t] = "copy"
        THEN /\ pc' = [pc EXCEPT ![t] = "idle"]
             /\ kind' = [kind EXCEPT ![t] = "use"]
             /\ dst' = [dst EXCEPT ![t] = Null]
             /\ src' = [src EXCEPT ![t] = Null]
        ELSE /\ pc' = [pc EXCEPT ![t] = "release"]
             /\ UNCHANGED <<kind, dst, src>>
  BY DEF Retain, AfterRetain, Leave, Goto
<1>3. \A u \in Thread : Deleting(u, s)' => Deleting(u, s)
  BY <1>1, <1>2 DEF Deleting
<1>4. CASE held[src[t]] = s
  <2>1. refs' = [refs EXCEPT ![s] = @ + 1]
    BY <1>4 DEF Retain
  <2>2. src[t] \in Claims(s) /\ life[s] = "alive"
    BY <1>1, <1>4, SourceIsCounted
  <2>3. c \notin Claims(s)
    BY <1>1 DEF Claims, Uncounted, Carries
  <2>4. Claims(s)' = Claims(s) \cup {c}
    <3>1. CASE kind[t] = "copy"
      BY <1>1, <1>2, <1>4, <3>1 DEF Claims, Uncounted, Carries
    <3>2. CASE kind[t] = "copy_assign"
      BY <1>1, <1>2, <1>4, <3>2 DEF Claims, Uncounted, Carries
    <3> QED
      BY <1>1, <3>1, <3>2
  <2>5. Cardinality(Claims(s) \cup {c}) = Cardinality(Claims(s)) + 1
    <3>1. IsFiniteSet(Claims(s))
      BY ClaimsFinite, ClaimsType
    <3> HIDE DEF c
    <3> QED
      BY <2>3, <3>1, FS_AddElement
  <2>6. \A u \in Thread : ~Deleting(u, s)
    BY <2>2 DEF Account
  <2>7. Account(s)'
    <3> HIDE DEF c
    <3> QED
      BY <1>1, <1>3, <2>1, <2>2, <2>4, <2>5, <2>6 DEF Account
  <2> QED
    BY <1>4, <2>2, <2>4, <2>7
<1>5. CASE held[src[t]] # s
  <2>1. Claims(s)' = Claims(s)
    <3>1. CASE kind[t] = "copy"
      BY <1>1, <1>2, <1>5, <3>1 DEF Claims, Uncounted, Carries
    <3>2. CASE kind[t] = "copy_assign"
      BY <1>1, <1>2, <1>5, <3>2 DEF Claims, Uncounted, Carries
    <3> QED
      BY <1>1, <3>1, <3>2
  <2>2. refs'[s] = refs[s]
    BY <1>5 DEF Retain
  <2>3. Account(s)'
    BY <1>1, <1>3, <1>5, <2>1, <2>2 DEF Account
  <2> QED
    BY <1>5, <2>1, <2>3
<1> QED
  BY <1>4, <1>5

\* release: the reference of *this is given up, and the thread that gives up
\* the last one is the one to delete the state.
LEMMA ReleaseKeepsAccounts ==
  ASSUME IInv, NEW t \in Thread, Release(t), NEW s \in State
  PROVE  /\ Account(s)'
         /\ refs'[s] \in Nat
         /\ IF held[dst[t]] = s
              THEN dst[t] \in Claims(s) /\ Claims(s)' = Claims(s) \ {dst[t]}
              ELSE Claims(s)' = Claims(s)
<1> USE DistinctAssumption DEF IInv, Types, Discipline, Operands, Exclusive, Label, Kind
<1>1. /\ pc[t] = "release" /\ kind[t] \in {"copy_assign", "move_assign", "destroy"}
      /\ dst[t] \in Handle
      /\ UNCHANGED <<life, held, kind, dst, src>>
  BY DEF Release, Goto
<1>2. CASE held[dst[t]] = s
  <2>1. /\ refs' = [refs EXCEPT ![s] = @ - 1]
        /\ pc' = [pc EXCEPT ![t] = IF refs[s] = 1 THEN "delete" ELSE "finish"]
    BY <1>2 DEF Release, Goto
  <2>2. dst[t] \in Claims(s) /\ life[s] = "alive"
    BY <1>1, <1>2, TargetIsCounted
  <2>3. IsFiniteSet(Claims(s))
    BY ClaimsFinite, ClaimsType
  <2>4. /\ IsFiniteSet(Claims(s) \ {dst[t]})
        /\ Cardinality(Claims(s) \ {dst[t]}) = Cardinality(Claims(s)) - 1
    BY <2>2, <2>3, FS_RemoveElement
  <2>5. Claims(s)' = Claims(s) \ {dst[t]}
    <3>1. \A h \in Handle : Uncounted(h)' <=> Uncounted(h) \/ h = dst[t]
      BY <1>1, <2>1 DEF Uncounted
    <3>2. \A u \in Thread : Carries(u, s)' <=> Carries(u, s)
      BY <1>1, <2>1 DEF Carries
    <3> QED
      BY <1>1, <3>1, <3>2 DEF Claims
  <2>6. refs[s] = Cardinality(Claims(s)) /\ \A u \in Thread : ~Deleting(u, s)
    BY <2>2 DEF Account
  <2>7. refs'[s] = Cardinality(Claims(s)') /\ refs'[s] \in Nat
    <3>1. Cardinality(Claims(s) \ {dst[t]}) \in Nat
      BY <2>4, FS_CardinalityType
    <3> QED
      BY <2>1, <2>4, <2>5, <2>6, <3>1
  <2>8. \A u \in Thread : Deleting(u, s)' => u = t /\ Claims(s)' = {}
    <3>1. refs[s] = 1 => Claims(s) \ {dst[t]} = {}
      BY <2>4, <2>6, FS_EmptySet
    <3> QED
      BY <1>1, <2>1, <2>5, <2>6, <3>1 DEF Deleting
  <2>9. Account(s)'
    BY <1>1, <2>2, <2>7, <2>8 DEF Account
  <2> QED
    BY <1>2, <2>2, <2>5, <2>7, <2>9
<1>3. CASE held[dst[t]] # s
  <2>1. refs'[s] = refs[s] /\ \A u \in Thread : u # t => pc'[u] = pc[u]
    BY <1>1, <1>3 DEF Release, Goto
  <2>2. pc'[t] \in {"delete", "finish"}
    BY <1>1 DEF Release, Goto
  <2>3. Claims(s)' = Claims(s)
    <3>1. \A h \in Handle : held[h] = s => (Uncounted(h)' <=> Uncounted(h))
      BY <1>1, <1>3, <2>1, <2>2 DEF Uncounted
    <3>2. \A u \in Thread : Carries(u, s)' <=> Carries(u, s)
      BY <1>1, <2>1, <2>2 DEF Carries
    <3> QED
      BY <1>1, <3>1, <3>2 DEF Claims
  <2>4. \A u \in Thread : Deleting(u, s)' => Deleting(u, s)
    BY <1>1, <1>3, <2>1 DEF Deleting
  <2>5. Account(s)'
    BY <1>1, <2>1, <2>3, <2>4 DEF Account
  <2> QED
    BY <1>3, <2>1, <2>3, <2>5
<1> QED
  BY <1>2, <1>3

\* The end of a member function: the new value of state_ takes over the
\* reference that was carried, or that the source had.
LEMMA FinishKeepsAccounts ==
  ASSUME IInv, NEW t \in Thread, Finish(t), NEW s \in State
  PROVE  /\ Account(s)'
         /\ IF kind[t] # "destroy" /\ held[src[t]] = s
              THEN Succeeds(s, IF kind[t] = "copy_assign" THEN t ELSE src[t], dst[t])
              ELSE Claims(s)' = Claims(s)
<1> USE DistinctAssumption DEF IInv, Types, Discipline, Operands, Exclusive, Label, Kind
<1>1. /\ pc[t] = "finish" /\ kind[t] \in {"copy_assign", "move_assign", "destroy"}
      /\ dst[t] \in Handle
      /\ UNCHANGED <<life, refs>>
      /\ pc' = [pc EXCEPT ![t] = "idle"]
      /\ kind' = [kind EXCEPT ![t] = "use"]
      /\ dst' = [dst EXCEPT ![t] = Null]
      /\ src' = [src EXCEPT ![t] = Null]
  BY DEF Finish, Leave
<1>2. /\ \A u \in Thread : u # t => dst[u] # dst[t] /\ src[u] # dst[t]
      /\ dst[t] \notin Claims(s)
  BY <1>1 DEF Claims, Uncounted
<1>3. \A h \in Handle : Uncounted(h)' <=> Uncounted(h) /\ h # dst[t]
  BY <1>1, <1>2 DEF Uncounted
<1>4. CASE kind[t] = "destroy"
  <2>1. held' = [held EXCEPT ![dst[t]] = NoObject]
    BY <1>4 DEF Finish
  <2>2. \A u \in Thread : Carries(u, s)' <=> Carries(u, s)
    BY <1>1, <1>2, <1>4, <2>1 DEF Carries
  <2>3. Claims(s)' = Claims(s)
    BY <1>1, <1>2, <1>3, <2>1, <2>2 DEF Claims
  <2>4. \A u \in Thread : Deleting(u, s)' => Deleting(u, s)
    BY <1>1, <1>2, <2>1 DEF Deleting
  <2>5. life[s] = "unborn" => \A h \in Handle : held'[h] # s
    BY <2>1 DEF Account
  <2> QED
    BY <1>1, <1>4, <2>3, <2>4, <2>5, QuietStep
<1>5. CASE kind[t] = "copy_assign"
  <2>1. held' = [held EXCEPT ![dst[t]] = held[src[t]]] /\ src[t] \in Handle
    BY <1>1, <1>5 DEF Finish
  <2>2. \A u \in Thread : Carries(u, s)' <=> Carries(u, s) /\ u # t
    BY <1>1, <1>2, <2>1 DEF Carries
  <2>3. \A u \in Thread : Deleting(u, s)' => Deleting(u, s)
    BY <1>1, <1>2, <2>1 DEF Deleting
  <2>4. CASE held[src[t]] = s
    <3>1. t \in Claims(s)
      BY <1>1, <1>5, <2>4 DEF Claims, Carries
    <3>2. Claims(s)' = (Claims(s) \ {t}) \cup {dst[t]}
      BY <1>1, <1>2, <1>3, <2>1, <2>2, <2>4 DEF Claims
    <3>3. \A u \in Thread : ~Deleting(u, s)'
      BY <2>3, <3>1 DEF Account
    <3>4. Succeeds(s, t, dst[t])
      BY <1>2, <3>1, <3>2 DEF Succeeds
    <3> QED
      BY <1>1, <1>5, <2>4, <3>3, <3>4, TransferStep
  <2>5. CASE held[src[t]] # s
    <3>1. Claims(s)' = Claims(s)
      BY <1>1, <1>2, <1>3, <2>1, <2>2, <2>5 DEF Claims, Carries
    <3>2. life[s] = "unborn" => \A h \in Handle : held'[h] # s
      BY <2>1, <2>5 DEF Account
    <3> QED
      BY <1>1, <1>5, <2>3, <2>5, <3>1, <3>2, QuietStep
  <2> QED
    BY <2>4, <2>5
<1>6. CASE kind[t] = "move_assign"
  <2>1. /\ held' = [held EXCEPT ![src[t]] = Null, ![dst[t]] = held[src[t]]]
        /\ src[t] \in Handle /\ src[t] # dst[t]
        /\ \A u \in Thread : dst[u] # src[t] /\ (u # t => src[u] # src[t])
    BY <1>1, <1>6 DEF Finish
  <2>2. \A u \in Thread : Carries(u, s)' <=> Carries(u, s)
    BY <1>1, <1>2, <1>6, <2>1 DEF Carries
  <2>3. \A u \in Thread : Deleting(u, s)' => Deleting(u, s)
    BY <1>1, <1>2, <2>1 DEF Deleting
  <2>4. CASE held[src[t]] = s
    <3>1. src[t] \in Claims(s)
      BY <1>1, <1>6, <2>4, SourceIsCounted
    <3>2. Claims(s)' = (Claims(s) \ {src[t]}) \cup {dst[t]}
      BY <1>1, <1>2, <1>3, <2>1, <2>2, <2>4 DEF Claims
    <3>3. \A u \in Thread : ~Deleting(u, s)'
      BY <2>3, <3>1 DEF Account
    <3>4. Succeeds(s, src[t], dst[t])
      BY <1>2, <3>1, <3>2 DEF Succeeds
    <3> QED
      BY <1>1, <1>6, <2>4, <3>3, <3>4, TransferStep
  <2>5. CASE held[src[t]] # s
    <3>1. Claims(s)' = Claims(s)
      BY <1>1, <1>2, <1>3, <2>1, <2>2, <2>5 DEF Claims
    <3>2. life[s] = "unborn" => \A h \in Handle : held'[h] # s
      BY <2>1, <2>5 DEF Account
    <3> QED
      BY <1>1, <1>6, <2>3, <2>5, <3>1, <3>2, QuietStep
  <2> QED
    BY <2>4, <2>5
<1> QED
  BY <1>1, <1>4, <1>5, <1>6

-----------------------------------------------------------------------------
LEMMA InitIInv == Init => IInv
<1> SUFFICES ASSUME Init PROVE IInv
  OBVIOUS
<1> USE DistinctAssumption DEF Init
<1>1. Types /\ Discipline /\ refs \in [State -> Nat]
  BY DEF Types, Discipline, Operands, Exclusive, Label, Kind
<1>2. ASSUME NEW s \in State PROVE Account(s)
  <2>1. Claims(s) = {}
    BY DEF Claims, Carries
  <2> QED
    BY <2>1, FS_EmptySet DEF Account, Deleting
<1> QED
  BY <1>1, <1>2 DEF IInv

\* The invariant is inductive.
LEMMA IInvKept == IInv /\ [Next]_vars => IInv'
<1> SUFFICES ASSUME IInv, [Next]_vars PROVE IInv'
  OBVIOUS
<1>1. Types' /\ Discipline'
  BY DisciplineKept DEF IInv
<1> DEFINE Good == refs' \in [State -> Nat] /\ \A s \in State : Account(s)'
<1>2. ASSUME UNCHANGED vars PROVE Good
  <2>1. UNCHANGED <<life, refs, held>> /\ \A s \in State : Claims(s)' = Claims(s)
    BY <1>2 DEF vars, Claims, Uncounted, Carries
  <2>2. \A s \in State, t \in Thread : Deleting(t, s)' => Deleting(t, s)
    BY <1>2 DEF vars, Deleting
  <2> QED
    BY <2>1, <2>2 DEF IInv, Account
<1>3. ASSUME NEW t \in Thread, NEW d \in Handle, Connect(t, d) PROVE Good
  <2>1. refs' \in [State -> Nat]
    BY <1>3 DEF Connect, IInv
  <2>2. \A s \in State : Account(s)'
    BY <1>3, ConnectKeepsAccounts
  <2> QED
    BY <2>1, <2>2
<1>4. ASSUME NEW t \in Thread, NEW d \in Handle, NEW o \in Handle,
             \/ DefaultConstruct(t, d) \/ Destroy(t, d) \/ Use(t, d) \/ UseEnds(t)
             \/ CopyConstruct(t, d, o) \/ CopyAssign(t, d, o) \/ MoveAssign(t, d, o)
      PROVE  Good
  <2>1. UNCHANGED refs
    BY <1>4 DEF DefaultConstruct, Destroy, Use, UseEnds, CopyConstruct, CopyAssign,
       MoveAssign
  <2> QED
    BY <1>4, <2>1, EntriesKeepAccounts DEF IInv
<1>5. ASSUME NEW t \in Thread, UseEnds(t) PROVE Good
  <2>1. pc[t] = "use" => src[t] \in Handle
    BY DEF IInv, Discipline, Operands
  <2> QED
    BY <1>4, <1>5, <2>1 DEF UseEnds
<1>6. ASSUME NEW t \in Thread, NEW d \in Handle, NEW o \in Handle, MoveConstruct(t, d, o)
      PROVE  Good
  BY <1>6, MoveConstructKeepsAccounts DEF IInv, MoveConstruct
<1>7. ASSUME NEW t \in Thread, Retain(t) PROVE Good
  <2>1. refs' \in [State -> Nat]
    BY <1>7 DEF Retain, IInv
  <2> QED
    BY <1>7, <2>1, RetainKeepsAccounts
<1>8. ASSUME NEW t \in Thread, Release(t) PROVE Good
  <2>1. \A s \in State : Account(s)' /\ refs'[s] \in Nat
    BY <1>8, ReleaseKeepsAccounts
  <2>2. refs' = [s \in State |-> refs'[s]]
    BY <1>8 DEF Release, IInv
  <2> QED
    BY <2>1, <2>2
<1>9. ASSUME NEW t \in Thread, Delete(t) PROVE Good
  BY <1>9, DeleteKeepsAccounts DEF IInv, Delete
<1>10. ASSUME NEW t \in Thread, Finish(t) PROVE Good
  BY <1>10, FinishKeepsAccounts DEF IInv, Finish
<1> HIDE DEF Good
<1>11. Good
  BY <1>2, <1>3, <1>4, <1>5, <1>6, <1>7, <1>8, <1>9, <1>10 DEF Next, Step
<1> QED
  BY <1>1, <1>11 DEF Good, IInv

LEMMA IInvInvariant == Spec => []IInv
BY InitIInv, IInvKept, PTL DEF Spec

-----------------------------------------------------------------------------
\* The handles keep their types; in particular the count never goes below
\* zero, so the unsigned counter of the code never wraps.
THEOREM HandlesTypeCorrect == Spec => []TypeOK
<1>1. IInv => TypeOK
  BY DEF IInv, Types, TypeOK
<1> QED
  BY <1>1, IInvInvariant, PTL

\* The reference count is the number of references at every moment.
THEOREM CountIsExact == Spec => []CountExact
<1>1. IInv => CountExact
  BY DEF IInv, Account, CountExact
<1> QED
  BY <1>1, IInvInvariant, PTL

\* No thread touches a state that was deleted, and none is deleted twice.
THEOREM NeverUsedAfterFree == Spec => []NoUseAfterFree
<1>1. IInv => NoUseAfterFree
  <2> SUFFICES ASSUME IInv, NEW t \in Thread
               PROVE  /\ pc[t] \in {"retain", "use"} /\ held[src[t]] # Null
                           => life[held[src[t]]] = "alive"
                      /\ pc[t] \in {"release", "delete"} /\ held[dst[t]] # Null
                           => life[held[dst[t]]] = "alive"
    BY DEF NoUseAfterFree
  <2> USE DEF IInv, Types, Discipline, Operands
  <2>1. ASSUME pc[t] \in {"retain", "use"}, held[src[t]] # Null
        PROVE  life[held[src[t]]] = "alive"
    <3>1. held[src[t]] \in State
      BY <2>1
    <3> QED
      BY <2>1, <3>1, SourceIsCounted
  <2>2. ASSUME pc[t] = "release", held[dst[t]] # Null
        PROVE  life[held[dst[t]]] = "alive"
    <3>1. held[dst[t]] \in State
      BY <2>2
    <3> QED
      BY <2>2, <3>1, TargetIsCounted
  <2>3. ASSUME pc[t] = "delete"
        PROVE  life[held[dst[t]]] = "alive"
    BY <2>3 DEF Account, Deleting
  <2> QED
    BY <2>1, <2>2, <2>3
<1> QED
  BY <1>1, IInvInvariant, PTL

-----------------------------------------------------------------------------
LEMMA InitOwnership == Init => Ownership!Init
<1> SUFFICES ASSUME Init PROVE Ownership!Init
  OBVIOUS
<1>1. \A s \in State : Claims(s) = {}
  BY DistinctAssumption DEF Init, Claims, Carries
<1> QED
  BY <1>1 DEF Init, Ownership!Init

\* A step that leaves all claims and lives alone is a stutter.
LEMMA OwnershipStutters ==
  ASSUME UNCHANGED life, \A s \in State : Claims(s)' = Claims(s)
  PROVE  UNCHANGED Ownership!vars
BY DEF Ownership!vars

\* Every step of the handles is a step of shared ownership, or a stutter.
LEMMA StepOwnership ==
  ASSUME IInv, [Next]_vars
  PROVE  [Ownership!Next]_(Ownership!vars)
<1> USE DEF IInv, Types, Discipline, Operands
<1> DEFINE claims == [s \in State |-> Claims(s)]
<1> DEFINE Goal == [Ownership!Next]_(Ownership!vars)
<1>1. CASE UNCHANGED vars
  BY <1>1 DEF vars, Ownership!vars, Claims, Uncounted, Carries
<1>2. ASSUME NEW t \in Thread, NEW d \in Handle, Connect(t, d) PROVE Goal
  <2>1. PICK n \in State :
          /\ life[n] = "unborn"
          /\ life' = [life EXCEPT ![n] = "alive"]
          /\ held' = [held EXCEPT ![d] = n]
    BY <1>2 DEF Connect
  <2>2. \A s \in State : Claims(s)' = IF s = n THEN {d} ELSE Claims(s)
    BY <1>2, <2>1, ConnectKeepsAccounts
  <2>3. claims' = [claims EXCEPT ![n] = {d}]
    BY <2>2
  <2>4. Ownership!Create(n, d)
    BY <2>1, <2>3 DEF Ownership!Create
  <2> QED
    BY <2>4 DEF Ownership!Next
<1>3. ASSUME NEW t \in Thread, NEW d \in Handle, NEW o \in Handle,
             \/ DefaultConstruct(t, d) \/ Destroy(t, d) \/ Use(t, d) \/ UseEnds(t)
             \/ CopyConstruct(t, d, o) \/ CopyAssign(t, d, o) \/ MoveAssign(t, d, o)
      PROVE  Goal
  <2>1. UNCHANGED life
    BY <1>3 DEF DefaultConstruct, Destroy, Use, UseEnds, CopyConstruct, CopyAssign,
       MoveAssign
  <2> QED
    BY <1>3, <2>1, EntriesKeepAccounts, OwnershipStutters
<1>4. ASSUME NEW t \in Thread, UseEnds(t) PROVE Goal
  <2>1. pc[t] = "use" => src[t] \in Handle
    OBVIOUS
  <2> QED
    BY <1>3, <1>4, <2>1 DEF UseEnds
<1>5. ASSUME NEW s \in State, NEW c \in Handle \cup Thread, NEW d \in Handle,
             Succeeds(s, c, d), UNCHANGED life,
             \A r \in State \ {s} : Claims(r)' = Claims(r)
      PROVE  Goal
  <2>1. claims' = [claims EXCEPT ![s] = (@ \ {c}) \cup {d}]
    BY <1>5 DEF Succeeds
  <2>2. Ownership!Transfer(s, c, d)
    BY <1>5, <2>1 DEF Succeeds, Ownership!Transfer
  <2> QED
    BY <2>2 DEF Ownership!Next
<1>6. ASSUME NEW t \in Thread, NEW d \in Handle, NEW o \in Handle, MoveConstruct(t, d, o)
      PROVE  Goal
  <2>1. /\ UNCHANGED life
        /\ \A s \in State :
             IF held[o] = s THEN Succeeds(s, o, d) ELSE Claims(s)' = Claims(s)
    <3>1. UNCHANGED life
      BY <1>6 DEF MoveConstruct
    <3> QED
      BY <1>6, <3>1, MoveConstructKeepsAccounts
  <2>2. CASE held[o] \in State
    BY <1>5, <2>1, <2>2
  <2>3. CASE held[o] \notin State
    BY <2>1, <2>3, OwnershipStutters
  <2> QED
    BY <2>2, <2>3
<1>7. ASSUME NEW t \in Thread, Retain(t) PROVE Goal
  <2> DEFINE c == IF kind[t] = "copy" THEN dst[t] ELSE t
  <2> DEFINE x == held[src[t]]
  <2>1. /\ UNCHANGED life /\ c \in Handle \cup Thread
        /\ \A s \in State :
             IF x = s THEN Claims(s) # {} /\ Claims(s)' = Claims(s) \cup {c}
                      ELSE Claims(s)' = Claims(s)
    BY <1>7, RetainKeepsAccounts DEF Retain
  <2>2. CASE x \in State
    <3>1. claims' = [claims EXCEPT ![x] = @ \cup {c}] /\ claims[x] # {}
      BY <2>1, <2>2
    <3>2. Ownership!Share(x, c)
      BY <2>1, <3>1 DEF Ownership!Share
    <3> QED
      BY <2>1, <2>2, <3>2 DEF Ownership!Next
  <2>3. CASE x \notin State
    BY <2>1, <2>3, OwnershipStutters
  <2> QED
    BY <2>2, <2>3
<1>8. ASSUME NEW t \in Thread, Release(t) PROVE Goal
  <2> DEFINE x == held[dst[t]]
  <2>1. /\ UNCHANGED life /\ dst[t] \in Handle
        /\ \A s \in State :
             IF x = s THEN dst[t] \in Claims(s) /\ Claims(s)' = Claims(s) \ {dst[t]}
                      ELSE Claims(s)' = Claims(s)
    BY <1>8, ReleaseKeepsAccounts DEF Release
  <2>2. CASE x \in State
    <3>1. claims' = [claims EXCEPT ![x] = @ \ {dst[t]}] /\ dst[t] \in claims[x]
      BY <2>1, <2>2
    <3>2. Ownership!GiveUp(x, dst[t])
      BY <2>1, <3>1 DEF Ownership!GiveUp
    <3> QED
      BY <2>1, <2>2, <3>2 DEF Ownership!Next
  <2>3. CASE x \notin State
    BY <2>1, <2>3, OwnershipStutters
  <2> QED
    BY <2>2, <2>3
<1>9. ASSUME NEW t \in Thread, Delete(t) PROVE Goal
  <2> DEFINE x == held[dst[t]]
  <2>1. x \in State /\ life' = [life EXCEPT ![x] = "deleted"]
    BY <1>9 DEF Delete
  <2>2. \A s \in State :
          /\ Claims(s)' = Claims(s)
          /\ s = x => life[s] = "alive" /\ Claims(s) = {}
    BY <1>9, DeleteKeepsAccounts
  <2>3. claims' = claims
    BY <2>2
  <2>4. claims[x] = {} /\ life[x] = "alive"
    BY <2>1, <2>2
  <2>5. Ownership!Free(x)
    BY <2>1, <2>3, <2>4 DEF Ownership!Free
  <2> QED
    BY <2>1, <2>5 DEF Ownership!Next
<1>10. ASSUME NEW t \in Thread, Finish(t) PROVE Goal
  <2> DEFINE c == IF kind[t] = "copy_assign" THEN t ELSE src[t]
  <2> DEFINE x == held[src[t]]
  <2>1. /\ UNCHANGED life /\ dst[t] \in Handle
        /\ \A s \in State : IF kind[t] # "destroy" /\ x = s
                               THEN Succeeds(s, c, dst[t])
                               ELSE Claims(s)' = Claims(s)
    BY <1>10, FinishKeepsAccounts DEF Finish
  <2>2. CASE kind[t] # "destroy" /\ x \in State
    <3>1. c \in Handle \cup Thread
      BY <1>10, <2>2 DEF Finish
    <3> HIDE DEF c
    <3> QED
      BY <1>5, <2>1, <2>2, <3>1
  <2>3. CASE kind[t] = "destroy" \/ x \notin State
    BY <2>1, <2>3, OwnershipStutters
  <2> QED
    BY <2>2, <2>3
<1> QED
  BY <1>1, <1>2, <1>3, <1>4, <1>6, <1>7, <1>8, <1>9, <1>10 DEF Next, Step

\* The handles implement shared ownership, but for the promise that a state
\* without references is freed in the end.
THEOREM OwnershipImplemented == Spec => Ownership!Safety
BY InitOwnership, StepOwnership, IInvInvariant, PTL DEF Spec, Ownership!Safety
=============================================================================

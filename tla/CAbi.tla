---------------------------------- MODULE CAbi ----------------------------------
(***************************************************************************)
(* The C ABI (quilibrium_c.cpp) and what the bindings do around it: one    *)
(* SDK object of a binding, its ql_sdk, the sdk_state behind it, and       *)
(* threads that construct, call and close it.  A call has a ql_response    *)
(* and a ql_error, which the library fills with blocks of the heap and the *)
(* caller empties with ql_response_free and ql_error_free.                 *)
(*                                                                         *)
(* The steps of a call are the ones other threads can see: the handle is   *)
(* read, the arguments are checked, the pointer to the state is loaded     *)
(* from the ql_sdk, the api object takes a reference to the state, the     *)
(* call runs, the api object is gone, the outputs are filled, and the      *)
(* binding frees them.  Closing reads the handle, destroys the ql_sdk and  *)
(* clears the handle.  Nothing keeps these steps of two threads apart, so  *)
(* a ql_sdk can be used after its destruction: sdk = "misused", after      *)
(* which the program does anything and the model nothing.  The count       *)
(* itself is atomic here; StateHandles has its interleavings.              *)
(***************************************************************************)
EXTENDS Endpoints, FiniteSets

CONSTANTS
  Thread,        (* threads of the program                                   *)
  Block,         (* blocks malloc can return                                 *)
  ConfigText,    (* texts of an endpoint in ql_sdk_config, <<>> for null     *)
  Default,       (* the endpoint connect adds to an empty list               *)
  Null           (* no block                                                 *)

ASSUME CAbiAssumption ==
  IsFiniteSet(Thread) /\ IsFiniteSet(Block) /\ Null \notin Block /\ "sdk" \notin Thread

\* "://" is one token where find sees it first, and three anywhere behind.
\* connect's default is the https endpoint of a host.
ASSUME TextAssumption ==
  /\ ConfigText \subseteq Seq(Token)
  /\ \A text \in ConfigText : \A i \in 3..Len(text) : text[i] # "://"
  /\ \E host \in Token \ Marks : Default = Located("https", <<host>>, 443, <<>>)

VARIABLES
  language,      (* the binding the program is written in                    *)
  handle,        (* the handle in the SDK object: unset, open, null, or lost *)
                 (* when the object is garbage                               *)
  sdk,           (* the ql_sdk object: none, alive, deleted or misused       *)
  life,          (* the sdk_state: unborn, alive or deleted                  *)
  refs,          (* sdk_state::refs                                          *)
  endpoint,      (* the endpoint of the pool that the configuration names    *)
  heap,          (* blocks allocated and not freed                           *)
  pc,            (* where each thread is                                     *)
  out,           (* its ql_response and ql_error: size, data, message        *)
  code,          (* what the call returned                                   *)
  raced          (* history: a close overlapped the entry of a call, or      *)
                 (* another close                                            *)

vars == <<language, handle, sdk, life, refs, endpoint, heap, pc, out, code, raced>>
object == <<language, handle, sdk, endpoint, raced>>
memory == <<heap, out, code>>

-----------------------------------------------------------------------------
Zero == [size |-> 0, data |-> Null, message |-> Null]

\* A C program keeps its structures for the next call, a binding has new ones.
Keeps == {"c"}
FreesBothAlways == {"c", "node"}
FreesErrorOnFailure == {"python", "rust", "dotnet"}
Languages == FreesBothAlways \cup FreesErrorOnFailure

\* Where several threads may use one SDK object: Rust's Sdk is Send and not Sync,
\* and Node runs one call at a time.
Concurrent == {"c", "python", "dotnet"}
MayUse(t) == language \in Concurrent \/ \A u \in Thread \ {t} : pc[u] = "idle"

\* A thread that has read the handle and has no reference to the state yet.
Entering == {"entered", "loaded"}

\* A thread that has read the handle to destroy it and has not cleared it yet.
Closing == {"closing", "destroyed"}

\* What malloc can return: a block that is free, or nothing.
Malloc == (Block \ heap) \cup {Null}
Allocated(block) == heap' = heap \cup ({block} \ {Null})

\* A step of a thread, in a program whose behaviour is still defined.
Step(t, from, to) ==
  /\ sdk # "misused"
  /\ pc[t] = from
  /\ pc' = [pc EXCEPT ![t] = to]

CAbiInit ==
  /\ language \in Languages
  /\ handle = "unset"
  /\ sdk = "none"
  /\ life = "unborn"
  /\ refs = 0
  /\ endpoint = Default
  /\ heap = {}
  /\ pc = [t \in Thread |-> "idle"]
  /\ out = [t \in Thread |-> Zero]
  /\ code = [t \in Thread |-> 0]
  /\ raced = FALSE

\* add_endpoint, and connect's default for an empty list.
Configured(text) ==
  LET parsed == ParseEndpoint(text) IN IF parsed.valid THEN parsed ELSE Default

\* The constructor, with ql_sdk_create: a new state and a new ql_sdk.
Create(t) ==
  /\ pc[t] = "idle"
  /\ handle = "unset"
  /\ handle' = "open"
  /\ sdk' = "alive"
  /\ life' = "alive"
  /\ refs' = 1
  /\ \E text \in ConfigText : endpoint' = Configured(text)
  /\ UNCHANGED <<language, pc, raced, memory>>

\* connect has no transport: the error is copied, the constructor raises it.
CreateFails(t) ==
  /\ handle = "unset"
  /\ handle' = "null"
  /\ Step(t, "idle", "raised")
  /\ code' = [code EXCEPT ![t] = -1]
  /\ \E block \in Malloc :
       /\ Allocated(block)
       /\ out' = [out EXCEPT ![t] = [Zero EXCEPT !.message = block]]
  /\ UNCHANGED <<language, sdk, life, refs, endpoint, raced>>

\* A method of the binding reads the handle.
Begin(t) ==
  /\ handle \in {"open", "null"}
  /\ MayUse(t)
  /\ Step(t, "idle", IF handle = "open" THEN "entered" ELSE "refused")
  /\ out' = [out EXCEPT ![t] = IF language \in Keeps THEN @ ELSE Zero]
  /\ raced' = (raced \/ (handle = "open" /\ \E u \in Thread : pc[u] \in Closing))
  /\ UNCHANGED <<language, handle, sdk, endpoint, life, refs, heap, code>>

\* if(!sdk||!path) return -1, and its kin in the other calls, with the outputs as they are.
Refuse(t) ==
  /\ Step(t, "entered", "returned") \/ Step(t, "refused", "returned")
  /\ code' = [code EXCEPT ![t] = -1]
  /\ UNCHANGED <<object, life, refs, heap, out>>

\* The outputs are reset, and hypersnap() reads state_ of the ql_sdk.
Load(t) ==
  /\ sdk = "alive"
  /\ Step(t, "entered", "loaded")
  /\ out' = [out EXCEPT ![t] = Zero]
  /\ UNCHANGED <<object, life, refs, heap, code>>

\* Mutant of Borrow: the api object refers to the state without a reference.
BorrowUncounted(t) ==
  /\ refs > 0
  /\ Step(t, "loaded", "running")
  /\ UNCHANGED <<object, life, refs, memory>>

\* The api object retains the state, which somebody still refers to.
Borrow(t) ==
  /\ refs > 0
  /\ Step(t, "loaded", "running")
  /\ refs' = refs + 1
  /\ UNCHANGED <<object, life, memory>>

\* The end of the full expression: the call is done, the api object is gone.
Drop(t) ==
  /\ Step(t, "running", "answered")
  /\ refs' = refs - 1
  /\ UNCHANGED <<object, life, memory>>

\* release_state of whoever saw the count drop to zero.
DeleteState ==
  /\ sdk # "misused"
  /\ life = "alive"
  /\ refs = 0
  /\ life' = "deleted"
  /\ UNCHANGED <<object, refs, pc, memory>>

\* set_error, with copy_text.
SetError(t) ==
  /\ Step(t, "answered", "returned")
  /\ code' = [code EXCEPT ![t] = -1]
  /\ \E block \in Malloc :
       /\ Allocated(block)
       /\ out' = [out EXCEPT ![t].message = block]
  /\ UNCHANGED <<object, life, refs>>

\* Mutant of SetResponse: the size is kept when there is no memory for the copy.
SetResponseKeepsSize(t) ==
  /\ Step(t, "answered", "returned")
  /\ code' = [code EXCEPT ![t] = 0]
  /\ \E size \in {0, 1} : \E block \in (IF size = 0 THEN {Null} ELSE Malloc) :
       /\ Allocated(block)
       /\ out' = [out EXCEPT ![t].size = size, ![t].data = block]
  /\ UNCHANGED <<object, life, refs>>

\* set_response, for an empty body and for one that is copied, if it can be.
SetResponse(t) ==
  /\ Step(t, "answered", "returned")
  /\ code' = [code EXCEPT ![t] = 0]
  /\ \E size \in {0, 1} : \E block \in (IF size = 0 THEN {Null} ELSE Malloc) :
       /\ Allocated(block)
       /\ out' = [out EXCEPT ![t].size = IF block = Null THEN 0 ELSE size, ![t].data = block]
  /\ UNCHANGED <<object, life, refs>>

\* Mutant of ResponseFreed: the block is freed, the pointer stays.
ResponseFreedOnly(o) == o

\* *response={} and *error={}, after free.
ResponseFreed(o) == [o EXCEPT !.size = 0, !.data = Null]
ErrorFreed(o) == [o EXCEPT !.message = Null]

\* finish of the bindings: what is freed when the body or the error was read.
Finish(t) ==
  LET o == out[t]
      both == code[t] = 0 \/ language \in FreesBothAlways
  IN  /\ Step(t, "returned", "idle")
      /\ heap' = heap \ ({o.message} \cup IF both THEN {o.data} ELSE {})
      /\ out' = [out EXCEPT ![t] = ErrorFreed(IF both THEN ResponseFreed(o) ELSE o)]
      /\ UNCHANGED <<object, life, refs, code>>

\* The constructor's exception has been read: only the error is freed.
FinishCreate(t) ==
  /\ Step(t, "raised", "idle")
  /\ heap' = heap \ {out[t].message}
  /\ out' = [out EXCEPT ![t] = ErrorFreed(@)]
  /\ UNCHANGED <<object, life, refs, code>>

\* close, Dispose or drop: a handle that is open is read, to be destroyed.  That
\* it is read twice, to be tested and to be passed, makes no difference: a null
\* that is passed is deleted to no effect.
BeginClose(t) ==
  /\ handle = "open"
  /\ MayUse(t)
  /\ Step(t, "idle", "closing")
  /\ raced' = (raced \/ \E u \in Thread : pc[u] \in Entering \cup Closing)
  /\ UNCHANGED <<language, handle, sdk, endpoint, life, refs, memory>>

\* .NET's finalizer disposes an object that no code will read any more, on a
\* thread of its own.  A method does not read it after the handle, a Dispose
\* in progress still does.
Finalize(t) ==
  /\ language = "dotnet"
  /\ handle = "open"
  /\ \A u \in Thread : pc[u] \notin Closing
  /\ Step(t, "idle", "closing")
  /\ handle' = "lost"
  /\ raced' = (raced \/ \E u \in Thread : pc[u] \in Entering)
  /\ UNCHANGED <<language, sdk, endpoint, life, refs, memory>>

\* ql_sdk_destroy: ~sdk releases the state, and the ql_sdk is freed.
Destroy(t) ==
  /\ sdk = "alive"
  /\ Step(t, "closing", "destroyed")
  /\ sdk' = "deleted"
  /\ refs' = refs - 1
  /\ UNCHANGED <<language, handle, endpoint, raced, life, memory>>

\* Mutant of Clear: the handle stays as it was.
ClearKeepsHandle(t) ==
  /\ Step(t, "destroyed", "idle")
  /\ UNCHANGED <<object, life, refs, memory>>

\* The binding clears its handle, after the destruction.
Clear(t) ==
  /\ Step(t, "destroyed", "idle")
  /\ handle' = IF handle = "open" THEN "null" ELSE handle
  /\ UNCHANGED <<language, sdk, endpoint, raced, life, refs, memory>>

\* A ql_sdk that was freed is read or destroyed, or a state is retained that was
\* released for the last time.
Misuse(t) ==
  /\ sdk = "deleted"
  /\ pc[t] \in {"entered", "closing"} \/ (pc[t] = "loaded" /\ refs = 0)
  /\ sdk' = "misused"
  /\ UNCHANGED <<language, handle, endpoint, raced, life, refs, pc, memory>>

InCall(t) ==
  Refuse(t) \/ Load(t) \/ Borrow(t) \/ Drop(t) \/ SetError(t) \/ SetResponse(t)
    \/ Finish(t) \/ FinishCreate(t)

InClose(t) == Destroy(t) \/ Clear(t)

CAbiNext ==
  \/ \E t \in Thread :
       \/ Create(t) \/ CreateFails(t) \/ Begin(t) \/ InCall(t)
       \/ BeginClose(t) \/ Finalize(t) \/ InClose(t) \/ Misuse(t)
  \/ DeleteState

\* Calls return (the transport has a time-out), and the deletion is not delayed.
CAbiSpec ==
  /\ CAbiInit /\ [][CAbiNext]_vars
  /\ WF_vars(DeleteState) /\ \A t \in Thread : WF_vars(InCall(t)) /\ WF_vars(InClose(t))

-----------------------------------------------------------------------------
\* The type invariant.
CAbiTypeOK ==
  /\ language \in Languages
  /\ handle \in {"unset", "open", "null", "lost"}
  /\ sdk \in {"none", "alive", "deleted", "misused"}
  /\ life \in {"unborn", "alive", "deleted"}
  /\ refs \in Nat
  /\ heap \subseteq Block
  /\ pc \in [Thread -> {"idle", "entered", "refused", "loaded", "running", "answered",
                         "returned", "raised", "closing", "destroyed"}]
  /\ out \in [Thread -> [size : {0, 1}, data : Block \cup {Null}, message : Block \cup {Null}]]
  /\ code \in [Thread -> {0, -1}]
  /\ raced \in BOOLEAN

\* The pointers that callers hold.
Pointee(p) == IF p[2] = "data" THEN out[p[1]].data ELSE out[p[1]].message
Pointers == {p \in Thread \X {"data", "message"} : Pointee(p) # Null}

\* Every block is referred to by exactly one pointer of one caller, and every
\* pointer refers to a block: nothing is lost, freed twice or used after free,
\* whichever of its calls fail and however the binding frees its outputs.
BlocksOwnedOnce ==
  /\ heap = {Pointee(p) : p \in Pointers}
  /\ Cardinality(heap) = Cardinality(Pointers)

\* Nothing is owed between calls, and a size never promises bytes that are not
\* there: the reader of a body that could not be copied sees an empty one.
OutputsReadable ==
  \A t \in Thread :
    /\ pc[t] = "idle" => out[t] = Zero
    /\ out[t].size > 0 => out[t].data \in heap

\* Who keeps the state alive: the ql_sdk and the calls that are running.
Owners == {o \in {"sdk"} : sdk = "alive"} \cup {t \in Thread : pc[t] = "running"}

Ownership == INSTANCE SharedOwnership WITH
  Object <- {"state"},
  Claimant <- {"sdk"} \cup Thread,
  life <- [o \in {"state"} |-> life],
  claims <- [o \in {"state"} |-> Owners]

\* The state outlives ql_sdk_destroy for the calls that have retained it, and
\* only for them, whenever the destruction comes and however often it is tried:
\* it is shared by the ql_sdk and those calls, freed once, and freed in the end
\* unless the program misused its ql_sdk first.
OutlivesHandle ==
  /\ Ownership!Safety
  /\ [](sdk # "misused") => Ownership!Freed

\* A ql_sdk is used after its destruction only if closing it overlapped, from
\* reading the handle to clearing it, another close or a call that had the
\* handle and no reference to the state yet, and only in the languages whose
\* bindings let that happen.  A call before or after the close, a second close
\* after the first, and a call that was running do no harm.
OnlyRacesMisuse == sdk = "misused" => raced /\ language \in Concurrent

\* The URL the transport opens names the endpoint that was configured: its
\* origin and base path read back as the same endpoint (an empty host aside,
\* which parse_endpoint accepts before a port).
EndpointReadsBack ==
  endpoint.host # <<>> => ParseEndpoint(Origin(endpoint) \o endpoint.base) = endpoint
=============================================================================

# Quilibrium-SDK: a TLA+ verification development

TLA+ modules, TLC configurations and TLAPS proofs about the C++ SDK in this
repository.  Source paths below are relative to the repository root.

## 1. The system

The SDK is a client library.  It has no server and no persistent state; what
makes it hard is that one `sdk` is shared by many threads, that requests travel
over an unreliable transport, and that calls which change something at the
service are retried.

| component | state | operations | talks to |
|---|---|---|---|
| endpoint pools: `route_pool` (`src/sdk_facade.cpp` 32-93), `net::endpoint_pool` (`src/net.cpp`) | per endpoint: EWMA latency, consecutive failures, quarantine deadline; a mutex | `select`, `success`/`report_success`, `failure`/`report_failure`, `snapshot` | called by the request loops |
| facade request loop: `send_with_failover` (`src/sdk_facade.cpp` 151-202) | the shared pool, credentials, transport; locals of the call (attempt, route, last error) | every HyperSnap, QStorage, QKMS and native call of an `sdk` | pool, signer, transport |
| stand-alone QStorage and QKMS clients (`src/qstorage.cpp`, `src/qkms.cpp`) | endpoints, signer, transport, all constant; locals of the call | `execute`, `invoke`, presigning | signer, transport |
| stand-alone HyperSnap client (`src/hypersnap.cpp`) | an `endpoint_pool` | `get`, `post` | pool, transport |
| SDK handles (`src/sdk_facade.cpp` 118-149, 689-701) | an intrusive reference count shared by `sdk`, `hypersnap_api`, `storage_api`, `kms_api`, `native_api` | copy, move, assign, destroy | `delete` of the state at zero |
| coroutine `task` (`src/core.cppm` 57-132) | frame, promise value, continuation | eager start, `co_await`, `get`, `sync_wait` | every async method |
| C ABI (`bindings/c`) and the Python, Node, Rust and .NET bindings on it | handles, response and error structures with blocks of the heap | create/destroy, requests, `ql_response_free`, `ql_error_free` | facade |
| gRPC framing (`src/sdk_facade.cpp` 350-369) and native protocol client (`src/protocol.cpp`) | none / a pool | frame, unframe, `unary` | pool, transport |
| SigV4 (`src/sigv4.cpp`) | none | `sign`, `presign`, canonicalisation | clients |
| JSON (`src/json.cpp`) | parser position | `parse`, `stringify`, accessors | facade, user code |
| curl transport (`src/curl_transport.cpp`) | header map of a response | `send` | libcurl (external) |
| Qt example (`examples/qt`) | `busy_` flag, worker thread | load, result callback | facade |
| endpoint and text helpers (`src/core.cpp`), domain data types | none | `parse_endpoint`, hex, percent encoding | all |

What is hard here, and what therefore deserves properties:

* **Interleaving.**  Each pool operation holds the mutex, but `select`, the
  request and the report are three separate critical sections.  Other threads
  fail, heal and wait out the same routes in between.
* **Lost answers and retries.**  A request whose answer is lost, or which is
  answered with a 5xx, may have been carried out.  Whether it is sent again is
  decided from `retryable`, `allow_failover`, `idempotent` and the attempts
  left, by four loops that do not agree with one another.
* **Stale state.**  `last_error` lives across iterations; a route is used after
  another thread quarantined it.
* **Numeric edges.**  `1U << min(failures, 6)`, a latency of 0 as "not
  measured", `max_attempts == 0`, `attempt % size`, 32-bit frame lengths, ports.
* **Ownership.**  The reference count, the C buffers, the coroutine frames; a handle
  that a binding destroys while other threads may hold it.
* **Two readers of one text.**  A request is signed by the client and verified by
  a service that decodes and encodes it in its own way, with libcurl in between;
  a document is collected by one parser and its numbers read by another.
* **Partial results.**  A connection breaks in the middle of a frame, a failure is
  told after the body, memory runs out for a copy.

PROJECT.json lists these one by one, each at its line, with the property that
covers it or the reason why none does yet.

## 2. Modules

| module | models | extends / instantiates |
|---|---|---|
| `RoutePool` | both endpoint pools | |
| `LatencyHistory` | the pool with the samples each entry has seen | `RoutePool` |
| `CallContract` | abstract: what a request method promises, whatever loop is below | |
| `Failover` | `send_with_failover`, run by concurrent threads over one pool | `RoutePool`; instance of `CallContract` |
| `RotatingClient` | `qstorage::client::execute`, `qkms::client::invoke` | instance of `CallContract` |
| `HyperSnapClient` | `hypersnap::client::get` and `post` over a shared pool | `RoutePool`; instance of `CallContract` |
| `SharedOwnership` | abstract: an object is freed, once, after its last claim | |
| `StateHandles` | the reference-counted handles of the facade, used by concurrent threads | instance of `SharedOwnership` |
| `SigV4` | the signer: canonical forms, `sign`, `presign` | |
| `S3Service` | external: libcurl and the service that verifies a request | `SigV4` |
| `SignedCalls` | the operations of the stand-alone QStorage and QKMS clients, signed, sent and verified; presigned links | `RotatingClient`, `S3Service` |
| `Endpoints` | `parse_endpoint`, `authority`, `origin` | |
| `CAbi` | the C ABI with the bindings around it | `Endpoints`; instance of `SharedOwnership` |
| `Json` | the JSON parser, one byte at a time | |
| `JsonGrammar` | reference: the grammar of RFC 8259; and `stringify` | `Json` |
| `GrpcFrame` | the frame of a unary gRPC message | |
| `CurlTransfer` | the callbacks of an HTTP exchange, over its hops | |
| `Responses` | from an exchange to what a native or a JSON call returns | `CurlTransfer`, `GrpcFrame`, `JsonGrammar` |
| `Task` | the coroutine task | |
| `LatencyHistoryProofs`, `FailoverProofs`, `StateHandlesProofs`, `SignedCallsProofs`, `SignedLinksProofs`, `HyperSnapClientProofs`, `CAbiProofs`, `ResponsesProofs` | theorems | the modules they are named for |
| `MC*` | constants of the TLC instances | |

### RoutePool

`entries` is `entries_`.  `ReportSuccess` and `ReportFailure` are the two
mutating operations, `Selectable(i)` says that `select()` may return entry `i`,
and `PoolTick` is a second of `steady_clock`.

* A quarantine is kept as the whole seconds *left* (`quarantine_until - now`),
  0 meaning that it is over; the code only ever compares the deadline with
  `now`, and all its back-offs are whole seconds.
* Scores are multiplied by four, which makes `latency * (1 + 0.75 * failures)`
  an integer.  The first of several entries with the best score wins, as `<`
  does in the loop.  When all are quarantined the earliest deadline wins; two
  deadlines within the same second are a tie the model's clock cannot see, so
  either may be returned.
* The EWMA `0.2 * sample + 0.8 * old` is computed in integers and rounded up,
  so that a positive average stays positive, as it does in doubles.  Nothing
  below depends on fractions of a millisecond.
* `Key` is what a report compares: the whole endpoint in `route_pool`
  (`sdk_facade.cpp:62`), host and port only in `endpoint_pool` (`net.cpp:58`).

### Failover

An iteration of the loop is `Select` (select, credentials, sign), `Send`,
`Answered`, and one of `ReportError`, `ReportBusy`, `ReportResponse`; any other
thread may take steps in between.  A report and the decision that follows it
are one action, because the decision reads only locals of the call.

* The transport answers with a `response`, with `busy` (a status for which
  `http_retryable` holds), with `lost` (an error whose `retryable` flag is set)
  or with `fatal`.
* `applied` counts how often the service carried a request out: once after a
  `response`, perhaps once after anything else.  It is history, and so are
  `sends`, `faults`, `waiting` and `waited`; no guard of the code reads them.
* `Timeout` is `options.timeout` in seconds; `Tick` cannot pass while a request
  has used it up.  Time-outs below a second are `Timeout = 0`.  (libcurl reads
  a time-out of 0 ms as *none*; that configuration is outside the model.)
* The latency reported is any of `Samples`, not tied to the seconds that passed.
* `SelectNothing` is error 700 and, for native calls, 864, which `native_api`
  returns from its own look at the pool before the loop.  Empty pools arise for
  native calls only: `sdk_state` gives the HTTP services a default endpoint.
* `setup` covers a missing transport, missing credentials and credentials the
  signer refuses.

### RotatingClient

Endpoints are taken by `attempt % size` and there is no health record, so calls
share nothing and an iteration is `Send`, `Answered` and a decision.  The
operations are `create_key`, which clears `idempotent`, and all others.  The
loop never reads that option, which is why its contract makes every call with
`allow_failover` replay-safe, unlike the facade's.

### HyperSnapClient

`get` (which every named read is a wrapper of) and `post` are the loop of
`Failover` without signing, over the pool of `net.cpp`.  Three differences
matter, and the model keeps them:

* `get` decides about another attempt from `allow_failover` alone, `post` asks
  for `idempotent` as well (`MayReplay`).  The options a request may be repeated
  under are therefore those of its verb, and that is the contract it is held to.
* Neither loop writes `last_error` on a retryable status.  It is returned only
  after an attempt that failed with a transport error, so the answer is still
  the outcome of the last send; `KeepsContract` is what shows it.
* Reports are matched by host and port.  `Key` is a constant of the instance:
  one run gives the endpoints different keys, the other the same.

### StateHandles

`sdk` and its four api classes have the same lifetime members (one macro, and
`sdk`'s own), so one kind of handle stands for all.  An accessor such as
`sdk::hypersnap()` constructs an api object from `state_` and retains it, which
is what a copy constructor does.

* A member function is a sequence of steps of its thread: `Enter` copies or
  fixes the operands, `Retain` is the `fetch_add`, `Release` the `fetch_sub` and
  its comparison with 1, `Delete` the `delete`, `Finish` the store to `state_`.
  Steps of other threads come in between.  Default construction and move
  construction touch one handle object or two and no count: one step.
* Two threads may not use one handle *object* at once when one of them writes it;
  that is the language's rule for any object, and the guards `CanRead` and
  `CanWrite` of the entering actions state it.  Two handles of one *state* may
  be used by any threads at any time; that is what the atomic count is for.
* `Use` is any call on a non-empty handle; it reads the state until it returns.
* An assignment of a handle to itself does nothing and is not a step.
* `Claims(s)` is who has a reference to `s`: handles that point to it and have
  been counted, and copy assignments that have retained it and not stored it
  yet.  It is also the refinement mapping to `SharedOwnership`.
* The memory orders of the atomics are not modelled: steps are sequentially
  consistent, and the decision to delete is an acquire-release read-modify-write.

### SigV4, S3Service, SignedCalls

`SignedCalls` composes the loop of `RotatingClient` with the requests it carries.
Each operation is an operator that builds the request its member function builds
(`PutObject`, `UploadPart`, `Invoke`, ...), next to a record of what was meant:
bucket, key and parameters.  `SignedSend` signs the request for the endpoint of
this iteration and puts it on the wire; the service then takes it apart.

* A text is a sequence of bytes.  A number above 255 is a *word*, a run of
  unreserved bytes that nothing looks into; that keeps texts short without losing
  what encoding, sorting, trimming and splitting do with the bytes that matter.
* Hash and HMAC are perfect: a signature is the record of what was signed, and two
  are equal when all of it is.
* `S3Service` is modelled from how the code relies on it, and is external: libcurl
  removes dot segments and headers without a value; the service decodes path
  (segment by segment) and query, encodes them again, sorts, and compares.  It
  requires `host` and every `x-amz-` header to be signed, bounds the age of a
  request, and serves a link for `X-Amz-Expires` seconds from `X-Amz-Date`.
* Outside of the arguments of the run, because the service and the client then do
  disagree: dot segments in a key, headers with an empty value, raw queries with
  needlessly escaped bytes, with `+` or with empty segments, targets that do not
  start with `/`.  The hazards name the ones callers may meet.
* `Tick` is a part of a second, so that a signature's second and the time point of
  `expires_at` differ.  Time passes only while calls wait or nothing is called.
* `Presign` works on the first endpoint of the list and has no loop.

### Endpoints and CAbi

Endpoint texts are sequences of tokens: a scheme, a mark (`"://"`, `"/"`, `":"`), a
number, or anything else.  `CAbi` is one SDK object of a program in
one of five languages (`language`), the `ql_sdk` it has a handle of, the state
behind it and a heap whose `malloc` may fail at any time.

* A call is `Begin` (the binding reads its handle), `Refuse` or `Load` (the
  argument tests; the outputs are reset and the pointer to the state is read from
  the `ql_sdk`), `Borrow` (the temporary api object retains the state), `Drop`,
  `SetError` or `SetResponse`, and `Finish`, where the binding reads the outputs and
  frees what it frees: always both, or the error alone after a failure.  C programs
  keep their structures between calls.
* Closing is `BeginClose` (the handle is read), `Destroy` (`ql_sdk_destroy`) and
  `Clear`, in this order, as `close` and `Dispose` have it: the handle is cleared
  after the destruction, and Python releases its lock for the foreign call.
  Any number of threads may be in any of these steps, and a C program is taken to
  clear its pointer as the bindings do.
* `Finalize` is .NET's finalizer.  It disposes an `Sdk` that no code will read any
  more, which is so as soon as the last method has read `_handle`: nothing keeps
  the object alive until the call returns.  The object is gone for the program
  then (`handle = "lost"`).
* `Misuse` is the first step whose behaviour is undefined: a `ql_sdk` that was freed
  is read or destroyed, or a state is retained after its last release.  Nothing
  is modelled after it.
* The seven calls differ in their arguments only, and are one here.
* Rust's `Sdk` is `Send` and not `Sync`, Node runs one call at a time: `MayUse`.
* Neither the library nor the bindings keep a close apart from a call that has read
  the handle and retained nothing yet, or from another close.  In the model of the
  C, Python and .NET programs such races happen and `Misuse` is reached, in .NET
  without the program closing anything.  What does hold: the state is shared by
  the `ql_sdk` and the calls that have retained it, whenever the destruction comes
  (`OutlivesHandle`), and a race of these two kinds is the only way to misuse, in
  those three languages only (`OnlyRacesMisuse`; `raced` is history).  So a call that
  runs, a call after the close and a second close after the first are harmless.

### Json, JsonGrammar, GrpcFrame, CurlTransfer, Responses

`Json` is the recursive-descent parser as a machine: the calls in progress are the
frames of `p.stack`, `p.at` is the place inside the innermost.  Bytes come one per
step from the environment, so that TLC explores exactly the texts that can still
be continued.  `JsonGrammar` tabulates the documents of RFC 8259 by length, with
their values, in two versions: strict, and with the numbers `std::from_chars`
takes beyond it (`01`, `1.`, `-.5`).  The reader refuses nothing of the first and
accepts nothing outside of the second.  A double is its decimal value: precision
is left out, its range is `MaxExponent`.

`GrpcFrame` has a byte with `Base` values, so that the width of the length field
is a parameter and the wrap can be reached.  `CurlTransfer` are libcurl's
callbacks over the hops of an exchange: header lines of redirects, of the final
response and of its trailers all go to one map; the body may come in any pieces
and stop anywhere.  `Responses` composes them with what the facade makes of a
response: `native_api::call` and `parse_json_response`.

### Task

`await_suspend` stores the continuation and resumes the awaited coroutine.  `place`
says where the two coroutines are, `stack` which of them run, `happened` and
`passed` count the events that have happened and those the inner coroutine was
resumed from.  With blocking transports (`Events = 0`) a task is done before it
is awaited and none of this shows.

### CallContract

The abstract specification: a call is opened, its request is sent, an outcome
is heard, and the call is closed.  A second send needs a retryable outcome,
replay-safe options and an attempt left.  A call that sent nothing closes with
a local error; one that sent something closes with the outcome of its *last*
send, and gives up on a retryable one only if it may not send again.  Every
call that was opened is closed.  `Failover`, `RotatingClient` and `HyperSnapClient`
implement it under a refinement mapping that renames the program counter.  The
contract states its liveness as it is meant, open calls lead to closed ones
(`Returns`), and leaves fairness to the loops.

## 3. Runs

| run | checks | instance |
|---|---|---|
| `pool` | `SelectDecides`, `FallbackEndsFirst`, `AverageWithinSamples`, `PrefersFaster`, `QuarantineEarned` | no, one, two and repeated endpoints; samples around 500 ms; 7 failures, one beyond the cap at 6, all 64 seconds |
| `failover_calls` | `AppliedOnce`, `TransportTimeBounded`, `QuarantineDeserved`, `MovesOn`, `KeepsContract` with its liveness | 2 threads, 0 or 2 routes, calls that are replay-safe, that are not and that ask for 0 attempts, 4 setups, all outcomes |
| `failover_tracking` | violates `ServiceErrorsTracked` | 1 thread, 3 attempts |
| `failover_deadline` | violates `CallDeadline` | 1 thread, 3 attempts |
| `signed_calls` | `RotationCovers`, `KeepsContract` with its liveness, `EveryAttemptVerifies`, `ObjectAddressed`, `LinkAccepted`, `LinkBound` | 5 clients of 0 to 3 unlike endpoints; 0 and 4 attempts; 2 calls; 7 operations and 5 links with awkward bytes |
| `rotation_create_key` | violates `CreateKeyOnce` | 1 call, the loop alone |
| `hypersnap_calls` | `PostAppliedOnce`, `QuarantineDeserved`, `MovesOn`, `KeepsContract` with its liveness | 2 threads, 0 or 2 endpoints on two hosts, reads and posts with four kinds of options |
| `hypersnap_one_host` | violates `MovesOn` | 1 thread, 2 endpoints on one host, 3 attempts |
| `handles` | `CountExact`, `NoUseAfterFree`, `OwnsJointly` with its liveness | 2 threads, 3 handles, 2 states |
| `c_abi` | `BlocksOwnedOnce`, `OutputsReadable`, `EndpointReadsBack`, `OutlivesHandle` with its liveness, `OnlyRacesMisuse` | 3 threads, 3 blocks, 5 languages |
| `responses` | `ReadsAllJson`, `ReadsOnlyJson`, `RoundTrip`, `FinalHopRules`, `PayloadIntact`, `OutcomeReported` | 2 hops of 2 lines; frames of up to 12 bytes where lengths wrap at 16; 5 alphabets, texts of 6 to 12 bytes |
| `task_resume` | violates `ResumedAfterEvent` | 2 events |

Every passing run but `responses` also checks the type invariant of its module.

**Bounds.**  The code treats threads alike and endpoints differ only in their
records, so two threads (the one observed and one that interferes) and two
routes (the one used and the one to move to) show every kind of interaction;
two attempts have a first and a last, three also one in the middle.  `MaxCalls`
bounds the calls of a thread, `MaxFailures` the failures recorded for an entry:
7 climbs the whole back-off (in `pool`, past the second failure only where at most
one latency was measured: a constraint that keeps the product of the two small),
and the 8 of the failover runs is never reached by
their calls, so it cuts nothing off.  The samples 498, 501 and 504 lie on both
sides of the 500 ms that unmeasured entries are given; the 600 ms of the runs
with several threads make a route that has just answered worse than one that
was never used, so that calls do change routes.  In the runs of the loops the
two routes differ in nothing else.  Three handles and two threads let one
thread drop the last but one handle of a state while the other copies or drops
the last, and leave a third as source or target; with two states an assignment
can release one and retain the other.  A state is allocated once, so `handles`
has no bound besides its sets.  In `c_abi` three threads let one call run while a
second closes and a third enters or closes as well, and hold at most one block
each; the third takes part only where the endpoint is the default one
(`ThirdWithDefault`), which touches nothing that threads share.  The endpoints of `signed_calls` differ in scheme, port and base
path; its arguments hold bytes that are kept, quoted, separators elsewhere or look
like an escape, and the options around the first and last attempt.  A JSON alphabet
has the bytes one part of the parser turns on, and a length at which each of its
functions is entered, left and entered again.

**Deadlock** checking is off where calls are bounded: when every caller has
made its `MaxCalls` calls and all quarantines are over, the system stops.  It is off in
`c_abi`, where a collected object and a misused `ql_sdk` end the program.  The run
`handles` checks it.

**Fairness.**  `WF_vars(Step(c))` for each thread: a thread that can run is
eventually scheduled, and a request is eventually answered because the
transport gives up after its time-out (`CURLOPT_TIMEOUT_MS`,
`src/curl_transport.cpp:58`).  Nothing is assumed about `Begin` and `Tick`: no
thread has to make a call, and no quarantine has to end.  Each caller needs its
own fairness, for the loops share nothing but the pool's mutex, which is never
held across a call.  In `StateHandles`, `Step(t)` is a thread inside a
member that retains or releases: it is code without waits, so it finishes.
Nobody has to drop a handle, and a call (`UseEnds`) need not return.  `CAbi` has the
same for the steps of a call, which returns because the transport times out, and
for those of a close once it has begun; nobody has to close, and the finalizer
need not run.

**Findings** (the runs that end in a violation):

* `CreateKey` of the stand-alone QKMS client is repeated after a lost answer or
  a 5xx, although it clears `idempotent` so that it would not be (`CreateKeyOnce`).
* A retryable status on the last attempt is booked as a *success* of the route
  and clears its failures and its quarantine (`ServiceErrorsTracked`).
* `timeout` is documented as a per-call deadline and bounds each attempt
  (`CallDeadline`).  What does hold is `TransportTimeBounded`.
* `endpoint_pool` books a report to the first entry with the same host and port
  (`src/net.cpp:58`), although endpoints differ in scheme and base path too: the
  endpoint that failed keeps a clean record and is tried again (`MovesOn` with
  both endpoints on one host).
* `co_await` on a task that is suspended on an event of its own resumes it before
  the event has happened, contrary to the comment on `task` (`ResumedAfterEvent`).
  No transport in the repository suspends.

## 4. Proofs

All theorems hold for any sets of endpoints, configurations, samples, threads,
options and any bounds, under the assumptions the modules name.

* `LatencyHistoryProofs`, first about the pool alone: `PoolTypeCorrect` (a
  quarantine is at most 64 s), `PoolQuarantineEarned`, `PoolSelectDecides` and
  `PoolFallbackEndsFirst`.  `PoolSelectDecides` needs that a non-empty set of
  positions has one with the least score; natural numbers below a bound are enough
  for it, so no induction over finite sets is.  It says that there is one answer
  while an entry is available; `PoolFallbackEndsFirst` is about the rest, where time
  takes the same from every quarantine.  The other lemmas say what `Healed`, `Penalised` and a tick do to an
  entry, and serve `FailoverProofs` and `HyperSnapClientProofs` too, where the
  history variable `seen` plays no part.
  Then with the history, whose type is a lemma: `AveragesWithinSamples` (an
  average is between two real measurements, by the bounds of one EWMA step) and
  `FasterIsPreferred`, which needs `0 \notin Samples`: 0 ms is a legal measurement
  and also the mark for "not measured", so without the assumption a route that
  answers at once is scored as 500 ms.
* `FailoverProofs`: `TypeCorrect`, `AppliedAtMostOnce`,
  `TransportTimeIsBounded`, `RecordsAreDeserved`, `FailoverMovesOn`.  None of
  these is inductive alone.  `LoopInvariant` adds what the program counter says
  of the histories: before the first send nothing was applied and no time was
  spent; past it, `sends = attempt + 1` or `attempt`, depending on the label;
  a call in its second iteration is replay-safe; a route that is being reported
  on has failed.  `RecordsAreDeserved` assumes that reports match whole
  endpoints, `FailoverMovesOn` that no endpoint is configured twice: with two
  entries for one endpoint only the first is quarantined.  `ContractImplemented`:
  initial states map to initial states and every step of the loop to a step of
  the contract or a stutter, using `LoopInvariant`.

* `StateHandlesProofs`: `HandlesTypeCorrect`, `CountIsExact`,
  `NeverUsedAfterFree` and `OwnershipImplemented`.  The invariant `IInv` has
  three parts.  `Discipline` says which operands a thread has at each label and
  that no other thread touches the handle it writes; it is inductive by itself
  and is where the guards on self-assignment are used.  `Account(s)` ties the life
  of a state to its count: the count is the cardinality of `Claims(s)`, a state
  that is claimed is alive, and a thread about to delete it is the only one and
  finds no claims.  `Account` needs `Discipline` because a step of one thread
  must add or remove exactly one claim.  The lower bound of the count, the one
  part of the type invariant that is not plain typing, follows from the account
  of a releasing thread: its handle is a claim.  Each lemma `...KeepsAccounts`
  says how one step changes the claims, and serves both the invariant and the
  refinement.  Assumptions: handles and threads are finite sets, apart from
  each other and from the null pointer.

* `SignedCallsProofs` has four layers.
  *The loop.*  `RotationTypeCorrect`, `RotationReachesAll`,
  `RotationContractImplemented`.  `LoopInv` counts sends by attempts and says
  that the call went to `Rotation(k)` for every attempt `k` it has made; that the
  first `Len(endpoints)` of these are all positions of the list is arithmetic.
  `SignedImplementsLoop` carries all this over to the operations
  (`SignedTypeCorrect`, `SignedReachesAll`, `SignedContractImplemented`).
  *The wire.*  `WireInv` says of a call that waits that what is on the wire is the
  request signed for the endpoint of this attempt, and that nothing the service
  got is older.  From it, `RequestsAddressed` and `ObjectsAddressed`: at every
  attempt, to whichever endpoint, the service reads back the parameters, the
  bucket and the key that the caller gave.
  *The texts.*  What these need are facts about the codecs: decoding undoes
  `percent_encode` for every text and every set of bytes kept, an encoded text has
  no separator inside, cutting and splitting at a separator undo joining.  They are
  proved by induction over the length, with a least counterexample in place of an
  induction theorem.  Assumptions: `AskedAssumption` (the names and values the
  operations put in a query are texts, the names of the parameters being the
  signer's unreserved bytes), `ContentAssumption`, `BaseAssumption` (a base path is
  empty or starts with a slash), `TokenAssumption`.  `ObjectsAddressed` has the
  hypothesis that the path has no dot segment (`NoDots`): libcurl removes those
  after the path was signed, a hazard of its own.
  *The signature.*  `AttemptsVerify` says that every attempt is accepted if its
  request is `Sendable`, and `EveryAttemptAccepted` draws from it the property of
  the run, for lists and calls that all are.  `Sendable` is what libcurl and the
  service leave as it was signed: no dot segment, no header without a value, and
  no escape, in a base path or in a caller's own query, of a byte that needs none.
  The run assumes it as `AllSendable`, which TLC evaluates; the two hazards at
  `curl_transport.cpp:55` and `:71` are where it fails.  The argument: for a text
  whose escapes are all needed (`EscapesNeeded`), decoding it and encoding it again,
  as the service does, gives what the signer writes, which keeps the escapes and
  puts their digits in upper case.  This is an induction over positions from the
  end of the text; it carries over to a path, segment by segment, and to a query,
  parameter by parameter, by induction over the separators.  The header fields
  arrive as they were stamped, with names in lower case and values that
  `trim_collapse` leaves alone, and the scope is cut from the same second as the
  date.  Sorting and the pairing of parameters need no lemma here: both sides
  apply them to the same list.
* `SignedLinksProofs`: `LinksAccepted` and `LinksBound`.  The invariant is
  `LinkInv`: the link of a behaviour is what `presign` makes of some call, for the
  first endpoint, at some time not later than now.  What a link is follows from
  that alone, and `LinkMade` says it in terms of what the service sees
  (`LinkShape`).  The hard part is the query: `presign` adds its parameters to the
  caller's, encodes and sorts them, and the service has to find each of its own
  exactly once (`Carries`).  So here sorting does need proofs: the byte-wise order
  of texts and of pairs is a strict total one, ranks by it are a permutation, and
  writing a query, reading it and sorting it again changes nothing.  None of the
  caller's names can be taken for one of the signer's, whatever escapes it has,
  because `presign` refuses those; the names of the signed headers come back from
  one `;`-separated list.  `LinkCompared` then reduces the service's decision to a
  comparison: the headers it got against those signed, the time against the life,
  and the rest of the request through the signature, of which `LinkBound` changes
  one part at a time.  A longer path or query differs after the service has read
  and written it again, and not merely before.  Hypotheses: `Linkable` is about
  what may be asked (an operation on storage, no escape of a byte that needs none
  in a base path or in a caller's own query, and no header of the name that the
  user of the link adds), and `Telling` about the questions of `LinkBound` (a header is
  asked for by its name in lower case and is not `host`, and the changed value is a
  different one).  The run assumes them as `AllLinkable`, which TLC evaluates.
  Assumptions: those of `SignedCallsProofs`, and `LinkFieldsAssumption` (finitely
  many header fields, whose names have no `;`).
* `HyperSnapClientProofs`: `ClientTypeCorrect`, `PostsAppliedOnce`,
  `HostRecordsDeserved`, `ClientMovesOn`, `ClientContractImplemented`.  The
  argument is that of `FailoverProofs`, with the verb in place of the options
  alone; `ClientTypeCorrect` includes that a call that goes on has an attempt left.
  `HostRecordsDeserved` holds for any keys; `ClientMovesOn` assumes that
  no two entries share one, which is what `hypersnap_one_host` shows the code to
  need.
* `CAbiProofs`: `CAbiTypeCorrect`, `BlocksAreOwnedOnce`, `OutputsAreReadable`,
  `StateOutlivesHandle`, `MisuseNeedsRace`, `EndpointsReadBack`.  `Discipline` says what the outputs of a thread are at
  each label: nothing before the library fills them, and no body beside an
  error.  It is why a binding that frees only the error on failure loses
  nothing, and why the reset of the outputs in the next call of a C program
  overwrites no pointer.  `Owned` is `BlocksOwnedOnce` in terms of single
  pointers; the cardinalities follow from a bijection.  `Counted` ties the count
  to the owners; no step of a close or a call can break it, because the model
  stops where a `ql_sdk` is misused.  `MisuseNeedsRace` rests on `Raceless`: as
  long as nothing has raced, whoever has read the handle has a `ql_sdk` that is
  alive, closes come one at a time, and the handle is left open to a destroyed
  `ql_sdk` only until its closer clears it.  `EndpointsReadBack` is about texts of any length: what
  `parse_endpoint` accepts is a scheme, an authority without a slash and a path
  that starts with one; the host is the whole authority, or what is before its
  only colon; and `origin` puts the same parts together, so that the first slash
  and the only colon are found where they were.  Assumptions: threads and blocks
  are finite sets, the null pointer is not a block, and the `ql_sdk` is not a
  thread (`CAbiAssumption`); a mark is not a number (`TokenAssumption`); the
  default is an https endpoint of a host, as `make_endpoint` writes it
  (`TextAssumption`).

* `ResponsesProofs`: `ResponsesInvariant`, `FieldsAreFinal`, `PayloadCorrect`,
  `OutcomeCorrect`, `JsonInvariant`, `ReaderSound`, `ReaderComplete`.
  `ResponsesInvariant` says
  that what is in the body and what is
  still to be delivered together are what was sent, that the header fields are
  those of the hop in progress, filed up to the last line that arrived, and that
  the number read from the five bytes before a message is the length written
  there (digits in base 256).  `PayloadCorrect` follows where the transfer ends, for
  every cut of the body into chunks.
  `ReaderSound` states `ReadsOnlyJson` for every alphabet and documents of any
  length and nesting.  Its invariant `Reads` ties the parser to the text: the text
  read so far is cut where the calls of `parse_array` and `parse_object` in
  progress began (`Laid`); each call owns a text that its elements or fields so far
  are the value of (`Room`, `KeyRoom`, `Keyed`, `Filled`); and the last part is what
  the place of the parser says: the inside of a string with what it stands for
  (`StringSoFar`), a number as far as it goes (`NumberSoFar`), some of a literal.
  The number is where an invariant is needed most: `Continues` looks only for a
  point, an exponent mark and the last byte, and `NumberContinues` shows that these
  are enough to collect a sign, digits, a fraction and an exponent in this order,
  `NumberMade` that `Readable` then leaves numbers only.  The grammar is tabulated
  with a fold; `LevelAt` and `InsideAt` turn that into one equation per length, and
  the lemmas up to `CloseBehind` rebuild each production from its parts.
  `ReaderComplete` states `ReadsAllJson`, and goes the other way, by induction over
  the levels of the table.  `Runs(q, x, r)` says that the parser `q` becomes `r` by
  reading the text `x`; `ReadsValue(x)` that wherever a value can be, with any calls in
  progress, reading `x` ends behind a value with the same calls in progress
  (`Behind`), and so for keys, members and elements.  The calls are compared by kind
  only, since what has been collected decides nothing.  Behind a number the parser
  is still in it, so `Behind` leaves that open and `BehindStep` closes it with the
  byte that follows.  For numbers, `Accrues` builds a text of the grammar byte by byte
  as `Continues` takes it.  `DocumentReads` puts the productions together.  A document
  that is read to its end is accepted (`EndAccepts`); since `failed` is never left and
  reading is a function (`RunsSame`), a text that failed is the start of no document.
  `RunInvariant` ties the state of the specification to `Runs`.
  Assumptions: `ResponsesAssumption`, the sets of bodies and field lines are
  well-typed, and `JsonAssumption`, the alphabets are sets of bytes.

Only model-checked: the liveness halves of `KeepsContract`, `OwnsJointly` and
`OutlivesHandle` (fairness is beyond this prover), and `RoundTrip` of `JsonGrammar`,
which is about a function defined by recursion over values nested to any depth, and
whose model of printing writes an exponent of two digits: it is for the bounds of
the run, not for every `MaxExponent`.

## 5. Not modelled

* The JSON accessors and the records the facade reads with them (`find`,
  `string_or`, `uint64_or`, `parse_user_value`, ...): total functions that fall
  back to a default; the one edge they have is listed as a hazard.
* `hex`, `unhex`, `verify_webhook_signature`: pure functions.
* `protocol::client`: it selects an endpoint, forwards to a transport, reports
  nothing and keeps nothing.
* Exceptions inside a coroutine, and moving a task object.
* The Qt example, which is outside of the library.
* Presigning with a hashed payload, which no operation asks for.
* The domain data types (plain structs) and the module wrappers `http` and
  `farcaster`; libcurl and OpenSSL, which are external.

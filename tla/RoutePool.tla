------------------------------ MODULE RoutePool ------------------------------
(***************************************************************************)
(* The latency-aware endpoint pool: route_pool of the facade               *)
(* (sdk_facade.cpp) and net::endpoint_pool (net.cpp), which are the same   *)
(* algorithm and differ only in how a report is matched with an entry.     *)
(*                                                                         *)
(* Every operation holds the pool's mutex for its whole body, so each is   *)
(* one action.  select() only reads; it is the predicate Selectable.       *)
(*                                                                         *)
(* Time.  quarantine_until is kept as the whole seconds LEFT of the        *)
(* quarantine, 0 meaning that quarantine_until <= now, and PoolTick is one     *)
(* second passing.  Latencies are whole milliseconds.                      *)
(***************************************************************************)
EXTENDS Integers, Sequences

CONSTANTS
  Endpoint,    (* the endpoint values a pool can be configured with         *)
  Key,         (* what a report compares to find its entry: the identity    *)
               (* for route_pool, the host and port for endpoint_pool       *)
  Configs,     (* the endpoint lists a pool may be built from               *)
  Samples,     (* latencies of successful requests, in ms                   *)
  MaxFailures  (* bound: consecutive failures recorded for one entry        *)

ASSUME ConfigsAssumption == Configs \subseteq Seq(Endpoint)
ASSUME KeyAssumption == Endpoint \subseteq DOMAIN Key
ASSUME SamplesAssumption == Samples \subseteq Nat
ASSUME MaxFailuresAssumption == MaxFailures \in Nat

VARIABLE entries     (* entries_, in configuration order                    *)

-----------------------------------------------------------------------------
\* Latency assumed of an entry that has not answered yet.
UnmeasuredLatency == 500

\* 1U << min(failures, 6) seconds.
Backoff(failures) ==
  <<2, 4, 8, 16, 32, 64>>[IF failures < 6 THEN failures ELSE 6]

\* 0.2 * sample + 0.8 * old, rounded up to whole milliseconds so that a
\* positive average stays positive, as it does in the code's doubles.
Ewma(old, sample) == (sample + 4 * old + 4) \div 5

\* Mutant of Score: the latency is forgotten.
ScoreByFailuresOnly(entry) == UnmeasuredLatency * (4 + 3 * entry.failures)

\* Four times the score of an entry: latency * (1 + 0.75 * failures).
Score(entry) ==
  (IF entry.latency > 0 THEN entry.latency ELSE UnmeasuredLatency)
    * (4 + 3 * entry.failures)

Fresh(e) == [value |-> e, latency |-> 0, failures |-> 0, quarantine |-> 0]

Slots == DOMAIN entries

Available == {i \in Slots : entries[i].quarantine = 0}

\* Mutant of Selectable: no answer while every entry is quarantined.
SelectableNoFallback(i) ==
  /\ i \in Available
  /\ \A j \in Available :
       \/ Score(entries[i]) < Score(entries[j])
       \/ Score(entries[i]) = Score(entries[j]) /\ i <= j

\* Mutant of Selectable: the first entry of all answers while every entry is
\* quarantined.
SelectableFrontFallback(i) ==
  IF Available # {}
    THEN /\ i \in Available
         /\ \A j \in Available :
              \/ Score(entries[i]) < Score(entries[j])
              \/ Score(entries[i]) = Score(entries[j]) /\ i <= j
    ELSE i \in Slots /\ i = 1

\* select(): the first entry of the best score among those out of quarantine;
\* when all are quarantined, one whose quarantine ends first (which of two
\* that end within the same second is below the model's clock).
Selectable(i) ==
  IF Available # {}
    THEN /\ i \in Available
         /\ \A j \in Available :
              \/ Score(entries[i]) < Score(entries[j])
              \/ Score(entries[i]) = Score(entries[j]) /\ i <= j
    ELSE /\ i \in Slots
         /\ \A j \in Slots : entries[i].quarantine <= entries[j].quarantine

\* Mutant of Matches: a report is booked to the first entry, whatever it is on.
MatchesFirst(i, e) == i = 1 /\ e \in Endpoint

\* The entry a report on e is booked to: the first one with the same key.
Matches(i, e) ==
  /\ Key[entries[i].value] = Key[e]
  /\ \A j \in Slots : j < i => Key[entries[j].value] # Key[e]

\* Mutant of Healed: the first sample is averaged with 0.
HealedAveragesFromZero(entry, sample) ==
  [entry EXCEPT !.latency = Ewma(@, sample), !.failures = 0, !.quarantine = 0]

\* Mutant of Healed: the quarantine is not lifted.
HealedStaysQuarantined(entry, sample) ==
  [entry EXCEPT !.latency = IF @ = 0 THEN sample ELSE Ewma(@, sample),
                !.failures = 0]

Healed(entry, sample) ==
  [value |-> entry.value,
   latency |-> IF entry.latency = 0 THEN sample ELSE Ewma(entry.latency, sample),
   failures |-> 0,
   quarantine |-> 0]

\* Mutant of Penalised: 1U << failures without the minimum.
PenalisedUncapped(entry) ==
  [entry EXCEPT !.failures = @ + 1, !.quarantine = 2 ^ (entry.failures + 1)]

Penalised(entry) ==
  [entry EXCEPT !.failures = @ + 1,
                !.quarantine = Backoff(entry.failures + 1)]

-----------------------------------------------------------------------------
PoolInit == \E config \in Configs :
          entries = [i \in DOMAIN config |-> Fresh(config[i])]

\* success(value, latency) / report_success
ReportSuccess(e, sample) ==
  entries' = [i \in Slots |->
                IF Matches(i, e) THEN Healed(entries[i], sample) ELSE entries[i]]

\* failure(value) / report_failure
ReportFailure(e) ==
  entries' = [i \in Slots |->
                IF Matches(i, e) THEN Penalised(entries[i]) ELSE entries[i]]

\* One second passes for every quarantine.
PoolTick ==
  entries' = [i \in Slots |->
                [entries[i] EXCEPT !.quarantine = IF @ = 0 THEN 0 ELSE @ - 1]]

FailuresBounded(e) ==
  \A i \in Slots : Matches(i, e) => entries[i].failures < MaxFailures

PoolNext ==
  \/ \E e \in Endpoint, sample \in Samples : ReportSuccess(e, sample)
  \/ \E e \in Endpoint : FailuresBounded(e) /\ ReportFailure(e)
  \/ PoolTick

PoolSpec == PoolInit /\ [][PoolNext]_entries

-----------------------------------------------------------------------------
Entry == [value: Endpoint, latency: Nat, failures: Nat, quarantine: 0..64]

\* The type invariant of the pool.
PoolTypeOK == entries \in Seq(Entry)

\* A quarantine is never longer than the back-off of the failures counted
\* against the entry, and an entry with no failure is not quarantined: a
\* success really ends the quarantine, and nothing else than a failure of the
\* entry itself starts one.
QuarantineEarned ==
  \A i \in Slots :
    /\ entries[i].failures = 0 => entries[i].quarantine = 0
    /\ entries[i].failures > 0 => entries[i].quarantine <= Backoff(entries[i].failures)

\* select() always has an answer, and never more than one, for a pool with an
\* entry that is out of quarantine: the scores of two entries may be equal, the
\* choice between them is not.
SelectDecides ==
  /\ Slots # {} => \E i \in Slots : Selectable(i)
  /\ Available # {} => \A i, j \in Slots : Selectable(i) /\ Selectable(j) => i = j

\* While every entry is quarantined, an entry that select() falls back to is one
\* that comes out first: when time alone has ended a quarantine of the pool, it
\* has ended that of the entry that the calls were sent to.
FallbackEndsFirst ==
  [][(/\ Available = {}
      /\ (Available)' # {}
      /\ \A i \in Slots : entries'[i].failures = entries[i].failures)
     => \A i \in Slots : Selectable(i) => i \in (Available)']_entries
=============================================================================

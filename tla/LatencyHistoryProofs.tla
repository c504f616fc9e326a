------------------------- MODULE LatencyHistoryProofs -------------------------
(***************************************************************************)
(* Proofs about the endpoint pool, and that its averages and what select() *)
(* prefers agree with the latencies that were measured, however many       *)
(* samples were folded in.  The first part is about the pool alone; the    *)
(* proofs about the clients that keep a pool use its lemmas.               *)
(***************************************************************************)
EXTENDS LatencyHistory, WellFoundedInduction, TLAPS

\* The back-off is a number of seconds up to 64, and a positive one.
LEMMA BackoffRange ==
  ASSUME NEW n \in Nat, n > 0
  PROVE  Backoff(n) \in 1..64
<1>1. CASE n < 6
  <2>1. n = 1 \/ n = 2 \/ n = 3 \/ n = 4 \/ n = 5
    BY <1>1
  <2> QED
    BY <1>1, <2>1 DEF Backoff
<1>2. CASE ~(n < 6)
  BY <1>2 DEF Backoff
<1> QED
  BY <1>1, <1>2

\* The average of two latencies is between them, whatever the rounding.
LEMMA EwmaBetween ==
  ASSUME NEW old \in Nat, NEW sample \in Nat
  PROVE  /\ Ewma(old, sample) \in Nat
         /\ \A low \in Nat : low <= old /\ low <= sample => low <= Ewma(old, sample)
         /\ \A high \in Nat : old <= high /\ sample <= high => Ewma(old, sample) <= high
BY DEF Ewma

\* A pool seen as a function: what PoolTypeOK says of single entries.
LEMMA EntryTypes ==
  ASSUME PoolTypeOK
  PROVE  /\ \A i \in Slots : entries[i] \in Entry
         /\ Slots = 1..Len(entries)
         /\ Len(entries) \in Nat
BY DEF PoolTypeOK, Slots

\* Updating every entry by a function of the entry keeps the type.
LEMMA MapEntries ==
  ASSUME PoolTypeOK, NEW F, F = [i \in Slots |-> F[i]], \A i \in Slots : F[i] \in Entry
  PROVE  F \in Seq(Entry)
BY EntryTypes DEF PoolTypeOK, Slots

LEMMA HealedType ==
  ASSUME NEW entry \in Entry, NEW sample \in Nat
  PROVE  Healed(entry, sample) \in Entry
<1>1. entry.latency \in Nat
  BY DEF Entry
<1>2. (IF entry.latency = 0 THEN sample ELSE Ewma(entry.latency, sample)) \in Nat
  BY <1>1, EwmaBetween
<1> QED
  BY <1>2 DEF Healed, Entry

LEMMA PenalisedType ==
  ASSUME NEW entry \in Entry
  PROVE  Penalised(entry) \in Entry
<1>1. entry.failures + 1 \in Nat /\ entry.failures + 1 > 0
  BY DEF Entry
<1>2. Backoff(entry.failures + 1) \in 0..64
  BY <1>1, BackoffRange
<1> QED
  BY <1>1, <1>2 DEF Penalised, Entry

-----------------------------------------------------------------------------
\* The pool is built from a configured list, and each operation keeps the type.
LEMMA InitType == PoolInit => PoolTypeOK
<1> SUFFICES ASSUME NEW config \in Configs,
                    entries = [i \in DOMAIN config |-> Fresh(config[i])]
             PROVE  PoolTypeOK
  BY DEF PoolInit
<1>1. config \in Seq(Endpoint)
  BY ConfigsAssumption
<1>2. \A i \in DOMAIN config : Fresh(config[i]) \in Entry
  BY <1>1 DEF Fresh, Entry
<1> QED
  BY <1>1, <1>2 DEF PoolTypeOK

LEMMA SuccessType ==
  ASSUME PoolTypeOK, NEW e, NEW sample \in Nat, ReportSuccess(e, sample)
  PROVE  PoolTypeOK'
<1>1. \A i \in Slots : entries[i] \in Entry /\ Healed(entries[i], sample) \in Entry
  BY EntryTypes, HealedType
<1> QED
  BY <1>1, MapEntries DEF ReportSuccess, PoolTypeOK

LEMMA FailureType ==
  ASSUME PoolTypeOK, NEW e, ReportFailure(e)
  PROVE  PoolTypeOK'
<1>1. \A i \in Slots : entries[i] \in Entry /\ Penalised(entries[i]) \in Entry
  BY EntryTypes, PenalisedType
<1> QED
  BY <1>1, MapEntries DEF ReportFailure, PoolTypeOK

LEMMA TickType ==
  ASSUME PoolTypeOK, PoolTick
  PROVE  PoolTypeOK'
<1>1. \A i \in Slots : entries[i] \in Entry
  BY EntryTypes
<1>2. \A entry \in Entry :
        [entry EXCEPT !.quarantine = IF @ = 0 THEN 0 ELSE @ - 1] \in Entry
  BY DEF Entry
<1> QED
  BY <1>1, <1>2, MapEntries DEF PoolTick, PoolTypeOK

\* The pool has its type in every reachable state, whatever is reported.
THEOREM PoolTypeCorrect == PoolSpec => []PoolTypeOK
<1>1. PoolTypeOK /\ [PoolNext]_entries => PoolTypeOK'
  <2> SUFFICES ASSUME PoolTypeOK, [PoolNext]_entries PROVE PoolTypeOK'
    OBVIOUS
  <2>1. CASE \E e \in Endpoint, sample \in Samples : ReportSuccess(e, sample)
    BY <2>1, SuccessType, SamplesAssumption
  <2>2. CASE \E e \in Endpoint : FailuresBounded(e) /\ ReportFailure(e)
    BY <2>2, FailureType
  <2>3. CASE PoolTick
    BY <2>3, TickType
  <2>4. CASE UNCHANGED entries
    BY <2>4 DEF PoolTypeOK
  <2> QED
    BY <2>1, <2>2, <2>3, <2>4 DEF PoolNext
<1> QED
  BY <1>1, InitType, PTL DEF PoolSpec

-----------------------------------------------------------------------------
LEMMA InitEarned == PoolInit => QuarantineEarned
<1> SUFFICES ASSUME NEW config \in Configs,
                    entries = [i \in DOMAIN config |-> Fresh(config[i])]
             PROVE  QuarantineEarned
  BY DEF PoolInit
<1>1. \A i \in Slots : entries[i].failures = 0 /\ entries[i].quarantine = 0
  BY DEF Slots, Fresh
<1> QED
  BY <1>1 DEF QuarantineEarned

LEMMA SuccessEarned ==
  ASSUME PoolTypeOK, QuarantineEarned, NEW e, NEW sample \in Nat, ReportSuccess(e, sample)
  PROVE  QuarantineEarned'
<1>1. Slots' = Slots
  BY DEF ReportSuccess, Slots
<1> SUFFICES ASSUME NEW i \in Slots
             PROVE  /\ entries'[i].failures = 0 => entries'[i].quarantine = 0
                    /\ entries'[i].failures > 0 =>
                         entries'[i].quarantine <= Backoff(entries'[i].failures)
  BY <1>1 DEF QuarantineEarned
<1>2. CASE Matches(i, e)
  <2>1. entries'[i] = Healed(entries[i], sample)
    BY <1>2 DEF ReportSuccess
  <2> QED
    BY <2>1 DEF Healed
<1>3. CASE ~Matches(i, e)
  <2>1. entries'[i] = entries[i]
    BY <1>3 DEF ReportSuccess
  <2> QED
    BY <2>1 DEF QuarantineEarned
<1> QED
  BY <1>2, <1>3

LEMMA FailureEarned ==
  ASSUME PoolTypeOK, QuarantineEarned, NEW e, ReportFailure(e)
  PROVE  QuarantineEarned'
<1>1. Slots' = Slots
  BY DEF ReportFailure, Slots
<1> SUFFICES ASSUME NEW i \in Slots
             PROVE  /\ entries'[i].failures = 0 => entries'[i].quarantine = 0
                    /\ entries'[i].failures > 0 =>
                         entries'[i].quarantine <= Backoff(entries'[i].failures)
  BY <1>1 DEF QuarantineEarned
<1>2. CASE Matches(i, e)
  <2>1. entries'[i] = Penalised(entries[i])
    BY <1>2 DEF ReportFailure
  <2>2. entries[i] \in Entry
    BY EntryTypes
  <2>3. /\ entries'[i].failures = entries[i].failures + 1
        /\ entries'[i].quarantine = Backoff(entries[i].failures + 1)
    BY <2>1, <2>2 DEF Penalised, Entry
  <2>4. entries[i].failures + 1 \in Nat /\ entries[i].failures + 1 > 0
    BY <2>2 DEF Entry
  <2>5. Backoff(entries[i].failures + 1) \in 1..64
    BY <2>4, BackoffRange
  <2> QED
    BY <2>3, <2>4, <2>5
<1>3. CASE ~Matches(i, e)
  <2>1. entries'[i] = entries[i]
    BY <1>3 DEF ReportFailure
  <2> QED
    BY <2>1 DEF QuarantineEarned
<1> QED
  BY <1>2, <1>3

LEMMA TickEarned ==
  ASSUME PoolTypeOK, QuarantineEarned, PoolTick
  PROVE  QuarantineEarned'
<1>1. Slots' = Slots
  BY DEF PoolTick, Slots
<1> SUFFICES ASSUME NEW i \in Slots
             PROVE  /\ entries'[i].failures = 0 => entries'[i].quarantine = 0
                    /\ entries'[i].failures > 0 =>
                         entries'[i].quarantine <= Backoff(entries'[i].failures)
  BY <1>1 DEF QuarantineEarned
<1>2. entries[i] \in Entry
  BY EntryTypes
<1>3. entries'[i] = [entries[i] EXCEPT !.quarantine = IF @ = 0 THEN 0 ELSE @ - 1]
  BY DEF PoolTick
<1>4. /\ entries'[i].failures = entries[i].failures
      /\ entries'[i].quarantine =
           IF entries[i].quarantine = 0 THEN 0 ELSE entries[i].quarantine - 1
  BY <1>2, <1>3 DEF Entry
<1>5. entries[i].failures \in Nat /\ entries[i].quarantine \in 0..64
  BY <1>2 DEF Entry
<1>6. entries[i].failures > 0 => Backoff(entries[i].failures) \in 1..64
  BY <1>5, BackoffRange
<1> QED
  BY <1>4, <1>5, <1>6 DEF QuarantineEarned

\* In every reachable state a quarantine is no longer than the failures
\* counted against the entry have earned, and an entry without one has none.
THEOREM PoolQuarantineEarned == PoolSpec => []QuarantineEarned
<1>1. PoolTypeOK /\ QuarantineEarned /\ [PoolNext]_entries => QuarantineEarned'
  <2> SUFFICES ASSUME PoolTypeOK, QuarantineEarned, [PoolNext]_entries
               PROVE  QuarantineEarned'
    OBVIOUS
  <2>1. CASE \E e \in Endpoint, sample \in Samples : ReportSuccess(e, sample)
    BY <2>1, SuccessEarned, SamplesAssumption
  <2>2. CASE \E e \in Endpoint : FailuresBounded(e) /\ ReportFailure(e)
    BY <2>2, FailureEarned
  <2>3. CASE PoolTick
    BY <2>3, TickEarned
  <2>4. CASE UNCHANGED entries
    BY <2>4 DEF QuarantineEarned, Slots
  <2> QED
    BY <2>1, <2>2, <2>3, <2>4 DEF PoolNext
<1> QED
  BY <1>1, InitEarned, PoolTypeCorrect, PTL DEF PoolSpec

-----------------------------------------------------------------------------
\* Every set of natural numbers that is not empty has a least element.
LEMMA LeastNatural ==
  ASSUME NEW T, T \subseteq Nat, T # {}
  PROVE  \E x \in T : \A y \in T : x <= y
<1> DEFINE less == OpToRel(<, Nat)
<1>1. \A x, y \in Nat : y < x => <<y, x>> \in less
  BY DEF OpToRel
<1>2. IsWellFoundedOn(less, Nat)
  BY NatLessThanWellFounded
<1> HIDE DEF less
<1>3. PICK x \in T : \A y \in T : ~ (<<y, x>> \in less)
  BY <1>2, WFMin
<1>4. ASSUME NEW y \in T PROVE x <= y
  <2>1. x \in Nat /\ y \in Nat /\ ~ (y < x)
    BY <1>1, <1>3
  <2> QED
    BY <2>1
<1> QED
  BY <1>4

\* A score is a natural number, so that scores can be compared.
LEMMA ScoreRange ==
  ASSUME NEW entry \in Entry
  PROVE  Score(entry) \in Nat
<1>1. entry.latency \in Nat /\ entry.failures \in Nat
  BY DEF Entry
<1> DEFINE latency == IF entry.latency > 0 THEN entry.latency ELSE UnmeasuredLatency
<1>2. latency \in Nat /\ 4 + 3 * entry.failures \in Nat
  BY <1>1 DEF UnmeasuredLatency
<1> HIDE DEF latency
<1>3. latency * (4 + 3 * entry.failures) \in Nat
  BY <1>2
<1> QED
  BY <1>3 DEF Score, latency

\* The choice of select() exists: among the entries out of quarantine the first
\* one with the least score, and otherwise one whose quarantine is the shortest.
LEMMA SelectionExists ==
  ASSUME PoolTypeOK, Slots # {}
  PROVE  \E i \in Slots : Selectable(i)
<1>1. \A i \in Slots : i \in Nat /\ entries[i] \in Entry
  BY EntryTypes
<1>2. CASE Available # {}
  <2> DEFINE scores == {Score(entries[i]) : i \in Available}
  <2>1. Available \subseteq Slots
    BY DEF Available
  <2>2. scores \subseteq Nat /\ scores # {}
    BY <1>1, <1>2, <2>1, ScoreRange
  <2>3. PICK least \in scores : \A score \in scores : least <= score
    BY <2>2, LeastNatural
  <2> DEFINE best == {i \in Available : Score(entries[i]) = least}
  <2>4. best \subseteq Nat /\ best # {}
    BY <1>1, <2>1, <2>3
  <2>5. PICK i \in best : \A j \in best : i <= j
    BY <2>4, LeastNatural
  <2>6. ASSUME NEW j \in Available
        PROVE  \/ Score(entries[i]) < Score(entries[j])
               \/ Score(entries[i]) = Score(entries[j]) /\ i <= j
    <3>1. Score(entries[i]) = least /\ least \in Nat
      BY <2>2, <2>3, <2>5
    <3>2. Score(entries[j]) \in Nat /\ least <= Score(entries[j])
      BY <2>2, <2>3, <2>6
    <3>3. CASE Score(entries[j]) = least
      BY <3>1, <3>3, <2>5, <2>6
    <3>4. CASE Score(entries[j]) # least
      BY <3>1, <3>2, <3>4
    <3> QED
      BY <3>3, <3>4
  <2> QED
    BY <1>2, <2>1, <2>5, <2>6 DEF Selectable
<1>3. CASE Available = {}
  <2> DEFINE ends == {entries[i].quarantine : i \in Slots}
  <2>1. ends \subseteq Nat /\ ends # {}
    BY <1>1 DEF Entry
  <2>2. PICK first \in ends : \A end \in ends : first <= end
    BY <2>1, LeastNatural
  <2>3. PICK i \in Slots : entries[i].quarantine = first
    BY <2>2
  <2> QED
    BY <1>3, <2>2, <2>3 DEF Selectable
<1> QED
  BY <1>2, <1>3

\* Two entries that may both be chosen while one is out of quarantine are one.
LEMMA SelectionUnique ==
  ASSUME PoolTypeOK, Available # {}, NEW i \in Slots, NEW j \in Slots,
         Selectable(i), Selectable(j)
  PROVE  i = j
<1>1. i \in Available /\ j \in Available /\ i \in Nat /\ j \in Nat
  BY EntryTypes DEF Selectable
<1>2. Score(entries[i]) \in Nat /\ Score(entries[j]) \in Nat
  BY EntryTypes, ScoreRange
<1>3. \/ Score(entries[i]) < Score(entries[j])
      \/ Score(entries[i]) = Score(entries[j]) /\ i <= j
  BY <1>1 DEF Selectable
<1>4. \/ Score(entries[j]) < Score(entries[i])
      \/ Score(entries[j]) = Score(entries[i]) /\ j <= i
  BY <1>1 DEF Selectable
<1> QED
  BY <1>1, <1>2, <1>3, <1>4

\* In every reachable state select() has an answer for a pool that has an entry,
\* and just one answer while an entry is out of quarantine.
THEOREM PoolSelectDecides == PoolSpec => []SelectDecides
<1>1. PoolTypeOK => SelectDecides
  BY SelectionExists, SelectionUnique DEF SelectDecides
<1> QED
  BY <1>1, PoolTypeCorrect, PTL

\* A second that passes while all are quarantined ends the shortest quarantines.
LEMMA TickEndsFirst ==
  ASSUME PoolTypeOK, PoolTick, Available = {}, (Available)' # {},
         NEW i \in Slots, Selectable(i)
  PROVE  i \in (Available)'
<1>1. Slots' = Slots
  BY DEF PoolTick, Slots
<1>2. \A j \in Slots : entries[j].quarantine \in 0..64 /\ entries[j].quarantine # 0
  BY EntryTypes DEF Available, Entry
<1>3. \A j \in Slots : entries'[j].quarantine = entries[j].quarantine - 1
  <2> SUFFICES ASSUME NEW j \in Slots
               PROVE  entries'[j].quarantine = entries[j].quarantine - 1
    OBVIOUS
  <2>1. entries[j] \in Entry
    BY EntryTypes
  <2>2. entries'[j] = [entries[j] EXCEPT !.quarantine = IF @ = 0 THEN 0 ELSE @ - 1]
    BY DEF PoolTick
  <2> QED
    BY <1>2, <2>1, <2>2 DEF Entry
<1>4. PICK j \in Slots : entries'[j].quarantine = 0
  BY <1>1 DEF Available
<1>5. entries[i].quarantine <= entries[j].quarantine
  BY DEF Selectable
<1>6. entries[i].quarantine = 1
  BY <1>2, <1>3, <1>4, <1>5
<1> QED
  BY <1>1, <1>3, <1>6 DEF Available

\* A report that is booked to a quarantined entry changes its failures.
LEMMA ReportTells ==
  ASSUME PoolTypeOK, QuarantineEarned, Available = {},
         \A i \in Slots : entries'[i].failures = entries[i].failures,
         NEW e, (\E sample \in Nat : ReportSuccess(e, sample)) \/ ReportFailure(e)
  PROVE  (Available)' = {}
<1>1. \A i \in Slots : entries[i] \in Entry /\ entries[i].failures # 0
  BY EntryTypes DEF QuarantineEarned, Available
<1>2. ASSUME NEW i \in Slots PROVE ~Matches(i, e)
  <2>1. CASE \E sample \in Nat : ReportSuccess(e, sample)
    BY <1>1, <2>1 DEF ReportSuccess, Healed
  <2>2. CASE ReportFailure(e)
    <3>1. Matches(i, e) => entries'[i] = Penalised(entries[i])
      BY <2>2 DEF ReportFailure
    <3>2. Penalised(entries[i]).failures = entries[i].failures + 1
      BY <1>1 DEF Penalised, Entry
    <3>3. entries[i].failures + 1 # entries[i].failures
      BY <1>1 DEF Entry
    <3> QED
      BY <3>1, <3>2, <3>3
  <2> QED
    BY <2>1, <2>2
<1>3. Slots' = Slots /\ \A i \in Slots : entries'[i] = entries[i]
  BY <1>2 DEF ReportSuccess, ReportFailure, Slots
<1> QED
  BY <1>3 DEF Available

\* With every entry quarantined, the one that select() falls back to comes out
\* first, for lists of any length and whatever has been reported.
THEOREM PoolFallbackEndsFirst == PoolSpec => FallbackEndsFirst
<1>1. PoolTypeOK /\ QuarantineEarned /\ [PoolNext]_entries =>
        [(/\ Available = {}
          /\ (Available)' # {}
          /\ \A i \in Slots : entries'[i].failures = entries[i].failures)
         => \A i \in Slots : Selectable(i) => i \in (Available)']_entries
  <2> SUFFICES ASSUME PoolTypeOK, QuarantineEarned, PoolNext, Available = {}, (Available)' # {},
                      \A i \in Slots : entries'[i].failures = entries[i].failures,
                      NEW i \in Slots, Selectable(i)
               PROVE  i \in (Available)'
    OBVIOUS
  <2>1. CASE PoolTick
    BY <2>1, TickEndsFirst
  <2>2. CASE \E e \in Endpoint, sample \in Samples : ReportSuccess(e, sample)
    BY <2>2, ReportTells, SamplesAssumption
  <2>3. CASE \E e \in Endpoint : FailuresBounded(e) /\ ReportFailure(e)
    BY <2>3, ReportTells
  <2> QED
    BY <2>1, <2>2, <2>3 DEF PoolNext
<1> QED
  BY <1>1, PoolTypeCorrect, PoolQuarantineEarned, PTL DEF PoolSpec, FallbackEndsFirst

-----------------------------------------------------------------------------
(***************************************************************************)
(* The pool with its history.                                              *)
(***************************************************************************)
HTypeOK == PoolTypeOK /\ seen \in [Slots -> SUBSET Samples]

\* The bracket of one entry: its average lies between two of its samples.
Bracketed(i) ==
  IF seen[i] = {} THEN entries[i].latency = 0
  ELSE \E low, high \in seen[i] : low <= entries[i].latency /\ entries[i].latency <= high

LEMMA BracketedEverywhere == AverageWithinSamples <=> \A i \in Slots : Bracketed(i)
BY DEF AverageWithinSamples, Bracketed

\* The pool and its history keep their types.
LEMMA HInitType == HInit => HTypeOK
BY InitType DEF HInit, HTypeOK

LEMMA HNextType == HTypeOK /\ [HNext]_measured => HTypeOK'
<1> SUFFICES ASSUME HTypeOK, [HNext]_measured PROVE HTypeOK'
  OBVIOUS
<1>1. ASSUME NEW e \in Endpoint, NEW sample \in Samples, Measure(e, sample)
      PROVE  HTypeOK'
  <2>1. PoolTypeOK'
    BY <1>1, SuccessType, SamplesAssumption DEF Measure, HTypeOK
  <2>2. Slots' = Slots
    BY <1>1 DEF Measure, ReportSuccess, Slots
  <2>3. seen' \in [Slots -> SUBSET Samples]
    BY <1>1 DEF Measure, HTypeOK
  <2> QED
    BY <2>1, <2>2, <2>3 DEF HTypeOK
<1>2. ASSUME NEW e \in Endpoint, Fail(e)
      PROVE  HTypeOK'
  <2>1. PoolTypeOK' /\ Slots' = Slots
    BY <1>2, FailureType DEF Fail, HTypeOK, ReportFailure, Slots
  <2> QED
    BY <1>2, <2>1 DEF Fail, HTypeOK
<1>3. CASE Pass
  <2>1. PoolTypeOK' /\ Slots' = Slots
    BY <1>3, TickType DEF Pass, HTypeOK, PoolTick, Slots
  <2> QED
    BY <1>3, <2>1 DEF Pass, HTypeOK
<1>4. CASE UNCHANGED measured
  BY <1>4 DEF measured, HTypeOK, PoolTypeOK, Slots
<1> QED
  BY <1>1, <1>2, <1>3, <1>4 DEF HNext

\* The type of the pool and of its history.
LEMMA HistoryTypeCorrect == HSpec => []HTypeOK
BY HInitType, HNextType, PTL DEF HSpec

-----------------------------------------------------------------------------
\* Folding one more sample in keeps the bracket of the entry it is booked to.
LEMMA MeasureBrackets ==
  ASSUME HTypeOK, AverageWithinSamples,
         NEW e \in Endpoint, NEW sample \in Samples, Measure(e, sample),
         NEW i \in Slots, Matches(i, e)
  PROVE  Bracketed(i)'
<1> DEFINE old == entries[i].latency
<1>1. sample \in Nat /\ old \in Nat
  BY EntryTypes, SamplesAssumption DEF HTypeOK, Entry
<1>2. /\ seen'[i] = seen[i] \cup {sample}
      /\ entries'[i] = Healed(entries[i], sample)
      /\ seen[i] \subseteq Nat
  BY SamplesAssumption DEF Measure, ReportSuccess, HTypeOK
<1>3. entries'[i].latency = IF old = 0 THEN sample ELSE Ewma(old, sample)
  BY <1>2 DEF Healed
<1>4. CASE old = 0
  BY <1>1, <1>2, <1>3, <1>4 DEF Bracketed
<1>5. CASE old # 0
  <2>1. PICK low \in seen[i], high \in seen[i] : low <= old /\ old <= high
    BY <1>5 DEF AverageWithinSamples
  <2>2. low \in Nat /\ high \in Nat
    BY <1>2
  <2>3. \E l \in {low, sample} : l <= old /\ l <= sample
    BY <1>1, <2>1, <2>2
  <2>4. \E h \in {high, sample} : old <= h /\ sample <= h
    BY <1>1, <2>1, <2>2
  <2>5. \E l \in {low, sample} : l <= Ewma(old, sample)
    BY <1>1, <2>2, <2>3, EwmaBetween
  <2>6. \E h \in {high, sample} : Ewma(old, sample) <= h
    BY <1>1, <2>2, <2>4, EwmaBetween
  <2> QED
    BY <1>2, <1>3, <1>5, <2>1, <2>5, <2>6 DEF Bracketed
<1> QED
  BY <1>4, <1>5

\* An entry whose average and history do not change keeps its bracket.
LEMMA SameBrackets ==
  ASSUME NEW i \in Slots, Bracketed(i),
         entries'[i].latency = entries[i].latency, seen'[i] = seen[i]
  PROVE  Bracketed(i)'
BY DEF Bracketed

LEMMA NextBrackets ==
  HTypeOK /\ AverageWithinSamples /\ [HNext]_measured => AverageWithinSamples'
<1> SUFFICES ASSUME HTypeOK, AverageWithinSamples, [HNext]_measured
             PROVE  AverageWithinSamples'
  OBVIOUS
<1>1. \A i \in Slots : Bracketed(i) /\ entries[i] \in Entry
  BY EntryTypes, BracketedEverywhere DEF HTypeOK
<1>2. Slots' = Slots
  BY DEF HNext, Measure, Fail, Pass, ReportSuccess, ReportFailure, PoolTick, Slots, measured
<1>3. SUFFICES ASSUME NEW i \in Slots PROVE Bracketed(i)'
  BY <1>2 DEF AverageWithinSamples, Bracketed
<1>4. ASSUME NEW e \in Endpoint, NEW sample \in Samples, Measure(e, sample)
      PROVE  Bracketed(i)'
  <2>1. CASE Matches(i, e)
    BY <1>4, <2>1, MeasureBrackets
  <2>2. CASE ~Matches(i, e)
    <3>1. entries'[i] = entries[i] /\ seen'[i] = seen[i]
      BY <1>4, <2>2 DEF Measure, ReportSuccess
    <3> QED
      BY <1>1, <3>1, SameBrackets
  <2> QED
    BY <2>1, <2>2
<1>5. ASSUME NEW e \in Endpoint, Fail(e)
      PROVE  Bracketed(i)'
  <2>1. entries'[i].latency = entries[i].latency /\ seen'[i] = seen[i]
    BY <1>1, <1>5 DEF Fail, ReportFailure, Penalised, Entry
  <2> QED
    BY <1>1, <2>1, SameBrackets
<1>6. CASE Pass
  <2>1. entries'[i].latency = entries[i].latency /\ seen'[i] = seen[i]
    BY <1>1, <1>6 DEF Pass, PoolTick, Entry
  <2> QED
    BY <1>1, <2>1, SameBrackets
<1>7. CASE UNCHANGED measured
  BY <1>1, <1>7, SameBrackets DEF measured
<1> QED
  BY <1>4, <1>5, <1>6, <1>7 DEF HNext

LEMMA InitBrackets == HInit => AverageWithinSamples
BY DEF HInit, PoolInit, AverageWithinSamples, Slots, Fresh

\* The average of every entry stays between two latencies it measured.
THEOREM AveragesWithinSamples == HSpec => []AverageWithinSamples
BY InitBrackets, NextBrackets, HistoryTypeCorrect, PTL DEF HSpec

-----------------------------------------------------------------------------
LEMMA BracketsPreferFaster ==
  ASSUME HTypeOK, AverageWithinSamples, 0 \notin Samples
  PROVE  PrefersFaster
<1> SUFFICES ASSUME NEW i \in Available, NEW j \in Available,
                    entries[i].failures = 0, entries[j].failures = 0,
                    seen[i] # {}, seen[j] # {},
                    \A fast \in seen[i], slow \in seen[j] : fast < slow
             PROVE  ~Selectable(j)
  BY DEF PrefersFaster
<1>1. /\ i \in Slots /\ j \in Slots
      /\ entries[i].latency \in Nat /\ entries[j].latency \in Nat
  BY EntryTypes DEF Available, HTypeOK, Entry
<1>2. seen[i] \subseteq Nat \ {0} /\ seen[j] \subseteq Nat \ {0}
  BY <1>1, SamplesAssumption DEF HTypeOK
<1>3. PICK low \in seen[i], high \in seen[i] :
        low <= entries[i].latency /\ entries[i].latency <= high
  BY <1>1 DEF AverageWithinSamples
<1>4. PICK slow \in seen[j] : slow <= entries[j].latency
  BY <1>1 DEF AverageWithinSamples
<1>5. /\ entries[i].latency > 0
      /\ entries[i].latency < entries[j].latency
  BY <1>1, <1>2, <1>3, <1>4
<1>6. /\ Score(entries[i]) = 4 * entries[i].latency
      /\ Score(entries[j]) = 4 * entries[j].latency
  BY <1>1, <1>5 DEF Score
<1>7. /\ ~(Score(entries[j]) < Score(entries[i]))
      /\ Score(entries[j]) # Score(entries[i])
  BY <1>1, <1>5, <1>6
<1> QED
  BY <1>7 DEF Selectable

\* When every request takes at least a millisecond the pool is latency-aware
\* in every reachable state: an entry whose requests were all slower than those
\* of another, both available and without a failure, is not selected.
THEOREM FasterIsPreferred ==
  ASSUME 0 \notin Samples
  PROVE  HSpec => []PrefersFaster
<1>1. HTypeOK /\ AverageWithinSamples => PrefersFaster
  BY BracketsPreferFaster
<1> QED
  BY <1>1, HistoryTypeCorrect, AveragesWithinSamples, PTL
=============================================================================

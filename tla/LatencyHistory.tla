---------------------------- MODULE LatencyHistory ----------------------------
(***************************************************************************)
(* The pool with a history variable: the latencies reported so far for     *)
(* each entry.  It lets the properties compare what select() prefers with  *)
(* what the requests really measured.                                      *)
(***************************************************************************)
EXTENDS RoutePool

VARIABLE seen        (* seen[i]: the samples reported for entry i           *)

measured == <<entries, seen>>

HInit == PoolInit /\ seen = [i \in Slots |-> {}]

Measure(e, sample) ==
  /\ ReportSuccess(e, sample)
  /\ seen' = [i \in Slots |->
                IF Matches(i, e) THEN seen[i] \cup {sample} ELSE seen[i]]

Fail(e) ==
  /\ FailuresBounded(e)
  /\ ReportFailure(e)
  /\ UNCHANGED seen

Pass == PoolTick /\ UNCHANGED seen

HNext ==
  \/ \E e \in Endpoint, sample \in Samples : Measure(e, sample)
  \/ \E e \in Endpoint : Fail(e)
  \/ Pass

HSpec == HInit /\ [][HNext]_measured

-----------------------------------------------------------------------------
\* The average of an entry stays between the fastest and the slowest request
\* it measured, however many samples are folded into it, and only an entry
\* that measured something has one.
AverageWithinSamples ==
  \A i \in Slots :
    IF seen[i] = {} THEN entries[i].latency = 0
    ELSE \E low, high \in seen[i] : low <= entries[i].latency /\ entries[i].latency <= high

\* The pool is latency-aware: an entry all of whose requests were slower than
\* all the requests of another one is not selected while both are available
\* and neither has failed since its last success.
PrefersFaster ==
  \A i, j \in Available :
    /\ entries[i].failures = 0 /\ entries[j].failures = 0
    /\ seen[i] # {} /\ seen[j] # {}
    /\ \A fast \in seen[i], slow \in seen[j] : fast < slow
    => ~Selectable(j)
=============================================================================

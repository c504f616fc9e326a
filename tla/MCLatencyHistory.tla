--------------------------- MODULE MCLatencyHistory ---------------------------
(* The instance of LatencyHistory for TLC. *)
EXTENDS LatencyHistory

CONSTANTS e1, e2

MCEndpoint == {e1, e2}

\* route_pool compares whole endpoints.
MCKey == [e \in MCEndpoint |-> e]

\* No endpoint, one, two, and the same one configured twice.
MCConfigs == {<<>>, <<e1>>, <<e1, e2>>, <<e2, e2>>}

\* Around the latency assumed of an unmeasured entry.
MCSamples == {498, 501, 504}

\* Bound: the back-off is climbed to its cap and beyond (MaxFailures = 7)
\* where at most one latency was measured, to the second failure elsewhere.
ClimbWithOneSample ==
  \/ \A i \in Slots : entries[i].failures <= 2
  \/ \A i \in Slots : seen[i] \subseteq {501}
=============================================================================

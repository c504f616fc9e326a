-------------------------- MODULE MCHyperSnapClient --------------------------
(* Instances of HyperSnapClient for TLC. *)
EXTENDS HyperSnapClient

CONSTANTS e1, e2

MCEndpoint == {e1, e2}

\* endpoint_pool compares hosts and ports: of two hosts, and of one host with
\* two base paths.
TwoHosts == [e \in MCEndpoint |-> e]
OneHost == [e \in MCEndpoint |-> "host"]

MCConfigs == {<<>>, <<e1, e2>>}
TwoRoutes == {<<e1, e2>>}

Req(v, n, f, i) ==
  [verb |-> v, max_attempts |-> n, allow_failover |-> f, idempotent |-> i]

\* A read that says it must not be repeated, a post that must not, one that may
\* be, and a read with failover switched off.
MCRequest ==
  {Req("get", 2, TRUE, FALSE), Req("post", 2, TRUE, FALSE),
   Req("post", 2, TRUE, TRUE), Req("get", 2, FALSE, TRUE)}
ThreeAttempts == {Req("get", 3, TRUE, TRUE)}
=============================================================================

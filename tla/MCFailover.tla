------------------------------ MODULE MCFailover ------------------------------
(* Instances of Failover for TLC. *)
EXTENDS Failover

CONSTANTS e1, e2

MCEndpoint == {e1, e2}
MCKey == [e \in MCEndpoint |-> e]

MCConfigs == {<<>>, <<e1, e2>>}
TwoRoutes == {<<e1, e2>>}

MCSetup ==
  {[has_transport |-> TRUE, credentials |-> k] : k \in {"valid", "missing", "refused"}}
    \cup {[has_transport |-> FALSE, credentials |-> "unused"]}
Signed == {[has_transport |-> TRUE, credentials |-> "valid"]}

Opt(n, f, i) == [max_attempts |-> n, allow_failover |-> f, idempotent |-> i]

\* Replay-safe, and not: by idempotent, which the other clients do not read.  No
\* attempt asked for means one.
MCOption == {Opt(2, TRUE, TRUE), Opt(2, TRUE, FALSE), Opt(0, TRUE, TRUE)}
ThreeAttempts == {Opt(3, TRUE, TRUE)}
=============================================================================

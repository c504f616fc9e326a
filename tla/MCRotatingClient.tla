--------------------------- MODULE MCRotatingClient ---------------------------
(* Instances of RotatingClient for TLC. *)
EXTENDS RotatingClient

CONSTANTS e1, e2, e3

MCEndpoint == {e1, e2, e3}

Built(n, h, s) == [endpoints |-> n, has_transport |-> h, signs |-> s]

MCClient ==
  {Built(<<e1, e2>>, TRUE, TRUE), Built(<<e1, e2, e3>>, TRUE, TRUE),
   Built(<<e1>>, TRUE, FALSE), Built(<<e1>>, FALSE, TRUE), Built(<<>>, TRUE, TRUE)}

MCOption ==
  {[max_attempts |-> n, allow_failover |-> f, idempotent |-> TRUE] :
     n \in {0, 2, 4}, f \in BOOLEAN}
=============================================================================

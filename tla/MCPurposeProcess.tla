-------------------------- MODULE MCPurposeProcess --------------------------
(* A purpose of a consumer and one of the e-service's producer itself.  One   *)
(* call is within the quotas of each, two are beyond; both may be active with *)
(* one call, and once two calls were approved for one, nothing is left.       *)
EXTENDS PurposeProcess, TLC

MCOwner == [p \in {"p1", "p2"} |-> IF p = "p1" THEN "consumer" ELSE "producer"]
MCQuota == [d \in {1} |-> [consumer |-> 1, total |-> 2]]
MCMaxVersions == [p \in {"p1", "p2"} |-> IF p = "p1" THEN 3 ELSE 2]
=============================================================================

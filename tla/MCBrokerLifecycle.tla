------------------------- MODULE MCBrokerLifecycle --------------------------
(* BrokerLifecycle on small instances. *)
EXTENDS BrokerLifecycle, TLC

CONSTANTS f1, f2, q1, b0

SamePort == [f \in Frontend |-> q1]

\* The broker b0 crashed, with its lease or before it had one.
CrashedBefore ==
  /\ AtRest
  /\ at = [p \in Process |-> IF p = b0 THEN "gone" ELSE "unborn"]
  /\ cause = [p \in Process |-> IF p = b0 THEN "crash" ELSE "none"]
  /\ crashes = 1
  /\ ownerLease \in {b0, NoFile}

SuccessorSpec == CrashedBefore /\ [][Next]_vars /\ Fairness
=============================================================================

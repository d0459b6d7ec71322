-------------------------- MODULE MCBrokerCommands --------------------------
(* BrokerCommands on small instances. *)
EXTENDS BrokerCommands, TLC

CONSTANTS f1, q1, q2

OtherPort == [f \in Frontend |-> IF f = f1 THEN q1 ELSE q2]

\* Why a broker closes, but for a crash, and the status of one that is gone
\* decide nothing here.
OwnershipView ==
  <<[p \in Process |-> cause[p] = "crash"],
    [p \in Process |-> IF at[p] = "gone" THEN "gone" ELSE state[p]],
    at, port, initializing, running, stopping, crashes, ownership, sessions, work,
    frontends, command>>

ProcessSymmetry == Permutations(Process)
=============================================================================

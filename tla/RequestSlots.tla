---------------------------- MODULE RequestSlots ----------------------------
(***************************************************************************)
(* What the bridge promises its callers.  Every request gets one outcome,  *)
(* which never changes.  A request that works on a patch takes the patch's *)
(* only slot, and the slot is given back at the moment the request has its *)
(* outcome: never earlier, and never by another request.                   *)
(***************************************************************************)
CONSTANTS
  Patcher,
  RequestId,
  None

VARIABLES
  slot,      \* the request that works on a patch, or None
  outcome    \* what became of each request

vars == <<slot, outcome>>

Init ==
  /\ slot = [p \in Patcher |-> None]
  /\ outcome = [id \in RequestId |-> "unused"]

\* A request that needs no patch that exists already takes no slot.
Ask(id) ==
  /\ outcome[id] = "unused"
  /\ outcome' = [outcome EXCEPT ![id] = "pending"]
  /\ \/ UNCHANGED slot
     \/ \E p \in Patcher : slot[p] = None /\ slot' = [slot EXCEPT ![p] = id]

Settle(ids) ==
  /\ \A id \in RequestId :
       IF id \in ids
       THEN outcome[id] = "pending" /\ outcome'[id] \in {"resolved", "rejected"}
       ELSE outcome'[id] = outcome[id]
  /\ outcome' \in [RequestId -> {"unused", "pending", "resolved", "rejected"}]
  /\ slot' = [p \in Patcher |-> IF slot[p] \in ids THEN None ELSE slot[p]]

Next ==
  \/ \E id \in RequestId : Ask(id)
  \/ \E ids \in SUBSET RequestId : Settle(ids)

Spec == Init /\ [][Next]_vars
=============================================================================

--------------------------- MODULE MCPatchBridge ---------------------------
(* PatchBridge on small instances. *)
EXTENDS PatchBridge, TLC

CONSTANTS k, p1, s1, s2

\* The object in Max that creates patches, and two objects for one patch
\* with different scopes, one of them of another version.
Objects ==
  {[patcher |-> k, scope |-> s1, controller |-> TRUE, compatible |-> TRUE],
   [patcher |-> p1, scope |-> s1, controller |-> FALSE, compatible |-> TRUE],
   [patcher |-> p1, scope |-> s2, controller |-> FALSE, compatible |-> FALSE]}

RequestSymmetry == Permutations(RequestId) \cup Permutations(Client)
                     \cup Permutations(Revision)
=============================================================================

---------------------------- MODULE MCPatchSync ----------------------------
(* PatchSync on small instances. *)
EXTENDS PatchSync, TLC

\* One allowance per run.
Allow(calls, edits, breaks, faults, saves) ==
  [calls |-> calls, edits |-> edits, breaks |-> breaks, faults |-> faults,
   saves |-> saves]

CrashAllowance == Allow(4, 1, 2, 1, 1)
EditAllowance == Allow(3, 1, 0, 1, 0)
LiveAllowance == Allow(3, 1, 1, 1, 0)

\* Boxes, contents and states of the unmanaged boxes are interchangeable.
DataSymmetry == Permutations(Box) \cup Permutations(Value) \cup Permutations(Loose)
=============================================================================

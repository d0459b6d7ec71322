--------------------------- MODULE MCEditHistory ---------------------------
(* EditHistory on small instances. *)
EXTENDS EditHistory, TLC

\* All patches in one scope.
SharedScope == [i \in Identity |-> "default"]

PatchSymmetry == Permutations(Identity)
=============================================================================

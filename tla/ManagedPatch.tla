---------------------------- MODULE ManagedPatch ----------------------------
(***************************************************************************)
(* What the synchroniser promises about one Max patch, whatever happens to *)
(* messages, processes and files in between.  People may edit the patch,   *)
(* save it and reopen it.  Everything the synchroniser does to it is one   *)
(* atomic step: the patch receives a new revision, and at that moment      *)
(* every managed box the revision changes is as the revision has it.  A    *)
(* box the revision does not change keeps its content or receives the      *)
(* revision's.  Boxes that are not managed are never touched.              *)
(***************************************************************************)
EXTENDS PatchGraphs

CONSTANTS
  Loose,    \* states of the boxes maxforge does not manage
  Null      \* the revision of a patch that was never synchronised

VARIABLES
  max,      \* [revision, live]: the open patch
  saved     \* [revision, live]: its file

vars == <<max, saved>>

Live == [managed : Graph, loose : Loose]
Patch == [revision : Graph \cup {Null}, live : Live]

\* A fresh patch has no managed box; one synchronised earlier has the boxes
\* of its revision.
Init ==
  /\ max \in Patch
  /\ max.live.managed = IF max.revision = Null THEN EmptyGraph ELSE max.revision
  /\ saved = max

\* Somebody edits the patch in Max; a plan that failed half-way and could not
\* be rolled back looks the same.  The revision stays.
Edit ==
  /\ \E live \in Live : max' = [max EXCEPT !.live = live]
  /\ UNCHANGED saved

\* The graph of the patch's last revision.
Current == IF max.revision = Null THEN EmptyGraph ELSE max.revision

Commit ==
  /\ \E target, managed \in Graph :
       /\ \A b \in Box :
            \/ managed[b] = target[b]
            \/ managed[b] = max.live.managed[b] /\ target[b] = Current[b]
       /\ max' = [revision |-> target,
                  live |-> [max.live EXCEPT !.managed = managed]]
  /\ UNCHANGED saved

Save ==
  /\ saved' = max
  /\ UNCHANGED max

Reopen ==
  /\ max' = saved
  /\ UNCHANGED saved

Next == Edit \/ Commit \/ Save \/ Reopen

Spec == Init /\ [][Next]_vars
=============================================================================

---------------------------- MODULE MCPatchPlans ----------------------------
(* PatchReview for TLC: an object, a subpatcher, and an object inside it. *)
EXTENDS PatchReview

CONSTANTS osc, sub, inner, plain, other, patcher, v1, v2, list, color, file

Boxes == {osc, sub, inner}
Paths == [b \in Boxes |-> IF b = inner THEN <<sub>> ELSE <<>>]
Cords == {<<osc, sub>>, <<inner, inner>>}

FileKind(class, value, path) ==
  [class |-> class, attributes |-> [a \in {color, file} |-> IF a = file THEN path ELSE value]]

Kind(class, value) == FileKind(class, value, Absent)

\* A box at the root takes every kind of change, and may get a file, which a plan
\* cannot set; the subpatcher can also become a plain box, and lose an attribute;
\* the inner box can change in place.
BoxContents ==
  [b \in Boxes |->
     CASE b = osc -> {Kind(plain, v1), Kind(plain, Absent), Kind(plain, list), Kind(other, v2),
                      FileKind(plain, v1, v2)}
       [] b = sub -> {Kind(patcher, v1), Kind(patcher, Absent), Kind(plain, v1)}
       [] b = inner -> {Kind(plain, v1), Kind(plain, v2), Kind(plain, Absent)}]

\* Reconciled: an object that may change in every way, a subpatcher that may be
\* replaced or deleted, with an object inside that may change.
EditedContents ==
  [b \in Boxes |->
     CASE b = osc -> {Kind(plain, v1), Kind(plain, v2), Kind(other, v2)}
       [] b = sub -> {Kind(patcher, v1), Kind(patcher, Absent), Kind(plain, v1)}
       [] b = inner -> {Kind(plain, v1), Kind(plain, v2)}]

EditedGraphs ==
  {graph \in Graph : \A b \in BoxesOf(graph) : graph.boxes[b] \in EditedContents[b]}

\* All three boxes with both cords, and the object alone.
StartGraphs ==
  LET boxes == [b \in Boxes |-> Kind(IF b = sub THEN patcher ELSE plain, v1)]
  IN  {[boxes |-> boxes, cords |-> Cords],
       [boxes |-> [b \in Boxes |-> IF b = osc THEN boxes[b] ELSE Absent], cords |-> {}]}
=============================================================================

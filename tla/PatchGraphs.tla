---------------------------- MODULE PatchGraphs ----------------------------
(***************************************************************************)
(* Managed patch graphs and the pure functions the synchroniser computes   *)
(* on them.  A graph maps every box identity to its content, or to Absent. *)
(* Text, geometry, attributes and cords of a box are one opaque content:   *)
(* the synchroniser only ever compares them.  A revision is the hash of    *)
(* the canonical graph, so a graph stands for its own revision.            *)
(***************************************************************************)

CONSTANTS
  Box,      \* managed box identities of one scope
  Value,    \* contents a managed box can have
  Absent    \* "the graph has no such box"

ASSUME AbsentIsNoValue == Absent \notin Value

Graph == [Box -> Value \cup {Absent}]

EmptyGraph == [b \in Box |-> Absent]

-----------------------------------------------------------------------------
(* diffPatchGraphs and the application of its operations. *)

\* The boxes the operations of the plan from -> to touch.
Changed(from, to) == {b \in Box : from[b] # to[b]}

\* The native preconditions of those operations on a graph: a box that is
\* created must not exist, one that is set or deleted must exist.
OperationsFit(g, from, to) ==
  \A b \in Changed(from, to) : (g[b] = Absent) <=> (from[b] = Absent)

\* The graph the operations leave.
Patched(g, from, to) ==
  [b \in Box |-> IF b \in Changed(from, to) THEN to[b] ELSE g[b]]

\* The graphs an interrupted plan can leave when its rollback fails too: a box
\* of the plan keeps its old content, has its new one, or is missing.
PartlyPatched(g, from, to) ==
  {h \in Graph : \A b \in Box :
     \/ h[b] = g[b]
     \/ b \in Changed(from, to) /\ h[b] \in {to[b], Absent}}

-----------------------------------------------------------------------------
(* Reconstruction of the live managed graph, and the three-way merge. *)

\* A live managed box is accepted when the acknowledged graph has it, or when
\* the recovery graph has exactly the same box.
Reconstructs(acknowledged, live, recovery) ==
  \A b \in Box : \/ live[b] = Absent
                 \/ acknowledged[b] # Absent
                 \/ live[b] = recovery[b]

\* One box of the merge has an outcome unless both sides changed it apart.
BoxMerges(base, live, desired) ==
  base = live \/ base = desired \/ live = desired

MergeSucceeds(base, live, desired) ==
  \A b \in Box : BoxMerges(base[b], live[b], desired[b])

Merged(base, live, desired) ==
  [b \in Box |-> IF desired[b] # base[b] THEN desired[b] ELSE live[b]]
=============================================================================

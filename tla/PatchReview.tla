----------------------------- MODULE PatchReview -----------------------------
(***************************************************************************)
(* What an agent is told of the edits that PatchReconciliation is about to *)
(* merge: the snapshot captured when the acknowledged graph was in Max is  *)
(* compared with the live one (diffPatcherSnapshots), and the changes are  *)
(* grouped into clusters that share an object (reviewPatchEdits).          *)
(* A snapshot tells boxes apart by a runtime id that Max gives them, while *)
(* the graphs tell them apart by the managed id in their scripting name:   *)
(* a person can rename a box, or delete one and make it again.             *)
(***************************************************************************)
EXTENDS PatchReconciliation

CONSTANT Loose    \* an unmanaged box, next to a box that has a cord to it

ASSUME ReviewAssumption == Loose \notin Box /\ Absent \notin Box

-----------------------------------------------------------------------------
(* Snapshots.                                                                *)

\* A box is made once, and again if a person deletes and restores it.
Runtime(b, recreated) == <<b, IF b \in recreated THEN 2 ELSE 1>>

\* managedIdFromVarName: a renamed box has none.
SnapshotBox(graph, b, recreated, renamed) ==
  [runtime |-> Runtime(b, recreated), path |-> PathTo[b],
   id |-> IF b \in renamed THEN Absent ELSE b, content |-> graph.boxes[b]]

LooseBox(b) == [runtime |-> Runtime(Loose, {}), path |-> PathTo[b], id |-> Absent, content |-> Absent]

SnapshotOf(graph, recreated, renamed, corded) ==
  [boxes |-> {SnapshotBox(graph, b, recreated, renamed) : b \in BoxesOf(graph)}
               \cup {LooseBox(b) : b \in corded},
   cords |-> {<<SnapshotBox(graph, cord[1], recreated, renamed),
                SnapshotBox(graph, cord[2], recreated, renamed)>> : cord \in graph.cords}
               \cup {<<LooseBox(b), SnapshotBox(graph, b, recreated, renamed)>> : b \in corded}]

\* Ways in which the live patch can hold the current graph: boxes made again,
\* with what is in them, and boxes renamed that reconciliation cannot place.
Renamed == {b \in unclear \cap BoxesOf(current) : ~Holds(current, b)}

Recreations ==
  {boxes \in SUBSET ((BoxesOf(acknowledged) \cap BoxesOf(current)) \ Renamed) :
     \A b \in boxes : Inside(b) \cap BoxesOf(current) \subseteq boxes}

Baseline == SnapshotOf(acknowledged, {}, {}, {})

Live(recreated) == SnapshotOf(current, recreated, Renamed, unmanaged)

-----------------------------------------------------------------------------
(* diffPatcherSnapshots                                                      *)

\* snapshotBoxKey, snapshotConnectionKey
Key(box) == <<box.path, box.runtime>>
CordKey(cord) == <<Key(cord[1]), Key(cord[2])>>

Missing(left, right) == {box \in left : \A other \in right : Key(other) # Key(box)}
WithoutCords(left, right) == {cord \in left : \A other \in right : CordKey(other) # CordKey(cord)}

ChangedPairs(from, to) ==
  {pair \in from \X to : Key(pair[1]) = Key(pair[2]) /\ pair[1] # pair[2]}

\* A change names the boxes it is about; of a box that changed, before and after.
Changes(from, to) ==
  {[kind |-> "box_removed", boxes |-> <<box>>] : box \in Missing(from.boxes, to.boxes)}
    \cup {[kind |-> "box_added", boxes |-> <<box>>] : box \in Missing(to.boxes, from.boxes)}
    \cup {[kind |-> "box_changed", boxes |-> pair] : pair \in ChangedPairs(from.boxes, to.boxes)}
    \cup {[kind |-> "connection_removed", boxes |-> cord] : cord \in WithoutCords(from.cords, to.cords)}
    \cup {[kind |-> "connection_added", boxes |-> cord] : cord \in WithoutCords(to.cords, from.cords)}

-----------------------------------------------------------------------------
(* reviewPatchEdits                                                          *)

IsRenaming(change) == change.kind = "box_changed" /\ change.boxes[1].id # change.boxes[2].id

\* signalKindsForChange.  Text, position and comment are attributes here.
SignalKinds(change) ==
  LET left == change.boxes[1].content
      right == change.boxes[2].content
  IN  CASE change.kind = "box_added" -> {"object_addition"}
        [] change.kind = "box_removed" -> {"object_removal"}
        [] change.kind = "box_changed" ->
             {kind \in {"object_configuration", "box_attributes", "ownership"} :
                \/ kind = "object_configuration" /\ left.class # right.class
                \/ kind = "box_attributes" /\ left.attributes # right.attributes
                \/ kind = "ownership" /\ IsRenaming(change)}
        [] OTHER -> {"routing"}

\* describeChange: the boxes in evidence.
InEvidence(change) ==
  CASE change.kind = "box_changed" /\ ~IsRenaming(change) -> {change.boxes[2]}
    [] OTHER -> Range(change.boxes)

ManagedIds(change) == {box.id : box \in InEvidence(change)} \ {Absent}

UnmanagedIds(change) == {box.runtime : box \in {x \in InEvidence(change) : x.id = Absent}}

IdentityKeysBug(change) == {<<"runtime", box.runtime>> : box \in InEvidence(change)}

\* evidenceIdentityKeys
IdentityKeys(change) ==
  {<<"runtime", box.runtime>> : box \in InEvidence(change)}
    \cup {<<"managed", id>> : id \in ManagedIds(change)}

\* A change joins the cluster of the first one with each of its identities, of
\* those that came before.
Joined(change, grouped) ==
  LET keys == {<<change.boxes[1].path, key>> : key \in IdentityKeys(change)}
      shared == {first \in grouped.firsts : first.key \in keys}
      joining == {change} \cup {first.change : first \in shared}
      touched == {cluster \in grouped.clusters : cluster \cap joining # {}}
  IN  [firsts |-> grouped.firsts \cup
         {[key |-> key, change |-> change] : key \in keys \ {first.key : first \in shared}},
       clusters |-> (grouped.clusters \ touched) \cup {(UNION touched) \cup {change}}]

\* buildEditClusters.  The order of the changes is that of their text.
Clusters(changes) == FoldSet(Joined, [firsts |-> {}, clusters |-> {}], changes).clusters

\* createEditCluster
Risks(cluster) ==
  LET kinds == UNION {SignalKinds(change) : change \in cluster}
  IN  {risk \in {"mixed_effects", "touches_unmanaged_state", "ownership_boundary_changed"} :
         \/ risk = "mixed_effects" /\ Cardinality(kinds) > 1
         \/ /\ risk = "touches_unmanaged_state"
            /\ \E change \in cluster : UnmanagedIds(change) # {}
         \/ risk = "ownership_boundary_changed" /\ "ownership" \in kinds}

AffectedManagedIds(changes) == UNION {ManagedIds(change) : change \in changes}

-----------------------------------------------------------------------------
(* Properties.                                                               *)

\* Changes that no object of one patcher has in common.
Apart(left, right) ==
  \/ left.boxes[1].path # right.boxes[1].path
  \/ \A x \in InEvidence(left), y \in InEvidence(right) :
       x.runtime # y.runtime /\ (x.id # y.id \/ x.id = Absent)

\* Clusters are the connected components of the changes.
ClustersAreComponents(changes, clusters) ==
  /\ UNION clusters = changes
  /\ \A left, right \in clusters : left # right =>
       \A x \in left, y \in right : x # y /\ Apart(x, y)
  /\ \A cluster \in clusters : \A part \in (SUBSET cluster) \ {{}, cluster} :
       \E x \in part, y \in cluster \ part : ~Apart(x, y)

\* The review names exactly the managed boxes that the merge will find different,
\* or with different cords, or made again.
EditsAreNamed(changes, recreated) ==
  AffectedManagedIds(changes) =
    {b \in Box : \/ acknowledged.boxes[b] # current.boxes[b]
                 \/ b \in recreated \cup Renamed \cup unmanaged
                 \/ CordsOf(acknowledged, {b}) # CordsOf(current, {b})
                 \/ \E cord \in CordsOf(current, {b}) : {cord[1], cord[2]} \cap recreated # {}}

\* Whatever reconciliation refuses because of a renamed box or an unmanaged
\* neighbour is in a cluster that recommends to ask.
BordersAreRisks(clusters) ==
  \A cluster \in clusters :
    (\E change \in cluster : ManagedIds(change) \cap Renamed # {} \/ UnmanagedIds(change) # {})
      => Risks(cluster) \ {"mixed_effects"} # {}

\* Whatever a person did, the review that an agent reads before it merges
\* names every managed box that differs, and no other, in clusters that share
\* no object and cannot be divided, with every border case marked
\* (reviewPatchEdits against reconcilePatchGraphs).  The review looks at two
\* snapshots only, so the preparation that changes nothing stands for all.
ReviewExplains ==
  stage = "reconciling" /\ intent = acknowledged /\ wanted = acknowledged =>
    \A recreated \in Recreations :
      LET changes == Changes(Baseline, Live(recreated))
          clusters == Clusters(changes)
      IN  /\ ClustersAreComponents(changes, clusters)
          /\ EditsAreNamed(changes, recreated)
          /\ BordersAreRisks(clusters)
=============================================================================

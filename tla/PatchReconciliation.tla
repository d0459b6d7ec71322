------------------------- MODULE PatchReconciliation -------------------------
(***************************************************************************)
(* What a preparation with manualChanges = "merge" does before its plan is *)
(* sent: reconstruct the managed graph from the live snapshot, merge it    *)
(* with the complete desired graph against the previous intent, derive the *)
(* plan from the live to the merged graph, and refuse one that destroys a  *)
(* cord to an unmanaged box (reconcile.ts, patch-merge.ts).  Its plan then *)
(* runs as in PatchPlans; plans that need no reconciliation do as well.    *)
(***************************************************************************)
EXTENDS PatchPlans, FiniteSetsExt

CONSTANTS
  Starts,   \* graphs that Max has acknowledged, and that were intended
  Edited    \* graphs a person or an agent makes of them

ASSUME ReconciliationAssumption == Starts \subseteq Graph /\ Edited \subseteq Graph

VARIABLES
  acknowledged,  \* the graph of the revision that Max holds
  intent,        \* the desired graph of the plan before: the base of the merge
  wanted,        \* the complete desired graph of this preparation
  unclear,       \* managed boxes that a person renamed, or that are there twice
  unmanaged      \* managed boxes with a cord to an unmanaged one

inputs == <<acknowledged, intent, wanted, unclear>>
allVars == <<vars, inputs, unmanaged>>

-----------------------------------------------------------------------------
(* reconstructManagedGraph, of the live graph.                               *)

\* Boxes of a plan that ran although its acknowledgement was lost.
Recovered == BoxesOf(current) \cap (BoxesOf(wanted) \ BoxesOf(acknowledged))

Unknown == BoxesOf(current) \ (BoxesOf(wanted) \cup BoxesOf(acknowledged))

\* A box with all that is in it, if it is there.
Tree(graph, b) ==
  [boxes |-> [c \in {b} \cup Inside(b) |-> graph.boxes[c]],
   cords |-> {cord \in graph.cords : cord[1] \in Inside(b)}]

\* The patcher of a box, if it has one.  (rebuildNode takes that of a live box from
\* the template, whatever the box's class.  reconcilePlan serializes the merged graph
\* and reports one whose class and patcher do not fit as a conflict, so that there is
\* no plan from it.)
Node(graph, b) ==
  [there |-> Holds(graph, b),
   boxes |-> [c \in Inside(b) |-> graph.boxes[c]],
   cords |-> {cord \in graph.cords : cord[1] \in Inside(b)}]

CordsOf(graph, boxes) == {cord \in graph.cords : {cord[1], cord[2]} \cap boxes # {}}

\* validateRecoveredManagedAdditions
RecoveryConflicts ==
  \/ \E b \in Recovered : Tree(current, b) # Tree(wanted, b)
  \/ Recovered \cap unmanaged # {}
  \/ CordsOf(current, Recovered) # CordsOf(wanted, Recovered)

ReconstructionConflicts == unclear # {} \/ Unknown # {} \/ RecoveryConflicts

-----------------------------------------------------------------------------
(* mergePatchGraphs, of the intent, the live and the wanted graph.           *)

Conflict(base, live, desire) == live # desire /\ base # live /\ base # desire

TakenBug(base, live, desire) == desire

\* The side that changed it; where both changed it alike, either.
Taken(base, live, desire) == IF base = desire THEN live ELSE desire

Sides == {intent, current, wanted}

InAll(b) == \A side \in Sides : side.boxes[b] # Absent

\* mergeNode walks into the patchers that all three graphs have.
Joint(b) == \A side \in Sides : Holds(side, b)

Walked(b) == \A i \in DOMAIN PathTo[b] : Joint(PathTo[b][i])

\* The outermost patcher around b that is not walked into.
Border(b) == PathTo[b][Min({i \in DOMAIN PathTo[b] : ~Joint(PathTo[b][i])})]

\* A box that one side lacks, or the patcher of one that all have, as a whole.
Whole(b) ==
  IF InAll(b)
  THEN Taken(Node(intent, b), Node(current, b), Node(wanted, b))
  ELSE Taken(Tree(intent, b), Tree(current, b), Tree(wanted, b))

WholeConflicts(b) ==
  IF InAll(b)
  THEN Conflict(Node(intent, b), Node(current, b), Node(wanted, b))
  ELSE Conflict(Tree(intent, b), Tree(current, b), Tree(wanted, b))

\* mergeBoxFields
Fields(base, live, desire) ==
  [class |-> Taken(base.class, live.class, desire.class),
   attributes |-> [a \in Attribute |->
     Taken(base.attributes[a], live.attributes[a], desire.attributes[a])]]

FieldsConflict(base, live, desire) ==
  \/ Conflict(base.class, live.class, desire.class)
  \/ \E a \in Attribute :
       Conflict(base.attributes[a], live.attributes[a], desire.attributes[a])

MergedBoxes ==
  [b \in Box |->
     IF Walked(b) /\ InAll(b)
     THEN Fields(intent.boxes[b], current.boxes[b], wanted.boxes[b])
     ELSE Whole(IF Walked(b) THEN b ELSE Border(b)).boxes[b]]

\* mergeConnections, and the cords of the patchers taken as a whole
MergedCords ==
  {cord \in Cord :
     IF Walked(cord[1])
     THEN Taken(cord \in intent.cords, cord \in current.cords, cord \in wanted.cords)
     ELSE cord \in Whole(Border(cord[1])).cords}

MergedGraph == [boxes |-> MergedBoxes, cords |-> MergedCords]

MergeConflicts ==
  \/ \E b \in Box :
       /\ Walked(b)
       /\ \/ ~Joint(b) /\ WholeConflicts(b)
          \/ InAll(b) /\ FieldsConflict(intent.boxes[b], current.boxes[b], wanted.boxes[b])
  \/ \E cord \in MergedCords : ~({cord[1], cord[2]} \subseteq BoxesOf(MergedGraph))

-----------------------------------------------------------------------------
(* externalConnectionConflicts                                               *)

AtRiskBug(from, to) == BoxesOf(from) \ BoxesOf(to)

AtRisk(from, to) == {operation.box : operation \in Deletes(from, to)}

-----------------------------------------------------------------------------
(* Specification.                                                            *)

NeedsNone ==
  /\ Init
  /\ acknowledged = current /\ intent = current /\ wanted = desired
  /\ unclear = {} /\ unmanaged = {}

\* Nothing of the live patch but its managed graph is in the plan's reach.
NeedsReconciliation ==
  /\ acknowledged \in Starts /\ intent \in Starts
  /\ wanted \in Edited
  /\ current \in Edited
  /\ patch = current
  /\ unmanaged \in {boxes \in SUBSET BoxesOf(current) : \A b, c \in boxes : b = c}
  /\ unclear \in {boxes \in SUBSET BoxesOf(acknowledged) : \A b, c \in boxes : b = c}
  /\ desired = wanted
  /\ pending = <<>>
  /\ stage = "reconciling"
  /\ stuck = FALSE
  /\ clinging = {}
  /\ faults = MaxFaults

\* reconcilePatchGraphs
Reconciles ==
  /\ stage = "reconciling"
  /\ IF \/ ReconstructionConflicts
        \/ MergeConflicts
        \/ AtRisk(current, MergedGraph) \cap unmanaged # {}
       THEN stage' = "conflict" /\ UNCHANGED <<desired, pending>>
       ELSE /\ stage' = "validating"
            /\ desired' = MergedGraph
            /\ pending' = Operations(current, desired')
  /\ UNCHANGED <<current, patch, stuck, clinging, faults, inputs, unmanaged>>

\* A box loses its cords when it, or one around it, is freed.
Freed ==
  IF /\ pending # <<>> /\ pending' = Tail(pending)
     /\ Head(pending).op \in (IF stage = "reversing" THEN {"delete", "create"} ELSE {"delete"})
  THEN {Head(pending).box} \cup Inside(Head(pending).box)
  ELSE {}

RunsPlan ==
  /\ Next
  /\ unmanaged' = unmanaged \ Freed
  /\ UNCHANGED inputs

ReconcilingNext == Reconciles \/ RunsPlan

ReconcilingSpec == (NeedsNone \/ NeedsReconciliation) /\ [][ReconcilingNext]_allVars

-----------------------------------------------------------------------------
(* Properties.                                                               *)

ReconcilingTypeOK ==
  /\ stage \in {"reconciling", "conflict"} \/ TypeOK
  /\ {acknowledged, intent, wanted} \subseteq Graph
  /\ unmanaged \subseteq BoxesOf(patch) /\ unclear \subseteq Box

Kept(base, live, desire, merged) ==
  /\ live # base => merged = live
  /\ desire # base => merged = desire
  /\ live = base /\ desire = base => merged = base

\* The merged graph keeps every edit of either side: of a field, of a cord, of
\* a box that one of them added or deleted, at any depth (mergePatchGraphs walks
\* the trees; this looks at each box and cord alone).
MergeKeepsEdits ==
  stage = "validating" =>
    /\ \A cord \in Cord :
         Kept(cord \in intent.cords, cord \in current.cords,
              cord \in wanted.cords, cord \in desired.cords)
    /\ \A b \in Box :
         LET base == intent.boxes[b]
             live == current.boxes[b]
             desire == wanted.boxes[b]
             merged == desired.boxes[b]
         IN  IF ~InAll(b) THEN Kept(base, live, desire, merged)
             ELSE /\ merged # Absent
                  /\ Kept(base.class, live.class, desire.class, merged.class)
                  /\ \A a \in Attribute :
                       Kept(base.attributes[a], live.attributes[a],
                            desire.attributes[a], merged.attributes[a])

\* No operation of a reconciled plan frees a managed box that has a cord to an
\* unmanaged one, be it nested in a box that is replaced (AtRisk looks at the
\* plan, apply_operation frees whole subpatchers).
UnmanagedCordsSurvive == [][stage = "applying" => unmanaged' = unmanaged]_allVars
=============================================================================

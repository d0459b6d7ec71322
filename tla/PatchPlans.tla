----------------------------- MODULE PatchPlans -----------------------------
(***************************************************************************)
(* The operations of a plan: how diffPatchGraphs derives them and their    *)
(* reverse from two managed graphs, how the native object validates them   *)
(* against a simulated patch, applies them one by one, and runs the        *)
(* reverse operations after one that Max refuses.                          *)
(* The ports of a cord are part of it; a box has its class, arguments and  *)
(* ports in one value, and its text, comment, position and attributes,     *)
(* which a plan may set in place, as attributes.                           *)
(***************************************************************************)
EXTENDS Naturals, FiniteSets, Sequences, SequencesExt

CONSTANTS
  Box,         \* managed identities
  PathTo,      \* targetPath of each box: the subpatchers around it, outermost first
  Cord,        \* pairs <<source, destination>> of boxes in one patcher
  Class,       \* class, arguments and ports
  Subpatcher,  \* the classes that hold a patcher
  Attribute,
  Unsafe,      \* those that is_safe_set_attribute refuses to set: filename, filepath, ...
  Settable,    \* values that a set operation can carry
  Structured,  \* values that it cannot
  Absent,
  Contents,    \* contents that each box can have in a graph
  MaxFaults    \* bound: operations that Max refuses

\* A box of a graph.
Content == [class : Class, attributes : [Attribute -> Settable \cup Structured \cup {Absent}]]

ASSUME PlanAssumption ==
  /\ IsFiniteSet(Box) /\ IsFiniteSet(Attribute) /\ Unsafe \subseteq Attribute
  /\ PathTo \in [Box -> Seq(Box)]
  /\ \A b \in Box : PathTo[b] # <<>> =>
       PathTo[b] = Append(PathTo[Last(PathTo[b])], Last(PathTo[b]))
  /\ \A cord \in Cord : cord \in Box \X Box /\ PathTo[cord[1]] = PathTo[cord[2]]
  /\ Subpatcher \subseteq Class
  /\ Settable \cap Structured = {}
  /\ Absent \notin Settable \cup Structured
  /\ Contents \in [Box -> SUBSET Content]
  /\ Absent \notin Content
  /\ MaxFaults \in Nat

VARIABLES
  current,   \* the graph the plan starts from
  desired,   \* the graph it is to reach
  patch,     \* the managed graph in Max
  pending,   \* the operations still to run
  stage,     \* where process_dictionary is
  stuck,     \* a reverse operation failed
  clinging,  \* history: cords that Max refused to disconnect on the way back
  faults

vars == <<current, desired, patch, pending, stage, stuck, clinging, faults>>

-----------------------------------------------------------------------------
(* Graphs. *)

BoxesOf(graph) == {b \in Box : graph.boxes[b] # Absent}

Holds(graph, b) == graph.boxes[b] # Absent /\ graph.boxes[b].class \in Subpatcher

\* resolve_target_patcher
Reaches(graph, path) == \A i \in DOMAIN path : Holds(graph, path[i])

IsGraph(graph) ==
  /\ \A b \in BoxesOf(graph) : Reaches(graph, PathTo[b])
  /\ \A cord \in graph.cords : {cord[1], cord[2]} \subseteq BoxesOf(graph)

Graph ==
  {graph \in [boxes : {boxes \in [Box -> (UNION {Contents[b] : b \in Box}) \cup {Absent}] :
                         \A b \in Box : boxes[b] \in Contents[b] \cup {Absent}},
              cords : SUBSET Cord] : IsGraph(graph)}

\* The boxes in the patcher of b, at any depth.
Inside(b) == {c \in Box : IsPrefix(Append(PathTo[b], b), PathTo[c])}

Depth(b) == Len(PathTo[b])

-----------------------------------------------------------------------------
(* diffPatchGraphs. *)

\* requiresBoxReplacement
RequiresReplacement(left, right) ==
  \/ left.class # right.class
  \/ \E a \in Attribute :
       left.attributes[a] # right.attributes[a] /\ right.attributes[a] \notin Settable

\* replacedKeys after expandReplacedDescendants
Replaced(from, to) ==
  LET own == {b \in BoxesOf(from) \cap BoxesOf(to) :
                RequiresReplacement(from.boxes[b], to.boxes[b])}
  IN  own \cup {c \in BoxesOf(from) \cup BoxesOf(to) : \E b \in own : c \in Inside(b)}

TouchesBug(cord, replaced) == cord[1] \in replaced

\* connectionTouchesReplacement
Touches(cord, replaced) ==
  \/ cord[1] \in replaced
  \/ cord[2] \in replaced
  \/ \E b \in replaced : cord[1] \in Inside(b)

Disconnects(from, to) ==
  {[op |-> "disconnect", cord |-> cord] : cord \in
     {c \in from.cords : c \notin to.cords \/ Touches(c, Replaced(from, to))}}

Deletes(from, to) ==
  {[op |-> "delete", box |-> b] : b \in
     BoxesOf(from) \ (BoxesOf(to) \ Replaced(from, to))}

Creates(from, to) ==
  {[op |-> "create", box |-> b, content |-> to.boxes[b]] : b \in
     BoxesOf(to) \ (BoxesOf(from) \ Replaced(from, to))}

IsSet(b, a, from, to) ==
  /\ from.boxes[b].attributes[a] # to.boxes[b].attributes[a]
  /\ to.boxes[b].attributes[a] \in Settable

Sets(from, to) ==
  {[op |-> "set", box |-> at[1], attribute |-> at[2],
    value |-> to.boxes[at[1]].attributes[at[2]]] : at \in
     {x \in ((BoxesOf(from) \cap BoxesOf(to)) \ Replaced(from, to)) \X Attribute :
        IsSet(x[1], x[2], from, to)}}

Connects(from, to) ==
  {[op |-> "connect", cord |-> cord] : cord \in
     {c \in to.cords : c \notin from.cords \/ Touches(c, Replaced(from, to))}}

DeepestFirst(x, y) == Depth(x.box) >= Depth(y.box)

OuterFirst(x, y) == Depth(x.box) <= Depth(y.box)

\* The operations of a set, in an order that the code's stable sort can give.
Sorted(set, Before(_, _)) ==
  CHOOSE s \in SetToSeqs(set) : \A i, j \in DOMAIN s : i < j => Before(s[i], s[j])

Operations(from, to) ==
  SetToSeq(Disconnects(from, to))
    \o Sorted(Deletes(from, to), DeepestFirst)
    \o Sorted(Creates(from, to), OuterFirst)
    \o SetToSeq(Sets(from, to))
    \o SetToSeq(Connects(from, to))

-----------------------------------------------------------------------------
(* validate_plan: the operations on a simulated patch, of which only the     *)
(* boxes and the patchers among them are known.                              *)

\* seed_virtual_patch
Seed(graph) ==
  [valid |-> TRUE, phase |-> 0, boxes |-> BoxesOf(graph),
   patchers |-> {b \in BoxesOf(graph) : Holds(graph, b)}]

\* operation_phase
Phase(operation) ==
  CASE operation.op = "disconnect" -> 0
    [] operation.op = "delete" -> 1
    [] operation.op = "create" -> 2
    [] operation.op = "set" -> 3
    [] operation.op = "connect" -> 4

Ends(operation) ==
  IF operation.op \in {"connect", "disconnect"}
    THEN {operation.cord[1], operation.cord[2]} ELSE {operation.box}

TargetPath(operation) == PathTo[CHOOSE b \in Ends(operation) : TRUE]

PathIsThere(state, path) == \A i \in DOMAIN path : path[i] \in state.patchers

Simulated(state, operation) ==
  [valid |->
     /\ state.valid
     /\ Phase(operation) >= state.phase
     /\ PathIsThere(state, TargetPath(operation))
     /\ IF operation.op = "create"
          THEN operation.box \notin state.boxes
          ELSE Ends(operation) \subseteq state.boxes,
   phase |-> Phase(operation),
   boxes |->
     CASE operation.op = "delete" -> state.boxes \ ({operation.box} \cup Inside(operation.box))
       [] operation.op = "create" -> state.boxes \cup {operation.box}
       [] OTHER -> state.boxes,
   patchers |->
     CASE operation.op = "delete" -> state.patchers \ ({operation.box} \cup Inside(operation.box))
       [] operation.op = "create" /\ operation.content.class \in Subpatcher ->
            state.patchers \cup {operation.box}
       [] OTHER -> state.patchers]

\* The state before each operation, and after the last.
Simulation(state, operations) ==
  LET run[n \in 0 .. Len(operations)] ==
        IF n = 0
          THEN [valid |-> state.valid, phase |-> 0,
                boxes |-> state.boxes, patchers |-> state.patchers]
          ELSE Simulated(run[n - 1], operations[n])
  IN  run

Validated(state, operations) == Simulation(state, operations)[Len(operations)]

\* parse_operation, is_safe_set_attribute
SetsUnsafe(operations) ==
  \E i \in DOMAIN operations : operations[i].op = "set" /\ operations[i].attribute \in Unsafe

\* parse_plan, validate_plan_against_patch, same_managed_box_topology
IsAccepted(graph, operations, reverse) ==
  LET reached == Validated(Seed(graph), operations)
      restored == Validated(reached, reverse)
  IN  /\ ~SetsUnsafe(operations) /\ ~SetsUnsafe(reverse)
      /\ restored.valid /\ restored.boxes = BoxesOf(graph)

-----------------------------------------------------------------------------
(* Application.                                                              *)

\* A box goes with its cords and everything inside it.
Without(graph, b) ==
  LET gone == {b} \cup Inside(b)
  IN  [boxes |-> [c \in Box |-> IF c \in gone THEN Absent ELSE graph.boxes[c]],
       cords |-> {cord \in graph.cords : {cord[1], cord[2]} \cap gone = {}}]

With(graph, b, content) ==
  [boxes |-> [graph.boxes EXCEPT ![b] = content], cords |-> graph.cords]

Corded(graph, cords) == [boxes |-> graph.boxes, cords |-> cords]

\* apply_operation finds the patcher and the boxes it needs.
CanApply(graph, operation) ==
  /\ Reaches(graph, TargetPath(operation))
  /\ operation.op # "create" => Ends(operation) \subseteq BoxesOf(graph)

Effect(graph, operation) ==
  CASE operation.op = "disconnect" -> Corded(graph, graph.cords \ {operation.cord})
    [] operation.op = "delete" -> Without(graph, operation.box)
    [] operation.op = "create" -> With(graph, operation.box, operation.content)
    [] operation.op = "set" ->
         With(graph, operation.box,
              [class |-> graph.boxes[operation.box].class,
               attributes |-> [graph.boxes[operation.box].attributes
                                 EXCEPT ![operation.attribute] = operation.value]])
    [] operation.op = "connect" -> Corded(graph, graph.cords \cup {operation.cord})

\* apply_rollback_operation: what the forward operations never did needs no
\* reverse.
CanReverse(graph, operation) ==
  \/ operation.op \in {"disconnect", "delete"}
  \/ CanApply(graph, operation)

ReversedBug(graph, operation) ==
  IF ~CanApply(graph, operation) \/ operation.op = "disconnect" THEN graph
  ELSE Effect(graph, operation)

Reversed(graph, operation) ==
  IF ~CanApply(graph, operation) THEN graph
  ELSE IF operation.op = "create"
    THEN With(Without(graph, operation.box), operation.box, operation.content)
    ELSE Effect(graph, operation)

-----------------------------------------------------------------------------
TypeOK ==
  /\ \A graph \in {current, desired, patch} :
       /\ IsGraph(graph)
       /\ \A b \in Box : graph.boxes[b] \in Content \cup {Absent}
  /\ \A i \in DOMAIN pending : pending[i].op \in
       {"disconnect", "delete", "create", "set", "connect"}
  /\ stage \in {"validating", "refused", "applying", "applied", "reversing", "restored", "broken"}
  /\ stuck \in BOOLEAN
  /\ clinging \subseteq Cord
  /\ faults \in 0 .. MaxFaults

Init ==
  /\ current \in Graph
  /\ desired \in Graph
  /\ patch = current
  /\ pending = Operations(current, desired)
  /\ stage = "validating"
  /\ stuck = FALSE
  /\ clinging = {}
  /\ faults = 0

Validates ==
  /\ stage = "validating"
  /\ stage' = IF IsAccepted(patch, pending, Operations(desired, current))
                THEN "applying" ELSE "refused"
  /\ UNCHANGED <<current, desired, patch, pending, stuck, clinging, faults>>

Applies ==
  /\ stage = "applying"
  /\ pending # <<>>
  /\ CanApply(patch, Head(pending))
  /\ patch' = Effect(patch, Head(pending))
  /\ pending' = Tail(pending)
  /\ UNCHANGED <<current, desired, stage, stuck, clinging, faults>>

\* Max refuses an operation, or it lacks what it needs.
Fails ==
  /\ stage = "applying"
  /\ pending # <<>>
  /\ CanApply(patch, Head(pending)) => faults < MaxFaults
  /\ faults' = faults + (IF CanApply(patch, Head(pending)) THEN 1 ELSE 0)
  /\ stage' = "reversing"
  /\ pending' = Operations(desired, current)
  /\ UNCHANGED <<current, desired, patch, stuck, clinging>>

Completes ==
  /\ stage = "applying"
  /\ pending = <<>>
  /\ stage' = "applied"
  /\ UNCHANGED <<current, desired, patch, pending, stuck, clinging, faults>>

\* Every reverse operation is tried, also after one that failed.  That a cord
\* cannot be disconnected is not taken for a failure, since the plan may never
\* have made it.  (object_free tells of no failure to free a box.)
Reverses ==
  /\ stage = "reversing"
  /\ pending # <<>>
  /\ \/ /\ patch' = Reversed(patch, Head(pending))
        /\ stuck' = (stuck \/ ~CanReverse(patch, Head(pending)))
        /\ clinging' = IF Head(pending).op = "connect"
                       THEN clinging \ {Head(pending).cord} ELSE clinging
        /\ UNCHANGED faults
     \/ /\ Head(pending).op \in {"create", "set", "connect"}
        /\ faults < MaxFaults
        /\ faults' = faults + 1
        /\ patch' = IF Head(pending).op = "create"
                      THEN Without(patch, Head(pending).box) ELSE patch
        /\ stuck' = TRUE
        /\ UNCHANGED clinging
     \/ /\ Head(pending).op = "disconnect"
        /\ Head(pending).cord \in patch.cords
        /\ faults < MaxFaults
        /\ faults' = faults + 1
        /\ clinging' = clinging \cup {Head(pending).cord}
        /\ UNCHANGED <<patch, stuck>>
  /\ pending' = Tail(pending)
  /\ UNCHANGED <<current, desired, stage>>

GivesUp ==
  /\ stage = "reversing"
  /\ pending = <<>>
  /\ stage' = IF stuck THEN "broken" ELSE "restored"
  /\ UNCHANGED <<current, desired, patch, pending, stuck, clinging, faults>>

Next == Validates \/ Applies \/ Fails \/ Completes \/ Reverses \/ GivesUp

Spec == Init /\ [][Next]_vars

-----------------------------------------------------------------------------
(* Properties. *)

\* A box that stays has an attribute that Max does not let a plan set, and that
\* one of the graphs changes.
ChangesUnsafe ==
  \E b \in BoxesOf(current) \cap BoxesOf(desired), a \in Unsafe :
    current.boxes[b].attributes[a] # desired.boxes[b].attributes[a]

\* The native object accepts a generated plan, with its order, its paths and its
\* reverse operations, unless it or its reverse sets an attribute that is unsafe;
\* it then changes nothing.  A plan fails only by an operation that Max refuses:
\* none lacks a patcher or a box because of those before it.  One that ran to
\* its end left the desired graph, cords of replaced and of nested boxes
\* included (diffPatchGraphs against parse_operation, validate_plan_against_patch
\* and apply_operation).
PlansArrive ==
  /\ stage = "refused" => ChangesUnsafe /\ patch = current
  /\ stage = "applied" => patch = desired
  /\ stage = "reversing" => faults > 0

\* "Changed scalar or flat-array attributes emit set and preserve the object
\* instance" (docs/patch-sync.md:115): the native object takes such a plan.
NoPlanIsRefused == stage # "refused"

\* Reverse operations that all succeeded restored the graph, whichever
\* operation failed.  Beside it may be cords that Max refused to disconnect
\* again, which is reported as restored all the same (rollbackOperations,
\* apply_rollback_operation).
RollbackRestores ==
  stage = "restored" => Corded(patch, patch.cords \ clinging) = current

\* The same for the plans whose reverse replaces every box that they replace.
SymmetricRollbackRestores ==
  Replaced(current, desired) \subseteq Replaced(desired, current) => RollbackRestores
=============================================================================

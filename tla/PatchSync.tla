----------------------------- MODULE PatchSync -----------------------------
(***************************************************************************)
(* The life of one synchronised patch (one patcher id and scope): the      *)
(* broker's MaxforgePatchService with its state file, the request slot of  *)
(* the WebSocket bridge, the connection, and the native maxforge.sync      *)
(* object in Max.                                                          *)
(*                                                                         *)
(* The service runs on one JavaScript thread and yields only at an await,  *)
(* and every await of these operations is a transport request.  The bridge *)
(* admits one such request per patch, so the awaiting operation and the    *)
(* request slot are one record, flight: the operation's program point and  *)
(* the values it read before the await.  A code segment between two awaits *)
(* is one action.  With Concurrent, the segments of other callers run      *)
(* while a request is in flight; the ones that need the slot are refused.  *)
(*                                                                         *)
(* A call that is refused before it changed anything is a stuttering step. *)
(***************************************************************************)
EXTENDS PatchGraphs, Naturals, Sequences, SequencesExt

CONSTANTS
  None,         \* undefined
  Null,         \* the revision of a patch that was never synchronised
  Loose,        \* states of the boxes maxforge does not manage
  RequestId,    \* request ids that can be unanswered at one time
  MaxPrepared,  \* MAX_PREPARED_CHANGES
  Concurrent,   \* other callers run while a request is in flight
  TimersFire,   \* requests can time out while the connection is alive
  Allowance     \* how many calls, edits, breaks, faults and saves may happen

ASSUME NoneAssumption ==
  /\ None \notin Graph \cup {Null}
  /\ Null \notin Graph

Budget == {"calls", "edits", "breaks", "faults", "saves"}

ASSUME BoundsAssumption ==
  /\ MaxPrepared \in Nat \ {0}
  /\ Concurrent \in BOOLEAN
  /\ TimersFire \in BOOLEAN
  /\ Allowance \in [Budget -> Nat]

VARIABLES
  mem,       \* the service's maps for this target
  disk,      \* the state file
  diskFull,  \* whether a save of the state file would fail now
  cached,    \* latestInspections: the last snapshot prepare or inspect saw
  receipts,  \* preparedChanges, oldest first
  registry,  \* the bridge's registered revision; None when not registered
  flight,    \* the awaiting operation, None when the slot is free
  link,      \* open, down, or closed by one end and not yet seen by the other
  toMax,     \* requests on the wire
  fromMax,   \* events on the wire
  max,       \* [revision, live]: revision_state and the boxes of the patch
  saved,     \* [revision, live]: what reopening the patch brings back
  held,      \* history: the revisions Max has held
  left       \* what is left of Allowance

service == <<mem, disk, diskFull, cached, receipts>>
wire == <<link, toMax, fromMax>>
native == <<max, saved, held>>
vars == <<service, registry, flight, wire, native, left>>

Live == [managed : Graph, loose : Loose]
Revision == Graph \cup {Null}
Patch == [revision : Revision, live : Live]

\* An in-flight record.  A superseded one was rewritten by a recovery.
Pending == [base : Graph, next : Graph, intent : Graph, superseded : BOOLEAN]

State == [managed : Graph \cup {None}, intent : Graph \cup {None},
          baseline : Graph \cup {None}, pending : Pending \cup {None}]

Receipt == [base : Graph, from : Graph, next : Graph, intent : Graph,
            mergeBase : Graph, token : Live]

Mode == {"reject", "merge"}

Flight ==
  [pc : {"inspecting", "looking"}, id : RequestId]
    \cup [pc : {"preparing"}, id : RequestId, current : Graph, desired : Graph,
          mergeBase : Graph, baseline : Graph \cup {None}, mode : Mode]
    \cup [pc : {"adopting"}, id : RequestId, current : Graph]
    \cup [pc : {"recovering"}, id : RequestId, live : Graph]
    \cup [pc : {"applying"}, id : RequestId, next : Graph, intent : Graph]
    \cup [pc : {"rebasing", "capturing"}, id : RequestId, next : Graph]

Request ==
  [type : {"inspect"}, id : RequestId]
    \cup [type : {"apply"}, id : RequestId, base : Graph, next : Graph,
          from : Graph, to : Graph, mergeBase : Graph, token : Live]

Event ==
  [type : {"registered"}, revision : Revision]
    \cup [type : {"applied"}, id : RequestId, revision : Graph]
    \cup [type : {"snapshot"}, id : RequestId, revision : Revision, live : Live]
    \cup [type : {"error"}, id : RequestId]

Snapshot == [revision : Revision, live : Live]

\* undefined is told apart from every record that stands in its place.
ASSUME NoneIsNoRecord == None \notin Flight \cup Pending \cup Snapshot

TypeOK ==
  /\ mem \in State /\ disk \in State /\ diskFull \in BOOLEAN
  /\ cached \in Snapshot \cup {None}
  /\ receipts \in Seq(Receipt) /\ Len(receipts) <= MaxPrepared
  /\ registry \in Revision \cup {None}
  /\ flight \in Flight \cup {None}
  /\ link \in {"open", "down", "closedByBridge", "closedByMax"}
  /\ toMax \in Seq(Request) /\ fromMax \in Seq(Event)
  /\ max \in Patch /\ saved \in Patch
  /\ held \subseteq Graph /\ left \in [Budget -> Nat]

NoState == [managed |-> None, intent |-> None, baseline |-> None, pending |-> None]

\* The patch was never synchronised, or was by a broker whose state is gone.
Init ==
  /\ mem = NoState /\ disk = NoState /\ diskFull = FALSE
  /\ cached = None /\ receipts = <<>>
  /\ registry = None /\ flight = None
  /\ link = "down" /\ toMax = <<>> /\ fromMax = <<>>
  /\ max \in Patch
  /\ max.live.managed = IF max.revision = Null THEN EmptyGraph ELSE max.revision
  /\ saved = max
  /\ held = {max.live.managed}
  /\ left = Allowance

-----------------------------------------------------------------------------
(* Helpers. *)

\* A patch without a revision is treated as holding the empty graph's.
RevisionOf(revision) == IF revision = Null THEN EmptyGraph ELSE revision

Spend(kind) ==
  /\ left[kind] > 0
  /\ left' = [left EXCEPT ![kind] = @ - 1]

\* A caller's synchronous segment may run now.
Call ==
  /\ Spend("calls")
  /\ flight = None \/ Concurrent

\* persistState: the file keeps its old content when the save fails.
Persisted(state) == IF diskFull THEN disk ELSE state

UsedIds ==
  {m.id : m \in Range(toMax)}
    \cup {e.id : e \in {x \in Range(fromMax) : x.type # "registered"}}
    \cup (IF flight = None THEN {} ELSE {flight.id})

\* A fresh randomUUID: one of the ids not in use, if there is one.
FreshId ==
  IF RequestId \subseteq UsedIds THEN {}
  ELSE {CHOOSE i \in RequestId \ UsedIds : TRUE}

\* The bridge accepts a request for the patch.
Admits == flight = None /\ registry # None

\* What is sent on a connection Max has closed is lost.
Send(request) ==
  toMax' = IF link = "open" THEN Append(toMax, request) ELSE toMax

Inspect(id) == [type |-> "inspect", id |-> id]

-----------------------------------------------------------------------------
(* resolvePendingApply: every planning call first settles the in-flight    *)
(* record of a previous apply against the revision Max reports.            *)

\* Variant: a recovery's record is settled like any other.
ResolvableBug ==
  mem.pending # None =>
    /\ registry # None
    /\ RevisionOf(registry) \in {mem.pending.base, mem.pending.next}

Resolvable ==
  mem.pending # None =>
    /\ registry # None
    /\ ~mem.pending.superseded
    /\ RevisionOf(registry) \in {mem.pending.base, mem.pending.next}

\* Variants: the target is taken without asking Max; it is never taken.
ResolvedUnseenBug ==
  IF mem.pending = None THEN mem
  ELSE [managed |-> mem.pending.next, intent |-> mem.pending.intent,
        baseline |-> None, pending |-> None]

ResolvedDropBug == [mem EXCEPT !.pending = None]

Resolved ==
  CASE mem.pending = None -> mem
    [] mem.pending # None /\ RevisionOf(registry) = mem.pending.next ->
         [managed |-> mem.pending.next, intent |-> mem.pending.intent,
          baseline |-> None, pending |-> None]
    [] OTHER -> [mem EXCEPT !.pending = None]

\* The record is settled and the result saved.
Resolves ==
  /\ Resolvable
  /\ mem.pending # None => ~diskFull

\* The call got past resolvePendingApply, and was refused afterwards or by
\* the failure of the save.
RefusedAfterResolve ==
  /\ Call
  /\ mem.pending # None
  /\ Resolvable
  /\ mem' = Resolved
  /\ disk' = Persisted(mem')
  /\ UNCHANGED <<diskFull, cached, receipts, registry, flight, wire, native>>

-----------------------------------------------------------------------------
(* prepareChange.  The caller's desired DSL is a graph; currentDsl, when it  *)
(* is supplied, is another.                                                 *)

\* Variant: the caller's currentDsl is not compared with the live revision.
CurrentGraphBug(state, supplied, mode, current) ==
  \/ supplied
  \/ /\ registry # None => current = RevisionOf(registry)
     /\ IF state.managed # None
        THEN current = state.managed
        ELSE registry \notin Graph /\ current = EmptyGraph
     /\ mode = "reject" => state.intent \in {None, current}

\* The graph the plan starts from: resolveCurrentGraph, assertLiveRevision
\* and, for mode "reject" without currentDsl, assertNoPreservedManualEdits.
CurrentGraph(state, supplied, mode, current) ==
  /\ registry # None => current = RevisionOf(registry)
  /\ \/ supplied
     \/ /\ IF state.managed # None
           THEN current = state.managed
           ELSE registry \notin Graph /\ current = EmptyGraph
        /\ mode = "reject" => state.intent \in {None, current}

\* The merge is against the agent's previous desired graph, which differs
\* from the acknowledged graph after an earlier merge.
MergeBase(state, supplied, mode, current) ==
  IF supplied \/ mode = "reject" \/ state.intent = None
  THEN current
  ELSE state.intent

\* What prepareChange holds while it awaits the inspection.
Preparation(state, supplied, mode, current, desired, id) ==
  [pc |-> "preparing", id |-> id, current |-> current, desired |-> desired,
   mergeBase |-> MergeBase(state, supplied, mode, current),
   baseline |-> state.baseline, mode |-> mode]

\* Variant: managed edits are not looked for.
NoManagedDriftBug(prep, snapshot) == snapshot.revision \in Revision

\* assertNoManagedDrift: without a baseline the snapshot itself must be the
\* current graph, unless neither Max nor the caller has any managed box yet.
NoManagedDrift(prep, snapshot) ==
  IF prep.baseline # None
  THEN snapshot.live.managed = prep.baseline
  ELSE \/ snapshot.revision = Null /\ prep.current = EmptyGraph
       \/ snapshot.live.managed = prep.current

PlanExists(prep, snapshot) ==
  /\ prep.current = RevisionOf(snapshot.revision)
  /\ CASE prep.mode = "reject" -> NoManagedDrift(prep, snapshot)
       [] prep.mode = "merge" ->
            LET live == snapshot.live.managed
            IN  /\ Reconstructs(prep.current, live, prep.desired)
                /\ MergeSucceeds(prep.mergeBase, live, prep.desired)

ReceiptFor(prep, snapshot) ==
  LET live == snapshot.live.managed
  IN  [base |-> prep.current, intent |-> prep.desired,
       mergeBase |-> prep.mergeBase, token |-> snapshot.live,
       from |-> IF prep.mode = "merge" THEN live ELSE prep.current,
       next |-> IF prep.mode = "merge"
                THEN Merged(prep.mergeBase, live, prep.desired)
                ELSE prep.desired]

\* storePreparedChange: the oldest receipts give way.
Stored(receipt) ==
  Append(IF Len(receipts) < MaxPrepared THEN receipts ELSE Tail(receipts), receipt)

PrepareStart ==
  /\ Call
  /\ Resolves
  /\ Admits
  /\ mem' = Resolved
  /\ disk' = IF mem.pending = None THEN disk ELSE mem'
  /\ \E supplied \in BOOLEAN, mode \in Mode, current, desired \in Graph, id \in FreshId :
       /\ CurrentGraph(mem', supplied, mode, current)
       /\ flight' = Preparation(mem', supplied, mode, current, desired, id)
       /\ Send(Inspect(id))
  /\ UNCHANGED <<diskFull, cached, receipts, registry, link, fromMax, native>>

\* The caller names the structure token of the cached inspection, which is
\* used instead of a new one.
PrepareCached ==
  /\ Call
  /\ Resolves
  /\ cached # None
  /\ mem' = Resolved
  /\ disk' = IF mem.pending = None THEN disk ELSE mem'
  /\ \E supplied \in BOOLEAN, mode \in Mode, current, desired \in Graph :
       LET prep == Preparation(mem', supplied, mode, current, desired, None)
       IN  /\ CurrentGraph(mem', supplied, mode, current)
           /\ PlanExists(prep, cached)
           /\ receipts' = Stored(ReceiptFor(prep, cached))
  /\ UNCHANGED <<diskFull, cached, registry, flight, wire, native>>

-----------------------------------------------------------------------------
(* applyPreparedChange up to its first await, for the receipt at index i.   *)

\* assertPreparedBase after the in-flight record was settled.
BaseHolds(state, receipt) ==
  /\ state.managed \in {None, receipt.base}
  /\ registry # None => RevisionOf(registry) = receipt.base

\* The receipt was compiled with another catalog.
ApplyForOtherCatalog(i) ==
  /\ Call
  /\ receipts' = RemoveAt(receipts, i)
  /\ UNCHANGED <<mem, disk, diskFull, cached, registry, flight, wire, native>>

\* The receipt is refused, and deleted: the in-flight record could not be
\* settled, its settlement could not be saved, or the base is stale.
ApplyStale(i) ==
  /\ Call
  /\ \/ ~Resolvable /\ UNCHANGED <<mem, disk>>
     \/ /\ Resolvable
        /\ ~Resolves \/ ~BaseHolds(Resolved, receipts[i])
        /\ mem' = Resolved
        /\ disk' = IF mem.pending = None THEN disk ELSE Persisted(mem')
  /\ receipts' = RemoveAt(receipts, i)
  /\ UNCHANGED <<diskFull, cached, registry, flight, wire, native>>

\* executeResolvedChange writes and saves the in-flight record before it asks
\* the bridge.  The record stays behind when the save fails or when the
\* bridge refuses the request.
ApplyReceipt(i) ==
  LET r == receipts[i]
      record == [base |-> r.base, next |-> r.next, intent |-> r.intent,
                 superseded |-> FALSE]
      sends == Admits /\ ~diskFull
  IN  /\ Call
      /\ Resolves
      /\ BaseHolds(Resolved, r)
      /\ mem' = [Resolved EXCEPT !.pending = record]
      /\ disk' = Persisted(mem')
      /\ receipts' = RemoveAt(receipts, i)
      /\ \/ /\ sends
            /\ \E id \in FreshId :
                 /\ flight' = [pc |-> "applying", id |-> id, next |-> r.next,
                               intent |-> r.intent]
                 /\ Send([type |-> "apply", id |-> id, base |-> r.base,
                          next |-> r.next, from |-> r.from, to |-> r.next,
                          mergeBase |-> r.mergeBase, token |-> r.token])
         \/ /\ ~sends
            /\ UNCHANGED <<flight, toMax>>
      /\ UNCHANGED <<diskFull, cached, registry, link, fromMax, native>>

-----------------------------------------------------------------------------
(* The other operations up to their first await. *)

\* inspectPatch keeps the snapshot; inspectPendingApply only reports on it.
InspectStart ==
  /\ Call
  /\ Admits
  /\ \E id \in FreshId, pc \in {"inspecting", "looking"} :
       /\ pc = "looking" => mem.pending # None /\ registry # Null
       /\ flight' = [pc |-> pc, id |-> id]
       /\ Send(Inspect(id))
  /\ UNCHANGED <<service, registry, link, fromMax, native>>

\* reviewLiveChanges settles the in-flight record, and only reports.
ReviewStart ==
  /\ Call
  /\ Resolves
  /\ Admits
  /\ mem' = Resolved
  /\ disk' = IF mem.pending = None THEN disk ELSE mem'
  /\ \E id \in FreshId :
       /\ flight' = [pc |-> "looking", id |-> id]
       /\ Send(Inspect(id))
  /\ UNCHANGED <<diskFull, cached, receipts, registry, link, fromMax, native>>

AdoptStart ==
  /\ Call
  /\ Resolves
  /\ Admits
  /\ Resolved.managed # None
  /\ Resolved.baseline # None
  /\ mem' = Resolved
  /\ disk' = IF mem.pending = None THEN disk ELSE mem'
  /\ \E id \in FreshId :
       /\ flight' = [pc |-> "adopting", id |-> id, current |-> mem'.managed]
       /\ Send(Inspect(id))
  /\ UNCHANGED <<diskFull, cached, receipts, registry, link, fromMax, native>>

RecoverStart ==
  /\ Call
  /\ Admits
  /\ mem.pending # None
  /\ registry # Null
  /\ \E id \in FreshId :
       /\ flight' = [pc |-> "recovering", id |-> id, live |-> registry]
       /\ Send(Inspect(id))
  /\ UNCHANGED <<service, registry, link, fromMax, native>>
-----------------------------------------------------------------------------
(* Events from Max, and what the awaiting operation does with them up to    *)
(* its next await or its end.                                               *)

Receive(type) ==
  /\ link \in {"open", "closedByMax"}
  /\ fromMax # <<>>
  /\ Head(fromMax).type = type
  /\ fromMax' = Tail(fromMax)

\* The event answers the request in flight, which waits at one of pcs.
Answer(type, pcs) ==
  /\ Receive(type)
  /\ flight # None
  /\ flight.pc \in pcs
  /\ Head(fromMax).id = flight.id

BridgeRegisters ==
  /\ Receive("registered")
  /\ registry' = Head(fromMax).revision
  /\ UNCHANGED <<service, flight, link, toMax, native, left>>

\* The answer to a request that was given up is ignored.
BridgeIgnores ==
  /\ \E type \in {"applied", "snapshot", "error"} : Receive(type)
  /\ flight # None => Head(fromMax).id # flight.id
  /\ UNCHANGED <<service, registry, flight, link, toMax, native, left>>

\* handleSnapshot's part of every inspection.
SnapshotArrives(pcs) ==
  /\ Answer("snapshot", pcs)
  /\ registry' = Head(fromMax).revision

SnapshotOf(event) == [revision |-> event.revision, live |-> event.live]

\* Variant: the acknowledgement leaves the registered revision alone.
AcknowledgementBug(pcs) ==
  /\ Answer("applied", pcs)
  /\ UNCHANGED registry

\* handleApplied's part of every apply.
Acknowledgement(pcs) ==
  /\ Answer("applied", pcs)
  /\ registry' = Head(fromMax).revision

\* Reporting operations: the snapshot is all they take.
InspectionArrives ==
  /\ SnapshotArrives({"inspecting", "looking"})
  /\ flight' = None
  /\ cached' = IF flight.pc = "inspecting"
               THEN SnapshotOf(Head(fromMax)) ELSE cached
  /\ UNCHANGED <<mem, disk, diskFull, receipts, link, toMax, native, left>>

\* A plan that exists may still be unrepresentable as DSL and be refused.
PreparationArrives ==
  /\ SnapshotArrives({"preparing"})
  /\ flight' = None
  /\ cached' = SnapshotOf(Head(fromMax))
  /\ \/ /\ PlanExists(flight, cached')
        /\ receipts' = Stored(ReceiptFor(flight, cached'))
     \/ UNCHANGED receipts
  /\ UNCHANGED <<mem, disk, diskFull, link, toMax, native, left>>

\* Adopting or recovering: the observed graph becomes the managed one, with
\* its snapshot as the baseline.
Adopted(graph) ==
  [managed |-> graph, intent |-> graph, baseline |-> graph, pending |-> None]

\* A plan without operations moves Max's revision to the observed graph.
Rebase(base, observed, live, superseded) ==
  /\ mem' = [mem EXCEPT !.pending = [base |-> base, next |-> observed,
                                     intent |-> observed,
                                     superseded |-> superseded]]
  /\ disk' = Persisted(mem')
  /\ IF diskFull
     THEN flight' = None /\ UNCHANGED toMax
     ELSE \E id \in FreshId :
            /\ flight' = [pc |-> "rebasing", id |-> id, next |-> observed]
            /\ Send([type |-> "apply", id |-> id, base |-> base,
                     next |-> observed, from |-> observed, to |-> observed,
                     mergeBase |-> observed, token |-> live])

\* base is the revision the observed boxes are reconstructed against.
AdoptOrRebase(base, live, superseded) ==
  /\ Reconstructs(base, live.managed, EmptyGraph)
  /\ IF live.managed = base
     THEN /\ mem' = Adopted(base)
          /\ disk' = Persisted(mem')
          /\ flight' = None
          /\ UNCHANGED toMax
     ELSE Rebase(base, live.managed, live, superseded)

\* Refused: the caller reviewed another structure token, or the live edits
\* cannot be represented.
GivesUp ==
  /\ flight' = None
  /\ UNCHANGED <<mem, disk, toMax>>

AdoptionArrives ==
  LET snapshot == Head(fromMax)
  IN  /\ SnapshotArrives({"adopting"})
      /\ \/ /\ flight.current = RevisionOf(snapshot.revision)
            /\ AdoptOrRebase(flight.current, snapshot.live, FALSE)
         \/ GivesUp
      /\ UNCHANGED <<diskFull, cached, receipts, link, native, left>>

\* The operator's currentDsl must be the graph of the live revision.
RecoveryArrives ==
  LET snapshot == Head(fromMax)
  IN  /\ SnapshotArrives({"recovering"})
      /\ \/ /\ snapshot.revision = flight.live
            /\ snapshot.live.managed # flight.live => mem.pending # None
            /\ AdoptOrRebase(flight.live, snapshot.live, TRUE)
         \/ GivesUp
      /\ UNCHANGED <<diskFull, cached, receipts, link, native, left>>

\* The acknowledgement of a prepared change: the record is dropped from
\* memory, and the baseline inspection follows before anything is saved.
ApplyAcknowledged ==
  /\ Acknowledgement({"applying"})
  /\ mem' = [mem EXCEPT !.managed = flight.next, !.intent = flight.intent,
                        !.pending = None]
  /\ \E id \in FreshId :
       /\ flight' = [pc |-> "capturing", id |-> id, next |-> flight.next]
       /\ Send(Inspect(id))
  /\ UNCHANGED <<disk, diskFull, cached, receipts, link, native, left>>

RebaseAcknowledged ==
  /\ Acknowledgement({"rebasing"})
  /\ mem' = Adopted(flight.next)
  /\ disk' = Persisted(mem')
  /\ flight' = None
  /\ UNCHANGED <<diskFull, cached, receipts, link, toMax, native, left>>

\* captureBaseline: the snapshot is kept when it is exactly the applied graph.
BaselineArrives ==
  LET snapshot == Head(fromMax)
      matches == /\ snapshot.revision = flight.next
                 /\ snapshot.live.managed = flight.next
  IN  /\ SnapshotArrives({"capturing"})
      /\ cached' = SnapshotOf(snapshot)
      /\ mem' = [mem EXCEPT !.baseline = IF matches THEN flight.next ELSE None]
      /\ disk' = Persisted(mem')
      /\ flight' = None
      /\ UNCHANGED <<diskFull, receipts, link, toMax, native, left>>

\* Variants: the baseline of the previous graph stays; the request in flight
\* outlives its connection.
FailsBaselineBug ==
  /\ flight' = None
  /\ IF flight # None /\ flight.pc = "capturing"
     THEN disk' = Persisted(mem) /\ UNCHANGED mem
     ELSE UNCHANGED <<mem, disk>>

FailsNeverBug == UNCHANGED <<flight, mem, disk>>

\* The request in flight, if there is one, fails.  Only captureBaseline
\* handles that itself: it drops the baseline and the state is saved.  Every
\* other operation ends there, and an in-flight record stays.
Fails ==
  /\ flight' = None
  /\ IF flight # None /\ flight.pc = "capturing"
     THEN /\ mem' = [mem EXCEPT !.baseline = None]
          /\ disk' = Persisted(mem')
     ELSE UNCHANGED <<mem, disk>>

ErrorArrives ==
  /\ flight # None
  /\ Answer("error", {flight.pc})
  /\ Fails
  /\ UNCHANGED <<diskFull, cached, receipts, registry, link, toMax, native, left>>

TimesOut ==
  /\ TimersFire
  /\ flight # None
  /\ Fails
  /\ UNCHANGED <<diskFull, cached, receipts, registry, wire, native, left>>
-----------------------------------------------------------------------------
(* Max: the native object handles one request at a time on Max's main       *)
(* thread.  After the bridge closed its end, requests already delivered are *)
(* still handled, and their answers are lost.                               *)

MaxReceives(type) ==
  /\ link \in {"open", "closedByBridge"}
  /\ toMax # <<>>
  /\ Head(toMax).type = type
  /\ toMax' = Tail(toMax)

Reply(event) ==
  fromMax' = IF link = "open" THEN Append(fromMax, event) ELSE fromMax

MaxInspects ==
  /\ MaxReceives("inspect")
  /\ Reply([type |-> "snapshot", id |-> Head(toMax).id,
            revision |-> max.revision, live |-> max.live])
  /\ UNCHANGED <<service, registry, flight, link, native, left>>

\* Variant: the structure token is not compared.
PlanValidBug(plan) ==
  /\ IF max.revision = Null
     THEN max.live.managed = EmptyGraph
     ELSE plan.base = max.revision
  /\ OperationsFit(max.live.managed, plan.from, plan.to)

\* process_dictionary's checks of a plan: the structure token, then the
\* revision, then the existence of every box it touches.
PlanValid(plan) ==
  /\ plan.token = max.live
  /\ IF max.revision = Null
     THEN max.live.managed = EmptyGraph
     ELSE plan.base = max.revision
  /\ OperationsFit(max.live.managed, plan.from, plan.to)

MaxApplies ==
  LET plan == Head(toMax)
  IN  /\ MaxReceives("apply")
      /\ PlanValid(plan)
      /\ max' = [revision |-> plan.next,
                 live |-> [max.live EXCEPT
                             !.managed = Patched(@, plan.from, plan.to)]]
      /\ held' = held \cup {plan.next}
      /\ Reply([type |-> "applied", id |-> plan.id, revision |-> plan.next])
      /\ UNCHANGED <<service, registry, flight, link, saved, left>>

MaxRefuses ==
  /\ MaxReceives("apply")
  /\ ~PlanValid(Head(toMax))
  /\ Reply([type |-> "error", id |-> Head(toMax).id])
  /\ UNCHANGED <<service, registry, flight, link, native, left>>

\* Variant: the revision is advanced before the operations run.
MaxFailsHalfwayBug ==
  LET plan == Head(toMax)
  IN  /\ MaxReceives("apply")
      /\ Spend("faults")
      /\ PlanValid(plan)
      /\ Changed(plan.from, plan.to) # {}
      /\ \E graph \in PartlyPatched(max.live.managed, plan.from, plan.to) :
           max' = [revision |-> plan.next,
                   live |-> [max.live EXCEPT !.managed = graph]]
      /\ Reply([type |-> "error", id |-> plan.id])
      /\ UNCHANGED <<service, registry, flight, link, saved, held>>

\* An operation of the plan fails in Max, and the rollback restores the boxes
\* or fails as well.  The revision is not advanced.
MaxFailsHalfway ==
  LET plan == Head(toMax)
  IN  /\ MaxReceives("apply")
      /\ Spend("faults")
      /\ PlanValid(plan)
      /\ Changed(plan.from, plan.to) # {}
      /\ \E graph \in PartlyPatched(max.live.managed, plan.from, plan.to) :
           max' = [max EXCEPT !.live.managed = graph]
      /\ Reply([type |-> "error", id |-> plan.id])
      /\ UNCHANGED <<service, registry, flight, link, saved, held>>

-----------------------------------------------------------------------------
(* People, the connection, and the processes. *)

PersonEdits ==
  /\ Spend("edits")
  /\ \E live \in Live \ {max.live} : max' = [max EXCEPT !.live = live]
  /\ UNCHANGED <<service, registry, flight, wire, saved, held>>

PatchSaved ==
  /\ Spend("saves")
  /\ saved # max
  /\ saved' = max
  /\ UNCHANGED <<service, registry, flight, wire, max, held>>

\* Max's end of the connection goes: requests not handled yet are lost, events
\* already sent may still arrive.
MaxEndCloses ==
  /\ link' = CASE link = "open" -> "closedByMax"
               [] link = "closedByBridge" -> "down"
               [] OTHER -> link
  /\ toMax' = <<>>

\* The patch window is closed without saving and its file opened again.
PatchReopened ==
  /\ Spend("breaks")
  /\ MaxEndCloses
  /\ max' = saved
  /\ UNCHANGED <<service, registry, flight, fromMax, saved, held>>

MaxDisconnects ==
  /\ link = "open"
  /\ Spend("breaks")
  /\ MaxEndCloses
  /\ UNCHANGED <<service, registry, flight, fromMax, native>>

MaxSeesClose ==
  /\ link = "closedByBridge"
  /\ MaxEndCloses
  /\ UNCHANGED <<service, registry, flight, fromMax, native, left>>

\* A connection with a registration on it: by the reconnecting timer or by hand.
\* A connection that never sends its registration is "down" here.
MaxConnects ==
  /\ link = "down"
  /\ link' = "open"
  /\ fromMax' = <<[type |-> "registered", revision |-> max.revision]>>
  /\ UNCHANGED <<service, registry, flight, toMax, native, left>>

\* removeClient: the registration goes and the request in flight fails.
BridgeForgets ==
  /\ registry' = None
  /\ fromMax' = <<>>
  /\ Fails
  /\ UNCHANGED <<diskFull, cached, receipts, native>>

BridgeSeesClose ==
  /\ link = "closedByMax"
  /\ link' = "down"
  /\ BridgeForgets
  /\ UNCHANGED <<toMax, left>>

BridgeLosesConnection ==
  /\ link = "open"
  /\ Spend("breaks")
  /\ link' = "closedByBridge"
  /\ BridgeForgets
  /\ UNCHANGED toMax

\* The broker process dies and a new one loads the state file.
BrokerRestarts ==
  /\ Spend("breaks")
  /\ mem' = disk
  /\ cached' = None /\ receipts' = <<>>
  /\ registry' = None /\ flight' = None
  /\ link' = CASE link = "open" -> "closedByBridge"
               [] link = "closedByMax" -> "down"
               [] OTHER -> link
  /\ fromMax' = <<>>
  /\ UNCHANGED <<disk, diskFull, toMax, native>>

\* The state file can no longer be written, or can again.
DiskChanges ==
  /\ Spend("faults")
  /\ diskFull' = ~diskFull
  /\ UNCHANGED <<mem, disk, cached, receipts, registry, flight, wire, native>>

-----------------------------------------------------------------------------
Calls ==
  \/ RefusedAfterResolve
  \/ PrepareStart \/ PrepareCached
  \/ InspectStart \/ ReviewStart \/ AdoptStart \/ RecoverStart
  \/ \E i \in DOMAIN receipts :
       ApplyForOtherCatalog(i) \/ ApplyStale(i) \/ ApplyReceipt(i)

BridgeReceives ==
  \/ BridgeRegisters \/ BridgeIgnores
  \/ InspectionArrives \/ PreparationArrives
  \/ AdoptionArrives \/ RecoveryArrives
  \/ ApplyAcknowledged \/ RebaseAcknowledged
  \/ BaselineArrives \/ ErrorArrives

MaxHandles == MaxInspects \/ MaxApplies \/ MaxRefuses \/ MaxFailsHalfway

Environment ==
  \/ PersonEdits \/ PatchSaved \/ PatchReopened
  \/ MaxDisconnects \/ BridgeLosesConnection
  \/ BrokerRestarts \/ DiskChanges

CloseSeen == BridgeSeesClose \/ MaxSeesClose

Next ==
  \/ Calls \/ BridgeReceives \/ TimesOut \/ MaxHandles
  \/ CloseSeen \/ MaxConnects \/ Environment

Spec == Init /\ [][Next]_vars

\* The event loops of the broker and of Max keep turning, and both ends learn
\* of a closed connection.  Callers, people and faults owe nothing, and nor does
\* a new connection: a person may have disconnected the object or set its
\* @reconnect to 0, and a registration may fail or wait for a window.
FairSpec ==
  Spec /\ WF_vars(BridgeReceives) /\ WF_vars(MaxHandles) /\ WF_vars(CloseSeen)
-----------------------------------------------------------------------------
(* What makes it correct. *)

\* The state file always explains the patch: Max's revision is the managed
\* graph it records or one of the two outcomes of its in-flight record, so a
\* broker that starts from it never meets a patch it cannot place.  Only a
\* patch reopened from its file may be at the older revision saved there.
RevisionRecoverable ==
  RevisionOf(max.revision) \in
    {RevisionOf(saved.revision),
     IF disk.managed = None THEN EmptyGraph ELSE disk.managed}
      \cup (IF disk.pending = None THEN {} ELSE {disk.pending.base, disk.pending.next})

\* Whatever the service or its file calls acknowledged is a graph that Max did
\* commit at some time, whichever messages were lost or came late.
AcknowledgedWasCommitted ==
  \A state \in {mem, disk} :
    /\ state.managed # None => state.managed \in held
    /\ state.pending # None => state.pending.base \in held

\* A baseline is only ever compared with the graph it was captured for; it
\* may lag behind the acknowledged graph only until captureBaseline ends.
BaselineDescribesManaged ==
  /\ \/ mem.baseline \in {None, mem.managed}
     \/ flight # None /\ flight.pc = "capturing"
  /\ disk.baseline \in {None, disk.managed}

\* A commit never destroys what only a person made: content it takes from a
\* managed box is content that some revision of the patch already had there.
\* (A person's edit that repeats an older revision can still be replaced.)
ManualEditsSurvive ==
  [][MaxApplies => \A b \in Box :
       max'.live.managed[b] # max.live.managed[b] =>
         \E h \in held : h[b] = max.live.managed[b]]_vars

\* A receipt issued for a connected patch is good for the state it was issued
\* in: it names the managed base that applyPreparedChange will ask for, and
\* becomes stale only through what happens later.  Only for a patch that is at
\* the revision of its file, as when it was reopened at an older one, may a
\* receipt be issued that is stale from the start (prepareChange,
\* assertPreparedBase).
ReceiptIsBornFresh ==
  [][Len(receipts') >= Len(receipts) /\ receipts' # receipts /\ registry # None =>
       \/ mem'.managed \in {None, Last(receipts').base}
       \/ Last(receipts').base = RevisionOf(saved.revision)]_vars

\* A record rewritten by a recovery is settled by that recovery or the next
\* one, or rewritten, and never by a planning call that finds one of its two
\* revisions on the patch.
RecoveryIsExplicit ==
  [][mem.pending # None /\ mem.pending.superseded /\ mem'.pending = None =>
       RebaseAcknowledged \/ RecoveryArrives \/ BrokerRestarts]_vars

\* The kind of the request that the operation in flight waits for.
IsPlan(operation) == operation.pc \in {"applying", "rebasing"}

\* A request or an event is the operation's when it bears its id.
RequestFits(request, operation) == request.type = IF IsPlan(operation) THEN "apply" ELSE "inspect"

EventFits(event, operation) ==
  event.type \in {"error", IF IsPlan(operation) THEN "applied" ELSE "snapshot"}

\* Whoever holds the patch's only request slot can be released without a timer:
\* its own request or an answer it can take is still on an open connection, or
\* the bridge is about to see the connection's end.  And no message that bears
\* its id is of a kind that nobody takes, so nothing blocks the queue before
\* the answer (pendingApplies, pendingInspections, handleApplied,
\* handleSnapshot, handleError, removeClient).
SlotCanEnd ==
  flight # None =>
    /\ \A request \in Range(toMax) :
         request.id = flight.id => RequestFits(request, flight)
    /\ \A event \in Range(fromMax) :
         event.type # "registered" /\ event.id = flight.id => EventFits(event, flight)
    /\ \/ link = "closedByMax"
       \/ /\ link = "open"
          /\ \/ \E request \in Range(toMax) : request.id = flight.id
             \/ \E event \in Range(fromMax) :
                  event.type # "registered" /\ event.id = flight.id

\* On an open connection the bridge reports the revision that Max has, unless an
\* event is still on its way to it: no caller plans on another base.  (After a
\* timeout the late acknowledgement is ignored, and this no longer holds.)
\* (handleRegistration, handleApplied, handleSnapshot, removeClient).
QuietLinkIsCurrent == link = "open" /\ fromMax = <<>> => registry = max.revision

\* As long as the connection carries or ends, no operation keeps the patch's
\* only request slot for ever, even without a timer.
SlotIsReleased == flight # None ~> flight = None

\* What the bridge reports is in the end the revision that Max has, if the patch
\* has a connection on which it registered, and otherwise nothing: no earlier
\* registration stays behind, whichever messages, breaks, restarts and commits
\* came before (handleRegistration, handleApplied, handleSnapshot, removeClient).
RegistryConverges ==
  <>[](registry = IF link = "open" THEN max.revision ELSE None)

\* The stack keeps the promise of ManagedPatch.
Promise == INSTANCE ManagedPatch
PromiseKept == Promise!Spec
=============================================================================

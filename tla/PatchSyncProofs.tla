-------------------------- MODULE PatchSyncProofs --------------------------
(***************************************************************************)
(* Proofs about PatchSync for every set of boxes and contents, any number  *)
(* of request ids and receipts, with and without concurrent callers and    *)
(* timers.                                                                 *)
(***************************************************************************)
EXTENDS PatchSync, SequenceTheorems, TLAPS

-----------------------------------------------------------------------------
(* Helpers. *)

\* The graph a revision stands for.
LEMMA RevisionOfType ==
  ASSUME NEW revision \in Revision
  PROVE  RevisionOf(revision) \in Graph
BY DEF RevisionOf, Revision, EmptyGraph, Graph

\* A fresh id is a request id that no message and no flight carries.
LEMMA FreshIdIsFresh ==
  ASSUME NEW id \in FreshId
  PROVE  id \in RequestId \ UsedIds
BY DEF FreshId

\* The elements of a queue after one was appended or taken.
LEMMA AppendRange ==
  ASSUME NEW S, NEW queue \in Seq(S), NEW e \in S
  PROVE  /\ Append(queue, e) \in Seq(S)
         /\ Len(Append(queue, e)) = Len(queue) + 1
         /\ Range(Append(queue, e)) = Range(queue) \cup {e}
<1>1. /\ Append(queue, e) \in Seq(S)
      /\ Len(Append(queue, e)) = Len(queue) + 1
      /\ \A i \in 1 .. Len(queue) : Append(queue, e)[i] = queue[i]
      /\ Append(queue, e)[Len(queue) + 1] = e
  BY AppendProperties
<1>2. /\ DOMAIN Append(queue, e) = 1 .. Len(queue) + 1
      /\ DOMAIN queue = 1 .. Len(queue)
      /\ Len(queue) \in Nat
  BY <1>1, LenProperties
<1>3. 1 .. Len(queue) + 1 = (1 .. Len(queue)) \cup {Len(queue) + 1}
  BY <1>2
<1> QED
  BY <1>1, <1>2, <1>3 DEF Range

\* What is left of a queue was in it.
LEMMA TailRange ==
  ASSUME NEW S, NEW queue \in Seq(S), queue # <<>>
  PROVE  /\ Tail(queue) \in Seq(S)
         /\ Len(Tail(queue)) = Len(queue) - 1
         /\ Range(Tail(queue)) \subseteq Range(queue)
         /\ Head(queue) \in S
         /\ Head(queue) \in Range(queue)
<1>1. /\ Tail(queue) \in Seq(S)
      /\ Len(Tail(queue)) = Len(queue) - 1
      /\ \A i \in 1 .. Len(Tail(queue)) : Tail(queue)[i] = queue[i+1]
      /\ Head(queue) \in S
  BY HeadTailProperties
<1>2. /\ DOMAIN Tail(queue) = 1 .. Len(queue) - 1
      /\ DOMAIN queue = 1 .. Len(queue)
      /\ Len(queue) \in Nat \ {0}
  BY <1>1, LenProperties, EmptySeq
<1>3. Head(queue) = queue[1] /\ 1 \in DOMAIN queue
  BY <1>2
<1> QED
  BY <1>1, <1>2, <1>3 DEF Range

\* Using a receipt leaves some of the others, in order.
LEMMA RemoveReceipt ==
  ASSUME receipts \in Seq(Receipt), NEW i \in DOMAIN receipts
  PROVE  /\ RemoveAt(receipts, i) \in Seq(Receipt)
         /\ Len(RemoveAt(receipts, i)) < Len(receipts)
         /\ Range(RemoveAt(receipts, i)) \subseteq Range(receipts)
<1> DEFINE before == SubSeq(receipts, 1, i-1)
           after == SubSeq(receipts, i+1, Len(receipts))
           rest == before \o after
<1>1. i \in 1 .. Len(receipts) /\ Len(receipts) \in Nat
  BY LenProperties
<1>2. /\ before \in Seq(Receipt) /\ Len(before) = i - 1
      /\ \A j \in 1 .. i-1 : before[j] = receipts[j]
  BY <1>1, SubSeqProperties
<1>3. /\ after \in Seq(Receipt) /\ Len(after) = Len(receipts) - i
      /\ \A j \in 1 .. Len(receipts) - i : after[j] = receipts[i+j]
  BY <1>1, SubSeqProperties
<1> HIDE DEF before, after
<1>4. /\ rest \in Seq(Receipt)
      /\ Len(rest) = Len(before) + Len(after)
      /\ \A j \in 1 .. Len(before) + Len(after) :
           rest[j] = IF j <= Len(before) THEN before[j] ELSE after[j - Len(before)]
  BY <1>2, <1>3, ConcatProperties
<1> HIDE DEF rest
<1>5. DOMAIN rest = 1 .. Len(receipts) - 1
  BY <1>1, <1>2, <1>3, <1>4, LenProperties
<1>6. ASSUME NEW j \in DOMAIN rest
      PROVE  \E k \in DOMAIN receipts : rest[j] = receipts[k]
  <2>1. CASE j <= i - 1
    <3>1. j \in 1 .. Len(before) + Len(after) /\ j <= Len(before) /\ j \in 1 .. i - 1
      BY <2>1, <1>1, <1>2, <1>3, <1>5
    <3>2. rest[j] = receipts[j]
      BY <3>1, <1>2, <1>4
    <3>3. j \in DOMAIN receipts
      BY <3>1, <1>1, LenProperties
    <3> QED
      BY <3>2, <3>3
  <2>2. CASE ~(j <= i - 1)
    <3>1. j - (i - 1) \in 1 .. Len(receipts) - i
      BY <2>2, <1>1, <1>5
    <3>2. j \in 1 .. Len(before) + Len(after) /\ ~(j <= Len(before))
      BY <2>2, <1>1, <1>2, <1>3, <1>5
    <3>3. rest[j] = after[j - (i - 1)]
      BY <3>2, <1>2, <1>4
    <3>4. after[j - (i - 1)] = receipts[i + (j - (i - 1))]
      BY <3>1, <1>3
    <3>5. i + (j - (i - 1)) \in DOMAIN receipts
      BY <3>1, <1>1, LenProperties
    <3> QED
      BY <3>3, <3>4, <3>5
  <2> QED
    BY <2>1, <2>2
<1>7. RemoveAt(receipts, i) = rest
  BY DEF RemoveAt, rest, before, after
<1>8. Range(rest) \subseteq Range(receipts)
  BY <1>6 DEF Range
<1> HIDE DEF before, after, rest
<1> QED
  BY <1>1, <1>2, <1>3, <1>4, <1>7, <1>8

\* Storing a receipt keeps the bound.
LEMMA StoreReceipt ==
  ASSUME TypeOK, NEW receipt \in Receipt
  PROVE  /\ Stored(receipt) \in Seq(Receipt)
         /\ Len(Stored(receipt)) <= MaxPrepared
         /\ Range(Stored(receipt)) \subseteq Range(receipts) \cup {receipt}
<1>1. /\ receipts \in Seq(Receipt)
      /\ Len(receipts) <= MaxPrepared
      /\ MaxPrepared \in Nat \ {0}
      /\ Len(receipts) \in Nat
  BY BoundsAssumption, LenProperties DEF TypeOK
<1>2. CASE Len(receipts) < MaxPrepared
  <2>1. Stored(receipt) = Append(receipts, receipt)
    BY <1>2 DEF Stored
  <2> QED
    BY <1>1, <1>2, <2>1, AppendRange
<1>3. CASE ~(Len(receipts) < MaxPrepared)
  <2> DEFINE kept == Tail(receipts)
  <2>1. Stored(receipt) = Append(kept, receipt)
    BY <1>3 DEF Stored
  <2>2. receipts # <<>>
    BY <1>1, <1>3
  <2>3. /\ kept \in Seq(Receipt)
        /\ Len(kept) = Len(receipts) - 1
        /\ Range(kept) \subseteq Range(receipts)
    BY <1>1, <2>2, TailRange
  <2> HIDE DEF kept
  <2>4. /\ Append(kept, receipt) \in Seq(Receipt)
        /\ Len(Append(kept, receipt)) = Len(kept) + 1
        /\ Range(Append(kept, receipt)) = Range(kept) \cup {receipt}
    BY <2>3, AppendRange
  <2> QED
    BY <1>1, <1>3, <2>1, <2>3, <2>4
<1> QED
  BY <1>2, <1>3

\* The channels only ever carry requests and events.
LEMMA SendRange ==
  ASSUME TypeOK, NEW request \in Request, Send(request)
  PROVE  /\ toMax' \in Seq(Request)
         /\ Range(toMax') \subseteq Range(toMax) \cup {request}
BY AppendRange DEF TypeOK, Send

\* What Max answers is the only new event.
LEMMA ReplyRange ==
  ASSUME TypeOK, NEW event \in Event, Reply(event)
  PROVE  /\ fromMax' \in Seq(Event)
         /\ Range(fromMax') \subseteq Range(fromMax) \cup {event}
BY AppendRange DEF TypeOK, Reply

\* Taking an event brings no new one.
LEMMA ReceiveRange ==
  ASSUME TypeOK, NEW type, Receive(type)
  PROVE  /\ fromMax' \in Seq(Event)
         /\ Range(fromMax') \subseteq Range(fromMax)
         /\ Head(fromMax) \in Event
         /\ Head(fromMax) \in Range(fromMax)
BY TailRange DEF TypeOK, Receive

\* Taking a request brings no new one.
LEMMA MaxReceivesRange ==
  ASSUME TypeOK, NEW type, MaxReceives(type)
  PROVE  /\ toMax' \in Seq(Request)
         /\ Range(toMax') \subseteq Range(toMax)
         /\ Head(toMax) \in Request
         /\ Head(toMax) \in Range(toMax)
BY TailRange DEF TypeOK, MaxReceives

-----------------------------------------------------------------------------
(* Type correctness. *)

\* Settling the in-flight record leaves a state of the service.
LEMMA ResolvedType ==
  ASSUME TypeOK
  PROVE  Resolved \in State
BY DEF TypeOK, Resolved, State, Pending

\* Saving leaves a state on disk, whether or not it succeeds.
LEMMA PersistedType ==
  ASSUME TypeOK, NEW state \in State
  PROVE  Persisted(state) \in State
BY DEF TypeOK, Persisted

\* What prepareChange holds while it awaits is a flight.
LEMMA PreparationType ==
  ASSUME NEW state \in State, NEW supplied \in BOOLEAN, NEW mode \in Mode,
         NEW current \in Graph, NEW desired \in Graph, NEW id
  PROVE  LET prep == Preparation(state, supplied, mode, current, desired, id)
         IN  /\ prep.current = current /\ prep.desired = desired
             /\ prep.mergeBase \in Graph
             /\ id \in RequestId => prep \in Flight
BY DEF Preparation, MergeBase, State, Flight, Mode

\* A merge of graphs is a graph.
LEMMA MergedType ==
  ASSUME NEW base \in Graph, NEW live \in Graph, NEW desired \in Graph
  PROVE  Merged(base, live, desired) \in Graph
BY DEF Merged, Graph

\* A plan that exists makes a receipt.
LEMMA ReceiptType ==
  ASSUME NEW prep, prep.current \in Graph, prep.desired \in Graph,
         prep.mergeBase \in Graph, NEW snapshot \in Snapshot
  PROVE  /\ ReceiptFor(prep, snapshot) \in Receipt
         /\ ReceiptFor(prep, snapshot).base = prep.current
BY MergedType DEF ReceiptFor, Receipt, Snapshot, Live

\* A request that fails leaves states and a free slot.
LEMMA FailsType ==
  ASSUME TypeOK, Fails
  PROVE  mem' \in State /\ disk' \in State /\ flight' = None
BY PersistedType DEF TypeOK, Fails, State

\* Spending keeps the allowances natural numbers.
LEMMA SpendType ==
  ASSUME TypeOK, NEW kind \in Budget, Spend(kind)
  PROVE  left' \in [Budget -> Nat]
BY DEF TypeOK, Spend

\* The event that answers is of the type that was awaited.
LEMMA AnswerType ==
  ASSUME TypeOK, NEW type, NEW pcs, Answer(type, pcs)
  PROVE  /\ fromMax' \in Seq(Event)
         /\ flight \in Flight /\ flight.pc \in pcs
         /\ Head(fromMax).type = type
         /\ type = "applied" => Head(fromMax).revision \in Graph
         /\ type = "snapshot" => /\ Head(fromMax).revision \in Revision
                                 /\ Head(fromMax).live \in Live
<1>1. Head(fromMax) \in Event /\ fromMax' \in Seq(Event)
  BY ReceiveRange DEF Answer
<1>2. flight \in Flight /\ flight.pc \in pcs /\ Head(fromMax).type = type
  BY DEF Answer, Receive, TypeOK
<1> QED
  BY <1>1, <1>2 DEF Event

\* The snapshot an operation takes is well formed.
LEMMA SnapshotType ==
  ASSUME TypeOK, NEW pcs, SnapshotArrives(pcs)
  PROVE  /\ fromMax' \in Seq(Event)
         /\ registry' \in Revision
         /\ flight \in Flight /\ flight.pc \in pcs
         /\ Head(fromMax).revision \in Revision
         /\ Head(fromMax).live \in Live
         /\ SnapshotOf(Head(fromMax)) \in Snapshot
BY AnswerType DEF SnapshotArrives, SnapshotOf, Snapshot

\* Adopting leaves states, a flight or a free slot, and well-formed requests.
LEMMA AdoptOrRebaseType ==
  ASSUME TypeOK, NEW base \in Graph, NEW live \in Live, NEW superseded \in BOOLEAN,
         AdoptOrRebase(base, live, superseded)
  PROVE  /\ mem' \in State /\ disk' \in State
         /\ flight' \in Flight \cup {None}
         /\ toMax' \in Seq(Request)
<1>1. CASE live.managed = base
  <2>1. Adopted(base) \in State
    BY DEF Adopted, State
  <2> QED
    BY <1>1, <2>1, PersistedType DEF AdoptOrRebase, TypeOK
<1>2. CASE live.managed # base
  <2> DEFINE observed == live.managed
             request(id) ==
               [type |-> "apply", id |-> id, base |-> base, next |-> observed,
                from |-> observed, to |-> observed, mergeBase |-> observed,
                token |-> live]
  <2>1. Rebase(base, observed, live, superseded)
    BY <1>2 DEF AdoptOrRebase
  <2>2. observed \in Graph
    BY DEF Live
  <2>3. mem' \in State /\ disk' \in State
    <3>1. [base |-> base, next |-> observed, intent |-> observed,
           superseded |-> superseded] \in Pending
      BY <2>2 DEF Pending
    <3>2. mem' \in State
      BY <2>1, <3>1 DEF Rebase, TypeOK, State
    <3> QED
      BY <2>1, <3>2, PersistedType DEF Rebase
  <2>4. CASE diskFull
    BY <2>1, <2>3, <2>4 DEF Rebase, TypeOK
  <2>5. CASE ~diskFull
    <3>1. PICK id \in FreshId :
            /\ flight' = [pc |-> "rebasing", id |-> id, next |-> observed]
            /\ Send(request(id))
      BY <2>1, <2>5 DEF Rebase
    <3>2. flight' \in Flight /\ request(id) \in Request
      BY <2>2, <3>1, FreshIdIsFresh DEF Flight, Request
    <3> QED
      BY <2>3, <3>1, <3>2, SendRange
  <2> QED
    BY <2>4, <2>5
<1> QED
  BY <1>1, <1>2

\* Applying a plan, and the end of the connection on Max's side.
LEMMA PatchedType ==
  ASSUME NEW g \in Graph, NEW from \in Graph, NEW to \in Graph
  PROVE  Patched(g, from, to) \in Graph
BY DEF Patched, Graph

\* The end of the connection leaves no request.
LEMMA MaxEndClosesType ==
  ASSUME TypeOK, MaxEndCloses
  PROVE  /\ link' \in {"open", "down", "closedByBridge", "closedByMax"}
         /\ toMax' \in Seq(Request)
BY DEF TypeOK, MaxEndCloses

\* Every step keeps the types.
LEMMA TypeStep == TypeOK /\ [Next]_vars => TypeOK'
<1> SUFFICES ASSUME TypeOK, [Next]_vars
             PROVE  TypeOK'
  OBVIOUS
<1>1. CASE RefusedAfterResolve
  BY <1>1, ResolvedType, PersistedType, SpendType
  DEF RefusedAfterResolve, TypeOK, Call, wire, native, Budget
<1>2. CASE PrepareStart
  <2>1. PICK supplied \in BOOLEAN, mode \in Mode, current \in Graph,
             desired \in Graph, id \in FreshId :
          /\ flight' = Preparation(mem', supplied, mode, current, desired, id)
          /\ Send(Inspect(id))
    BY <1>2 DEF PrepareStart
  <2>2. mem' \in State /\ disk' \in State
    BY <1>2, ResolvedType DEF PrepareStart, TypeOK
  <2>3. id \in RequestId /\ Inspect(id) \in Request
    BY FreshIdIsFresh DEF Inspect, Request
  <2>4. flight' \in Flight /\ toMax' \in Seq(Request)
    BY <2>1, <2>2, <2>3, PreparationType, SendRange
  <2> QED
    BY <1>2, <2>2, <2>4, SpendType DEF PrepareStart, TypeOK, Call, native, Budget
<1>3. CASE PrepareCached
  <2>1. PICK supplied \in BOOLEAN, mode \in Mode, current \in Graph, desired \in Graph :
          receipts' = Stored(ReceiptFor(
                        Preparation(mem', supplied, mode, current, desired, None), cached))
    BY <1>3 DEF PrepareCached
  <2>2. mem' \in State /\ disk' \in State /\ cached \in Snapshot
    BY <1>3, ResolvedType DEF PrepareCached, TypeOK
  <2>3. receipts' \in Seq(Receipt) /\ Len(receipts') <= MaxPrepared
    BY <2>1, <2>2, PreparationType, ReceiptType, StoreReceipt
  <2> QED
    BY <1>3, <2>2, <2>3, SpendType DEF PrepareCached, TypeOK, Call, wire, native, Budget
<1>4. ASSUME NEW i \in DOMAIN receipts
      PROVE  ApplyForOtherCatalog(i) \/ ApplyStale(i) \/ ApplyReceipt(i) => TypeOK'
  <2>1. /\ RemoveAt(receipts, i) \in Seq(Receipt)
        /\ Len(RemoveAt(receipts, i)) <= MaxPrepared
    BY RemoveReceipt, BoundsAssumption, LenProperties DEF TypeOK
  <2>2. CASE ApplyForOtherCatalog(i)
    BY <2>1, <2>2, SpendType DEF ApplyForOtherCatalog, TypeOK, Call, wire, native, Budget
  <2>3. CASE ApplyStale(i)
    BY <2>1, <2>3, ResolvedType, PersistedType, SpendType
    DEF ApplyStale, TypeOK, Call, wire, native, Budget
  <2>4. CASE ApplyReceipt(i)
    <3> DEFINE r == receipts[i]
               record == [base |-> r.base, next |-> r.next, intent |-> r.intent,
                          superseded |-> FALSE]
               request(id) ==
                 [type |-> "apply", id |-> id, base |-> r.base, next |-> r.next,
                  from |-> r.from, to |-> r.next, mergeBase |-> r.mergeBase,
                  token |-> r.token]
    <3>1. r \in Receipt
      BY LenProperties, ElementOfSeq DEF TypeOK
    <3>2. record \in Pending
      BY <3>1 DEF Receipt, Pending
    <3>3. mem' \in State /\ disk' \in State
      <4>1. mem' = [Resolved EXCEPT !.pending = record] /\ disk' = Persisted(mem')
        BY <2>4 DEF ApplyReceipt
      <4>2. mem' \in State
        BY <3>2, <4>1, ResolvedType DEF State
      <4> QED
        BY <4>1, <4>2, PersistedType
    <3>4. flight' \in Flight \cup {None} /\ toMax' \in Seq(Request)
      <4>1. CASE UNCHANGED <<flight, toMax>>
        BY <4>1 DEF TypeOK
      <4>2. CASE \E id \in FreshId :
                   /\ flight' = [pc |-> "applying", id |-> id, next |-> r.next,
                                 intent |-> r.intent]
                   /\ Send(request(id))
        <5>1. PICK id \in FreshId :
                /\ flight' = [pc |-> "applying", id |-> id, next |-> r.next,
                              intent |-> r.intent]
                /\ Send(request(id))
          BY <4>2
        <5>2. id \in RequestId
          BY FreshIdIsFresh
        <5>3. request(id) \in Request
          BY <3>1, <5>2 DEF Receipt, Request
        <5>4. flight' \in Flight
          BY <3>1, <5>1, <5>2 DEF Receipt, Flight
        <5> QED
          BY <5>1, <5>3, <5>4, SendRange
      <4> QED
        BY <2>4, <4>1, <4>2 DEF ApplyReceipt
    <3> QED
      BY <2>1, <2>4, <3>3, <3>4, SpendType
      DEF ApplyReceipt, TypeOK, Call, native, Budget
  <2> QED
    BY <2>2, <2>3, <2>4
<1>5. CASE InspectStart
  <2>1. PICK id \in FreshId, pc \in {"inspecting", "looking"} :
          flight' = [pc |-> pc, id |-> id] /\ Send(Inspect(id))
    BY <1>5 DEF InspectStart
  <2>2. flight' \in Flight /\ Inspect(id) \in Request
    BY <2>1, FreshIdIsFresh DEF Flight, Inspect, Request
  <2> QED
    BY <1>5, <2>1, <2>2, SendRange, SpendType
    DEF InspectStart, TypeOK, Call, service, native, Budget
<1>6. CASE ReviewStart
  <2>1. PICK id \in FreshId :
          flight' = [pc |-> "looking", id |-> id] /\ Send(Inspect(id))
    BY <1>6 DEF ReviewStart
  <2>2. flight' \in Flight /\ Inspect(id) \in Request
    BY <2>1, FreshIdIsFresh DEF Flight, Inspect, Request
  <2> QED
    BY <1>6, <2>1, <2>2, ResolvedType, SendRange, SpendType
    DEF ReviewStart, TypeOK, Call, native, Budget
<1>7. CASE AdoptStart
  <2>1. PICK id \in FreshId :
          /\ flight' = [pc |-> "adopting", id |-> id, current |-> mem'.managed]
          /\ Send(Inspect(id))
    BY <1>7 DEF AdoptStart
  <2>2. mem' \in State /\ disk' \in State /\ mem'.managed # None
    BY <1>7, ResolvedType DEF AdoptStart, TypeOK
  <2>3. flight' \in Flight /\ Inspect(id) \in Request
    BY <2>1, <2>2, FreshIdIsFresh DEF Flight, Inspect, Request, State
  <2> QED
    BY <1>7, <2>1, <2>2, <2>3, SendRange, SpendType
    DEF AdoptStart, TypeOK, Call, native, Budget
<1>8. CASE RecoverStart
  <2>1. PICK id \in FreshId :
          /\ flight' = [pc |-> "recovering", id |-> id, live |-> registry]
          /\ Send(Inspect(id))
    BY <1>8 DEF RecoverStart
  <2>2. registry \in Graph
    BY <1>8 DEF RecoverStart, Admits, TypeOK, Revision
  <2>3. flight' \in Flight /\ Inspect(id) \in Request
    BY <2>1, <2>2, FreshIdIsFresh DEF Flight, Inspect, Request
  <2> QED
    BY <1>8, <2>1, <2>3, SendRange, SpendType
    DEF RecoverStart, TypeOK, Call, service, native, Budget
<1>9. CASE BridgeRegisters
  <2>1. fromMax' \in Seq(Event) /\ registry' \in Revision
    BY <1>9, ReceiveRange DEF BridgeRegisters, Receive, Event
  <2> QED
    BY <1>9, <2>1 DEF BridgeRegisters, TypeOK, service, native
<1>10. CASE BridgeIgnores
  BY <1>10, ReceiveRange DEF BridgeIgnores, TypeOK, service, native
<1>11. CASE InspectionArrives
  BY <1>11, SnapshotType DEF InspectionArrives, TypeOK, native
<1>12. CASE PreparationArrives
  <2>1. /\ flight \in Flight /\ flight.pc = "preparing"
        /\ cached' \in Snapshot
        /\ fromMax' \in Seq(Event) /\ registry' \in Revision
    BY <1>12, SnapshotType DEF PreparationArrives
  <2>2. flight.current \in Graph /\ flight.desired \in Graph /\ flight.mergeBase \in Graph
    BY <2>1 DEF Flight
  <2>3. receipts' \in Seq(Receipt) /\ Len(receipts') <= MaxPrepared
    BY <1>12, <2>1, <2>2, ReceiptType, StoreReceipt DEF PreparationArrives, TypeOK
  <2> QED
    BY <1>12, <2>1, <2>3 DEF PreparationArrives, TypeOK, native
<1>13. CASE AdoptionArrives
  <2>1. /\ flight \in Flight /\ flight.pc = "adopting"
        /\ Head(fromMax).live \in Live
        /\ fromMax' \in Seq(Event) /\ registry' \in Revision
    BY <1>13, SnapshotType DEF AdoptionArrives
  <2>2. flight.current \in Graph
    BY <2>1 DEF Flight
  <2>3. /\ mem' \in State /\ disk' \in State
        /\ flight' \in Flight \cup {None} /\ toMax' \in Seq(Request)
    BY <1>13, <2>1, <2>2, AdoptOrRebaseType DEF AdoptionArrives, GivesUp, TypeOK
  <2> QED
    BY <1>13, <2>1, <2>3 DEF AdoptionArrives, TypeOK, native
<1>14. CASE RecoveryArrives
  <2>1. /\ flight \in Flight /\ flight.pc = "recovering"
        /\ Head(fromMax).live \in Live
        /\ fromMax' \in Seq(Event) /\ registry' \in Revision
    BY <1>14, SnapshotType DEF RecoveryArrives
  <2>2. flight.live \in Graph
    BY <2>1 DEF Flight
  <2>3. /\ mem' \in State /\ disk' \in State
        /\ flight' \in Flight \cup {None} /\ toMax' \in Seq(Request)
    BY <1>14, <2>1, <2>2, AdoptOrRebaseType DEF RecoveryArrives, GivesUp, TypeOK
  <2> QED
    BY <1>14, <2>1, <2>3 DEF RecoveryArrives, TypeOK, native
<1>15. CASE ApplyAcknowledged
  <2>1. /\ flight \in Flight /\ flight.pc = "applying"
        /\ fromMax' \in Seq(Event) /\ registry' \in Graph
    BY <1>15, AnswerType DEF ApplyAcknowledged, Acknowledgement
  <2>2. flight.next \in Graph /\ flight.intent \in Graph
    BY <2>1 DEF Flight
  <2>3. mem' \in State
    BY <1>15, <2>2 DEF ApplyAcknowledged, TypeOK, State
  <2>4. PICK id \in FreshId :
          /\ flight' = [pc |-> "capturing", id |-> id, next |-> flight.next]
          /\ Send(Inspect(id))
    BY <1>15 DEF ApplyAcknowledged
  <2>5. flight' \in Flight /\ Inspect(id) \in Request
    BY <2>2, <2>4, FreshIdIsFresh DEF Flight, Inspect, Request
  <2> QED
    BY <1>15, <2>1, <2>3, <2>4, <2>5, SendRange
    DEF ApplyAcknowledged, TypeOK, Revision, native
<1>16. CASE RebaseAcknowledged
  <2>1. /\ flight \in Flight /\ flight.pc = "rebasing"
        /\ fromMax' \in Seq(Event) /\ registry' \in Graph
    BY <1>16, AnswerType DEF RebaseAcknowledged, Acknowledgement
  <2>2. flight.next \in Graph
    BY <2>1 DEF Flight
  <2>3. mem' \in State /\ disk' \in State
    BY <1>16, <2>2, PersistedType DEF RebaseAcknowledged, Adopted, State
  <2> QED
    BY <1>16, <2>1, <2>3 DEF RebaseAcknowledged, TypeOK, Revision, native
<1>17. CASE BaselineArrives
  <2>1. /\ flight \in Flight /\ flight.pc = "capturing"
        /\ cached' \in Snapshot
        /\ fromMax' \in Seq(Event) /\ registry' \in Revision
    BY <1>17, SnapshotType DEF BaselineArrives
  <2>2. flight.next \in Graph
    BY <2>1 DEF Flight
  <2>3. mem' \in State
    BY <1>17, <2>2 DEF BaselineArrives, TypeOK, State
  <2>4. disk' \in State
    BY <1>17, <2>3, PersistedType DEF BaselineArrives
  <2> QED
    BY <1>17, <2>1, <2>3, <2>4 DEF BaselineArrives, TypeOK, native
<1>18. CASE ErrorArrives
  BY <1>18, AnswerType, FailsType DEF ErrorArrives, TypeOK, native
<1>19. CASE TimesOut
  BY <1>19, FailsType DEF TimesOut, TypeOK, wire, native
<1>20. CASE MaxInspects
  <2>1. toMax' \in Seq(Request) /\ Head(toMax) \in Request
    BY <1>20, MaxReceivesRange DEF MaxInspects
  <2>2. [type |-> "snapshot", id |-> Head(toMax).id,
         revision |-> max.revision, live |-> max.live] \in Event
    BY <2>1 DEF TypeOK, Patch, Request, Event
  <2> QED
    BY <1>20, <2>1, <2>2, ReplyRange DEF MaxInspects, TypeOK, service, native
<1>21. CASE MaxApplies
  <2>1. toMax' \in Seq(Request) /\ Head(toMax) \in Request /\ Head(toMax).type = "apply"
    BY <1>21, MaxReceivesRange DEF MaxApplies, MaxReceives
  <2>2. /\ Head(toMax).id \in RequestId
        /\ Head(toMax).next \in Graph /\ Head(toMax).from \in Graph /\ Head(toMax).to \in Graph
    BY <2>1 DEF Request
  <2>3. [type |-> "applied", id |-> Head(toMax).id, revision |-> Head(toMax).next] \in Event
    BY <2>2 DEF Event
  <2>4. max.live \in Live
    BY DEF TypeOK, Patch
  <2>5. Patched(max.live.managed, Head(toMax).from, Head(toMax).to) \in Graph
    BY <2>2, <2>4, PatchedType DEF Live
  <2>6. max' \in Patch
    BY <1>21, <2>2, <2>4, <2>5 DEF MaxApplies, Patch, Live, Revision
  <2>7. held' \subseteq Graph
    BY <1>21, <2>2 DEF MaxApplies, TypeOK
  <2>8. fromMax' \in Seq(Event)
    BY <1>21, <2>3, ReplyRange DEF MaxApplies
  <2> QED
    BY <1>21, <2>1, <2>6, <2>7, <2>8 DEF MaxApplies, TypeOK, service
<1>22. CASE MaxRefuses
  <2>1. toMax' \in Seq(Request) /\ Head(toMax) \in Request
    BY <1>22, MaxReceivesRange DEF MaxRefuses
  <2>2. [type |-> "error", id |-> Head(toMax).id] \in Event
    BY <2>1 DEF Request, Event
  <2> QED
    BY <1>22, <2>1, <2>2, ReplyRange DEF MaxRefuses, TypeOK, service, native
<1>23. CASE MaxFailsHalfway
  <2>1. toMax' \in Seq(Request) /\ Head(toMax) \in Request
    BY <1>23, MaxReceivesRange DEF MaxFailsHalfway
  <2>2. [type |-> "error", id |-> Head(toMax).id] \in Event
    BY <2>1 DEF Request, Event
  <2>3. PICK graph \in Graph : max' = [max EXCEPT !.live.managed = graph]
    BY <1>23 DEF MaxFailsHalfway, PartlyPatched
  <2>4. max' \in Patch
    BY <2>3 DEF TypeOK, Patch, Live
  <2> QED
    BY <1>23, <2>1, <2>2, <2>4, ReplyRange, SpendType
    DEF MaxFailsHalfway, TypeOK, service, Budget
<1>24. CASE PersonEdits
  BY <1>24, SpendType DEF PersonEdits, TypeOK, service, wire, Patch, Budget
<1>25. CASE PatchSaved
  BY <1>25, SpendType DEF PatchSaved, TypeOK, service, wire, Budget
<1>26. CASE PatchReopened
  BY <1>26, MaxEndClosesType, SpendType DEF PatchReopened, TypeOK, service, Budget
<1>27. CASE MaxDisconnects
  BY <1>27, MaxEndClosesType, SpendType DEF MaxDisconnects, TypeOK, service, native, Budget
<1>28. CASE MaxSeesClose
  BY <1>28, MaxEndClosesType DEF MaxSeesClose, TypeOK, service, native
<1>29. CASE MaxConnects
  <2>1. [type |-> "registered", revision |-> max.revision] \in Event
    BY DEF TypeOK, Patch, Event
  <2>2. fromMax' \in Seq(Event)
    BY <1>29, <2>1 DEF MaxConnects
  <2> QED
    BY <1>29, <2>2 DEF MaxConnects, TypeOK, service, native
<1>30. CASE BridgeSeesClose
  BY <1>30, FailsType DEF BridgeSeesClose, BridgeForgets, TypeOK, native
<1>31. CASE BridgeLosesConnection
  BY <1>31, FailsType, SpendType
  DEF BridgeLosesConnection, BridgeForgets, TypeOK, native, Budget
<1>32. CASE BrokerRestarts
  BY <1>32, BoundsAssumption, SpendType DEF BrokerRestarts, TypeOK, native, Budget
<1>33. CASE DiskChanges
  BY <1>33, SpendType DEF DiskChanges, TypeOK, wire, native, Budget
<1>34. CASE UNCHANGED vars
  BY <1>34 DEF vars, service, wire, native, TypeOK
<1> QED
  BY <1>1, <1>2, <1>3, <1>4, <1>5, <1>6, <1>7, <1>8, <1>9, <1>10, <1>11, <1>12,
     <1>13, <1>14, <1>15, <1>16, <1>17, <1>18, <1>19, <1>20, <1>21, <1>22, <1>23,
     <1>24, <1>25, <1>26, <1>27, <1>28, <1>29, <1>30, <1>31, <1>32, <1>33, <1>34
  DEF Next, Calls, BridgeReceives, MaxHandles, Environment, CloseSeen

\* The initial states are well typed.
LEMMA TypeInit == Init => TypeOK
<1> SUFFICES ASSUME Init PROVE TypeOK
  OBVIOUS
<1>1. max \in Patch /\ max.live.managed \in Graph
  BY DEF Init, Patch, Live
<1>2. NoState \in State
  BY DEF NoState, State
<1>3. receipts \in Seq(Receipt) /\ Len(receipts) <= MaxPrepared
  BY BoundsAssumption DEF Init
<1>4. held \subseteq Graph /\ left \in [Budget -> Nat]
  BY <1>1, BoundsAssumption DEF Init
<1>5. toMax \in Seq(Request) /\ fromMax \in Seq(Event)
  BY DEF Init
<1>6. mem \in State /\ disk \in State /\ diskFull \in BOOLEAN /\ saved \in Patch
  BY <1>1, <1>2 DEF Init
<1>7. /\ cached \in Snapshot \cup {None} /\ registry \in Revision \cup {None}
      /\ flight \in Flight \cup {None}
      /\ link \in {"open", "down", "closedByBridge", "closedByMax"}
  BY DEF Init
<1> QED
  BY <1>1, <1>3, <1>4, <1>5, <1>6, <1>7 DEF TypeOK

\* The variables only ever hold the values the service's types, the state file
\* and the protocol describe, and no more receipts than MAX_PREPARED_CHANGES
\* are kept, in every run of the code segments of PatchSync.
THEOREM TypeCorrect == Spec => []TypeOK
BY TypeInit, TypeStep, PTL DEF Spec

-----------------------------------------------------------------------------
(* AcknowledgedWasCommitted.  Alone it is not inductive: what the service    *)
(* records comes from reports, receipts and flights that must themselves    *)
(* only name committed graphs, and an acknowledgement must be the one of    *)
(* the plan in flight.                                                      *)

Committed(revision) == RevisionOf(revision) \in held

PatchCommitted == Committed(max.revision) /\ Committed(saved.revision)

ReportsCommitted ==
  /\ registry # None => Committed(registry)
  /\ cached # None => Committed(cached.revision)
  /\ \A e \in Range(fromMax) : e.type # "error" => Committed(e.revision)

BasesCommitted ==
  /\ \A r \in Range(receipts) : r.base \in held
  /\ flight # None /\ flight.pc = "adopting" => flight.current \in held
  /\ flight # None /\ flight.pc = "recovering" => flight.live \in held

AsksFor(next) == flight.pc \in {"applying", "rebasing"} /\ flight.next = next

\* A plan or an acknowledgement with the id of the request in flight is its own.
AnswersMatch ==
  flight # None =>
    /\ \A q \in Range(toMax) :
         q.type = "apply" /\ q.id = flight.id => AsksFor(q.next)
    /\ \A e \in Range(fromMax) :
         e.type = "applied" /\ e.id = flight.id => AsksFor(e.revision)

StateCommitted(state) ==
  /\ state.managed # None => state.managed \in held
  /\ state.pending # None => state.pending.base \in held

CommittedInv ==
  /\ TypeOK
  /\ PatchCommitted
  /\ ReportsCommitted
  /\ BasesCommitted
  /\ AnswersMatch
  /\ AcknowledgedWasCommitted

\* Settling and saving keep what is recorded.
LEMMA ResolvedCommitted ==
  ASSUME CommittedInv, Resolvable
  PROVE  StateCommitted(Resolved)
<1>1. StateCommitted(mem)
  BY DEF CommittedInv, AcknowledgedWasCommitted, StateCommitted
<1>2. CASE mem.pending # None /\ RevisionOf(registry) = mem.pending.next
  <2>1. mem.pending.next \in held
    BY <1>2 DEF Resolvable, CommittedInv, ReportsCommitted, Committed
  <2> QED
    BY <1>2, <2>1 DEF Resolved, StateCommitted
<1>3. CASE ~(mem.pending # None /\ RevisionOf(registry) = mem.pending.next)
  BY <1>1, <1>3 DEF CommittedInv, TypeOK, Resolved, StateCommitted, State
<1> QED
  BY <1>2, <1>3

\* What is saved was in memory or already on disk.
LEMMA PersistedCommitted ==
  ASSUME CommittedInv, NEW state, StateCommitted(state)
  PROVE  StateCommitted(Persisted(state))
BY DEF CommittedInv, AcknowledgedWasCommitted, StateCommitted, Persisted

\* What a planning call leaves in memory and on disk.
LEMMA SettledCommitted ==
  ASSUME CommittedInv, Resolvable, mem' = Resolved,
         disk' \in {disk, mem', Persisted(mem')}, held' = held
  PROVE  AcknowledgedWasCommitted'
BY ResolvedCommitted, PersistedCommitted
DEF AcknowledgedWasCommitted, StateCommitted, CommittedInv

\* A state that names committed graphs may be saved.
LEMMA SavedCommitted ==
  ASSUME CommittedInv, StateCommitted(mem'), disk' \in {disk, Persisted(mem')},
         held' = held
  PROVE  AcknowledgedWasCommitted'
BY PersistedCommitted DEF AcknowledgedWasCommitted, StateCommitted, CommittedInv

\* A new request has an id no message carries, so AnswersMatch holds of it.
LEMMA InspectMatches ==
  ASSUME TypeOK, NEW id \in FreshId, Send(Inspect(id)), flight'.id = id,
         Range(fromMax') \subseteq Range(fromMax)
  PROVE  AnswersMatch'
<1>1. id \notin UsedIds /\ Inspect(id) \in Request
  BY FreshIdIsFresh DEF Inspect, Request
<1>2. ASSUME NEW q \in Range(toMax'), q.type = "apply", q.id = id PROVE FALSE
  BY <1>1, <1>2, SendRange DEF Inspect, UsedIds
<1>3. ASSUME NEW e \in Range(fromMax'), e.type = "applied", e.id = id PROVE FALSE
  BY <1>1, <1>3 DEF UsedIds
<1> QED
  BY <1>2, <1>3 DEF AnswersMatch

\* The same for a request to apply a plan.
LEMMA PlanMatches ==
  ASSUME TypeOK, NEW id \in FreshId, NEW plan \in Request, plan.id = id, Send(plan),
         flight'.id = id, flight'.pc \in {"applying", "rebasing"},
         flight'.next = plan.next, Range(fromMax') \subseteq Range(fromMax)
  PROVE  AnswersMatch'
<1>1. id \notin UsedIds
  BY FreshIdIsFresh
<1>2. ASSUME NEW q \in Range(toMax'), q.type = "apply", q.id = id
      PROVE  AsksFor(q.next)'
  BY <1>1, <1>2, SendRange DEF UsedIds, AsksFor
<1>3. ASSUME NEW e \in Range(fromMax'), e.type = "applied", e.id = id PROVE FALSE
  BY <1>1, <1>3 DEF UsedIds
<1> QED
  BY <1>2, <1>3 DEF AnswersMatch

\* No flight is started, and the channels carry nothing new for it.
LEMMA NothingNewMatches ==
  ASSUME CommittedInv, flight' \in {flight, None},
         Range(toMax') \subseteq Range(toMax),
         \A e \in Range(fromMax') : e \in Range(fromMax) \/ e.type # "applied"
  PROVE  AnswersMatch'
BY DEF CommittedInv, AnswersMatch, AsksFor

\* Storing and using receipts.
LEMMA ReceiptsCommitted ==
  ASSUME CommittedInv, NEW prep, prep.current \in held, prep.desired \in Graph,
         prep.mergeBase \in Graph, NEW snapshot \in Snapshot
  PROVE  \A r \in Range(Stored(ReceiptFor(prep, snapshot))) : r.base \in held
<1>1. prep.current \in Graph
  BY DEF CommittedInv, TypeOK
<1> QED
  BY <1>1, ReceiptType, StoreReceipt DEF CommittedInv, BasesCommitted

\* The snapshot an operation takes, and the acknowledgement it takes, name
\* committed graphs.
LEMMA SnapshotCommitted ==
  ASSUME CommittedInv, NEW pcs, SnapshotArrives(pcs)
  PROVE  /\ Committed(registry')
         /\ SnapshotOf(Head(fromMax)).revision = registry'
         /\ Range(fromMax') \subseteq Range(fromMax)
BY ReceiveRange
DEF SnapshotArrives, Answer, Receive, SnapshotOf, CommittedInv, ReportsCommitted

\* An acknowledgement that is taken names the graph the flight asked for.
LEMMA AcknowledgementCommitted ==
  ASSUME CommittedInv, NEW pcs, Acknowledgement(pcs)
  PROVE  /\ Committed(registry')
         /\ flight.next \in held
         /\ Range(fromMax') \subseteq Range(fromMax)
<1>1. /\ Head(fromMax) \in Range(fromMax) /\ Range(fromMax') \subseteq Range(fromMax)
      /\ Head(fromMax).type = "applied" /\ Head(fromMax).id = flight.id
      /\ flight # None /\ registry' = Head(fromMax).revision
  BY ReceiveRange DEF Acknowledgement, Answer, Receive, CommittedInv
<1>2. Head(fromMax).revision = flight.next /\ Head(fromMax).revision \in Graph
  BY <1>1, AnswerType DEF CommittedInv, AnswersMatch, AsksFor, Acknowledgement
<1>3. Committed(Head(fromMax).revision)
  BY <1>1 DEF CommittedInv, ReportsCommitted
<1>4. RevisionOf(Head(fromMax).revision) = flight.next
  BY <1>2, NoneAssumption DEF RevisionOf
<1> QED
  BY <1>1, <1>3, <1>4 DEF Committed

\* Adopting and recovering record a committed base, and ask for one plan.
LEMMA AdoptOrRebaseCommitted ==
  ASSUME CommittedInv, NEW base \in Graph, base \in held, NEW live \in Live,
         NEW superseded \in BOOLEAN, AdoptOrRebase(base, live, superseded),
         Range(fromMax') \subseteq Range(fromMax), held' = held
  PROVE  /\ AcknowledgedWasCommitted'
         /\ AnswersMatch'
         /\ flight' # None => flight'.pc = "rebasing"
<1>1. CASE live.managed = base
  <2>1. mem' = Adopted(base) /\ disk' = Persisted(mem') /\ flight' = None
    BY <1>1 DEF AdoptOrRebase
  <2>2. StateCommitted(mem')
    BY <2>1 DEF Adopted, StateCommitted
  <2> QED
    BY <2>1, <2>2, SavedCommitted DEF AnswersMatch
<1>2. CASE live.managed # base
  <2> DEFINE observed == live.managed
             request(id) ==
               [type |-> "apply", id |-> id, base |-> base, next |-> observed,
                from |-> observed, to |-> observed, mergeBase |-> observed,
                token |-> live]
  <2>1. Rebase(base, observed, live, superseded)
    BY <1>2 DEF AdoptOrRebase
  <2>2. AcknowledgedWasCommitted'
    <3>1. /\ mem'.managed = mem.managed /\ mem'.pending.base = base
          /\ disk' = Persisted(mem')
      BY <2>1 DEF Rebase, CommittedInv, TypeOK, State
    <3>2. StateCommitted(mem')
      BY <3>1 DEF CommittedInv, AcknowledgedWasCommitted, StateCommitted
    <3> QED
      BY <3>1, <3>2, SavedCommitted
  <2>3. CASE diskFull
    BY <2>1, <2>2, <2>3 DEF Rebase, AnswersMatch
  <2>4. CASE ~diskFull
    <3>1. PICK id \in FreshId :
            /\ flight' = [pc |-> "rebasing", id |-> id, next |-> observed]
            /\ Send(request(id))
      BY <2>1, <2>4 DEF Rebase
    <3>2. request(id) \in Request
      BY FreshIdIsFresh DEF Request, Live
    <3>3. /\ request(id).id = id /\ request(id).next = observed
          /\ flight'.id = id /\ flight'.pc = "rebasing" /\ flight'.next = observed
      BY <3>1
    <3> HIDE DEF request
    <3>4. AnswersMatch'
      BY <3>1, <3>2, <3>3, PlanMatches DEF CommittedInv
    <3> QED
      BY <2>2, <3>3, <3>4
  <2> QED
    BY <2>3, <2>4
<1> QED
  BY <1>1, <1>2

\* A refused adoption records nothing.
LEMMA GivesUpCommitted ==
  ASSUME CommittedInv, GivesUp, held' = held
  PROVE  AcknowledgedWasCommitted' /\ AnswersMatch' /\ flight' = None
BY DEF GivesUp, CommittedInv, AcknowledgedWasCommitted, AnswersMatch

\* A failed request changes neither the managed graph nor the record.
LEMMA FailsCommitted ==
  ASSUME CommittedInv, Fails, held' = held
  PROVE  AcknowledgedWasCommitted' /\ flight' = None
<1>1. CASE UNCHANGED <<mem, disk>>
  BY <1>1 DEF Fails, CommittedInv, AcknowledgedWasCommitted
<1>2. CASE mem' = [mem EXCEPT !.baseline = None] /\ disk' = Persisted(mem')
  <2>1. mem'.managed = mem.managed /\ mem'.pending = mem.pending
    BY <1>2 DEF CommittedInv, TypeOK, State
  <2>2. StateCommitted(mem')
    BY <2>1 DEF CommittedInv, AcknowledgedWasCommitted, StateCommitted
  <2> QED
    BY <1>2, <2>2, SavedCommitted DEF Fails
<1> QED
  BY <1>1, <1>2 DEF Fails

\* An empty queue has no elements.
LEMMA EmptyRange == Range(<<>>) = {}
BY DEF Range

\* The bridge loses the patch.
LEMMA ForgottenCommitted ==
  ASSUME CommittedInv, TypeOK', Fails, registry' = None, fromMax' = <<>>,
         UNCHANGED <<cached, receipts, max, saved, held>>
  PROVE  CommittedInv'
<1>1. AcknowledgedWasCommitted' /\ flight' = None
  BY FailsCommitted
<1> QED
  BY <1>1, EmptyRange
  DEF CommittedInv, PatchCommitted, ReportsCommitted, BasesCommitted, AnswersMatch,
      Committed

\* Max takes a request and answers it with an error.
TellsAnError ==
  /\ Range(toMax') \subseteq Range(toMax)
  /\ Head(toMax) \in Request
  /\ Reply([type |-> "error", id |-> Head(toMax).id])

\* An error of Max reports no revision.
LEMMA ErrorCommitted ==
  ASSUME CommittedInv, TypeOK', TellsAnError, max'.revision = max.revision,
         UNCHANGED <<mem, disk, cached, receipts, registry, flight, saved, held>>
  PROVE  CommittedInv'
<1> DEFINE event == [type |-> "error", id |-> Head(toMax).id]
<1>1. event \in Event /\ event.type = "error"
  BY DEF TellsAnError, Request, Event
<1>2. Range(fromMax') \subseteq Range(fromMax) \cup {event}
  BY <1>1, ReplyRange DEF TellsAnError, CommittedInv
<1> HIDE DEF event
<1>3. AnswersMatch'
  BY <1>1, <1>2, NothingNewMatches DEF TellsAnError
<1> QED
  BY <1>1, <1>2, <1>3
  DEF CommittedInv, PatchCommitted, ReportsCommitted, BasesCommitted,
      AcknowledgedWasCommitted, Committed

\* Every step keeps the inductive invariant.
LEMMA CommittedStep == CommittedInv /\ [Next]_vars => CommittedInv'
<1> SUFFICES ASSUME CommittedInv, [Next]_vars
             PROVE  CommittedInv'
  OBVIOUS
<1>0. TypeOK /\ TypeOK'
  BY TypeStep DEF CommittedInv
<1>1. CASE RefusedAfterResolve
  <2>1. AcknowledgedWasCommitted'
    BY <1>1, SettledCommitted DEF RefusedAfterResolve, native
  <2>2. AnswersMatch'
    BY <1>1, NothingNewMatches DEF RefusedAfterResolve, wire
  <2> QED
    BY <1>0, <1>1, <2>1, <2>2
    DEF RefusedAfterResolve, CommittedInv, PatchCommitted, ReportsCommitted,
        BasesCommitted, Committed, wire, native
<1>2. CASE PrepareStart
  <2>1. PICK supplied \in BOOLEAN, mode \in Mode, current \in Graph,
             desired \in Graph, id \in FreshId :
          /\ flight' = Preparation(mem', supplied, mode, current, desired, id)
          /\ Send(Inspect(id))
    BY <1>2 DEF PrepareStart
  <2>2. flight'.id = id /\ flight'.pc = "preparing"
    BY <2>1 DEF Preparation
  <2>3. AnswersMatch'
    BY <1>0, <1>2, <2>1, <2>2, InspectMatches DEF PrepareStart
  <2>4. AcknowledgedWasCommitted'
    BY <1>2, SettledCommitted DEF PrepareStart, Resolves, native
  <2> QED
    BY <1>0, <1>2, <2>2, <2>3, <2>4
    DEF PrepareStart, CommittedInv, PatchCommitted, ReportsCommitted,
        BasesCommitted, Committed, native
<1>3. CASE PrepareCached
  <2>1. PICK supplied \in BOOLEAN, mode \in Mode, current \in Graph, desired \in Graph :
          LET prep == Preparation(mem', supplied, mode, current, desired, None)
          IN  /\ PlanExists(prep, cached)
              /\ receipts' = Stored(ReceiptFor(prep, cached))
    BY <1>3 DEF PrepareCached
  <2> DEFINE prep == Preparation(mem', supplied, mode, current, desired, None)
  <2>2. prep.current = current /\ prep.desired = desired /\ prep.mergeBase \in Graph
    BY <1>0, PreparationType DEF TypeOK
  <2>3. cached \in Snapshot /\ Committed(cached.revision)
    BY <1>0, <1>3 DEF PrepareCached, TypeOK, CommittedInv, ReportsCommitted
  <2>4. prep.current \in held
    BY <2>1, <2>3 DEF PlanExists, Committed
  <2>5. \A r \in Range(receipts') : r.base \in held
    BY <2>1, <2>2, <2>3, <2>4, ReceiptsCommitted
  <2>6. AcknowledgedWasCommitted'
    BY <1>3, SettledCommitted DEF PrepareCached, Resolves, native
  <2>7. AnswersMatch'
    BY <1>3, NothingNewMatches DEF PrepareCached, wire
  <2> QED
    BY <1>0, <1>3, <2>5, <2>6, <2>7
    DEF PrepareCached, CommittedInv, PatchCommitted, ReportsCommitted,
        BasesCommitted, Committed, wire, native
<1>4. ASSUME NEW i \in DOMAIN receipts
      PROVE  ApplyForOtherCatalog(i) \/ ApplyStale(i) \/ ApplyReceipt(i) => CommittedInv'
  <2>1. \A r \in Range(RemoveAt(receipts, i)) : r.base \in held
    BY <1>0, RemoveReceipt DEF TypeOK, CommittedInv, BasesCommitted
  <2>2. CASE ApplyForOtherCatalog(i)
    <3>1. AnswersMatch'
      BY <2>2, NothingNewMatches DEF ApplyForOtherCatalog, wire
    <3> QED
      BY <1>0, <2>1, <2>2, <3>1
      DEF ApplyForOtherCatalog, CommittedInv, PatchCommitted, ReportsCommitted,
          BasesCommitted, AcknowledgedWasCommitted, Committed, wire, native
  <2>3. CASE ApplyStale(i)
    <3>1. AnswersMatch'
      BY <2>3, NothingNewMatches DEF ApplyStale, wire
    <3>2. AcknowledgedWasCommitted'
      <4>1. CASE UNCHANGED <<mem, disk>>
        BY <2>3, <4>1 DEF ApplyStale, CommittedInv, AcknowledgedWasCommitted, native
      <4>2. CASE Resolvable /\ mem' = Resolved
                 /\ disk' = IF mem.pending = None THEN disk ELSE Persisted(mem')
        BY <2>3, <4>2, SettledCommitted DEF ApplyStale, native
      <4> QED
        BY <2>3, <4>1, <4>2 DEF ApplyStale
    <3> QED
      BY <1>0, <2>1, <2>3, <3>1, <3>2
      DEF ApplyStale, CommittedInv, PatchCommitted, ReportsCommitted,
          BasesCommitted, Committed, wire, native
  <2>4. CASE ApplyReceipt(i)
    <3> DEFINE r == receipts[i]
               record == [base |-> r.base, next |-> r.next, intent |-> r.intent,
                          superseded |-> FALSE]
               request(id) ==
                 [type |-> "apply", id |-> id, base |-> r.base, next |-> r.next,
                  from |-> r.from, to |-> r.next, mergeBase |-> r.mergeBase,
                  token |-> r.token]
    <3>1. r \in Receipt /\ r.base \in held
      BY <1>0, LenProperties, ElementOfSeq
      DEF TypeOK, CommittedInv, BasesCommitted, Range
    <3>2. AcknowledgedWasCommitted'
      <4>1. mem' = [Resolved EXCEPT !.pending = record] /\ disk' = Persisted(mem')
        BY <2>4 DEF ApplyReceipt
      <4>2. StateCommitted(Resolved) /\ Resolved \in State
        BY <1>0, <2>4, ResolvedCommitted, ResolvedType DEF ApplyReceipt, Resolves
      <4>3. mem'.managed = Resolved.managed /\ mem'.pending = record
        BY <4>1, <4>2 DEF State
      <4>4. StateCommitted(mem')
        BY <3>1, <4>2, <4>3 DEF StateCommitted
      <4> QED
        BY <2>4, <4>1, <4>4, SavedCommitted DEF ApplyReceipt, native
    <3>3. AnswersMatch' /\ (flight' = flight \/ flight'.pc = "applying")
      <4>1. CASE UNCHANGED <<flight, toMax>>
        BY <2>4, <4>1, NothingNewMatches DEF ApplyReceipt
      <4>2. CASE \E id \in FreshId :
                   /\ flight' = [pc |-> "applying", id |-> id, next |-> r.next,
                                 intent |-> r.intent]
                   /\ Send(request(id))
        <5>1. PICK id \in FreshId :
                /\ flight' = [pc |-> "applying", id |-> id, next |-> r.next,
                              intent |-> r.intent]
                /\ Send(request(id))
          BY <4>2
        <5>2. request(id) \in Request
          BY <3>1, FreshIdIsFresh DEF Receipt, Request
        <5>3. /\ request(id).id = id /\ request(id).next = r.next
              /\ flight'.id = id /\ flight'.pc = "applying" /\ flight'.next = r.next
              /\ fromMax' = fromMax
          BY <2>4, <5>1 DEF ApplyReceipt
        <5> HIDE DEF request
        <5> QED
          BY <1>0, <5>1, <5>2, <5>3, PlanMatches
      <4> QED
        BY <2>4, <4>1, <4>2 DEF ApplyReceipt
    <3> QED
      BY <1>0, <2>1, <2>4, <3>2, <3>3
      DEF ApplyReceipt, CommittedInv, PatchCommitted, ReportsCommitted,
          BasesCommitted, Committed, native
  <2> QED
    BY <2>2, <2>3, <2>4
<1>5. CASE InspectStart
  <2>1. PICK id \in FreshId, pc \in {"inspecting", "looking"} :
          flight' = [pc |-> pc, id |-> id] /\ Send(Inspect(id))
    BY <1>5 DEF InspectStart
  <2>2. AnswersMatch'
    BY <1>0, <1>5, <2>1, InspectMatches DEF InspectStart
  <2> QED
    BY <1>0, <1>5, <2>1, <2>2
    DEF InspectStart, CommittedInv, PatchCommitted, ReportsCommitted,
        BasesCommitted, AcknowledgedWasCommitted, Committed, service, native
<1>6. CASE ReviewStart
  <2>1. PICK id \in FreshId :
          flight' = [pc |-> "looking", id |-> id] /\ Send(Inspect(id))
    BY <1>6 DEF ReviewStart
  <2>2. AnswersMatch'
    BY <1>0, <1>6, <2>1, InspectMatches DEF ReviewStart
  <2>3. AcknowledgedWasCommitted'
    BY <1>6, SettledCommitted DEF ReviewStart, Resolves, native
  <2> QED
    BY <1>0, <1>6, <2>1, <2>2, <2>3
    DEF ReviewStart, CommittedInv, PatchCommitted, ReportsCommitted,
        BasesCommitted, Committed, native
<1>7. CASE AdoptStart
  <2>1. PICK id \in FreshId :
          /\ flight' = [pc |-> "adopting", id |-> id, current |-> mem'.managed]
          /\ Send(Inspect(id))
    BY <1>7 DEF AdoptStart
  <2>2. AnswersMatch'
    BY <1>0, <1>7, <2>1, InspectMatches DEF AdoptStart
  <2>3. AcknowledgedWasCommitted'
    BY <1>7, SettledCommitted DEF AdoptStart, Resolves, native
  <2>4. flight'.pc = "adopting" /\ flight'.current \in held
    BY <1>7, <2>1, ResolvedCommitted DEF AdoptStart, Resolves, StateCommitted
  <2> QED
    BY <1>0, <1>7, <2>2, <2>3, <2>4
    DEF AdoptStart, CommittedInv, PatchCommitted, ReportsCommitted,
        BasesCommitted, Committed, native
<1>8. CASE RecoverStart
  <2>1. PICK id \in FreshId :
          /\ flight' = [pc |-> "recovering", id |-> id, live |-> registry]
          /\ Send(Inspect(id))
    BY <1>8 DEF RecoverStart
  <2>2. AnswersMatch'
    BY <1>0, <1>8, <2>1, InspectMatches DEF RecoverStart
  <2>3. registry \in held
    BY <1>8
    DEF RecoverStart, Admits, CommittedInv, ReportsCommitted, Committed, RevisionOf
  <2> QED
    BY <1>0, <1>8, <2>1, <2>2, <2>3
    DEF RecoverStart, CommittedInv, PatchCommitted, ReportsCommitted,
        BasesCommitted, AcknowledgedWasCommitted, Committed, service, native
<1>9. CASE BridgeRegisters
  <2>1. /\ Head(fromMax) \in Range(fromMax) /\ Range(fromMax') \subseteq Range(fromMax)
        /\ Head(fromMax).type = "registered"
    BY <1>0, <1>9, ReceiveRange DEF BridgeRegisters, Receive
  <2>2. Committed(registry')
    BY <1>9, <2>1 DEF BridgeRegisters, CommittedInv, ReportsCommitted
  <2>3. AnswersMatch'
    BY <1>9, <2>1, NothingNewMatches DEF BridgeRegisters
  <2> QED
    BY <1>0, <1>9, <2>1, <2>2, <2>3
    DEF BridgeRegisters, CommittedInv, PatchCommitted, ReportsCommitted,
        BasesCommitted, AcknowledgedWasCommitted, Committed, service, native
<1>10. CASE BridgeIgnores
  <2>1. Range(fromMax') \subseteq Range(fromMax)
    BY <1>0, <1>10, ReceiveRange DEF BridgeIgnores
  <2>2. AnswersMatch'
    BY <1>10, <2>1, NothingNewMatches DEF BridgeIgnores
  <2> QED
    BY <1>0, <1>10, <2>1, <2>2
    DEF BridgeIgnores, CommittedInv, PatchCommitted, ReportsCommitted,
        BasesCommitted, AcknowledgedWasCommitted, Committed, service, native
<1>11. CASE InspectionArrives
  <2>1. /\ Committed(registry') /\ Range(fromMax') \subseteq Range(fromMax)
        /\ SnapshotOf(Head(fromMax)).revision = registry'
    BY <1>11, SnapshotCommitted DEF InspectionArrives
  <2>2. AnswersMatch'
    BY <1>11, <2>1, NothingNewMatches DEF InspectionArrives
  <2> QED
    BY <1>0, <1>11, <2>1, <2>2
    DEF InspectionArrives, CommittedInv, PatchCommitted, ReportsCommitted,
        BasesCommitted, AcknowledgedWasCommitted, Committed, native
<1>12. CASE PreparationArrives
  <2>1. /\ Committed(registry') /\ Range(fromMax') \subseteq Range(fromMax)
        /\ cached'.revision = registry' /\ cached' \in Snapshot
        /\ flight \in Flight /\ flight.pc = "preparing"
    BY <1>0, <1>12, SnapshotCommitted, SnapshotType DEF PreparationArrives
  <2>2. AnswersMatch'
    BY <1>12, <2>1, NothingNewMatches DEF PreparationArrives
  <2>3. \A r \in Range(receipts') : r.base \in held
    <3>1. CASE receipts' = receipts
      BY <3>1 DEF CommittedInv, BasesCommitted
    <3>2. CASE /\ PlanExists(flight, cached')
               /\ receipts' = Stored(ReceiptFor(flight, cached'))
      <4>1. flight.current \in held
        BY <2>1, <3>2 DEF PlanExists, Committed
      <4>2. flight.desired \in Graph /\ flight.mergeBase \in Graph
        BY <2>1 DEF Flight
      <4> QED
        BY <2>1, <3>2, <4>1, <4>2, ReceiptsCommitted
    <3> QED
      BY <1>12, <3>1, <3>2 DEF PreparationArrives
  <2> QED
    BY <1>0, <1>12, <2>1, <2>2, <2>3
    DEF PreparationArrives, CommittedInv, PatchCommitted, ReportsCommitted,
        BasesCommitted, AcknowledgedWasCommitted, Committed, native
<1>13. CASE AdoptionArrives
  <2>1. /\ Committed(registry') /\ Range(fromMax') \subseteq Range(fromMax)
        /\ Head(fromMax).live \in Live /\ fromMax' \in Seq(Event)
        /\ flight \in Flight /\ flight.pc = "adopting" /\ flight # None
    BY <1>0, <1>13, SnapshotCommitted, SnapshotType DEF AdoptionArrives, SnapshotArrives, Answer
  <2>2. flight.current \in Graph /\ flight.current \in held
    BY <2>1 DEF Flight, CommittedInv, BasesCommitted, TypeOK
  <2>3. /\ AcknowledgedWasCommitted' /\ AnswersMatch'
        /\ flight' # None => flight'.pc = "rebasing"
    BY <1>13, <2>1, <2>2, AdoptOrRebaseCommitted, GivesUpCommitted
    DEF AdoptionArrives, native
  <2> QED
    BY <1>0, <1>13, <2>1, <2>3
    DEF AdoptionArrives, CommittedInv, PatchCommitted, ReportsCommitted,
        BasesCommitted, Committed, native
<1>14. CASE RecoveryArrives
  <2>1. /\ Committed(registry') /\ Range(fromMax') \subseteq Range(fromMax)
        /\ Head(fromMax).live \in Live /\ fromMax' \in Seq(Event)
        /\ flight \in Flight /\ flight.pc = "recovering" /\ flight # None
    BY <1>0, <1>14, SnapshotCommitted, SnapshotType DEF RecoveryArrives, SnapshotArrives, Answer
  <2>2. flight.live \in Graph /\ flight.live \in held
    BY <2>1 DEF Flight, CommittedInv, BasesCommitted, TypeOK
  <2>3. /\ AcknowledgedWasCommitted' /\ AnswersMatch'
        /\ flight' # None => flight'.pc = "rebasing"
    BY <1>14, <2>1, <2>2, AdoptOrRebaseCommitted, GivesUpCommitted
    DEF RecoveryArrives, native
  <2> QED
    BY <1>0, <1>14, <2>1, <2>3
    DEF RecoveryArrives, CommittedInv, PatchCommitted, ReportsCommitted,
        BasesCommitted, Committed, native
<1>15. CASE ApplyAcknowledged
  <2>1. /\ Committed(registry') /\ Range(fromMax') \subseteq Range(fromMax)
        /\ flight.next \in held
    BY <1>15, AcknowledgementCommitted DEF ApplyAcknowledged
  <2>2. PICK id \in FreshId :
          /\ flight' = [pc |-> "capturing", id |-> id, next |-> flight.next]
          /\ Send(Inspect(id))
    BY <1>15 DEF ApplyAcknowledged
  <2>3. AnswersMatch'
    BY <1>0, <2>1, <2>2, InspectMatches
  <2>4. AcknowledgedWasCommitted'
    <3>1. mem'.managed = flight.next /\ mem'.pending = None
      BY <1>0, <1>15 DEF ApplyAcknowledged, TypeOK, State
    <3>2. StateCommitted(mem')
      BY <2>1, <3>1 DEF StateCommitted
    <3> QED
      BY <1>15, <3>2, SavedCommitted DEF ApplyAcknowledged, native
  <2> QED
    BY <1>0, <1>15, <2>1, <2>2, <2>3, <2>4
    DEF ApplyAcknowledged, CommittedInv, PatchCommitted, ReportsCommitted,
        BasesCommitted, Committed, native
<1>16. CASE RebaseAcknowledged
  <2>1. /\ Committed(registry') /\ Range(fromMax') \subseteq Range(fromMax)
        /\ flight.next \in held
    BY <1>16, AcknowledgementCommitted DEF RebaseAcknowledged
  <2>2. AnswersMatch'
    BY <1>16, <2>1, NothingNewMatches DEF RebaseAcknowledged
  <2>3. AcknowledgedWasCommitted'
    <3>1. StateCommitted(mem')
      BY <1>16, <2>1 DEF RebaseAcknowledged, Adopted, StateCommitted
    <3> QED
      BY <1>16, <3>1, SavedCommitted DEF RebaseAcknowledged, native
  <2> QED
    BY <1>0, <1>16, <2>1, <2>2, <2>3
    DEF RebaseAcknowledged, CommittedInv, PatchCommitted, ReportsCommitted,
        BasesCommitted, Committed, native
<1>17. CASE BaselineArrives
  <2>1. /\ Committed(registry') /\ Range(fromMax') \subseteq Range(fromMax)
        /\ cached'.revision = registry'
    BY <1>17, SnapshotCommitted DEF BaselineArrives
  <2>2. AnswersMatch'
    BY <1>17, <2>1, NothingNewMatches DEF BaselineArrives
  <2>3. AcknowledgedWasCommitted'
    <3>1. mem'.managed = mem.managed /\ mem'.pending = mem.pending
      BY <1>0, <1>17 DEF BaselineArrives, TypeOK, State
    <3>2. StateCommitted(mem')
      BY <1>17, <3>1
      DEF CommittedInv, AcknowledgedWasCommitted, StateCommitted, BaselineArrives, native
    <3> QED
      BY <1>17, <3>2, SavedCommitted DEF BaselineArrives, native
  <2> QED
    BY <1>0, <1>17, <2>1, <2>2, <2>3
    DEF BaselineArrives, CommittedInv, PatchCommitted, ReportsCommitted,
        BasesCommitted, Committed, native
<1>18. CASE ErrorArrives
  <2>1. Range(fromMax') \subseteq Range(fromMax)
    BY <1>0, <1>18, ReceiveRange DEF ErrorArrives, Answer
  <2>2. AcknowledgedWasCommitted' /\ flight' = None
    BY <1>18, FailsCommitted DEF ErrorArrives, native
  <2>3. AnswersMatch'
    BY <2>2 DEF AnswersMatch
  <2> QED
    BY <1>0, <1>18, <2>1, <2>2, <2>3
    DEF ErrorArrives, CommittedInv, PatchCommitted, ReportsCommitted,
        BasesCommitted, Committed, native
<1>19. CASE TimesOut
  <2>1. AcknowledgedWasCommitted' /\ flight' = None
    BY <1>19, FailsCommitted DEF TimesOut, native
  <2>2. AnswersMatch'
    BY <2>1 DEF AnswersMatch
  <2> QED
    BY <1>0, <1>19, <2>1, <2>2
    DEF TimesOut, CommittedInv, PatchCommitted, ReportsCommitted,
        BasesCommitted, Committed, wire, native
<1>20. CASE MaxInspects
  <2>1. /\ Range(toMax') \subseteq Range(toMax)
        /\ Head(toMax) \in Request
    BY <1>0, <1>20, MaxReceivesRange DEF MaxInspects
  <2> DEFINE event == [type |-> "snapshot", id |-> Head(toMax).id,
                       revision |-> max.revision, live |-> max.live]
  <2>2. event \in Event
    BY <1>0, <2>1 DEF TypeOK, Patch, Request, Event
  <2>3. Range(fromMax') \subseteq Range(fromMax) \cup {event}
    BY <1>0, <1>20, <2>2, ReplyRange DEF MaxInspects
  <2>4. event.type = "snapshot" /\ Committed(event.revision)
    BY DEF CommittedInv, PatchCommitted
  <2> HIDE DEF event
  <2>5. AnswersMatch'
    BY <1>20, <2>1, <2>3, <2>4, NothingNewMatches DEF MaxInspects
  <2> QED
    BY <1>0, <1>20, <2>3, <2>4, <2>5
    DEF MaxInspects, CommittedInv, PatchCommitted, ReportsCommitted,
        BasesCommitted, AcknowledgedWasCommitted, Committed, service, native
<1>21. CASE MaxApplies
  <2> DEFINE plan == Head(toMax)
             event == [type |-> "applied", id |-> plan.id, revision |-> plan.next]
  <2>1. /\ Range(toMax') \subseteq Range(toMax) /\ plan \in Range(toMax)
        /\ plan.id \in RequestId /\ plan.next \in Graph
        /\ plan.type = "apply"
    BY <1>0, <1>21, MaxReceivesRange DEF MaxApplies, MaxReceives, Request
  <2>2. event \in Event /\ event.type = "applied" /\ event.id = plan.id
        /\ event.revision = plan.next
    BY <2>1 DEF Event
  <2>3. held' = held \cup {plan.next} /\ max'.revision = plan.next
    BY <1>21 DEF MaxApplies
  <2>4. Range(fromMax') \subseteq Range(fromMax) \cup {event}
    BY <1>0, <1>21, <2>2, ReplyRange DEF MaxApplies
  <2>5. RevisionOf(plan.next) = plan.next
    BY <2>1, NoneAssumption DEF RevisionOf
  <2>6. UNCHANGED <<mem, disk, cached, receipts, registry, flight, saved>>
    BY <1>21 DEF MaxApplies, service
  <2> HIDE DEF event, plan
  <2>7. AnswersMatch'
    BY <2>1, <2>2, <2>4, <2>6 DEF CommittedInv, AnswersMatch, AsksFor
  <2>8. PatchCommitted' /\ ReportsCommitted'
    BY <2>2, <2>3, <2>4, <2>5, <2>6
    DEF CommittedInv, PatchCommitted, ReportsCommitted, Committed
  <2>9. BasesCommitted' /\ AcknowledgedWasCommitted'
    BY <2>3, <2>6 DEF CommittedInv, BasesCommitted, AcknowledgedWasCommitted
  <2> QED
    BY <1>0, <2>7, <2>8, <2>9 DEF CommittedInv
<1>22. CASE MaxRefuses
  <2>1. TellsAnError
    BY <1>0, <1>22, MaxReceivesRange DEF MaxRefuses, TellsAnError
  <2> QED
    BY <1>0, <1>22, <2>1, ErrorCommitted DEF MaxRefuses, service, native
<1>23. CASE MaxFailsHalfway
  <2>1. TellsAnError
    BY <1>0, <1>23, MaxReceivesRange DEF MaxFailsHalfway, TellsAnError
  <2>2. max'.revision = max.revision
    BY <1>0, <1>23 DEF MaxFailsHalfway, TypeOK, Patch
  <2> QED
    BY <1>0, <1>23, <2>1, <2>2, ErrorCommitted DEF MaxFailsHalfway, service
<1>24. CASE PersonEdits
  <2>1. AnswersMatch'
    BY <1>24, NothingNewMatches DEF PersonEdits, wire
  <2>2. max'.revision = max.revision
    BY <1>0, <1>24 DEF PersonEdits, TypeOK, Patch
  <2> QED
    BY <1>0, <1>24, <2>1, <2>2
    DEF PersonEdits, CommittedInv, PatchCommitted, ReportsCommitted,
        BasesCommitted, AcknowledgedWasCommitted, Committed, service, wire
<1>25. CASE PatchSaved
  <2>1. AnswersMatch'
    BY <1>25, NothingNewMatches DEF PatchSaved, wire
  <2> QED
    BY <1>0, <1>25, <2>1
    DEF PatchSaved, CommittedInv, PatchCommitted, ReportsCommitted,
        BasesCommitted, AcknowledgedWasCommitted, Committed, service, wire
<1>26. CASE PatchReopened
  <2>1. AnswersMatch'
    BY <1>26, NothingNewMatches, EmptyRange DEF PatchReopened, MaxEndCloses
  <2> QED
    BY <1>0, <1>26, <2>1
    DEF PatchReopened, CommittedInv, PatchCommitted, ReportsCommitted,
        BasesCommitted, AcknowledgedWasCommitted, Committed, service
<1>27. CASE MaxDisconnects
  <2>1. AnswersMatch'
    BY <1>27, NothingNewMatches, EmptyRange DEF MaxDisconnects, MaxEndCloses
  <2> QED
    BY <1>0, <1>27, <2>1
    DEF MaxDisconnects, CommittedInv, PatchCommitted, ReportsCommitted,
        BasesCommitted, AcknowledgedWasCommitted, Committed, service, native
<1>28. CASE MaxSeesClose
  <2>1. AnswersMatch'
    BY <1>28, NothingNewMatches, EmptyRange DEF MaxSeesClose, MaxEndCloses
  <2> QED
    BY <1>0, <1>28, <2>1
    DEF MaxSeesClose, CommittedInv, PatchCommitted, ReportsCommitted,
        BasesCommitted, AcknowledgedWasCommitted, Committed, service, native
<1>29. CASE MaxConnects
  <2> DEFINE event == [type |-> "registered", revision |-> max.revision]
  <2>1. Range(fromMax') = {event}
    BY <1>29 DEF MaxConnects, Range
  <2>2. event.type = "registered" /\ Committed(event.revision)
    BY DEF CommittedInv, PatchCommitted
  <2> HIDE DEF event
  <2>3. AnswersMatch'
    BY <1>29, <2>1, <2>2, NothingNewMatches DEF MaxConnects
  <2> QED
    BY <1>0, <1>29, <2>1, <2>2, <2>3
    DEF MaxConnects, CommittedInv, PatchCommitted, ReportsCommitted,
        BasesCommitted, AcknowledgedWasCommitted, Committed, service, native
<1>30. CASE BridgeSeesClose
  BY <1>0, <1>30, ForgottenCommitted DEF BridgeSeesClose, BridgeForgets, native
<1>31. CASE BridgeLosesConnection
  BY <1>0, <1>31, ForgottenCommitted DEF BridgeLosesConnection, BridgeForgets, native
<1>32. CASE BrokerRestarts
  <2>1. Range(fromMax') = {} /\ Range(receipts') = {}
    BY <1>32, EmptyRange DEF BrokerRestarts
  <2> QED
    BY <1>0, <1>32, <2>1
    DEF BrokerRestarts, CommittedInv, PatchCommitted, ReportsCommitted,
        BasesCommitted, AnswersMatch, AcknowledgedWasCommitted, Committed, native
<1>33. CASE DiskChanges
  <2>1. AnswersMatch'
    BY <1>33, NothingNewMatches DEF DiskChanges, wire
  <2> QED
    BY <1>0, <1>33, <2>1
    DEF DiskChanges, CommittedInv, PatchCommitted, ReportsCommitted,
        BasesCommitted, AcknowledgedWasCommitted, Committed, wire, native
<1>34. CASE UNCHANGED vars
  BY <1>0, <1>34
  DEF vars, service, wire, native, CommittedInv, PatchCommitted, ReportsCommitted,
      BasesCommitted, AnswersMatch, AsksFor, AcknowledgedWasCommitted, Committed
<1> QED
  BY <1>1, <1>2, <1>3, <1>4, <1>5, <1>6, <1>7, <1>8, <1>9, <1>10, <1>11, <1>12,
     <1>13, <1>14, <1>15, <1>16, <1>17, <1>18, <1>19, <1>20, <1>21, <1>22, <1>23,
     <1>24, <1>25, <1>26, <1>27, <1>28, <1>29, <1>30, <1>31, <1>32, <1>33, <1>34
  DEF Next, Calls, BridgeReceives, MaxHandles, Environment, CloseSeen

LEMMA CommittedInit == Init => CommittedInv
<1> SUFFICES ASSUME Init PROVE CommittedInv
  OBVIOUS
<1>1. TypeOK
  BY TypeInit
<1>2. PatchCommitted
  BY DEF Init, PatchCommitted, Committed, RevisionOf
<1>3. Range(receipts) = {} /\ Range(fromMax) = {}
  BY EmptyRange DEF Init
<1>4. AcknowledgedWasCommitted
  BY DEF Init, NoState, AcknowledgedWasCommitted
<1> QED
  BY <1>1, <1>2, <1>3, <1>4
  DEF Init, CommittedInv, ReportsCommitted, BasesCommitted, AnswersMatch

\* Whatever the service or its file calls acknowledged was committed in Max:
\* for any number of boxes and receipts, with callers that overtake each other
\* and with requests that time out while the plan is still on its way.
THEOREM AcknowledgedIsCommitted == Spec => []AcknowledgedWasCommitted
<1>1. CommittedInv => AcknowledgedWasCommitted
  BY DEF CommittedInv
<1> QED
  BY <1>1, CommittedInit, CommittedStep, PTL DEF Spec

-----------------------------------------------------------------------------
(* RecoveryIsExplicit.  What has to be known of the operations in flight is   *)
(* that the ones which end in a settled record never run over a record that   *)
(* a recovery rewrote.                                                       *)

Superseded == mem.pending # None /\ mem.pending.superseded

ExplicitInv ==
  /\ TypeOK
  /\ flight # None /\ flight.pc \in {"adopting", "applying"} => ~Superseded

\* The record is left alone, or was not superseded and was settled or
\* replaced by one of an apply.
LEMMA ResolvedExplicit ==
  ASSUME TypeOK, Resolvable
  PROVE  /\ ~Superseded
         /\ Resolved \in State
         /\ Resolved.pending = None
<1>1. ~Superseded
  BY DEF Resolvable, Superseded
<1>2. Resolved \in State
  BY ResolvedType
<1>3. Resolved.pending = None
  BY DEF Resolved, TypeOK, State
<1> QED
  BY <1>1, <1>2, <1>3

\* After the observed graph was adopted the slot is free or a rebase has it.
LEMMA AdoptOrRebaseSlot ==
  ASSUME NEW base, NEW live, NEW superseded,
         AdoptOrRebase(base, live, superseded) \/ GivesUp
  PROVE  flight' = None \/ flight'.pc = "rebasing"
<1>1. CASE GivesUp
  BY <1>1 DEF GivesUp
<1>2. CASE AdoptOrRebase(base, live, superseded)
  <2>1. CASE live.managed = base
    BY <1>2, <2>1 DEF AdoptOrRebase
  <2>2. CASE live.managed # base
    <3>1. Rebase(base, live.managed, live, superseded)
      BY <1>2, <2>2 DEF AdoptOrRebase
    <3>2. flight' = None \/ \E id \in FreshId : flight' = [pc |-> "rebasing", id |-> id, next |-> live.managed]
      BY <3>1 DEF Rebase
    <3> QED
      BY <3>2
  <2> QED
    BY <2>1, <2>2
<1> QED
  BY <1>1, <1>2

\* What a step of Next does to a superseded record and to the flight.
LEMMA ExplicitStep ==
  ASSUME ExplicitInv, [Next]_vars
  PROVE  /\ ExplicitInv'
         /\ Superseded /\ mem'.pending = None =>
              RebaseAcknowledged \/ RecoveryArrives \/ BrokerRestarts
<1>0. TypeOK /\ TypeOK'
  BY TypeStep DEF ExplicitInv
<1> DEFINE Goal == /\ flight' # None /\ flight'.pc \in {"adopting", "applying"} => ~Superseded'
                   /\ Superseded /\ mem'.pending = None =>
                        RebaseAcknowledged \/ RecoveryArrives \/ BrokerRestarts
<1> SUFFICES Goal
  BY <1>0 DEF ExplicitInv
<1>1. ASSUME mem' = Resolved, Resolvable  PROVE Goal
  BY <1>0, <1>1, ResolvedExplicit DEF Superseded
<1>2. ASSUME mem'.pending = mem.pending,
             flight' \in {flight, None} \/ flight'.pc \notin {"adopting", "applying"}
      PROVE  Goal
  BY <1>2 DEF ExplicitInv, Superseded
<1>3. CASE RefusedAfterResolve \/ PrepareStart \/ PrepareCached \/ ReviewStart \/ AdoptStart
  BY <1>1, <1>3
  DEF RefusedAfterResolve, PrepareStart, PrepareCached, ReviewStart, AdoptStart, Resolves
<1>4. CASE InspectStart \/ RecoverStart
  BY <1>2, <1>4 DEF InspectStart, RecoverStart, service
<1>5. ASSUME NEW i \in DOMAIN receipts,
             ApplyForOtherCatalog(i) \/ ApplyStale(i) \/ ApplyReceipt(i)
      PROVE  Goal
  <2>1. CASE ApplyForOtherCatalog(i)
    BY <1>2, <2>1 DEF ApplyForOtherCatalog
  <2>2. CASE ApplyStale(i)
    BY <1>1, <1>2, <2>2 DEF ApplyStale
  <2>3. CASE ApplyReceipt(i)
    <3>1. ~Superseded /\ Resolved \in State
      BY <1>0, <2>3, ResolvedExplicit DEF ApplyReceipt, Resolves
    <3>2. mem'.pending = [base |-> receipts[i].base, next |-> receipts[i].next,
                          intent |-> receipts[i].intent, superseded |-> FALSE]
      BY <2>3, <3>1 DEF ApplyReceipt, State
    <3> QED
      BY <3>1, <3>2 DEF Superseded
  <2> QED
    BY <1>5, <2>1, <2>2, <2>3
<1>6. CASE BridgeRegisters \/ BridgeIgnores \/ InspectionArrives \/ PreparationArrives
  BY <1>2, <1>6
  DEF BridgeRegisters, BridgeIgnores, InspectionArrives, PreparationArrives, service
<1>7. CASE AdoptionArrives
  <2>1. ~Superseded
    BY <1>7 DEF AdoptionArrives, SnapshotArrives, Answer, ExplicitInv
  <2>2. flight' = None \/ flight'.pc = "rebasing"
    BY <1>7, AdoptOrRebaseSlot DEF AdoptionArrives
  <2> QED
    BY <2>1, <2>2
<1>8. CASE RecoveryArrives
  <2>1. flight' = None \/ flight'.pc = "rebasing"
    BY <1>8, AdoptOrRebaseSlot DEF RecoveryArrives
  <2> QED
    BY <1>8, <2>1
<1>9. CASE ApplyAcknowledged
  <2>1. ~Superseded
    BY <1>9 DEF ApplyAcknowledged, Acknowledgement, Answer, ExplicitInv
  <2>2. flight'.pc = "capturing"
    BY <1>9 DEF ApplyAcknowledged
  <2> QED
    BY <2>1, <2>2
<1>10. CASE RebaseAcknowledged
  BY <1>10 DEF RebaseAcknowledged
<1>11. CASE BaselineArrives
  <2>1. mem'.pending = mem.pending /\ flight' = None
    BY <1>0, <1>11 DEF BaselineArrives, TypeOK, State
  <2> QED
    BY <1>2, <2>1
<1>12. CASE ErrorArrives \/ TimesOut \/ BridgeSeesClose \/ BridgeLosesConnection
  <2>1. Fails
    BY <1>12 DEF ErrorArrives, TimesOut, BridgeSeesClose, BridgeLosesConnection, BridgeForgets
  <2>2. mem'.pending = mem.pending /\ flight' = None
    BY <1>0, <2>1 DEF Fails, TypeOK, State
  <2> QED
    BY <1>2, <2>2
<1>13. CASE MaxHandles \/ MaxSeesClose \/ MaxConnects
  BY <1>2, <1>13
  DEF MaxHandles, MaxInspects, MaxApplies, MaxRefuses, MaxFailsHalfway, MaxSeesClose,
      MaxConnects, service
<1>14. CASE PersonEdits \/ PatchSaved \/ PatchReopened \/ MaxDisconnects \/ DiskChanges
  BY <1>2, <1>14
  DEF PersonEdits, PatchSaved, PatchReopened, MaxDisconnects, DiskChanges, service
<1>15. CASE BrokerRestarts
  BY <1>15 DEF BrokerRestarts
<1>16. CASE UNCHANGED vars
  BY <1>2, <1>16 DEF vars, service
<1> QED
  BY <1>3, <1>4, <1>5, <1>6, <1>7, <1>8, <1>9, <1>10, <1>11, <1>12, <1>13, <1>14,
     <1>15, <1>16
  DEF Next, Calls, BridgeReceives, Environment, CloseSeen

\* A record that a recovery rewrote is settled by a recovery only, whoever
\* calls meanwhile and whatever times out.
THEOREM RecoveriesAreExplicit == Spec => RecoveryIsExplicit
<1>1. Init => ExplicitInv
  BY TypeInit DEF Init, ExplicitInv
<1>2. ExplicitInv /\ [Next]_vars => ExplicitInv'
  BY ExplicitStep
<1>3. ExplicitInv /\ [Next]_vars =>
        [mem.pending # None /\ mem.pending.superseded /\ mem'.pending = None =>
           RebaseAcknowledged \/ RecoveryArrives \/ BrokerRestarts]_vars
  BY ExplicitStep DEF Superseded
<1> QED
  BY <1>1, <1>2, <1>3, PTL DEF Spec, RecoveryIsExplicit

-----------------------------------------------------------------------------
(* BaselineDescribesManaged, for callers that do not overlap.  Between an     *)
(* acknowledgement and the end of captureBaseline the old baseline stays in   *)
(* memory only; what makes the capture right is that the flight still carries *)
(* the graph that is managed by then.                                        *)

Described(state) == state.baseline \in {None, state.managed}

Capturing == flight # None /\ flight.pc = "capturing"

BaselineInv ==
  /\ TypeOK
  /\ BaselineDescribesManaged
  /\ Capturing => flight.next = mem.managed

\* A state that is described may be saved.
LEMMA PersistedDescribed ==
  ASSUME BaselineInv, Described(mem'), disk' \in {disk, mem', Persisted(mem')}
  PROVE  Described(disk')
BY DEF BaselineInv, BaselineDescribesManaged, Described, Persisted

\* Settling the in-flight record drops the baseline with the graph.
LEMMA ResolvedDescribed ==
  ASSUME BaselineInv, ~Capturing
  PROVE  Described(Resolved)
<1>1. Described(mem) /\ mem \in State
  BY DEF BaselineInv, BaselineDescribesManaged, Described, Capturing, TypeOK
<1> QED
  BY <1>1 DEF Resolved, Described, State

LEMMA AdoptOrRebaseDescribed ==
  ASSUME BaselineInv, Described(mem), NEW base, NEW live, NEW superseded,
         AdoptOrRebase(base, live, superseded) \/ GivesUp
  PROVE  /\ Described(mem')
         /\ disk' \in {disk, mem', Persisted(mem')}
         /\ ~Capturing'
<1>1. CASE GivesUp
  BY <1>1 DEF GivesUp, Described, Capturing
<1>2. CASE AdoptOrRebase(base, live, superseded) /\ live.managed = base
  <2>1. mem' = Adopted(base) /\ disk' = Persisted(mem') /\ flight' = None
    BY <1>2 DEF AdoptOrRebase
  <2> QED
    BY <2>1 DEF Adopted, Described, Capturing
<1>3. CASE AdoptOrRebase(base, live, superseded) /\ live.managed # base
  <2>1. Rebase(base, live.managed, live, superseded)
    BY <1>3 DEF AdoptOrRebase
  <2>2. disk' = Persisted(mem') /\ (flight' = None \/ flight'.pc = "rebasing")
    BY <1>3, AdoptOrRebaseSlot, <2>1 DEF Rebase
  <2>3. mem'.baseline = mem.baseline /\ mem'.managed = mem.managed
    BY <2>1 DEF Rebase, BaselineInv, TypeOK, State
  <2> QED
    BY <2>2, <2>3 DEF Described, Capturing
<1> QED
  BY <1>1, <1>2, <1>3

LEMMA BaselineStep ==
  ASSUME Concurrent = FALSE, BaselineInv, [Next]_vars
  PROVE  BaselineInv'
<1>0. TypeOK /\ TypeOK' /\ mem \in State /\ disk \in State
  BY TypeStep DEF BaselineInv, TypeOK
<1>a. ~Capturing => Described(mem)
  BY DEF BaselineInv, BaselineDescribesManaged, Described, Capturing
<1>b. Call => ~Capturing
  BY DEF Call, Capturing
\* The three ways a step keeps the invariant: it leaves states and flight
\* alone, it leaves a described state and no capture, or it starts one.
<1>1. ASSUME UNCHANGED <<mem, disk>>, (flight' = flight) \/ (~Capturing /\ ~Capturing')
      PROVE  BaselineInv'
  BY <1>0, <1>1 DEF BaselineInv, BaselineDescribesManaged, Capturing
<1>2. ASSUME Described(mem'), disk' \in {disk, mem', Persisted(mem')}, ~Capturing'
      PROVE  BaselineInv'
  <2>1. Described(disk')
    BY <1>2, PersistedDescribed
  <2> QED
    BY <1>0, <1>2, <2>1 DEF BaselineInv, BaselineDescribesManaged, Described, Capturing
<1>3. ASSUME Call, mem' = Resolved, disk' \in {disk, mem', Persisted(mem')},
             (flight' = flight) \/ (flight'.pc # "capturing")
      PROVE  BaselineInv'
  <2>1. Described(mem')
    BY <1>3, <1>b, ResolvedDescribed
  <2>2. ~Capturing'
    BY <1>3, <1>b DEF Capturing
  <2> QED
    BY <1>2, <1>3, <2>1, <2>2
<1>4. CASE RefusedAfterResolve
  BY <1>3, <1>4 DEF RefusedAfterResolve
<1>5. CASE PrepareStart
  <2>1. flight'.pc = "preparing"
    BY <1>5 DEF PrepareStart, Preparation
  <2> QED
    BY <1>3, <1>5, <2>1 DEF PrepareStart
<1>6. CASE PrepareCached
  BY <1>3, <1>6 DEF PrepareCached, Resolves
<1>7. CASE ReviewStart \/ AdoptStart
  BY <1>3, <1>7 DEF ReviewStart, AdoptStart, Resolves
<1>8. CASE InspectStart \/ RecoverStart
  <2>1. flight'.pc # "capturing" /\ UNCHANGED <<mem, disk>> /\ Call
    BY <1>8 DEF InspectStart, RecoverStart, service
  <2> QED
    BY <1>1, <1>b, <2>1 DEF Capturing
<1>9. ASSUME NEW i \in DOMAIN receipts,
             ApplyForOtherCatalog(i) \/ ApplyStale(i) \/ ApplyReceipt(i)
      PROVE  BaselineInv'
  <2>1. CASE ApplyForOtherCatalog(i)
    BY <1>1, <2>1 DEF ApplyForOtherCatalog
  <2>2. CASE ApplyStale(i)
    BY <1>1, <1>3, <2>2 DEF ApplyStale
  <2>3. CASE ApplyReceipt(i)
    <3>1. Described(Resolved) /\ Resolved \in State
      BY <1>0, <1>b, <2>3, ResolvedDescribed, ResolvedType DEF ApplyReceipt, Resolves
    <3>2. mem'.baseline = Resolved.baseline /\ mem'.managed = Resolved.managed
      BY <2>3, <3>1 DEF ApplyReceipt, State
    <3>3. Described(mem')
      BY <3>1, <3>2 DEF Described
    <3>4. flight' = flight \/ flight'.pc = "applying"
      <4>1. CASE Admits /\ ~diskFull
        <5>1. \E id \in FreshId :
                flight' = [pc |-> "applying", id |-> id, next |-> receipts[i].next,
                           intent |-> receipts[i].intent]
          BY <2>3, <4>1 DEF ApplyReceipt
        <5> QED
          BY <5>1
      <4>2. CASE ~(Admits /\ ~diskFull)
        BY <2>3, <4>2 DEF ApplyReceipt
      <4> QED
        BY <4>1, <4>2
    <3>5. ~Capturing'
      BY <2>3, <3>4, <1>b DEF ApplyReceipt, Capturing
    <3> QED
      BY <1>2, <2>3, <3>3, <3>5 DEF ApplyReceipt
  <2> QED
    BY <1>9, <2>1, <2>2, <2>3
<1>10. CASE BridgeRegisters \/ BridgeIgnores
  BY <1>1, <1>10 DEF BridgeRegisters, BridgeIgnores, service
<1>11. CASE InspectionArrives \/ PreparationArrives
  <2>1. ~Capturing /\ ~Capturing' /\ UNCHANGED <<mem, disk>>
    BY <1>11
    DEF InspectionArrives, PreparationArrives, SnapshotArrives, Answer, Capturing
  <2> QED
    BY <1>1, <2>1
<1>12. CASE AdoptionArrives \/ RecoveryArrives
  <2>1. ~Capturing
    BY <1>12 DEF AdoptionArrives, RecoveryArrives, SnapshotArrives, Answer, Capturing
  <2>2. \E base, live, superseded : AdoptOrRebase(base, live, superseded) \/ GivesUp
    BY <1>12 DEF AdoptionArrives, RecoveryArrives
  <2> QED
    BY <1>2, <1>a, <2>1, <2>2, AdoptOrRebaseDescribed
<1>13. CASE ApplyAcknowledged
  <2>1. mem'.managed = flight.next
    BY <1>0, <1>13 DEF ApplyAcknowledged, State
  <2>2. flight'.pc = "capturing" /\ flight'.next = flight.next
    BY <1>13 DEF ApplyAcknowledged
  <2>3. disk' = disk
    BY <1>13 DEF ApplyAcknowledged
  <2>4. flight' # None
    <3>1. flight \in Flight /\ flight.pc = "applying"
      BY <1>0, <1>13, AnswerType DEF ApplyAcknowledged, Acknowledgement
    <3>2. PICK id \in FreshId :
            flight' = [pc |-> "capturing", id |-> id, next |-> flight.next]
      BY <1>13 DEF ApplyAcknowledged
    <3>3. flight' \in Flight
      BY <3>1, <3>2, FreshIdIsFresh DEF Flight
    <3> QED
      BY <3>3, NoneIsNoRecord
  <2> QED
    BY <1>0, <2>1, <2>2, <2>3, <2>4 DEF BaselineInv, BaselineDescribesManaged, Capturing
<1>14. CASE RebaseAcknowledged
  <2>1. Described(mem') /\ ~Capturing'
    BY <1>14 DEF RebaseAcknowledged, Adopted, Described, Capturing
  <2> QED
    BY <1>2, <1>14, <2>1 DEF RebaseAcknowledged
<1>15. CASE BaselineArrives
  <2>1. flight.next = mem.managed
    BY <1>15 DEF BaselineArrives, SnapshotArrives, Answer, BaselineInv, Capturing
  <2>2. Described(mem') /\ ~Capturing'
    BY <1>0, <1>15, <2>1 DEF BaselineArrives, Described, Capturing, State
  <2> QED
    BY <1>2, <1>15, <2>2 DEF BaselineArrives
<1>16. CASE ErrorArrives \/ TimesOut \/ BridgeSeesClose \/ BridgeLosesConnection
  <2>1. Fails
    BY <1>16 DEF ErrorArrives, TimesOut, BridgeSeesClose, BridgeLosesConnection, BridgeForgets
  <2>2. CASE Capturing
    <3>1. Described(mem') /\ disk' = Persisted(mem') /\ ~Capturing'
      BY <1>0, <2>1, <2>2 DEF Fails, Described, Capturing, State
    <3> QED
      BY <1>2, <3>1
  <2>3. CASE ~Capturing
    BY <1>1, <2>1, <2>3 DEF Fails, Capturing
  <2> QED
    BY <2>2, <2>3
<1>17. CASE MaxHandles \/ MaxSeesClose \/ MaxConnects
  BY <1>1, <1>17
  DEF MaxHandles, MaxInspects, MaxApplies, MaxRefuses, MaxFailsHalfway, MaxSeesClose,
      MaxConnects, service
<1>18. CASE PersonEdits \/ PatchSaved \/ PatchReopened \/ MaxDisconnects \/ DiskChanges
  BY <1>1, <1>18
  DEF PersonEdits, PatchSaved, PatchReopened, MaxDisconnects, DiskChanges, service
<1>19. CASE BrokerRestarts
  <2>1. Described(mem') /\ disk' = disk /\ ~Capturing'
    BY <1>19
    DEF BrokerRestarts, BaselineInv, BaselineDescribesManaged, Described, Capturing
  <2> QED
    BY <1>2, <2>1
<1>20. CASE UNCHANGED vars
  BY <1>1, <1>20 DEF vars, service
<1> QED
  BY <1>4, <1>5, <1>6, <1>7, <1>8, <1>9, <1>10, <1>11, <1>12, <1>13, <1>14, <1>15,
     <1>16, <1>17, <1>18, <1>19, <1>20
  DEF Next, Calls, BridgeReceives, Environment, CloseSeen

\* When callers do not overlap, a baseline is only ever the graph it was
\* captured for, in memory and on disk: whatever fails, times out or restarts.
THEOREM BaselinesDescribe ==
  ASSUME Concurrent = FALSE
  PROVE  Spec => []BaselineDescribesManaged
<1>1. Init => BaselineInv
  BY TypeInit DEF Init, NoState, BaselineInv, BaselineDescribesManaged, Capturing
<1>2. BaselineInv /\ [Next]_vars => BaselineInv'
  BY BaselineStep
<1>3. BaselineInv => BaselineDescribesManaged
  BY DEF BaselineInv
<1> QED
  BY <1>1, <1>2, <1>3, PTL DEF Spec

-----------------------------------------------------------------------------
(* RevisionRecoverable, for callers that do not overlap and requests that do  *)
(* not time out while their connection is alive.  Then the request slot, the  *)
(* wire and the registration go through a fixed conversation: at most one     *)
(* message is under way, what the bridge was last told is current unless an   *)
(* acknowledgement is still to come, and while a plan may yet be committed    *)
(* the in-flight record on disk names its target.                             *)

PlanPcs == {"applying", "rebasing"}

\* A reported revision is the patch's, unless Max has closed the connection and
\* the patch was opened again from its file.
Current(revision) ==
  \/ RevisionOf(max.revision) = RevisionOf(revision)
  \/ link = "closedByMax" /\ max.revision = saved.revision

\* The in-flight record names this outcome, in memory and on disk.
Recorded(next) ==
  \A state \in {mem, disk} : state.pending # None /\ state.pending.next = next

Quiet == toMax = <<>> /\ fromMax = <<>>

Unregistered == registry = None /\ flight = None

Down == link = "down" /\ Unregistered /\ Quiet

\* The bridge has let go; the last request may still be handled.
Leaving ==
  /\ link = "closedByBridge" /\ Unregistered /\ fromMax = <<>>
  /\ toMax # <<>> => \E q \in Range(toMax) :
       /\ toMax = <<q>>
       /\ q.type = "apply" => Recorded(q.next)

Joining ==
  /\ link \in {"open", "closedByMax"} /\ Unregistered /\ toMax = <<>>
  /\ \E e \in Range(fromMax) :
       fromMax = <<e>> /\ e.type = "registered" /\ Current(e.revision)

Idle ==
  /\ link \in {"open", "closedByMax"} /\ registry # None /\ flight = None /\ Quiet
  /\ Current(registry)

\* The request of the flight is on its way.
Asked ==
  /\ link = "open" /\ registry # None /\ flight # None /\ fromMax = <<>>
  /\ Current(registry)
  /\ \E q \in Range(toMax) :
       /\ toMax = <<q>> /\ q.id = flight.id
       /\ q.type = "apply" => flight.pc \in PlanPcs /\ q.next = flight.next
       /\ q.type = "inspect" => flight.pc \notin PlanPcs

\* Its answer is on the way back.
Answered ==
  /\ link \in {"open", "closedByMax"} /\ registry # None /\ flight # None
  /\ toMax = <<>>
  /\ \E e \in Range(fromMax) :
       /\ fromMax = <<e>> /\ e.type # "registered"
       /\ e.id = flight.id
       /\ e.type = "applied" => /\ flight.pc \in PlanPcs /\ e.revision = flight.next
                                /\ Current(e.revision)
       /\ e.type = "snapshot" => /\ flight.pc \notin PlanPcs
                                 /\ Current(e.revision) /\ Current(registry)
       /\ e.type = "error" => Current(registry)

\* The request or its answer will never arrive.
Lost ==
  link = "closedByMax" /\ registry # None /\ flight # None /\ Quiet

Conversation == Down \/ Leaving \/ Joining \/ Idle \/ Asked \/ Answered \/ Lost

Graph0(state) == IF state.managed = None THEN EmptyGraph ELSE state.managed

\* A record rewritten by a recovery says that Max was at its base; another one
\* only repeats it.
Explains(state) ==
  \/ RevisionOf(max.revision) \in {RevisionOf(saved.revision), Graph0(state)}
  \/ /\ state.pending # None
     /\ \/ RevisionOf(max.revision) = state.pending.next
        \/ state.pending.superseded /\ RevisionOf(max.revision) = state.pending.base

FlightRecorded ==
  flight # None =>
    /\ flight.pc \in PlanPcs => Recorded(flight.next)
    /\ flight.pc = "adopting" => flight.current = mem.managed

RecoverableInv ==
  /\ TypeOK
  /\ Conversation
  /\ FlightRecorded
  /\ Explains(mem) /\ Explains(disk)

\* A queue of one message.
LEMMA OneMessage ==
  ASSUME NEW S, NEW m \in S
  PROVE  /\ <<m>> \in Seq(S) /\ <<m>> # <<>>
         /\ Head(<<m>>) = m /\ Tail(<<m>>) = <<>>
         /\ Append(<<>>, m) = <<m>>
         /\ Range(<<m>>) = {m}
<1>1. <<m>> \in Seq(S) /\ <<m>> # <<>> /\ Head(<<m>>) = m /\ Tail(<<m>>) = <<>>
  OBVIOUS
<1>2. Append(<<>>, m) = <<m>>
  OBVIOUS
<1>3. Range(<<m>>) = {m}
  BY DEF Range
<1> QED
  BY <1>1, <1>2, <1>3

\* What is on the wire is a request or an event.
LEMMA OnTheWire ==
  ASSUME TypeOK
  PROVE  Range(toMax) \subseteq Request /\ Range(fromMax) \subseteq Event
BY DEF TypeOK, Range

\* With the slot free, a registered bridge is idle.
LEMMA FreeSlot ==
  ASSUME Conversation, flight = None, registry # None
  PROVE  Idle
BY DEF Conversation, Down, Leaving, Unregistered, Joining, Idle, Asked, Answered, Lost

\* A request that is sent with nothing on the wire is the flight's, or lost.
LEMMA SendingConverses ==
  ASSUME toMax = <<>>, link \in {"open", "closedByMax"}, link' = link,
         NEW request \in Request, Send(request), fromMax' = <<>>,
         flight' # None, registry' # None, Current(registry)',
         request.id = flight'.id,
         request.type = "apply" => flight'.pc \in PlanPcs /\ request.next = flight'.next,
         request.type = "inspect" => flight'.pc \notin PlanPcs
  PROVE  Conversation'
<1>1. CASE link = "open"
  <2>1. toMax' = <<request>> /\ Range(toMax') = {request}
    BY <1>1, OneMessage DEF Send
  <2>2. Asked'
    BY <1>1, <2>1 DEF Asked
  <2> QED
    BY <2>2 DEF Conversation
<1>2. CASE link = "closedByMax"
  <2>1. toMax' = <<>>
    BY <1>2 DEF Send
  <2> QED
    BY <1>2, <2>1 DEF Conversation, Lost, Quiet
<1> QED
  BY <1>1, <1>2

\* An inspection is sent for an operation that is not a plan.
LEMMA InspectConverses ==
  ASSUME toMax = <<>>, link \in {"open", "closedByMax"}, link' = link,
         NEW id \in FreshId, Send(Inspect(id)), fromMax' = <<>>,
         flight' # None, registry' # None, Current(registry)',
         flight'.id = id, flight'.pc \notin PlanPcs
  PROVE  Conversation'
<1>1. Inspect(id) \in Request /\ Inspect(id).type = "inspect" /\ Inspect(id).id = id
  BY FreshIdIsFresh DEF Inspect, Request
<1> QED
  BY <1>1, SendingConverses

\* The answer that an operation takes is the only message on the wire.
LEMMA AnswerConverses ==
  ASSUME TypeOK, Conversation, NEW type \in {"applied", "snapshot", "error"}, NEW pcs,
         Answer(type, pcs)
  PROVE  /\ link \in {"open", "closedByMax"} /\ registry # None
         /\ toMax = <<>> /\ fromMax' = <<>>
         /\ type = "applied" => /\ flight.pc \in PlanPcs
                                /\ Head(fromMax).revision = flight.next
                                /\ Current(Head(fromMax).revision)
         /\ type = "snapshot" => /\ flight.pc \notin PlanPcs
                                 /\ Current(Head(fromMax).revision)
         /\ type = "error" => Current(registry)
<1>1. fromMax # <<>> /\ flight # None /\ Head(fromMax).type = type
      /\ fromMax' = Tail(fromMax)
  BY DEF Answer, Receive
<1>2. Answered
  BY <1>1
  DEF Conversation, Down, Leaving, Unregistered, Joining, Idle, Asked, Lost, Quiet
<1>3. PICK e \in Range(fromMax) : 
       /\ fromMax = <<e>>
       /\ e.type = "applied" => /\ flight.pc \in PlanPcs /\ e.revision = flight.next
                                /\ Current(e.revision)
       /\ e.type = "snapshot" => /\ flight.pc \notin PlanPcs
                                 /\ Current(e.revision) /\ Current(registry)
       /\ e.type = "error" => Current(registry)
  BY <1>2 DEF Answered
<1>4. Head(fromMax) = e /\ Tail(fromMax) = <<>>
  BY <1>3, OneMessage
<1> QED
  BY <1>1, <1>2, <1>3, <1>4 DEF Answered

\* The request that Max handles is the only message on the wire.
LEMMA HandlingConverses ==
  ASSUME TypeOK, Conversation, NEW type \in {"inspect", "apply"}, MaxReceives(type)
  PROVE  /\ toMax' = <<>> /\ fromMax = <<>>
         /\ Head(toMax) \in Request /\ Head(toMax).type = type
         /\ \/ /\ Asked /\ link = "open" /\ Head(toMax).id = flight.id
               /\ type = "apply" => /\ flight.pc \in PlanPcs
                                    /\ Head(toMax).next = flight.next
               /\ type = "inspect" => flight.pc \notin PlanPcs
            \/ /\ Leaving /\ link = "closedByBridge"
               /\ type = "apply" => Recorded(Head(toMax).next)
<1>1. toMax # <<>> /\ Head(toMax).type = type /\ toMax' = Tail(toMax)
  BY DEF MaxReceives
<1>2. Asked \/ Leaving
  BY <1>1 DEF Conversation, Down, Joining, Idle, Answered, Lost, Quiet
<1>3. CASE Asked
  <2>1. PICK q \in Range(toMax) :
       /\ toMax = <<q>> /\ q.id = flight.id
       /\ q.type = "apply" => flight.pc \in PlanPcs /\ q.next = flight.next
       /\ q.type = "inspect" => flight.pc \notin PlanPcs
    BY <1>3 DEF Asked
  <2>2. Head(toMax) = q /\ Tail(toMax) = <<>> /\ q \in Request
    BY <2>1, OneMessage, OnTheWire
  <2>3. fromMax = <<>> /\ link = "open" /\ toMax' = <<>>
    BY <1>1, <1>3, <2>2 DEF Asked
  <2> QED
    BY <1>1, <1>3, <2>1, <2>2, <2>3
<1>4. CASE Leaving
  <2>1. PICK q \in Range(toMax) :
          toMax = <<q>> /\ (q.type = "apply" => Recorded(q.next))
    BY <1>1, <1>4 DEF Leaving
  <2>2. Head(toMax) = q /\ Tail(toMax) = <<>> /\ q \in Request
    BY <2>1, OneMessage, OnTheWire
  <2> QED
    BY <1>1, <1>4, <2>1, <2>2 DEF Leaving
<1> QED
  BY <1>2, <1>3, <1>4

\* A conversation goes on unless what was reported is no longer current.
LEMMA SameConversation ==
  ASSUME TypeOK, Conversation, UNCHANGED <<mem, disk, registry, flight, wire>>,
         \A revision \in Revision : Current(revision) => Current(revision)'
  PROVE  Conversation'
<1>1. \A e \in Range(fromMax) :
        e.type # "error" /\ Current(e.revision) => Current(e.revision)'
  <2>1. \A e \in Range(fromMax) : e.type # "error" => e.revision \in Revision
    BY OnTheWire DEF Event, Revision
  <2> QED
    BY <2>1
<1>2. registry # None /\ Current(registry) => Current(registry)'
  BY DEF TypeOK
<1>3. Down \/ Leaving => Conversation'
  BY DEF Down, Leaving, Recorded, Unregistered, Quiet, wire, Conversation
<1>4. Joining => Joining'
  BY <1>1 DEF Joining, Unregistered, wire
<1>5. Idle => Idle'
  BY <1>2 DEF Idle, Quiet, wire
<1>6. Asked => Asked'
  BY <1>2 DEF Asked, wire
<1>7. Answered => Answered'
  BY <1>1, <1>2 DEF Answered, wire
<1>8. Lost => Lost'
  BY DEF Lost, Quiet, wire
<1> QED
  BY <1>3, <1>4, <1>5, <1>6, <1>7, <1>8 DEF Conversation

\* Max's end goes: what it had not handled is lost, what it said is current or
\* the patch is the one that was saved.
LEMMA ClosingConverses ==
  ASSUME Conversation, MaxEndCloses, UNCHANGED <<mem, disk, registry, flight, fromMax, saved>>,
         max' \in {max, saved}
  PROVE  Conversation'
<1>1. link \in {"open", "closedByMax"} =>
        /\ link' = "closedByMax" /\ toMax' = <<>>
        /\ \A revision : Current(revision) => Current(revision)'
  BY DEF MaxEndCloses, Current
<1>2. CASE Down
  BY <1>2 DEF Down, MaxEndCloses, Unregistered, Quiet, Conversation
<1>3. CASE Leaving
  BY <1>3 DEF Leaving, Down, MaxEndCloses, Unregistered, Quiet, Conversation
<1>4. CASE Joining
  <2>1. Joining'
    BY <1>1, <1>4 DEF Joining, Unregistered
  <2> QED
    BY <2>1 DEF Conversation
<1>5. CASE Idle
  BY <1>1, <1>5 DEF Idle, Quiet, Conversation
<1>6. CASE Asked
  BY <1>1, <1>6 DEF Asked, Lost, Quiet, Conversation
<1>7. CASE Answered
  <2>1. Answered'
    BY <1>1, <1>7 DEF Answered
  <2> QED
    BY <2>1 DEF Conversation
<1>8. CASE Lost
  BY <1>1, <1>8 DEF Lost, Quiet, Conversation
<1> QED
  BY <1>2, <1>3, <1>4, <1>5, <1>6, <1>7, <1>8 DEF Conversation

\* The record is settled in favour of a revision that is current.
LEMMA SettledExplains ==
  ASSUME TypeOK, Explains(mem), Resolvable,
         mem.pending # None => Current(registry)
  PROVE  Explains(Resolved)
<1> USE DEF Explains, Graph0
<1>1. CASE mem.pending = None
  BY <1>1 DEF Resolved
<1>2. CASE mem.pending # None /\ RevisionOf(registry) = mem.pending.next
  <2>1. mem.pending.next # None
    BY <1>2, NoneAssumption DEF TypeOK, State, Pending
  <2> QED
    BY <1>2, <2>1 DEF Resolved, Current
<1>3. CASE mem.pending # None /\ RevisionOf(registry) # mem.pending.next
  <2>1. Resolved.managed = mem.managed
    BY <1>3 DEF Resolved, TypeOK, State
  <2> QED
    BY <1>3, <2>1 DEF Resolvable, Current
<1> QED
  BY <1>1, <1>2, <1>3

LEMMA PersistedExplains ==
  ASSUME Explains(disk), NEW state, Explains(state)
  PROVE  Explains(Persisted(state))
BY DEF Persisted

\* The graph that is current explains the patch when it is managed.
LEMMA CurrentExplains ==
  ASSUME NEW graph \in Graph, NEW state, Current(graph), state.managed = graph
  PROVE  Explains(state)
BY NoneAssumption DEF Explains, Graph0, Current, RevisionOf

\* What adopting and recovering leave behind.
LEMMA AdoptOrRebaseConverses ==
  ASSUME TypeOK, Explains(disk), NEW base \in Graph, NEW live \in Live,
         NEW superseded \in BOOLEAN,
         AdoptOrRebase(base, live, superseded),
         toMax = <<>>, fromMax' = <<>>, link \in {"open", "closedByMax"},
         UNCHANGED <<link, max, saved>>, registry' # None, Current(registry'),
         Current(base), superseded \/ base = mem.managed
  PROVE  /\ Conversation' /\ FlightRecorded'
         /\ Explains(mem') /\ Explains(disk')
<1>1. Current(registry)'
  BY DEF Current
<1>2. CASE live.managed = base
  <2>1. mem' = Adopted(base) /\ disk' = Persisted(mem') /\ flight' = None /\ toMax' = toMax
    BY <1>2 DEF AdoptOrRebase
  <2>2. Explains(mem')
    BY <2>1, CurrentExplains DEF Adopted
  <2>3. Idle'
    BY <1>1, <2>1 DEF Idle, Quiet
  <2> QED
    BY <2>1, <2>2, <2>3, PersistedExplains DEF Conversation, FlightRecorded
<1>3. CASE live.managed # base
  <2> DEFINE observed == live.managed
  <2>1. Rebase(base, observed, live, superseded)
    BY <1>3 DEF AdoptOrRebase
  <2>2. observed \in Graph
    BY DEF Live
  <2>3. /\ mem'.managed = mem.managed
        /\ mem'.pending = [base |-> base, next |-> observed, intent |-> observed,
                           superseded |-> superseded]
        /\ disk' = Persisted(mem')
    BY <2>1 DEF Rebase, TypeOK, State
  <2>4. mem'.pending # None
    BY <2>2, <2>3, NoneIsNoRecord DEF Pending
  <2>5. Explains(mem')
    <3>1. RevisionOf(max.revision) \in {RevisionOf(saved.revision), base}
      BY NoneAssumption DEF Current, RevisionOf
    <3>2. base # None
      BY NoneAssumption
    <3> QED
      BY <2>3, <2>4, <3>1, <3>2 DEF Explains, Graph0
  <2>6. CASE diskFull
    <3>1. flight' = None /\ toMax' = toMax
      BY <2>1, <2>6 DEF Rebase
    <3>2. Idle'
      BY <1>1, <3>1 DEF Idle, Quiet
    <3> QED
      BY <2>3, <2>5, <3>1, <3>2, PersistedExplains DEF Conversation, FlightRecorded
  <2>7. CASE ~diskFull
    <3> DEFINE request(id) ==
                 [type |-> "apply", id |-> id, base |-> base, next |-> observed,
                  from |-> observed, to |-> observed, mergeBase |-> observed,
                  token |-> live]
    <3>1. PICK id \in FreshId :
            /\ flight' = [pc |-> "rebasing", id |-> id, next |-> observed]
            /\ Send(request(id))
      BY <2>1, <2>7 DEF Rebase
    <3>2. flight' \in Flight /\ request(id) \in Request
      BY <2>2, <3>1, FreshIdIsFresh DEF Flight, Request
    <3>3. /\ flight' # None /\ flight'.pc = "rebasing" /\ flight'.id = id
          /\ flight'.next = observed
          /\ request(id).id = id /\ request(id).type = "apply"
          /\ request(id).next = observed
      BY <3>1, <3>2, NoneIsNoRecord
    <3> HIDE DEF request, observed
    <3>4. Conversation'
      BY <1>1, <3>1, <3>2, <3>3, SendingConverses DEF PlanPcs
    <3>5. Recorded(observed)'
      BY <2>3, <2>4, <2>7 DEF Recorded, Persisted
    <3>6. FlightRecorded'
      BY <3>3, <3>5 DEF FlightRecorded, Recorded
    <3> QED
      BY <2>3, <2>5, <3>4, <3>6, PersistedExplains
  <2> QED
    BY <2>6, <2>7
<1> QED
  BY <1>2, <1>3

\* One step of callers that do not overlap, with requests that wait.
LEMMA RecoverableStep ==
  ASSUME Concurrent = FALSE, TimersFire = FALSE, RecoverableInv, [Next]_vars
  PROVE  RecoverableInv'
<1>0. /\ TypeOK /\ TypeOK' /\ mem \in State /\ disk \in State
      /\ Conversation /\ FlightRecorded /\ Explains(mem) /\ Explains(disk)
  BY TypeStep DEF RecoverableInv, TypeOK
<1> DEFINE Kept == /\ Conversation' /\ FlightRecorded'
                   /\ Explains(mem)' /\ Explains(disk)'
<1> SUFFICES Kept
  BY <1>0 DEF RecoverableInv
<1>1. ASSUME UNCHANGED <<max, saved>>, Explains(mem'), Explains(disk')
      PROVE  Explains(mem)' /\ Explains(disk)'
  BY <1>1 DEF Explains, Graph0
<1>2. ASSUME UNCHANGED <<max, saved, link>>
      PROVE  \A revision : Current(revision) => Current(revision)'
  BY <1>2 DEF Current
<1>3. ASSUME UNCHANGED <<mem, disk, registry, flight, wire, max, saved>>  PROVE Kept
  <2>1. Conversation'
    BY <1>0, <1>2, <1>3, SameConversation DEF wire
  <2> QED
    BY <1>0, <1>1, <1>3, <2>1 DEF FlightRecorded, Recorded
<1>4. Call => flight = None
  BY DEF Call
\* The record is settled by a call that found the slot free.
<1>5. ASSUME Call, mem' = Resolved, Resolvable, disk' \in {disk, mem', Persisted(mem')},
             UNCHANGED <<max, saved>>
      PROVE  Explains(mem)' /\ Explains(disk)' /\ Explains(Resolved)
  <2>1. mem.pending # None => Idle
    BY <1>0, <1>4, <1>5, FreeSlot DEF Resolvable
  <2>2. Explains(Resolved)
    BY <1>0, <1>5, <2>1, SettledExplains DEF Idle
  <2>3. Explains(disk')
    BY <1>0, <1>5, <2>2, PersistedExplains
  <2> QED
    BY <1>1, <1>5, <2>2, <2>3
<1>6. ASSUME Idle, UNCHANGED <<registry, flight, wire, max, saved>>
      PROVE  Conversation' /\ FlightRecorded'
  <2>1. Idle'
    BY <1>2, <1>6 DEF Idle, Quiet, wire
  <2> QED
    BY <2>1 DEF Conversation, FlightRecorded, Idle
<1>7. Call /\ Admits => Idle /\ toMax = <<>> /\ fromMax = <<>> /\ link \in {"open", "closedByMax"}
  BY <1>0, <1>4, FreeSlot DEF Admits, Idle, Quiet
\* An inspection is sent by a call that got the slot.
<1>8. ASSUME Call, Admits, NEW id \in FreshId, Send(Inspect(id)),
             flight' # None, flight'.id = id, flight'.pc \notin PlanPcs,
             UNCHANGED <<registry, link, fromMax, max, saved>>
      PROVE  Conversation'
  <2>1. Current(registry)' /\ registry' # None
    BY <1>2, <1>7, <1>8 DEF Idle
  <2> QED
    BY <1>7, <1>8, <2>1, InspectConverses
<1>9. flight' \in Flight => flight' # None
  BY NoneIsNoRecord
<1>10. CASE RefusedAfterResolve
  <2>1. Idle
    BY <1>0, <1>4, <1>10, FreeSlot DEF RefusedAfterResolve, Resolvable
  <2>2. Conversation' /\ FlightRecorded'
    BY <1>6, <1>10, <2>1 DEF RefusedAfterResolve, native
  <2> QED
    BY <1>5, <1>10, <2>2 DEF RefusedAfterResolve, native
<1>11. CASE PrepareStart
  <2>1. PICK supplied \in BOOLEAN, mode \in Mode, current \in Graph,
             desired \in Graph, id \in FreshId :
          /\ flight' = Preparation(mem', supplied, mode, current, desired, id)
          /\ Send(Inspect(id))
    BY <1>11 DEF PrepareStart
  <2>2. flight'.id = id /\ flight'.pc = "preparing"
    BY <2>1 DEF Preparation
  <2>3. flight' # None
    <3>1. mem' \in State /\ id \in RequestId
      BY <1>0, FreshIdIsFresh DEF TypeOK
    <3>2. flight' \in Flight
      BY <2>1, <3>1, PreparationType
    <3> QED
      BY <1>9, <3>2
  <2>4. Conversation'
    BY <1>8, <1>11, <2>1, <2>2, <2>3 DEF PrepareStart, PlanPcs, native
  <2>5. FlightRecorded'
    BY <2>2 DEF FlightRecorded, PlanPcs
  <2> QED
    BY <1>5, <1>11, <2>4, <2>5 DEF PrepareStart, Resolves, native
<1>12. CASE PrepareCached
  <2>1. CASE mem.pending = None
    <3>1. UNCHANGED <<mem, disk>>
      BY <1>12, <2>1 DEF PrepareCached, Resolved
    <3> QED
      BY <1>3, <1>12, <3>1 DEF PrepareCached, native
  <2>2. CASE mem.pending # None
    <3>1. Idle
      BY <1>0, <1>4, <1>12, <2>2, FreeSlot DEF PrepareCached, Resolves, Resolvable
    <3>2. Conversation' /\ FlightRecorded'
      BY <1>6, <1>12, <3>1 DEF PrepareCached, native
    <3> QED
      BY <1>5, <1>12, <3>2 DEF PrepareCached, Resolves, native
  <2> QED
    BY <2>1, <2>2
<1>13. CASE ReviewStart
  <2>1. PICK id \in FreshId :
          flight' = [pc |-> "looking", id |-> id] /\ Send(Inspect(id))
    BY <1>13 DEF ReviewStart
  <2>2. flight' \in Flight /\ flight'.id = id /\ flight'.pc = "looking"
    BY <2>1, FreshIdIsFresh DEF Flight
  <2>3. Conversation'
    BY <1>8, <1>9, <1>13, <2>1, <2>2 DEF ReviewStart, PlanPcs, native
  <2>4. FlightRecorded'
    BY <2>2 DEF FlightRecorded, PlanPcs
  <2> QED
    BY <1>5, <1>13, <2>3, <2>4 DEF ReviewStart, Resolves, native
<1>14. CASE AdoptStart
  <2>1. PICK id \in FreshId :
          /\ flight' = [pc |-> "adopting", id |-> id, current |-> mem'.managed]
          /\ Send(Inspect(id))
    BY <1>14 DEF AdoptStart
  <2>2. flight'.id = id /\ flight'.pc = "adopting" /\ flight'.current = mem'.managed
    BY <2>1
  <2>3. flight' \in Flight
    <3>1. Resolved \in State /\ mem' = Resolved /\ Resolved.managed # None
      BY <1>0, <1>14, ResolvedType DEF AdoptStart, Resolves
    <3>2. mem'.managed \in Graph
      BY <3>1 DEF State
    <3> QED
      BY <2>1, <3>2, FreshIdIsFresh DEF Flight
  <2>4. Conversation'
    BY <1>8, <1>9, <1>14, <2>1, <2>2, <2>3 DEF AdoptStart, PlanPcs, native
  <2>5. FlightRecorded'
    BY <2>2 DEF FlightRecorded, PlanPcs
  <2> QED
    BY <1>5, <1>14, <2>4, <2>5 DEF AdoptStart, Resolves, native
<1>15. CASE InspectStart \/ RecoverStart
  <2>1. PICK id \in FreshId :
          /\ \/ \E pc \in {"inspecting", "looking"} : flight' = [pc |-> pc, id |-> id]
             \/ flight' = [pc |-> "recovering", id |-> id, live |-> registry]
          /\ Send(Inspect(id))
    BY <1>15 DEF InspectStart, RecoverStart
  <2>2. flight'.id = id /\ flight'.pc \in {"inspecting", "looking", "recovering"}
    BY <2>1
  <2>3. flight' # None
    BY <1>0, <1>15, <2>1, <1>9, FreshIdIsFresh
    DEF InspectStart, RecoverStart, Admits, TypeOK, Revision, Flight
  <2>4. Conversation'
    BY <1>8, <1>15, <2>1, <2>2, <2>3 DEF InspectStart, RecoverStart, PlanPcs, native
  <2>5. FlightRecorded'
    BY <2>2 DEF FlightRecorded, PlanPcs
  <2> QED
    BY <1>0, <1>1, <1>15, <2>4, <2>5 DEF InspectStart, RecoverStart, service, native
<1>16. ASSUME NEW i \in DOMAIN receipts,
              ApplyForOtherCatalog(i) \/ ApplyStale(i) \/ ApplyReceipt(i)
       PROVE  Kept
  <2>1. CASE ApplyForOtherCatalog(i)
    BY <1>3, <2>1 DEF ApplyForOtherCatalog, native
  <2>2. CASE ApplyStale(i)
    <3>1. CASE UNCHANGED <<mem, disk>>
      BY <1>3, <2>2, <3>1 DEF ApplyStale, native
    <3>2. CASE Resolvable /\ mem.pending = None
      <4>1. UNCHANGED <<mem, disk>>
        BY <2>2, <3>2 DEF ApplyStale, Resolved
      <4> QED
        BY <3>1, <4>1
    <3>3. CASE /\ Resolvable /\ mem.pending # None
               /\ mem' = Resolved /\ disk' \in {disk, Persisted(mem')}
      <4>1. Idle
        BY <1>0, <1>4, <2>2, <3>3, FreeSlot DEF ApplyStale, Resolvable
      <4>2. Conversation' /\ FlightRecorded'
        BY <1>6, <2>2, <4>1 DEF ApplyStale, native
      <4> QED
        BY <1>5, <2>2, <3>3, <4>2 DEF ApplyStale, native
    <3> QED
      BY <2>2, <3>1, <3>2, <3>3 DEF ApplyStale
  <2>3. CASE ApplyReceipt(i)
    <3> DEFINE r == receipts[i]
               request(id) ==
                 [type |-> "apply", id |-> id, base |-> r.base, next |-> r.next,
                  from |-> r.from, to |-> r.next, mergeBase |-> r.mergeBase,
                  token |-> r.token]
    <3>1. /\ Call /\ Resolvable /\ Resolved \in State /\ Resolved.pending = None
          /\ disk' = Persisted(mem') /\ UNCHANGED <<registry, link, fromMax, max, saved>>
          /\ mem.pending # None => ~diskFull
      BY <1>0, <2>3, ResolvedExplicit DEF ApplyReceipt, Resolves, native
    <3>2. r \in Receipt
      BY <1>0 DEF TypeOK
    <3>3. /\ mem'.managed = Resolved.managed
          /\ mem'.pending = [base |-> r.base, next |-> r.next, intent |-> r.intent,
                             superseded |-> FALSE]
      BY <2>3, <3>1 DEF ApplyReceipt, State
    <3>4. mem'.pending # None /\ mem'.pending.next = r.next
      <4>1. r.base \in Graph /\ r.next \in Graph /\ r.intent \in Graph
        BY <3>2 DEF Receipt
      <4>2. mem'.pending \in Pending
        BY <3>3, <4>1 DEF Pending
      <4>3. mem'.pending # None
        BY <4>2, NoneIsNoRecord
      <4>4. mem'.pending.next = r.next
        BY <3>3
      <4> QED
        BY <4>3, <4>4
    <3>5. Explains(mem)' /\ Explains(disk)'
      <4>1. Explains(Resolved)
        <5>1. mem.pending # None => Idle
          BY <1>0, <1>4, <3>1, FreeSlot DEF Resolvable
        <5> QED
          BY <1>0, <3>1, <5>1, SettledExplains DEF Idle
      <4>2. Explains(mem')
        BY <3>1, <3>3, <4>1 DEF Explains, Graph0
      <4>3. Explains(disk')
        BY <1>0, <3>1, <4>2, PersistedExplains
      <4> QED
        BY <1>1, <3>1, <4>2, <4>3
    <3>6. CASE Admits /\ ~diskFull
      <4>1. PICK id \in FreshId :
              /\ flight' = [pc |-> "applying", id |-> id, next |-> r.next,
                            intent |-> r.intent]
              /\ Send(request(id))
        BY <2>3, <3>6 DEF ApplyReceipt
      <4>2. flight' \in Flight /\ request(id) \in Request
        BY <3>2, <4>1, FreshIdIsFresh DEF Flight, Request, Receipt
      <4>3. /\ flight' # None /\ flight'.pc = "applying" /\ flight'.id = id
            /\ flight'.next = r.next
            /\ request(id).id = id /\ request(id).type = "apply"
            /\ request(id).next = r.next
        BY <1>9, <4>1, <4>2
      <4>4. Current(registry)' /\ registry' # None
        BY <1>2, <1>7, <3>1, <3>6 DEF Idle
      <4>5. link \in {"open", "closedByMax"} /\ toMax = <<>> /\ fromMax' = <<>>
        BY <1>7, <3>1, <3>6
      <4> HIDE DEF request
      <4>6. Conversation'
        BY <3>1, <4>1, <4>2, <4>3, <4>4, <4>5, SendingConverses DEF PlanPcs
      <4>7. \A state \in {mem', disk'} :
              state.pending # None /\ state.pending.next = flight'.next
        BY <3>1, <3>4, <3>6, <4>3 DEF Persisted
      <4>8. FlightRecorded'
        BY <4>3, <4>7 DEF FlightRecorded, Recorded
      <4> QED
        BY <3>5, <4>6, <4>8
    <3>7. CASE ~(Admits /\ ~diskFull)
      <4>1. UNCHANGED <<flight, toMax>> /\ flight = None
        BY <1>4, <2>3, <3>1, <3>7 DEF ApplyReceipt
      <4>2. CASE Idle
        BY <1>6, <3>1, <3>5, <4>1, <4>2 DEF wire
      <4>3. CASE registry = None
        <5>1. mem.pending = None
          BY <3>1, <4>3 DEF Resolvable
        <5>2. Down => Down'
          BY <3>1, <4>1 DEF Down, Unregistered, Quiet
        <5>3. Leaving => Leaving'
          BY <3>1, <4>1, <5>1 DEF Leaving, Recorded, Unregistered
        <5>4. Joining => Joining'
          BY <1>2, <3>1, <4>1 DEF Joining, Unregistered
        <5>5. Down \/ Leaving \/ Joining
          BY <1>0, <4>3 DEF Conversation, Idle, Asked, Answered, Lost
        <5> QED
          BY <3>5, <4>1, <5>2, <5>3, <5>4, <5>5 DEF Conversation, FlightRecorded
      <4> QED
        BY <1>0, <4>1, <4>2, <4>3, FreeSlot
    <3> QED
      BY <3>6, <3>7
  <2> QED
    BY <1>16, <2>1, <2>2, <2>3
<1>17. CASE BridgeRegisters
  <2>1. fromMax # <<>> /\ Head(fromMax).type = "registered" /\ fromMax' = Tail(fromMax)
    BY <1>17 DEF BridgeRegisters, Receive
  <2>2. PICK e \in Range(fromMax) :
          fromMax = <<e>> /\ (e.type = "registered" => Current(e.revision) /\ Joining)
    BY <1>0, <2>1
    DEF Conversation, Down, Leaving, Joining, Idle, Asked, Answered, Lost, Quiet
  <2>3. Head(fromMax) = e /\ Tail(fromMax) = <<>> /\ e \in Event
    BY <1>0, <2>2, OneMessage, OnTheWire
  <2>4. e.revision # None
    BY <2>1, <2>3, NoneAssumption DEF Event, Revision
  <2>5. Current(e.revision)'
    BY <1>2, <1>17, <2>1, <2>2, <2>3 DEF BridgeRegisters, native
  <2>6. Idle'
    BY <1>17, <2>1, <2>2, <2>3, <2>4, <2>5
    DEF BridgeRegisters, Joining, Unregistered, Idle, Quiet
  <2> QED
    BY <1>0, <1>1, <1>17, <2>6
    DEF BridgeRegisters, Conversation, FlightRecorded, Idle, service, native
<1>18. CASE BridgeIgnores
  <2>1. fromMax # <<>> /\ Head(fromMax).type \in {"applied", "snapshot", "error"}
    BY <1>18 DEF BridgeIgnores, Receive
  <2>2. PICK e \in Range(fromMax) :
          /\ fromMax = <<e>>
          /\ e.type = "registered" \/ (flight # None /\ e.id = flight.id)
    BY <1>0, <2>1
    DEF Conversation, Down, Leaving, Joining, Idle, Asked, Answered, Lost, Quiet
  <2>3. Head(fromMax) = e
    BY <2>2, OneMessage
  <2> QED
    BY <1>18, <2>1, <2>2, <2>3 DEF BridgeIgnores
<1>19. CASE InspectionArrives \/ PreparationArrives
  <2>1. PICK pcs : SnapshotArrives(pcs)
    BY <1>19 DEF InspectionArrives, PreparationArrives
  <2>2. /\ Answer("snapshot", pcs) /\ flight' = None
        /\ registry' = Head(fromMax).revision
        /\ UNCHANGED <<mem, disk, link, toMax, max, saved>>
    BY <1>19, <2>1 DEF InspectionArrives, PreparationArrives, SnapshotArrives, native
  <2>3. /\ link \in {"open", "closedByMax"} /\ toMax = <<>> /\ fromMax' = <<>>
        /\ Current(Head(fromMax).revision)
    BY <1>0, <2>2, AnswerConverses
  <2>4. registry' # None
    BY <1>0, <2>1, SnapshotType, NoneAssumption DEF Revision
  <2>5. Idle'
    BY <2>2, <2>3, <2>4 DEF Idle, Quiet, Current
  <2> QED
    BY <1>0, <1>1, <2>2, <2>5 DEF Conversation, FlightRecorded, Idle
<1>20. CASE AdoptionArrives \/ RecoveryArrives
  <2>1. PICK pcs \in {{"adopting"}, {"recovering"}} : SnapshotArrives(pcs)
    BY <1>20 DEF AdoptionArrives, RecoveryArrives
  <2> DEFINE snapshot == Head(fromMax)
  <2>2. /\ Answer("snapshot", pcs) /\ registry' = snapshot.revision
        /\ UNCHANGED <<link, max, saved>>
    BY <1>20, <2>1 DEF AdoptionArrives, RecoveryArrives, SnapshotArrives, native
  <2>3. /\ link \in {"open", "closedByMax"} /\ toMax = <<>> /\ fromMax' = <<>>
        /\ Current(snapshot.revision)
    BY <1>0, <2>2, AnswerConverses
  <2>4. registry' # None /\ snapshot.revision \in Revision /\ snapshot.live \in Live
        /\ flight \in Flight /\ flight.pc \in pcs /\ flight # None
    BY <1>0, <2>1, <2>2, SnapshotType, NoneAssumption DEF Revision, Answer
  <2>5. CASE GivesUp
    <3>1. Idle'
      BY <2>2, <2>3, <2>4, <2>5 DEF GivesUp, Idle, Quiet, Current
    <3> QED
      BY <1>0, <1>1, <2>2, <2>5, <3>1 DEF GivesUp, Conversation, FlightRecorded, Idle
  <2>6. ASSUME NEW base \in Graph, NEW superseded \in BOOLEAN,
               AdoptOrRebase(base, snapshot.live, superseded),
               base = RevisionOf(snapshot.revision), superseded \/ base = mem.managed
        PROVE  Kept
    <3>1. Current(base)
      BY <2>3, <2>6, NoneAssumption DEF Current, RevisionOf
    <3>2. Current(registry')
      BY <2>2, <2>3
    <3> HIDE DEF snapshot
    <3>3. /\ Conversation' /\ FlightRecorded'
          /\ Explains(mem') /\ Explains(disk')
      BY <1>0, <2>2, <2>3, <2>4, <2>6, <3>1, <3>2, AdoptOrRebaseConverses
    <3> QED
      BY <1>1, <2>2, <3>3
  <2>7. CASE AdoptionArrives
    <3>1. flight.pc = "adopting" /\ flight.current \in Graph
      BY <2>4, <2>7, AnswerType DEF AdoptionArrives, SnapshotArrives, Answer, Flight
    <3>2. flight.current = mem.managed
      BY <1>0, <2>4, <3>1 DEF FlightRecorded
    <3> QED
      BY <2>5, <2>6, <2>7, <3>1, <3>2 DEF AdoptionArrives
  <2>8. CASE RecoveryArrives
    <3>1. flight.pc = "recovering" /\ flight.live \in Graph
      BY <2>4, <2>8 DEF RecoveryArrives, SnapshotArrives, Answer, Flight
    <3>2. snapshot.revision = flight.live => RevisionOf(snapshot.revision) = flight.live
      BY <3>1, NoneAssumption DEF RevisionOf
    <3> QED
      BY <2>5, <2>6, <2>8, <3>1, <3>2 DEF RecoveryArrives
  <2> QED
    BY <1>20, <2>7, <2>8
\* What an acknowledgement leaves in memory is what Max is at.
<1>21. ASSUME NEW pcs, Acknowledgement(pcs), UNCHANGED <<link, max, saved>>
       PROVE  /\ link \in {"open", "closedByMax"} /\ toMax = <<>> /\ fromMax' = <<>>
              /\ registry' # None /\ Current(registry)' /\ Current(flight.next)
              /\ flight.next \in Graph
  <2>1. Answer("applied", pcs) /\ registry' = Head(fromMax).revision
    BY <1>21 DEF Acknowledgement
  <2>2. /\ link \in {"open", "closedByMax"} /\ toMax = <<>> /\ fromMax' = <<>>
        /\ Head(fromMax).revision = flight.next /\ Current(Head(fromMax).revision)
    BY <1>0, <2>1, AnswerConverses
  <2>3. Head(fromMax).revision \in Graph
    BY <1>0, <2>1, AnswerType
  <2> QED
    BY <1>2, <1>21, <2>1, <2>2, <2>3, NoneAssumption DEF Current
<1>22. CASE ApplyAcknowledged
  <2>1. /\ Acknowledgement({"applying"}) /\ UNCHANGED <<disk, link, max, saved>>
        /\ mem'.managed = flight.next
    BY <1>0, <1>22 DEF ApplyAcknowledged, State, native
  <2>2. PICK id \in FreshId :
          /\ flight' = [pc |-> "capturing", id |-> id, next |-> flight.next]
          /\ Send(Inspect(id))
    BY <1>22 DEF ApplyAcknowledged
  <2>3. flight' # None /\ flight'.pc = "capturing" /\ flight'.id = id
    <3>1. flight.next \in Graph
      BY <1>21, <2>1
    <3>2. flight' \in Flight
      BY <2>2, <3>1, FreshIdIsFresh DEF Flight
    <3> QED
      BY <1>9, <2>2, <3>2
  <2>4. Conversation'
    BY <1>21, <2>1, <2>2, <2>3, InspectConverses DEF PlanPcs
  <2>5. Explains(mem')
    BY <1>21, <2>1, CurrentExplains
  <2> QED
    BY <1>0, <1>1, <2>1, <2>3, <2>4, <2>5 DEF FlightRecorded, PlanPcs
<1>23. CASE RebaseAcknowledged
  <2>1. /\ Acknowledgement({"rebasing"}) /\ UNCHANGED <<link, toMax, max, saved>>
        /\ mem'.managed = flight.next /\ disk' = Persisted(mem') /\ flight' = None
    BY <1>23 DEF RebaseAcknowledged, Adopted, native
  <2>2. Idle'
    BY <1>21, <2>1 DEF Idle, Quiet
  <2>3. Explains(mem')
    BY <1>21, <2>1, CurrentExplains
  <2> QED
    BY <1>0, <1>1, <2>1, <2>2, <2>3, PersistedExplains
    DEF Conversation, FlightRecorded
<1>24. CASE BaselineArrives
  <2>1. /\ SnapshotArrives({"capturing"}) /\ UNCHANGED <<link, toMax, max, saved>>
        /\ mem'.managed = mem.managed /\ mem'.pending = mem.pending
        /\ disk' = Persisted(mem') /\ flight' = None
    BY <1>0, <1>24 DEF BaselineArrives, State, native
  <2>2. /\ link \in {"open", "closedByMax"} /\ toMax = <<>> /\ fromMax' = <<>>
        /\ Current(Head(fromMax).revision) /\ registry' = Head(fromMax).revision
    BY <1>0, <2>1, AnswerConverses DEF SnapshotArrives
  <2>3. registry' # None
    BY <1>0, <2>1, SnapshotType, NoneAssumption DEF Revision
  <2>4. Idle'
    BY <2>1, <2>2, <2>3 DEF Idle, Quiet, Current
  <2>5. Explains(mem')
    BY <1>0, <2>1 DEF Explains, Graph0
  <2> QED
    BY <1>0, <1>1, <2>1, <2>4, <2>5, PersistedExplains DEF Conversation, FlightRecorded
<1>25. ASSUME Fails
       PROVE  /\ mem'.managed = mem.managed /\ mem'.pending = mem.pending
              /\ disk' \in {disk, Persisted(mem')} /\ flight' = None
              /\ Capturing \/ UNCHANGED <<mem, disk>>
  BY <1>0, <1>25 DEF Fails, State, Capturing
<1>26. ASSUME Fails, UNCHANGED <<max, saved>>
       PROVE  Explains(mem)' /\ Explains(disk)' /\ FlightRecorded'
  <2>1. Explains(mem')
    BY <1>0, <1>25, <1>26 DEF Explains, Graph0
  <2> QED
    BY <1>0, <1>1, <1>25, <1>26, <2>1, PersistedExplains DEF FlightRecorded
<1>27. CASE ErrorArrives
  <2>1. /\ Fails /\ UNCHANGED <<registry, link, toMax, max, saved>>
        /\ \E pcs : Answer("error", pcs)
    BY <1>27 DEF ErrorArrives, native
  <2>2. /\ link \in {"open", "closedByMax"} /\ toMax = <<>> /\ fromMax' = <<>>
        /\ Current(registry) /\ registry # None
    BY <1>0, <2>1, AnswerConverses
  <2>3. Idle'
    BY <1>25, <2>1, <2>2 DEF Idle, Quiet, Current
  <2> QED
    BY <1>26, <2>1, <2>3 DEF Conversation
<1>28. CASE TimesOut
  BY <1>28 DEF TimesOut
\* Max answers the request it handles, or nobody hears the answer.
<1>29. ASSUME NEW type \in {"inspect", "apply"}, MaxReceives(type), NEW event \in Event,
              Reply(event), event.id = Head(toMax).id, event.type # "registered",
              event.type = "applied" => /\ type = "apply"
                                        /\ event.revision = Head(toMax).next
                                        /\ Current(event.revision)',
              event.type = "snapshot" => /\ type = "inspect"
                                         /\ Current(event.revision)',
              event.type # "applied" /\ registry # None => Current(registry)',
              UNCHANGED <<registry, flight, link>>
       PROVE  Conversation'
  <2>1. toMax' = <<>> /\ fromMax = <<>>
    BY <1>0, <1>29, HandlingConverses
  <2>2. CASE Leaving /\ link = "closedByBridge"
    <3>1. fromMax' = <<>>
      BY <1>29, <2>1, <2>2 DEF Reply
    <3> QED
      BY <1>29, <2>1, <2>2, <3>1 DEF Leaving, Unregistered, Conversation
  <2>3. CASE /\ Asked /\ link = "open" /\ Head(toMax).id = flight.id
             /\ type = "apply" => flight.pc \in PlanPcs /\ Head(toMax).next = flight.next
             /\ type = "inspect" => flight.pc \notin PlanPcs
    <3>1. fromMax' = <<event>> /\ Range(fromMax') = {event}
      BY <1>29, <2>1, <2>3, OneMessage DEF Reply
    <3>2. registry' # None /\ flight' # None
      BY <1>29, <2>3 DEF Asked
    <3>3. Answered'
      BY <1>29, <2>1, <2>3, <3>1, <3>2 DEF Answered
    <3> QED
      BY <3>3 DEF Conversation
  <2> QED
    BY <1>0, <1>29, <2>2, <2>3, HandlingConverses
\* What Max handles finds the registration current, if there is one.
<1>30. ASSUME NEW type \in {"inspect", "apply"}, MaxReceives(type)
       PROVE  /\ Head(toMax) \in Request /\ Head(toMax).type = type
              /\ (Asked /\ Current(registry)) \/ Leaving
  BY <1>0, <1>30, HandlingConverses DEF Asked
<1>31. CASE MaxInspects
  <2>1. /\ MaxReceives("inspect")
        /\ Reply([type |-> "snapshot", id |-> Head(toMax).id,
                  revision |-> max.revision, live |-> max.live])
        /\ UNCHANGED <<mem, disk, registry, flight, link, max, saved>>
    BY <1>31 DEF MaxInspects, service, native
  <2>2. PICK event \in Event :
          /\ event.id = Head(toMax).id /\ event.type = "snapshot"
          /\ event.revision = max.revision /\ Reply(event)
    <3> DEFINE answer == [type |-> "snapshot", id |-> Head(toMax).id,
                          revision |-> max.revision, live |-> max.live]
    <3>1. Head(toMax).id \in RequestId /\ max.revision \in Revision /\ max.live \in Live
      BY <1>0, <1>30, <2>1 DEF TypeOK, Patch, Request
    <3>2. answer \in Event
      BY <3>1 DEF Event
    <3> QED
      BY <2>1, <3>2
  <2>3. Current(event.revision)'
    BY <2>1, <2>2 DEF Current
  <2>4. registry # None => Current(registry)'
    BY <1>2, <1>30, <2>1 DEF Leaving, Unregistered
  <2>5. Conversation'
    BY <1>29, <2>1, <2>2, <2>3, <2>4
  <2> QED
    BY <1>0, <1>1, <2>1, <2>5 DEF FlightRecorded, Recorded
<1>32. CASE MaxApplies
  <2> DEFINE plan == Head(toMax)
  <2>1. /\ MaxReceives("apply") /\ max'.revision = plan.next
        /\ Reply([type |-> "applied", id |-> plan.id, revision |-> plan.next])
        /\ UNCHANGED <<mem, disk, registry, flight, link, saved>>
    BY <1>32 DEF MaxApplies, service
  <2>2. plan.type = "apply" /\ plan.next \in Graph /\ plan.id \in RequestId
    BY <1>30, <2>1 DEF Request
  <2>3. PICK event \in Event :
          /\ event.id = plan.id /\ event.type = "applied"
          /\ event.revision = plan.next /\ Reply(event)
    <3>1. [type |-> "applied", id |-> plan.id, revision |-> plan.next] \in Event
      BY <2>2 DEF Event
    <3> QED
      BY <2>1, <3>1
  <2>4. RevisionOf(plan.next) = plan.next
    BY <2>2, NoneAssumption DEF RevisionOf
  <2>5. Recorded(plan.next)
    BY <1>0, <2>1, HandlingConverses DEF FlightRecorded, Asked
  <2>6. Current(event.revision)'
    BY <2>1, <2>3 DEF Current
  <2>7. Conversation'
    BY <1>29, <2>1, <2>3, <2>6
  <2>8. Explains(mem)' /\ Explains(disk)'
    BY <2>1, <2>4, <2>5 DEF Explains, Recorded
  <2> QED
    BY <1>0, <2>1, <2>7, <2>8 DEF FlightRecorded, Recorded
<1>33. CASE MaxRefuses \/ MaxFailsHalfway
  <2>1. /\ MaxReceives("apply") /\ max'.revision = max.revision
        /\ Reply([type |-> "error", id |-> Head(toMax).id])
        /\ UNCHANGED <<mem, disk, registry, flight, link, saved>>
    BY <1>0, <1>33 DEF MaxRefuses, MaxFailsHalfway, service, native, TypeOK, Patch
  <2>2. PICK event \in Event :
          event.id = Head(toMax).id /\ event.type = "error" /\ Reply(event)
    <3>1. [type |-> "error", id |-> Head(toMax).id] \in Event
      BY <1>30, <2>1 DEF Request, Event
    <3> QED
      BY <2>1, <3>1
  <2>3. registry # None => Current(registry)'
    BY <1>30, <2>1 DEF Leaving, Unregistered, Current
  <2>4. Conversation'
    BY <1>29, <2>1, <2>2, <2>3
  <2>5. Explains(mem)' /\ Explains(disk)'
    BY <1>0, <2>1 DEF Explains, Graph0
  <2> QED
    BY <1>0, <2>1, <2>4, <2>5 DEF FlightRecorded, Recorded
<1>34. CASE PersonEdits
  <2>1. max'.revision = max.revision /\ UNCHANGED <<mem, disk, registry, flight, wire, saved>>
    BY <1>0, <1>34 DEF PersonEdits, service, TypeOK, Patch
  <2>2. \A revision : Current(revision) => Current(revision)'
    BY <2>1 DEF Current, wire
  <2>3. Conversation'
    BY <1>0, <2>1, <2>2, SameConversation
  <2>4. Explains(mem)' /\ Explains(disk)'
    BY <1>0, <2>1 DEF Explains, Graph0
  <2> QED
    BY <1>0, <2>1, <2>3, <2>4 DEF FlightRecorded, Recorded
<1>35. CASE PatchSaved
  <2>1. saved' = max /\ UNCHANGED <<mem, disk, registry, flight, wire, max>>
    BY <1>35 DEF PatchSaved, service
  <2>2. \A revision : Current(revision) => Current(revision)'
    BY <2>1 DEF Current, wire
  <2>3. Conversation'
    BY <1>0, <2>1, <2>2, SameConversation
  <2>4. Explains(mem)' /\ Explains(disk)'
    BY <2>1 DEF Explains
  <2> QED
    BY <1>0, <2>1, <2>3, <2>4 DEF FlightRecorded, Recorded
<1>36. CASE PatchReopened \/ MaxDisconnects \/ MaxSeesClose
  <2>1. /\ MaxEndCloses /\ max' \in {max, saved}
        /\ UNCHANGED <<mem, disk, registry, flight, fromMax, saved>>
    BY <1>36 DEF PatchReopened, MaxDisconnects, MaxSeesClose, service, native
  <2>2. Conversation'
    BY <1>0, <2>1, ClosingConverses
  <2>3. Explains(mem)' /\ Explains(disk)'
    <3>1. CASE max' = saved
      BY <2>1, <3>1 DEF Explains
    <3>2. CASE max' = max
      BY <1>0, <2>1, <3>2 DEF Explains, Graph0
    <3> QED
      BY <2>1, <3>1, <3>2
  <2> QED
    BY <1>0, <2>1, <2>2, <2>3 DEF FlightRecorded, Recorded
<1>37. CASE MaxConnects
  <2>1. /\ link = "down" /\ link' = "open"
        /\ fromMax' = <<[type |-> "registered", revision |-> max.revision]>>
        /\ UNCHANGED <<mem, disk, registry, flight, toMax, max, saved>>
    BY <1>37 DEF MaxConnects, service, native
  <2>2. PICK event \in Event :
          event.type = "registered" /\ event.revision = max.revision /\ fromMax' = <<event>>
    BY <1>0, <2>1 DEF TypeOK, Patch, Event
  <2>3. Range(fromMax') = {event}
    BY <2>2, OneMessage
  <2>4. Current(event.revision)'
    BY <2>1, <2>2 DEF Current
  <2>5. Down
    BY <1>0, <2>1 DEF Conversation, Leaving, Joining, Idle, Asked, Answered, Lost
  <2>6. Joining'
    BY <2>1, <2>2, <2>3, <2>4, <2>5 DEF Down, Joining, Unregistered, Quiet
  <2> QED
    BY <1>0, <1>1, <2>1, <2>6 DEF Conversation, FlightRecorded, Joining, Unregistered
<1>38. CASE BridgeSeesClose
  <2>1. /\ link = "closedByMax" /\ link' = "down" /\ registry' = None /\ fromMax' = <<>>
        /\ Fails /\ UNCHANGED <<toMax, max, saved>>
    BY <1>38 DEF BridgeSeesClose, BridgeForgets, native
  <2>2. toMax = <<>>
    BY <1>0, <2>1
    DEF Conversation, Down, Leaving, Joining, Idle, Asked, Answered, Lost, Quiet
  <2>3. Down'
    BY <1>25, <2>1, <2>2 DEF Down, Unregistered, Quiet
  <2> QED
    BY <1>26, <2>1, <2>3 DEF Conversation
<1>39. CASE BridgeLosesConnection
  <2>1. /\ link = "open" /\ link' = "closedByBridge" /\ registry' = None /\ fromMax' = <<>>
        /\ Fails /\ UNCHANGED <<toMax, max, saved>>
    BY <1>39 DEF BridgeLosesConnection, BridgeForgets, native
  <2>2. CASE toMax = <<>>
    <3>1. Leaving'
      BY <1>25, <2>1, <2>2 DEF Leaving, Unregistered
    <3> QED
      BY <1>26, <2>1, <3>1 DEF Conversation
  <2>3. CASE toMax # <<>>
    <3>1. Asked
      BY <1>0, <2>1, <2>3
      DEF Conversation, Down, Leaving, Joining, Idle, Answered, Lost, Quiet
    <3>2. PICK q \in Range(toMax) :
            /\ toMax = <<q>>
            /\ q.type = "apply" => flight.pc \in PlanPcs /\ q.next = flight.next
      BY <3>1 DEF Asked
    <3>3. q.type = "apply" => Recorded(q.next)
      BY <1>0, <3>1, <3>2 DEF Asked, FlightRecorded
    <3>4. q.type = "apply" => UNCHANGED <<mem, disk>>
      BY <1>25, <2>1, <3>2 DEF Capturing, PlanPcs
    <3>5. q.type = "apply" => \A state \in {mem', disk'} :
                                 state.pending # None /\ state.pending.next = q.next
      BY <3>3, <3>4 DEF Recorded
    <3>6. Leaving'
      BY <1>25, <2>1, <3>2, <3>5 DEF Leaving, Unregistered, Recorded
    <3> QED
      BY <1>26, <2>1, <3>6 DEF Conversation
  <2> QED
    BY <2>2, <2>3
<1>40. CASE BrokerRestarts
  <2>1. /\ mem' = disk /\ disk' = disk /\ registry' = None /\ flight' = None
        /\ fromMax' = <<>> /\ UNCHANGED <<toMax, max, saved>>
        /\ link' = CASE link = "open" -> "closedByBridge"
                     [] link = "closedByMax" -> "down"
                     [] OTHER -> link
    BY <1>40 DEF BrokerRestarts, native
  <2>2. Explains(mem)' /\ Explains(disk)' /\ FlightRecorded'
    BY <1>0, <1>1, <2>1 DEF FlightRecorded
  <2>3. \A next : Recorded(next) => Recorded(next)'
    BY <2>1 DEF Recorded
  <2>4. CASE link = "open"
    <3>1. toMax # <<>> => \E q \in Range(toMax) :
            toMax = <<q>> /\ (q.type = "apply" => Recorded(q.next))
      BY <1>0, <2>4
      DEF Conversation, Down, Leaving, Joining, Idle, Asked, Answered, Lost, Quiet,
          FlightRecorded
    <3>2. Leaving'
      BY <2>1, <2>3, <2>4, <3>1 DEF Leaving, Unregistered
    <3> QED
      BY <2>2, <3>2 DEF Conversation
  <2>5. CASE link \in {"closedByMax", "down"}
    <3>1. toMax = <<>>
      BY <1>0, <2>5
      DEF Conversation, Down, Leaving, Joining, Idle, Asked, Answered, Lost, Quiet
    <3>2. Down'
      BY <2>1, <2>5, <3>1 DEF Down, Unregistered, Quiet
    <3> QED
      BY <2>2, <3>2 DEF Conversation
  <2>6. CASE link = "closedByBridge"
    <3>1. Leaving
      BY <1>0, <2>6 DEF Conversation, Down, Joining, Idle, Asked, Answered, Lost
    <3>2. Leaving'
      BY <2>1, <2>3, <2>6, <3>1 DEF Leaving, Unregistered
    <3> QED
      BY <2>2, <3>2 DEF Conversation
  <2> QED
    BY <1>0, <2>4, <2>5, <2>6 DEF TypeOK
<1>41. CASE DiskChanges
  BY <1>3, <1>41 DEF DiskChanges, native
<1>42. CASE UNCHANGED vars
  BY <1>3, <1>42 DEF vars, service, native
<1> QED
  BY <1>10, <1>11, <1>12, <1>13, <1>14, <1>15, <1>16, <1>17, <1>18, <1>19, <1>20,
     <1>22, <1>23, <1>24, <1>27, <1>28, <1>31, <1>32, <1>33, <1>34, <1>35, <1>36,
     <1>37, <1>38, <1>39, <1>40, <1>41, <1>42
  DEF Next, Calls, BridgeReceives, MaxHandles, Environment, CloseSeen

\* The state file always explains the patch: for every graph, any number of
\* receipts and any number of calls, edits, breaks, faults and restarts, as
\* long as callers do not overlap and a request waits for its connection.
THEOREM RevisionsAreRecoverable ==
  ASSUME Concurrent = FALSE, TimersFire = FALSE
  PROVE  Spec => []RevisionRecoverable
<1>1. Init => RecoverableInv
  <2> SUFFICES ASSUME Init PROVE RecoverableInv
    OBVIOUS
  <2>1. TypeOK
    BY TypeInit
  <2>2. Conversation /\ FlightRecorded
    BY DEF Init, Conversation, Down, Unregistered, Quiet, FlightRecorded
  <2>3. Explains(mem) /\ Explains(disk)
    BY DEF Init, Explains
  <2> QED
    BY <2>1, <2>2, <2>3 DEF RecoverableInv
<1>2. RecoverableInv /\ [Next]_vars => RecoverableInv'
  BY RecoverableStep
<1>3. RecoverableInv => RevisionRecoverable
  BY DEF RecoverableInv, Explains, Graph0, RevisionRecoverable
<1> QED
  BY <1>1, <1>2, <1>3, PTL DEF Spec

-----------------------------------------------------------------------------
(* ManualEditsSurvive and PromiseKept.  Both say what a commit may do to the  *)
(* boxes of the patch, and rest on what the plans on the wire were computed   *)
(* from: the content a plan replaces is content some revision had, and a plan *)
(* starts from the revision it names or from the boxes it was planned on.     *)

\* What the committed revisions had at a box, and graphs made of nothing else.
Contents(b) == {h[b] : h \in held}

Known(g) == \A b \in Box : g[b] \in Contents(b)

\* The intent of a plan: at each box, something known or what the plan brings.
Intended(intent, next) == \A b \in Box : intent[b] \in Contents(b) \cup {next[b]}

StateKnown(state) ==
  /\ state.intent # None => Known(state.intent)
  /\ state.baseline # None => Known(state.baseline)
  /\ state.pending # None => Intended(state.pending.intent, state.pending.next)

StatesKnown == StateKnown(mem) /\ StateKnown(disk)

FlightKnown ==
  flight # None =>
    /\ flight.pc = "preparing" =>
         /\ flight.mergeBase = flight.current \/ Known(flight.mergeBase)
         /\ flight.baseline # None => Known(flight.baseline)
    /\ flight.pc = "applying" => Intended(flight.intent, flight.next)

\* The operations from -> to lose nothing that only a person made, if the
\* boxes are still the ones the plan was computed on.
Harmless(base, from, to, boxes) ==
  /\ from \in {base, boxes}
  /\ \A b \in Changed(from, to) :
       \/ boxes[b] \in Contents(b)
       \/ /\ from[b] = Absent
          /\ Absent \in Contents(b)

ReceiptHarmless(r) ==
  /\ Intended(r.intent, r.next)
  /\ Harmless(r.base, r.from, r.next, r.token.managed)

RequestHarmless(q) ==
  q.type = "apply" =>
    /\ q.to = q.next
    /\ Harmless(q.base, q.from, q.to, q.token.managed)

ReceiptsHarmless == \A r \in Range(receipts) : ReceiptHarmless(r)

RequestsHarmless == \A q \in Range(toMax) : RequestHarmless(q)

\* What a connection that one end has closed still carries.
Severed ==
  /\ link \in {"down", "closedByMax"} => Range(toMax) = {}
  /\ link \in {"down", "closedByBridge"} => registry = None /\ Range(fromMax) = {}

\* A patch that was never synchronised is known as such, and asked for plans
\* from the empty graph only.
Unsynchronised ==
  link \in {"open", "closedByBridge"} /\ max.revision = Null =>
    /\ registry \in {None, Null}
    /\ \A e \in Range(fromMax) : e.type # "error" => e.revision = Null
    /\ \A q \in Range(toMax) : q.type = "apply" => q.base = EmptyGraph

EditsInv ==
  /\ CommittedInv
  /\ StatesKnown
  /\ FlightKnown
  /\ ReceiptsHarmless
  /\ RequestsHarmless
  /\ Severed
  /\ Unsynchronised

\* A committed graph is known.
LEMMA CommittedKnown ==
  ASSUME NEW g, g \in held
  PROVE  Known(g)
BY DEF Known, Contents

\* Settling the record leaves known graphs.
LEMMA ResolvedKnown ==
  ASSUME EditsInv, Resolvable
  PROVE  StateKnown(Resolved)
<1>1. StateKnown(mem) /\ mem \in State
  BY DEF EditsInv, StatesKnown, CommittedInv, TypeOK
<1>2. CASE mem.pending # None /\ RevisionOf(registry) = mem.pending.next
  <2>1. mem.pending.next \in held
    BY <1>2 DEF Resolvable, EditsInv, CommittedInv, ReportsCommitted, Committed
  <2>2. Intended(mem.pending.intent, mem.pending.next)
    BY <1>1, <1>2 DEF StateKnown
  <2>3. Known(mem.pending.intent)
    BY <2>1, <2>2 DEF Known, Intended, Contents
  <2> QED
    BY <1>2, <2>3 DEF Resolved, StateKnown
<1>3. CASE ~(mem.pending # None /\ RevisionOf(registry) = mem.pending.next)
  BY <1>1, <1>3 DEF Resolved, StateKnown, State
<1> QED
  BY <1>2, <1>3

\* What is saved was in memory or already on disk.
LEMMA SavedKnown ==
  ASSUME EditsInv, StateKnown(mem'), disk' \in {disk, mem', Persisted(mem')}, held' = held
  PROVE  StatesKnown'
BY DEF EditsInv, StatesKnown, StateKnown, Persisted, Known, Intended, Contents

\* What a planning call leaves in memory and on disk.
LEMMA SettledKnown ==
  ASSUME EditsInv, Resolvable, mem' = Resolved,
         disk' \in {disk, mem', Persisted(mem')}, held' = held
  PROVE  StatesKnown'
BY ResolvedKnown, SavedKnown

\* The graph a preparation merges against is the current or a known one.
LEMMA PreparationKnown ==
  ASSUME NEW state \in State, StateKnown(state), NEW supplied, NEW mode,
         NEW current, NEW desired, NEW id
  PROVE  LET prep == Preparation(state, supplied, mode, current, desired, id)
         IN  /\ prep.mergeBase = prep.current \/ Known(prep.mergeBase)
             /\ prep.baseline # None => Known(prep.baseline)
             /\ prep.baseline \in Graph \cup {None}
BY DEF Preparation, MergeBase, StateKnown, State

\* A plan replaces what its merge base, baseline or current graph had.
LEMMA PlanHarmless ==
  ASSUME EditsInv, NEW prep, prep.current \in held, prep.desired \in Graph,
         prep.mergeBase \in Graph, prep.mode \in Mode,
         prep.mergeBase = prep.current \/ Known(prep.mergeBase),
         prep.baseline # None => Known(prep.baseline),
         NEW snapshot \in Snapshot, PlanExists(prep, snapshot)
  PROVE  ReceiptHarmless(ReceiptFor(prep, snapshot))
<1> DEFINE live == snapshot.live.managed
           r == ReceiptFor(prep, snapshot)
<1>1. Known(prep.current) /\ Known(prep.mergeBase)
  BY CommittedKnown
<1>2. /\ r.base = prep.current /\ r.intent = prep.desired /\ r.token.managed = live
      /\ live \in Graph /\ prep.current \in Graph
  BY DEF ReceiptFor, Snapshot, Live, EditsInv, CommittedInv, TypeOK
<1>3. CASE prep.mode = "merge"
  <2>1. r.from = live /\ r.next = Merged(prep.mergeBase, live, prep.desired)
    BY <1>3 DEF ReceiptFor
  <2>2. MergeSucceeds(prep.mergeBase, live, prep.desired)
    BY <1>3 DEF PlanExists
  <2>3. ASSUME NEW b \in Box
        PROVE  /\ prep.desired[b] \in Contents(b) \cup {r.next[b]}
               /\ live[b] # r.next[b] => live[b] \in Contents(b)
    BY <1>1, <2>1, <2>2 DEF Known, Merged, MergeSucceeds, BoxMerges
  <2> QED
    BY <1>2, <2>1, <2>3 DEF ReceiptHarmless, Intended, Harmless, Changed
<1>4. CASE prep.mode = "reject"
  <2>1. r.from = prep.current /\ r.next = prep.desired
    BY <1>4 DEF ReceiptFor
  <2>2. NoManagedDrift(prep, snapshot)
    BY <1>4 DEF PlanExists
  <2>3. Known(live) \/ prep.current = EmptyGraph
    BY <1>1, <2>2 DEF NoManagedDrift
  <2>4. ASSUME NEW b \in Box
        PROVE  \/ live[b] \in Contents(b)
               \/ prep.current[b] = Absent /\ Absent \in Contents(b)
    BY <1>1, <2>3 DEF Known, EmptyGraph
  <2> QED
    BY <1>2, <2>1, <2>4 DEF ReceiptHarmless, Intended, Harmless, Changed
<1> QED
  BY <1>3, <1>4 DEF Mode

\* A receipt that is stored joins the ones there are.
LEMMA StoredHarmless ==
  ASSUME EditsInv, NEW receipt \in Receipt, ReceiptHarmless(receipt), held' = held,
         receipts' = Stored(receipt)
  PROVE  ReceiptsHarmless'
BY StoreReceipt
DEF EditsInv, CommittedInv, ReceiptsHarmless, ReceiptHarmless, Intended, Harmless, Contents

\* Parts of the invariant when nothing new is planned.
LEMMA NothingPlanned ==
  ASSUME EditsInv, held' = held
  PROVE  /\ flight' = flight \/ flight' = None \/ flight'.pc \notin {"preparing", "applying"}
              => FlightKnown'
         /\ Range(receipts') \subseteq Range(receipts) => ReceiptsHarmless'
         /\ (\A q \in Range(toMax') : q \in Range(toMax) \/ q.type = "inspect")
              => RequestsHarmless'
         /\ mem' = mem /\ disk' = disk => StatesKnown'
BY DEF EditsInv, FlightKnown, ReceiptsHarmless, ReceiptHarmless, RequestsHarmless,
       RequestHarmless, Intended, Harmless, Known, Contents, StatesKnown, StateKnown

\* The only new request is the one that is sent, on an open connection.
LEMMA SentRange ==
  ASSUME TypeOK, NEW request \in Request, Send(request)
  PROVE  \A q \in Range(toMax') : q \in Range(toMax) \/ (link = "open" /\ q = request)
BY AppendRange DEF TypeOK, Send

\* The only new event is the one Max replies with, on an open connection.
LEMMA RepliedRange ==
  ASSUME TypeOK, NEW event \in Event, Reply(event)
  PROVE  \A e \in Range(fromMax') : e \in Range(fromMax) \/ (link = "open" /\ e = event)
BY AppendRange DEF TypeOK, Reply

\* Traffic on a connection that stays as it is.
LEMMA SameConnection ==
  ASSUME EditsInv, link' = link, max'.revision = max.revision,
         \/ registry' = registry
         \/ /\ link \in {"open", "closedByMax"}
            /\ \E e \in Range(fromMax) : e.type # "error" /\ registry' = e.revision,
         \A e \in Range(fromMax') :
           \/ e \in Range(fromMax)
           \/ link = "open" /\ (e.type # "error" => e.revision = max.revision),
         \A q \in Range(toMax') :
           \/ q \in Range(toMax)
           \/ /\ link = "open"
              /\ q.type = "apply" => registry' # None /\ q.base = RevisionOf(registry')
  PROVE  Severed' /\ Unsynchronised'
<1>1. Severed'
  BY DEF EditsInv, Severed
<1>2. Unsynchronised'
  <2> SUFFICES ASSUME link \in {"open", "closedByBridge"}, max.revision = Null
               PROVE  /\ registry' \in {None, Null}
                      /\ \A e \in Range(fromMax') : e.type # "error" => e.revision = Null
                      /\ \A q \in Range(toMax') : q.type = "apply" => q.base = EmptyGraph
    BY DEF Unsynchronised
  <2>1. /\ registry \in {None, Null}
        /\ \A e \in Range(fromMax) : e.type # "error" => e.revision = Null
        /\ \A q \in Range(toMax) : q.type = "apply" => q.base = EmptyGraph
    BY DEF EditsInv, Unsynchronised
  <2>2. registry' \in {None, Null}
    BY <2>1
  <2> QED
    BY <2>1, <2>2 DEF RevisionOf
<1> QED
  BY <1>1, <1>2

\* An inspection is asked for.
LEMMA AskedHarmless ==
  ASSUME EditsInv, NEW id \in FreshId, Send(Inspect(id)),
         UNCHANGED <<link, fromMax, max, registry>>, held' = held
  PROVE  RequestsHarmless' /\ Severed' /\ Unsynchronised'
<1>1. Inspect(id) \in Request /\ Inspect(id).type = "inspect"
  BY FreshIdIsFresh DEF Inspect, Request
<1>2. \A q \in Range(toMax') : q \in Range(toMax) \/ (link = "open" /\ q.type = "inspect")
  BY <1>1, SentRange DEF EditsInv, CommittedInv
<1> QED
  BY <1>2, NothingPlanned, SameConnection

\* The event a snapshot or an acknowledgement is.
LEMMA AnswerOnWire ==
  ASSUME EditsInv, NEW type, NEW pcs, Answer(type, pcs)
  PROVE  /\ Range(fromMax') \subseteq Range(fromMax)
         /\ Head(fromMax) \in Range(fromMax)
         /\ Head(fromMax).type = type
         /\ link \in {"open", "closedByMax"}
BY ReceiveRange DEF Answer, Receive, EditsInv, CommittedInv

\* The report an operation takes in.
LEMMA SnapshotOnWire ==
  ASSUME EditsInv, NEW pcs, SnapshotArrives(pcs)
  PROVE  /\ Range(fromMax') \subseteq Range(fromMax)
         /\ link \in {"open", "closedByMax"}
         /\ \E e \in Range(fromMax) : e.type # "error" /\ registry' = e.revision
         /\ registry' = Head(fromMax).revision
         /\ Head(fromMax).live \in Live /\ registry' \in Revision
         /\ flight \in Flight /\ flight.pc \in pcs /\ flight # None
<1>1. /\ Range(fromMax') \subseteq Range(fromMax)
      /\ Head(fromMax) \in Range(fromMax)
      /\ Head(fromMax).type = "snapshot"
      /\ link \in {"open", "closedByMax"}
  BY AnswerOnWire DEF SnapshotArrives
<1>2. registry' = Head(fromMax).revision /\ flight # None
  BY DEF SnapshotArrives, Answer
<1>3. /\ Head(fromMax).live \in Live /\ registry' \in Revision
      /\ flight \in Flight /\ flight.pc \in pcs
  BY SnapshotType DEF EditsInv, CommittedInv
<1> QED
  BY <1>1, <1>2, <1>3

\* Adopting or recovering asks for a plan without operations.
LEMMA AdoptOrRebaseKnown ==
  ASSUME EditsInv, NEW base \in Graph, base \in held, NEW live \in Live,
         NEW superseded \in BOOLEAN, AdoptOrRebase(base, live, superseded), held' = held,
         link' = link, max' = max, Range(fromMax') \subseteq Range(fromMax),
         link \in {"open", "closedByMax"},
         \E e \in Range(fromMax) : e.type # "error" /\ registry' = e.revision,
         base = RevisionOf(registry'), registry' # None
  PROVE  /\ StatesKnown'
         /\ flight' = None \/ flight'.pc = "rebasing"
         /\ RequestsHarmless' /\ Severed' /\ Unsynchronised'
<1>1. StateKnown(mem) /\ mem \in State /\ TypeOK
  BY DEF EditsInv, StatesKnown, CommittedInv, TypeOK
<1>2. CASE live.managed = base
  <2>1. mem' = Adopted(base) /\ disk' = Persisted(mem') /\ flight' = None /\ toMax' = toMax
    BY <1>2 DEF AdoptOrRebase
  <2>2. StateKnown(mem')
    BY <2>1, CommittedKnown DEF Adopted, StateKnown
  <2>3. StatesKnown'
    BY <2>1, <2>2, SavedKnown DEF StateKnown, Known, Intended, Contents
  <2> QED
    BY <2>1, <2>3, NothingPlanned, SameConnection
<1>3. CASE live.managed # base
  <2> DEFINE observed == live.managed
             request(id) ==
               [type |-> "apply", id |-> id, base |-> base, next |-> observed,
                from |-> observed, to |-> observed, mergeBase |-> observed,
                token |-> live]
  <2>1. Rebase(base, observed, live, superseded) /\ observed \in Graph
    BY <1>3 DEF AdoptOrRebase, Live
  <2>2. StatesKnown'
    <3>1. /\ mem'.intent = mem.intent /\ mem'.baseline = mem.baseline
          /\ mem'.pending.intent = observed /\ mem'.pending.next = observed
          /\ disk' = Persisted(mem')
      BY <1>1, <2>1 DEF Rebase, State
    <3>2. Intended(mem'.pending.intent, mem'.pending.next)
      BY <3>1 DEF Intended
    <3>3. StateKnown(mem')
      BY <1>1, <3>1, <3>2 DEF StateKnown
    <3> QED
      BY <3>1, <3>3, SavedKnown DEF StateKnown, Known, Intended, Contents
  <2>3. CASE diskFull
    <3>1. flight' = None /\ toMax' = toMax
      BY <2>1, <2>3 DEF Rebase
    <3> QED
      BY <2>2, <3>1, NothingPlanned, SameConnection
  <2>4. CASE ~diskFull
    <3>1. PICK id \in FreshId :
            /\ flight' = [pc |-> "rebasing", id |-> id, next |-> observed]
            /\ Send(request(id))
      BY <2>1, <2>4 DEF Rebase
    <3> DEFINE q == request(id)
    <3>2. q \in Request /\ q.type = "apply" /\ q.base = base
      BY <2>1, FreshIdIsFresh DEF Request, Live
    <3>3. RequestHarmless(q)
      BY DEF RequestHarmless, Harmless, Changed
    <3>4. Send(q)
      BY <3>1
    <3> HIDE DEF q
    <3>5. \A x \in Range(toMax') : x \in Range(toMax) \/ (link = "open" /\ x = q)
      BY <1>1, <3>2, <3>4, SentRange
    <3>6. RequestsHarmless'
      BY <3>3, <3>5
      DEF EditsInv, RequestsHarmless, RequestHarmless, Harmless, Contents
    <3>7. Severed' /\ Unsynchronised'
      BY <3>2, <3>5, SameConnection
    <3> QED
      BY <2>2, <3>1, <3>6, <3>7
  <2> QED
    BY <2>3, <2>4
<1> QED
  BY <1>2, <1>3

\* A request that fails leaves known graphs.
LEMMA FailsKnown ==
  ASSUME EditsInv, Fails, held' = held
  PROVE  StatesKnown' /\ flight' = None
<1>1. CASE UNCHANGED <<mem, disk>>
  BY <1>1, NothingPlanned DEF Fails
<1>2. CASE mem' = [mem EXCEPT !.baseline = None] /\ disk' = Persisted(mem')
  <2>1. /\ mem'.intent = mem.intent /\ mem'.pending = mem.pending
        /\ mem'.baseline = None
    BY <1>2 DEF EditsInv, CommittedInv, TypeOK, State
  <2>2. StateKnown(mem')
    BY <2>1 DEF EditsInv, StatesKnown, StateKnown
  <2> QED
    BY <1>2, <2>2, SavedKnown DEF Fails, StateKnown, Known, Intended, Contents
<1> QED
  BY <1>1, <1>2 DEF Fails

\* The bridge forgets the connection.
LEMMA ForgottenKnown ==
  ASSUME EditsInv, BridgeForgets, toMax' = toMax,
         \/ link = "closedByMax" /\ link' = "down"
         \/ link = "open" /\ link' = "closedByBridge"
  PROVE  /\ StatesKnown' /\ FlightKnown' /\ ReceiptsHarmless'
         /\ RequestsHarmless' /\ Severed' /\ Unsynchronised'
<1>1. held' = held /\ receipts' = receipts /\ max' = max /\ registry' = None
  BY DEF BridgeForgets, native
<1>2. Range(fromMax') = {}
  BY EmptyRange DEF BridgeForgets
<1>3. StatesKnown' /\ flight' = None
  BY <1>1, FailsKnown DEF BridgeForgets
<1>4. FlightKnown' /\ ReceiptsHarmless' /\ RequestsHarmless'
  BY <1>1, <1>3, NothingPlanned
<1>5. Severed'
  BY <1>1, <1>2 DEF EditsInv, Severed
<1>6. Unsynchronised'
  BY <1>1, <1>2 DEF EditsInv, Unsynchronised
<1> QED
  BY <1>3, <1>4, <1>5, <1>6

\* Max's end of the connection goes.
LEMMA ClosedKnown ==
  ASSUME EditsInv, MaxEndCloses, UNCHANGED <<mem, disk, receipts, registry, flight, fromMax, held>>
  PROVE  /\ StatesKnown' /\ FlightKnown' /\ ReceiptsHarmless'
         /\ RequestsHarmless' /\ Severed' /\ Unsynchronised'
<1>1. Range(toMax') = {} /\ link' \in {"down", "closedByMax"}
      /\ (link' = "down" => link \in {"down", "closedByBridge"})
  BY EmptyRange DEF MaxEndCloses, EditsInv, CommittedInv, TypeOK
<1>2. Severed' /\ Unsynchronised'
  BY <1>1 DEF EditsInv, Severed, Unsynchronised
<1> QED
  BY <1>1, <1>2, NothingPlanned

\* The rest of a step that only takes an answer in.
LEMMA TakenAnswer ==
  ASSUME EditsInv, NEW type \in {"snapshot", "applied"}, NEW pcs, Answer(type, pcs),
         registry' = Head(fromMax).revision, link' = link, max' = max,
         \A q \in Range(toMax') : q \in Range(toMax) \/ (link = "open" /\ q.type = "inspect")
  PROVE  Severed' /\ Unsynchronised'
<1>1. /\ Range(fromMax') \subseteq Range(fromMax)
      /\ \E e \in Range(fromMax) : e.type # "error" /\ registry' = e.revision
      /\ link \in {"open", "closedByMax"}
  BY AnswerOnWire
<1> QED
  BY <1>1, SameConnection

\* Every step keeps what plans are made of.
LEMMA EditsStep == EditsInv /\ [Next]_vars => EditsInv'
<1> SUFFICES ASSUME EditsInv, [Next]_vars
             PROVE  EditsInv'
  OBVIOUS
<1>0. TypeOK /\ TypeOK' /\ CommittedInv /\ CommittedInv'
  BY CommittedStep DEF EditsInv, CommittedInv
<1> DEFINE Goal == /\ StatesKnown' /\ FlightKnown' /\ ReceiptsHarmless'
                   /\ RequestsHarmless' /\ Severed' /\ Unsynchronised'
<1> SUFFICES Goal
  BY <1>0 DEF EditsInv
<1>1. CASE RefusedAfterResolve
  <2>1. StatesKnown'
    BY <1>1, SettledKnown DEF RefusedAfterResolve, native
  <2> QED
    BY <1>1, <2>1, NothingPlanned, SameConnection DEF RefusedAfterResolve, wire, native
<1>2. CASE PrepareStart
  <2>1. PICK supplied \in BOOLEAN, mode \in Mode, current \in Graph,
             desired \in Graph, id \in FreshId :
          /\ flight' = Preparation(mem', supplied, mode, current, desired, id)
          /\ Send(Inspect(id))
    BY <1>2 DEF PrepareStart
  <2>2. StatesKnown' /\ mem' \in State /\ held' = held
    BY <1>0, <1>2, SettledKnown DEF PrepareStart, Resolves, native, TypeOK
  <2>3. PICK state : state = mem' /\ state \in State
    BY <2>2
  <2>4. StateKnown(state)
    BY <2>2, <2>3 DEF StatesKnown, StateKnown, Known, Intended, Contents
  <2>5. /\ flight'.mergeBase = flight'.current \/ Known(flight'.mergeBase)
        /\ flight'.baseline # None => Known(flight'.baseline)
        /\ flight'.pc = "preparing"
    BY <2>1, <2>3, <2>4, PreparationKnown DEF Preparation
  <2>6. FlightKnown'
    BY <2>2, <2>5 DEF FlightKnown, Known, Contents
  <2>7. RequestsHarmless' /\ Severed' /\ Unsynchronised'
    BY <1>2, <2>1, AskedHarmless DEF PrepareStart, native
  <2>8. ReceiptsHarmless'
    BY <1>2, <2>2, NothingPlanned DEF PrepareStart
  <2> QED
    BY <2>2, <2>6, <2>7, <2>8
<1>3. CASE PrepareCached
  <2>1. PICK supplied \in BOOLEAN, mode \in Mode, current \in Graph, desired \in Graph :
          LET prep == Preparation(mem', supplied, mode, current, desired, None)
          IN  /\ PlanExists(prep, cached)
              /\ receipts' = Stored(ReceiptFor(prep, cached))
    BY <1>3 DEF PrepareCached
  <2>2. StatesKnown' /\ mem' \in State /\ held' = held
    BY <1>0, <1>3, SettledKnown DEF PrepareCached, Resolves, native, TypeOK
  <2>3. PICK state : state = mem' /\ state \in State
    BY <2>2
  <2>4. StateKnown(state)
    BY <2>2, <2>3 DEF StatesKnown, StateKnown, Known, Intended, Contents
  <2>5. PICK prep : prep = Preparation(state, supplied, mode, current, desired, None)
    OBVIOUS
  <2>6. /\ prep.current = current /\ prep.desired = desired /\ prep.mergeBase \in Graph
        /\ prep.mergeBase = prep.current \/ Known(prep.mergeBase)
        /\ prep.baseline # None => Known(prep.baseline)
        /\ prep.mode = mode
    BY <2>3, <2>4, <2>5, PreparationType, PreparationKnown DEF Preparation
  <2>7. cached \in Snapshot /\ Committed(cached.revision)
    BY <1>0, <1>3 DEF PrepareCached, TypeOK, CommittedInv, ReportsCommitted
  <2>8. PlanExists(prep, cached) /\ receipts' = Stored(ReceiptFor(prep, cached))
    BY <2>1, <2>3, <2>5
  <2>9. prep.current \in held
    BY <2>7, <2>8 DEF PlanExists, Committed
  <2>10. ReceiptsHarmless'
    <3>1. ReceiptFor(prep, cached) \in Receipt
      BY <2>6, <2>7, ReceiptType
    <3>2. ReceiptHarmless(ReceiptFor(prep, cached))
      BY <2>6, <2>7, <2>8, <2>9, PlanHarmless
    <3> QED
      BY <2>2, <2>8, <3>1, <3>2, StoredHarmless
  <2> QED
    BY <1>3, <2>2, <2>10, NothingPlanned, SameConnection DEF PrepareCached, wire, native
<1>4. ASSUME NEW i \in DOMAIN receipts
      PROVE  ApplyForOtherCatalog(i) \/ ApplyStale(i) \/ ApplyReceipt(i) => Goal
  <2>1. /\ Range(RemoveAt(receipts, i)) \subseteq Range(receipts)
        /\ receipts[i] \in Range(receipts)
    BY <1>0, RemoveReceipt DEF TypeOK, Range
  <2>2. CASE ApplyForOtherCatalog(i)
    BY <2>1, <2>2, NothingPlanned, SameConnection
    DEF ApplyForOtherCatalog, wire, native
  <2>3. CASE ApplyStale(i)
    <3>1. StatesKnown'
      <4>1. CASE UNCHANGED <<mem, disk>>
        BY <2>3, <4>1, NothingPlanned DEF ApplyStale, native
      <4>2. CASE Resolvable /\ mem' = Resolved
                 /\ disk' = IF mem.pending = None THEN disk ELSE Persisted(mem')
        BY <2>3, <4>2, SettledKnown DEF ApplyStale, native
      <4> QED
        BY <2>3, <4>1, <4>2 DEF ApplyStale
    <3> QED
      BY <2>1, <2>3, <3>1, NothingPlanned, SameConnection DEF ApplyStale, wire, native
  <2>4. CASE ApplyReceipt(i)
    <3> DEFINE record(r) == [base |-> r.base, next |-> r.next, intent |-> r.intent,
                             superseded |-> FALSE]
               request(r, id) ==
                 [type |-> "apply", id |-> id, base |-> r.base, next |-> r.next,
                  from |-> r.from, to |-> r.next, mergeBase |-> r.mergeBase,
                  token |-> r.token]
    <3>1. PICK r \in Receipt : r = receipts[i] /\ ReceiptHarmless(r)
      BY <1>0, <2>1, LenProperties, ElementOfSeq DEF TypeOK, EditsInv, ReceiptsHarmless
    <3>2. /\ mem' = [Resolved EXCEPT !.pending = record(r)] /\ disk' = Persisted(mem')
          /\ receipts' = RemoveAt(receipts, i) /\ held' = held
      BY <2>4, <3>1 DEF ApplyReceipt, native
    <3>3. StatesKnown'
      <4>1. StateKnown(Resolved) /\ Resolved \in State
        BY <1>0, <2>4, ResolvedKnown, ResolvedType DEF ApplyReceipt, Resolves
      <4>2. /\ mem'.intent = Resolved.intent /\ mem'.baseline = Resolved.baseline
            /\ mem'.pending = record(r)
        BY <3>2, <4>1 DEF State
      <4>3. StateKnown(mem')
        BY <3>1, <4>1, <4>2 DEF StateKnown, ReceiptHarmless
      <4> QED
        BY <3>2, <4>3, SavedKnown DEF StateKnown, Known, Intended, Contents
    <3>4. ReceiptsHarmless'
      BY <2>1, <3>2, NothingPlanned
    <3>5. FlightKnown' /\ RequestsHarmless' /\ Severed' /\ Unsynchronised'
      <4>0. UNCHANGED <<link, fromMax, max, registry>>
        BY <2>4 DEF ApplyReceipt, native
      <4>1. CASE UNCHANGED <<flight, toMax>>
        BY <3>2, <4>0, <4>1, NothingPlanned, SameConnection
      <4>2. CASE /\ Admits
                 /\ \E id \in FreshId :
                      /\ flight' = [pc |-> "applying", id |-> id, next |-> r.next,
                                    intent |-> r.intent]
                      /\ Send(request(r, id))
        <5>1. PICK id \in FreshId :
                /\ flight' = [pc |-> "applying", id |-> id, next |-> r.next,
                              intent |-> r.intent]
                /\ Send(request(r, id))
          BY <4>2
        <5> DEFINE q == request(r, id)
        <5>2. q \in Request /\ q.type = "apply" /\ q.base = r.base
          BY FreshIdIsFresh DEF Receipt, Request
        <5>3. RequestHarmless(q)
          BY <3>1 DEF RequestHarmless, ReceiptHarmless
        <5>4. Send(q)
          BY <5>1
        <5> HIDE DEF q
        <5>5. \A x \in Range(toMax') : x \in Range(toMax) \/ (link = "open" /\ x = q)
          BY <1>0, <5>2, <5>4, SentRange
        <5>6. RequestsHarmless'
          BY <3>2, <5>3, <5>5
          DEF EditsInv, RequestsHarmless, RequestHarmless, Harmless, Contents
        <5>7. registry' # None /\ q.base = RevisionOf(registry')
          BY <2>4, <3>1, <4>0, <4>2, <5>2 DEF Admits, ApplyReceipt, BaseHolds
        <5>8. Severed' /\ Unsynchronised'
          BY <4>0, <5>5, <5>7, SameConnection
        <5>9. FlightKnown'
          BY <3>1, <3>2, <5>1 DEF FlightKnown, ReceiptHarmless, Intended, Contents
        <5> QED
          BY <5>6, <5>8, <5>9
      <4> QED
        BY <2>4, <3>1, <4>1, <4>2 DEF ApplyReceipt
    <3> QED
      BY <3>3, <3>4, <3>5
  <2> QED
    BY <2>2, <2>3, <2>4
<1>5. CASE InspectStart
  <2>1. PICK id \in FreshId, pc \in {"inspecting", "looking"} :
          flight' = [pc |-> pc, id |-> id] /\ Send(Inspect(id))
    BY <1>5 DEF InspectStart
  <2> QED
    BY <1>5, <2>1, AskedHarmless, NothingPlanned DEF InspectStart, service, native
<1>6. CASE ReviewStart
  <2>1. PICK id \in FreshId :
          flight' = [pc |-> "looking", id |-> id] /\ Send(Inspect(id))
    BY <1>6 DEF ReviewStart
  <2>2. StatesKnown'
    BY <1>6, SettledKnown DEF ReviewStart, Resolves, native
  <2> QED
    BY <1>6, <2>1, <2>2, AskedHarmless, NothingPlanned DEF ReviewStart, native
<1>7. CASE AdoptStart
  <2>1. PICK id \in FreshId :
          /\ flight' = [pc |-> "adopting", id |-> id, current |-> mem'.managed]
          /\ Send(Inspect(id))
    BY <1>7 DEF AdoptStart
  <2>2. StatesKnown'
    BY <1>7, SettledKnown DEF AdoptStart, Resolves, native
  <2> QED
    BY <1>7, <2>1, <2>2, AskedHarmless, NothingPlanned DEF AdoptStart, native
<1>8. CASE RecoverStart
  <2>1. PICK id \in FreshId :
          /\ flight' = [pc |-> "recovering", id |-> id, live |-> registry]
          /\ Send(Inspect(id))
    BY <1>8 DEF RecoverStart
  <2> QED
    BY <1>8, <2>1, AskedHarmless, NothingPlanned DEF RecoverStart, service, native
<1>9. CASE BridgeRegisters
  <2>1. /\ Head(fromMax) \in Range(fromMax) /\ Range(fromMax') \subseteq Range(fromMax)
        /\ Head(fromMax).type = "registered" /\ link \in {"open", "closedByMax"}
    BY <1>0, <1>9, ReceiveRange DEF BridgeRegisters, Receive
  <2> QED
    BY <1>9, <2>1, NothingPlanned, SameConnection DEF BridgeRegisters, service, native
<1>10. CASE BridgeIgnores
  <2>1. Range(fromMax') \subseteq Range(fromMax)
    BY <1>0, <1>10, ReceiveRange DEF BridgeIgnores
  <2> QED
    BY <1>10, <2>1, NothingPlanned, SameConnection DEF BridgeIgnores, service, native
<1>11. CASE InspectionArrives
  BY <1>11, TakenAnswer, NothingPlanned DEF InspectionArrives, SnapshotArrives, native
<1>12. CASE PreparationArrives
  <2>1. /\ cached'.revision = registry' /\ cached' \in Snapshot /\ Committed(registry')
        /\ flight \in Flight /\ flight.pc = "preparing" /\ flight # None
    BY <1>0, <1>12, SnapshotCommitted, SnapshotType
    DEF PreparationArrives, SnapshotArrives, Answer
  <2>2. ReceiptsHarmless'
    <3>1. CASE receipts' = receipts
      BY <1>12, <3>1, NothingPlanned DEF PreparationArrives, native
    <3>2. CASE /\ PlanExists(flight, cached')
               /\ receipts' = Stored(ReceiptFor(flight, cached'))
      <4>1. PICK prep, snapshot : prep = flight /\ snapshot = cached'
        OBVIOUS
      <4>2. prep.current \in held
        BY <2>1, <3>2, <4>1 DEF PlanExists, Committed
      <4>3. /\ prep.current \in Graph /\ prep.desired \in Graph
            /\ prep.mergeBase \in Graph /\ prep.mode \in Mode
        BY <2>1, <4>1 DEF Flight
      <4>4. /\ prep.mergeBase = prep.current \/ Known(prep.mergeBase)
            /\ prep.baseline # None => Known(prep.baseline)
        BY <2>1, <4>1 DEF EditsInv, FlightKnown
      <4>5. /\ snapshot \in Snapshot /\ PlanExists(prep, snapshot)
            /\ receipts' = Stored(ReceiptFor(prep, snapshot))
        BY <2>1, <3>2, <4>1
      <4>6. ReceiptHarmless(ReceiptFor(prep, snapshot))
        BY <4>2, <4>3, <4>4, <4>5, PlanHarmless
      <4> QED
        BY <1>12, <4>3, <4>5, <4>6, ReceiptType, StoredHarmless
        DEF PreparationArrives, native
    <3> QED
      BY <1>12, <3>1, <3>2 DEF PreparationArrives
  <2> QED
    BY <1>12, <2>2, TakenAnswer, NothingPlanned
    DEF PreparationArrives, SnapshotArrives, native
<1>13. CASE AdoptionArrives
  <2>1. /\ Range(fromMax') \subseteq Range(fromMax) /\ link \in {"open", "closedByMax"}
        /\ \E e \in Range(fromMax) : e.type # "error" /\ registry' = e.revision
        /\ Head(fromMax).live \in Live /\ registry' = Head(fromMax).revision
        /\ flight \in Flight /\ flight.pc = "adopting" /\ flight # None
        /\ registry' \in Revision
    BY <1>13, SnapshotOnWire DEF AdoptionArrives
  <2>2. flight.current \in Graph /\ flight.current \in held
    BY <1>0, <2>1 DEF Flight, CommittedInv, BasesCommitted
  <2>3. registry' # None
    BY <2>1, NoneAssumption DEF Revision
  <2>4. /\ StatesKnown' /\ RequestsHarmless' /\ Severed' /\ Unsynchronised'
        /\ flight' = None \/ flight'.pc = "rebasing"
    <3>1. CASE GivesUp
      BY <1>13, <2>1, <3>1, NothingPlanned, SameConnection
      DEF AdoptionArrives, GivesUp, native
    <3>2. CASE /\ flight.current = RevisionOf(Head(fromMax).revision)
               /\ AdoptOrRebase(flight.current, Head(fromMax).live, FALSE)
      BY <1>13, <2>1, <2>2, <2>3, <3>2, AdoptOrRebaseKnown DEF AdoptionArrives, native
    <3> QED
      BY <1>13, <3>1, <3>2 DEF AdoptionArrives
  <2> QED
    BY <1>13, <2>4, NothingPlanned DEF AdoptionArrives, native
<1>14. CASE RecoveryArrives
  <2>1. /\ Range(fromMax') \subseteq Range(fromMax) /\ link \in {"open", "closedByMax"}
        /\ \E e \in Range(fromMax) : e.type # "error" /\ registry' = e.revision
        /\ Head(fromMax).live \in Live /\ registry' = Head(fromMax).revision
        /\ flight \in Flight /\ flight.pc = "recovering" /\ flight # None
    BY <1>14, SnapshotOnWire DEF RecoveryArrives
  <2>2. flight.live \in Graph /\ flight.live \in held
    BY <1>0, <2>1 DEF Flight, CommittedInv, BasesCommitted
  <2>4. /\ StatesKnown' /\ RequestsHarmless' /\ Severed' /\ Unsynchronised'
        /\ flight' = None \/ flight'.pc = "rebasing"
    <3>1. CASE GivesUp
      BY <1>14, <2>1, <3>1, NothingPlanned, SameConnection
      DEF RecoveryArrives, GivesUp, native
    <3>2. CASE /\ Head(fromMax).revision = flight.live
               /\ AdoptOrRebase(flight.live, Head(fromMax).live, TRUE)
      <4>1. registry' # None /\ flight.live = RevisionOf(registry')
        BY <2>1, <2>2, <3>2, NoneAssumption DEF RevisionOf
      <4> QED
        BY <1>14, <2>1, <2>2, <3>2, <4>1, AdoptOrRebaseKnown DEF RecoveryArrives, native
    <3> QED
      BY <1>14, <3>1, <3>2 DEF RecoveryArrives
  <2> QED
    BY <1>14, <2>4, NothingPlanned DEF RecoveryArrives, native
<1>15. CASE ApplyAcknowledged
  <2>1. flight # None /\ flight.pc = "applying" /\ flight.next \in held /\ held' = held
    BY <1>0, <1>15, AcknowledgementCommitted
    DEF ApplyAcknowledged, Acknowledgement, Answer, native
  <2>2. PICK id \in FreshId :
          /\ flight' = [pc |-> "capturing", id |-> id, next |-> flight.next]
          /\ Send(Inspect(id))
    BY <1>15 DEF ApplyAcknowledged
  <2>3. StatesKnown'
    <3>1. /\ mem'.intent = flight.intent /\ mem'.pending = None
          /\ mem'.baseline = mem.baseline
      BY <1>0, <1>15 DEF ApplyAcknowledged, TypeOK, State
    <3>2. Known(flight.intent)
      BY <2>1 DEF EditsInv, FlightKnown, Intended, Known, Contents
    <3>3. StateKnown(mem')
      BY <3>1, <3>2 DEF EditsInv, StatesKnown, StateKnown
    <3> QED
      BY <1>15, <2>1, <3>3, SavedKnown
      DEF ApplyAcknowledged, StateKnown, Known, Intended, Contents
  <2>4. Inspect(id) \in Request /\ Inspect(id).type = "inspect"
    BY FreshIdIsFresh DEF Inspect, Request
  <2>5. \A q \in Range(toMax') : q \in Range(toMax) \/ (link = "open" /\ q.type = "inspect")
    BY <1>0, <2>2, <2>4, SentRange
  <2>6. Severed' /\ Unsynchronised'
    BY <1>15, <2>5, TakenAnswer DEF ApplyAcknowledged, Acknowledgement, native
  <2> QED
    BY <1>15, <2>1, <2>2, <2>3, <2>5, <2>6, NothingPlanned DEF ApplyAcknowledged
<1>16. CASE RebaseAcknowledged
  <2>1. flight.next \in held /\ held' = held
    BY <1>0, <1>16, AcknowledgementCommitted DEF RebaseAcknowledged, native
  <2>2. StatesKnown'
    <3>1. StateKnown(mem')
      BY <1>16, <2>1, CommittedKnown DEF RebaseAcknowledged, Adopted, StateKnown
    <3> QED
      BY <1>16, <2>1, <3>1, SavedKnown
      DEF RebaseAcknowledged, StateKnown, Known, Intended, Contents
  <2> QED
    BY <1>16, <2>1, <2>2, TakenAnswer, NothingPlanned
    DEF RebaseAcknowledged, Acknowledgement, native
<1>17. CASE BaselineArrives
  <2>1. /\ Committed(registry') /\ flight \in Flight /\ flight.pc = "capturing"
        /\ registry' = Head(fromMax).revision /\ held' = held
    BY <1>0, <1>17, SnapshotCommitted, SnapshotType
    DEF BaselineArrives, SnapshotArrives, native
  <2>2. StatesKnown'
    <3>1. /\ mem'.intent = mem.intent /\ mem'.pending = mem.pending
          /\ \/ mem'.baseline = None
             \/ mem'.baseline = flight.next /\ registry' = flight.next
      BY <1>0, <1>17, <2>1 DEF BaselineArrives, TypeOK, State
    <3>2. ASSUME mem'.baseline # None PROVE Known(mem'.baseline)
      <4>1. flight.next \in Graph
        BY <2>1 DEF Flight
      <4>2. flight.next \in held
        BY <2>1, <3>1, <3>2, <4>1, NoneAssumption DEF Committed, RevisionOf
      <4> QED
        BY <3>1, <3>2, <4>2, CommittedKnown
    <3>3. StateKnown(mem')
      BY <3>1, <3>2 DEF EditsInv, StatesKnown, StateKnown
    <3> QED
      BY <1>17, <2>1, <3>3, SavedKnown
      DEF BaselineArrives, StateKnown, Known, Intended, Contents
  <2> QED
    BY <1>17, <2>1, <2>2, TakenAnswer, NothingPlanned
    DEF BaselineArrives, SnapshotArrives, native
<1>18. CASE ErrorArrives
  <2>1. Range(fromMax') \subseteq Range(fromMax) /\ link \in {"open", "closedByMax"}
    BY <1>18, AnswerOnWire DEF ErrorArrives
  <2>2. StatesKnown' /\ flight' = None
    BY <1>18, FailsKnown DEF ErrorArrives, native
  <2> QED
    BY <1>18, <2>1, <2>2, NothingPlanned, SameConnection DEF ErrorArrives, native
<1>19. CASE TimesOut
  <2>1. StatesKnown' /\ flight' = None
    BY <1>19, FailsKnown DEF TimesOut, native
  <2> QED
    BY <1>19, <2>1, NothingPlanned, SameConnection DEF TimesOut, wire, native
<1>20. CASE MaxInspects
  <2>1. Range(toMax') \subseteq Range(toMax) /\ Head(toMax) \in Request
        /\ Head(toMax).type = "inspect"
    BY <1>0, <1>20, MaxReceivesRange DEF MaxInspects, MaxReceives
  <2> DEFINE event == [type |-> "snapshot", id |-> Head(toMax).id,
                       revision |-> max.revision, live |-> max.live]
  <2>2. event \in Event /\ event.revision = max.revision
    BY <1>0, <2>1 DEF TypeOK, Patch, Request, Event
  <2>3. Reply(event)
    BY <1>20 DEF MaxInspects
  <2> HIDE DEF event
  <2>4. \A e \in Range(fromMax') : e \in Range(fromMax) \/ (link = "open" /\ e = event)
    BY <1>0, <2>2, <2>3, RepliedRange
  <2> QED
    BY <1>20, <2>1, <2>2, <2>4, NothingPlanned, SameConnection
    DEF MaxInspects, service, native
<1>21. CASE MaxApplies
  <2>1. /\ Range(toMax') \subseteq Range(toMax) /\ Head(toMax) \in Request
        /\ Head(toMax).type = "apply" /\ link \in {"open", "closedByBridge"}
    BY <1>0, <1>21, MaxReceivesRange DEF MaxApplies, MaxReceives
  <2> DEFINE event == [type |-> "applied", id |-> Head(toMax).id,
                       revision |-> Head(toMax).next]
  <2>2. event \in Event /\ Head(toMax).next \in Graph
    BY <2>1 DEF Request, Event
  <2>3. Reply(event) /\ max'.revision = Head(toMax).next
    BY <1>21 DEF MaxApplies
  <2> HIDE DEF event
  <2>4. \A e \in Range(fromMax') : e \in Range(fromMax) \/ (link = "open" /\ e = event)
    BY <1>0, <2>2, <2>3, RepliedRange
  <2>5. Severed' /\ Unsynchronised'
    BY <1>21, <2>1, <2>2, <2>3, <2>4, NoneAssumption
    DEF MaxApplies, EditsInv, Severed, Unsynchronised
  <2>6. \A b \in Box : Contents(b) \subseteq Contents(b)'
    BY <1>21 DEF MaxApplies, Contents
  <2>7. UNCHANGED <<mem, disk, receipts, flight>>
    BY <1>21 DEF MaxApplies, service
  <2>8. \A g : Known(g) => Known(g)'
    BY <2>6 DEF Known
  <2>9. \A g, h : Intended(g, h) => Intended(g, h)'
    BY <2>6 DEF Intended
  <2>10. \A base, from, to, boxes : Harmless(base, from, to, boxes) => Harmless(base, from, to, boxes)'
    BY <2>6 DEF Harmless, Changed
  <2>11. StatesKnown' /\ FlightKnown'
    BY <2>7, <2>8, <2>9 DEF EditsInv, StatesKnown, StateKnown, FlightKnown
  <2>12. ReceiptsHarmless' /\ RequestsHarmless'
    BY <2>1, <2>7, <2>9, <2>10
    DEF EditsInv, ReceiptsHarmless, ReceiptHarmless, RequestsHarmless, RequestHarmless
  <2> QED
    BY <2>5, <2>11, <2>12
<1>22. ASSUME \/ MaxRefuses
              \/ MaxFailsHalfway
       PROVE  Goal
  <2>1. /\ Range(toMax') \subseteq Range(toMax) /\ Head(toMax) \in Request
        /\ UNCHANGED <<mem, disk, receipts, registry, flight, link, held>>
        /\ max'.revision = max.revision
    BY <1>0, <1>22, MaxReceivesRange
    DEF MaxRefuses, MaxFailsHalfway, service, native, TypeOK, Patch
  <2> DEFINE event == [type |-> "error", id |-> Head(toMax).id]
  <2>2. event \in Event /\ event.type = "error"
    BY <2>1 DEF Request, Event
  <2>3. Reply(event)
    BY <1>22 DEF MaxRefuses, MaxFailsHalfway
  <2> HIDE DEF event
  <2>4. \A e \in Range(fromMax') : e \in Range(fromMax) \/ (link = "open" /\ e = event)
    BY <1>0, <2>2, <2>3, RepliedRange
  <2> QED
    BY <2>1, <2>2, <2>4, NothingPlanned, SameConnection
<1>24. CASE PersonEdits
  <2>1. max'.revision = max.revision
    BY <1>0, <1>24 DEF PersonEdits, TypeOK, Patch
  <2> QED
    BY <1>24, <2>1, NothingPlanned, SameConnection DEF PersonEdits, service, wire
<1>25. CASE PatchSaved
  BY <1>25, NothingPlanned, SameConnection DEF PatchSaved, service, wire
<1>26. CASE PatchReopened
  BY <1>26, ClosedKnown DEF PatchReopened, service
<1>27. CASE MaxDisconnects
  BY <1>27, ClosedKnown DEF MaxDisconnects, service, native
<1>28. CASE MaxSeesClose
  BY <1>28, ClosedKnown DEF MaxSeesClose, service, native
<1>29. CASE MaxConnects
  <2> DEFINE event == [type |-> "registered", revision |-> max.revision]
  <2>1. Range(fromMax') = {event}
    BY <1>29 DEF MaxConnects, Range
  <2>2. event.revision = max.revision
    OBVIOUS
  <2> HIDE DEF event
  <2>3. Severed' /\ Unsynchronised'
    BY <1>29, <2>1, <2>2 DEF MaxConnects, EditsInv, Severed, Unsynchronised, native
  <2> QED
    BY <1>29, <2>3, NothingPlanned DEF MaxConnects, service, native
<1>30. CASE BridgeSeesClose
  BY <1>30, ForgottenKnown DEF BridgeSeesClose
<1>31. CASE BridgeLosesConnection
  BY <1>31, ForgottenKnown DEF BridgeLosesConnection
<1>32. CASE BrokerRestarts
  <2>1. Range(fromMax') = {} /\ Range(receipts') = {} /\ registry' = None
        /\ (link' = "closedByMax" => FALSE)
        /\ (link' = "down" => link \in {"down", "closedByMax"})
    BY <1>0, <1>32, EmptyRange DEF BrokerRestarts, TypeOK
  <2>2. Severed' /\ Unsynchronised'
    BY <1>0, <1>32, <2>1 DEF BrokerRestarts, EditsInv, Severed, Unsynchronised, native, TypeOK
  <2>3. StatesKnown'
    BY <1>32
    DEF BrokerRestarts, EditsInv, StatesKnown, StateKnown, Known, Intended, Contents, native
  <2> QED
    BY <1>32, <2>1, <2>2, <2>3, NothingPlanned DEF BrokerRestarts, native
<1>33. CASE DiskChanges
  BY <1>33, NothingPlanned, SameConnection DEF DiskChanges, wire, native
<1>34. CASE UNCHANGED vars
  BY <1>34, NothingPlanned, SameConnection DEF vars, service, wire, native
<1> QED
  BY <1>1, <1>2, <1>3, <1>4, <1>5, <1>6, <1>7, <1>8, <1>9, <1>10, <1>11, <1>12,
     <1>13, <1>14, <1>15, <1>16, <1>17, <1>18, <1>19, <1>20, <1>21, <1>22,
     <1>24, <1>25, <1>26, <1>27, <1>28, <1>29, <1>30, <1>31, <1>32, <1>33, <1>34
  DEF Next, Calls, BridgeReceives, MaxHandles, Environment, CloseSeen

LEMMA EditsInit == Init => EditsInv
<1> SUFFICES ASSUME Init PROVE EditsInv
  OBVIOUS
<1>1. CommittedInv
  BY CommittedInit
<1>2. Range(receipts) = {} /\ Range(toMax) = {} /\ Range(fromMax) = {}
  BY EmptyRange DEF Init
<1> QED
  BY <1>1, <1>2
  DEF Init, NoState, EditsInv, StatesKnown, StateKnown, FlightKnown, ReceiptsHarmless,
      RequestsHarmless, Severed, Unsynchronised

LEMMA EditsAlways == Spec => []EditsInv
BY EditsInit, EditsStep, PTL DEF Spec

\* A commit only touches boxes whose content the plan knew.
LEMMA CommitStep ==
  ASSUME EditsInv, MaxApplies, NEW b \in Box,
         max'.live.managed[b] # max.live.managed[b]
  PROVE  \E h \in held : h[b] = max.live.managed[b]
<1> DEFINE q == Head(toMax)
           boxes == max.live.managed
<1>1. q \in Range(toMax) /\ q.type = "apply"
  BY MaxReceivesRange DEF MaxApplies, MaxReceives, EditsInv, CommittedInv
<1>2. Harmless(q.base, q.from, q.to, boxes) /\ OperationsFit(boxes, q.from, q.to)
  BY <1>1 DEF EditsInv, RequestsHarmless, RequestHarmless, MaxApplies, PlanValid
<1>3. b \in Changed(q.from, q.to)
  <2>1. max'.live.managed = Patched(boxes, q.from, q.to)
    BY DEF MaxApplies, EditsInv, CommittedInv, TypeOK, Patch, Live
  <2> QED
    BY <2>1 DEF Patched
<1>4. boxes[b] \in Contents(b)
  BY <1>2, <1>3 DEF Harmless, OperationsFit
<1> QED
  BY <1>4 DEF Contents

\* A commit never destroys what only a person made, whatever was planned
\* before, by whom and on what connection: for any boxes and contents, any
\* number of receipts and requests, with and without timers and concurrency.
THEOREM EditsSurvive == Spec => ManualEditsSurvive
<1>1. EditsInv => [MaxApplies => \A b \in Box :
                     max'.live.managed[b] # max.live.managed[b] =>
                       \E h \in held : h[b] = max.live.managed[b]]_vars
  BY CommitStep
<1> QED
  BY <1>1, EditsAlways, PTL DEF ManualEditsSurvive

-----------------------------------------------------------------------------
(* The refinement of ManagedPatch.  Only Max's side maps to it: every other  *)
(* step is a stutter.                                                       *)

LEMMA CommitPromised ==
  ASSUME EditsInv, MaxApplies
  PROVE  Promise!Commit
<1> PICK q : q = Head(toMax)
  OBVIOUS
<1> PICK old : old = max
  OBVIOUS
<1>1. /\ q \in Range(toMax) /\ q \in Request /\ q.type = "apply"
      /\ link \in {"open", "closedByBridge"}
  BY MaxReceivesRange DEF MaxApplies, MaxReceives, EditsInv, CommittedInv
<1>2. old \in Patch
  BY DEF EditsInv, CommittedInv, TypeOK
<1>3. /\ q.base \in Graph /\ q.next \in Graph /\ q.from \in Graph /\ q.to \in Graph
      /\ q.token = old.live /\ old.live.managed \in Graph
  BY <1>1, <1>2 DEF Request, Patch, Live, MaxApplies, PlanValid
<1>4. q.to = q.next /\ q.from \in {q.base, old.live.managed}
  BY <1>1, <1>3 DEF EditsInv, RequestsHarmless, RequestHarmless, Harmless
<1>5. q.base = Promise!Current
  <2>1. CASE old.revision = Null
    BY <1>1, <2>1 DEF EditsInv, Unsynchronised, Promise!Current, Promise!EmptyGraph, EmptyGraph
  <2>2. CASE old.revision # Null
    BY <2>2 DEF MaxApplies, PlanValid, Promise!Current
  <2> QED
    BY <2>1, <2>2
<1>6. PICK managed \in Graph : managed = Patched(old.live.managed, q.from, q.to)
  BY <1>3, PatchedType
<1>7. max' = [revision |-> q.next, live |-> [old.live EXCEPT !.managed = managed]]
  BY <1>6 DEF MaxApplies
<1>8. ASSUME NEW b \in Box
      PROVE  \/ managed[b] = q.next[b]
             \/ managed[b] = old.live.managed[b] /\ q.next[b] = Promise!Current[b]
  BY <1>4, <1>5, <1>6 DEF Patched, Changed
<1>9. saved' = saved
  BY DEF MaxApplies
<1> QED
  BY <1>3, <1>6, <1>7, <1>8, <1>9, ZenonT(40) DEF Promise!Commit, Promise!Graph, Graph

\* Everything else that happens to the patch is somebody's edit.
LEMMA EditPromised ==
  ASSUME TypeOK, NEW live \in Live, max' = [max EXCEPT !.live = live], saved' = saved
  PROVE  Promise!Edit
BY DEF Promise!Edit, Promise!Live, Promise!Graph, Live, Graph

LEMMA PromiseStep == EditsInv /\ [Next]_vars => [Promise!Next]_(Promise!vars)
<1> SUFFICES ASSUME EditsInv, [Next]_vars PROVE Promise!Next \/ UNCHANGED <<max, saved>>
  BY DEF Promise!vars
<1>0. TypeOK
  BY DEF EditsInv, CommittedInv
<1>1. CASE Calls
  <2>1. UNCHANGED <<max, saved>>
    BY <1>1
    DEF Calls, RefusedAfterResolve, PrepareStart, PrepareCached, InspectStart, ReviewStart,
        AdoptStart, RecoverStart, ApplyForOtherCatalog, ApplyStale, ApplyReceipt, native
  <2> QED BY <2>1
<1>2. CASE BridgeReceives
  <2>1. UNCHANGED <<max, saved>>
    BY <1>2
    DEF BridgeReceives, BridgeRegisters, BridgeIgnores, InspectionArrives,
        PreparationArrives, AdoptionArrives, RecoveryArrives, ApplyAcknowledged,
        RebaseAcknowledged, BaselineArrives, ErrorArrives, native
  <2> QED BY <2>1
<1>3. CASE TimesOut \/ CloseSeen \/ MaxConnects \/ MaxDisconnects
             \/ BridgeLosesConnection \/ BrokerRestarts \/ DiskChanges
             \/ MaxInspects \/ MaxRefuses \/ UNCHANGED vars
  BY <1>3
  DEF TimesOut, CloseSeen, BridgeSeesClose, MaxSeesClose, MaxConnects, MaxDisconnects,
      BridgeLosesConnection, BridgeForgets, BrokerRestarts, DiskChanges, MaxInspects,
      MaxRefuses, vars, native
<1>4. CASE MaxApplies
  BY <1>4, CommitPromised DEF Promise!Next
<1>5. CASE MaxFailsHalfway
  <2>1. PICK graph \in Graph : max' = [max EXCEPT !.live.managed = graph]
    BY <1>5 DEF MaxFailsHalfway, PartlyPatched
  <2>2. PICK live : live = [max.live EXCEPT !.managed = graph]
    OBVIOUS
  <2>3. live \in Live /\ max' = [max EXCEPT !.live = live] /\ saved' = saved
    BY <1>0, <1>5, <2>1, <2>2 DEF MaxFailsHalfway, TypeOK, Patch, Live
  <2> QED
    BY <1>0, <2>3, EditPromised DEF Promise!Next
<1>6. CASE PersonEdits
  BY <1>0, <1>6, EditPromised DEF PersonEdits, Promise!Next
<1>7. CASE PatchSaved
  BY <1>7 DEF PatchSaved, Promise!Next, Promise!Save
<1>8. CASE PatchReopened
  BY <1>8 DEF PatchReopened, Promise!Next, Promise!Reopen
<1> QED
  BY <1>1, <1>2, <1>3, <1>4, <1>5, <1>6, <1>7, <1>8 DEF Next, MaxHandles, Environment

\* The whole stack (service, bridge, wire and native object) implements
\* ManagedPatch: whatever is lost, late, repeated or restarted, everything the
\* synchroniser does to the patch is one of its commits.
THEOREM StackKeepsPromise == Spec => PromiseKept
<1>1. Init => Promise!Init
  BY DEF Init, Promise!Init, Promise!Patch, Promise!Live, Promise!Graph, Patch, Live,
         Revision, Graph, Promise!EmptyGraph, EmptyGraph
<1> QED
  BY <1>1, EditsAlways, PromiseStep, PTL DEF Spec, PromiseKept, Promise!Spec

-----------------------------------------------------------------------------
(* SlotCanEnd and QuietLinkIsCurrent.  Both are about the slot, the wire and  *)
(* the registration only, so the steps are sorted first by what they do to    *)
(* these; then each invariant has one case per sort.                          *)

\* The operation that holds the slot next sends a fresh request of its kind.
Asking ==
  /\ flight' # None
  /\ \E id \in FreshId, request \in Request :
       /\ request.id = id /\ flight'.id = id
       /\ RequestFits(request, flight')
       /\ Send(request)

Unheard == UNCHANGED <<registry, flight, wire>> /\ max'.revision = max.revision

Asks ==
  /\ flight = None /\ registry # None
  /\ Asking
  /\ UNCHANGED <<registry, link, fromMax, max>>

\* The answer is taken, and the operation ends or asks again.
Hears ==
  /\ \E type \in {"applied", "snapshot"} : \E pcs : Answer(type, pcs)
  /\ registry' = Head(fromMax).revision
  /\ (flight' = None /\ UNCHANGED toMax) \/ Asking
  /\ UNCHANGED <<link, max>>

ErrorHeard ==
  /\ \E pcs : Answer("error", pcs)
  /\ flight' = None
  /\ UNCHANGED <<registry, link, toMax, max>>

GivesUpWaiting ==
  /\ TimersFire
  /\ flight' = None
  /\ UNCHANGED <<registry, wire, max>>

\* Max answers a request in its kind, with the revision it then has.
Replies ==
  /\ \E type \in {"inspect", "apply"}, event \in Event :
       /\ MaxReceives(type) /\ Reply(event)
       /\ event.id = Head(toMax).id
       /\ event.type \in {"error", IF type = "apply" THEN "applied" ELSE "snapshot"}
       /\ event.type = "error" => max'.revision = max.revision
       /\ event.type # "error" => event.revision = max'.revision
  /\ UNCHANGED <<registry, flight, link>>

Closes == MaxEndCloses /\ UNCHANGED <<registry, flight, fromMax>>

Forgets ==
  /\ registry' = None /\ flight' = None /\ fromMax' = <<>>
  /\ link' = CASE link = "open" -> "closedByBridge"
               [] link = "closedByMax" -> "down"
               [] OTHER -> link
  /\ UNCHANGED <<toMax, max>>

WireStep ==
  \/ Unheard \/ Asks \/ BridgeRegisters \/ BridgeIgnores \/ Hears \/ ErrorHeard
  \/ GivesUpWaiting \/ Replies \/ Closes \/ MaxConnects \/ Forgets

LEMMA NoFlight == \A operation \in Flight : operation # None
  BY NoneIsNoRecord

LEMMA InspectAsks ==
  ASSUME NEW id \in FreshId, Send(Inspect(id)), flight' \in Flight, flight'.id = id,
         ~IsPlan(flight')
  PROVE  Asking
<1>1. Inspect(id) \in Request /\ Inspect(id).id = id /\ Inspect(id).type = "inspect"
  BY FreshIdIsFresh DEF Inspect, Request
<1>2. RequestFits(Inspect(id), flight')
  BY <1>1 DEF RequestFits
<1> QED
  BY <1>1, <1>2, NoFlight DEF Asking

LEMMA PlanAsks ==
  ASSUME NEW id \in FreshId, NEW request \in Request, request.id = id, request.type = "apply",
         Send(request), flight' \in Flight, flight'.id = id, IsPlan(flight')
  PROVE  Asking
<1>1. RequestFits(request, flight')
  BY DEF RequestFits
<1> QED
  BY <1>1, NoFlight DEF Asking

LEMMA AdoptOrRebaseAsks ==
  ASSUME TypeOK, NEW base \in Graph, NEW live \in Live, NEW superseded \in BOOLEAN,
         AdoptOrRebase(base, live, superseded)
  PROVE  (flight' = None /\ UNCHANGED toMax) \/ Asking
<1> DEFINE observed == live.managed
           request(id) ==
             [type |-> "apply", id |-> id, base |-> base, next |-> observed,
              from |-> observed, to |-> observed, mergeBase |-> observed,
              token |-> live]
<1>1. CASE live.managed = base \/ diskFull
  BY <1>1 DEF AdoptOrRebase, Rebase
<1>2. CASE live.managed # base /\ ~diskFull
  <2>1. PICK id \in FreshId :
          /\ flight' = [pc |-> "rebasing", id |-> id, next |-> observed]
          /\ Send(request(id))
    BY <1>2 DEF AdoptOrRebase, Rebase
  <2>2. observed \in Graph
    BY DEF Live
  <2>3. flight' \in Flight /\ request(id) \in Request
    BY <2>1, <2>2, FreshIdIsFresh DEF Flight, Request
  <2>4. flight'.id = id /\ IsPlan(flight') /\ request(id).id = id /\ request(id).type = "apply"
    BY <2>1 DEF IsPlan
  <2> HIDE DEF request
  <2> QED
    BY <2>1, <2>3, <2>4, PlanAsks
<1> QED
  BY <1>1, <1>2

LEMMA CallsOnWire == ASSUME TypeOK, Calls  PROVE Unheard \/ Asks
<1>1. CASE RefusedAfterResolve \/ PrepareCached
  BY <1>1 DEF RefusedAfterResolve, PrepareCached, Unheard, native
<1>2. CASE PrepareStart
  <2>1. PICK supplied \in BOOLEAN, mode \in Mode, current \in Graph,
             desired \in Graph, id \in FreshId :
          /\ flight' = Preparation(mem', supplied, mode, current, desired, id)
          /\ Send(Inspect(id))
    BY <1>2 DEF PrepareStart
  <2>2. flight'.id = id /\ ~IsPlan(flight')
    BY <2>1 DEF Preparation, IsPlan
  <2>3. mem' \in State
    BY <1>2, ResolvedType DEF PrepareStart
  <2>4. flight' \in Flight
    BY <2>1, <2>3, FreshIdIsFresh, PreparationType
  <2>5. Asking
    BY <2>1, <2>2, <2>4, InspectAsks
  <2> QED
    BY <1>2, <2>5 DEF PrepareStart, Asks, Admits, native
<1>3. CASE ReviewStart
  <2>1. PICK id \in FreshId : flight' = [pc |-> "looking", id |-> id] /\ Send(Inspect(id))
    BY <1>3 DEF ReviewStart
  <2>2. flight' \in Flight /\ flight'.id = id /\ ~IsPlan(flight')
    BY <2>1, FreshIdIsFresh DEF Flight, IsPlan
  <2>3. Asking
    BY <2>1, <2>2, InspectAsks
  <2> QED
    BY <1>3, <2>3 DEF ReviewStart, Asks, Admits, native
<1>4. CASE AdoptStart
  <2>1. PICK id \in FreshId :
          /\ flight' = [pc |-> "adopting", id |-> id, current |-> mem'.managed]
          /\ Send(Inspect(id))
    BY <1>4 DEF AdoptStart
  <2>2. mem'.managed \in Graph
    BY <1>4, ResolvedType DEF AdoptStart, State
  <2>3. flight' \in Flight /\ flight'.id = id /\ ~IsPlan(flight')
    BY <2>1, <2>2, FreshIdIsFresh DEF Flight, IsPlan
  <2>4. Asking
    BY <2>1, <2>3, InspectAsks
  <2> QED
    BY <1>4, <2>4 DEF AdoptStart, Asks, Admits, native
<1>5. CASE InspectStart
  <2>1. PICK id \in FreshId, pc \in {"inspecting", "looking"} :
          flight' = [pc |-> pc, id |-> id] /\ Send(Inspect(id))
    BY <1>5 DEF InspectStart
  <2>2. flight' \in Flight /\ flight'.id = id /\ ~IsPlan(flight')
    BY <2>1, FreshIdIsFresh DEF Flight, IsPlan
  <2>3. Asking
    BY <2>1, <2>2, InspectAsks
  <2> QED
    BY <1>5, <2>3 DEF InspectStart, Asks, Admits, native
<1>6. CASE RecoverStart
  <2>1. PICK id \in FreshId :
          flight' = [pc |-> "recovering", id |-> id, live |-> registry] /\ Send(Inspect(id))
    BY <1>6 DEF RecoverStart
  <2>2. registry \in Graph
    BY <1>6 DEF RecoverStart, Admits, TypeOK, Revision
  <2>3. flight' \in Flight /\ flight'.id = id /\ ~IsPlan(flight')
    BY <2>1, <2>2, FreshIdIsFresh DEF Flight, IsPlan
  <2>4. Asking
    BY <2>1, <2>3, InspectAsks
  <2> QED
    BY <1>6, <2>4 DEF RecoverStart, Asks, Admits, native
<1>7. ASSUME NEW i \in DOMAIN receipts,
             ApplyForOtherCatalog(i) \/ ApplyStale(i) \/ ApplyReceipt(i)
      PROVE  Unheard \/ Asks
  <2>1. CASE ApplyForOtherCatalog(i) \/ ApplyStale(i)
    BY <2>1 DEF ApplyForOtherCatalog, ApplyStale, Unheard, native
  <2>2. CASE ApplyReceipt(i)
    <3> DEFINE r == receipts[i]
               request(id) ==
                 [type |-> "apply", id |-> id, base |-> r.base, next |-> r.next,
                  from |-> r.from, to |-> r.next, mergeBase |-> r.mergeBase,
                  token |-> r.token]
    <3>1. r \in Receipt
      BY DEF TypeOK
    <3>2. CASE UNCHANGED <<flight, toMax>>
      BY <2>2, <3>2 DEF ApplyReceipt, Unheard, wire, native
    <3>3. CASE Admits /\ \E id \in FreshId :
                 /\ flight' = [pc |-> "applying", id |-> id, next |-> r.next,
                               intent |-> r.intent]
                 /\ Send(request(id))
      <4>1. PICK id \in FreshId :
              /\ flight' = [pc |-> "applying", id |-> id, next |-> r.next,
                            intent |-> r.intent]
              /\ Send(request(id))
        BY <3>3
      <4>2. flight' \in Flight /\ request(id) \in Request
        BY <3>1, <4>1, FreshIdIsFresh DEF Flight, Request, Receipt
      <4>3. flight'.id = id /\ IsPlan(flight') /\ request(id).id = id
            /\ request(id).type = "apply"
        BY <4>1 DEF IsPlan
      <4> HIDE DEF request
      <4>4. Asking
        BY <4>1, <4>2, <4>3, PlanAsks
      <4> QED
        BY <2>2, <3>3, <4>4 DEF ApplyReceipt, Asks, Admits, native
    <3> QED
      BY <2>2, <3>2, <3>3 DEF ApplyReceipt
  <2> QED
    BY <1>7, <2>1, <2>2
<1> QED
  BY <1>1, <1>2, <1>3, <1>4, <1>5, <1>6, <1>7 DEF Calls

LEMMA ReceivedOnWire ==
  ASSUME TypeOK, BridgeReceives
  PROVE  BridgeRegisters \/ BridgeIgnores \/ Hears \/ ErrorHeard
<1>1. CASE InspectionArrives \/ PreparationArrives \/ BaselineArrives
  BY <1>1 DEF InspectionArrives, PreparationArrives, BaselineArrives, SnapshotArrives, Hears,
     native
<1>2. CASE AdoptionArrives \/ RecoveryArrives
  <2>1. PICK pcs \in {{"adopting"}, {"recovering"}} : SnapshotArrives(pcs)
    BY <1>2 DEF AdoptionArrives, RecoveryArrives
  <2>2. Head(fromMax).live \in Live /\ flight \in Flight /\ flight.pc \in pcs
    BY <2>1, SnapshotType
  <2>3. (flight' = None /\ UNCHANGED toMax) \/ Asking
    <3>1. CASE GivesUp
      BY <3>1 DEF GivesUp
    <3>2. CASE AdoptionArrives /\ AdoptOrRebase(flight.current, Head(fromMax).live, FALSE)
      <4>1. flight.current \in Graph
        BY <2>2, <3>2, AnswerType DEF AdoptionArrives, SnapshotArrives, Answer, Flight
      <4> QED
        BY <2>2, <3>2, <4>1, AdoptOrRebaseAsks
    <3>3. CASE RecoveryArrives /\ AdoptOrRebase(flight.live, Head(fromMax).live, TRUE)
      <4>1. flight.live \in Graph
        BY <2>2, <3>3, AnswerType DEF RecoveryArrives, SnapshotArrives, Answer, Flight
      <4> QED
        BY <2>2, <3>3, <4>1, AdoptOrRebaseAsks
    <3> QED
      BY <1>2, <3>1, <3>2, <3>3 DEF AdoptionArrives, RecoveryArrives
  <2> QED
    BY <1>2, <2>1, <2>3 DEF AdoptionArrives, RecoveryArrives, SnapshotArrives, Hears, native
<1>3. CASE ApplyAcknowledged
  <2>1. PICK id \in FreshId :
          /\ flight' = [pc |-> "capturing", id |-> id, next |-> flight.next]
          /\ Send(Inspect(id))
    BY <1>3 DEF ApplyAcknowledged
  <2>2. flight.next \in Graph
    BY <1>3, AnswerType DEF ApplyAcknowledged, Acknowledgement, Flight
  <2>3. flight' \in Flight /\ flight'.id = id /\ ~IsPlan(flight')
    BY <2>1, <2>2, FreshIdIsFresh DEF Flight, IsPlan
  <2>4. Asking
    BY <2>1, <2>3, InspectAsks
  <2> QED
    BY <1>3, <2>4 DEF ApplyAcknowledged, Acknowledgement, Hears, native
<1>4. CASE RebaseAcknowledged
  BY <1>4 DEF RebaseAcknowledged, Acknowledgement, Hears, native
<1>5. CASE ErrorArrives
  BY <1>5 DEF ErrorArrives, Fails, ErrorHeard, native
<1> QED
  BY <1>1, <1>2, <1>3, <1>4, <1>5 DEF BridgeReceives

LEMMA HandledOnWire == ASSUME TypeOK, MaxHandles  PROVE Replies
<1>1. ASSUME NEW type \in {"inspect", "apply"}, MaxReceives(type)
      PROVE  /\ Head(toMax).id \in RequestId
             /\ type = "apply" => Head(toMax).next \in Graph
  BY <1>1, MaxReceivesRange DEF MaxReceives, Request
<1>2. max.revision \in Revision /\ max.live \in Live
  BY DEF TypeOK, Patch
<1>3. CASE MaxInspects
  <2> DEFINE answer == [type |-> "snapshot", id |-> Head(toMax).id,
                        revision |-> max.revision, live |-> max.live]
  <2>1. PICK event : event = answer
    OBVIOUS
  <2>2. event \in Event /\ event.type = "snapshot" /\ event.id = Head(toMax).id
        /\ event.revision = max.revision
    BY <1>1, <1>2, <1>3, <2>1 DEF MaxInspects, Event
  <2>3. Reply(event)
    BY <1>3, <2>1 DEF MaxInspects
  <2> HIDE DEF answer
  <2> QED
    BY <1>3, <2>2, <2>3 DEF MaxInspects, Replies, native
<1>4. CASE MaxApplies
  <2> DEFINE answer == [type |-> "applied", id |-> Head(toMax).id,
                        revision |-> Head(toMax).next]
  <2>1. PICK event : event = answer
    OBVIOUS
  <2>2. event \in Event /\ event.type = "applied" /\ event.id = Head(toMax).id
        /\ event.revision = Head(toMax).next
    BY <1>1, <1>4, <2>1 DEF MaxApplies, Event
  <2>3. Reply(event) /\ max'.revision = Head(toMax).next
    BY <1>4, <2>1 DEF MaxApplies
  <2> HIDE DEF answer
  <2> QED
    BY <1>4, <2>2, <2>3 DEF MaxApplies, Replies
<1>5. CASE MaxRefuses \/ MaxFailsHalfway
  <2> DEFINE answer == [type |-> "error", id |-> Head(toMax).id]
  <2>1. PICK event : event = answer
    OBVIOUS
  <2>2. event \in Event /\ event.type = "error" /\ event.id = Head(toMax).id
    BY <1>1, <1>5, <2>1 DEF MaxRefuses, MaxFailsHalfway, Event
  <2>3. Reply(event) /\ max'.revision = max.revision
    BY <1>2, <1>5, <2>1 DEF MaxRefuses, MaxFailsHalfway, native, TypeOK, Patch
  <2> HIDE DEF answer
  <2> QED
    BY <1>5, <2>2, <2>3 DEF MaxRefuses, MaxFailsHalfway, Replies
<1> QED
  BY <1>3, <1>4, <1>5 DEF MaxHandles

LEMMA StepsOnWire == ASSUME TypeOK, [Next]_vars  PROVE WireStep
<1>1. CASE TimesOut
  BY <1>1 DEF TimesOut, Fails, GivesUpWaiting, native, WireStep
<1>2. CASE CloseSeen
  BY <1>2 DEF CloseSeen, BridgeSeesClose, MaxSeesClose, BridgeForgets, Fails, Forgets, Closes,
     native, WireStep
<1>3. CASE Environment
  <2>1. CASE PersonEdits
    BY <2>1 DEF PersonEdits, Unheard, TypeOK, Patch, WireStep
  <2>2. CASE PatchSaved \/ DiskChanges
    BY <2>2 DEF PatchSaved, DiskChanges, Unheard, native, WireStep
  <2>3. CASE PatchReopened \/ MaxDisconnects
    BY <2>3 DEF PatchReopened, MaxDisconnects, Closes, WireStep
  <2>4. CASE BridgeLosesConnection \/ BrokerRestarts
    BY <2>4 DEF BridgeLosesConnection, BrokerRestarts, BridgeForgets, Fails, Forgets, native,
       WireStep
  <2> QED
    BY <1>3, <2>1, <2>2, <2>3, <2>4 DEF Environment
<1>4. CASE UNCHANGED vars
  BY <1>4 DEF vars, Unheard, native, WireStep
<1> QED
  BY <1>1, <1>2, <1>3, <1>4, CallsOnWire, ReceivedOnWire, HandledOnWire DEF Next, WireStep

\* The head and the tail of a queue are all of it.
LEMMA HeadOrTail ==
  ASSUME NEW S, NEW queue \in Seq(S), queue # <<>>
  PROVE  \A e \in Range(queue) : e = Head(queue) \/ e \in Range(Tail(queue))
<1>1. /\ \A i \in 1 .. Len(Tail(queue)) : Tail(queue)[i] = queue[i+1]
      /\ Len(Tail(queue)) = Len(queue) - 1 /\ Tail(queue) \in Seq(S)
  BY HeadTailProperties
<1>2. /\ DOMAIN Tail(queue) = 1 .. Len(queue) - 1
      /\ DOMAIN queue = 1 .. Len(queue)
      /\ Len(queue) \in Nat \ {0} /\ Head(queue) = queue[1]
  BY <1>1, LenProperties, EmptySeq
<1>3. ASSUME NEW i \in 1 .. Len(queue), i # 1
      PROVE  queue[i] \in Range(Tail(queue))
  <2>1. i - 1 \in 1 .. Len(queue) - 1 /\ (i - 1) + 1 = i
    BY <1>2, <1>3
  <2>2. Tail(queue)[i - 1] = queue[i] /\ i - 1 \in DOMAIN Tail(queue)
    BY <1>1, <1>2, <2>1
  <2> QED
    BY <2>2 DEF Range
<1> QED
  BY <1>2, <1>3 DEF Range

\* Who holds the slot is connected, or was: without a connection nobody is
\* registered.
SlotInv ==
  /\ TypeOK
  /\ SlotCanEnd
  /\ link \in {"down", "closedByBridge"} => registry = None

LEMMA FreshAsks ==
  ASSUME TypeOK, Asking, link' = link, link \in {"open", "closedByMax"},
         fromMax' \in Seq(Event), Range(fromMax') \subseteq Range(fromMax)
  PROVE  SlotCanEnd'
<1>1. PICK id \in FreshId, request \in Request :
        /\ request.id = id /\ flight'.id = id
        /\ RequestFits(request, flight')
        /\ Send(request)
  BY DEF Asking
<1>2. /\ \A m \in Range(toMax) : m.id # id
      /\ \A e \in Range(fromMax) : e.type # "registered" => e.id # id
  BY FreshIdIsFresh DEF UsedIds
<1>3. Range(toMax') \subseteq Range(toMax) \cup {request}
  BY <1>1, SendRange
<1>4. link = "open" => request \in Range(toMax')
  BY <1>1, AppendRange DEF Send, TypeOK
<1>5. /\ \A m \in Range(toMax') : m.id = flight'.id => RequestFits(m, flight')
      /\ \A e \in Range(fromMax') : e.type # "registered" => e.id # flight'.id
  BY <1>1, <1>2, <1>3
<1> QED
  BY <1>1, <1>4, <1>5 DEF SlotCanEnd

LEMMA SlotStep == ASSUME SlotInv, [Next]_vars  PROVE SlotInv'
<1>1. TypeOK /\ TypeOK' /\ WireStep
  BY TypeStep, StepsOnWire DEF SlotInv
<1>2. SlotCanEnd /\ (link \in {"down", "closedByBridge"} => registry = None)
      /\ link \in {"open", "down", "closedByBridge", "closedByMax"}
  BY DEF SlotInv, TypeOK
<1>3. flight # None => link \in {"open", "closedByMax"}
  BY <1>2 DEF SlotCanEnd
<1> SUFFICES SlotCanEnd' /\ (link' \in {"down", "closedByBridge"} => registry' = None)
  BY <1>1 DEF SlotInv
<1>4. CASE Unheard
  BY <1>2, <1>4 DEF Unheard, wire, SlotCanEnd
<1>5. CASE Asks
  BY <1>1, <1>2, <1>5, FreshAsks DEF Asks, TypeOK
<1>6. ASSUME NEW type, Receive(type),
             flight # None => type = "registered" \/ Head(fromMax).id # flight.id,
             UNCHANGED <<flight, link, toMax>>
      PROVE  SlotCanEnd' /\ link' \in {"open", "closedByMax"}
  <2>1. /\ fromMax \in Seq(Event) /\ fromMax # <<>> /\ fromMax' = Tail(fromMax)
        /\ Head(fromMax).type = type /\ link \in {"open", "closedByMax"}
    BY <1>1, <1>6 DEF Receive, TypeOK
  <2>2. /\ \A e \in Range(fromMax) : e = Head(fromMax) \/ e \in Range(fromMax')
        /\ Range(fromMax') \subseteq Range(fromMax)
    BY <2>1, HeadOrTail, TailRange
  <2> QED
    BY <1>2, <1>6, <2>1, <2>2 DEF SlotCanEnd
<1>7. CASE BridgeRegisters
  BY <1>6, <1>7 DEF BridgeRegisters
<1>8. CASE BridgeIgnores
  BY <1>6, <1>8 DEF BridgeIgnores
<1>9. CASE Hears
  <2>1. PICK type : Receive(type)
    BY <1>9 DEF Hears, Answer
  <2>2. /\ fromMax' \in Seq(Event) /\ Range(fromMax') \subseteq Range(fromMax)
        /\ link \in {"open", "closedByMax"} /\ link' = link
    BY <1>1, <1>9, <2>1, ReceiveRange DEF Receive, Hears
  <2>3. CASE flight' = None
    BY <2>2, <2>3 DEF SlotCanEnd
  <2>4. CASE Asking
    BY <1>1, <2>2, <2>4, FreshAsks
  <2> QED
    BY <1>9, <2>3, <2>4 DEF Hears
<1>10. CASE ErrorHeard \/ GivesUpWaiting
  BY <1>2, <1>10 DEF ErrorHeard, GivesUpWaiting, wire, SlotCanEnd
<1>11. CASE Replies
  <2>1. PICK type \in {"inspect", "apply"}, event \in Event :
          /\ MaxReceives(type) /\ Reply(event)
          /\ event.id = Head(toMax).id
          /\ event.type \in {"error", IF type = "apply" THEN "applied" ELSE "snapshot"}
    BY <1>11 DEF Replies
  <2>2. UNCHANGED <<registry, flight, link>>
    BY <1>11 DEF Replies
  <2>3. /\ toMax \in Seq(Request) /\ toMax # <<>> /\ toMax' = Tail(toMax)
        /\ Head(toMax).type = type /\ Head(toMax) \in Range(toMax)
    BY <1>1, <2>1, MaxReceivesRange DEF MaxReceives, TypeOK
  <2>4. /\ \A m \in Range(toMax) : m = Head(toMax) \/ m \in Range(toMax')
        /\ Range(toMax') \subseteq Range(toMax)
    BY <2>3, HeadOrTail, TailRange
  <2>5. CASE flight = None
    BY <1>2, <2>2, <2>5 DEF SlotCanEnd
  <2>6. CASE flight # None
    <3>1. link = "open"
      BY <1>3, <2>1, <2>6 DEF MaxReceives
    <3>2. Range(fromMax') = Range(fromMax) \cup {event}
      BY <1>1, <2>1, <3>1, AppendRange DEF Reply, TypeOK
    <3>3. event.type # "registered"
      BY <2>1
    <3>4. event.id = flight.id => EventFits(event, flight)
      <4>1. SUFFICES ASSUME event.id = flight.id  PROVE EventFits(event, flight)
        OBVIOUS
      <4>2. RequestFits(Head(toMax), flight)
        BY <1>2, <2>1, <2>3, <2>6, <4>1 DEF SlotCanEnd
      <4> QED
        BY <2>1, <2>3, <4>2 DEF RequestFits, EventFits
    <3>5. /\ \A m \in Range(toMax') : m.id = flight.id => RequestFits(m, flight)
          /\ \A e \in Range(fromMax') :
               e.type # "registered" /\ e.id = flight.id => EventFits(e, flight)
      BY <1>2, <2>4, <2>6, <3>2, <3>4 DEF SlotCanEnd
    <3>6. \/ \E m \in Range(toMax') : m.id = flight.id
          \/ \E e \in Range(fromMax') : e.type # "registered" /\ e.id = flight.id
      BY <1>2, <2>1, <2>4, <2>6, <3>1, <3>2, <3>3 DEF SlotCanEnd
    <3> QED
      BY <1>2, <2>2, <3>1, <3>5, <3>6 DEF SlotCanEnd
  <2> QED
    BY <2>5, <2>6
<1>12. CASE Closes
  <2>1. CASE flight = None
    BY <1>2, <1>12, <2>1 DEF Closes, MaxEndCloses, SlotCanEnd
  <2>2. CASE flight # None
    <3>1. link' = "closedByMax" /\ toMax' = <<>>
      BY <1>3, <1>12, <2>2 DEF Closes, MaxEndCloses
    <3>2. Range(toMax') = {}
      BY <3>1, EmptyRange
    <3> QED
      BY <1>2, <1>12, <2>2, <3>1, <3>2 DEF Closes, SlotCanEnd
  <2> QED
    BY <2>1, <2>2
<1>13. CASE MaxConnects
  BY <1>2, <1>3, <1>13 DEF MaxConnects, SlotCanEnd
<1>14. CASE Forgets
  BY <1>14 DEF Forgets, SlotCanEnd
<1> QED
  BY <1>1, <1>4, <1>5, <1>7, <1>8, <1>9, <1>10, <1>11, <1>12, <1>13, <1>14 DEF WireStep

\* Whoever holds the patch's slot can be released without a timer, with any
\* number of callers, request ids and timeouts.
THEOREM SlotsCanEnd == Spec => []SlotCanEnd
<1>1. Init => SlotInv
  <2>1. Init => flight = None /\ registry = None
    BY DEF Init
  <2> QED
    BY <2>1, TypeInit DEF SlotInv, SlotCanEnd
<1>2. SlotInv => SlotCanEnd
  BY DEF SlotInv
<1> QED
  BY <1>1, <1>2, SlotStep, PTL DEF Spec

\* The conversation on an open connection: one message at most is under way,
\* and unless it is the one that tells the bridge, what the bridge was told
\* last is the patch's revision.
Greeting ==
  /\ registry = None /\ flight = None /\ toMax = <<>>
  /\ \E e \in Event :
       fromMax = <<e>> /\ e.type = "registered" /\ e.revision = max.revision

Resting == flight = None /\ Quiet /\ registry = max.revision

Requested ==
  /\ flight # None /\ fromMax = <<>> /\ registry = max.revision
  /\ \E q \in Request : toMax = <<q>> /\ q.id = flight.id

Replied ==
  /\ flight # None /\ toMax = <<>>
  /\ \E e \in Event :
       /\ fromMax = <<e>> /\ e.type # "registered" /\ e.id = flight.id
       /\ IF e.type = "error" THEN registry = max.revision
          ELSE e.revision = max.revision

TalkInv ==
  /\ TypeOK
  /\ link \in {"down", "closedByBridge"} => registry = None /\ flight = None
  /\ link \in {"down", "closedByMax"} => toMax = <<>>
  /\ link = "open" => Greeting \/ Resting \/ Requested \/ Replied

LEMMA AskingTalks ==
  ASSUME TypeOK, Asking, link' = link, link = "open", toMax = <<>>, fromMax' = <<>>,
         registry' = max'.revision
  PROVE  Requested'
<1>1. PICK id \in FreshId, request \in Request :
        request.id = id /\ flight'.id = id /\ Send(request)
  BY DEF Asking
<1>2. toMax' = <<request>>
  BY <1>1, OneMessage DEF Send
<1> QED
  BY <1>1, <1>2 DEF Asking, Requested

LEMMA TalkStep == ASSUME TimersFire = FALSE, TalkInv, [Next]_vars  PROVE TalkInv'
<1>1. TypeOK /\ TypeOK' /\ WireStep
  BY TypeStep, StepsOnWire DEF TalkInv
<1>2. /\ link \in {"down", "closedByBridge"} => registry = None /\ flight = None
      /\ link \in {"down", "closedByMax"} => toMax = <<>>
      /\ link = "open" => Greeting \/ Resting \/ Requested \/ Replied
      /\ link \in {"open", "down", "closedByBridge", "closedByMax"}
  BY DEF TalkInv, TypeOK
<1> DEFINE Kept == /\ link' \in {"down", "closedByBridge"} => registry' = None /\ flight' = None
                   /\ link' \in {"down", "closedByMax"} => toMax' = <<>>
                   /\ link' = "open" => (Greeting \/ Resting \/ Requested \/ Replied)'
<1> SUFFICES Kept
  BY <1>1 DEF TalkInv
<1>3. CASE Unheard
  BY <1>2, <1>3 DEF Unheard, wire, Greeting, Resting, Requested, Replied, Quiet
<1>4. CASE Asks
  <2>1. CASE link = "open"
    <3>1. Resting
      BY <1>2, <1>4, <2>1 DEF Asks, Greeting, Requested, Replied
    <3>2. Requested'
      BY <1>1, <1>4, <2>1, <3>1, AskingTalks DEF Asks, Resting, Quiet
    <3> QED
      BY <1>4, <2>1, <3>2 DEF Asks
  <2>2. CASE link = "closedByMax"
    BY <1>2, <1>4, <2>2 DEF Asks, Asking, Send
  <2> QED
    BY <1>2, <1>4, <2>1, <2>2 DEF Asks
\* The head of a queue that holds one message.
<1>5. \A e \in Event : /\ Head(<<e>>) = e /\ Tail(<<e>>) = <<>> /\ <<e>> # <<>>
                       /\ Append(<<>>, e) = <<e>>
  BY OneMessage
<1>6. \A q \in Request : Head(<<q>>) = q /\ Tail(<<q>>) = <<>> /\ <<q>> # <<>>
  BY OneMessage
<1>7. CASE BridgeRegisters
  <2>1. CASE link = "open"
    <3>1. Greeting
      BY <1>2, <1>5, <1>7, <2>1
      DEF BridgeRegisters, Receive, Resting, Quiet, Requested, Replied
    <3>2. Resting'
      BY <1>5, <1>7, <3>1 DEF BridgeRegisters, Receive, Greeting, Resting, Quiet, native
    <3> QED
      BY <1>7, <2>1, <3>2 DEF BridgeRegisters
  <2>2. CASE link = "closedByMax"
    BY <1>2, <1>7, <2>2 DEF BridgeRegisters
  <2> QED
    BY <1>7, <2>1, <2>2 DEF BridgeRegisters, Receive
<1>8. CASE BridgeIgnores
  <2>1. CASE link = "open"
    BY <1>2, <1>5, <1>8, <2>1
    DEF BridgeIgnores, Receive, Greeting, Resting, Quiet, Requested, Replied
  <2>2. CASE link = "closedByMax"
    BY <1>2, <1>8, <2>2 DEF BridgeIgnores
  <2> QED
    BY <1>8, <2>1, <2>2 DEF BridgeIgnores, Receive
<1>9. ASSUME NEW type \in {"applied", "snapshot", "error"}, NEW pcs, Answer(type, pcs),
             link = "open"
      PROVE  /\ toMax = <<>> /\ fromMax' = <<>>
             /\ IF type = "error" THEN registry = max.revision
                ELSE Head(fromMax).revision = max.revision
  <2>1. fromMax # <<>> /\ flight # None /\ Head(fromMax).type = type /\ fromMax' = Tail(fromMax)
    BY <1>9 DEF Answer, Receive
  <2>2. Replied
    BY <1>2, <1>9, <2>1 DEF Greeting, Resting, Requested, Quiet
  <2> QED
    BY <1>5, <1>9, <2>1, <2>2 DEF Replied
<1>10. CASE Hears
  <2>1. PICK type \in {"applied", "snapshot"} : \E pcs : Answer(type, pcs)
    BY <1>10 DEF Hears
  <2>2. CASE link = "open"
    <3>1. toMax = <<>> /\ fromMax' = <<>> /\ registry' = max'.revision
      BY <1>9, <1>10, <2>1, <2>2 DEF Hears
    <3>2. CASE flight' = None /\ UNCHANGED toMax
      BY <1>10, <2>2, <3>1, <3>2 DEF Resting, Quiet, Hears
    <3>3. CASE Asking
      BY <1>1, <1>10, <2>2, <3>1, <3>3, AskingTalks DEF Hears
    <3> QED
      BY <1>10, <3>2, <3>3 DEF Hears
  <2>3. CASE link = "closedByMax"
    BY <1>2, <1>10, <2>3 DEF Hears, Asking, Send
  <2> QED
    BY <1>10, <2>1, <2>2, <2>3 DEF Hears, Answer, Receive
<1>11. CASE ErrorHeard
  <2>1. PICK pcs : Answer("error", pcs)
    BY <1>11 DEF ErrorHeard
  <2>2. CASE link = "open"
    BY <1>9, <1>11, <2>1, <2>2 DEF ErrorHeard, Resting, Quiet
  <2>3. CASE link = "closedByMax"
    BY <1>2, <1>11, <2>3 DEF ErrorHeard
  <2> QED
    BY <1>11, <2>1, <2>2, <2>3 DEF ErrorHeard, Answer, Receive
<1>12. CASE Replies
  <2>1. PICK type \in {"inspect", "apply"}, event \in Event :
          /\ MaxReceives(type) /\ Reply(event)
          /\ event.id = Head(toMax).id
          /\ event.type \in {"error", IF type = "apply" THEN "applied" ELSE "snapshot"}
          /\ event.type = "error" => max'.revision = max.revision
          /\ event.type # "error" => event.revision = max'.revision
    BY <1>12 DEF Replies
  <2>2. UNCHANGED <<registry, flight, link>>
    BY <1>12 DEF Replies
  <2>3. CASE link = "open"
    <3>1. Requested
      BY <1>2, <2>1, <2>3 DEF MaxReceives, Greeting, Resting, Replied, Quiet
    <3>2. toMax' = <<>> /\ fromMax' = <<event>> /\ event.id = flight.id
      BY <1>5, <1>6, <2>1, <2>3, <3>1 DEF Requested, MaxReceives, Reply
    <3>3. event.type # "registered"
      BY <2>1
    <3>4. Replied'
      BY <2>1, <2>2, <3>1, <3>2, <3>3 DEF Replied, Requested
    <3> QED
      BY <2>2, <2>3, <3>4
  <2>4. CASE link = "closedByBridge"
    BY <1>2, <2>2, <2>4
  <2> QED
    BY <2>1, <2>3, <2>4 DEF MaxReceives
<1>13. CASE Closes
  BY <1>2, <1>13 DEF Closes, MaxEndCloses
<1>14. CASE MaxConnects
  <2>1. PICK event : event = [type |-> "registered", revision |-> max.revision]
    OBVIOUS
  <2>2. event \in Event /\ event.type = "registered" /\ event.revision = max.revision
    BY <1>1, <2>1 DEF TypeOK, Patch, Event
  <2>3. fromMax' = <<event>> /\ link = "down" /\ link' = "open"
        /\ UNCHANGED <<registry, flight, toMax, max>>
    BY <1>14, <2>1 DEF MaxConnects, native
  <2>4. Greeting'
    BY <1>2, <2>2, <2>3 DEF Greeting
  <2> QED
    BY <2>3, <2>4
<1>15. CASE Forgets
  BY <1>2, <1>15 DEF Forgets
<1> QED
  BY <1>1, <1>3, <1>4, <1>7, <1>8, <1>10, <1>11, <1>12, <1>13, <1>14, <1>15
  DEF WireStep, GivesUpWaiting

\* On a quiet open connection the bridge reports the revision that Max has, for
\* any callers, edits, faults, crashes and reopened patches, as long as no
\* request times out while its connection is alive.
THEOREM QuietLinksAreCurrent ==
  ASSUME TimersFire = FALSE
  PROVE  Spec => []QuietLinkIsCurrent
<1>1. Init => TalkInv
  <2>1. Init => flight = None /\ registry = None /\ link = "down" /\ toMax = <<>>
    BY DEF Init
  <2> QED
    BY <2>1, TypeInit DEF TalkInv
<1>2. TalkInv => QuietLinkIsCurrent
  <2>1. \A e \in Event : <<e>> # <<>>
    OBVIOUS
  <2> QED
    BY <2>1 DEF TalkInv, QuietLinkIsCurrent, Greeting, Resting, Requested, Replied
<1>3. TalkInv /\ [Next]_vars => TalkInv'
  BY TalkStep
<1> QED
  BY <1>1, <1>2, <1>3, PTL DEF Spec

-----------------------------------------------------------------------------
(* ReceiptIsBornFresh, for callers that do not overlap and requests that do   *)
(* not time out.  What the bridge was told is what the state of the service   *)
(* explains, also when Max has closed the connection and the patch has been   *)
(* opened again since: the same explanation as for the patch's own revision.  *)

ExplainedIn(revision, state, file) ==
  \/ RevisionOf(revision) \in {RevisionOf(file.revision), Graph0(state)}
  \/ /\ state.pending # None
     /\ \/ RevisionOf(revision) = state.pending.next
        \/ state.pending.superseded /\ RevisionOf(revision) = state.pending.base

ErrorIsComing == \E e \in Range(fromMax) : e.type = "error"

\* A revision the bridge has, or is about to have.  While a plan is awaited the
\* registered one may be superseded.
Reported(revision) ==
  \/ /\ revision = registry /\ registry # None
     /\ flight # None /\ flight.pc \in PlanPcs => ErrorIsComing
  \/ \E e \in Range(fromMax) : e.type # "error" /\ revision = e.revision

SettledWhilePreparing == flight # None /\ flight.pc = "preparing" => mem.pending = None

ReportedInv ==
  link = "closedByMax" =>
    \A revision : Reported(revision) => Current(revision) /\ ExplainedIn(revision, mem, saved)

BornInv == RecoverableInv /\ SettledWhilePreparing /\ ReportedInv

LEMMA CurrentIsExplained ==
  ASSUME Explains(mem), link # "closedByMax", NEW revision, Current(revision)
  PROVE  ExplainedIn(revision, mem, saved)
BY DEF Explains, Current, ExplainedIn

\* What is reported is the patch's revision.
LEMMA ReportsExplained ==
  ASSUME BornInv, NEW revision, Reported(revision)
  PROVE  Current(revision) /\ ExplainedIn(revision, mem, saved)
<1>1. Conversation /\ Explains(mem)
  BY DEF BornInv, RecoverableInv
<1>2. CASE link = "closedByMax"
  BY <1>2 DEF BornInv, ReportedInv
<1>3. CASE link # "closedByMax"
  <2> SUFFICES Current(revision)
    BY <1>1, <1>3, CurrentIsExplained
  <2>1. Range(<<>>) = {} /\ \A e \in Range(fromMax) : fromMax = <<e>> => Range(fromMax) = {e}
    BY EmptyRange DEF Range
  <2>2. CASE Joining
    BY <1>1, <1>3, <2>1, <2>2 DEF Joining, Unregistered, Reported
  <2>3. CASE Idle
    BY <1>1, <1>3, <2>1, <2>3 DEF Idle, Quiet, Reported
  <2>4. CASE Asked
    BY <1>1, <1>3, <2>1, <2>4 DEF Asked, Reported
  <2>5. CASE Answered
    <3>1. PICK e \in Range(fromMax) :
            /\ fromMax = <<e>> /\ e.type # "registered"
            /\ e.type = "applied" => flight.pc \in PlanPcs /\ Current(e.revision)
            /\ e.type = "snapshot" => Current(e.revision) /\ Current(registry)
            /\ e.type = "error" => Current(registry)
      BY <2>5 DEF Answered
    <3>2. Range(fromMax) = {e}
      BY <2>1, <3>1
    <3>3. e \in Event
      BY OnTheWire DEF BornInv, RecoverableInv
    <3>4. e.type \in {"applied", "snapshot", "error"}
      BY <3>1, <3>3 DEF Event
    <3>5. Current(revision)
      BY <2>5, <3>1, <3>2, <3>4 DEF Reported, ErrorIsComing, Answered
    <3> QED
      BY <3>5
  <2>6. CASE Down \/ Leaving \/ Lost
    BY <1>3, <2>1, <2>6 DEF Down, Leaving, Lost, Unregistered, Quiet, Reported
  <2> QED
    BY <1>1, <2>2, <2>3, <2>4, <2>5, <2>6 DEF Conversation
<1> QED
  BY <1>2, <1>3

\* Settling the record keeps what is reported explained, and then nothing but
\* the file and the managed graph explains it.
LEMMA SettledReports ==
  ASSUME BornInv, flight = None, Resolvable, NEW revision, Reported(revision)
  PROVE  RevisionOf(revision) \in {RevisionOf(saved.revision), Graph0(Resolved)}
<1>1. TypeOK /\ Conversation
  BY DEF BornInv, RecoverableInv
<1>2. ExplainedIn(revision, mem, saved)
  BY ReportsExplained
<1>3. CASE mem.pending = None
  BY <1>2, <1>3 DEF ExplainedIn, Resolved
<1>4. CASE mem.pending # None
  <2>1. Idle
    BY <1>1, <1>4, FreeSlot DEF Resolvable
  <2>2. revision = registry
    BY <2>1, EmptyRange DEF Idle, Quiet, Reported
  <2>3. CASE RevisionOf(registry) = mem.pending.next
    <3>1. mem.pending.next # None
      BY <1>1, <1>4, NoneAssumption DEF TypeOK, State, Pending
    <3>2. Graph0(Resolved) = mem.pending.next
      BY <1>4, <2>3, <3>1 DEF Resolved, Graph0
    <3> QED
      BY <2>2, <2>3, <3>2
  <2>4. CASE RevisionOf(registry) # mem.pending.next
    <3>1. Graph0(Resolved) = Graph0(mem)
      BY <1>1, <1>4, <2>4 DEF Resolved, Graph0, TypeOK, State
    <3> QED
      BY <1>2, <2>2, <2>4, <3>1 DEF ExplainedIn, Resolvable
  <2> QED
    BY <2>3, <2>4
<1> QED
  BY <1>3, <1>4

\* A call finds the slot free and reports nothing new.
LEMMA CallsReport ==
  ASSUME Concurrent = FALSE, BornInv, Calls
  PROVE  /\ flight = None /\ UNCHANGED saved
         /\ \A revision : Reported(revision)' => Reported(revision)
         /\ \/ UNCHANGED mem
            \/ /\ Resolvable
               /\ Graph0(mem') = Graph0(Resolved)
<1>1. TypeOK
  BY DEF BornInv, RecoverableInv
<1>2. flight = None
  BY DEF Calls, Call, RefusedAfterResolve, PrepareStart, PrepareCached, InspectStart, ReviewStart,
     AdoptStart, RecoverStart, ApplyForOtherCatalog, ApplyStale, ApplyReceipt
<1>3. UNCHANGED <<registry, fromMax, saved>>
  BY DEF Calls, RefusedAfterResolve, PrepareStart, PrepareCached, InspectStart, ReviewStart,
     AdoptStart, RecoverStart, ApplyForOtherCatalog, ApplyStale, ApplyReceipt, wire, native
<1>4. \A revision : Reported(revision)' => Reported(revision)
  BY <1>2, <1>3 DEF Reported
<1>5. ASSUME NEW i \in DOMAIN receipts, ApplyReceipt(i)
      PROVE  Resolvable /\ Graph0(mem') = Graph0(Resolved)
  <2>1. Resolved \in State /\ Resolvable
    BY <1>1, <1>5, ResolvedType DEF ApplyReceipt, Resolves
  <2>2. mem'.managed = Resolved.managed
    BY <1>5, <2>1 DEF ApplyReceipt, State
  <2> QED
    BY <2>1, <2>2 DEF Graph0
<1>6. UNCHANGED mem \/ (Resolvable /\ Graph0(mem') = Graph0(Resolved))
  BY <1>5 DEF Calls, Resolves, RefusedAfterResolve, PrepareStart, PrepareCached, InspectStart,
     ReviewStart, AdoptStart, RecoverStart, ApplyForOtherCatalog, ApplyStale, service
<1> QED
  BY <1>2, <1>3, <1>4, <1>6

\* After an answer was taken, the registered revision is all that is reported.
LEMMA OnlyRegistered ==
  ASSUME NEW revision, Reported(revision)', fromMax' = <<>>
  PROVE  revision = registry' /\ ~(flight' # None /\ flight'.pc \in PlanPcs)
BY EmptyRange DEF Reported, ErrorIsComing

LEMMA AdoptOrRebaseReports ==
  ASSUME TypeOK, NEW base \in Graph, NEW live \in Live, NEW superseded \in BOOLEAN,
         AdoptOrRebase(base, live, superseded),
         base = mem.managed \/ superseded,
         ~(flight' # None /\ flight'.pc \in PlanPcs)
  PROVE  \A revision : RevisionOf(revision) = base => ExplainedIn(revision, mem', saved)
<1>1. CASE live.managed = base
  <2>1. mem'.managed = base
    BY <1>1 DEF AdoptOrRebase, Adopted
  <2> QED
    BY <2>1, NoneAssumption DEF ExplainedIn, Graph0
<1>2. CASE live.managed # base
  <2>1. Rebase(base, live.managed, live, superseded)
    BY <1>2 DEF AdoptOrRebase
  <2>2. live.managed \in Graph
    BY DEF Live
  <2>3. /\ mem'.managed = mem.managed
        /\ mem'.pending = [base |-> base, next |-> live.managed, intent |-> live.managed,
                           superseded |-> superseded]
    BY <2>1 DEF Rebase, TypeOK, State
  <2>4. mem'.pending # None
    BY <2>2, <2>3, NoneIsNoRecord DEF Pending
  <2>5. base # None
    BY NoneAssumption
  <2> QED
    BY <2>3, <2>4, <2>5 DEF ExplainedIn, Graph0
<1> QED
  BY <1>1, <1>2

LEMMA ReceivedReports ==
  ASSUME BornInv, BridgeReceives
  PROVE  \A revision :
           Reported(revision)' => Reported(revision) /\ ExplainedIn(revision, mem', saved)
<1>1. TypeOK /\ Conversation /\ FlightRecorded /\ Explains(mem)
  BY DEF BornInv, RecoverableInv
<1>2. \A revision : Reported(revision) => ExplainedIn(revision, mem, saved)
  BY ReportsExplained
<1>3. ASSUME NEW type, Receive(type)
      PROVE  /\ Range(fromMax') \subseteq Range(fromMax) /\ Head(fromMax) \in Range(fromMax)
             /\ Head(fromMax).type = type
  BY <1>1, <1>3, ReceiveRange DEF Receive
<1>4. CASE BridgeRegisters
  <2>1. Reported(registry') /\ UNCHANGED <<mem, flight>>
    BY <1>3, <1>4 DEF BridgeRegisters, Reported, service
  <2>2. \A revision : Reported(revision)' => Reported(revision)
    BY <1>3, <1>4, <2>1 DEF BridgeRegisters, Reported
  <2> QED
    BY <1>2, <2>1, <2>2
<1>5. CASE BridgeIgnores
  <2>1. /\ Range(fromMax') \subseteq Range(fromMax) /\ UNCHANGED <<mem, registry, flight>>
    BY <1>3, <1>5 DEF BridgeIgnores, service
  <2>2. \A revision : Reported(revision)' => Reported(revision)
    BY <2>1 DEF Reported, ErrorIsComing
  <2> QED
    BY <1>2, <2>1, <2>2
<1>6. ASSUME NEW pcs, SnapshotArrives(pcs)
      PROVE  /\ fromMax' = <<>> /\ registry' = Head(fromMax).revision
             /\ Reported(registry') /\ ExplainedIn(registry', mem, saved)
  <2>1. Answer("snapshot", pcs) /\ registry' = Head(fromMax).revision
    BY <1>6 DEF SnapshotArrives
  <2>2. fromMax' = <<>>
    BY <1>1, <2>1, AnswerConverses
  <2>3. Reported(registry')
    BY <1>3, <2>1 DEF Answer, Reported
  <2> QED
    BY <1>2, <2>1, <2>2, <2>3
<1>7. ASSUME mem'.managed = mem.managed, mem'.pending = mem.pending
      PROVE  \A revision : ExplainedIn(revision, mem, saved) => ExplainedIn(revision, mem', saved)
  BY <1>7 DEF ExplainedIn, Graph0
<1>8. CASE InspectionArrives \/ PreparationArrives \/ BaselineArrives
  <2>1. PICK pcs : SnapshotArrives(pcs)
    BY <1>8 DEF InspectionArrives, PreparationArrives, BaselineArrives
  <2>2. mem'.managed = mem.managed /\ mem'.pending = mem.pending
    BY <1>1, <1>8 DEF InspectionArrives, PreparationArrives, BaselineArrives, TypeOK, State
  <2> QED
    BY <1>6, <1>7, <2>1, <2>2, OnlyRegistered
<1>9. CASE AdoptionArrives \/ RecoveryArrives
  <2>1. PICK pcs \in {{"adopting"}, {"recovering"}} : SnapshotArrives(pcs)
    BY <1>9 DEF AdoptionArrives, RecoveryArrives
  <2>2. /\ Head(fromMax).live \in Live /\ Head(fromMax).revision \in Revision
        /\ flight \in Flight /\ flight.pc \in pcs /\ flight # None
    BY <1>1, <2>1, SnapshotType, NoFlight
  <2>3. CASE GivesUp
    BY <1>6, <1>7, <2>1, <2>3, OnlyRegistered DEF GivesUp
  <2>4. CASE /\ AdoptionArrives /\ flight.current = RevisionOf(Head(fromMax).revision)
             /\ AdoptOrRebase(flight.current, Head(fromMax).live, FALSE)
    <3>1. flight.pc = "adopting" /\ flight.current \in Graph
      BY <1>1, <2>2, <2>4, AnswerType DEF AdoptionArrives, SnapshotArrives, Answer, Flight
    <3>2. flight.current = mem.managed
      BY <1>1, <2>2, <3>1 DEF FlightRecorded
    <3> QED
      BY <1>1, <1>6, <2>1, <2>2, <2>4, <3>1, <3>2, OnlyRegistered, AdoptOrRebaseReports
  <2>5. CASE /\ RecoveryArrives /\ Head(fromMax).revision = flight.live
             /\ AdoptOrRebase(flight.live, Head(fromMax).live, TRUE)
    <3>1. flight.live \in Graph
      BY <1>1, <2>2, <2>5, AnswerType DEF RecoveryArrives, SnapshotArrives, Answer, Flight
    <3>2. RevisionOf(Head(fromMax).revision) = flight.live
      BY <2>5, <3>1, NoneAssumption DEF RevisionOf
    <3> QED
      BY <1>1, <1>6, <2>1, <2>2, <2>5, <3>1, <3>2, OnlyRegistered, AdoptOrRebaseReports
  <2> QED
    BY <1>9, <2>3, <2>4, <2>5 DEF AdoptionArrives, RecoveryArrives
<1>10. CASE ApplyAcknowledged \/ RebaseAcknowledged
  <2>1. PICK pcs \in {{"applying"}, {"rebasing"}} : Acknowledgement(pcs)
    BY <1>10 DEF ApplyAcknowledged, RebaseAcknowledged
  <2>2. Answer("applied", pcs) /\ registry' = Head(fromMax).revision
    BY <2>1 DEF Acknowledgement
  <2>3. fromMax' = <<>> /\ registry' = flight.next /\ registry' \in Graph
    BY <1>1, <2>2, AnswerConverses, AnswerType
  <2>4. mem'.managed = flight.next
    <3>1. CASE ApplyAcknowledged
      BY <1>1, <3>1 DEF ApplyAcknowledged, TypeOK, State
    <3>2. CASE RebaseAcknowledged
      BY <3>2 DEF RebaseAcknowledged, Adopted
    <3> QED
      BY <1>10, <3>1, <3>2
  <2>5. ExplainedIn(registry', mem', saved)
    BY <2>3, <2>4, NoneAssumption DEF ExplainedIn, Graph0, RevisionOf
  <2>6. Reported(registry')
    BY <1>3, <2>2 DEF Answer, Reported
  <2> QED
    BY <2>3, <2>5, <2>6, OnlyRegistered
<1>11. CASE ErrorArrives
  <2>1. PICK pcs : Answer("error", pcs)
    BY <1>11 DEF ErrorArrives
  <2>2. fromMax' = <<>> /\ registry # None /\ UNCHANGED registry
    BY <1>1, <1>11, <2>1, AnswerConverses DEF ErrorArrives
  <2>3. Reported(registry)
    BY <1>3, <2>1, <2>2 DEF Answer, Reported, ErrorIsComing
  <2>4. mem'.managed = mem.managed /\ mem'.pending = mem.pending
    BY <1>1, <1>11 DEF ErrorArrives, Fails, TypeOK, State
  <2> QED
    BY <1>2, <1>7, <2>2, <2>3, <2>4, OnlyRegistered
<1> QED
  BY <1>4, <1>5, <1>8, <1>9, <1>10, <1>11 DEF BridgeReceives

LEMMA ReportedStep ==
  ASSUME Concurrent = FALSE, TimersFire = FALSE, BornInv, [Next]_vars  PROVE ReportedInv'
<1>1. \A revision : Reported(revision) => Current(revision) /\ ExplainedIn(revision, mem, saved)
  BY ReportsExplained
<1> SUFFICES ASSUME link' = "closedByMax", NEW revision, Reported(revision)'
             PROVE  Current(revision)' /\ ExplainedIn(revision, mem', saved')
  BY DEF ReportedInv
<1>2. ASSUME UNCHANGED <<max, saved>>, Current(revision)
      PROVE  Current(revision)'
  BY <1>2 DEF Current
<1>3. CASE Calls
  <2>1. Reported(revision) /\ UNCHANGED saved /\ flight = None
    BY <1>3, CallsReport
  <2>2. Current(revision)'
    <3>1. UNCHANGED max
      BY <1>3 DEF Calls, RefusedAfterResolve, PrepareStart, PrepareCached, InspectStart, ReviewStart,
         AdoptStart, RecoverStart, ApplyForOtherCatalog, ApplyStale, ApplyReceipt, native
    <3> QED
      BY <1>1, <1>2, <2>1, <3>1
  <2>3. CASE UNCHANGED mem
    BY <1>1, <2>1, <2>2, <2>3
  <2>4. CASE Resolvable /\ Graph0(mem') = Graph0(Resolved)
    BY <2>1, <2>2, <2>4, SettledReports DEF ExplainedIn
  <2> QED
    BY <1>3, <2>2, <2>3, <2>4, CallsReport
<1>4. CASE BridgeReceives
  <2>1. UNCHANGED <<max, saved>>
    BY <1>4 DEF BridgeReceives, BridgeRegisters, BridgeIgnores, InspectionArrives,
       PreparationArrives, AdoptionArrives, RecoveryArrives, ApplyAcknowledged,
       RebaseAcknowledged, BaselineArrives, ErrorArrives, native
  <2> QED
    BY <1>1, <1>2, <1>4, <2>1, ReceivedReports
<1>5. ASSUME UNCHANGED <<mem, registry, flight, fromMax>>
      PROVE  Current(revision) /\ ExplainedIn(revision, mem', saved)
  BY <1>1, <1>5 DEF Reported, ErrorIsComing
<1>6. ASSUME UNCHANGED <<mem, registry, flight, fromMax, saved>>,
             max'.revision \in {max.revision, saved.revision}
      PROVE  Current(revision)' /\ ExplainedIn(revision, mem', saved')
  BY <1>5, <1>6 DEF Current
<1>7. CASE PatchSaved
  <2>1. UNCHANGED <<mem, registry, flight, fromMax>> /\ saved' = max /\ max' = max
    BY <1>7 DEF PatchSaved, service, wire
  <2>2. Current(revision) /\ ExplainedIn(revision, mem', saved)
    BY <1>5, <2>1
  <2>3. ExplainedIn(revision, mem', saved')
    BY <2>1, <2>2 DEF Current, ExplainedIn
  <2> QED
    BY <2>1, <2>3 DEF Current
<1>8. CASE TimesOut \/ MaxHandles \/ MaxConnects \/ CloseSeen
  BY <1>8 DEF TimesOut, MaxHandles, MaxInspects, MaxApplies, MaxRefuses, MaxFailsHalfway,
     MaxReceives, MaxConnects, CloseSeen, BridgeSeesClose, MaxSeesClose, MaxEndCloses
<1>9. CASE PatchReopened
  BY <1>6, <1>9 DEF PatchReopened, service
<1>10. CASE PersonEdits
  <2>1. max'.revision = max.revision
    BY <1>10 DEF PersonEdits, BornInv, RecoverableInv, TypeOK, Patch
  <2> QED
    BY <1>6, <1>10, <2>1 DEF PersonEdits, service, wire
<1>11. CASE MaxDisconnects \/ DiskChanges
  BY <1>6, <1>11 DEF MaxDisconnects, DiskChanges, service, wire, native
<1>12. CASE BridgeLosesConnection \/ BrokerRestarts
  BY <1>12 DEF BridgeLosesConnection, BrokerRestarts
<1>13. CASE UNCHANGED vars
  BY <1>6, <1>13 DEF vars, service, wire, native
<1> QED
  BY <1>3, <1>4, <1>7, <1>8, <1>9, <1>10, <1>11, <1>12, <1>13 DEF Next, Environment

\* Only PrepareStart, which settled the record, makes a caller prepare.
LEMMA PreparingStep ==
  ASSUME Concurrent = FALSE, BornInv, [Next]_vars  PROVE SettledWhilePreparing'
<1>1. TypeOK /\ mem \in State /\ flight \in Flight \cup {None}
  BY DEF BornInv, RecoverableInv, TypeOK
<1>2. ASSUME UNCHANGED <<mem, flight>> \/ flight' = None
      PROVE  SettledWhilePreparing'
  BY <1>2 DEF SettledWhilePreparing, BornInv
<1>3. CASE PrepareStart
  <2>1. mem'.pending = None
    BY <1>1, <1>3, ResolvedExplicit DEF PrepareStart, Resolves
  <2> QED
    BY <2>1 DEF SettledWhilePreparing
<1>4. CASE Calls /\ ~PrepareStart
  <2>1. flight = None
    BY <1>4, CallsReport
  <2>2. flight' = None \/ flight'.pc # "preparing"
    <3>1. CASE RefusedAfterResolve \/ PrepareCached
      BY <2>1, <3>1 DEF RefusedAfterResolve, PrepareCached
    <3>2. CASE InspectStart
      BY <3>2 DEF InspectStart
    <3>3. CASE ReviewStart \/ AdoptStart \/ RecoverStart
      BY <3>3 DEF ReviewStart, AdoptStart, RecoverStart
    <3>4. ASSUME NEW i \in DOMAIN receipts, ApplyForOtherCatalog(i) \/ ApplyStale(i)
          PROVE  flight' = None
      BY <2>1, <3>4 DEF ApplyForOtherCatalog, ApplyStale
    <3>5. ASSUME NEW i \in DOMAIN receipts, ApplyReceipt(i)
          PROVE  flight' = None \/ flight'.pc # "preparing"
      <4>1. UNCHANGED flight \/ \E id, next, intent :
              flight' = [pc |-> "applying", id |-> id, next |-> next, intent |-> intent]
        BY <3>5, Zenon DEF ApplyReceipt
      <4> QED
        BY <2>1, <4>1
    <3> QED
      BY <1>4, <3>1, <3>2, <3>3, <3>4, <3>5 DEF Calls
  <2> QED
    BY <2>2 DEF SettledWhilePreparing
<1>5. CASE BridgeReceives
  <2>1. \/ UNCHANGED <<mem, flight>> \/ flight' = None
        \/ flight'.pc \in {"rebasing", "capturing"}
    <3>1. CASE AdoptionArrives \/ RecoveryArrives
      <4>1. ASSUME NEW base, NEW live, NEW superseded, AdoptOrRebase(base, live, superseded)
            PROVE  flight' = None \/ flight'.pc = "rebasing"
        <5>1. flight' = None \/ \E id, next :
                flight' = [pc |-> "rebasing", id |-> id, next |-> next]
          BY <4>1, Zenon DEF AdoptOrRebase, Rebase
        <5> QED
          BY <5>1
      <4> QED
        BY <3>1, <4>1 DEF AdoptionArrives, RecoveryArrives, GivesUp
    <3>2. CASE ApplyAcknowledged
      BY <3>2 DEF ApplyAcknowledged
    <3>3. CASE InspectionArrives \/ PreparationArrives \/ RebaseAcknowledged \/ BaselineArrives
      BY <3>3 DEF InspectionArrives, PreparationArrives, RebaseAcknowledged, BaselineArrives
    <3>4. CASE BridgeRegisters \/ BridgeIgnores \/ ErrorArrives
      BY <3>4 DEF BridgeRegisters, BridgeIgnores, ErrorArrives, Fails, service
    <3> QED
      BY <1>5, <3>1, <3>2, <3>3, <3>4 DEF BridgeReceives
  <2> QED
    BY <1>2, <2>1 DEF SettledWhilePreparing
<1>6. CASE TimesOut \/ MaxHandles \/ MaxConnects \/ CloseSeen \/ Environment \/ UNCHANGED vars
  BY <1>2, <1>6 DEF TimesOut, Fails, MaxHandles, MaxInspects, MaxApplies, MaxRefuses,
     MaxFailsHalfway, MaxConnects, CloseSeen, BridgeSeesClose, MaxSeesClose, BridgeForgets,
     Environment, PersonEdits, PatchSaved, PatchReopened, MaxDisconnects, DiskChanges,
     BridgeLosesConnection, BrokerRestarts, service, vars
<1> QED
  BY <1>3, <1>4, <1>5, <1>6 DEF Next

LEMMA StoredLast ==
  ASSUME TypeOK, NEW receipt \in Receipt  PROVE Last(Stored(receipt)) = receipt
<1>1. receipts \in Seq(Receipt) /\ MaxPrepared \in Nat \ {0} /\ Len(receipts) \in Nat
  BY BoundsAssumption, LenProperties DEF TypeOK
<1>2. PICK kept \in Seq(Receipt) : Stored(receipt) = Append(kept, receipt)
  <2>1. CASE Len(receipts) < MaxPrepared
    BY <1>1, <2>1 DEF Stored
  <2>2. CASE ~(Len(receipts) < MaxPrepared)
    <3>1. receipts # <<>>
      BY <1>1, <2>2
    <3> QED
      BY <1>1, <2>2, <3>1, HeadTailProperties DEF Stored
  <2> QED
    BY <2>1, <2>2
<1>3. Append(kept, receipt)[Len(Append(kept, receipt))] = receipt
  BY <1>2, AppendProperties
<1> QED
  BY <1>2, <1>3 DEF Last

\* A plan computed from the patch's revision, with no record in flight, has the
\* managed base, or the revision of the file.
LEMMA ReceiptsBorn ==
  ASSUME Concurrent = FALSE, BornInv, [Next]_vars,
         Len(receipts') >= Len(receipts), receipts' # receipts, registry # None
  PROVE  \/ mem'.managed \in {None, Last(receipts').base}
         \/ Last(receipts').base = RevisionOf(saved.revision)
<1>1. TypeOK /\ mem \in State /\ receipts \in Seq(Receipt)
  BY DEF BornInv, RecoverableInv, TypeOK
<1>2. PrepareCached \/ PreparationArrives
  <2>1. ASSUME NEW i \in DOMAIN receipts, receipts' = RemoveAt(receipts, i)
        PROVE  FALSE
    <3>1. Len(receipts) \in Nat /\ Len(receipts') \in Nat /\ Len(receipts') < Len(receipts)
      BY <1>1, <2>1, RemoveReceipt, LenProperties
    <3> QED
      BY <3>1
  <2>2. Calls => PrepareCached
    <3>1. ASSUME NEW i \in DOMAIN receipts
          PROVE  ~(ApplyForOtherCatalog(i) \/ ApplyStale(i) \/ ApplyReceipt(i))
      BY <2>1 DEF ApplyForOtherCatalog, ApplyStale, ApplyReceipt
    <3> QED
      BY <3>1 DEF Calls, RefusedAfterResolve, PrepareStart, InspectStart, ReviewStart, AdoptStart,
         RecoverStart, service
  <2>3. BridgeReceives => PreparationArrives
    BY DEF BridgeReceives, BridgeRegisters, BridgeIgnores, InspectionArrives, AdoptionArrives,
       RecoveryArrives, ApplyAcknowledged, RebaseAcknowledged, BaselineArrives, ErrorArrives,
       service
  <2>4. ~(TimesOut \/ MaxHandles \/ MaxConnects \/ CloseSeen \/ UNCHANGED vars)
    BY DEF TimesOut, MaxHandles, MaxInspects, MaxApplies, MaxRefuses, MaxFailsHalfway,
       MaxConnects, CloseSeen, BridgeSeesClose, MaxSeesClose, BridgeForgets, service, vars
  <2>5. ~(Environment /\ ~BrokerRestarts)
    BY DEF Environment, PersonEdits, PatchSaved, PatchReopened, MaxDisconnects, DiskChanges,
       BridgeLosesConnection, BridgeForgets, service
  <2>6. ~BrokerRestarts
    <3>1. SUFFICES ASSUME receipts' = <<>>  PROVE FALSE
      BY DEF BrokerRestarts
    <3>2. Len(receipts') = 0 /\ Len(receipts) \in Nat
      BY <1>1, <3>1, LenProperties, EmptySeq
    <3>3. Len(receipts) = 0
      BY <3>2
    <3> QED
      BY <1>1, <3>1, <3>3, EmptySeq
  <2> QED
    BY <2>2, <2>3, <2>4, <2>5, <2>6 DEF Next
<1>3. CASE PrepareCached
  <2>1. PICK supplied \in BOOLEAN, mode \in Mode, current \in Graph, desired \in Graph :
          /\ CurrentGraph(mem', supplied, mode, current)
          /\ receipts' = Stored(ReceiptFor(
                        Preparation(mem', supplied, mode, current, desired, None), cached))
    BY <1>3 DEF PrepareCached
  <2>2. mem' = Resolved /\ mem' \in State /\ Resolvable /\ cached \in Snapshot /\ flight = None
    BY <1>1, <1>3, ResolvedType DEF PrepareCached, Resolves, Call, TypeOK
  <2>3. Last(receipts').base = current
    BY <1>1, <2>1, <2>2, PreparationType, ReceiptType, StoredLast
  <2>4. current = RevisionOf(registry)
    BY <2>1, <1>3 DEF CurrentGraph, PrepareCached
  <2>5. Reported(registry)
    BY <2>2 DEF Reported
  <2>6. current \in {RevisionOf(saved.revision), Graph0(mem')}
    BY <2>2, <2>4, <2>5, SettledReports
  <2> QED
    BY <2>3, <2>6 DEF Graph0
<1>4. CASE PreparationArrives
  <2>1. /\ SnapshotArrives({"preparing"}) /\ mem' = mem
        /\ PlanExists(flight, SnapshotOf(Head(fromMax)))
        /\ receipts' = Stored(ReceiptFor(flight, SnapshotOf(Head(fromMax))))
    BY <1>4 DEF PreparationArrives
  <2>2. /\ flight \in Flight /\ flight.pc = "preparing" /\ flight # None
        /\ SnapshotOf(Head(fromMax)) \in Snapshot
    BY <1>1, <2>1, SnapshotType, NoFlight
  <2>3. flight.current \in Graph /\ flight.desired \in Graph /\ flight.mergeBase \in Graph
    BY <2>2 DEF Flight
  <2>4. Last(receipts').base = flight.current
    BY <1>1, <2>1, <2>2, <2>3, ReceiptType, StoredLast
  <2>5. flight.current = RevisionOf(Head(fromMax).revision)
    BY <2>1 DEF PlanExists, SnapshotOf
  <2>6. Reported(Head(fromMax).revision)
    BY <1>1, <2>1, ReceiveRange DEF SnapshotArrives, Answer, Receive, Reported
  <2>7. mem.pending = None
    BY <2>2 DEF BornInv, SettledWhilePreparing
  <2>8. flight.current \in {RevisionOf(saved.revision), Graph0(mem)}
    BY <2>5, <2>6, <2>7, ReportsExplained DEF ExplainedIn
  <2> QED
    BY <2>1, <2>4, <2>8 DEF Graph0
<1> QED
  BY <1>2, <1>3, <1>4

\* A receipt issued for a connected patch has the managed base that applying
\* it will ask for, unless the patch is at the revision of its file: for every
\* graph, any number of receipts and any number of calls, edits, breaks, faults
\* and restarts, as long as callers do not overlap and a request waits for its
\* connection.
THEOREM ReceiptsAreBornFresh ==
  ASSUME Concurrent = FALSE, TimersFire = FALSE
  PROVE  Spec => ReceiptIsBornFresh
<1>1. Init => BornInv
  <2> SUFFICES ASSUME Init PROVE BornInv
    OBVIOUS
  <2>1. TypeOK
    BY TypeInit
  <2>2. Conversation /\ FlightRecorded
    BY DEF Init, Conversation, Down, Unregistered, Quiet, FlightRecorded
  <2>3. Explains(mem) /\ Explains(disk)
    BY DEF Init, Explains
  <2>4. SettledWhilePreparing /\ ReportedInv
    BY DEF Init, SettledWhilePreparing, ReportedInv
  <2> QED
    BY <2>1, <2>2, <2>3, <2>4 DEF RecoverableInv, BornInv
<1>2. BornInv /\ [Next]_vars => BornInv'
  BY RecoverableStep, PreparingStep, ReportedStep DEF BornInv
<1>3. BornInv /\ [Next]_vars =>
        [Len(receipts') >= Len(receipts) /\ receipts' # receipts /\ registry # None =>
           \/ mem'.managed \in {None, Last(receipts').base}
           \/ Last(receipts').base = RevisionOf(saved.revision)]_vars
  BY ReceiptsBorn
<1> QED
  BY <1>1, <1>2, <1>3, PTL DEF Spec, ReceiptIsBornFresh
=============================================================================

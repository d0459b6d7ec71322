------------------------- MODULE PatchBridgeProofs -------------------------
(***************************************************************************)
(* Proofs about PatchBridge for any number of clients, patches and         *)
(* requests, and for clients that send any event at any time.              *)
(***************************************************************************)
EXTENDS PatchBridge, TLAPS

-----------------------------------------------------------------------------
(* The inductive invariant.  CallsInv speaks of the request tables only,     *)
(* ClientsInv of the clients the requests and registrations belong to.      *)

OutcomeIsPending == \A id \in RequestId : Pending(id) <=> outcome[id] = "pending"

CallsInv ==
  /\ requests \in [RequestId -> Request \cup {None}]
  /\ pendingOperations \in [Patcher -> RequestId \cup {None}]
  /\ outcome \in [RequestId -> Outcome]
  /\ SlotIsTheRequest
  /\ OutcomeIsPending

ClientsInv ==
  /\ started \in BOOLEAN
  /\ connection \in [Client -> Connection]
  /\ authenticated \subseteq Client
  /\ registrations \in [Patcher -> Registration \cup {None}]
  /\ clientPatcherIds \in [Client -> Patcher \cup {None}]
  /\ RegistrationsAreOwned
  /\ AwaitedClientIsConnected

BridgeInv == CallsInv /\ ClientsInv

-----------------------------------------------------------------------------
(* Requests. *)

\* Settling frees exactly the slots of the settled requests.
LEMMA SettleFrees ==
  ASSUME CallsInv, NEW ids \in SUBSET RequestId, \A id \in ids : Pending(id),
         NEW result \in {"resolved", "rejected"}, Settle(ids, result)
  PROVE  /\ CallsInv'
         /\ Slots!Settle(ids)
         /\ \A id \in RequestId : Pending(id)' => Pending(id) /\ requests'[id] = requests[id]
<1>1. /\ requests' \in [RequestId -> Request \cup {None}]
      /\ pendingOperations' \in [Patcher -> RequestId \cup {None}]
      /\ outcome' \in [RequestId -> Outcome]
  BY DEF CallsInv, Settle, Outcome
<1>2. \A id \in RequestId : Pending(id)' <=> Pending(id) /\ id \notin ids
  BY DEF Settle, Pending
<1>3. \A id \in RequestId : Pending(id)' => requests'[id] = requests[id]
  BY DEF Settle, Pending
<1>4. ASSUME NEW p \in Patcher
      PROVE  (\E id \in ids : requests[id].kind \in Exclusive /\ requests[id].patcher = p)
               <=> pendingOperations[p] \in ids
  BY BridgeAssumption DEF CallsInv, SlotIsTheRequest
<1>5. pendingOperations' =
        [p \in Patcher |-> IF pendingOperations[p] \in ids THEN None ELSE pendingOperations[p]]
  BY <1>4 DEF Settle
<1>6. SlotIsTheRequest'
  <2>1. ASSUME NEW p \in Patcher, pendingOperations'[p] # None
        PROVE  /\ requests'[pendingOperations'[p]] # None
               /\ requests'[pendingOperations'[p]].kind \in Exclusive
               /\ requests'[pendingOperations'[p]].patcher = p
    <3>1. pendingOperations'[p] = pendingOperations[p] /\ pendingOperations[p] \notin ids
          /\ pendingOperations[p] \in RequestId
      BY <1>5, <2>1 DEF CallsInv
    <3> QED
      BY <2>1, <3>1, <1>2, <1>3 DEF CallsInv, SlotIsTheRequest, Pending
  <2>2. ASSUME NEW id \in RequestId, Pending(id)', requests'[id].kind \in Exclusive
        PROVE  pendingOperations'[requests'[id].patcher] = id
    <3>1. Pending(id) /\ id \notin ids /\ requests'[id] = requests[id]
      BY <1>2, <1>3, <2>2
    <3>2. requests[id].patcher \in Patcher
      BY <3>1 DEF CallsInv, Pending, Request
    <3>3. pendingOperations[requests[id].patcher] = id
      BY <2>2, <3>1 DEF CallsInv, SlotIsTheRequest
    <3> QED
      BY <1>5, <3>1, <3>2, <3>3
  <2> QED
    BY <2>1, <2>2 DEF SlotIsTheRequest, Pending
<1>7. OutcomeIsPending'
  BY <1>2 DEF Settle, CallsInv, OutcomeIsPending
<1>8. Slots!Settle(ids)
  <2>1. \A id \in ids : outcome[id] = "pending"
    BY DEF CallsInv, OutcomeIsPending
  <2> QED
    BY <1>1, <1>5, <2>1 DEF Slots!Settle, Settle, Outcome
<1> QED
  BY <1>1, <1>2, <1>3, <1>6, <1>7, <1>8 DEF CallsInv

\* A request of the given client enters the tables.
LEMMA IssueAsks ==
  ASSUME CallsInv, NEW id \in RequestId, NEW request \in Request, Issue(id, request),
         \/ /\ request.kind \in New
            /\ UNCHANGED pendingOperations
         \/ /\ request.kind \in Exclusive
            /\ PatchIsIdle(request.patcher)
            /\ pendingOperations' = [pendingOperations EXCEPT ![request.patcher] = id]
  PROVE  /\ CallsInv'
         /\ Slots!Ask(id)
         /\ \A other \in RequestId :
              Pending(other)' => \/ requests'[other] = request
                                 \/ /\ Pending(other)
                                    /\ requests'[other] = requests[other]
<1>1. /\ requests' \in [RequestId -> Request \cup {None}]
      /\ pendingOperations' \in [Patcher -> RequestId \cup {None}]
      /\ outcome' \in [RequestId -> Outcome]
      /\ request.patcher \in Patcher
  BY DEF CallsInv, Issue, Outcome, Request
<1>2. ~Pending(id) /\ outcome[id] = "unused"
  BY DEF CallsInv, Issue, OutcomeIsPending
<1>3. requests'[id] = request /\ Pending(id)'
  BY BridgeAssumption DEF CallsInv, Issue, Pending
<1>4. \A other \in RequestId \ {id} :
        /\ requests'[other] = requests[other]
        /\ Pending(other)' <=> Pending(other)
  BY DEF CallsInv, Issue, Pending
<1>5. OutcomeIsPending'
  BY <1>3, <1>4 DEF CallsInv, Issue, OutcomeIsPending
<1>6. SlotIsTheRequest'
  <2>1. CASE request.kind \in New /\ UNCHANGED pendingOperations
    <3>1. request.kind \notin Exclusive
      BY <2>1 DEF New, Exclusive
    <3>2. ASSUME NEW p \in Patcher, pendingOperations[p] # None
          PROVE  pendingOperations[p] \in RequestId \ {id}
      BY <1>2, <3>2 DEF CallsInv, SlotIsTheRequest
    <3> QED
      BY <1>3, <1>4, <2>1, <3>1, <3>2 DEF CallsInv, SlotIsTheRequest
  <2>2. CASE /\ request.kind \in Exclusive
             /\ PatchIsIdle(request.patcher)
             /\ pendingOperations' = [pendingOperations EXCEPT ![request.patcher] = id]
    <3>1. pendingOperations[request.patcher] = None
      BY <2>2 DEF PatchIsIdle
    <3>2. /\ pendingOperations'[request.patcher] = id
          /\ \A p \in Patcher \ {request.patcher} : pendingOperations'[p] = pendingOperations[p]
      BY <1>1, <2>2 DEF CallsInv
    <3>3. ASSUME NEW p \in Patcher, pendingOperations'[p] # None
          PROVE  /\ requests'[pendingOperations'[p]] # None
                 /\ requests'[pendingOperations'[p]].kind \in Exclusive
                 /\ requests'[pendingOperations'[p]].patcher = p
      <4>1. CASE p = request.patcher
        BY <1>3, <2>2, <3>2, <4>1 DEF Pending
      <4>2. CASE p # request.patcher
        <5>1. pendingOperations'[p] = pendingOperations[p]
          BY <3>2, <4>2
        <5>2. pendingOperations[p] \in RequestId \ {id}
          BY <1>2, <3>3, <5>1 DEF CallsInv, SlotIsTheRequest
        <5> QED
          BY <1>4, <3>3, <5>1, <5>2 DEF CallsInv, SlotIsTheRequest, Pending
      <4> QED
        BY <4>1, <4>2
    <3>4. ASSUME NEW other \in RequestId, Pending(other)', requests'[other].kind \in Exclusive
          PROVE  pendingOperations'[requests'[other].patcher] = other
      <4>1. CASE other = id
        BY <1>3, <3>2, <4>1
      <4>2. CASE other # id
        <5>1. Pending(other) /\ requests'[other] = requests[other]
          BY <1>4, <3>4, <4>2
        <5>2. requests[other].patcher \in Patcher
          BY <5>1 DEF CallsInv, Pending, Request
        <5>3. pendingOperations[requests[other].patcher] = other
          BY <3>4, <5>1 DEF CallsInv, SlotIsTheRequest
        <5>4. requests[other].patcher # request.patcher
          BY <3>1, <5>3, BridgeAssumption
        <5> QED
          BY <3>2, <5>1, <5>2, <5>3, <5>4
      <4> QED
        BY <4>1, <4>2
    <3> QED
      BY <3>3, <3>4 DEF SlotIsTheRequest, Pending
  <2> QED
    BY <2>1, <2>2
<1>7. Slots!Ask(id)
  BY <1>1, <1>2 DEF Slots!Ask, Issue, PatchIsIdle
<1> QED
  BY <1>1, <1>3, <1>4, <1>5, <1>6, <1>7 DEF CallsInv

\* A new patch was created or registered: its requests are marked or resolved.
LEMMA NewPatchAnswers ==
  ASSUME CallsInv, NEW ready \in SUBSET RequestId, NEW marked \in SUBSET RequestId,
         \A id \in ready \cup marked : Pending(id) /\ requests[id].kind \in New,
         requests' \in [RequestId -> Request \cup {None}],
         \A id \in ready : requests'[id] = None,
         \A id \in marked \ ready : /\ requests'[id] \in Request
                                    /\ requests'[id].kind = requests[id].kind
                                    /\ requests'[id].client = requests[id].client,
         \A id \in RequestId \ (ready \cup marked) : requests'[id] = requests[id],
         outcome' = [id \in RequestId |-> IF id \in ready THEN "resolved" ELSE outcome[id]],
         UNCHANGED pendingOperations
  PROVE  /\ CallsInv'
         /\ Slots!Settle(ready)
         /\ \A id \in RequestId :
              Pending(id)' => Pending(id) /\ requests'[id].client = requests[id].client
<1>1. outcome' \in [RequestId -> Outcome]
  BY DEF CallsInv, Outcome
<1>2. \A id \in RequestId : Pending(id)' <=> Pending(id) /\ id \notin ready
  BY BridgeAssumption DEF Pending
<1>3. \A id \in RequestId : Pending(id)' =>
        /\ requests'[id].client = requests[id].client
        /\ requests'[id].kind = requests[id].kind
        /\ requests[id].kind \in Exclusive => requests'[id] = requests[id]
  BY <1>2 DEF New, Exclusive, Pending
<1>4. \A p \in Patcher : pendingOperations[p] \notin ready
  BY BridgeAssumption DEF CallsInv, SlotIsTheRequest, New, Exclusive
<1>5. SlotIsTheRequest'
  BY <1>2, <1>3, <1>4 DEF CallsInv, SlotIsTheRequest
<1>6. OutcomeIsPending'
  BY <1>2 DEF CallsInv, OutcomeIsPending
<1>7. Slots!Settle(ready)
  <2>1. \A id \in ready : outcome[id] = "pending"
    BY DEF CallsInv, OutcomeIsPending
  <2>2. pendingOperations' =
          [p \in Patcher |-> IF pendingOperations[p] \in ready THEN None
                             ELSE pendingOperations[p]]
    BY <1>4 DEF CallsInv
  <2> QED
    BY <1>1, <2>1, <2>2 DEF Slots!Settle, Outcome
<1> QED
  BY <1>1, <1>2, <1>3, <1>5, <1>6, <1>7 DEF CallsInv

-----------------------------------------------------------------------------
(* Clients. *)

\* An answer settles the request and may bring a revision.
LEMMA UpdatedType ==
  ASSUME ClientsInv, NEW c, NEW p \in Patcher, NEW scope, NEW revision \in Revision
  PROVE  /\ Updated(c, p, scope, revision) \in [Patcher -> Registration \cup {None}]
         /\ \A q \in Patcher :
              /\ Updated(c, p, scope, revision)[q] # None => registrations[q] # None
              /\ registrations[q] # None =>
                   Updated(c, p, scope, revision)[q].client = registrations[q].client
BY DEF ClientsInv, Updated, Registration

\* Nobody connects, disconnects or registers, and no request has a new client.
LEMMA ClientsKept ==
  ASSUME ClientsInv, UNCHANGED <<started, connection, authenticated, clientPatcherIds>>,
         registrations' \in [Patcher -> Registration \cup {None}],
         \A p \in Patcher : registrations'[p] # None =>
           registrations[p] # None /\ registrations'[p].client = registrations[p].client,
         \A id \in RequestId : Pending(id)' =>
           Pending(id) /\ requests'[id].client = requests[id].client
  PROVE  ClientsInv'
BY DEF ClientsInv, RegistrationsAreOwned, AwaitedClientIsConnected

\* A connection that is not new and does not end changes its state.
LEMMA ClientsOpened ==
  ASSUME ClientsInv, requests \in [RequestId -> Request \cup {None}],
         UNCHANGED <<started, registry, requests>>,
         connection' \in [Client -> Connection],
         \A d \in Client : connection[d] # "none" => connection'[d] # "none",
         authenticated' \subseteq Client
  PROVE  ClientsInv'
<1>1. RegistrationsAreOwned'
  BY DEF ClientsInv, RegistrationsAreOwned, Registration, registry
<1>2. AwaitedClientIsConnected'
  BY DEF ClientsInv, AwaitedClientIsConnected, Pending, Request
<1> QED
  BY <1>1, <1>2 DEF ClientsInv, registry

\* What a step of the bridge does to the promise of RequestSlots.
SlotStep == Slots!Next \/ UNCHANGED <<pendingOperations, outcome>>

\* Settling requests is a step of RequestSlots.
LEMMA SettleIsStep ==
  ASSUME NEW ids \in SUBSET RequestId, Slots!Settle(ids)
  PROVE  SlotStep
BY DEF SlotStep, Slots!Next

\* Issuing a request is a step of RequestSlots.
LEMMA AskIsStep ==
  ASSUME NEW id \in RequestId, Slots!Ask(id)
  PROVE  SlotStep
BY DEF SlotStep, Slots!Next

\* Leaving the request tables alone keeps the invariant of the tables.
LEMMA CallsKept ==
  ASSUME CallsInv, UNCHANGED <<requests, pendingOperations, outcome>>
  PROVE  CallsInv' /\ SlotStep
BY DEF CallsInv, SlotIsTheRequest, OutcomeIsPending, Pending, SlotStep

\* One or more requests are settled, and only registrations may change with it.
LEMMA SettleStep ==
  ASSUME BridgeInv, NEW ids \in SUBSET RequestId, \A id \in ids : Pending(id),
         NEW result \in {"resolved", "rejected"}, Settle(ids, result),
         UNCHANGED <<started, connection, authenticated, clientPatcherIds>>,
         registrations' \in [Patcher -> Registration \cup {None}],
         \A p \in Patcher : registrations'[p] # None =>
           registrations[p] # None /\ registrations'[p].client = registrations[p].client
  PROVE  BridgeInv' /\ SlotStep
<1>1. /\ CallsInv' /\ Slots!Settle(ids)
      /\ \A id \in RequestId : Pending(id)' => Pending(id) /\ requests'[id] = requests[id]
  BY SettleFrees DEF BridgeInv
<1>2. ClientsInv'
  BY <1>1, ClientsKept DEF BridgeInv
<1> QED
  BY <1>1, <1>2, SettleIsStep DEF BridgeInv

-----------------------------------------------------------------------------
(* Every step keeps the invariant and is a step of RequestSlots. *)

\* Every step of the bridge keeps BridgeInv and is a step or a stutter of RequestSlots.
LEMMA BridgeStep == BridgeInv /\ [Next]_vars => BridgeInv' /\ SlotStep
<1> SUFFICES ASSUME BridgeInv, [Next]_vars
             PROVE  BridgeInv' /\ SlotStep
  OBVIOUS
<1>0. /\ registrations \in [Patcher -> Registration \cup {None}]
      /\ requests \in [RequestId -> Request \cup {None}]
      /\ connection \in [Client -> Connection]
  BY DEF BridgeInv, CallsInv, ClientsInv
<1>1. ASSUME NEW kind, NEW p \in Patcher, NEW id \in RequestId, NEW target \in Revision,
             AskPatch(kind, p, id, target)
      PROVE  BridgeInv' /\ SlotStep
  <2> DEFINE request ==
        [kind |-> kind, client |-> registrations[p].client, patcher |-> p,
         scope |-> registrations[p].scope, target |-> target,
         created |-> FALSE, registered |-> FALSE]
  <2>1. registrations[p] \in Registration /\ connection[registrations[p].client] = "open"
    BY <1>0, <1>1 DEF AskPatch, OpenOwner
  <2>2. /\ request \in Request /\ request.kind = kind /\ request.patcher = p
        /\ request.client = registrations[p].client
    BY <1>1, <2>1 DEF AskPatch, Request, Registration
  <2>3. Issue(id, request)
    BY <1>1 DEF AskPatch
  <2> HIDE DEF request
  <2>4. /\ CallsInv' /\ Slots!Ask(id)
        /\ \A other \in RequestId :
             Pending(other)' => \/ requests'[other] = request
                                \/ /\ Pending(other)
                                   /\ requests'[other] = requests[other]
    BY <1>1, <2>2, <2>3, IssueAsks DEF AskPatch, BridgeInv
  <2>5. ClientsInv'
    BY <1>1, <2>1, <2>2, <2>4
    DEF AskPatch, BridgeInv, ClientsInv, RegistrationsAreOwned, AwaitedClientIsConnected,
        clients, registry
  <2> QED
    BY <2>4, <2>5, AskIsStep DEF BridgeInv
<1>2. ASSUME NEW kind, NEW p \in Patcher, NEW scope \in Scope, NEW id \in RequestId,
             NEW target \in Revision, AskController(kind, p, scope, id, target)
      PROVE  BridgeInv' /\ SlotStep
  <2>1. PICK k \in Patcher :
          /\ Controllers = {k}
          /\ Issue(id, [kind |-> kind, client |-> registrations[k].client,
                        patcher |-> p, scope |-> scope, target |-> target,
                        created |-> FALSE, registered |-> FALSE])
    BY <1>2 DEF AskController
  <2> DEFINE request == [kind |-> kind, client |-> registrations[k].client,
                         patcher |-> p, scope |-> scope, target |-> target,
                         created |-> FALSE, registered |-> FALSE]
  <2>2. registrations[k] \in Registration /\ connection[registrations[k].client] = "open"
    BY <1>0, <2>1 DEF Controllers, OpenOwner
  <2>3. /\ request \in Request /\ request.kind = kind /\ request.kind \in New
        /\ request.client = registrations[k].client
    BY <1>2, <2>2 DEF AskController, Request, Registration
  <2>4. Issue(id, request) /\ UNCHANGED pendingOperations
    BY <1>2, <2>1 DEF AskController
  <2> HIDE DEF request
  <2>5. /\ CallsInv' /\ Slots!Ask(id)
        /\ \A other \in RequestId :
             Pending(other)' => \/ requests'[other] = request
                                \/ /\ Pending(other)
                                   /\ requests'[other] = requests[other]
    BY <2>3, <2>4, IssueAsks DEF BridgeInv
  <2>6. ClientsInv'
    BY <1>2, <2>2, <2>3, <2>5
    DEF AskController, BridgeInv, ClientsInv, RegistrationsAreOwned,
        AwaitedClientIsConnected, clients, registry
  <2> QED
    BY <2>5, <2>6, AskIsStep DEF BridgeInv
<1>3. ASSUME NEW id \in RequestId, GivenUp(id)
      PROVE  BridgeInv' /\ SlotStep
  BY <1>0, <1>3, SettleStep DEF GivenUp, clients, registry
<1>4. ASSUME NEW c \in Client, Connects(c)
      PROVE  BridgeInv' /\ SlotStep
  <2>1. CallsInv' /\ SlotStep
    BY <1>4, CallsKept DEF Connects, BridgeInv, calls
  <2>2. ClientsInv'
    BY <1>4
    DEF Connects, BridgeInv, ClientsInv, Connection, RegistrationsAreOwned,
        AwaitedClientIsConnected, Pending, registry, calls
  <2> QED
    BY <2>1, <2>2 DEF BridgeInv
<1>5. ASSUME NEW c \in Client, Authenticates(c) \/ Ends(c)
      PROVE  BridgeInv' /\ SlotStep
  <2>1. CallsInv' /\ SlotStep
    BY <1>5, CallsKept DEF Authenticates, Ends, BridgeInv, calls
  <2>2. /\ connection' \in [Client -> Connection]
        /\ \A d \in Client : connection[d] # "none" => connection'[d] # "none"
        /\ authenticated' \subseteq Client
    BY <1>0, <1>5
    DEF Authenticates, Ends, Delivers, BridgeInv, ClientsInv, Connection
  <2>3. UNCHANGED <<started, registry, requests>>
    BY <1>5 DEF Authenticates, Ends, calls
  <2>4. ClientsInv'
    BY <1>0, <2>2, <2>3, ClientsOpened DEF BridgeInv
  <2> QED
    BY <2>1, <2>4 DEF BridgeInv
<1>6. ASSUME NEW c \in Client, Disconnects(c)
      PROVE  BridgeInv' /\ SlotStep
  <2> DEFINE gone == PendingOf(c)
  <2>1. gone \in SUBSET RequestId /\ \A id \in gone : Pending(id)
    BY DEF PendingOf
  <2>2. Settle(gone, "rejected")
    BY <1>6 DEF Disconnects, Forget
  <2>3. /\ CallsInv' /\ Slots!Settle(gone)
        /\ \A id \in RequestId : Pending(id)' => Pending(id) /\ requests'[id] = requests[id]
    BY <2>1, <2>2, SettleFrees DEF BridgeInv
  <2>4. \A id \in RequestId : Pending(id)' => requests[id].client # c
    BY <2>2, <2>3 DEF Settle, PendingOf, Pending
  <2>5. \A d \in Client : d # c => connection'[d] = connection[d]
    BY <1>0, <1>6 DEF Disconnects
  <2>6. AwaitedClientIsConnected'
    BY <1>0, <2>3, <2>4, <2>5
    DEF BridgeInv, ClientsInv, AwaitedClientIsConnected, Pending, Request
  <2>7. RegistrationsAreOwned'
    <3> SUFFICES ASSUME NEW q \in Patcher, registrations'[q] # None
                 PROVE  /\ connection'[registrations'[q].client] # "none"
                        /\ clientPatcherIds'[registrations'[q].client] = q
      BY DEF RegistrationsAreOwned
    <3>1. registrations'[q] = registrations[q] /\ registrations[q] \in Registration
      BY <1>0, <1>6 DEF Disconnects
    <3>2. connection[registrations[q].client] # "none"
          /\ clientPatcherIds[registrations[q].client] = q
      BY <3>1 DEF BridgeInv, ClientsInv, RegistrationsAreOwned
    <3>3. registrations[q].client # c
      BY <1>6, <3>1, <3>2 DEF Disconnects
    <3>4. clientPatcherIds'[registrations[q].client] = clientPatcherIds[registrations[q].client]
      BY <1>6, <3>1, <3>3 DEF Disconnects, BridgeInv, ClientsInv, Registration
    <3> QED
      BY <2>5, <3>1, <3>2, <3>3, <3>4 DEF Registration
  <2>8. ClientsInv'
    BY <1>6, <2>6, <2>7 DEF Disconnects, BridgeInv, ClientsInv, Connection
  <2> QED
    BY <2>1, <2>3, <2>8, SettleIsStep DEF BridgeInv
<1>7. ASSUME NEW c \in Client, ConnectionErrs(c)
      PROVE  BridgeInv' /\ SlotStep
  BY <1>0, <1>7, SettleStep DEF ConnectionErrs, Forget, PendingOf, clients, registry
<1>8. CASE ServerErrs
  BY <1>0, <1>8, SettleStep DEF ServerErrs, clients, registry
<1>9. CASE Closes
  <2> DEFINE all == {id \in RequestId : Pending(id)}
  <2>1. /\ CallsInv' /\ Slots!Settle(all)
    BY <1>9, SettleFrees DEF Closes, BridgeInv
  <2>2. \A id \in RequestId : ~Pending(id)'
    BY <1>9 DEF Closes, Settle, Pending
  <2>3. /\ connection' \in [Client -> Connection]
        /\ registrations' \in [Patcher -> Registration \cup {None}]
        /\ clientPatcherIds' \in [Client -> Patcher \cup {None}]
        /\ started' \in BOOLEAN /\ authenticated' \subseteq Client
    BY <1>9 DEF Closes, Connection
  <2>4. \A p \in Patcher : registrations'[p] = None
    BY <1>9 DEF Closes
  <2>5. ClientsInv'
    BY <2>2, <2>3, <2>4 DEF ClientsInv, RegistrationsAreOwned, AwaitedClientIsConnected
  <2> QED
    BY <2>1, <2>5, SettleIsStep DEF BridgeInv
<1>10. ASSUME NEW c \in Client, NEW a \in Announcement, RegistersDuplicate(c, a)
       PROVE  BridgeInv' /\ SlotStep
  <2>1. CallsInv' /\ SlotStep
    BY <1>10, CallsKept DEF RegistersDuplicate, BridgeInv, calls
  <2>2. ClientsInv'
    BY <1>10
    DEF RegistersDuplicate, BridgeInv, ClientsInv, Connection,
        RegistrationsAreOwned, AwaitedClientIsConnected, Pending, registry, calls
  <2> QED
    BY <2>1, <2>2 DEF BridgeInv
<1>11. ASSUME NEW c \in Client, NEW a \in Announcement, NEW revision \in Revision,
              Registers(c, a, revision)
       PROVE  BridgeInv' /\ SlotStep
  <2> DEFINE ready == {id \in Expected(a) : requests[id].created}
  <2>1. /\ ready \in SUBSET RequestId /\ Expected(a) \in SUBSET RequestId
        /\ \A id \in ready \cup Expected(a) : Pending(id) /\ requests[id].kind \in New
    BY DEF Expected
  <2>2. requests' = [id \in RequestId |->
                       CASE id \in ready -> None
                         [] id \in Expected(a) \ ready -> [requests[id] EXCEPT !.registered = TRUE]
                         [] OTHER -> requests[id]]
    BY <1>11 DEF Registers
  <2>3. \A id \in Expected(a) \ ready : /\ requests'[id] \in Request
                                        /\ requests'[id].kind = requests[id].kind
                                        /\ requests'[id].client = requests[id].client
    BY <1>0, <2>1, <2>2 DEF Pending, Request
  <2>4. /\ \A id \in ready : requests'[id] = None
        /\ \A id \in RequestId \ (ready \cup Expected(a)) : requests'[id] = requests[id]
    BY <2>1, <2>2
  <2>5. requests' \in [RequestId -> Request \cup {None}]
    BY <1>0, <2>2, <2>3, <2>4
  <2>6. /\ outcome' = [id \in RequestId |-> IF id \in ready THEN "resolved" ELSE outcome[id]]
        /\ UNCHANGED pendingOperations
    BY <1>11 DEF Registers
  <2> HIDE DEF ready
  <2>7. /\ CallsInv' /\ Slots!Settle(ready)
        /\ \A id \in RequestId :
             Pending(id)' => Pending(id) /\ requests'[id].client = requests[id].client
    BY <2>1, <2>3, <2>4, <2>5, <2>6, NewPatchAnswers DEF BridgeInv
  <2>8. AwaitedClientIsConnected'
    BY <1>11, <2>7
    DEF Registers, clients, BridgeInv, ClientsInv, AwaitedClientIsConnected
  <2>9. a.patcher \in Patcher /\ a.scope \in Scope
        /\ a.controller \in BOOLEAN /\ a.compatible \in BOOLEAN
    BY BridgeAssumption
  <2>10. registrations' \in [Patcher -> Registration \cup {None}]
    BY <1>0, <1>11, <2>9 DEF Registers, Registered, Registration
  <2>11. RegistrationsAreOwned'
    <3> SUFFICES ASSUME NEW q \in Patcher, registrations'[q] # None
                 PROVE  /\ connection'[registrations'[q].client] # "none"
                        /\ clientPatcherIds'[registrations'[q].client] = q
      BY DEF RegistrationsAreOwned
    <3>1. UNCHANGED connection /\ clientPatcherIds' = [clientPatcherIds EXCEPT ![c] = a.patcher]
      BY <1>11 DEF Registers, clients
    <3>2. CASE q = a.patcher
      BY <1>11, <3>1, <3>2
      DEF Registers, Registered, Speaks, Delivers, BridgeInv, ClientsInv
    <3>3. CASE q # a.patcher
      <4>1. registrations'[q] = registrations[q] /\ q # clientPatcherIds[c]
            /\ registrations[q] \in Registration
        BY <1>0, <1>11, <3>3 DEF Registers, Registered
      <4>2. /\ connection[registrations[q].client] # "none"
            /\ clientPatcherIds[registrations[q].client] = q
        BY <4>1 DEF BridgeInv, ClientsInv, RegistrationsAreOwned
      <4>3. registrations[q].client # c
        BY <4>1, <4>2
      <4> QED
        BY <3>1, <4>1, <4>2, <4>3 DEF Registration, BridgeInv, ClientsInv
    <3> QED
      BY <3>2, <3>3
  <2>12. ClientsInv'
    BY <1>11, <2>8, <2>9, <2>10, <2>11 DEF Registers, clients, BridgeInv, ClientsInv
  <2> QED
    BY <2>1, <2>7, <2>12, SettleIsStep DEF BridgeInv
<1>12. ASSUME NEW c \in Client, NEW p \in Patcher, NEW scope \in Scope,
              NEW revision \in Revision, ReportsRevision(c, p, scope, revision)
       PROVE  BridgeInv' /\ SlotStep
  <2>1. CallsInv' /\ SlotStep
    BY <1>12, CallsKept DEF ReportsRevision, BridgeInv, calls
  <2>2. /\ registrations' \in [Patcher -> Registration \cup {None}]
        /\ \A q \in Patcher : registrations'[q] # None =>
             registrations[q] # None /\ registrations'[q].client = registrations[q].client
    BY <1>12, UpdatedType DEF ReportsRevision, BridgeInv
  <2>3. \A id \in RequestId : Pending(id)' =>
          Pending(id) /\ requests'[id].client = requests[id].client
    BY <1>12 DEF ReportsRevision, calls, Pending
  <2>4. ClientsInv'
    BY <1>12, <2>2, <2>3, ClientsKept DEF ReportsRevision, BridgeInv, clients
  <2> QED
    BY <2>1, <2>4 DEF BridgeInv
<1>13. ASSUME NEW c \in Client, NEW id \in RequestId, NEW revision \in Revision,
              Applied(c, id, revision) \/ SnapshotSent(c, id, revision)
       PROVE  BridgeInv' /\ SlotStep
  <2>1. Pending(id) /\ requests[id].patcher \in Patcher
    BY <1>0, <1>13 DEF Applied, SnapshotSent, Answers, PendingOf, Pending, Request
  <2>2. /\ registrations' \in [Patcher -> Registration \cup {None}]
        /\ \A p \in Patcher : registrations'[p] # None =>
             registrations[p] # None /\ registrations'[p].client = registrations[p].client
    BY <1>13, <2>1, UpdatedType DEF Applied, SnapshotSent, BridgeInv
  <2> QED
    BY <1>13, <2>1, <2>2, SettleStep DEF Applied, SnapshotSent, clients
<1>14. ASSUME NEW c \in Client, NEW id \in RequestId,
              PatchSaved(c, id) \/ AnswersWrongly(c, id) \/ SaysNo(c, id)
       PROVE  BridgeInv' /\ SlotStep
  BY <1>0, <1>14, SettleStep
  DEF PatchSaved, AnswersWrongly, SaysNo, Answers, PendingOf, clients, registry
<1>15. ASSUME NEW c \in Client, NEW id \in RequestId, PatchClosing(c, id)
       PROVE  BridgeInv' /\ SlotStep
  <2> DEFINE p == requests[id].patcher
  <2>1. Pending(id) /\ p \in Patcher /\ Settle({id}, "resolved") /\ UNCHANGED clients
    BY <1>0, <1>15 DEF PatchClosing, Answers, PendingOf, Pending, Request
  <2>2. CASE ~(registrations[p] # None /\ registrations[p].client = c)
    <3>1. UNCHANGED registry
      BY <1>15, <2>2 DEF PatchClosing, registry
    <3> QED
      BY <1>0, <2>1, <3>1, SettleStep DEF clients, registry
  <2>3. CASE registrations[p] # None /\ registrations[p].client = c
    <3>1. /\ registrations' = [registrations EXCEPT ![p] = None]
          /\ clientPatcherIds' = [clientPatcherIds EXCEPT ![c] = None]
      BY <1>15, <2>3 DEF PatchClosing
    <3>2. /\ CallsInv' /\ Slots!Settle({id})
          /\ \A other \in RequestId :
               Pending(other)' => Pending(other) /\ requests'[other] = requests[other]
      BY <2>1, SettleFrees DEF BridgeInv
    <3>3. clientPatcherIds[c] = p
      BY <2>1, <2>3 DEF BridgeInv, ClientsInv, RegistrationsAreOwned
    <3>4. RegistrationsAreOwned'
      <4> SUFFICES ASSUME NEW q \in Patcher, registrations'[q] # None
                   PROVE  /\ connection'[registrations'[q].client] # "none"
                          /\ clientPatcherIds'[registrations'[q].client] = q
        BY DEF RegistrationsAreOwned
      <4>1. q # p /\ registrations'[q] = registrations[q] /\ registrations[q] \in Registration
        BY <1>0, <2>1, <3>1
      <4>2. /\ connection[registrations[q].client] # "none"
            /\ clientPatcherIds[registrations[q].client] = q
        BY <4>1 DEF BridgeInv, ClientsInv, RegistrationsAreOwned
      <4>3. registrations[q].client # c
        BY <3>3, <4>1, <4>2
      <4> QED
        BY <2>1, <3>1, <4>1, <4>2, <4>3 DEF clients, Registration, BridgeInv, ClientsInv
    <3>5. ClientsInv'
      <4>1. /\ registrations' \in [Patcher -> Registration \cup {None}]
            /\ clientPatcherIds' \in [Client -> Patcher \cup {None}]
        BY <1>0, <2>1, <3>1 DEF BridgeInv, ClientsInv
      <4>2. AwaitedClientIsConnected'
        BY <2>1, <3>2 DEF clients, BridgeInv, ClientsInv, AwaitedClientIsConnected
      <4> QED
        BY <2>1, <3>4, <4>1, <4>2 DEF clients, BridgeInv, ClientsInv
    <3> QED
      BY <3>2, <3>5, SettleIsStep DEF BridgeInv
  <2> QED
    BY <2>2, <2>3
<1>16. ASSUME NEW c \in Client, NEW id \in RequestId, NEW kind \in New,
              NewPatchReady(c, id, kind)
       PROVE  BridgeInv' /\ SlotStep
  <2>1. Pending(id) /\ requests[id] \in Request /\ requests[id].kind \in New
    BY <1>0, <1>16 DEF NewPatchReady, Answers, PendingOf, Pending
  <2>2. CASE requests[id].registered
    BY <1>0, <1>16, <2>1, <2>2, SettleStep DEF NewPatchReady, clients, registry
  <2>3. CASE ~requests[id].registered
    <3>1. /\ requests' = [requests EXCEPT ![id].created = TRUE]
          /\ UNCHANGED <<pendingOperations, outcome, clients, registry>>
      BY <1>16, <2>3 DEF NewPatchReady
    <3>2. /\ requests'[id] \in Request
          /\ requests'[id].kind = requests[id].kind
          /\ requests'[id].client = requests[id].client
          /\ requests' \in [RequestId -> Request \cup {None}]
          /\ \A other \in RequestId \ {id} : requests'[other] = requests[other]
      BY <1>0, <2>1, <3>1 DEF Request
    <3>3. outcome' = [other \in RequestId |-> IF other \in {} THEN "resolved" ELSE outcome[other]]
      BY <3>1 DEF BridgeInv, CallsInv
    <3>4. /\ CallsInv' /\ Slots!Settle({})
          /\ \A other \in RequestId :
               Pending(other)' => Pending(other) /\ requests'[other].client = requests[other].client
      <4> DEFINE marked == {id}
                 ready == {}
      <4>1. /\ marked \in SUBSET RequestId /\ ready \in SUBSET RequestId
            /\ \A other \in ready \cup marked : Pending(other) /\ requests[other].kind \in New
            /\ \A other \in ready : requests'[other] = None
            /\ \A other \in marked \ ready : /\ requests'[other] \in Request
                                             /\ requests'[other].kind = requests[other].kind
                                             /\ requests'[other].client = requests[other].client
            /\ \A other \in RequestId \ (ready \cup marked) : requests'[other] = requests[other]
        BY <2>1, <3>2
      <4> QED
        BY <3>1, <3>2, <3>3, <4>1, NewPatchAnswers DEF BridgeInv
    <3>5. ClientsInv'
      BY <1>0, <3>1, <3>4, ClientsKept DEF BridgeInv, clients, registry
    <3> QED
      BY <3>4, <3>5, SettleIsStep DEF BridgeInv
  <2> QED
    BY <2>2, <2>3
<1>17. CASE UNCHANGED vars
  <2>1. CallsInv' /\ SlotStep
    BY <1>17, CallsKept DEF vars, BridgeInv, calls
  <2>2. ClientsInv'
    BY <1>0, <1>17, ClientsKept DEF vars, BridgeInv, clients, registry, calls, Pending
  <2> QED
    BY <2>1, <2>2 DEF BridgeInv
<1> QED
  BY <1>1, <1>2, <1>3, <1>4, <1>5, <1>6, <1>7, <1>8, <1>9, <1>10, <1>11, <1>12,
     <1>13, <1>14, <1>15, <1>16, <1>17
  DEF Next, Asks, ConnectionChanges, Says

\* The initial states satisfy the invariant and map to initial states.
LEMMA BridgeStart == Init => BridgeInv /\ Slots!Init
<1> SUFFICES ASSUME Init PROVE BridgeInv /\ Slots!Init
  OBVIOUS
<1>1. CallsInv
  BY DEF Init, CallsInv, Outcome, SlotIsTheRequest, OutcomeIsPending, Pending
<1>2. ClientsInv
  BY DEF Init, ClientsInv, Connection, RegistrationsAreOwned, AwaitedClientIsConnected, Pending
<1>3. Slots!Init
  BY DEF Init, Slots!Init
<1> QED
  BY <1>1, <1>2, <1>3 DEF BridgeInv

-----------------------------------------------------------------------------
(* Who speaks for whom, when a refused client does not register again. *)

\* An open client that has an id holds the registration of that id, and a
\* client that is gone has no id.
OpenClientsOwn ==
  \A c \in Client :
    /\ connection[c] = "none" => clientPatcherIds[c] = None
    /\ connection[c] = "open" /\ clientPatcherIds[c] # None =>
         /\ registrations[clientPatcherIds[c]] # None
         /\ registrations[clientPatcherIds[c]].client = c

OwnedInv == BridgeInv /\ OpenClientsOwn

\* A revision of a client ends no registration and touches only its own.
LEMMA UpdatedIsOwn ==
  ASSUME ClientsInv, NEW c, NEW p \in Patcher, NEW scope, NEW revision \in Revision,
         NEW q \in Patcher, registrations[q] # None
  PROVE  /\ Updated(c, p, scope, revision)[q] # None
         /\ Updated(c, p, scope, revision)[q].client = registrations[q].client
         /\ registrations[q].client # c =>
              Updated(c, p, scope, revision)[q] = registrations[q]
<1>1. registrations[q] \in Registration
  BY DEF ClientsInv
<1>2. CASE Updated(c, p, scope, revision) = registrations
  BY <1>2
<1>3. CASE Updated(c, p, scope, revision) # registrations
  <2>1. /\ Updated(c, p, scope, revision) = [registrations EXCEPT ![p].revision = revision]
        /\ registrations[p].client = c
    BY <1>3 DEF Updated
  <2>2. CASE q = p
    <3>1. Updated(c, p, scope, revision)[q] = [registrations[q] EXCEPT !.revision = revision]
      BY <2>1, <2>2 DEF ClientsInv
    <3>2. [registrations[q] EXCEPT !.revision = revision] \in Registration
      BY <1>1 DEF Registration
    <3> QED
      BY <1>1, <2>1, <2>2, <3>1, <3>2, BridgeAssumption DEF Registration
  <2>3. CASE q # p
    BY <2>1, <2>3 DEF ClientsInv
  <2> QED
    BY <2>2, <2>3
<1> QED
  BY <1>2, <1>3

\* Registrations keep their clients, clients their ids, and only a client
\* without an id opens.
LEMMA OwnersKept ==
  ASSUME OwnedInv, UNCHANGED clientPatcherIds,
         \A q \in Patcher : registrations[q] # None =>
           registrations'[q] # None /\ registrations'[q].client = registrations[q].client,
         \A d \in Client :
           /\ connection'[d] = "none" => connection[d] = "none"
           /\ connection'[d] = "open" => connection[d] = "open" \/ connection[d] = "none"
  PROVE  OpenClientsOwn'
<1> SUFFICES ASSUME NEW d \in Client
             PROVE  /\ connection'[d] = "none" => clientPatcherIds[d] = None
                    /\ connection'[d] = "open" /\ clientPatcherIds[d] # None =>
                         /\ registrations'[clientPatcherIds[d]] # None
                         /\ registrations'[clientPatcherIds[d]].client = d
  BY DEF OpenClientsOwn
<1>1. clientPatcherIds[d] \in Patcher \cup {None}
  BY DEF OwnedInv, BridgeInv, ClientsInv
<1> QED
  BY <1>1 DEF OwnedInv, OpenClientsOwn

\* Every step keeps it: a registration passes to another client only when its
\* owner is not open, and the ids of closing clients promise nothing.
LEMMA OwnersStay ==
  ASSUME RegistersAgain = FALSE
  PROVE  OwnedInv /\ [Next]_vars => OwnedInv'
<1> SUFFICES ASSUME OwnedInv, [Next]_vars
             PROVE  OpenClientsOwn'
  BY BridgeStep DEF OwnedInv
<1>0. /\ registrations \in [Patcher -> Registration \cup {None}]
      /\ requests \in [RequestId -> Request \cup {None}]
      /\ connection \in [Client -> Connection]
      /\ clientPatcherIds \in [Client -> Patcher \cup {None}]
      /\ ClientsInv /\ RegistrationsAreOwned /\ OpenClientsOwn
  BY DEF OwnedInv, BridgeInv, CallsInv, ClientsInv
<1>1. ASSUME UNCHANGED <<registry, connection>>
      PROVE  OpenClientsOwn'
  BY <1>1, OwnersKept DEF registry
<1>2. ASSUME NEW c \in Client, NEW state \in {"open", "refused", "ending"},
             state = "open" => connection[c] = "none",
             connection' = [connection EXCEPT ![c] = state], UNCHANGED registry
      PROVE  OpenClientsOwn'
  <2>1. \A d \in Client :
          /\ connection'[d] = "none" => connection[d] = "none"
          /\ connection'[d] = "open" => connection[d] = "open" \/ connection[d] = "none"
    BY <1>0, <1>2
  <2> QED
    BY <1>2, <2>1, OwnersKept DEF registry
<1>3. ASSUME NEW c, NEW p \in Patcher, NEW scope, NEW revision \in Revision,
             registrations' = Updated(c, p, scope, revision),
             UNCHANGED <<clients, clientPatcherIds>>
      PROVE  OpenClientsOwn'
  <2>1. \A q \in Patcher : registrations[q] # None =>
          registrations'[q] # None /\ registrations'[q].client = registrations[q].client
    BY <1>0, <1>3, UpdatedIsOwn
  <2> QED
    BY <1>3, <2>1, OwnersKept DEF clients
<1>4. CASE Asks
  BY <1>1, <1>4 DEF Asks, AskPatch, AskController, clients
<1>5. ASSUME NEW id \in RequestId, GivenUp(id)
      PROVE  OpenClientsOwn'
  BY <1>1, <1>5 DEF GivenUp, clients
<1>6. ASSUME NEW c \in Client, Connects(c) \/ Authenticates(c) \/ Ends(c)
      PROVE  OpenClientsOwn'
  <2>1. CASE Connects(c)
    BY <1>2, <2>1 DEF Connects
  <2>2. CASE Authenticates(c)
    BY <1>1, <1>2, <2>2 DEF Authenticates
  <2>3. CASE Ends(c)
    BY <1>2, <2>3 DEF Ends
  <2> QED
    BY <1>6, <2>1, <2>2, <2>3
<1>7. ASSUME NEW c \in Client, Disconnects(c)
      PROVE  OpenClientsOwn'
  <2> SUFFICES ASSUME NEW d \in Client
               PROVE  /\ connection'[d] = "none" => clientPatcherIds'[d] = None
                      /\ connection'[d] = "open" /\ clientPatcherIds'[d] # None =>
                           /\ registrations'[clientPatcherIds'[d]] # None
                           /\ registrations'[clientPatcherIds'[d]].client = d
    BY DEF OpenClientsOwn
  <2>1. CASE d = c
    BY <1>0, <1>7, <2>1 DEF Disconnects
  <2>2. CASE d # c
    <3>1. connection'[d] = connection[d] /\ clientPatcherIds'[d] = clientPatcherIds[d]
      BY <1>0, <1>7, <2>2 DEF Disconnects
    <3>2. \A q \in Patcher : registrations[q] # None /\ registrations[q].client = d
                               => registrations'[q] = registrations[q]
      BY <1>7, <2>2 DEF Disconnects
    <3> QED
      BY <1>0, <3>1, <3>2 DEF OpenClientsOwn
  <2> QED
    BY <2>1, <2>2
<1>8. ASSUME NEW c \in Client, ConnectionErrs(c)
      PROVE  OpenClientsOwn'
  BY <1>1, <1>8 DEF ConnectionErrs, clients
<1>9. CASE ServerErrs
  BY <1>1, <1>9 DEF ServerErrs, clients
<1>10. CASE Closes
  BY <1>10 DEF Closes, OpenClientsOwn
<1>11. ASSUME NEW c \in Client, NEW a \in Announcement, RegistersDuplicate(c, a)
       PROVE  OpenClientsOwn'
  BY <1>2, <1>11 DEF RegistersDuplicate
<1>12. ASSUME NEW c \in Client, NEW a \in Announcement, NEW revision \in Revision,
              Registers(c, a, revision)
       PROVE  OpenClientsOwn'
  <2> SUFFICES ASSUME NEW d \in Client
               PROVE  /\ connection'[d] = "none" => clientPatcherIds'[d] = None
                      /\ connection'[d] = "open" /\ clientPatcherIds'[d] # None =>
                           /\ registrations'[clientPatcherIds'[d]] # None
                           /\ registrations'[clientPatcherIds'[d]].client = d
    BY DEF OpenClientsOwn
  <2>1. a.patcher \in Patcher /\ a.scope \in Scope
        /\ a.controller \in BOOLEAN /\ a.compatible \in BOOLEAN
    BY BridgeAssumption
  <2>2. /\ connection[c] = "open" /\ UNCHANGED connection
        /\ OpenOwner(a.patcher) => registrations[a.patcher].client = c
        /\ registrations' = Registered(c, a, revision)
        /\ clientPatcherIds' = [clientPatcherIds EXCEPT ![c] = a.patcher]
    BY <1>12 DEF Registers, clients
  <2>3. CASE d = c
    <3>1. registrations'[a.patcher] \in Registration /\ registrations'[a.patcher].client = c
      BY <2>1, <2>2 DEF Registered, Registration
    <3> QED
      BY <1>0, <2>2, <2>3, <3>1, BridgeAssumption
  <2>4. CASE d # c
    <3>1. clientPatcherIds'[d] = clientPatcherIds[d]
      BY <1>0, <2>2, <2>4
    <3>2. ASSUME connection[d] = "open", clientPatcherIds[d] # None
          PROVE  registrations'[clientPatcherIds[d]] = registrations[clientPatcherIds[d]]
      <4>1. /\ clientPatcherIds[d] \in Patcher
            /\ registrations[clientPatcherIds[d]] # None
            /\ registrations[clientPatcherIds[d]].client = d
        BY <1>0, <3>2 DEF OpenClientsOwn
      <4>2. clientPatcherIds[d] # a.patcher
        BY <2>2, <2>4, <3>2, <4>1 DEF OpenOwner
      <4>3. clientPatcherIds[d] # clientPatcherIds[c]
        <5>1. connection[c] = "open"
          BY <2>2
        <5>2. clientPatcherIds[c] # None => registrations[clientPatcherIds[c]].client = c
          BY <1>0, <5>1 DEF OpenClientsOwn
        <5> QED
          BY <2>4, <3>2, <4>1, <5>2
      <4> QED
        BY <2>2, <4>1, <4>2, <4>3 DEF Registered
    <3> QED
      BY <1>0, <2>2, <3>1, <3>2 DEF OpenClientsOwn
  <2> QED
    BY <2>3, <2>4
<1>13. ASSUME NEW c \in Client, NEW p \in Patcher, NEW scope \in Scope,
              NEW revision \in Revision, ReportsRevision(c, p, scope, revision)
       PROVE  OpenClientsOwn'
  BY <1>3, <1>13 DEF ReportsRevision
<1>14. ASSUME NEW c \in Client, NEW id \in RequestId, NEW revision \in Revision,
              Applied(c, id, revision) \/ SnapshotSent(c, id, revision)
       PROVE  OpenClientsOwn'
  <2>1. requests[id].patcher \in Patcher
    BY <1>0, <1>14 DEF Applied, SnapshotSent, Answers, PendingOf, Pending, Request
  <2> QED
    BY <1>3, <1>14, <2>1 DEF Applied, SnapshotSent
<1>15. ASSUME NEW c \in Client, NEW id \in RequestId,
              \/ PatchSaved(c, id) \/ AnswersWrongly(c, id) \/ SaysNo(c, id)
              \/ \E kind \in New : NewPatchReady(c, id, kind)
       PROVE  OpenClientsOwn'
  BY <1>1, <1>15 DEF PatchSaved, AnswersWrongly, SaysNo, NewPatchReady, clients
<1>16. ASSUME NEW c \in Client, NEW id \in RequestId, PatchClosing(c, id)
       PROVE  OpenClientsOwn'
  <2> DEFINE p == requests[id].patcher
  <2>1. p \in Patcher /\ UNCHANGED connection /\ connection[c] # "none"
    BY <1>0, <1>16
    DEF PatchClosing, Answers, PendingOf, Pending, Request, clients, Speaks, Delivers
  <2>2. CASE ~(registrations[p] # None /\ registrations[p].client = c)
    BY <1>1, <1>16, <2>1, <2>2 DEF PatchClosing, registry
  <2>3. CASE registrations[p] # None /\ registrations[p].client = c
    <3>1. /\ registrations' = [registrations EXCEPT ![p] = None]
          /\ clientPatcherIds' = [clientPatcherIds EXCEPT ![c] = None]
      BY <1>16, <2>3 DEF PatchClosing
    <3>2. ASSUME NEW d \in Client
          PROVE  /\ connection'[d] = "none" => clientPatcherIds'[d] = None
                 /\ connection'[d] = "open" /\ clientPatcherIds'[d] # None =>
                      /\ registrations'[clientPatcherIds'[d]] # None
                      /\ registrations'[clientPatcherIds'[d]].client = d
      <4>1. CASE d = c
        BY <1>0, <3>1, <4>1
      <4>2. CASE d # c
        BY <1>0, <2>1, <2>3, <3>1, <4>2 DEF OpenClientsOwn
      <4> QED
        BY <4>1, <4>2
    <3> QED
      BY <3>2 DEF OpenClientsOwn
  <2> QED
    BY <2>2, <2>3
<1>17. CASE UNCHANGED vars
  BY <1>1, <1>17 DEF vars, clients
<1> QED
  BY <1>4, <1>5, <1>6, <1>7, <1>8, <1>9, <1>10, <1>11, <1>12, <1>13, <1>14, <1>15, <1>16, <1>17
  DEF Next, ConnectionChanges, Says

\* What an event of a client leaves alone: the registrations of other open
\* clients, and the requests that others were asked for, but a new patch that is
\* now registered by it.
Respects(c) ==
  /\ \A p \in Patcher :
       OpenOwner(p) /\ registrations[p].client # c
         => registrations'[p] = registrations[p]
  /\ \A id \in RequestId :
       Pending(id) /\ requests[id].client # c /\ outcome'[id] = "resolved"
         => requests[id].kind \in New /\ requests[id].created
            /\ clientPatcherIds'[c] = requests[id].patcher

\* A client without a registration for it cannot settle a request of another.
LEMMA OthersKeepWaiting ==
  ASSUME BridgeInv, NEW c \in Client, NEW ids, NEW result,
         result = "resolved" => ids \in SUBSET PendingOf(c), Settle(ids, result)
  PROVE  \A id \in RequestId :
           Pending(id) /\ requests[id].client # c => outcome'[id] # "resolved"
<1> SUFFICES ASSUME NEW id \in RequestId, Pending(id), requests[id].client # c
             PROVE  outcome'[id] # "resolved"
  OBVIOUS
<1>1. outcome[id] = "pending"
  BY DEF BridgeInv, CallsInv, OutcomeIsPending
<1>2. id \notin PendingOf(c)
  BY DEF PendingOf
<1> QED
  BY <1>1, <1>2 DEF Settle

\* Every event of every client.
LEMMA EventsRespectOthers ==
  ASSUME RegistersAgain = FALSE
  PROVE  OwnedInv => \A c \in Client : Says(c) => Respects(c)
<1> SUFFICES ASSUME OwnedInv, NEW c \in Client, Says(c)
             PROVE  Respects(c)
  OBVIOUS
<1>0. /\ registrations \in [Patcher -> Registration \cup {None}]
      /\ requests \in [RequestId -> Request \cup {None}]
      /\ clientPatcherIds \in [Client -> Patcher \cup {None}]
      /\ outcome \in [RequestId -> Outcome]
      /\ \A id \in RequestId : Pending(id) => outcome[id] # "resolved"
      /\ BridgeInv /\ ClientsInv /\ RegistrationsAreOwned /\ OpenClientsOwn
  BY DEF OwnedInv, BridgeInv, CallsInv, ClientsInv, OutcomeIsPending
<1>1. ASSUME UNCHANGED <<registrations, outcome>>
      PROVE  Respects(c)
  BY <1>0, <1>1 DEF Respects
<1>2. ASSUME NEW id \in RequestId, NEW result,
             result = "resolved" => id \in PendingOf(c), Settle({id}, result),
             UNCHANGED registrations
      PROVE  Respects(c)
  BY <1>0, <1>2, OthersKeepWaiting DEF Respects
<1>3. ASSUME NEW p \in Patcher, NEW scope, NEW revision \in Revision,
             registrations' = Updated(c, p, scope, revision)
      PROVE  \A q \in Patcher : OpenOwner(q) /\ registrations[q].client # c
                                  => registrations'[q] = registrations[q]
  BY <1>0, <1>3, UpdatedIsOwn DEF OpenOwner
<1>4. ASSUME NEW a \in Announcement, RegistersDuplicate(c, a)
      PROVE  Respects(c)
  BY <1>1, <1>4 DEF RegistersDuplicate, registry, calls
<1>5. ASSUME NEW a \in Announcement, NEW revision \in Revision, Registers(c, a, revision)
      PROVE  Respects(c)
  <2>1. /\ connection[c] = "open"
        /\ OpenOwner(a.patcher) => registrations[a.patcher].client = c
        /\ registrations' = Registered(c, a, revision)
        /\ clientPatcherIds' = [clientPatcherIds EXCEPT ![c] = a.patcher]
        /\ outcome' = [id \in RequestId |->
                         IF id \in {i \in Expected(a) : requests[i].created} THEN "resolved"
                         ELSE outcome[id]]
    BY <1>5 DEF Registers
  <2>2. ASSUME NEW p \in Patcher, OpenOwner(p), registrations[p].client # c
        PROVE  registrations'[p] = registrations[p]
    <3>1. p # a.patcher
      BY <2>1, <2>2
    <3>2. p # clientPatcherIds[c]
      <4>1. p # None
        BY BridgeAssumption
      <4>2. connection[c] = "open" /\ OpenClientsOwn
        BY <1>0, <2>1
      <4>3. clientPatcherIds[c] # None => registrations[clientPatcherIds[c]].client = c
        BY <4>2 DEF OpenClientsOwn
      <4> QED
        BY <2>2, <4>1, <4>3
    <3> QED
      BY <2>1, <3>1, <3>2 DEF Registered
  <2>3. ASSUME NEW id \in RequestId, Pending(id), outcome'[id] = "resolved"
        PROVE  /\ requests[id].kind \in New /\ requests[id].created
               /\ clientPatcherIds'[c] = requests[id].patcher
    <3>1. id \in Expected(a) /\ requests[id].created
      BY <1>0, <2>1, <2>3
    <3> QED
      BY <1>0, <2>1, <3>1 DEF Expected
  <2> QED
    BY <2>2, <2>3 DEF Respects
<1>6. ASSUME NEW p \in Patcher, NEW scope \in Scope, NEW revision \in Revision,
             ReportsRevision(c, p, scope, revision)
      PROVE  Respects(c)
  BY <1>0, <1>3, <1>6 DEF ReportsRevision, calls, Respects
<1>7. ASSUME NEW id \in RequestId, NEW revision \in Revision,
             Applied(c, id, revision) \/ SnapshotSent(c, id, revision)
      PROVE  Respects(c)
  <2>1. /\ requests[id].patcher \in Patcher
        /\ id \in PendingOf(c) /\ Settle({id}, "resolved")
        /\ registrations' = Updated(c, requests[id].patcher, requests[id].scope, revision)
    BY <1>0, <1>7 DEF Applied, SnapshotSent, Answers, PendingOf, Pending, Request
  <2>2. \A q \in Patcher : OpenOwner(q) /\ registrations[q].client # c
                             => registrations'[q] = registrations[q]
    BY <1>3, <2>1
  <2>3. \A other \in RequestId :
          Pending(other) /\ requests[other].client # c => outcome'[other] # "resolved"
    BY <1>0, <2>1, OthersKeepWaiting
  <2> QED
    BY <2>2, <2>3 DEF Respects
<1>8. ASSUME NEW id \in RequestId, PatchSaved(c, id) \/ AnswersWrongly(c, id) \/ SaysNo(c, id)
      PROVE  Respects(c)
  BY <1>2, <1>8 DEF PatchSaved, AnswersWrongly, SaysNo, Answers, registry
<1>9. ASSUME NEW id \in RequestId, PatchClosing(c, id)
      PROVE  Respects(c)
  <2>1. id \in PendingOf(c) /\ Settle({id}, "resolved")
    BY <1>9 DEF PatchClosing, Answers
  <2>2. \A q \in Patcher : OpenOwner(q) /\ registrations[q].client # c
                             => registrations'[q] = registrations[q]
    BY <1>0, <1>9 DEF PatchClosing
  <2>3. \A other \in RequestId :
          Pending(other) /\ requests[other].client # c => outcome'[other] # "resolved"
    BY <1>0, <2>1, OthersKeepWaiting
  <2> QED
    BY <2>2, <2>3 DEF Respects
<1>10. ASSUME NEW id \in RequestId, NEW kind \in New, NewPatchReady(c, id, kind)
       PROVE  Respects(c)
  <2>1. UNCHANGED registrations /\ id \in PendingOf(c)
    BY <1>10 DEF NewPatchReady, Answers, registry
  <2>2. CASE Settle({id}, "resolved")
    BY <1>2, <2>1, <2>2
  <2>3. CASE UNCHANGED outcome
    BY <1>1, <2>1, <2>3
  <2> QED
    BY <1>10, <2>2, <2>3 DEF NewPatchReady
<1> QED
  BY <1>4, <1>5, <1>6, <1>7, <1>8, <1>9, <1>10 DEF Says

-----------------------------------------------------------------------------
(* The theorems. *)

\* BridgeInv is an invariant.
LEMMA BridgeInvariant == Spec => []BridgeInv
BY BridgeStart, BridgeStep, PTL DEF Spec

\* Every table and map of the bridge keeps the shape its declarations give it.
THEOREM BridgeTypeCorrect == Spec => []TypeOK
<1>1. BridgeInv => TypeOK
  BY DEF BridgeInv, CallsInv, ClientsInv, TypeOK
<1> QED
  BY <1>1, BridgeInvariant, PTL

\* pendingOperations and the six tables never disagree, whatever the clients
\* send and however connections end.
THEOREM SlotsAreRequests == Spec => []SlotIsTheRequest
<1>1. BridgeInv => SlotIsTheRequest
  BY DEF BridgeInv, CallsInv
<1> QED
  BY <1>1, BridgeInvariant, PTL

\* A request is never awaited from a client whose connection has ended.
THEOREM ConnectionsAreLive == Spec => []AwaitedClientIsConnected
<1>1. BridgeInv => AwaitedClientIsConnected
  BY DEF BridgeInv, ClientsInv
<1> QED
  BY <1>1, BridgeInvariant, PTL

\* Every registration is of a connected client, under the id that the client
\* registered with last.
THEOREM RegistrationsHold == Spec => []RegistrationsAreOwned
<1>1. BridgeInv => RegistrationsAreOwned
  BY DEF BridgeInv, ClientsInv
<1> QED
  BY <1>1, BridgeInvariant, PTL

\* Nothing outlives its connection: whatever clients send, and however many
\* there are, with and without clients that register again.
THEOREM NothingOutlives == Spec => []NothingOutlivesItsConnection
BY ConnectionsAreLive, RegistrationsHold, PTL DEF NothingOutlivesItsConnection

\* The bridge implements RequestSlots.
THEOREM BridgeKeepsSlots == Spec => SlotsKept
<1>1. SlotStep => [Slots!Next]_(Slots!vars)
  BY DEF SlotStep, Slots!vars
<1> QED
  BY <1>1, BridgeStart, BridgeStep, BridgeInvariant, PTL DEF Spec, SlotsKept, Slots!Spec

\* Whatever the authenticated clients send, none of them changes or ends the
\* registration of another that is open, and none makes a request succeed that
\* another was asked: only the registration of a new patch completes the
\* request for it.  It takes that a refused client does not register again.
THEOREM ClientsSpeakForThemselves ==
  ASSUME RegistersAgain = FALSE
  PROVE  Spec => NobodySpeaksForAnother
<1>1. Init => OwnedInv
  BY BridgeStart DEF OwnedInv, OpenClientsOwn, Init
<1>2. OwnedInv /\ [Next]_vars => OwnedInv'
  BY OwnersStay
<1>3. OwnedInv /\ [Next]_vars =>
        [\A c \in Client : Says(c) =>
           /\ \A p \in Patcher :
                OpenOwner(p) /\ registrations[p].client # c
                  => registrations'[p] = registrations[p]
           /\ \A id \in RequestId :
                Pending(id) /\ requests[id].client # c /\ outcome'[id] = "resolved"
                  => requests[id].kind \in New /\ requests[id].created
                     /\ clientPatcherIds'[c] = requests[id].patcher]_vars
  BY EventsRespectOthers DEF Respects
<1> QED
  BY <1>1, <1>2, <1>3, PTL DEF Spec, NobodySpeaksForAnother

=============================================================================

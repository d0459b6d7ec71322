---------------------------- MODULE PatchBridge ----------------------------
(***************************************************************************)
(* MaxforgeBridge: the WebSocket clients, the patches they registered, and *)
(* the table of pending requests.  PatchSync takes one patch of it, with   *)
(* one well-behaved client; here are all patches, and every authenticated  *)
(* client may send any event at any time.  A request is sent to the client *)
(* that has the patch registered, or to the controller that creates and    *)
(* opens patches.                                                          *)
(*                                                                         *)
(* The observed edits a client sends are kept by another component, and    *)
(* change none of this.                                                    *)
(***************************************************************************)
EXTENDS FiniteSets

CONSTANTS
  Client,         \* WebSocket connections that may be open at one time
  Patcher, Scope, Revision,
  RequestId,      \* random UUIDs: never used twice
  None,           \* undefined
  Announcement,   \* how the maxforge.sync objects are configured
  TokenRequired,  \* the bridge has a token
  RegistersAgain  \* a client registers even after the bridge refused it

VARIABLES
  started,            \* the server listens
  connection,         \* readyState, and who closed: see Connection
  authenticated,      \* authenticatedClients
  registrations,      \* per patcher
  clientPatcherIds,   \* the patcher each client registered last
  requests,           \* the six tables of pending requests
  pendingOperations,  \* the request that works on each patch
  outcome             \* history: what became of the promise of each request

clients == <<started, connection, authenticated>>
registry == <<registrations, clientPatcherIds>>
calls == <<requests, pendingOperations, outcome>>
vars == <<clients, registry, calls>>

\* refused: the bridge closed it, and messages may still arrive.  ending: the
\* client closed it.  Both are CLOSING until the close event.
Connection == {"none", "open", "refused", "ending"}

Registration == [client : Client, scope : Scope, controller : BOOLEAN,
                 compatible : BOOLEAN, revision : Revision]

Exclusive == {"apply", "inspect", "save", "close"}
New == {"create", "open"}

\* created and registered are the two things a new patch is waited for.
Request == [kind : Exclusive \cup New, client : Client, patcher : Patcher,
            scope : Scope, target : Revision,
            created : BOOLEAN, registered : BOOLEAN]

ASSUME BridgeAssumption ==
  /\ Announcement \subseteq [patcher : Patcher, scope : Scope,
                             controller : BOOLEAN, compatible : BOOLEAN]
  /\ TokenRequired \in BOOLEAN
  /\ RegistersAgain \in BOOLEAN
  /\ None \notin RequestId \cup Patcher \cup Registration \cup Request

Outcome == {"unused", "pending", "resolved", "rejected"}

TypeOK ==
  /\ started \in BOOLEAN
  /\ connection \in [Client -> Connection]
  /\ authenticated \subseteq Client
  /\ registrations \in [Patcher -> Registration \cup {None}]
  /\ clientPatcherIds \in [Client -> Patcher \cup {None}]
  /\ requests \in [RequestId -> Request \cup {None}]
  /\ pendingOperations \in [Patcher -> RequestId \cup {None}]
  /\ outcome \in [RequestId -> Outcome]

Init ==
  /\ started = TRUE
  /\ connection = [c \in Client |-> "none"]
  /\ authenticated = {}
  /\ registrations = [p \in Patcher |-> None]
  /\ clientPatcherIds = [c \in Client |-> None]
  /\ requests = [id \in RequestId |-> None]
  /\ pendingOperations = [p \in Patcher |-> None]
  /\ outcome = [id \in RequestId |-> "unused"]

-----------------------------------------------------------------------------
(* Helpers. *)

Pending(id) == requests[id] # None

\* The client has the patch registered and is OPEN.
OpenOwner(p) ==
  registrations[p] # None /\ connection[registrations[p].client] = "open"

\* Variant: the slot stays.
SettleBug(ids, result) ==
  /\ requests' = [id \in RequestId |-> IF id \in ids THEN None ELSE requests[id]]
  /\ pendingOperations' = pendingOperations
  /\ outcome' = [id \in RequestId |-> IF id \in ids THEN result ELSE outcome[id]]

\* Pending requests leave their table, free the slot of their patch, and
\* resolve or reject their promise.
Settle(ids, result) ==
  /\ requests' = [id \in RequestId |-> IF id \in ids THEN None ELSE requests[id]]
  /\ pendingOperations' =
       [p \in Patcher |->
          IF \E id \in ids : requests[id].kind \in Exclusive /\ requests[id].patcher = p
          THEN None ELSE pendingOperations[p]]
  /\ outcome' = [id \in RequestId |-> IF id \in ids THEN result ELSE outcome[id]]

Issue(id, request) ==
  /\ outcome[id] = "unused"
  /\ requests' = [requests EXCEPT ![id] = request]
  /\ outcome' = [outcome EXCEPT ![id] = "pending"]

PendingOf(c) == {id \in RequestId : Pending(id) /\ requests[id].client = c}

-----------------------------------------------------------------------------
(* Calls of the service and the tools. *)

\* Variant: the slot is not looked at.
PatchIsIdleBug(p) == p \in Patcher

\* assertPatchIsIdle
PatchIsIdle(p) == pendingOperations[p] = None

\* apply, inspect, savePatch and closePatch.  Only an inspection is possible
\* with another version of the object in Max.
AskPatch(kind, p, id, target) ==
  /\ kind \in Exclusive
  /\ OpenOwner(p)
  /\ kind # "inspect" => registrations[p].compatible
  /\ PatchIsIdle(p)
  /\ Issue(id, [kind |-> kind, client |-> registrations[p].client, patcher |-> p,
                scope |-> registrations[p].scope, target |-> target,
                created |-> FALSE, registered |-> FALSE])
  /\ pendingOperations' = [pendingOperations EXCEPT ![p] = id]
  /\ UNCHANGED <<clients, registry>>

Controllers == {p \in Patcher : OpenOwner(p) /\ registrations[p].controller}

\* createPatch and openPatch ask the only controller for a patch that is
\* neither registered nor expected.
AskController(kind, p, scope, id, target) ==
  /\ started
  /\ kind \in New
  /\ registrations[p] = None
  /\ \A other \in RequestId :
       Pending(other) => requests[other].kind \notin New \/ requests[other].patcher # p
  /\ \E k \in Patcher :
       /\ Controllers = {k}
       /\ registrations[k].compatible
       /\ Issue(id, [kind |-> kind, client |-> registrations[k].client,
                     patcher |-> p, scope |-> scope, target |-> target,
                     created |-> FALSE, registered |-> FALSE])
  /\ UNCHANGED <<clients, registry, pendingOperations>>

\* The timer of a request, or the callback of its send with an error.
GivenUp(id) ==
  /\ Pending(id)
  /\ Settle({id}, "rejected")
  /\ UNCHANGED <<clients, registry>>

-----------------------------------------------------------------------------
(* Connections. *)

Connects(c) ==
  /\ started
  /\ connection[c] = "none"
  /\ connection' = [connection EXCEPT ![c] = "open"]
  /\ authenticated' = IF TokenRequired THEN authenticated ELSE authenticated \cup {c}
  /\ UNCHANGED <<started, registry, calls>>

Delivers(c) == connection[c] \in {"open", "refused"}

\* The first message is the token or ends the connection.
Authenticates(c) ==
  /\ Delivers(c)
  /\ c \notin authenticated
  /\ \/ authenticated' = authenticated \cup {c} /\ UNCHANGED connection
     \/ connection' = [connection EXCEPT ![c] = "refused"] /\ UNCHANGED authenticated
  /\ UNCHANGED <<started, registry, calls>>

Ends(c) ==
  /\ Delivers(c)
  /\ connection' = [connection EXCEPT ![c] = "ending"]
  /\ UNCHANGED <<started, authenticated, registry, calls>>

\* Variant: requests for new patches wait for their timer.
ForgetBug(c) == {id \in PendingOf(c) : requests[id].kind \in Exclusive}

\* rejectPendingForClient
Forget(c) == PendingOf(c)

\* removeClient, on the close event.
Disconnects(c) ==
  LET p == clientPatcherIds[c]
  IN  /\ connection[c] # "none"
      /\ connection' = [connection EXCEPT ![c] = "none"]
      /\ authenticated' = authenticated \ {c}
      /\ clientPatcherIds' = [clientPatcherIds EXCEPT ![c] = None]
      /\ registrations' =
           [q \in Patcher |->
              IF q = p /\ registrations[q] # None /\ registrations[q].client = c
              THEN None ELSE registrations[q]]
      /\ Settle(Forget(c), "rejected")
      /\ UNCHANGED started

\* An error event leaves the registration in place until the close event.
ConnectionErrs(c) ==
  /\ connection[c] # "none"
  /\ Settle(Forget(c), "rejected")
  /\ UNCHANGED <<clients, registry>>

\* An error of the listening server: rejectAllPending.
ServerErrs ==
  /\ started
  /\ Settle({id \in RequestId : Pending(id)}, "rejected")
  /\ UNCHANGED <<clients, registry>>

Closes ==
  /\ started
  /\ started' = FALSE
  /\ connection' = [c \in Client |-> "none"]
  /\ authenticated' = {}
  /\ registrations' = [p \in Patcher |-> None]
  /\ clientPatcherIds' = [c \in Client |-> None]
  /\ Settle({id \in RequestId : Pending(id)}, "rejected")

-----------------------------------------------------------------------------
(* Events of authenticated clients. *)

Speaks(c) == Delivers(c) /\ c \in authenticated

\* handleRegistration refuses a patcher id that another open client has.
RegistersDuplicate(c, a) ==
  /\ Speaks(c)
  /\ OpenOwner(a.patcher)
  /\ registrations[a.patcher].client # c
  /\ connection' = [connection EXCEPT ![c] = "refused"]
  /\ UNCHANGED <<started, authenticated, registry, calls>>

\* Variant: the id the client had before stays registered.
RegisteredBug(c, a, revision) ==
  [registrations EXCEPT
     ![a.patcher] = [client |-> c, scope |-> a.scope, controller |-> a.controller,
                     compatible |-> a.compatible, revision |-> revision]]

\* A client that registers under another id gives up the first.
Registered(c, a, revision) ==
  [p \in Patcher |->
     CASE p = a.patcher -> [client |-> c, scope |-> a.scope,
                            controller |-> a.controller,
                            compatible |-> a.compatible, revision |-> revision]
       [] p = clientPatcherIds[c] /\ p # a.patcher -> None
       [] OTHER -> registrations[p]]

Expected(a) ==
  {id \in RequestId : Pending(id) /\ requests[id].kind \in New
                      /\ requests[id].patcher = a.patcher
                      /\ requests[id].scope = a.scope}

\* A registration also answers the requests for that new patch.
Registers(c, a, revision) ==
  LET ready == {id \in Expected(a) : requests[id].created}
  IN  /\ Speaks(c)
      /\ connection[c] = "open" \/ RegistersAgain
      /\ OpenOwner(a.patcher) => registrations[a.patcher].client = c
      /\ registrations' = Registered(c, a, revision)
      /\ clientPatcherIds' = [clientPatcherIds EXCEPT ![c] = a.patcher]
      /\ requests' =
           [id \in RequestId |->
              CASE id \in ready -> None
                [] id \in Expected(a) \ ready -> [requests[id] EXCEPT !.registered = TRUE]
                [] OTHER -> requests[id]]
      /\ outcome' = [id \in RequestId |->
                       IF id \in ready THEN "resolved" ELSE outcome[id]]
      /\ UNCHANGED <<clients, pendingOperations>>

\* Variants: any client's revision is taken; it is kept without a registration.
UpdatedBug(c, p, scope, revision) ==
  IF registrations[p] = None THEN registrations
  ELSE [registrations EXCEPT ![p].revision = revision]

\* updateRevision
Updated(c, p, scope, revision) ==
  IF registrations[p] = None \/ registrations[p].client # c
     \/ registrations[p].scope # scope
  THEN registrations
  ELSE [registrations EXCEPT ![p].revision = revision]

ReportsRevision(c, p, scope, revision) ==
  /\ Speaks(c)
  /\ registrations' = Updated(c, p, scope, revision)
  /\ UNCHANGED <<clients, clientPatcherIds, calls>>

\* The event of the right type for the request, with its patch and scope and
\* from the client that was asked: validatePendingResponse finds no mismatch.
Answers(c, id, kind) ==
  /\ Speaks(c)
  /\ id \in PendingOf(c)
  /\ requests[id].kind = kind

\* An event of the right type that names another patch or scope, comes from
\* another client, or says that the file is still dirty: the request fails.
AnswersWrongly(c, id) ==
  /\ Speaks(c)
  /\ Pending(id)
  /\ Settle({id}, "rejected")
  /\ UNCHANGED <<clients, registry>>

\* handleApplied accepts the target revision only.
Applied(c, id, revision) ==
  /\ Answers(c, id, "apply")
  /\ requests[id].target = revision
  /\ Settle({id}, "resolved")
  /\ registrations' = Updated(c, requests[id].patcher, requests[id].scope, revision)
  /\ UNCHANGED <<clients, clientPatcherIds>>

SnapshotSent(c, id, revision) ==
  /\ Answers(c, id, "inspect")
  /\ Settle({id}, "resolved")
  /\ registrations' = Updated(c, requests[id].patcher, requests[id].scope, revision)
  /\ UNCHANGED <<clients, clientPatcherIds>>

PatchSaved(c, id) ==
  /\ Answers(c, id, "save")
  /\ Settle({id}, "resolved")
  /\ UNCHANGED <<clients, registry>>

\* handlePatchClosing also ends the registration, if it is still the client's.
PatchClosing(c, id) ==
  LET p == requests[id].patcher
      owns == registrations[p] # None /\ registrations[p].client = c
  IN  /\ Answers(c, id, "close")
      /\ Settle({id}, "resolved")
      /\ registrations' = IF owns THEN [registrations EXCEPT ![p] = None]
                          ELSE registrations
      /\ clientPatcherIds' = IF owns THEN [clientPatcherIds EXCEPT ![c] = None]
                             ELSE clientPatcherIds
      /\ UNCHANGED clients

\* handlePatchCreated and handlePatchOpened.
NewPatchReady(c, id, kind) ==
  /\ kind \in New
  /\ Answers(c, id, kind)
  /\ IF requests[id].registered
     THEN Settle({id}, "resolved")
     ELSE /\ requests' = [requests EXCEPT ![id].created = TRUE]
          /\ UNCHANGED <<pendingOperations, outcome>>
  /\ UNCHANGED <<clients, registry>>

\* handleError: only the client that was asked can say no.
SaysNo(c, id) ==
  /\ Speaks(c)
  /\ id \in PendingOf(c)
  /\ Settle({id}, "rejected")
  /\ UNCHANGED <<clients, registry>>

-----------------------------------------------------------------------------
Asks ==
  \E id \in RequestId, p \in Patcher, target \in Revision :
    \/ \E kind \in Exclusive : AskPatch(kind, p, id, target)
    \/ \E kind \in New, scope \in Scope : AskController(kind, p, scope, id, target)

ConnectionChanges(c) ==
  Connects(c) \/ Authenticates(c) \/ Ends(c) \/ Disconnects(c) \/ ConnectionErrs(c)

Says(c) ==
  \/ \E a \in Announcement : RegistersDuplicate(c, a)
  \/ \E a \in Announcement, revision \in Revision : Registers(c, a, revision)
  \/ \E p \in Patcher, scope \in Scope, revision \in Revision :
       ReportsRevision(c, p, scope, revision)
  \/ \E id \in RequestId :
       \/ \E revision \in Revision : Applied(c, id, revision) \/ SnapshotSent(c, id, revision)
       \/ PatchSaved(c, id) \/ PatchClosing(c, id)
       \/ \E kind \in New : NewPatchReady(c, id, kind)
       \/ AnswersWrongly(c, id) \/ SaysNo(c, id)

Next ==
  \/ Asks
  \/ \E id \in RequestId : GivenUp(id)
  \/ \E c \in Client : ConnectionChanges(c) \/ Says(c)
  \/ ServerErrs \/ Closes

Spec == Init /\ [][Next]_vars

-----------------------------------------------------------------------------
(* What makes it correct. *)

\* The slot of a patch is taken exactly while one request works on the patch:
\* no handler leaves a slot behind, or frees it under another request.
SlotIsTheRequest ==
  /\ \A p \in Patcher :
       pendingOperations[p] # None =>
         LET id == pendingOperations[p]
         IN  Pending(id) /\ requests[id].kind \in Exclusive /\ requests[id].patcher = p
  /\ \A id \in RequestId :
       Pending(id) /\ requests[id].kind \in Exclusive =>
         pendingOperations[requests[id].patcher] = id

\* A pending request waits for a client that is still there to answer: a
\* disconnect never leaves one to its timer.
AwaitedClientIsConnected ==
  \A id \in RequestId : Pending(id) => connection[requests[id].client] # "none"

\* A client has one registration at most, it is the one of the id it used
\* last, and it ends with the connection.
RegistrationsAreOwned ==
  \A p \in Patcher : registrations[p] # None =>
    LET c == registrations[p].client
    IN  connection[c] # "none" /\ clientPatcherIds[c] = p

\* What the bridge has of a connection ends with it, in the step that learns of
\* the end: the requests that wait for it, and the client's one registration,
\* also when a client took over an id or changed its own
\* (removeClient, handleRegistration).
NothingOutlivesItsConnection == AwaitedClientIsConnected /\ RegistrationsAreOwned

\* No client speaks for another: what it sends changes neither the
\* registration of another open client nor makes a request sent to another
\* succeed, but for the registration of the new patch asked for.  (A refused
\* client that registers again can end the registration of another.)
NobodySpeaksForAnother ==
  [][\A c \in Client : Says(c) =>
       /\ \A p \in Patcher :
            OpenOwner(p) /\ registrations[p].client # c
              => registrations'[p] = registrations[p]
       /\ \A id \in RequestId :
            Pending(id) /\ requests[id].client # c /\ outcome'[id] = "resolved"
              => requests[id].kind \in New /\ requests[id].created
                 /\ clientPatcherIds'[c] = requests[id].patcher]_vars

\* The bridge keeps the promise of RequestSlots.
Slots == INSTANCE RequestSlots WITH slot <- pendingOperations
SlotsKept == Slots!Spec
=============================================================================

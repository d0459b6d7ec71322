# Maxforge in TLA+

Maxforge keeps a part of a Max patch equal to a text (a DSL) that an agent edits,
while people go on editing the same patch by hand. This directory models the parts
of the program where that can go wrong: the synchronisation of a patch between the
broker process (TypeScript) and the `maxforge.sync` object inside Max (C++), the plans
and merges it is made of, the history of observed edits, the life of the broker
processes that agents share, and the scripts with which agents keep an installation
up to date.

Paths below are relative to the repository root.

## 1. Inventory

| Component | State it keeps | Operations | Talks to |
|---|---|---|---|
| Patch service, `src/mcp/service.ts` | per patch and scope: managed graph, intent graph, sources, baseline snapshot, in-flight record; receipts; last inspections | prepare, apply, inspect, review, adopt, inspect and recover an in-flight apply | bridge (`await`), state file |
| State file, `src/mcp/state-store.ts` | one JSON document, replaced by rename | load, save, migrate | service |
| WebSocket bridge, `src/mcp/bridge.ts` | clients, registrations, six tables of pending requests, one slot per patch, ring of observed edits | apply, inspect, create, open, save, close; one handler per event | service, Max, edit history |
| Reconciliation and merge, `src/mcp/reconcile.ts`, `src/max/patch-merge.ts` | none | reconstruct the live graph, three-way merge | service |
| Graphs, snapshots and reviews, `src/max/patch-graph.ts`, `patch-snapshot.ts`, `patch-edit-review.ts` | none | diff, rollback plan, revision; comparison of snapshots, clusters of changes | service |
| `maxforge.sync`, `source/projects/maxforge.sync/` | `revision_state`, saved with the patch; timers of connection, registration, observation, release and save | register, inspect, apply with rollback, create, open, save, close, observe edits | bridge, Max |
| Edit history, `src/mcp/edit-history-store.ts` | chunked files per session, metadata, writer lease | append, prune, load, erase | bridge |
| History identity, `src/mcp/patch-history-identity.ts` | append-only ledger | rekey, merge, forget, replay | edit history |
| Broker, `src/mcp/broker*.ts`, `process-lease.ts`, `runtime.ts` | listening sockets, owner port and lease, attached frontends | start, attach, status, stop, idle shutdown; frontends start brokers and retry | other processes |
| Command line, `src/cli/index.ts` | none | `broker start`, `status`, `stop`, `restart`; compile and decompile | broker |
| Skill scripts, `skills/*/scripts` | the pin in the Codex configuration, the native package, the skills and their lock, backups, two caches | pin, install, check, refresh | files, GitHub, npm, the Skills CLI |
| MCP tools, `src/mcp/mcp-server.ts` | none | schemas and texts around the service | service |
| DSL, compiler, decompiler, layout, catalog (`src/dsl`, `src/core`) | catalog | pure translation of text | service |

What is hard here:

* **Awaits.** The service runs on one thread, but each operation is cut by requests
  to Max. Values read before an `await` are used after it, and other callers run in
  between. The bridge lets one request per patch through at a time, but a planning
  call settles the in-flight record, and saves, before it asks for the slot.
* **Two places of truth.** The patch's revision is in Max and is saved with the
  patch; what the broker knows is in memory and in its file. Connections, processes
  and saves fail at any point between the two, and the patch may be reopened as it
  was before.
* **People** edit boxes at any time, also between the inspection a plan was made from
  and its application, while a save is polled, or while an agent's own change is
  being left out of the observation.
* **Order inside a plan.** Replaced boxes take their cords and nested boxes with
  them; operations are validated in one place, ordered in another and undone in a
  third.
* **Late messages.** A request that timed out may still be carried out, and its
  answer may arrive when the slot is taken again.
* **Many clients.** Several `maxforge.sync` objects connect to one bridge, with equal
  ids, several times, in any order.
* **Many brokers.** Each agent session is a process of its own that starts a detached
  broker when it finds none. Several brokers of one project can be on their way up or
  down at once, and a crash leaves a lease file behind that the next one must recover.
* **Files that are pruned, cut off, or half erased** under a history whose numbers,
  counts and hidden identities must stay true.
* **Scripts of several agents** that copy, move and restore the same files, and may be
  killed between any two steps.

The correctness properties that follow, per component:

* service and file: the file always explains the patch; nothing is called
  acknowledged that Max did not commit; a baseline belongs to its graph; an
  interrupted recovery waits for an explicit one;
* Max and service together: a commit is atomic and never undoes a person's edit;
* plans and merges: a plan is valid and arrives, its rollback restores, a merge keeps
  the edits of both sides, a review names every edit, cords to unmanaged boxes survive;
* bridge: a slot is taken exactly while its request is pending; one outcome per
  request; nothing outlives its connection; no client acts for another; the
  registered revision converges to the patch's, or to none without a connection;
* `maxforge.sync`: an edit does not wait for ever, what is owed is on a timer or was given
  up with a report, what is reported as saved is saved, a close loses nothing unasked;
* edit history: sequence numbers identify; dropped counts are true; replay of the
  ledger gives the state that was there before; what was forgotten stays hidden as long as
  the ledger is there;
* broker: at most one broker writes a project's state; the port and the lease are given
  back unless it crashes or cannot remove the file; an idle timeout or an unforced stop ends
  no session; a broker that is closing, or
  that nobody uses, comes to its end; a restart waits for that end;
* scripts: the first package and every edit of the configuration are somewhere; a failed
  installation restores; what is called current is current.

`PROJECT.json` lists every hazard at its line with the properties aimed at it.

## 2. Modules

```
PatchGraphs <- PatchSync <- PatchSyncProofs        PatchBridge <- PatchBridgeProofs
                 |   ^----- MCPatchSync                 |   ^----- MCPatchBridge
                 v PromiseKept                          v SlotsKept
            ManagedPatch (abstract)                RequestSlots (abstract)

PatchPlans <- PatchReconciliation <- PatchReview <- MCPatchPlans
                       ^                 ^--------- ReviewProofs -> PlanProofs
                       '---------------- PlanProofs

NativePatch <- NativePatchProofs       HistoryLedger <- EditHistory <- EditHistoryProofs
      ^------- MCNativePatch                                 ^-------- MCEditHistory

BrokerLifecycle <- BrokerCommands <- MCBrokerCommands
   |       ^                ^------- BrokerProofs
   |       '--- MCBrokerLifecycle
   v WritesOneByOne
ProjectWriter (abstract)

VersionAlignment <- ReleasePreflight <- MCReleasePreflight
                           ^----------- AlignmentProofs
```

An arrow `A <- B` reads "B extends A"; the arrows down are refinements.

**PatchGraphs** has the pure functions on graphs. A graph maps a box identity to an
opaque content or to `Absent`; text, rectangle, attributes and cords of a box are one
content because the synchroniser only compares them. A revision is the hash of the
canonical graph, so a graph is its own revision. Reconstruction and merge are given
by their outcome per box.

**PatchSync** is the life of one patch and one scope: service, state file, slot,
connection, Max. One action is one uninterrupted piece of code. `flight` is the
operation that awaits, with the values it read before (`pc` is its program point).

| Variable | Code |
|---|---|
| `mem`, `disk` | `managedGraphs`, `intentGraphs`, `baselineSnapshots`, `pendingApplies` in `MaxforgePatchService`; the same in the state file |
| `cached`, `receipts` | `latestInspections`, `preparedChanges` |
| `registry` | `RegisteredClient.info.revision` of the patch |
| `flight` | the awaiting method and `pendingOperations` of the patch |
| `link`, `toMax`, `fromMax` | the WebSocket and the messages on it |
| `max`, `saved` | `revision_state` and the boxes; the patch's file |
| `diskFull`, `held`, `left` | whether a save fails; the revisions Max has held (history); bounds |

A call that is refused before it changed anything is a stuttering step; refusals
after a change are actions (`RefusedAfterResolve`, `ApplyStale`,
`ApplyForOtherCatalog`). `GivesUp` and the second disjunct of `PreparationArrives`
also stand for a graph that cannot be written as DSL. A merge is only attempted with
the intent or the base `resolveCurrentGraph` finds, as in the code.

**ManagedPatch** is the promise: whatever is done to the managed boxes is one step
that gives the patch the target revision; a box that this revision changes is then as
the revision has it, one that it does not change is so too or stays as a person left it,
and the boxes that are not managed stay. `PromiseKept` says that PatchSync implements it.

**PatchBridge** is the bridge for all patches, with authenticated clients that may send any
event at any time. An event of the right type for a pending request that fails
validation is `AnswersWrongly`; an event for no pending request changes nothing.
`maxforge.edit.observed` touches only the ring of observations, which is EditHistory.
`handleRegistration` does not check, before it deletes the registration under the
client's previous id, that this registration is still the client's. A duplicate
client that the bridge has refused, and that registers under another id before its close
event, can therefore end the registration of the client that took over its first id.
`RegistersAgain` says whether that client may do so. `maxforge.sync` itself sends one
registration per change of its attributes, so both cases are reachable in principle;
the run leaves it out, because `NobodySpeaksForAnother` does not hold with it. The proof of
that property assumes `RegistersAgain = FALSE`, the others hold for both values.

**RequestSlots** is what the bridge promises its callers: one outcome per request,
and the slot is given back in the very step that decides it. `SlotsKept` says that
PatchBridge implements it.

**BrokerLifecycle** is the broker processes of one project and the frontends that start
and use them. A process is one life of a broker, a frontend one session of a host. An
action is what a process does between two awaits, and each access to the lease file is an
action of its own, so that another process may run between the reading of a dead owner's
lease, the second reading and the renaming.

| Variable | Code |
|---|---|
| `at` | how far `start()` and `closeInternal()` of `MaxforgeBroker`, and `ProcessLease.acquire` within them, have come |
| `state`, `port` | `state` of the broker's status; the control port it was started with |
| `initializing`, `running` | `initialization` is unsettled; `runtime` is set |
| `leased`, `existing` | the lease the broker holds (its `token`); the record `acquire` found |
| `stopping` | a stop was accepted, and its answer is not flushed |
| `controlOwner`, `ownerPort`, `ownerLease` | the listening sockets; the lease file |
| `requests`, `mcpSockets`, `mcpHandles` | handshakes not handled; the two sets in the broker |
| `maxClients`, `calls`, `pending` | `runtime.bridge.clientCount`; tool calls at work; the ones `pendingNativeOperationCount` counts |
| `phase`, `socket`, `spawned` | `ensureBrokerConnection` and the session after it |
| `unremoved` | history: the processes that failed to remove their lease (bound `MaxUnremoved`) |
| `cause`, `crashes` | history: why each process closes; the crashes so far (bound) |

Requests that change nothing (status, probe, a refused stop, a project or version that
does not match) have no action. A tool call is not a native operation: it asks Max
several times, and between two requests it is counted nowhere. `maxClients` tells whether
there is a Max client, not how many, because `checkIdle` and `handleStop` only compare
the count with zero. Any access to the lease file may fail (`AccessFails`, the last
two disjuncts of `WritesLease`, the second one of `ReleasesLease`); after a failed removal
the file stays, its process has no token for it any more, and the close goes on. What creating a runtime needs besides (the lease of the edit history,
the WebSocket port, the catalog) succeeds or fails as a whole. `PidReuse` says whether
the pid in a dead broker's lease may have been given to another program.

**ProjectWriter** is what the brokers promise: one process at a time works on the
project. `WritesOneByOne` says that BrokerLifecycle implements it, a process working
from the call of `initializeRuntime` until its runtime is closed.

**BrokerCommands** adds the command line: a stop that is refused, accepted or lost, the
polls until nobody listens, the new process, the polls until it is ready. A command is a
variable beside those of BrokerLifecycle, and `CommandsAreBrokerSteps` shows that it does
nothing to the brokers that BrokerLifecycle does not know.

**PatchPlans** is one plan, operation by operation. `Operations` is the ordered list of
`diffPatchGraphs`; a box has a class and attributes, some of which Max can set in place
and some of which need the box replaced, and boxes nest. `Validates` is the simulation
of `validate_plan_against_patch`, `Applies`, `Fails` and `Reverses` are the loop of
`process_dictionary` over the operations and the rollback list. What an operation does to
Max's patch (`Effect`) is written from `apply_operation` and not from what the diff means
it to do: freeing a box takes its cords, and a subpatcher all that is in it. `Unsafe` is the
set of the attribute names that `is_safe_set_attribute` refuses; the diff does not know it.
`Reverses` lets Max refuse to disconnect a cord on the way back, which the code ignores;
`clinging` records such cords.

**PatchReconciliation** puts before it what a preparation with `manualChanges: "merge"`
does: any graph that a person made of the acknowledged one, reconstructed, merged with
any wanted graph, turned into a plan. The merge is modelled as the code has it, a walk
over trees with a rule for fields, for whole boxes and for cords; `MergeKeepsEdits`
looks at each box and cord alone. `Node` gives a box a patcher by its class, where
`rebuildNode` takes the template's: a graph in which the two do not fit cannot be
serialized, and `reconcilePlan` reports it as a conflict (`service.ts:847-857`), so that the
plans are the same. PatchSync has the outcome of both modules per box.

**PatchReview** compares the snapshots behind that reconciliation and groups the changes
as `reviewPatchEdits` does. Snapshots tell boxes apart by Max's runtime ids, graphs by
managed ids, so a renamed or a re-created box is where the two disagree.

**NativePatch** is one `maxforge.sync` object: its timers, the connection and the
registration, the observation of edits with its suppression during an agent's own
changes, `save_patch` and `close_patch`. The patch's content is one value, as its
structure token is. Three variables are history. `missed`: the content changed when the code
did not listen, or its observation was not sent. `failed`: what was given up with a reported
error (the report of a change, a registration, the release after a baseline) and not begun
anew since. `edit`: what became of the last edit that was listened to.
Authentication, snapshots, attachments and `send_event` may fail wherever the code calls them.

| Variable | Code |
|---|---|
| `structure`, `dirty`, `filepath`, `disk`, `writing` | the patch in Max; its file; a write that Max was asked for |
| `link` | `transport_open_`, `registration_sent_`, and whether a view is visible |
| `observing` | `edit_observation_suppressed_`, `pending_edit_causes_`, `last_observed_structure_token_` |
| `timers` | `init_timer_`, `registration_timer_`, `observation_timer_`, `observation_release_timer_`, `save_timer_` |
| `save`, `reply`, `phase` | `pending_patch_save_` and its deadline; the last answer; the deferred disposal |

**HistoryLedger** is `PatchHistoryIdentityLedger`: the decisions in the file and what
replaying them gives. **EditHistory** extends it by the ring of the bridge and the chunk
files of the store. An observation is its three numbers (`sequence`, session, position in
the session); bytes are lines; files are kept in the order of their modification times,
and pruning may find any prefix of them too old.

| Variable | Code |
|---|---|
| `identities`, `ledger` | `knownIdentities`, `aliases`, `forgotten`; `identity-resolutions-v1.ndjson` |
| `ring`, `dropped`, `nextSequence` | `editObservations`, `droppedEditEvents`, `nextEditSequence` |
| `registered`, `sessions` | the clients' sessions; `SessionState` of the store |
| `files`, `metadata`, `lease` | the chunks on disk; registrations and saved paths; `.writer-lease` |
| `arrived`, `hidden` | history: what was restored or received; what was forgotten |
| `lost` | history: a failed erasure took the ledger; from its file, or since a restart from memory too |

Erasing removes the files in the order of their paths, so that the ledger's
(`identity-resolutions-v1.ndjson`) comes before or after the directory of a patch by nothing
but the name that a person gave the patch. `EraseFails` allows every place.

**VersionAlignment** is `set-codex-mcp-version.mjs` and `align-native-package.mjs`,
**ReleasePreflight** adds `check-version.mjs` and `refresh-skills.mjs` with their caches
and the published releases. Several agents run a script each, step by step; a step is one
access to a file that others touch. A package is its version and whether all of it is
there, since removing a directory can stop half-way. `overtaken` is history: edits came
into the configuration after the run had copied it.

## 3. Runs

| Run | Question | Bounds |
|---|---|---|
| `MCSyncCrash` | does the file explain the patch after crashes, lost connections, failed saves, failed plans, reopened patches and interrupted recoveries, and is a receipt good when it is issued? | 1 box, 2 contents, 2 states of unmanaged boxes; 4 calls, 1 edit, 2 breaks, 1 fault, 1 save |
| `MCSyncEdits` | does a commit ever undo a manual edit, or stop half-way, with other callers and timeouts? | 2 boxes, 2 receipts; 3 calls, 1 edit, 1 fault |
| `MCSyncLive` | is the slot released, does the registered revision converge with or without a connection, without timers, and is what will release it there in every state? | 3 calls, 1 edit, 1 break, 1 fault |
| `MCBridge` | do slots, tables, registrations and connections agree, and does anybody act for another? | 2 clients, 2 patches, 2 scopes, 2 requests, with a token |
| `MCBrokerOwnership` | do brokers work one after the other, clean up after themselves, and does a restart wait for that? | 3 processes, 2 control ports, one command at a time, 1 crash, 2 failed removals |
| `MCBrokerSessions` | is a session ever cut without force, and does a closing broker, or an idle one, end? | 1 process after one that crashed, 2 frontends, 1 more crash |
| `MCHistory` | are counts, cursor, ledger, `comparisonBasis` and visibility true after drops, pruning, restarts and failed erasures? | 3 patches, 2 sessions, 3 edits or saves, 2 decisions, 1 stop, 1 fault; ring of 2, chunks of 2 lines, 4 lines kept |
| `MCNative` | are answers about saves and closes true, does no edit wait for ever, do timers do their part, and is each set when it is owed? | 2 contents, 2 files; 2 changes, 1 save request, 1 mishap |
| `MCPlans` | do plans arrive, rollbacks restore, merges keep, reviews name? | 3 boxes (one nested) of 3 to 5 contents, one attribute that must not be set, 2 cords, 2 refused operations |
| `MCAlignment` | do packages, configurations and caches stay right with scripts side by side? | 2 agents, 2 versions, 2 revisions of the skills, the six combinations of events in `AgentAllowances`, up to 3 runs of one script |
| `MCSyncTimeout`, `MCHistoryErased` | counterexamples, section 5 | 3 request ids; as `MCHistory` |

Why the bounds are enough. A *call* is a segment of an operation up to its first
await; two prepare-and-apply rounds need four. A *break* is a crash, a lost
connection or a reopened patch; the recovery of an interrupted recovery needs two. Two contents
beside `Absent` are what a three-way merge can tell apart for one box, and two boxes
let a plan touch one and a person the other. Two request ids suffice as long as no
request is given up; with timers, a late one, the current one and the next one need
three. Two clients show duplicates, and one that answers for the other. For the lease three
processes are the fewest that matter: one
that died and left it, one that has found it dead, and one that recovers it in
between; they are started on two control ports, from the command line, so no
frontend is needed. Sessions and liveness concern each process by itself, with two
frontends so that one may come while the other leaves; the process finds the lease of one that
crashed before, or none; `SessionsAreServed` is proved for
any number of both. Three identities are the shortest chain of aliases that can close; two
sessions, three events and chunks of two lines roll a chunk, drop from the ring and prune
a live chunk. A plan needs one box that changes in every way, one that can hold another, and
one inside it, with a cord at each level; two refused operations let a rollback fail. Two
agents with the same script, or one checking while the other installs, are the races of the
scripts; a third run of the pin script can write back what it read before the second one
copied. Unused allowances are kept in variables, so behaviours within the
bounds are complete. `CHECK_DEADLOCK FALSE`: in every run the allowances can be
spent, or nobody may be calling, and the system then rests.

**Symmetry** is used for boxes, contents and states of the unmanaged boxes in
`MCSyncCrash` and `MCSyncEdits`, for requests in `MCBridge`, for
processes in `MCBrokerOwnership`, for patches in `MCHistory`, and for agents in
`MCAlignment`: those modules never order or pick them except
through quantifiers, and no liveness is checked there. `MCBrokerOwnership` also has a `VIEW`
(`OwnershipView`), which leaves out of a state why a broker closes, unless it crashed, and the
status of one that is gone: no action and no property of that run reads more of the two.

**Fairness** (`FairSpec`). In `MCSyncLive` the event loops of the broker and of Max go on
handling messages, and each end of a connection notices that the other closed it. A new
connection is not owed: a person may have sent `disconnect`, `@reconnect` may be 0, and a
registration may fail or wait for a window (`maxforge.sync.cpp:1831-1840`, 2046-2050,
2822-2831). `RegistryConverges` therefore asks for the patch's revision while there
is a registered connection, and for no registration otherwise. Callers, people, faults and
timers owe nothing. `SlotIsReleased` is checked with `TimersFire = FALSE`, so that the timer is not
what makes it true. In `MCBrokerSessions` a broker process runs: what it awaits settles
(file accesses, `listen` and `close` of its servers, the flushed answer to a stop, the
creation of the runtime), its idle timer fires, and arrived handshakes and close events are
handled. Hosts, Max, signals, stops and crashes owe nothing; a host may keep its session
for ever. In `MCNative` Max runs every timer that is set and every deferred call, and the
four seconds of a save pass; the person, the agent and the writing of a file owe nothing.

Type invariants and `QuietLinkIsCurrent` are not in the runs, since they are proved (section 4); PatchReview
has no variables of its own.

## 4. Proofs

The proof modules hold for every value of the constants, under the named
assumptions of each module (`AbsentIsNoValue`, `NoneAssumption`, `NoneIsNoRecord`,
`BoundsAssumption`, `BridgeAssumption`, `BrokerAssumption`, `CommandAssumption`,
`NativeAssumption`, `LedgerAssumption`, `HistoryAssumption`, `PlanAssumption`,
`ReconciliationAssumption`, `AlignmentAssumption`, `PreflightAssumption`): the special values
are distinct from the data, the bounds are numbers, and, in `PlanAssumption`, boxes and
attributes are finitely many, a nested box is in one other, and a cord joins two boxes of one
patcher. What a theorem needs beyond that is a hypothesis of it, and named below. The
theorems and the runs are about the same definitions.

**All components.** `TypeCorrect`, `BridgeTypeCorrect`, `TypesHold`, `CommandTypesHold`,
`HistoryTypes`, `PlanTypesHold`, `NativeTypesHold`, `AlignmentTypesHold`: one step per action,
over lemmas about queues, tables and helpers. They say that a program point has the record
it needs, that every retained observation is of a registered session, and that between any two
operations of a plan, and of its reverse, Max holds a graph.

**PatchSyncProofs.**

* `AcknowledgedIsCommitted`: `AcknowledgedWasCommitted` is not inductive, since a
  state becomes acknowledged through messages. `CommittedInv` adds that Max's present
  and saved revisions were committed (`PatchCommitted`), that so were the ones
  registered, cached and on the wire (`ReportsCommitted`), that receipts, flights and plans start
  from committed bases (`BasesCommitted`), and, the crucial part, that an event or
  plan with the id of the flight is about the graph the flight asked for
  (`AnswersMatch`): this is where fresh request ids are needed, and why late answers
  are harmless.
* `RecoveriesAreExplicit`: `ExplicitInv` says which flights may settle a superseded record.
* `BaselinesDescribe`, for callers that do not overlap (`Concurrent = FALSE`): `BaselineInv`
  adds that the flight that captures a baseline carries the graph that is managed by then.
  Section 5 shows what a second caller does to it.
* `RevisionsAreRecoverable`, for callers that do not overlap and requests that wait for their
  connection (`Concurrent = FALSE`, `TimersFire = FALSE`; section 5 has the counterexamples to
  either). Then slot, wire and registration go through one conversation of seven
  states (`Conversation`: down, leaving, joining, idle, asked, answered, lost), in each of which
  it is known what the other end knows. `RecoverableInv` adds that a plan under way is in the
  in-flight record in memory and on disk (`FlightRecorded`), and that both explain Max's revision.
* `ReceiptsAreBornFresh`, under the same two hypotheses: what a receipt is based on is a revision that
  the bridge had, or was about to have (`Reported`). On an open connection that is Max's revision, which
  `RecoverableInv` places; once Max has closed the connection it stays what the state of the service
  explains, although the patch may go on, be reopened and be saved (`ReportedInv`). Since no record is
  unsettled while a plan is prepared (`SettledWhilePreparing`), only the managed graph and the file are left.
* `SlotsCanEnd` and `QuietLinksAreCurrent` are the safety cores of `SlotIsReleased` and
  `RegistryConverges`: in every state there is something on the wire, or in the end of the connection,
  that will end the operation, and nothing before it that is never taken; and no report of a revision is
  missing once the wire is quiet. Every step is first shown to be one of a few kinds (`WireStep`) by what
  it does to slot, wire and registration; both invariants are then a case per kind. The first
  holds for all callers, crashes and timers, the second without timeouts (`TimersFire = FALSE`):
  a late acknowledgement is ignored.
* `EditsSurvive`, with any callers, timers and crashes: `EditsInv` says of each plan, in a receipt or
  on the wire, that for the boxes it was computed on it takes away only contents that some
  revision had (`ReceiptsHarmless`, `RequestsHarmless`); the structure token makes Max refuse it
  for any other boxes. Below it lies what intents, baselines and merge bases are made of (`StatesKnown`,
  `FlightKnown`).
* `StackKeepsPromise`: with the same invariant every step of PatchSync is a step or a stutter of
  ManagedPatch. Each plan either starts from the revision it names or was computed on
  the boxes that Max has.

**PatchBridgeProofs.** `SlotsAreRequests`, `NothingOutlives`, `BridgeKeepsSlots`: the inductive invariant `BridgeInv` is `CallsInv` (tables and slots agree; a
request is in a table exactly while its outcome is pending) and `ClientsInv` (the clients of
requests and registrations are connected, and a registration is under its client's last id).
Every step keeps it and is a step or a stutter of RequestSlots, which is the refinement.
`ClientsSpeakForThemselves`, with `RegistersAgain = FALSE`, adds `OpenClientsOwn`: an open client
that named a patch has its registration. Only then does deleting the registration under
the previous id never hit another client's.

**BrokerProofs.**

* `LeaseHolds`, `HandoverHolds`,
  `BrokersImplementProjectWriter`: the inductive invariant `BrokerInv` rests on the owner
  port. `OwnerInv` says that every process past the binding of the owner port has it, so at
  most one process is anywhere between there and its release; `StageInv` says where a
  process can have a runtime, a lease or a record it read, and `LeaseInv` what the lease
  file holds for each stage of the one that has the port. The accesses to the lease file
  alone would not do: between the second reading and the renaming a process moves
  away whatever is there.
* `SessionsAreNotCut`: `SessionInv` adds that an attached session is counted
  by the broker at its other end (`AttachedInv`), that an unhandled handshake is of a
  frontend that waits at that broker, gave up or left (`RequestInv`), and that a broker
  which is idle or was stopped without force counts no session and admits none
  (`DrainInv`).
* `CommandsAreBrokerSteps` carries all of this over to BrokerCommands. `RestartsWait` adds
  that a process listens on its control port from binding it until it lingers
  (`ControlInv`), that a lease without a holder is a crash's or a failed removal's (`CrashInv`), and that
  the process a command waits for is past its start (`CommandInv`): then nobody
  listening means that it has ended. `OnlyFaultsLeaveLeases` is `CrashInv` and `GarbledInv` (the same of
  a file without a record) with `OwnerInv`.

**EditHistoryProofs.** The ring, the files and the ledger are sequences that the model filters,
counts and folds. What the folds and filters give is proved by induction over the natural numbers
(`Induction`, from the well-foundedness of `<`, applied to the set of the numbers for which a
statement holds) before any of the following.

* `DecisionsCloseNoCycle`, `AliasesAlwaysEnd`: a decision redirects every alias of its source at
  once, so a set of aliases without a way out after it would have been one before. The same
  over a whole ledger shows that a replay ends too.
* `RestartsAgree`: `Replay` is a fold, so that replaying one more decision is applying it to the
  replay; memory and replay agree but for the identities that were only observed, unless `lost`
  says that a failed erasure took the ledger (section 5). `ForgottenStaysHidden`
  adds `HiddenInv`: the group that a hidden identity stands in is a hidden one, through
  every later merge. What is hidden outlives the ledger in memory, and is gone with the next start.
* `DropsAreAlwaysCounted`: for each patch, what was received or restored since the start is in the
  ring or counted.
* `SequencesAlwaysIdentify`, `IncompleteIsAlwaysTrue`: `NumbersInv` says that the chunks have their
  numbers in the order of their sessions, the ring rises, and all that is remembered is below the
  next number, after any restart from what pruning left; within a session numbers and edits have one order.

**PlanProofs.** Boxes are any finite set, nested to any depth. All five theorems rest on `PlanInv`.

* `PlansAlwaysArrive`: what Max holds after some operations is described by the set of those
  operations alone (`Midway`: box by box and cord by cord), so that the order matters only where one
  operation needs another; `NextIsThere` shows that the plan's order gives it what it needs, and
  `Simulation` mirrors the operations as the native object's simulation does. At the end
  the description is the desired graph. A plan sets no attribute but a changed one of a box that stays
  (`SetsAreChanges`), which is why only those can get it refused.
* `SymmetricRollbacksRestore`: `Back` describes in the same way what the reverse operations
  make of any `Midway`. When all of them have run it is the graph the plan started from, if
  every box that the plan replaces is replaced on the way back. A cord that Max refused to disconnect
  disturbs no later operation (`ButReverses`), so that nothing but such cords is left over.
* `MergesKeepEdits`: the walk of the merge over trees compared with what `MergeKeepsEdits` asks of each
  box, field and cord alone; the cases are those of `mergeBox` and of its two sides, and the
  hard part is at the borders, where one side deleted or added a box around another's edit.
* `UnmanagedCordsAreKept`: a plan frees no box of a set, nor one around it, if the desired
  graph kept it (`Spares`); the reconciliation refuses all others.

**ReviewProofs.** `ReviewsExplain`: `Clusters` is a fold over the changes in an order that nothing
fixes, with a map from keys to the cluster that first had them. `IsGrouping` is what it keeps in any order:
clusters are disjoint and connected, and every key is in the cluster the map gives. `FoldGroups` says so of
the whole fold, by induction over the size of a set (again by the well-foundedness of `<`), so that the clusters are the connected components (`ClustersAre`). The rest compares the changes
of the two snapshots, kind by kind (`ChangesAre`), with what differs between the two graphs: every box that
does is named by the changes of itself or of its cords, and no other (`NamedEditsAre`); renamed,
re-created and unmanaged boxes leave a mark (`BordersAre`).

**NativePatchProofs.** `AnswersAreAlwaysTrue` rests on `FlagInv`, that an open patch with a
clear flag is in its file; disposal clears the flag too, which is why it asks for an open patch.
`QuietIsAlwaysAccounted` rests on `AccountInv`: before the first observation nothing is
connected or released, a suppressed object has no cause, and what has no cause is accounted for.
`NothingIsEverStranded` is the safety core of `EditsAreObserved` and `SaveIsAnswered`, and says that an
observation does not stay suppressed: whatever an open object owes has the timer set that settles it, or is in
`failed`, until a plan, a notification or a connection begins it anew. It needs `AccountInv` too, since
the timer that starts the object must not find a cause.

**AlignmentProofs.**

* `OriginalsSurvive`: `OriginalInv` says that until the original package is among the
  backups no run has moved anything, and all runs found it. `FailedInstallsRestore`:
  `CleanInv` says what a run that is alone has at the destination and aside, per step.
* `OverwrittenEditsAreCopied`: `EditsInv` says of each run that was not overtaken that the edits in the
  configuration are in a copy, or that they are those it read itself.
* `CurrentHolds`, `SkillsHold`: what a script knows is true up to the time at which it began or at which
  the cached answer was fetched (`ReleasesInv`, `SkillsInv`). The past does not change (`Later`), so
  neither waiting, nor other scripts, nor releases make it false.

Left to TLC: liveness under fairness (`SlotIsReleased`, `RegistryConverges`, `ClosingEnds`,
`IdleBrokersStop`, `EditsAreObserved`, `SaveIsAnswered`), for which the prover has no
rules. Every other property of the passing runs is proved; of the last two and the first two the
invariants named above are, which leave to fairness only that what is set fires and what is sent arrives.

## 5. What the runs found

1. `MCSyncTimeout`: an apply times out, the next planning call finds the base revision
   still registered and deletes the in-flight record, and then Max commits the plan (or
   had committed it). No file knows that revision. `docs/mcp.md:974-978` promises that
   base means that nothing was committed. With `Concurrent`
   instead of `TimersFire` TLC finds the same without a timer: the planning call of a second
   caller deletes the record of an apply that is still awaited, and the connection ends
   before the acknowledgement.
2. `MCHistoryErased`: an erasure that fails after it removed the ledger leaves observations
   whose group was forgotten. The running broker keeps them hidden, the next one shows them
   (and takes other decisions than the one before: `ReplayAgrees`). `docs/mcp.md:509` says that
   forget excludes them. The ledger goes first unless the patch's id sorts before
   `identity-resolutions-v1.ndjson`. `ForgottenUntilLost` and `DecisionsSurvive` say what holds.

The pass runs exclude timers and second callers, or say of these cases what does hold.

Some statements of the modules are not true of the code in general and can be put in a configuration
to see how:

* `FilesAreReadable` (MCHistory): `prune` spares only the chunk of the session that called it. The
  chunk of another open session may go; the next `appendFileSync` of that session makes the file
  again without its header, and `readHistoryFile` ignores such a file at the next start, although
  `docs/mcp.md:477` says that the chunks restore the evidence (`edit-history-store.ts:583`).
* `PlansHideNoEdits` (MCNative): a plan that comes within 75 ms of a person's edit clears the
  pending causes and takes the content with the edit as observed (`maxforge.sync.cpp:2266`).
  The plan may well know of the edit, when it was made from an inspection after it; but the edit is never told by itself, though
  `docs/mcp.md:479-481` names only plans and unchanged structures as left out. It is in the
  difference that the next observation shows. `EditsAreObserved` has this as one of the ways in
  which an edit stops waiting.
* `NoPlanIsRefused` (MCPlans): when a `filename` or `filepath` of a box changes, `diffPatchGraphs`
  makes a `set` of it (`patch-graph.ts:585`), and the native object refuses the whole plan
  (`is_safe_set_attribute`; `maxforge_sync_protocol_test.cpp:201` wants it so).
  `docs/patch-sync.md:115-116` says that changed attributes are set. Nothing is changed in Max;
  `PlansArrive` says that no other plan is refused.
* `BaselineDescribesManaged` (PatchSync, with `Concurrent = TRUE`, six calls and two receipts): between the
  acknowledgement and the end of `captureBaseline` memory has the new managed graph and the old
  baseline (`service.ts:649-670`). A second caller that applies in between saves both with its
  in-flight record before the bridge refuses it as busy. Its receipt was made when the patch
  had that same revision before. After a crash the next broker compares the patch
  with a baseline of another graph.
* `NobodySpeaksForAnother` (PatchBridge, with `RegistersAgain = TRUE`), section 2.
* `ReceiptIsBornFresh` without its second case (PatchSync, with a break that reopens the patch):
  `prepareChange` with `currentDsl` issues a receipt for the revision of the reopened file that
  `applyPreparedChange` refuses at once because the recorded graph is another; `docs/mcp.md:725-729`
  names later edits as what makes a receipt stale. The proof shows that this is the only way.
* `StopsInterruptNothing` (MCBrokerSessions): `handleStop` looks at the operations that are pending
  when the stop arrives, but tool calls go on until its answer is flushed, and their requests to Max
  until the runtime closes. `docs/mcp.md:109-111` says that a forced stop refuses while an
  operation is pending, and line 1005 that it never interrupts one.
* `UnusedBrokersStop` (MCBrokerSessions): when the handshake times out the frontend keeps its socket
  open (`broker-client.ts:147`) and serves diagnostics. A broker that answers late counts it as an
  MCP client, and so neither idles out nor lets itself be stopped without `--force`.
  `IdleBrokersStop` leaves such frontends out.
* `RollbackRestores` (MCPlans): whether a box is replaced depends on the direction
  (`requiresBoxReplacement`, `patch-graph.ts:555`), and so do the cords that are
  disconnected first. When a plan replaces a box that its reverse only sets, and fails after the
  box was freed, the reverse does not create it again. `docs/patch-sync.md:135-138`
  says that a failed plan is rolled back. `SymmetricRollbackRestores` is
  the statement for the other plans.

Seen while modelling, and part of the modelled behaviour:

* A registration whose attachment to the patch fails is reported and leaves the observation
  suppressed until the next plan or registration (`maxforge.sync.cpp:2886-2889`). A connection
  whose authentication was not sent stays open without a registration and without a timer for it
  (line 2073), and an observation counts as told whether or not it could be sent (2327-2330).
* A lease that could not be removed keeps the next broker out for as long as the process that
  failed to remove it lives, or for ever if it has no record (`process-lease.ts:52-65`).
* A rollback is reported as complete when Max refused to disconnect a cord again
  (`maxforge.sync.cpp:1592-1597`); the cord then stays beside the restored graph.
* An agent's own changes are not an observation of their own, but they are in the difference that
  the next observation of a person's edit shows, since it is computed against the previous
  observation (`docs/mcp.md:474-475` says that plan application is excluded).
* The configuration that `set-codex-mcp-version.mjs` writes is the one it read first: an edit between
  the reading and the copying is gone from the file, and only the copy has it. One that comes after
  the copying is nowhere, whether a person made it or another run wrote back what it had read before;
  the latter takes three runs. `EditsAreBackedUp` excepts both.
* A person's edit that gives a box a content which an older revision had can be replaced by a
  plan that takes it for that revision's: `ManualEditsSurvive` speaks of contents that no revision had.
  With `manualChanges: "reject"` this takes a patch that was reopened at an older revision:
  `assertNoManagedDrift` (`service.ts:1397`) compares it with the baseline of the graph that was managed
  last and not with the graph that `currentDsl` names.
* `load` removes duplicates from what it reads (`edit-history-store.ts`), and there never are any:
  the proof of `SequencesAlwaysIdentify` shows that the chunks of a directory have different numbers.
* `align-native-package.mjs` removes the old package inside the same `try`: when that removal fails
  half-way, the rollback deletes the verified new package and puts the half-removed one
  back. The backup is whole.

## 6. Not modelled, and what comes next

Not modelled by intent: text, wording and schemas (MCP tools, DSL parsing,
layout, catalog files, the compiling half of the command line), which are sequential and pure;
`applyDsl`, which no tool calls; messages typed directly to a `maxforge.sync` object, which
bypass the service, but for plans, `register` and `disconnect` in NativePatch.
Taken from the environment: Max as the place where patches are edited, saved
and reopened, the derivation of ports and keys from a project's path, the WebSocket library
(ordered delivery; messages of a connection being
closed still arrive before its close event), and the file system (replacing a file by
rename is atomic, or fails; creating one exclusively fails if it is there).

Left out of the modelled components, with what it hides:

* PatchSync: retained source texts; a state file that does not parse; its migration.
* PatchPlans: two box types whose creation gives another number of inlets, the ports of
  cords, and variable names that the native side and TypeScript read differently
  (`managed_id_from_variable_name` accepts a name of digits only, `managedIdFromVarName` does not).
* PatchReview: changed attributes of cords, positions, counts and summaries.
* NativePatch: creating and opening patches; several views of one patch.
* EditHistory: a line cut off in the ledger or in the middle of a chunk; a `load` that throws,
  after which the bridge starts with sequence 1 beside the old files; two brokers that
  quarantine the same dead writer's lease (the owner lease of BrokerLifecycle keeps
  brokers of one project apart before they get there); numbers that a restart gives
  again because pruning removed the highest ones; observations of two overlapping
  sessions of one group, whose `comparisonBasis` is computed in the order of the ring and may
  be wrong (`IncompleteIsTrue` excludes them); a gap that opens in the middle of a session,
  which is labelled `previous_observation`.
* BrokerCommands: a restart that goes on polling a broker that a frontend has started meanwhile
  ends by its deadline, which is `TimesOut`; the exit codes are left out.
* The scripts: Max started after `assertMaxIsClosed`; directories with a nonce that a killed
  installation leaves; a cache that is readable half-way; the Skills CLI and the
  second reading of the lock as two steps; `CurrentIsTrue` says nothing of an
  installation without a package, which is called current by its pin.

Plan, in order:

1. PatchBridge restricted to one patch and one well-behaved client as an implementation of
   PatchSync's slot and registry.
2. Boxes with fields and nesting in PatchSync. A box of PatchGraphs is one opaque content, so two sides
   that changed different fields of one box are a conflict there, where PatchReconciliation merges
   them; with fields, PatchReconciliation would implement the outcome that PatchSync uses.
3. `ReceiptIsBornFresh` and `BaselineDescribesManaged` with the callers that overlap in a way that
   keeps them, to say which overlaps a queue in front of the service would have to exclude.
4. Receipts with source edits, the state file's migration, DSL expansion and
   expressions against reference definitions.

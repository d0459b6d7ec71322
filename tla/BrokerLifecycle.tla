-------------------------- MODULE BrokerLifecycle ---------------------------
(***************************************************************************)
(* The detached broker processes of one project, the stdio frontends that  *)
(* start and use them, and the two things that keep the brokers apart: the *)
(* owner port, one per project, and the owner lease, a file that outlives  *)
(* a crash.  A frontend reaches a broker on its control port; frontends    *)
(* with different settings may have different control ports.               *)
(*                                                                         *)
(* A process is one life of a broker, and a frontend one MCP session.      *)
(* Within a process an action is what runs between two awaits, except that *)
(* each access to the lease file is an action of its own: the other        *)
(* processes run in between.                                               *)
(*                                                                         *)
(* Requests that are refused and change nothing (another project, another  *)
(* version or configuration, status, probe, BUSY) have no action.          *)
(***************************************************************************)
EXTENDS Naturals, FiniteSets

CONSTANTS
  Process, Frontend, Port,
  PortOf,       \* the control port in the settings of each frontend
  Nobody,       \* no process
  NoFile,       \* ENOENT
  Garbled,      \* a lease file without a valid record
  PidReuse,     \* the pid of a dead broker may be that of another program
  MaxCrashes,   \* bound
  MaxUnremoved  \* bound

VARIABLES
  at,           \* program counter of each process: see Stage
  state,        \* BrokerStatus.state
  port,         \* the control port of each process
  initializing, \* the processes with an unsettled initialization promise
  running,      \* the processes whose runtime is set
  leased,       \* the processes that remember a token
  existing,     \* the record each process found in the lease file
  stopping,     \* a stop was accepted and its answer is not flushed
  cause,        \* history: why each process closes
  crashes,      \* history
  controlOwner, \* who listens on each control port
  ownerPort,    \* who listens on the owner port
  ownerLease,   \* the lease file
  unremoved,    \* history: the processes that failed to remove the lease file
  requests,     \* handshakes that arrived and were not handled
  mcpSockets, mcpHandles,
  maxClients,   \* the processes with a connected Max client
  calls,        \* the sessions whose tool call a process works on
  pending,      \* of these, the ones that await Max
  phase,        \* of each frontend
  socket,       \* the process at the other end of its connection
  spawned       \* the frontends that have started a broker

life == <<at, state, port, initializing, running, stopping, cause, crashes>>
ownership == <<controlOwner, ownerPort, ownerLease, unremoved, leased, existing>>
sessions == <<requests, mcpSockets, mcpHandles>>
work == <<maxClients, calls, pending>>
frontends == <<phase, socket, spawned>>
vars == <<life, ownership, sessions, work, frontends>>

ASSUME BrokerAssumption ==
  /\ Port # {}
  /\ PortOf \in [Frontend -> Port]
  /\ Nobody \notin Process
  /\ NoFile \notin Process /\ Garbled \notin Process /\ NoFile # Garbled
  /\ PidReuse \in BOOLEAN
  /\ MaxCrashes \in Nat
  /\ MaxUnremoved \in Nat

Leasing == {"reading", "checking", "renaming", "creating", "writing"}
Closing == {"closingHandles", "awaitingStart", "closingRuntime",
            "closingOwner", "closingControl", "lingering"}
Stage == {"unborn", "starting", "bound", "serving", "gone"} \cup Leasing \cup Closing

\* Where requests of other processes are handled: start() runs from the bound
\* control port to its end in one turn of the event loop, and so does close()
\* from the closed runtime to the closed owner port.
Awaiting == {"serving", "closingHandles", "awaitingStart", "closingRuntime",
             "closingControl", "lingering"}

Phase == {"idle", "trying", "waiting", "attached", "diagnostic", "closed", "cut"}

TypeOK ==
  /\ at \in [Process -> Stage]
  /\ state \in [Process -> {"starting", "ready", "failed", "draining"}]
  /\ port \in [Process -> Port]
  /\ initializing \subseteq Process
  /\ running \subseteq Process \ initializing
  /\ leased \subseteq Process
  /\ existing \in [Process -> Process \cup {Nobody}]
  /\ stopping \subseteq Process
  /\ cause \in [Process -> {"none", "idle", "stop", "forced", "signal", "crash"}]
  /\ crashes \in 0 .. MaxCrashes
  /\ controlOwner \in [Port -> Process \cup {Nobody}]
  /\ ownerPort \in Process \cup {Nobody}
  /\ ownerLease \in Process \cup {NoFile, Garbled}
  /\ unremoved \subseteq Process
  /\ requests \in [Process -> SUBSET Frontend]
  /\ mcpSockets \in [Process -> SUBSET Frontend]
  /\ mcpHandles \in [Process -> SUBSET Frontend]
  /\ maxClients \subseteq running
  /\ calls \in [Process -> SUBSET Frontend]
  /\ pending \in [Process -> SUBSET Frontend]
  /\ \A p \in Process : mcpHandles[p] \subseteq mcpSockets[p] /\ pending[p] \subseteq calls[p]
  /\ phase \in [Frontend -> Phase]
  /\ socket \in [Frontend -> Process \cup {Nobody}]
  /\ spawned \subseteq Frontend

\* Nobody runs.
AtRest ==
  /\ state = [p \in Process |-> "starting"]
  /\ port = [p \in Process |-> CHOOSE q \in Port : TRUE]
  /\ initializing = {} /\ running = {} /\ leased = {}
  /\ existing = [p \in Process |-> Nobody]
  /\ stopping = {}
  /\ controlOwner = [q \in Port |-> Nobody]
  /\ ownerPort = Nobody
  /\ unremoved = {}
  /\ requests = [p \in Process |-> {}]
  /\ mcpSockets = [p \in Process |-> {}]
  /\ mcpHandles = [p \in Process |-> {}]
  /\ maxClients = {}
  /\ calls = [p \in Process |-> {}]
  /\ pending = [p \in Process |-> {}]
  /\ phase = [f \in Frontend |-> "idle"]
  /\ socket = [f \in Frontend |-> Nobody]
  /\ spawned = {}

Init ==
  /\ AtRest
  /\ at = [p \in Process |-> "unborn"]
  /\ cause = [p \in Process |-> "none"]
  /\ crashes = 0
  /\ ownerLease = NoFile

-----------------------------------------------------------------------------
(* Frontends: ensureBrokerConnection, and the session that follows. *)

Opens(f) ==
  /\ phase[f] = "idle"
  /\ phase' = [phase EXCEPT ![f] = "trying"]
  /\ UNCHANGED <<life, ownership, sessions, work, socket, spawned>>

\* The kernel accepts for a listening process, whatever that is doing.
Connects(f) ==
  LET p == controlOwner[PortOf[f]]
  IN  /\ phase[f] = "trying"
      /\ p # Nobody
      /\ phase' = [phase EXCEPT ![f] = "waiting"]
      /\ socket' = [socket EXCEPT ![f] = p]
      /\ requests' = [requests EXCEPT ![p] = @ \cup {f}]
      /\ UNCHANGED <<life, ownership, mcpSockets, mcpHandles, work, spawned>>

Born(q) ==
  \E p \in Process :
    /\ at[p] = "unborn"
    /\ at' = [at EXCEPT ![p] = "starting"]
    /\ port' = [port EXCEPT ![p] = q]
    /\ UNCHANGED <<state, initializing, running, stopping, cause, crashes>>

\* ECONNREFUSED: a frontend starts a broker once.
Spawns(f) ==
  /\ phase[f] = "trying"
  /\ controlOwner[PortOf[f]] = Nobody
  /\ f \notin spawned
  /\ Born(PortOf[f])
  /\ spawned' = spawned \cup {f}
  /\ UNCHANGED <<ownership, sessions, work, phase, socket>>

\* The start timeout has passed.
GivesUp(f) ==
  /\ phase[f] = "trying"
  /\ phase' = [phase EXCEPT ![f] = "diagnostic"]
  /\ UNCHANGED <<life, ownership, sessions, work, socket, spawned>>

\* No answer within a second.  readHandshake does not close the socket.
HandshakeTimesOut(f) ==
  /\ phase[f] = "waiting"
  /\ phase' = [phase EXCEPT ![f] = "diagnostic"]
  /\ UNCHANGED <<life, ownership, sessions, work, socket, spawned>>

\* The host ends the session, and with it the process of the frontend.
Leaves(f) ==
  /\ phase[f] \in {"trying", "waiting", "attached", "diagnostic"}
  /\ phase' = [phase EXCEPT ![f] = "closed"]
  /\ socket' = [socket EXCEPT ![f] = Nobody]
  /\ UNCHANGED <<life, ownership, sessions, work, spawned>>

\* The command line: broker start, and the second half of broker restart.  It
\* found nobody before, but somebody else may listen by now.
CliStarts(q) ==
  /\ Born(q)
  /\ UNCHANGED <<ownership, sessions, work, frontends>>

\* A session whose other end is gone is cut, and a handshake starts again.
Lost(f) ==
  IF phase[f] = "attached" THEN "cut" ELSE IF phase[f] = "waiting" THEN "trying" ELSE phase[f]

\* The other end of these connections is gone.  For a handshake whose request
\* was not read the connection may be reset, which is final.
Cuts(gone) ==
  \E reset \in SUBSET {f \in gone : phase[f] = "waiting"} :
    /\ phase' = [f \in Frontend |-> IF f \in reset THEN "diagnostic"
                                    ELSE IF f \in gone THEN Lost(f) ELSE phase[f]]
    /\ socket' = [f \in Frontend |-> IF f \in gone THEN Nobody ELSE socket[f]]
    /\ UNCHANGED spawned

ConnectedTo(p) == {f \in Frontend : socket[f] = p}

-----------------------------------------------------------------------------
(* MaxforgeBroker.start *)

Moves(p, stage) == at' = [at EXCEPT ![p] = stage]

\* The control endpoint stays, and says why.
StartFails(p) ==
  /\ Moves(p, "serving")
  /\ state' = [state EXCEPT ![p] = "failed"]
  /\ UNCHANGED initializing

\* EADDRINUSE ends the process.
BindsControl(p) ==
  LET q == port[p]
  IN  /\ at[p] = "starting"
      /\ \/ /\ controlOwner[q] = Nobody
            /\ controlOwner' = [controlOwner EXCEPT ![q] = p]
            /\ Moves(p, "bound")
         \/ /\ controlOwner[q] # Nobody
            /\ Moves(p, "gone")
            /\ UNCHANGED controlOwner
      /\ UNCHANGED <<state, port, initializing, running, stopping, cause, crashes,
                     ownerPort, ownerLease, unremoved, leased, existing,
                     sessions, work, frontends>>

BindsOwner(p) ==
  /\ at[p] = "bound"
  /\ \/ /\ ownerPort = Nobody
        /\ ownerPort' = p
        /\ Moves(p, "reading")
        /\ UNCHANGED <<state, initializing>>
     \/ /\ ownerPort # Nobody
        /\ StartFails(p)
        /\ UNCHANGED ownerPort
  /\ UNCHANGED <<port, running, stopping, cause, crashes,
                 controlOwner, ownerLease, unremoved, leased, existing,
                 sessions, work, frontends>>

-----------------------------------------------------------------------------
(* ProcessLease.acquire, and the start of the runtime. *)

\* processIsAlive, by the pid in a record.
MayBeAlive(p) == at[p] # "gone" \/ PidReuse
MayBeDead(p) == at[p] = "gone"

LeaseStep ==
  UNCHANGED <<port, running, stopping, cause, crashes, controlOwner, ownerPort,
              sessions, work, frontends>>

ReadsLease(p) ==
  /\ at[p] = "reading"
  /\ \/ /\ ownerLease = NoFile
        /\ Moves(p, "creating")
        /\ UNCHANGED <<state, initializing, existing>>
     \/ /\ ownerLease \in Process
        /\ MayBeDead(ownerLease)
        /\ existing' = [existing EXCEPT ![p] = ownerLease]
        /\ Moves(p, "checking")
        /\ UNCHANGED <<state, initializing>>
     \/ /\ ownerLease = Garbled \/ (ownerLease \in Process /\ MayBeAlive(ownerLease))
        /\ StartFails(p)
        /\ UNCHANGED existing
  /\ UNCHANGED <<ownerLease, unremoved, leased>>
  /\ LeaseStep

\* An access to the file other than a removal fails, with the file as it was.
AccessFails(p) ==
  /\ at[p] \in {"reading", "checking", "renaming", "creating"}
  /\ StartFails(p)
  /\ existing' = [existing EXCEPT ![p] = Nobody]
  /\ UNCHANGED <<ownerLease, unremoved, leased>>
  /\ LeaseStep

\* quarantineDeadOwner reads the file again ...
ChecksLease(p) ==
  /\ at[p] = "checking"
  /\ IF ownerLease = existing[p]
     THEN Moves(p, "renaming") /\ UNCHANGED <<state, initializing>>
     ELSE StartFails(p)
  /\ existing' = [existing EXCEPT ![p] = Nobody]
  /\ UNCHANGED <<ownerLease, unremoved, leased>>
  /\ LeaseStep

\* ... and moves it away, whatever it holds by now.  The start fails as well
\* when the moved file cannot be removed.
RenamesLease(p) ==
  /\ at[p] = "renaming"
  /\ \/ /\ ownerLease # NoFile
        /\ Moves(p, "creating")
        /\ UNCHANGED <<state, initializing>>
     \/ StartFails(p)
  /\ ownerLease' = NoFile
  /\ UNCHANGED <<unremoved, leased, existing>>
  /\ LeaseStep

\* open with "wx"
CreatesLease(p) ==
  /\ at[p] = "creating"
  /\ IF ownerLease = NoFile
     THEN /\ Moves(p, "writing")
          /\ ownerLease' = Garbled
          /\ UNCHANGED <<state, initializing>>
     ELSE StartFails(p) /\ UNCHANGED ownerLease
  /\ UNCHANGED <<unremoved, leased, existing>>
  /\ LeaseStep

\* The file cannot be removed.
RemovalFails(p) ==
  /\ Cardinality(unremoved) < MaxUnremoved
  /\ unremoved' = unremoved \cup {p}

\* What the file holds when p has written its record to it.
Recorded(p) == IF ownerLease = Garbled THEN p ELSE ownerLease

\* The record is written, and initializeRuntime is called; or it is not, or the
\* descriptor cannot be closed after it was, and the file is removed; or that
\* fails too, and p has no token for what stays behind.
WritesLease(p) ==
  /\ at[p] = "writing"
  /\ \/ /\ ownerLease' = Recorded(p)
        /\ leased' = leased \cup {p}
        /\ Moves(p, "serving")
        /\ initializing' = initializing \cup {p}
        /\ UNCHANGED <<state, unremoved>>
     \/ /\ ownerLease' = NoFile
        /\ StartFails(p)
        /\ UNCHANGED <<unremoved, leased>>
     \/ /\ ownerLease' \in {ownerLease, Recorded(p)}
        /\ RemovalFails(p)
        /\ StartFails(p)
        /\ UNCHANGED leased
  /\ UNCHANGED existing
  /\ LeaseStep

\* createRuntime settles: the history lease, the WebSocket port and the
\* catalog are there, or one is not.  A broker that is closing closes the new
\* runtime at once.
InitializationSettles(p) ==
  /\ p \in initializing
  /\ initializing' = initializing \ {p}
  /\ \/ /\ at[p] \notin Closing
        /\ running' = running \cup {p}
        /\ state' = IF state[p] = "draining" THEN state ELSE [state EXCEPT ![p] = "ready"]
     \/ /\ at[p] \in Closing
        /\ UNCHANGED <<running, state>>
     \/ /\ state' = [state EXCEPT ![p] = "failed"]
        /\ UNCHANGED running
  /\ UNCHANGED <<at, port, stopping, cause, crashes, ownership, sessions, work, frontends>>

-----------------------------------------------------------------------------
(* MaxforgeBroker.handleRequest *)

Serves(p) == state[p] = "ready" /\ p \in running

\* action "mcp".  The frontend may have left or timed out meanwhile, and the
\* socket of one that left counts until its close event.
Attaches(p, f) ==
  /\ Serves(p)
  /\ mcpSockets' = [mcpSockets EXCEPT ![p] = @ \cup {f}]
  /\ phase' = IF socket[f] = p /\ phase[f] = "waiting"
              THEN [phase EXCEPT ![f] = "attached"] ELSE phase
  /\ UNCHANGED socket

\* STARTING makes the frontend try again, UNAVAILABLE does not.  Either way
\* both ends close the socket.
Refuses(p, f) ==
  /\ ~Serves(p)
  /\ phase' = IF socket[f] = p /\ phase[f] = "waiting"
              THEN [phase EXCEPT ![f] = IF state[p] = "starting" THEN "trying" ELSE "diagnostic"]
              ELSE phase
  /\ socket' = IF socket[f] = p THEN [socket EXCEPT ![f] = Nobody] ELSE socket
  /\ UNCHANGED mcpSockets

\* Variant: a closing broker leaves new connections alone.
HandlesMcpBug(p, f) ==
  /\ at[p] = "serving"
  /\ f \in requests[p]
  /\ requests' = [requests EXCEPT ![p] = @ \ {f}]
  /\ Attaches(p, f) \/ Refuses(p, f)
  /\ UNCHANGED <<life, ownership, mcpHandles, work, spawned>>

HandlesMcp(p, f) ==
  /\ at[p] \in Awaiting
  /\ f \in requests[p]
  /\ requests' = [requests EXCEPT ![p] = @ \ {f}]
  /\ Attaches(p, f) \/ Refuses(p, f)
  /\ UNCHANGED <<life, ownership, mcpHandles, work, spawned>>

\* The answer is written: serveStdio.
ServesSession(p, f) ==
  /\ at[p] \in Awaiting
  /\ f \in mcpSockets[p] \ mcpHandles[p]
  /\ mcpHandles' = [mcpHandles EXCEPT ![p] = @ \cup {f}]
  /\ UNCHANGED <<life, ownership, requests, mcpSockets, work, frontends>>

\* The close event of a session's socket.
SocketCloses(p, f) ==
  /\ at[p] \in Awaiting
  /\ f \in mcpSockets[p]
  /\ socket[f] # p
  /\ mcpSockets' = [mcpSockets EXCEPT ![p] = @ \ {f}]
  /\ mcpHandles' = [mcpHandles EXCEPT ![p] = @ \ {f}]
  /\ UNCHANGED <<life, ownership, requests, work, frontends>>

\* handleStop.  A stop of a broker that is closing already changes nothing.
Stops(p, force) ==
  LET busy == mcpSockets[p] # {} \/ p \in maxClients
  IN  /\ at[p] = "serving"
      /\ pending[p] = {}
      /\ busy => force
      /\ state' = [state EXCEPT ![p] = "draining"]
      /\ stopping' = stopping \cup {p}
      /\ cause' = [cause EXCEPT ![p] = IF busy THEN "forced" ELSE IF @ = "none" THEN "stop" ELSE @]
      /\ UNCHANGED <<at, port, initializing, running, crashes,
                     ownership, sessions, work, frontends>>

-----------------------------------------------------------------------------
(* Max, and the tool calls of the sessions. *)

MaxConnects(p) ==
  /\ p \in running
  /\ at[p] \in {"serving", "closingHandles", "awaitingStart"}
  /\ maxClients' = maxClients \cup {p}
  /\ UNCHANGED <<life, ownership, sessions, calls, pending, frontends>>

\* Its pending requests are rejected.
MaxDisconnects(p) ==
  /\ p \in maxClients
  /\ maxClients' = maxClients \ {p}
  /\ pending' = [pending EXCEPT ![p] = {}]
  /\ UNCHANGED <<life, ownership, sessions, calls, frontends>>

CallsTool(p, f) ==
  /\ at[p] = "serving"
  /\ f \in mcpHandles[p]
  /\ socket[f] = p
  /\ calls' = [calls EXCEPT ![p] = @ \cup {f}]
  /\ UNCHANGED <<life, ownership, sessions, maxClients, pending, frontends>>

\* A call asks Max once or more often, and goes on when its caller has left.
AsksMax(p, f) ==
  /\ f \in calls[p]
  /\ p \in maxClients
  /\ pending' = [pending EXCEPT ![p] = @ \cup {f}]
  /\ UNCHANGED <<life, ownership, sessions, maxClients, calls, frontends>>

MaxAnswers(p, f) ==
  /\ f \in pending[p]
  /\ pending' = [pending EXCEPT ![p] = @ \ {f}]
  /\ UNCHANGED <<life, ownership, sessions, maxClients, calls, frontends>>

Returns(p, f) ==
  /\ f \in calls[p] \ pending[p]
  /\ calls' = [calls EXCEPT ![p] = @ \ {f}]
  /\ UNCHANGED <<life, ownership, sessions, maxClients, pending, frontends>>

-----------------------------------------------------------------------------
(* MaxforgeBroker.close *)

Closes(p, why) ==
  /\ at[p] = "serving"
  /\ Moves(p, "closingHandles")
  /\ state' = [state EXCEPT ![p] = "draining"]
  /\ stopping' = stopping \ {p}
  /\ cause' = [cause EXCEPT ![p] = IF @ = "none" THEN why ELSE @]
  /\ mcpHandles' = [mcpHandles EXCEPT ![p] = {}]
  /\ UNCHANGED <<port, initializing, running, crashes, ownership,
                 requests, mcpSockets, work, frontends>>

\* Variants: counted are the sessions that are served already; the timer is
\* only started with the runtime.
IsIdleBug(p) == mcpHandles[p] = {} /\ p \notin maxClients /\ pending[p] = {}
IsIdleReadyBug(p) ==
  /\ state[p] = "ready"
  /\ mcpSockets[p] = {} /\ p \notin maxClients /\ pending[p] = {}

\* The three counts of checkIdle, of which the last two need the runtime.
IsIdle(p) == mcpSockets[p] = {} /\ p \notin maxClients /\ pending[p] = {}

\* The timer finds that nothing was counted for idleTimeoutMs, which may be 0.
IdlesOut(p) == IsIdle(p) /\ Closes(p, "idle")

\* The answer to a stop is flushed.
StopAnswered(p) == p \in stopping /\ Closes(p, "stop")

\* SIGINT, SIGTERM
Signalled(p) == Closes(p, "signal")

CloseStep ==
  UNCHANGED <<state, port, initializing, stopping, cause, crashes>>

\* The handles are closed: every accepted socket is destroyed.  Connections
\* that wait in the backlog of the listening socket are not.
ClosesSockets(p) ==
  /\ at[p] = "closingHandles"
  /\ Moves(p, "awaitingStart")
  /\ \E backlog \in SUBSET requests[p] :
       /\ requests' = [requests EXCEPT ![p] = backlog]
       /\ Cuts(ConnectedTo(p) \ backlog)
  /\ mcpSockets' = [mcpSockets EXCEPT ![p] = {}]
  /\ mcpHandles' = [mcpHandles EXCEPT ![p] = {}]
  /\ UNCHANGED <<running, ownership, work>>
  /\ CloseStep

\* Variant: a start that is not finished is not awaited.
ClosesRuntimeEarlyBug(p) ==
  /\ at[p] = "awaitingStart"
  /\ Moves(p, "closingRuntime")
  /\ maxClients' = maxClients \ {p}
  /\ calls' = [calls EXCEPT ![p] = {}]
  /\ pending' = [pending EXCEPT ![p] = {}]
  /\ UNCHANGED <<running, ownership, sessions, frontends>>
  /\ CloseStep

\* runtime.close: pending requests are rejected, Max clients terminated.  The
\* history lease is released when the WebSocket port is, and p works on the
\* project until then.
ClosesRuntime(p) ==
  /\ at[p] = "awaitingStart"
  /\ p \notin initializing
  /\ Moves(p, "closingRuntime")
  /\ maxClients' = maxClients \ {p}
  /\ calls' = [calls EXCEPT ![p] = {}]
  /\ pending' = [pending EXCEPT ![p] = {}]
  /\ UNCHANGED <<running, ownership, sessions, frontends>>
  /\ CloseStep

\* Variant: the file is left for the next broker to recover.
ReleasedBug(p) == ownerLease

\* What ProcessLease.release leaves: the file goes if the token in it is p's.
Released(p) == IF p \in leased /\ ownerLease = p THEN NoFile ELSE ownerLease

\* When the file cannot be read or removed the error is kept for the end of
\* close(), which goes on: the token is gone and the file stays.
ReleasesLease(p) ==
  /\ at[p] = "closingRuntime"
  /\ Moves(p, "closingOwner")
  /\ running' = running \ {p}
  /\ \/ /\ ownerLease' = Released(p)
        /\ UNCHANGED unremoved
     \/ /\ p \in leased
        /\ RemovalFails(p)
        /\ UNCHANGED ownerLease
  /\ leased' = leased \ {p}
  /\ UNCHANGED <<controlOwner, ownerPort, existing, sessions, work, frontends>>
  /\ CloseStep

\* The ports nobody listens on any more when p does not.
WithoutOwner(p) == IF ownerPort = p THEN Nobody ELSE ownerPort
WithoutControl(p) == [q \in Port |-> IF controlOwner[q] = p THEN Nobody ELSE controlOwner[q]]

ClosesOwner(p) ==
  /\ at[p] = "closingOwner"
  /\ Moves(p, "closingControl")
  /\ ownerPort' = WithoutOwner(p)
  /\ UNCHANGED <<running, controlOwner, ownerLease, unremoved, leased, existing,
                 sessions, work, frontends>>
  /\ CloseStep

\* The backlog of the listening socket is reset.
ClosesControl(p) ==
  /\ at[p] = "closingControl"
  /\ Moves(p, "lingering")
  /\ controlOwner' = WithoutControl(p)
  /\ \E backlog \in SUBSET requests[p] :
       /\ requests' = [requests EXCEPT ![p] = @ \ backlog]
       /\ Cuts(backlog \cap ConnectedTo(p))
  /\ UNCHANGED <<running, ownerPort, ownerLease, unremoved, leased, existing,
                 mcpSockets, mcpHandles, work>>
  /\ CloseStep

\* server.close waits for the connections that were accepted meanwhile.
Exits(p) ==
  /\ at[p] = "lingering"
  /\ ConnectedTo(p) = {}
  /\ Moves(p, "gone")
  /\ requests' = [requests EXCEPT ![p] = {}]
  /\ UNCHANGED <<running, ownership, mcpSockets, mcpHandles, work, frontends>>
  /\ CloseStep

\* The process dies.  Only the lease file stays.
Crashes(p) ==
  /\ crashes < MaxCrashes
  /\ at[p] \notin {"unborn", "gone"}
  /\ Moves(p, "gone")
  /\ crashes' = crashes + 1
  /\ cause' = [cause EXCEPT ![p] = "crash"]
  /\ initializing' = initializing \ {p}
  /\ running' = running \ {p}
  /\ stopping' = stopping \ {p}
  /\ leased' = leased \ {p}
  /\ existing' = [existing EXCEPT ![p] = Nobody]
  /\ controlOwner' = WithoutControl(p)
  /\ ownerPort' = WithoutOwner(p)
  /\ requests' = [requests EXCEPT ![p] = {}]
  /\ mcpSockets' = [mcpSockets EXCEPT ![p] = {}]
  /\ mcpHandles' = [mcpHandles EXCEPT ![p] = {}]
  /\ maxClients' = maxClients \ {p}
  /\ calls' = [calls EXCEPT ![p] = {}]
  /\ pending' = [pending EXCEPT ![p] = {}]
  /\ Cuts(ConnectedTo(p))
  /\ UNCHANGED <<state, port, ownerLease, unremoved>>

-----------------------------------------------------------------------------

Starting(p) ==
  BindsControl(p) \/ BindsOwner(p) \/ ReadsLease(p) \/ AccessFails(p)
    \/ ChecksLease(p) \/ RenamesLease(p) \/ CreatesLease(p) \/ WritesLease(p)

Ending(p) ==
  ClosesSockets(p) \/ ClosesRuntime(p) \/ ReleasesLease(p) \/ ClosesOwner(p)
    \/ ClosesControl(p) \/ Exits(p)

Session(p, f) ==
  HandlesMcp(p, f) \/ ServesSession(p, f) \/ SocketCloses(p, f)
    \/ CallsTool(p, f) \/ AsksMax(p, f) \/ MaxAnswers(p, f) \/ Returns(p, f)

FrontendStep(f) ==
  Opens(f) \/ Connects(f) \/ Spawns(f) \/ GivesUp(f) \/ HandshakeTimesOut(f) \/ Leaves(f)

Broker(p) ==
  \/ Starting(p) \/ InitializationSettles(p)
  \/ MaxConnects(p) \/ MaxDisconnects(p)
  \/ \E force \in BOOLEAN : Stops(p, force)
  \/ IdlesOut(p) \/ StopAnswered(p) \/ Signalled(p)
  \/ Ending(p) \/ Crashes(p)

Next ==
  \/ \E q \in Port : CliStarts(q)
  \/ \E f \in Frontend : FrontendStep(f)
  \/ \E p \in Process : Broker(p)
  \/ \E p \in Process, f \in Frontend : Session(p, f)

Spec == Init /\ [][Next]_vars

\* A process runs: what it awaits settles, its timer fires, and what arrived
\* is handled.  People, hosts, Max, signals and crashes promise nothing.
Fairness ==
  \A p \in Process :
    /\ WF_vars(Starting(p))
    /\ WF_vars(InitializationSettles(p))
    /\ WF_vars(IdlesOut(p))
    /\ WF_vars(StopAnswered(p))
    /\ WF_vars(Ending(p))
    /\ \A f \in Frontend : WF_vars(HandlesMcp(p, f)) /\ WF_vars(SocketCloses(p, f))

FairSpec == Spec /\ Fairness

-----------------------------------------------------------------------------
(* What the owner port and the lease achieve. *)

\* A process that may touch the state file, the history or Max.
Writes(p) == p \in initializing \/ p \in running
Writers == {p \in Process : Writes(p)}

\* Brokers of one project, started on whatever control ports and after
\* whatever crashes, work on the project one after the other: the runtime of
\* one is closed before that of another is created (broker.ts start and
\* closeInternal).
Project == INSTANCE ProjectWriter WITH writers <- Writers
WritesOneByOne == Project!Spec

\* While a broker has a runtime the lease file names it: nobody else's
\* recovery of a dead owner's lease has moved it away, which the file accesses
\* alone would allow (process-lease.ts quarantineDeadOwner).
LeaseNamesWriter == \A p \in Process : Writes(p) => ownerLease = p

\* close() gives the control port up last, so that a broker that could bind it
\* finds the owner port taken only by a broker with another control port.
OwnershipIsHandedOver ==
  \A p \in Process :
    at[p] = "bound" /\ ownerPort # Nobody => port[ownerPort] # port[p]

\* A lease file that no broker answers for is what a crash left, or a broker
\* that was told of the failure of its removal: every other end of a broker,
\* also of one whose start failed, removes what it created.  So no broker that
\* has the owner port is refused its start for the lease of another one that
\* lives, unless that one failed to remove it (process-lease.ts acquire,
\* createLease, release; broker.ts closeInternal).
OnlyFaultsLeaveALease ==
  /\ ownerLease = Garbled =>
       crashes > 0 \/ unremoved # {} \/ \E p \in Process : at[p] = "writing"
  /\ \A p \in Process :
       ownerLease = p => p \in leased \/ cause[p] = "crash" \/ p \in unremoved
  /\ \A p, q \in Process :
       at[p] = "reading" /\ ownerLease = q /\ at[q] # "gone" => q \in unremoved

(* What the counts of sessions, Max clients and operations achieve. *)

\* An idle timeout or a stop without --force never ends a session: not one
\* that attaches while the broker decides, nor one whose answer is still being
\* written.
SessionsAreServed ==
  [][\A f \in Frontend :
       phase[f] = "attached" /\ phase'[f] = "cut" =>
         cause'[socket[f]] \in {"forced", "signal", "crash"}]_vars

\* A stop, forced or not, never interrupts an operation that Max works on.
StopsInterruptNothing ==
  [][\A p \in Process :
       at[p] = "awaitingStart" /\ at'[p] = "closingRuntime" /\ pending[p] # {} =>
         cause[p] \notin {"stop", "forced"}]_vars

\* Every broker that starts to close comes to its end, and with it gives up
\* both ports and the lease, whoever connects meanwhile.
ClosingEnds == \A p \in Process : at[p] \in Closing ~> at[p] = "gone"

\* Nobody has a session with p, and Max neither.
Unused(p) ==
  /\ at[p] = "serving"
  /\ \A f \in ConnectedTo(p) : phase[f] # "attached"
  /\ p \notin maxClients

\* A broker, failed ones included, does not stay for ever without a session
\* and without Max ...
UnusedBrokersStop == \A p \in Process : []<>~Unused(p)

\* ... at least if no frontend gave its handshake up.
IdleBrokersStop ==
  \A p \in Process :
    []<>~(Unused(p) /\ \A f \in ConnectedTo(p) : phase[f] # "diagnostic")
=============================================================================

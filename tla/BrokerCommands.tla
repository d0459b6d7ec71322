--------------------------- MODULE BrokerCommands ---------------------------
(***************************************************************************)
(* `maxforge broker restart` and `broker start` beside everything that     *)
(* BrokerLifecycle does: a stop that is refused, accepted or lost, polls   *)
(* until nobody listens on the control port any more, a new process, and   *)
(* polls until that is ready.  Other commands and the frontends go on in   *)
(* between; a stop that is handled when its command has given up is        *)
(* BrokerLifecycle's Stops.                                                *)
(*                                                                         *)
(* A poll connects, asks and closes: it changes nothing at the broker, and *)
(* is one step.                                                            *)
(***************************************************************************)
EXTENDS BrokerLifecycle

CONSTANT CommandPort      \* the control port in the settings of the commands

\* One command after another: what it does next, and the process that
\* listened when it asked for a stop.
VARIABLE command

commandVars == <<vars, command>>

ASSUME CommandAssumption == CommandPort \in Port

CommandStep == {"idle", "poll", "spawn", "settle"}

CommandTypeOK ==
  /\ TypeOK
  /\ command \in [step : CommandStep, old : Process \cup {Nobody}]

NoCommand == [step |-> "idle", old |-> Nobody]

CommandInit == Init /\ command = NoCommand

Listener == controlOwner[CommandPort]

Proceeds(step) ==
  /\ command' = [command EXCEPT !.step = step]
  /\ UNCHANGED vars

\* It reports what it found, or an error, and exits.
Ends == command' = NoCommand /\ UNCHANGED vars

-----------------------------------------------------------------------------

\* ECONNREFUSED
Refused == Listener = Nobody

\* Variant: a connection that is reset counts as one that is refused.
NobodyListensBug == Refused \/ at[Listener] \in Closing

\* What a poll takes for the end of the process.
NobodyListens == Refused

-----------------------------------------------------------------------------

\* brokerCommand: a start asks for the status, a restart for a stop.  Either
\* goes on with a new process if nobody listens.
FindsNobody ==
  /\ command.step = "idle"
  /\ Refused
  /\ Proceeds("spawn")

AsksListener ==
  /\ command.step = "idle"
  /\ ~Refused
  /\ command' = [step |-> "poll", old |-> Listener]

\* The broker accepts the stop, with or without --force.  (If it is refused as
\* BUSY, or not answered in a second, the command ends.)
StopAccepted ==
  /\ AsksListener
  /\ \E force \in BOOLEAN : Stops(Listener, force)

\* A broker that closes already accepts it as well, and one that has destroyed
\* its sockets resets the connection, which restart takes alike.  (If it dies
\* first, the next poll is FindsNobody.)
StopChangesNothing ==
  /\ AsksListener
  /\ at[Listener] \in Closing
  /\ UNCHANGED vars

\* waitForBrokerStopped
FindsItStopped ==
  /\ command.step = "poll"
  /\ NobodyListens
  /\ Proceeds("spawn")

\* A poll is closed without an answer, none comes within a second, or what is
\* awaited does not come within five.
TimesOut ==
  /\ command.step \in {"poll", "settle"}
  /\ Ends

\* spawnBroker
SpawnsNew ==
  /\ command.step = "spawn"
  /\ CliStarts(CommandPort)
  /\ command' = [step |-> "settle", old |-> Nobody]

\* waitForBrokerReady
FindsItSettled ==
  /\ command.step = "settle"
  /\ ~Refused
  /\ at[Listener] \in Awaiting
  /\ state[Listener] \in {"ready", "failed"}
  /\ Ends

CommandStepOf ==
  \/ FindsNobody \/ StopAccepted \/ StopChangesNothing
  \/ FindsItStopped \/ TimesOut \/ SpawnsNew \/ FindsItSettled

CommandNext ==
  \/ Next /\ UNCHANGED command
  \/ CommandStepOf

CommandSpec == CommandInit /\ [][CommandNext]_commandVars

-----------------------------------------------------------------------------

\* When `broker restart` starts the new process, the one that it asked to stop
\* has done all that it will do: its runtime is closed and it holds neither
\* port nor, unless it crashed or failed to remove it, the lease.  The command
\* line learns of that end from one refused connection only (cli/index.ts
\* waitForBrokerStopped), so it rests on the order of broker.ts closeInternal.
RestartWaits ==
  LET p == command.old
  IN  command.step = "spawn" /\ p # Nobody =>
        /\ at[p] \in {"lingering", "gone"}
        /\ ~Writes(p)
        /\ ownerPort # p
        /\ \A q \in Port : controlOwner[q] # p
        /\ ownerLease = p => cause[p] = "crash" \/ p \in unremoved
=============================================================================

---------------------------- MODULE BrokerProofs ----------------------------
(* Proofs about BrokerLifecycle, for any processes, frontends and ports, and,  *)
(* at the end, about the commands beside it.                                   *)
EXTENDS BrokerCommands, TLAPS

(***************************************************************************)
(* The inductive invariant.  Everything rests on the owner port: only the  *)
(* process that listens on it touches the lease file or has a runtime, and *)
(* it listens from before the first to after the last of these.            *)
(***************************************************************************)

\* From the written lease to the released one, unless the start failed.
Working == {"serving", "closingHandles", "awaitingStart", "closingRuntime"}

OwnerStages == Leasing \cup Working \cup {"closingOwner"}
ControlStages == OwnerStages \cup {"bound", "closingControl"}

StageInv ==
  \A p \in Process :
    /\ Writes(p) => p \in leased
    /\ p \in leased => at[p] \in Working
    /\ at[p] = "closingRuntime" => p \notin initializing \cup maxClients

OwnerInv ==
  \A p \in Process :
    /\ at[p] \in Leasing \/ p \in leased => ownerPort = p
    /\ ownerPort = p => at[p] \in OwnerStages
    /\ at[p] \in ControlStages => controlOwner[port[p]] = p

\* A file without a record is being written, or will stay.
GarbledInv ==
  ownerLease = Garbled =>
    crashes > 0 \/ unremoved # {} \/ \E p \in Process : at[p] = "writing"

LeaseInv ==
  /\ \A p \in Process : p \in leased => ownerLease = p
  /\ \A p \in Process : at[p] = "writing" => ownerLease = Garbled
  /\ GarbledInv

Held == StageInv /\ OwnerInv /\ LeaseInv

BrokerInv == TypeOK /\ Held

(***************************************************************************)
(* Types.                                                                  *)
(***************************************************************************)

LEMMA CutsTyped ==
  ASSUME TypeOK, NEW gone \in SUBSET Frontend, Cuts(gone)
  PROVE  /\ phase' \in [Frontend -> Phase]
         /\ socket' \in [Frontend -> Process \cup {Nobody}]
         /\ spawned' \subseteq Frontend
BY DEF Cuts, Lost, TypeOK, Phase

LEMMA WithoutTyped ==
  ASSUME TypeOK, NEW p \in Process
  PROVE  /\ WithoutOwner(p) \in Process \cup {Nobody}
         /\ WithoutControl(p) \in [Port -> Process \cup {Nobody}]
         /\ Released(p) \in Process \cup {NoFile, Garbled}
BY DEF TypeOK, WithoutOwner, WithoutControl, Released

LEMMA ConnectsToProcess ==
  ASSUME TypeOK, NEW f \in Frontend, Connects(f)
  PROVE  controlOwner[PortOf[f]] \in Process
BY BrokerAssumption DEF Connects, TypeOK

LEMMA FrontendsTyped ==
  ASSUME TypeOK, NEW f \in Frontend, FrontendStep(f)
  PROVE  TypeOK'
<1>1. CASE Opens(f)
  BY <1>1 DEF Opens, TypeOK, Phase, life, ownership, sessions, work
<1>2. CASE Connects(f)
  <2>1. controlOwner[PortOf[f]] \in Process
    BY <1>2, ConnectsToProcess
  <2>2. requests' \in [Process -> SUBSET Frontend]
    BY <1>2, <2>1 DEF Connects, TypeOK
  <2> QED
    BY <1>2, <2>1, <2>2 DEF Connects, TypeOK, Phase, life, ownership, work
<1>3. CASE Spawns(f)
  BY <1>3, BrokerAssumption DEF Spawns, Born, TypeOK, Stage, ownership, sessions, work
<1>4. CASE GivesUp(f)
  BY <1>4 DEF GivesUp, TypeOK, Phase, life, ownership, sessions, work
<1>5. CASE HandshakeTimesOut(f)
  BY <1>5 DEF HandshakeTimesOut, TypeOK, Phase, life, ownership, sessions, work
<1>6. CASE Leaves(f)
  BY <1>6 DEF Leaves, TypeOK, Phase, life, ownership, sessions, work
<1> QED
  BY <1>1, <1>2, <1>3, <1>4, <1>5, <1>6 DEF FrontendStep

LEMMA StartTyped ==
  ASSUME TypeOK, StageInv, NEW p \in Process, Starting(p)
  PROVE  TypeOK'
<1> USE DEF Starting, StartFails, Moves, TypeOK, Stage, Leasing, LeaseStep, sessions, work,
            frontends
<1>1. CASE BindsControl(p)
  BY <1>1 DEF BindsControl
<1>2. CASE BindsOwner(p)
  BY <1>2 DEF BindsOwner
<1>3. CASE ReadsLease(p)
  BY <1>3 DEF ReadsLease
<1>4. CASE ChecksLease(p)
  BY <1>4 DEF ChecksLease
<1>5. CASE RenamesLease(p)
  BY <1>5 DEF RenamesLease
<1>6. CASE CreatesLease(p)
  BY <1>6 DEF CreatesLease
<1>7. CASE WritesLease(p)
  BY <1>7 DEF WritesLease, RemovalFails, Recorded, StageInv, Writes, Working
<1>8. CASE AccessFails(p)
  BY <1>8 DEF AccessFails
<1> QED
  BY <1>1, <1>2, <1>3, <1>4, <1>5, <1>6, <1>7, <1>8

LEMMA SessionTyped ==
  ASSUME TypeOK, NEW p \in Process, NEW f \in Frontend, Session(p, f)
  PROVE  TypeOK'
<1> USE DEF TypeOK, life, ownership, sessions, work, frontends
<1>1. CASE HandlesMcp(p, f)
  BY <1>1 DEF HandlesMcp, Attaches, Refuses, Phase
<1>2. CASE ServesSession(p, f)
  BY <1>2 DEF ServesSession
<1>3. CASE SocketCloses(p, f)
  BY <1>3 DEF SocketCloses
<1>4. CASE CallsTool(p, f)
  BY <1>4 DEF CallsTool
<1>5. CASE AsksMax(p, f)
  BY <1>5 DEF AsksMax
<1>6. CASE MaxAnswers(p, f)
  BY <1>6 DEF MaxAnswers
<1>7. CASE Returns(p, f)
  BY <1>7 DEF Returns
<1> QED
  BY <1>1, <1>2, <1>3, <1>4, <1>5, <1>6, <1>7 DEF Session

LEMMA EndTyped ==
  ASSUME TypeOK, StageInv, NEW p \in Process, Ending(p)
  PROVE  TypeOK'
<1> USE DEF TypeOK, Moves, Stage, Closing, CloseStep, ownership, sessions, work, frontends
<1>1. CASE ClosesSockets(p)
  <2>1. PICK backlog \in SUBSET requests[p] :
          /\ requests' = [requests EXCEPT ![p] = backlog]
          /\ Cuts(ConnectedTo(p) \ backlog)
    BY <1>1 DEF ClosesSockets
  <2>2. /\ phase' \in [Frontend -> Phase]
        /\ socket' \in [Frontend -> Process \cup {Nobody}]
        /\ spawned' \subseteq Frontend
    BY <2>1, CutsTyped DEF ConnectedTo
  <2>3. requests' \in [Process -> SUBSET Frontend]
    BY <2>1
  <2> QED
    BY <1>1, <2>2, <2>3 DEF ClosesSockets
<1>2. CASE ClosesRuntime(p)
  BY <1>2 DEF ClosesRuntime
<1>3. CASE ReleasesLease(p)
  BY <1>3, WithoutTyped DEF ReleasesLease, RemovalFails, StageInv
<1>4. CASE ClosesOwner(p)
  BY <1>4, WithoutTyped DEF ClosesOwner
<1>5. CASE ClosesControl(p)
  <2>1. PICK backlog \in SUBSET requests[p] :
          /\ requests' = [requests EXCEPT ![p] = @ \ backlog]
          /\ Cuts(backlog \cap ConnectedTo(p))
    BY <1>5 DEF ClosesControl
  <2>2. /\ phase' \in [Frontend -> Phase]
        /\ socket' \in [Frontend -> Process \cup {Nobody}]
        /\ spawned' \subseteq Frontend
    BY <2>1, CutsTyped DEF ConnectedTo
  <2>3. requests' \in [Process -> SUBSET Frontend]
    BY <2>1
  <2> QED
    BY <1>5, <2>2, <2>3, WithoutTyped DEF ClosesControl
<1>6. CASE Exits(p)
  BY <1>6 DEF Exits
<1> QED
  BY <1>1, <1>2, <1>3, <1>4, <1>5, <1>6 DEF Ending

LEMMA BrokerTyped ==
  ASSUME TypeOK, StageInv, NEW p \in Process, Broker(p)
  PROVE  TypeOK'
<1>1. CASE Starting(p)
  BY <1>1, StartTyped
<1>2. CASE InitializationSettles(p)
  BY <1>2 DEF InitializationSettles, TypeOK, ownership, sessions, work, frontends
<1>3. CASE MaxConnects(p) \/ MaxDisconnects(p)
  BY <1>3 DEF MaxConnects, MaxDisconnects, TypeOK, life, ownership, sessions, frontends
<1>4. ASSUME NEW force \in BOOLEAN, Stops(p, force)
      PROVE  TypeOK'
  BY <1>4 DEF Stops, TypeOK, ownership, sessions, work, frontends
<1>5. CASE IdlesOut(p) \/ StopAnswered(p) \/ Signalled(p)
  <2>1. PICK why \in {"idle", "stop", "signal"} : Closes(p, why)
    BY <1>5 DEF IdlesOut, StopAnswered, Signalled
  <2> QED
    BY <2>1 DEF Closes, Moves, TypeOK, Stage, Closing, ownership, work, frontends
<1>6. CASE Ending(p)
  BY <1>6, EndTyped
<1>7. CASE Crashes(p)
  <2>1. /\ phase' \in [Frontend -> Phase]
        /\ socket' \in [Frontend -> Process \cup {Nobody}]
        /\ spawned' \subseteq Frontend
    BY <1>7, CutsTyped DEF Crashes, ConnectedTo
  <2>2. crashes' \in 0 .. MaxCrashes
    BY <1>7, BrokerAssumption DEF Crashes, TypeOK
  <2> QED
    BY <1>7, <2>1, <2>2, WithoutTyped DEF Crashes, Moves, TypeOK, Stage
<1> QED
  BY <1>1, <1>2, <1>3, <1>4, <1>5, <1>6, <1>7 DEF Broker

LEMMA NextTyped ==
  ASSUME TypeOK, StageInv, [Next]_vars
  PROVE  TypeOK'
<1>1. ASSUME NEW q \in Port, CliStarts(q)
      PROVE  TypeOK'
  BY <1>1 DEF CliStarts, Born, TypeOK, Stage, ownership, sessions, work, frontends
<1>2. CASE UNCHANGED vars
  BY <1>2 DEF TypeOK, vars, life, ownership, sessions, work, frontends
<1> QED
  BY <1>1, <1>2, FrontendsTyped, BrokerTyped, SessionTyped DEF Next

(***************************************************************************)
(* The owner port and the lease.                                           *)
(***************************************************************************)

core == <<at, port, initializing, running, leased, crashes, controlOwner, ownerPort, ownerLease,
          unremoved>>

\* Most steps leave ownership alone.
LEMMA QuietHeld ==
  ASSUME Held, UNCHANGED core,
         \A p \in Process : p \in maxClients' => p \in maxClients \/ at[p] # "closingRuntime"
  PROVE  Held'
BY DEF Held, StageInv, OwnerInv, LeaseInv, GarbledInv, Writes, core

LEMMA FrontendsHeld ==
  ASSUME TypeOK, Held, NEW f \in Frontend, FrontendStep(f)
  PROVE  Held'
<1>1. CASE Spawns(f)
  BY <1>1, BrokerAssumption DEF Spawns, Born, TypeOK, Held, StageInv, OwnerInv, LeaseInv,
       GarbledInv, Writes, Leasing, Working, OwnerStages, ControlStages,
       ownership, work
<1>2. CASE ~Spawns(f)
  <2>1. UNCHANGED core /\ UNCHANGED maxClients
    BY <1>2 DEF FrontendStep, Opens, Connects, GivesUp, HandshakeTimesOut, Leaves,
         core, life, ownership, work
  <2> QED
    BY <2>1, QuietHeld
<1> QED
  BY <1>1, <1>2

LEMMA SessionHeld ==
  ASSUME Held, NEW p \in Process, NEW f \in Frontend, Session(p, f)
  PROVE  Held'
<1>1. UNCHANGED core /\ UNCHANGED maxClients
  BY DEF Session, HandlesMcp, ServesSession, SocketCloses, CallsTool, AsksMax, MaxAnswers,
       Returns, core, life, ownership, work
<1> QED
  BY <1>1, QuietHeld

\* Only the holder of the owner port is past it.
LEMMA StartHeld ==
  ASSUME TypeOK, Held, NEW p \in Process, Starting(p)
  PROVE  Held'
<1> USE DEF TypeOK, Moves, StartFails, LeaseStep, Held, StageInv, OwnerInv, LeaseInv,
            GarbledInv, Writes, Leasing, Working, OwnerStages, ControlStages, work
<1>1. CASE BindsControl(p)
  BY <1>1, BrokerAssumption DEF BindsControl
<1>2. CASE BindsOwner(p)
  BY <1>2, BrokerAssumption DEF BindsOwner
<1>3. CASE ReadsLease(p)
  BY <1>3 DEF ReadsLease
<1>4. CASE ChecksLease(p)
  BY <1>4 DEF ChecksLease
<1>5. CASE RenamesLease(p)
  BY <1>5, BrokerAssumption DEF RenamesLease
<1>6. CASE CreatesLease(p)
  BY <1>6, BrokerAssumption DEF CreatesLease
<1>7. CASE WritesLease(p)
  <2>1. /\ \A r \in Process \ {p} : r \notin leased /\ at[r] \notin Leasing
        /\ ownerLease = Garbled /\ Recorded(p) = p
    BY <1>7 DEF WritesLease, Recorded
  <2>2. CASE leased' = leased
    <3>1. /\ at' = [at EXCEPT ![p] = "serving"] /\ initializing' = initializing
          /\ ownerLease' = NoFile \/ unremoved' # {}
      BY <1>7, <2>2, <2>1 DEF WritesLease, RemovalFails
    <3>2. UNCHANGED <<port, running, crashes, controlOwner, ownerPort, maxClients>>
      BY <1>7 DEF WritesLease
    <3> QED
      BY <1>7, <2>1, <2>2, <3>1, <3>2, BrokerAssumption DEF WritesLease
  <2>3. CASE leased' # leased
    BY <1>7, <2>1, <2>3, BrokerAssumption DEF WritesLease
  <2> QED
    BY <2>2, <2>3
<1>8. CASE AccessFails(p)
  BY <1>8 DEF AccessFails
<1> QED
  BY <1>1, <1>2, <1>3, <1>4, <1>5, <1>6, <1>7, <1>8 DEF Starting

LEMMA EndHeld ==
  ASSUME TypeOK, Held, NEW p \in Process, Ending(p)
  PROVE  Held'
<1> USE DEF TypeOK, Moves, CloseStep, Held, StageInv, OwnerInv, LeaseInv,
            GarbledInv, Writes, Leasing, Working, OwnerStages, ControlStages
<1>1. CASE ClosesSockets(p)
  BY <1>1 DEF ClosesSockets, ownership, work
<1>2. CASE ClosesRuntime(p)
  BY <1>2 DEF ClosesRuntime, ownership
<1>3. CASE ReleasesLease(p)
  BY <1>3, BrokerAssumption DEF ReleasesLease, RemovalFails, Released, work
<1>4. CASE ClosesOwner(p)
  BY <1>4, BrokerAssumption DEF ClosesOwner, WithoutOwner, work
<1>5. CASE ClosesControl(p)
  BY <1>5, BrokerAssumption DEF ClosesControl, WithoutControl, work
<1>6. CASE Exits(p)
  BY <1>6 DEF Exits, ownership, work
<1> QED
  BY <1>1, <1>2, <1>3, <1>4, <1>5, <1>6 DEF Ending

LEMMA BrokerHeld ==
  ASSUME TypeOK, Held, NEW p \in Process, Broker(p)
  PROVE  Held'
<1>1. CASE Starting(p)
  BY <1>1, StartHeld
<1>2. CASE InitializationSettles(p)
  BY <1>2 DEF InitializationSettles, TypeOK, Held, StageInv, OwnerInv, LeaseInv,
       GarbledInv, Writes, ownership, work
<1>3. CASE MaxConnects(p) \/ MaxDisconnects(p)
  <2>1. UNCHANGED core
    BY <1>3 DEF MaxConnects, MaxDisconnects, core, life, ownership
  <2>2. \A r \in Process : r \in maxClients' => r \in maxClients \/ at[r] # "closingRuntime"
    BY <1>3 DEF MaxConnects, MaxDisconnects
  <2> QED
    BY <2>1, <2>2, QuietHeld
<1>4. ASSUME NEW force \in BOOLEAN, Stops(p, force)
      PROVE  Held'
  <2>1. UNCHANGED core /\ UNCHANGED maxClients
    BY <1>4 DEF Stops, core, ownership, work
  <2> QED
    BY <2>1, QuietHeld
<1>5. CASE IdlesOut(p) \/ StopAnswered(p) \/ Signalled(p)
  <2>1. PICK why \in {"idle", "stop", "signal"} : Closes(p, why)
    BY <1>5 DEF IdlesOut, StopAnswered, Signalled
  <2> QED
    BY <2>1 DEF Closes, Moves, TypeOK, Held, StageInv, OwnerInv, LeaseInv,
         GarbledInv, Writes, Leasing, Working, OwnerStages, ControlStages,
         ownership, work
<1>6. CASE Ending(p)
  BY <1>6, EndHeld
<1>7. CASE Crashes(p)
  <2>1. crashes' > 0
    BY <1>7, BrokerAssumption DEF Crashes, TypeOK
  <2>2. StageInv'
    BY <1>7 DEF Crashes, Moves, TypeOK, Held, StageInv, Writes, Working
  <2>3. OwnerInv'
    BY <1>7, BrokerAssumption DEF Crashes, Moves, TypeOK, Held, OwnerInv, WithoutOwner,
         WithoutControl, Leasing, Working, OwnerStages, ControlStages
  <2>4. LeaseInv'
    BY <1>7, <2>1 DEF Crashes, Moves, TypeOK, Held, LeaseInv, GarbledInv
  <2> QED
    BY <2>2, <2>3, <2>4 DEF Held
<1> QED
  BY <1>1, <1>2, <1>3, <1>4, <1>5, <1>6, <1>7 DEF Broker

LEMMA NextHeld ==
  ASSUME TypeOK, Held, [Next]_vars
  PROVE  Held'
<1>1. ASSUME NEW q \in Port, CliStarts(q)
      PROVE  Held'
  BY <1>1, BrokerAssumption DEF CliStarts, Born, TypeOK, Held, StageInv, OwnerInv, LeaseInv,
       GarbledInv, Writes, Leasing, Working, OwnerStages, ControlStages,
       ownership, work
<1>2. CASE UNCHANGED vars
  <2>1. UNCHANGED core /\ UNCHANGED maxClients
    BY <1>2 DEF vars, life, ownership, work, core
  <2> QED
    BY <2>1, QuietHeld
<1> QED
  BY <1>1, <1>2, FrontendsHeld, BrokerHeld, SessionHeld DEF Next

LEMMA InitHeld == Init => BrokerInv
<1>1. Init => TypeOK
  BY BrokerAssumption DEF Init, AtRest, TypeOK, Stage, Phase
<1>2. Init => Held
  BY BrokerAssumption DEF Init, AtRest, Held, StageInv, OwnerInv, LeaseInv,
       GarbledInv, Writes, Leasing, Working, OwnerStages, ControlStages
<1> QED
  BY <1>1, <1>2 DEF BrokerInv

\* The inductive invariant holds: types, and the owner port as the one thing
\* that all of start and close is ordered by.
THEOREM BrokerInvHolds == Spec => []BrokerInv
<1>1. BrokerInv /\ [Next]_vars => BrokerInv'
  BY NextTyped, NextHeld DEF BrokerInv, Held
<1> QED
  BY InitHeld, <1>1, PTL DEF Spec

\* Every variable of the brokers, sessions and frontends keeps its type, and
\* handles, Max clients and operations those they belong to.
THEOREM TypesHold == Spec => []TypeOK
<1>1. BrokerInv => TypeOK
  BY DEF BrokerInv
<1> QED
  BY BrokerInvHolds, <1>1, PTL

\* The lease file of a broker with a runtime is its own.
THEOREM LeaseHolds == Spec => []LeaseNamesWriter
<1>1. BrokerInv => LeaseNamesWriter
  BY DEF BrokerInv, Held, StageInv, LeaseInv, LeaseNamesWriter
<1> QED
  BY BrokerInvHolds, <1>1, PTL

\* Who could bind the control port is not refused the owner port by the broker
\* that closed it.
THEOREM HandoverHolds == Spec => []OwnershipIsHandedOver
<1>1. BrokerInv => OwnershipIsHandedOver
  <2>1. SUFFICES ASSUME BrokerInv, NEW p \in Process, at[p] = "bound", ownerPort # Nobody,
                        port[ownerPort] = port[p]
                 PROVE  FALSE
    BY DEF OwnershipIsHandedOver
  <2>2. ownerPort \in Process /\ at[ownerPort] \in OwnerStages
    BY <2>1 DEF BrokerInv, TypeOK, Held, OwnerInv
  <2>3. ownerPort = p
    BY <2>1, <2>2 DEF BrokerInv, Held, OwnerInv, ControlStages
  <2> QED
    BY <2>1, <2>2, <2>3 DEF OwnerStages, Leasing, Working
<1> QED
  BY BrokerInvHolds, <1>1, PTL

(***************************************************************************)
(* The brokers implement ProjectWriter.                                    *)
(***************************************************************************)

LEMMA OneWrites ==
  ASSUME BrokerInv, NEW p \in Process, NEW r \in Process, Writes(p), Writes(r)
  PROVE  p = r
BY DEF BrokerInv, Held, StageInv, OwnerInv

\* A step is a step of one process, or of none.
LEMMA OneMoves ==
  ASSUME [Next]_vars
  PROVE  \/ UNCHANGED <<initializing, running>>
         \/ \E p \in Process : \A r \in Process \ {p} : Writes(r)' <=> Writes(r)
<1>1. ASSUME NEW q \in Port, CliStarts(q)
      PROVE  UNCHANGED <<initializing, running>>
  BY <1>1 DEF CliStarts, Born
<1>2. ASSUME NEW f \in Frontend, FrontendStep(f)
      PROVE  UNCHANGED <<initializing, running>>
  BY <1>2 DEF FrontendStep, Opens, Connects, Spawns, Born, GivesUp, HandshakeTimesOut,
       Leaves, life
<1>3. ASSUME NEW p \in Process, NEW f \in Frontend, Session(p, f)
      PROVE  UNCHANGED <<initializing, running>>
  BY <1>3 DEF Session, HandlesMcp, ServesSession, SocketCloses, CallsTool, AsksMax,
       MaxAnswers, Returns, life
<1>4. ASSUME NEW p \in Process, Broker(p)
      PROVE  \A r \in Process \ {p} : Writes(r)' <=> Writes(r)
  <2>1. CASE Starting(p)
    BY <2>1 DEF Starting, BindsControl, BindsOwner, ReadsLease, AccessFails, ChecksLease, RenamesLease,
         CreatesLease, WritesLease, StartFails, LeaseStep, Writes
  <2>2. CASE Ending(p)
    BY <2>2 DEF Ending, ClosesSockets, ClosesRuntime, ReleasesLease, ClosesOwner,
         ClosesControl, Exits, CloseStep, Writes
  <2>3. CASE ~Starting(p) /\ ~Ending(p)
    BY <1>4, <2>3 DEF Broker, InitializationSettles, MaxConnects, MaxDisconnects, Stops,
         IdlesOut, StopAnswered, Signalled, Closes, Crashes, life, Writes
  <2> QED
    BY <2>1, <2>2, <2>3
<1>5. CASE UNCHANGED vars
  BY <1>5 DEF vars, life
<1> QED
  BY <1>1, <1>2, <1>3, <1>4, <1>5 DEF Next

\* Brokers work on a project one after the other, whatever their control ports
\* are and wherever they crash: every step of theirs is a step of ProjectWriter
\* or none.
THEOREM BrokersImplementProjectWriter == Spec => WritesOneByOne
<1>1. Init => Project!Init
  BY DEF Init, AtRest, Project!Init, Writers, Writes
<1>2. ASSUME BrokerInv, BrokerInv', [Next]_vars
      PROVE  Project!Next \/ Writers' = Writers
  <2>1. CASE UNCHANGED <<initializing, running>>
    BY <2>1 DEF Writers, Writes
  <2>2. ASSUME NEW p \in Process, \A r \in Process \ {p} : Writes(r)' <=> Writes(r)
        PROVE  Project!Next \/ Writers' = Writers
    <3>1. CASE Writes(p)' <=> Writes(p)
      BY <2>2, <3>1 DEF Writers
    <3>2. CASE Writes(p)' /\ ~Writes(p)
      <4>1. \A r \in Process : Writes(r)' => r = p
        BY <1>2, <3>2, OneWrites DEF BrokerInv, Held, StageInv, OwnerInv
      <4>2. Writers' = {p} /\ Writers = {}
        BY <2>2, <3>2, <4>1 DEF Writers
      <4> QED
        BY <4>2 DEF Project!Next, Project!Begins
    <3>3. CASE ~Writes(p)' /\ Writes(p)
      <4>1. \A r \in Process : Writes(r) => r = p
        BY <1>2, <3>3, OneWrites
      <4>2. Writers = {p} /\ Writers' = {}
        BY <2>2, <3>3, <4>1 DEF Writers
      <4> QED
        BY <4>2 DEF Project!Next, Project!Ends
    <3> QED
      BY <3>1, <3>2, <3>3
  <2> QED
    BY <1>2, <2>1, <2>2, OneMoves
<1>3. BrokerInv /\ BrokerInv' /\ [Next]_vars => [Project!Next]_Writers
  BY <1>2
<1> QED
  BY <1>1, <1>3, BrokerInvHolds, PTL DEF Spec, WritesOneByOne, Project!Spec

(***************************************************************************)
(* Sessions.  Who counts no session refuses new ones in the same step, and *)
(* keeps refusing them.                                                    *)
(***************************************************************************)

Early == {"unborn", "starting", "bound"} \cup Leasing

AttachedInv ==
  \A f \in Frontend : phase[f] = "attached" =>
    /\ socket[f] \in Process
    /\ f \in mcpSockets[socket[f]]
    /\ at[socket[f]] \in {"serving", "closingHandles"}

RequestInv ==
  \A p \in Process, f \in Frontend : f \in requests[p] =>
    /\ phase[f] \in {"waiting", "diagnostic", "closed"}
    /\ phase[f] = "waiting" => socket[f] = p

DrainInv ==
  \A p \in Process :
    /\ cause[p] \in {"idle", "stop"} =>
         mcpSockets[p] = {} /\ state[p] \in {"draining", "failed"}
    /\ at[p] \in Closing => state[p] \in {"draining", "failed"} /\ cause[p] # "none"
    /\ p \in stopping => cause[p] # "none"
    /\ state[p] = "failed" => p \notin initializing
    /\ at[p] \in Early => state[p] = "starting" /\ cause[p] = "none"

SessionInv == AttachedInv /\ RequestInv /\ DrainInv

LEMMA FrontendKeepsSessions ==
  ASSUME BrokerInv, SessionInv, NEW f \in Frontend, FrontendStep(f)
  PROVE  SessionInv'
<1> USE DEF BrokerInv, TypeOK, SessionInv, AttachedInv, RequestInv, DrainInv,
            life, ownership, sessions, work
<1>1. CASE Opens(f)
  BY <1>1 DEF Opens
<1>2. CASE Connects(f)
  BY <1>2, ConnectsToProcess DEF Connects
<1>3. CASE Spawns(f)
  BY <1>3 DEF Spawns, Born, Early, Closing
<1>4. CASE GivesUp(f)
  BY <1>4 DEF GivesUp
<1>5. CASE HandshakeTimesOut(f)
  BY <1>5 DEF HandshakeTimesOut
<1>6. CASE Leaves(f)
  BY <1>6 DEF Leaves
<1> QED
  BY <1>1, <1>2, <1>3, <1>4, <1>5, <1>6 DEF FrontendStep

LEMMA StartKeepsSessions ==
  ASSUME BrokerInv, SessionInv, NEW p \in Process, Starting(p)
  PROVE  SessionInv'
<1>1. /\ UNCHANGED <<port, running, stopping, cause, sessions, work, frontends>>
      /\ at[p] \in Early
      /\ \E stage \in Early \cup {"serving", "gone"} : Moves(p, stage)
      /\ \/ UNCHANGED <<state, initializing>>
         \/ state' = [state EXCEPT ![p] = "failed"] /\ at'[p] = "serving" /\ UNCHANGED initializing
         \/ UNCHANGED state /\ at'[p] = "serving" /\ initializing' = initializing \cup {p}
  BY DEF Starting, BindsControl, BindsOwner, ReadsLease, AccessFails, ChecksLease, RenamesLease,
       CreatesLease, WritesLease, StartFails, LeaseStep, Moves, Early, Leasing,
       BrokerInv, TypeOK
<1>2. p \notin initializing
  BY <1>1 DEF BrokerInv, Held, StageInv, Writes, Working, Early, Leasing
<1>3. AttachedInv'
  BY <1>1 DEF SessionInv, AttachedInv, BrokerInv, TypeOK, Moves, Early, Leasing,
       sessions, frontends
<1>4. RequestInv'
  BY <1>1 DEF SessionInv, RequestInv, sessions, frontends
<1>5. DrainInv'
  BY <1>1, <1>2 DEF SessionInv, DrainInv, BrokerInv, TypeOK, Moves, Early, Leasing, Closing,
       sessions
<1> QED
  BY <1>3, <1>4, <1>5 DEF SessionInv

LEMMA SessionKeepsSessions ==
  ASSUME BrokerInv, SessionInv, NEW p \in Process, NEW f \in Frontend, Session(p, f)
  PROVE  SessionInv'
<1> USE DEF BrokerInv, TypeOK, SessionInv, AttachedInv, RequestInv, DrainInv,
            life, ownership, sessions, work, frontends
<1>1. CASE HandlesMcp(p, f) /\ Attaches(p, f)
  <2>1. state[p] = "ready" /\ at[p] \in Awaiting
    BY <1>1 DEF HandlesMcp, Attaches, Serves
  <2>2. at[p] = "serving"
    BY <2>1 DEF Awaiting, Closing
  <2> QED
    BY <1>1, <2>1, <2>2 DEF HandlesMcp, Attaches
<1>2. CASE HandlesMcp(p, f) /\ Refuses(p, f)
  BY <1>2 DEF HandlesMcp, Refuses
<1>3. CASE SocketCloses(p, f)
  BY <1>3 DEF SocketCloses
<1>4. CASE ServesSession(p, f) \/ CallsTool(p, f) \/ AsksMax(p, f) \/ MaxAnswers(p, f)
             \/ Returns(p, f)
  BY <1>4 DEF ServesSession, CallsTool, AsksMax, MaxAnswers, Returns
<1> QED
  BY <1>1, <1>2, <1>3, <1>4 DEF Session, HandlesMcp

\* What the closed sockets leave behind.
LEMMA CutsSessions ==
  ASSUME BrokerInv, SessionInv, NEW gone \in SUBSET Frontend, Cuts(gone)
  PROVE  /\ \A f \in Frontend \ gone : phase'[f] = phase[f] /\ socket'[f] = socket[f]
         /\ \A f \in gone : phase'[f] # "attached" /\ socket'[f] = Nobody
         /\ \A f \in gone : phase[f] \notin {"attached", "waiting"} => phase'[f] = phase[f]
BY DEF Cuts, Lost, BrokerInv, TypeOK

LEMMA EndKeepsSessions ==
  ASSUME BrokerInv, SessionInv, NEW p \in Process, Ending(p)
  PROVE  SessionInv'
<1> USE DEF Moves, CloseStep
<1>1. CASE ClosesSockets(p)
  <2>1. PICK backlog \in SUBSET requests[p] :
          /\ requests' = [requests EXCEPT ![p] = backlog]
          /\ Cuts(ConnectedTo(p) \ backlog)
    BY <1>1 DEF ClosesSockets
  <2>2. /\ \A f \in Frontend : f \notin ConnectedTo(p) \ backlog =>
             phase'[f] = phase[f] /\ socket'[f] = socket[f]
        /\ \A f \in ConnectedTo(p) \ backlog : phase'[f] # "attached" /\ socket'[f] = Nobody
        /\ \A f \in ConnectedTo(p) \ backlog :
             phase[f] \notin {"attached", "waiting"} => phase'[f] = phase[f]
    BY <2>1, CutsSessions DEF ConnectedTo
  <2>3. AttachedInv'
    BY <1>1, <2>1, <2>2 DEF ClosesSockets, SessionInv, AttachedInv, RequestInv, BrokerInv,
         TypeOK, ConnectedTo
  <2>4. RequestInv'
    BY <2>1, <2>2 DEF SessionInv, RequestInv, BrokerInv, TypeOK, ConnectedTo
  <2>5. DrainInv'
    BY <1>1 DEF ClosesSockets, SessionInv, DrainInv, BrokerInv, TypeOK, Closing, Early,
         Leasing
  <2> QED
    BY <2>3, <2>4, <2>5 DEF SessionInv
<1>2. CASE ClosesControl(p)
  <2>1. PICK backlog \in SUBSET requests[p] :
          /\ requests' = [requests EXCEPT ![p] = @ \ backlog]
          /\ Cuts(backlog \cap ConnectedTo(p))
    BY <1>2 DEF ClosesControl
  <2>2. /\ \A f \in Frontend : f \notin backlog \cap ConnectedTo(p) =>
             phase'[f] = phase[f] /\ socket'[f] = socket[f]
        /\ \A f \in backlog \cap ConnectedTo(p) : phase'[f] # "attached" /\ socket'[f] = Nobody
        /\ \A f \in backlog \cap ConnectedTo(p) :
             phase[f] \notin {"attached", "waiting"} => phase'[f] = phase[f]
    BY <2>1, CutsSessions DEF ConnectedTo
  <2>3. AttachedInv'
    BY <1>2, <2>1, <2>2 DEF ClosesControl, SessionInv, AttachedInv, BrokerInv, TypeOK
  <2>4. RequestInv'
    BY <2>1, <2>2 DEF SessionInv, RequestInv, BrokerInv, TypeOK, ConnectedTo
  <2>5. DrainInv'
    BY <1>2 DEF ClosesControl, SessionInv, DrainInv, BrokerInv, TypeOK, Closing, Early,
         Leasing
  <2> QED
    BY <2>3, <2>4, <2>5 DEF SessionInv
<1>3. CASE ClosesRuntime(p) \/ ReleasesLease(p) \/ ClosesOwner(p) \/ Exits(p)
  BY <1>3 DEF ClosesRuntime, ReleasesLease, ClosesOwner, Exits, SessionInv, AttachedInv,
       RequestInv, DrainInv, BrokerInv, TypeOK, Closing, Early, Leasing, ownership, sessions,
       work, frontends
<1> QED
  BY <1>1, <1>2, <1>3 DEF Ending

LEMMA BrokerKeepsSessions ==
  ASSUME BrokerInv, SessionInv, NEW p \in Process, Broker(p)
  PROVE  SessionInv'
<1>1. CASE Starting(p)
  BY <1>1, StartKeepsSessions
<1>2. CASE InitializationSettles(p)
  <2>1. at[p] \notin Early
    BY <1>2 DEF InitializationSettles, BrokerInv, Held, StageInv, Writes, Working, Early,
         Leasing
  <2> QED
    BY <1>2, <2>1 DEF InitializationSettles, SessionInv, AttachedInv, RequestInv, DrainInv,
         BrokerInv, TypeOK, Closing, ownership, sessions, work, frontends
<1>3. CASE MaxConnects(p) \/ MaxDisconnects(p)
  BY <1>3 DEF MaxConnects, MaxDisconnects, SessionInv, AttachedInv, RequestInv, DrainInv,
       life, ownership, sessions, frontends
<1>4. ASSUME NEW force \in BOOLEAN, Stops(p, force)
      PROVE  SessionInv'
  BY <1>4 DEF Stops, SessionInv, AttachedInv, RequestInv, DrainInv, BrokerInv, TypeOK,
       Early, Leasing, ownership, sessions, work, frontends
<1>5. CASE IdlesOut(p) \/ StopAnswered(p) \/ Signalled(p)
  <2>1. PICK why \in {"idle", "stop", "signal"} :
          /\ Closes(p, why)
          /\ why = "idle" => mcpSockets[p] = {}
          /\ why = "stop" => p \in stopping
    BY <1>5 DEF IdlesOut, IsIdle, StopAnswered, Signalled
  <2>2. AttachedInv' /\ RequestInv'
    BY <2>1 DEF Closes, Moves, SessionInv, AttachedInv, RequestInv, BrokerInv, TypeOK,
         frontends
  <2>3. DrainInv'
    BY <2>1 DEF Closes, Moves, SessionInv, DrainInv, BrokerInv, TypeOK, Early, Leasing
  <2> QED
    BY <2>2, <2>3 DEF SessionInv
<1>6. CASE Ending(p)
  BY <1>6, EndKeepsSessions
<1>7. CASE Crashes(p)
  <2>1. /\ \A f \in Frontend \ ConnectedTo(p) : phase'[f] = phase[f] /\ socket'[f] = socket[f]
        /\ \A f \in ConnectedTo(p) : phase'[f] # "attached" /\ socket'[f] = Nobody
        /\ \A f \in ConnectedTo(p) :
             phase[f] \notin {"attached", "waiting"} => phase'[f] = phase[f]
    BY <1>7, CutsSessions DEF Crashes, ConnectedTo
  <2>2. AttachedInv'
    BY <1>7, <2>1 DEF Crashes, Moves, SessionInv, AttachedInv, BrokerInv, TypeOK, ConnectedTo
  <2>3. RequestInv'
    BY <1>7, <2>1 DEF Crashes, SessionInv, RequestInv, BrokerInv, TypeOK, ConnectedTo
  <2>4. DrainInv'
    BY <1>7 DEF Crashes, Moves, SessionInv, DrainInv, BrokerInv, TypeOK, Closing, Early,
         Leasing
  <2> QED
    BY <2>2, <2>3, <2>4 DEF SessionInv
<1> QED
  BY <1>1, <1>2, <1>3, <1>4, <1>5, <1>6, <1>7 DEF Broker

LEMMA NextKeepsSessions ==
  ASSUME BrokerInv, SessionInv, [Next]_vars
  PROVE  SessionInv'
<1>1. ASSUME NEW q \in Port, CliStarts(q)
      PROVE  SessionInv'
  BY <1>1 DEF CliStarts, Born, SessionInv, AttachedInv, RequestInv, DrainInv, BrokerInv,
       TypeOK, Early, Closing, ownership, sessions, work, frontends
<1>2. CASE UNCHANGED vars
  BY <1>2 DEF vars, SessionInv, AttachedInv, RequestInv, DrainInv, life, ownership, sessions,
       work, frontends
<1> QED
  BY <1>1, <1>2, FrontendKeepsSessions, BrokerKeepsSessions, SessionKeepsSessions DEF Next

LEMMA SessionInvHolds == Spec => []SessionInv
<1>1. Init => SessionInv
  BY DEF Init, AtRest, SessionInv, AttachedInv, RequestInv, DrainInv, Early, Closing
<1>2. BrokerInv /\ SessionInv /\ [Next]_vars => SessionInv'
  BY NextKeepsSessions
<1> QED
  BY <1>1, <1>2, BrokerInvHolds, PTL DEF Spec

\* Sessions are only ended by their own host, a signal, a crash or --force,
\* with any number of frontends attaching while a broker decides to close.
THEOREM SessionsAreNotCut == Spec => SessionsAreServed
<1>1. ASSUME BrokerInv, SessionInv, [Next]_vars,
             NEW f \in Frontend, phase[f] = "attached", phase'[f] = "cut"
      PROVE  cause'[socket[f]] \in {"forced", "signal", "crash"}
  <2>1. PICK p \in Process : ClosesSockets(p) \/ ClosesControl(p) \/ Crashes(p)
    <3>1. CASE UNCHANGED vars
      BY <1>1, <3>1 DEF vars, frontends
    <3>2. ASSUME NEW q \in Port, CliStarts(q)
          PROVE  FALSE
      BY <1>1, <3>2 DEF CliStarts, frontends
    <3>3. ASSUME NEW g \in Frontend, FrontendStep(g)
          PROVE  FALSE
      BY <1>1, <3>3 DEF FrontendStep, Opens, Connects, Spawns, GivesUp, HandshakeTimesOut,
           Leaves, BrokerInv, TypeOK
    <3>4. ASSUME NEW p \in Process, NEW g \in Frontend, Session(p, g)
          PROVE  FALSE
      BY <1>1, <3>4 DEF Session, HandlesMcp, Attaches, Refuses, ServesSession, SocketCloses,
           CallsTool, AsksMax, MaxAnswers, Returns, BrokerInv, TypeOK, frontends
    <3>5. ASSUME NEW p \in Process, Broker(p)
          PROVE  ClosesSockets(p) \/ ClosesControl(p) \/ Crashes(p)
      <4>1. CASE UNCHANGED frontends
        BY <1>1, <4>1 DEF frontends
      <4>2. CASE ~UNCHANGED frontends
        BY <3>5, <4>2 DEF Broker, Starting, BindsControl, BindsOwner, ReadsLease,
             AccessFails, ChecksLease, RenamesLease, CreatesLease, WritesLease, LeaseStep,
             InitializationSettles, MaxConnects, MaxDisconnects, Stops, IdlesOut,
             StopAnswered, Signalled, Closes, Ending, ClosesRuntime, ReleasesLease,
             ClosesOwner, Exits
      <4> QED
        BY <4>1, <4>2
    <3> QED
      BY <1>1, <3>1, <3>2, <3>3, <3>4, <3>5 DEF Next
  <2>2. f \in ConnectedTo(p)
    <3>1. PICK gone \in SUBSET ConnectedTo(p) : Cuts(gone)
      BY <2>1 DEF ClosesSockets, ClosesControl, Crashes
    <3>2. f \in gone
      BY <1>1, <3>1, CutsSessions DEF ConnectedTo
    <3> QED
      BY <3>1, <3>2
  <2>3. f \in mcpSockets[p] /\ at[p] \in {"serving", "closingHandles"}
    BY <1>1, <2>2 DEF SessionInv, AttachedInv, ConnectedTo
  <2>4. ~ClosesControl(p)
    BY <2>3 DEF ClosesControl
  <2>5. CASE ClosesSockets(p)
    BY <1>1, <2>2, <2>3, <2>5 DEF ClosesSockets, CloseStep, SessionInv, DrainInv, Closing,
         BrokerInv, TypeOK, ConnectedTo
  <2>6. CASE Crashes(p)
    BY <1>1, <2>2, <2>6 DEF Crashes, BrokerInv, TypeOK, ConnectedTo
  <2> QED
    BY <2>1, <2>4, <2>5, <2>6
<1>2. BrokerInv /\ SessionInv /\ [Next]_vars =>
        [\A f \in Frontend :
           phase[f] = "attached" /\ phase'[f] = "cut" =>
             cause'[socket[f]] \in {"forced", "signal", "crash"}]_vars
  BY <1>1
<1> QED
  BY <1>2, BrokerInvHolds, SessionInvHolds, PTL DEF Spec, SessionsAreServed

-----------------------------------------------------------------------------
(* The commands.                                                             *)

LEMMA CommandStepIsBrokerStep ==
  ASSUME TypeOK, [CommandNext]_commandVars
  PROVE  [Next]_vars
<1>1. CASE StopAccepted
  <2>1. Listener \in Process
    BY <1>1, CommandAssumption DEF StopAccepted, AsksListener, Refused, Listener, TypeOK
  <2>2. PICK force \in BOOLEAN : Stops(Listener, force)
    BY <1>1 DEF StopAccepted
  <2> QED
    BY <2>1, <2>2 DEF Next, Broker
<1>2. CASE SpawnsNew
  BY <1>2, CommandAssumption DEF SpawnsNew, Next
<1>3. CASE CommandStepOf /\ ~StopAccepted /\ ~SpawnsNew
  BY <1>3 DEF CommandStepOf, FindsNobody, StopChangesNothing, FindsItStopped, TimesOut,
       FindsItSettled, Proceeds, Ends
<1> QED
  BY <1>1, <1>2, <1>3 DEF CommandNext, commandVars

LEMMA BrokersHoldBesideCommands == CommandSpec => []BrokerInv
<1>1. CommandInit => BrokerInv
  BY InitHeld DEF CommandInit
<1>2. BrokerInv /\ [CommandNext]_commandVars => BrokerInv'
  BY CommandStepIsBrokerStep, NextTyped, NextHeld DEF BrokerInv, Held
<1> QED
  BY <1>1, <1>2, PTL DEF CommandSpec

\* A step of a command is a step of BrokerLifecycle or changes nothing there, so
\* that all that is proved of the brokers holds beside any commands.
THEOREM CommandsAreBrokerSteps == CommandSpec => Spec
<1>1. CommandInit => Init
  BY DEF CommandInit
<1>2. BrokerInv /\ [CommandNext]_commandVars => [Next]_vars
  BY CommandStepIsBrokerStep DEF BrokerInv
<1> QED
  BY <1>1, <1>2, BrokersHoldBesideCommands, PTL DEF CommandSpec, Spec

(***************************************************************************)
(* The end that a restart waits for.  A process that has bound its control *)
(* port keeps it until it lingers, and never comes back.                   *)
(***************************************************************************)

Over == {"lingering", "gone"}
Begun == Stage \ {"unborn", "starting"}

ControlInv ==
  \A p \in Process, q \in Port :
    controlOwner[q] = p => port[p] = q /\ at[p] \in ControlStages

\* Only a crash or a failed removal leaves a lease of one's own.
CrashInv ==
  \A p \in Process :
    /\ cause[p] = "crash" => at[p] = "gone"
    /\ ownerLease = p => p \in leased \/ cause[p] = "crash" \/ p \in unremoved

Advances(p) ==
  /\ at[p] \in Begun => at'[p] \in Begun /\ port'[p] = port[p]
  /\ at[p] \in Over => at'[p] \in Over

EndInv == ControlInv /\ CrashInv

LEMMA StartEnds ==
  ASSUME BrokerInv, EndInv, NEW p \in Process, Starting(p)
  PROVE  EndInv' /\ \A r \in Process : Advances(r)
<1> USE DEF BrokerInv, TypeOK, Moves, StartFails, LeaseStep, EndInv, ControlInv, CrashInv, Advances,
            Over, Begun, Stage, Leasing, Closing, Working, OwnerStages, ControlStages
<1>1. CASE BindsControl(p)
  BY <1>1, BrokerAssumption DEF BindsControl
<1>2. CASE BindsOwner(p)
  BY <1>2 DEF BindsOwner
<1>3. CASE ReadsLease(p)
  BY <1>3 DEF ReadsLease
<1>4. CASE ChecksLease(p)
  BY <1>4 DEF ChecksLease
<1>5. CASE RenamesLease(p)
  BY <1>5, BrokerAssumption DEF RenamesLease
<1>6. CASE CreatesLease(p)
  BY <1>6, BrokerAssumption DEF CreatesLease
<1>7. CASE WritesLease(p)
  BY <1>7, BrokerAssumption DEF WritesLease, RemovalFails, Recorded
<1>8. CASE AccessFails(p)
  BY <1>8 DEF AccessFails
<1> QED
  BY <1>1, <1>2, <1>3, <1>4, <1>5, <1>6, <1>7, <1>8 DEF Starting

LEMMA CloseEnds ==
  ASSUME BrokerInv, EndInv, NEW p \in Process, Ending(p)
  PROVE  EndInv' /\ \A r \in Process : Advances(r)
<1> USE DEF BrokerInv, TypeOK, Moves, CloseStep, EndInv, ControlInv, CrashInv, Advances,
            Over, Begun, Stage, Leasing, Closing, Working, OwnerStages, ControlStages
<1>1. CASE ClosesSockets(p)
  BY <1>1 DEF ClosesSockets, ownership
<1>2. CASE ClosesRuntime(p)
  BY <1>2 DEF ClosesRuntime, ownership
<1>3. CASE ReleasesLease(p)
  BY <1>3, BrokerAssumption DEF ReleasesLease, RemovalFails, Released
<1>4. CASE ClosesOwner(p)
  BY <1>4 DEF ClosesOwner
<1>5. CASE ClosesControl(p)
  BY <1>5, BrokerAssumption DEF ClosesControl, WithoutControl
<1>6. CASE Exits(p)
  BY <1>6, BrokerAssumption DEF Exits, ownership
<1> QED
  BY <1>1, <1>2, <1>3, <1>4, <1>5, <1>6 DEF Ending

LEMMA BrokerEnds ==
  ASSUME BrokerInv, EndInv, NEW p \in Process, Broker(p)
  PROVE  EndInv' /\ \A r \in Process : Advances(r)
<1> USE DEF EndInv, ControlInv, CrashInv, Advances, Over, Begun
<1>1. CASE Starting(p)
  BY <1>1, StartEnds
<1>2. CASE InitializationSettles(p)
  BY <1>2 DEF InitializationSettles, ownership
<1>3. CASE MaxConnects(p) \/ MaxDisconnects(p)
  BY <1>3 DEF MaxConnects, MaxDisconnects, life, ownership
<1>4. ASSUME NEW force \in BOOLEAN, Stops(p, force)
      PROVE  EndInv' /\ \A r \in Process : Advances(r)
  BY <1>4 DEF Stops, BrokerInv, TypeOK, ownership
<1>5. CASE IdlesOut(p) \/ StopAnswered(p) \/ Signalled(p)
  <2>1. PICK why \in {"idle", "stop", "signal"} : Closes(p, why)
    BY <1>5 DEF IdlesOut, StopAnswered, Signalled
  <2> QED
    BY <2>1 DEF Closes, Moves, BrokerInv, TypeOK, Stage, Closing, Leasing, Working, OwnerStages,
         ControlStages, ownership
<1>6. CASE Ending(p)
  BY <1>6, CloseEnds
<1>7. CASE Crashes(p)
  BY <1>7, BrokerAssumption DEF Crashes, Moves, WithoutControl, BrokerInv, TypeOK, Stage,
       Leasing, Closing, Working, OwnerStages, ControlStages
<1> QED
  BY <1>1, <1>2, <1>3, <1>4, <1>5, <1>6, <1>7 DEF Broker

LEMMA NextEnds ==
  ASSUME BrokerInv, EndInv, [Next]_vars
  PROVE  EndInv' /\ \A r \in Process : Advances(r)
<1> USE DEF EndInv, ControlInv, CrashInv, Advances, Over, Begun
<1>1. ASSUME NEW q \in Port, Born(q), UNCHANGED ownership
      PROVE  EndInv' /\ \A r \in Process : Advances(r)
  BY <1>1 DEF Born, BrokerInv, TypeOK, Stage, Leasing, Closing, Working, OwnerStages,
       ControlStages, ownership
<1>2. ASSUME NEW q \in Port, CliStarts(q)
      PROVE  EndInv' /\ \A r \in Process : Advances(r)
  BY <1>1, <1>2 DEF CliStarts
<1>3. ASSUME NEW f \in Frontend, FrontendStep(f)
      PROVE  EndInv' /\ \A r \in Process : Advances(r)
  <2>1. CASE Spawns(f)
    BY <1>1, <2>1, BrokerAssumption DEF Spawns
  <2>2. CASE ~Spawns(f)
    BY <1>3, <2>2 DEF FrontendStep, Opens, Connects, GivesUp, HandshakeTimesOut, Leaves,
         life, ownership
  <2> QED
    BY <2>1, <2>2
<1>4. ASSUME NEW p \in Process, NEW f \in Frontend, Session(p, f)
      PROVE  EndInv' /\ \A r \in Process : Advances(r)
  BY <1>4 DEF Session, HandlesMcp, ServesSession, SocketCloses, CallsTool, AsksMax, MaxAnswers,
       Returns, life, ownership
<1>5. CASE UNCHANGED vars
  BY <1>5 DEF vars, life, ownership
<1> QED
  BY <1>2, <1>3, <1>4, <1>5, BrokerEnds DEF Next

LEMMA EndInvHolds == Spec => []EndInv
<1>1. Init => EndInv
  BY BrokerAssumption DEF Init, AtRest, EndInv, ControlInv, CrashInv
<1>2. BrokerInv /\ EndInv /\ [Next]_vars => EndInv'
  BY NextEnds
<1> QED
  BY <1>1, <1>2, BrokerInvHolds, PTL DEF Spec

\* A lease file that no broker answers for is what a crash or a failed removal
\* left, and a broker is only refused its start for a living one's lease when
\* that one failed to remove it: with any number of recoveries and crashes.
THEOREM OnlyFaultsLeaveLeases == Spec => []OnlyFaultsLeaveALease
<1>1. BrokerInv /\ EndInv => OnlyFaultsLeaveALease
  <2>1. SUFFICES ASSUME BrokerInv, EndInv
                 PROVE  OnlyFaultsLeaveALease
    OBVIOUS
  <2>2. ASSUME NEW p \in Process, NEW q \in Process,
               at[p] = "reading", ownerLease = q, at[q] # "gone"
        PROVE  q \in unremoved
    <3>1. q \in leased \/ q \in unremoved
      BY <2>1, <2>2 DEF EndInv, CrashInv
    <3>2. ownerPort = p
      BY <2>1, <2>2 DEF BrokerInv, Held, OwnerInv, Leasing
    <3>3. q \notin leased
      BY <2>1, <2>2, <3>2 DEF BrokerInv, Held, OwnerInv, StageInv, Working
    <3> QED
      BY <3>1, <3>3
  <2> QED
    BY <2>1, <2>2 DEF BrokerInv, Held, LeaseInv, GarbledInv, EndInv, CrashInv,
       OnlyFaultsLeaveALease
<1> QED
  BY <1>1, BrokerInvHolds, EndInvHolds, PTL

(***************************************************************************)
(* The command.                                                            *)
(***************************************************************************)

CommandInv ==
  /\ command \in [step : CommandStep, old : Process \cup {Nobody}]
  /\ command.step = "idle" => command.old = Nobody
  /\ command.step = "poll" =>
       /\ command.old \in Process
       /\ port[command.old] = CommandPort
       /\ at[command.old] \in Begun
  /\ command.step = "spawn" /\ command.old # Nobody => at[command.old] \in Over

RestartInv == BrokerInv /\ EndInv /\ CommandInv

LEMMA CommandInvKept ==
  ASSUME RestartInv, [CommandNext]_commandVars
  PROVE  CommandInv'
<1> USE DEF RestartInv, CommandInv, CommandStep
<1>1. \A r \in Process : Advances(r)
  BY CommandStepIsBrokerStep, NextEnds DEF BrokerInv
<1>2. CASE UNCHANGED command
  BY <1>1, <1>2 DEF Advances, Begun, Over
<1>3. CASE AsksListener
  <2>1. Listener \in Process /\ controlOwner[CommandPort] = Listener
    BY <1>3, CommandAssumption DEF AsksListener, Refused, Listener, BrokerInv, TypeOK
  <2>2. port[Listener] = CommandPort /\ at[Listener] \in Begun
    BY <2>1, CommandAssumption DEF EndInv, ControlInv, ControlStages, OwnerStages, Leasing,
         Working, Begun, Stage, Closing
  <2>3. port'[Listener] = CommandPort /\ at'[Listener] \in Begun
    BY <1>1, <2>1, <2>2 DEF Advances
  <2> QED
    BY <1>3, <2>1, <2>3 DEF AsksListener
<1>4. CASE FindsItStopped
  <2>1. at[command.old] \in Begun \ ControlStages
    BY <1>4, BrokerAssumption DEF FindsItStopped, NobodyListens, Refused, Listener, BrokerInv, Held,
         OwnerInv
  <2>2. at[command.old] \in Over
    BY <2>1 DEF Begun, Stage, ControlStages, OwnerStages, Working, Leasing, Closing, Over
  <2> QED
    BY <1>4, <2>2 DEF FindsItStopped, Proceeds, vars, life
<1>5. CASE FindsNobody
  BY <1>5 DEF FindsNobody, Proceeds, vars, life
<1>6. CASE SpawnsNew \/ TimesOut \/ FindsItSettled
  BY <1>6 DEF SpawnsNew, TimesOut, FindsItSettled, Ends, NoCommand
<1> QED
  BY <1>2, <1>3, <1>4, <1>5, <1>6 DEF CommandNext, CommandStepOf, StopAccepted,
     StopChangesNothing, commandVars

LEMMA RestartInvHolds == CommandSpec => []RestartInv
<1>1. CommandInit => EndInv /\ CommandInv
  BY BrokerAssumption DEF CommandInit, Init, AtRest, NoCommand, EndInv, ControlInv, CrashInv,
     CommandInv, CommandStep
<1>2. RestartInv /\ [CommandNext]_commandVars => EndInv' /\ CommandInv'
  BY CommandStepIsBrokerStep, NextEnds, CommandInvKept DEF RestartInv, BrokerInv
<1>3. CommandSpec => [](EndInv /\ CommandInv)
  BY <1>1, <1>2, BrokersHoldBesideCommands, PTL DEF CommandSpec, RestartInv
<1> QED
  BY <1>3, BrokersHoldBesideCommands, PTL DEF RestartInv

\* The command and the brokers keep their types.
THEOREM CommandTypesHold == CommandSpec => []CommandTypeOK
<1>1. RestartInv => CommandTypeOK
  BY DEF RestartInv, BrokerInv, CommandInv, CommandTypeOK
<1> QED
  BY <1>1, RestartInvHolds, PTL

\* A restart starts its new process when the one it asked to stop has given up
\* its runtime, both ports and, unless it crashed, the lease.
THEOREM RestartsWait == CommandSpec => []RestartWaits
<1>1. RestartInv => RestartWaits
  <2>1. SUFFICES ASSUME RestartInv, command.step = "spawn", command.old # Nobody
                 PROVE  /\ at[command.old] \in Over
                        /\ ~Writes(command.old)
                        /\ ownerPort # command.old
                        /\ \A q \in Port : controlOwner[q] # command.old
                        /\ ownerLease = command.old =>
                             cause[command.old] = "crash" \/ command.old \in unremoved
    BY DEF RestartWaits, Over
  <2>2. command.old \in Process /\ at[command.old] \in Over
    BY <2>1 DEF RestartInv, CommandInv
  <2>3. at[command.old] \notin ControlStages
    BY <2>2 DEF Over, ControlStages, OwnerStages, Working, Leasing
  <2>4. command.old \notin leased
    BY <2>1, <2>2 DEF RestartInv, BrokerInv, Held, StageInv, Over, Working
  <2>5. ~Writes(command.old) /\ ownerPort # command.old
    BY <2>1, <2>2, <2>3, <2>4 DEF RestartInv, BrokerInv, Held, StageInv, OwnerInv, ControlStages
  <2> QED
    BY <2>1, <2>2, <2>3, <2>4, <2>5 DEF RestartInv, EndInv, ControlInv, CrashInv
<1> QED
  BY <1>1, RestartInvHolds, PTL
=============================================================================

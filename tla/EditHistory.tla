---------------------------- MODULE EditHistory ----------------------------
(***************************************************************************)
(* The history of observed edits: the ring of the WebSocket bridge, the    *)
(* chunk files of the edit history store that outlive the broker, and the  *)
(* ledger of patch identities that decides who is shown what.              *)
(* The snapshot in an observation is left out: an observation is its three *)
(* numbers.  Bytes are counted in lines.  Files are kept in the order of   *)
(* their modification times, the oldest first.                             *)
(***************************************************************************)
EXTENDS HistoryLedger, SequencesExt

CONSTANTS
  RingSize,        \* MAX_EDIT_OBSERVATIONS and MAX_EDIT_OBSERVATION_BYTES
  ChunkLines,      \* chunkBytes
  RetainedLines,   \* maxBytes
  MaxConnected,    \* bounds: patches connected at a time,
  MaxSessions,     \* registrations,
  MaxEvents,       \* observed edits and saves,
  MaxDecisions,    \* decisions about identities,
  MaxStops,        \* ends of the broker,
  MaxFaults        \* file operations that fail

ASSUME HistoryAssumption ==
  /\ {RingSize, ChunkLines, RetainedLines} \subseteq Nat \ {0}
  /\ ChunkLines <= RetainedLines
  /\ {MaxConnected, MaxSessions, MaxEvents, MaxDecisions, MaxStops, MaxFaults}
       \subseteq Nat

VARIABLES
  lease,         \* .writer-lease: "none", "held", or "dead": of a dead process
  registered,    \* the session of each connected patch, 0 for none
  sessions,      \* all sessions ever, with what the bridge and the store keep
  ring,          \* editObservations
  dropped,       \* droppedEditEvents
  nextSequence,  \* nextEditSequence
  files,         \* the chunks on disk
  metadata,      \* what is remembered of registrations and saved paths
  arrived,       \* history: observations restored or received since the start
  hidden,        \* history: identities that were forgotten
  lost,          \* history: a failed erasure took the ledger: "no", its "file",
                 \* or, once a broker started without it, its "memory"
  spent          \* how often each bounded event happened

historyVars ==
  <<lease, registered, sessions, ring, dropped, nextSequence, files, metadata,
    arrived, hidden, lost, spent>>
vars == <<historyVars, ledgerVars>>

Running == lease = "held"

Connected == {i \in Identity : registered[i] # 0}

Budget ==
  [sessions |-> MaxSessions, events |-> MaxEvents, decisions |-> MaxDecisions,
   stops |-> MaxStops, faults |-> MaxFaults]

Spend(kind) ==
  /\ spent[kind] < Budget[kind]
  /\ spent' = [spent EXCEPT ![kind] = @ + 1]

(***************************************************************************)
(* Sessions and files.  A session is the patch that registered, the number *)
(* of edits observed in it, and the store's state of it: the current chunk *)
(* and how long the store believes it to be; chunk 0 when the store does   *)
(* not know the session.                                                   *)
(***************************************************************************)
Observation == [sequence : Nat \ {0}, session : Nat \ {0}, nth : Nat \ {0}]

Saved == [saved |-> TRUE]

Session == [patch : Identity, observed : Nat, chunk : Nat, lines : Nat]

File ==
  [session : Nat \ {0}, chunk : Nat \ {0}, header : BOOLEAN,
   lines : Seq(Observation \cup {Saved})]

PatchOf(o) == sessions[o.session].patch

FileLines(f) == Len(f.lines) + (IF f.header THEN 1 ELSE 0)

TotalLines(fs) == FoldLeft(LAMBDA sum, f : sum + FileLines(f), 0, fs)

\* SelectSeq, for the members of a set.
Selected(seq, S) ==
  LET upTo[n \in 0..Len(seq)] ==
        IF n = 0 THEN <<>>
        ELSE IF seq[n] \in S THEN Append(upTo[n - 1], seq[n]) ELSE upTo[n - 1]
  IN  upTo[Len(seq)]

Observations(f) == Selected(f.lines, Observation)

IsFile(f, s, n) == f.session = s /\ f.chunk = n

\* The files without the first k, among which the current chunk of session s
\* is kept.
Without(fs, k, s, n) ==
  Selected(SubSeq(fs, 1, k), {f \in Range(fs) : IsFile(f, s, n)})
    \o SubSeq(fs, k + 1, Len(fs))

\* prune: the old files go, then the oldest until the rest is small enough.
Pruned(fs, old, s, n) ==
  LET young == Without(fs, old, s, n)
      enough == {k \in 0..Len(young) :
                   \/ TotalLines(Without(young, k, s, n)) <= RetainedLines
                   \/ k = Len(young)}
  IN  Without(young, Min(enough), s, n)

\* However many of the files are old.
Prunings(fs, s, n) == {Pruned(fs, old, s, n) : old \in 0..Len(fs)}

\* appendFileSync: a file that is not there is created, and has no header.
Appended(fs, s, n, line) ==
  LET mine == {f \in Range(fs) : IsFile(f, s, n)}
      file == IF mine = {}
              THEN [session |-> s, chunk |-> n, header |-> FALSE, lines |-> <<>>]
              ELSE CHOOSE f \in mine : TRUE
  IN  Append(Selected(fs, Range(fs) \ mine), [file EXCEPT !.lines = Append(@, line)])

NewChunk(s, n) == [session |-> s, chunk |-> n, header |-> TRUE, lines |-> <<>>]

\* openChunk
Opened(fs, s, n) == Append(fs, NewChunk(s, n))

(***************************************************************************)
(* The ring.                                                               *)
(***************************************************************************)
Count(seq, i) == Cardinality({k \in DOMAIN seq : PatchOf(seq[k]) = i})

Kept(all) ==
  SubSeq(all, 1 + (IF RingSize < Len(all) THEN Len(all) - RingSize ELSE 0), Len(all))

Removed(all) == SubSeq(all, 1, Len(all) - Len(Kept(all)))

CountsBug(all) ==
  [i \in Identity |-> IF all # <<>> /\ i = PatchOf(Last(all)) THEN Len(Removed(all)) ELSE 0]

\* trimEditObservations: what leaves the ring is counted for its own patch.
Counts(all) == [i \in Identity |-> Count(Removed(all), i)]

\* readHistoryFile: a file without a header is ignored.
Readable(f) == IF f.header THEN Observations(f) ELSE <<>>

\* A stable sort by the numbers, one observation at a time.
Placed(seq, o) ==
  InsertAt(seq, 1 + Cardinality({k \in DOMAIN seq : seq[k].sequence <= o.sequence}), o)

Merged(seq, lines) ==
  LET upTo[n \in 0..Len(lines)] ==
        IF n = 0 THEN seq ELSE Placed(upTo[n - 1], lines[n])
  IN  upTo[Len(lines)]

\* load: everything readable, in the order of the numbers.
Loaded(fs) ==
  LET upTo[n \in 0..Len(fs)] ==
        IF n = 0 THEN <<>> ELSE Merged(upTo[n - 1], Readable(fs[n]))
  IN  upTo[Len(fs)]

NextNumberBug(all) == Len(all) + 1

NextNumber(all) == IF all = <<>> THEN 1 ELSE Last(all).sequence + 1

\* What the files with a header tell of registrations and saves.
MetadataIn(fs) ==
  LET ofFiles(reason, S) == {[session |-> f.session, reason |-> reason] : f \in S}
      headed == {f \in Range(fs) : f.header}
  IN  ofFiles("registered", headed)
        \cup ofFiles("saved", {f \in headed : Saved \in Range(f.lines)})

SeenIn(fs) == {sessions[f.session].patch : f \in {g \in Range(fs) : g.header}}

(***************************************************************************)
(* What one line costs.  A write that fails leaves the store's state of    *)
(* the session as far as the code had changed it.                          *)
(***************************************************************************)
Rolls(s) == ChunkLines < sessions[s].lines + 1

ChunkFor(s) == sessions[s].chunk + (IF Rolls(s) THEN 1 ELSE 0)

FilesFor(s) == IF Rolls(s) THEN Opened(files, s, ChunkFor(s)) ELSE files

LinesFor(s) == IF Rolls(s) THEN 1 ELSE sessions[s].lines

\* The line is written, and the files are pruned to fs.
Written(s, fs) ==
  [done |-> TRUE, chunk |-> ChunkFor(s), lines |-> LinesFor(s) + 1, files |-> fs]

\* The next chunk cannot be opened, or the line cannot be appended, or the
\* store does not know the session.
Unwritten(s) ==
  {[done |-> FALSE, chunk |-> ChunkFor(s), lines |-> sessions[s].lines, files |-> files],
   [done |-> FALSE, chunk |-> ChunkFor(s), lines |-> LinesFor(s), files |-> FilesFor(s)]}

Unknown(s) ==
  [done |-> FALSE, chunk |-> 0, lines |-> sessions[s].lines, files |-> files]

Outcomes(s, line) ==
  IF sessions[s].chunk = 0 THEN {Unknown(s)}
  ELSE LET n == ChunkFor(s)
       IN  {Written(s, fs) : fs \in Prunings(Appended(FilesFor(s), s, n, line), s, n)}
             \cup Unwritten(s)

\* One line of session s, with what it changes of the store.
Persists(s, line, observed, w) ==
  /\ files' = w.files
  /\ sessions' = [sessions EXCEPT ![s] =
       [@ EXCEPT !.chunk = w.chunk, !.lines = w.lines, !.observed = observed]]
  /\ LET fault == IF w.done \/ sessions[s].chunk = 0 THEN 0 ELSE 1
     IN  /\ spent.events < MaxEvents
         /\ spent.faults + fault <= MaxFaults
         /\ spent' = [spent EXCEPT !.events = @ + 1, !.faults = @ + fault]

(***************************************************************************)
(* The broker.                                                             *)
(***************************************************************************)
Zero == [i \in Identity |-> 0]

Init ==
  /\ LedgerInit
  /\ lease = "none"
  /\ registered = Zero
  /\ sessions = <<>>
  /\ ring = <<>>
  /\ dropped = Zero
  /\ nextSequence = 1
  /\ files = <<>>
  /\ metadata = {}
  /\ arrived = Zero
  /\ hidden = {}
  /\ lost = "no"
  /\ spent = [k \in DOMAIN Budget |-> 0]

\* MaxforgeWebSocketBridge.start, with a lease that is free or whose owner is
\* dead; the lease of a living owner refuses the start and changes nothing.
Starts ==
  /\ ~Running
  /\ lease' = "held"
  /\ \E fs \in Prunings(files, 0, 0) :
       LET all == Loaded(fs)
       IN  /\ files' = fs
           /\ ring' = Kept(all)
           /\ dropped' = Counts(all)
           /\ nextSequence' = NextNumber(all)
           /\ arrived' = [i \in Identity |-> Count(all, i)]
           /\ metadata' = MetadataIn(fs)
           /\ Loads(ledger, SeenIn(fs))
  /\ sessions' = [s \in DOMAIN sessions |-> [sessions[s] EXCEPT !.chunk = 0, !.lines = 0]]
  /\ lost' = IF lost = "file" THEN "memory" ELSE lost
  /\ UNCHANGED <<registered, hidden, spent>>

\* The broker closes, or dies and leaves its lease.  A line that a crash cuts
\* off is the last of its chunk and is ignored by load.
Stops(left) ==
  /\ Running
  /\ Spend("stops")
  /\ lease' = left
  /\ registered' = Zero
  /\ ring' = <<>>
  /\ dropped' = Zero
  /\ nextSequence' = 1
  /\ metadata' = {}
  /\ arrived' = Zero
  /\ UNCHANGED <<sessions, files, hidden, lost, ledgerVars>>

Closes == Stops("none")

Crashes == Stops("dead")

\* handleRegistration and startSession, of a patch that connects or whose
\* client registers once more.
Registers(i) ==
  LET s == Len(sessions) + 1
      session(n) == [patch |-> i, observed |-> 0, chunk |-> n, lines |-> n]
  IN  /\ Running
      /\ Cardinality(Connected \cup {i}) <= MaxConnected
      /\ spent.sessions < MaxSessions
      /\ registered' = [registered EXCEPT ![i] = s]
      /\ \/ /\ files' \in Prunings(Opened(files, s, 1), s, 1)
            /\ sessions' = Append(sessions, session(1))
            /\ metadata' = metadata \cup {[session |-> s, reason |-> "registered"]}
            /\ Observes(i)
            /\ spent' = [spent EXCEPT !.sessions = @ + 1]
         \/ /\ spent.faults < MaxFaults
            /\ sessions' = Append(sessions, session(0))
            /\ spent' = [spent EXCEPT !.sessions = @ + 1, !.faults = @ + 1]
            /\ UNCHANGED <<files, metadata, ledgerVars>>
      /\ UNCHANGED <<lease, ring, dropped, nextSequence, arrived, hidden, lost>>

Disconnects(i) ==
  /\ i \in Connected
  /\ registered' = [registered EXCEPT ![i] = 0]
  /\ UNCHANGED <<lease, sessions, ring, dropped, nextSequence, files, metadata,
                 arrived, hidden, lost, spent, ledgerVars>>

\* handleEditObserved and appendObservation: the ring takes the observation
\* whether or not the store can.
EditObserved(i) ==
  LET s == registered[i]
      o == [sequence |-> nextSequence, session |-> s, nth |-> sessions[s].observed + 1]
      all == Append(ring, o)
  IN  /\ i \in Connected
      /\ ring' = Kept(all)
      /\ dropped' = [j \in Identity |-> dropped[j] + Counts(all)[j]]
      /\ nextSequence' = nextSequence + 1
      /\ arrived' = [arrived EXCEPT ![i] = @ + 1]
      /\ \E w \in Outcomes(s, o) : Persists(s, o, o.nth, w)
      /\ UNCHANGED <<lease, registered, metadata, hidden, lost, ledgerVars>>

\* handlePatchSaved and recordPatchMetadata
PatchSaved(i) ==
  LET s == registered[i]
  IN  /\ i \in Connected
      /\ \E w \in Outcomes(s, Saved) :
           /\ Persists(s, Saved, sessions[s].observed, w)
           /\ metadata' = IF w.done
                          THEN metadata \cup {[session |-> s, reason |-> "saved"]}
                          ELSE metadata
      /\ UNCHANGED <<lease, registered, ring, dropped, nextSequence, arrived, hidden,
                     lost, ledgerVars>>

\* resolvePatchHistoryIdentity: not while the source's group is connected.
Resolve(d) ==
  /\ Running
  /\ \A i \in Connected : ~Matches(identities, i, d.source)
  /\ Spend("decisions")
  /\ Resolves(d)
  /\ hidden' = IF d.action = "forget"
               THEN hidden \cup {i \in Identity : Canonical(identities, i) = d.source}
               ELSE hidden
  /\ UNCHANGED <<lease, registered, sessions, ring, dropped, nextSequence, files,
                 metadata, arrived, lost>>

\* eraseProjectHistory and clearEditObservationHistory
Erases ==
  /\ Running
  /\ Connected = {}
  /\ files' = <<>>
  /\ Loads(<<>>, {})
  /\ sessions' = [s \in DOMAIN sessions |-> [sessions[s] EXCEPT !.chunk = 0, !.lines = 0]]
  /\ metadata' = {}
  /\ ring' = <<>>
  /\ dropped' = Zero
  /\ nextSequence' = 1
  /\ arrived' = Zero
  /\ hidden' = {}
  /\ lost' = "no"
  /\ UNCHANGED <<lease, registered, spent>>

\* The files go in the order of their paths: one directory after the other, in
\* it by session and chunk, and the ledger's file wherever the names of the
\* directories leave it.  When one of them or an empty directory cannot be removed
\* the rest stay, and so does everything in memory.
EraseFails ==
  LET before(f, g) == \/ f.session < g.session
                      \/ f.session = g.session /\ f.chunk < g.chunk
      directory(f) == sessions[f.session].patch
  IN  /\ Running
      /\ Connected = {}
      /\ Spend("faults")
      /\ \E gone \in SUBSET Range(files), ledgerGone \in BOOLEAN :
           LET stay == Range(files) \ gone
               begun == {directory(f) : f \in gone} \cap {directory(g) : g \in stay}
           IN  /\ \A f \in gone, g \in stay :
                    directory(f) = directory(g) => ~before(g, f)
               /\ Cardinality(begun) <= 1
               /\ files' = Selected(files, stay)
               /\ ledger' = IF ledgerGone THEN <<>> ELSE ledger
      /\ lost' = IF lost = "no" /\ ledger' # ledger THEN "file" ELSE lost
      /\ UNCHANGED <<lease, registered, sessions, ring, dropped, nextSequence, metadata,
                     arrived, hidden, identities>>

Next ==
  \/ Starts
  \/ Closes
  \/ Crashes
  \/ \E i \in Identity :
       \/ Registers(i)
       \/ Disconnects(i)
       \/ EditObserved(i)
       \/ PatchSaved(i)
  \/ \E d \in Decision : Resolve(d)
  \/ Erases
  \/ EraseFails

Spec == Init /\ [][Next]_vars

(***************************************************************************)
(* What an agent is shown.                                                 *)
(***************************************************************************)
\* getEditObservationHistory
HistoryOf(p) ==
  Selected(ring, {o \in Range(ring) : Matches(identities, PatchOf(o), p)})

BasisBug(h, k) ==
  IF k = 1 \/ h[k - 1].session # h[k].session
  THEN IF 1 < h[k].sequence THEN "incomplete_after_drop" ELSE "session_baseline"
  ELSE "previous_observation"

\* getLiveEditHistory: what the changes of the k-th entry are relative to.
Basis(h, k) ==
  IF k = 1 \/ h[k - 1].session # h[k].session
  THEN IF 1 < h[k].nth THEN "incomplete_after_drop" ELSE "session_baseline"
  ELSE "previous_observation"

(***************************************************************************)
(* Properties.                                                             *)
(***************************************************************************)
\* The values of the variables.
TypeOK ==
  /\ LedgerTypeOK
  /\ lease \in {"none", "held", "dead"}
  /\ sessions \in Seq(Session)
  /\ registered \in [Identity -> 0..Len(sessions)]
  /\ ring \in Seq(Observation)
  /\ Len(ring) <= RingSize
  /\ dropped \in [Identity -> Nat]
  /\ nextSequence \in Nat \ {0}
  /\ files \in Seq(File)
  /\ metadata \subseteq [session : Nat \ {0}, reason : {"registered", "saved"}]
  /\ arrived \in [Identity -> Nat]
  /\ hidden \subseteq Identity
  /\ lost \in {"no", "file", "memory"}
  /\ spent \in [DOMAIN Budget -> Nat]

\* droppedEvents is true for every patch: what was restored or received since
\* the start and is not in the ring any more has been counted for its own
\* patch (bridge.ts, handleEditObserved and trimEditObservations).
DropsAreCounted ==
  Running => \A i \in Identity : arrived[i] = Count(ring, i) + dropped[i]

\* The sequence is a cursor: the entries of the ring are in its order, no two
\* share a number, and the next number is larger, also after restarts that
\* restored only a part, failed writes and partly erased files
\* (bridge.ts:845, edit-history-store.ts:300).
SequencesIdentify ==
  /\ \A j, k \in DOMAIN ring : j < k => ring[j].sequence < ring[k].sequence
  /\ Running => \A k \in DOMAIN ring : ring[k].sequence < nextSequence

\* "forget excludes a known, closed identity group from Agent-facing history"
\* (docs/mcp.md:509): a group that was forgotten is shown to nobody.
ForgottenIsHidden ==
  Running => \A p \in Identity :
    \A k \in DOMAIN HistoryOf(p) : PatchOf(HistoryOf(p)[k]) \notin hidden

\* The same, not under another identity, nor after a restart or a failed erasure;
\* until a broker starts without the ledger that a failed erasure took before the
\* observations (patch-history-identity.ts, matches; edit-history-store.ts:459).
ForgottenUntilLost == lost # "memory" => ForgottenIsHidden

\* A broker that restarts takes every decision as the one that recorded it did,
\* whatever was written, refused, replayed and erased since, unless a failed
\* erasure took the ledger from under its memory (patch-history-identity.ts, load,
\* resolve; edit-history-store.ts:459).
DecisionsSurvive == lost = "no" => ReplayAgrees

\* Every observation in a file is found by the next start ("append-only NDJSON
\* chunks restore retained evidence after a broker restart", docs/mcp.md:477).
FilesAreReadable ==
  \A f \in Range(files) : Range(Observations(f)) \subseteq Range(Loaded(files))

\* "incomplete_after_drop means one or more earlier observations from that
\* session are unavailable" (service.ts:953), as long as the sessions of a
\* group did not overlap.
IncompleteIsTrue ==
  \A p \in Connected :
    LET h == HistoryOf(p)
        overlap == \E j, k \in DOMAIN h : j < k /\ h[k].session < h[j].session
    IN  overlap \/ \A k \in DOMAIN h : Basis(h, k) = "incomplete_after_drop" =>
          \E n \in 1..h[k].nth - 1 :
            \A j \in DOMAIN h : h[j].session = h[k].session => h[j].nth # n
=============================================================================

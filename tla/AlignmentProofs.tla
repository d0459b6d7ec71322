--------------------------- MODULE AlignmentProofs ---------------------------
(***************************************************************************)
(* Proofs about VersionAlignment beside ReleasePreflight: whatever runs    *)
(* overlap, fail or are killed, the package that a person had is somewhere, *)
(* whole, the edits of the configuration that a script overwrites are in   *)
(* its copy, and what is called current was the newest release.            *)
(***************************************************************************)
EXTENDS ReleasePreflight, TLAPS

Outcome == {"done", "failed", "died", "blocked", "unknown", "update-available", "stale",
            "current", "updated"}

IdleRun == [kind : {"idle"}, how : Outcome]

PinRun == [kind : {"pin"}, step : {"copy", "write", "verify", "revert"}, version : Version,
           original : Config, overtaken : BOOLEAN]

InstallStage == {"stage", "backup", "aside", "place", "verify", "discard", "undo", "restore"}

\* Only a package that was moved aside is discarded.
InstallRun ==
  { run \in [kind : {"install"}, step : InstallStage, version : Version,
             found : Package \cup {None}, previous : Package \cup {None},
             placed : BOOLEAN, clean : BOOLEAN] :
      run.step = "discard" => run.previous # None }

CheckRun == [kind : {"check"}, step : {"cache", "fetch", "store", "report"}, at : Time,
             forced : BOOLEAN, offline : BOOLEAN, remote : Remote \cup {None}, stale : BOOLEAN,
             github : Release \cup {Unread}, npm : Version \cup {Unread},
             pin : Version \cup {Moving, Unread}, package : Version \cup {None, Unread}]

RefreshRun == [kind : {"refresh"}, step : {"cache", "cli", "empty", "store"}, at : Time,
               forced : BOOLEAN, offline : BOOLEAN, hashes : Lock,
               status : {"current", "updated"}]

Run == IdleRun \cup PinRun \cup InstallRun \cup CheckRun \cup RefreshRun

ScriptTypeOK ==
  /\ TypeOK
  /\ upstream \in Revision
  /\ scripts \in [Script -> Run]

(***************************************************************************)
(* Types.  A run that goes on keeps its kind.                              *)
(***************************************************************************)

LEMMA Spending ==
  ASSUME TypeOK, NEW kind \in EventKind, Spend(kind)
  PROVE  allowed' \in [EventKind -> Nat] /\ allowed' # allowed
  BY DEF Spend, TypeOK, AlignmentTypeOK

LEMMA IdleIsRun == \A how \in Outcome : Idle(how) \in Run
  BY DEF Idle, Run, IdleRun

LEMMA WholeIsPackage == \A version \in Version : Whole(version) \in Package
  BY DEF Whole, Package

\* What a step does to everything but the run it is of.
LEMMA RunsTyped ==
  ASSUME ScriptTypeOK, NEW s \in Script, NEW record \in Run, Becomes(s, record)
  PROVE  scripts' \in [Script -> Run]
  BY DEF ScriptTypeOK, Becomes

LEMMA RunOfKind ==
  ASSUME ScriptTypeOK, NEW s \in Script
  PROVE  /\ Runs(s, "pin") => scripts[s] \in PinRun
         /\ Runs(s, "install") => scripts[s] \in InstallRun
         /\ Runs(s, "check") => scripts[s] \in CheckRun
         /\ Runs(s, "refresh") => scripts[s] \in RefreshRun
  BY DEF ScriptTypeOK, Runs, Run, IdleRun, PinRun, InstallRun, CheckRun, RefreshRun

\* A run that is overtaken is marked, and nothing else.
Marked(r) == [scripts[r] EXCEPT !.overtaken = TRUE]

LEMMA MarksTyped ==
  ASSUME ScriptTypeOK, NEW r \in Script, Runs(r, "pin")
  PROVE  /\ Marked(r) \in Run /\ Marked(r).kind = "pin" /\ Marked(r).overtaken
         /\ Marked(r).step = scripts[r].step
<1>1. ASSUME NEW run \in PinRun
      PROVE  LET marked == [run EXCEPT !.overtaken = TRUE]
             IN  marked \in Run /\ marked.kind = "pin" /\ marked.overtaken /\ marked.step = run.step
  BY DEF Run, PinRun
<1> QED
  BY <1>1, RunOfKind DEF Marked

LEMMA OvertakenTyped ==
  ASSUME ScriptTypeOK, NEW new
  PROVE  /\ Overtaken(new) \in [Script -> Run]
         /\ \A r \in Script : \/ Overtaken(new)[r] = scripts[r]
                              \/ Runs(r, "pin") /\ Overtaken(new)[r] = Marked(r)
<1>1. \A r \in Script : \/ Overtaken(new)[r] = scripts[r]
                        \/ Runs(r, "pin") /\ Overtaken(new)[r] = Marked(r)
  <2> SUFFICES ASSUME NEW r \in Script
               PROVE  \/ Overtaken(new)[r] = scripts[r]
                      \/ Runs(r, "pin") /\ Overtaken(new)[r] = Marked(r)
    OBVIOUS
  <2> DEFINE comes == /\ Runs(r, "pin") /\ scripts[r].step # "copy"
                      /\ ~(new.edits \subseteq config.edits)
  <2>1. Overtaken(new)[r] = IF comes THEN Marked(r) ELSE scripts[r]
    BY DEF Overtaken, Marked
  <2>2. comes => Runs(r, "pin")
    OBVIOUS
  <2> HIDE DEF comes
  <2> QED
    BY <2>1, <2>2
<1>2. \A r \in Script : Overtaken(new)[r] \in Run
  BY <1>1, MarksTyped DEF ScriptTypeOK
<1> QED
  BY <1>1, <1>2 DEF Overtaken

\* What a step of a pin run does to the runs.
LEMMA PinMoves ==
  ASSUME ScriptTypeOK, NEW s \in Script, PinStep(s)
  PROVE  /\ Runs(s, "pin") /\ scripts' \in [Script -> Run]
         /\ scripts'[s].kind \in {"pin", "idle"}
         /\ \A r \in Script \ {s} : \/ scripts'[r] = scripts[r]
                                    \/ Runs(r, "pin") /\ scripts'[r] = Marked(r)
<1> DEFINE run == scripts[s]
<1>1. Runs(s, "pin") /\ run \in PinRun /\ scripts \in [Script -> Run]
  BY RunOfKind DEF PinStep, PinCopies, PinWrites, PinVerifies, PinReverts, IsAt, ScriptTypeOK
<1>2. \A step \in {"copy", "write", "verify", "revert"} :
        [run EXCEPT !.step = step] \in Run /\ [run EXCEPT !.step = step].kind = "pin"
  BY <1>1 DEF PinRun, Run
<1>3. \A how \in {"done", "failed"} : Idle(how) \in Run /\ Idle(how).kind = "idle"
  BY IdleIsRun DEF Idle, Outcome
<1>4. CASE PinCopies(s) \/ PinVerifies(s)
  <2>1. PICK record \in Run : record.kind \in {"pin", "idle"} /\ Becomes(s, record)
    BY <1>2, <1>3, <1>4 DEF PinCopies, PinVerifies, Goes, Ends, Fails
  <2> QED
    BY <1>1, <2>1 DEF Becomes
<1>5. ASSUME NEW new, NEW record \in Run, record.kind \in {"pin", "idle"},
             scripts' = [Overtaken(new) EXCEPT ![s] = record] \/ Becomes(s, record)
      PROVE  /\ scripts' \in [Script -> Run] /\ scripts'[s] = record
             /\ \A r \in Script \ {s} : \/ scripts'[r] = scripts[r]
                                        \/ Runs(r, "pin") /\ scripts'[r] = Marked(r)
  <2>1. CASE Becomes(s, record)
    BY <1>1, <2>1 DEF Becomes
  <2>2. CASE scripts' = [Overtaken(new) EXCEPT ![s] = record]
    BY <2>2, OvertakenTyped
  <2> QED
    BY <1>5, <2>1, <2>2
<1>6. CASE PinWrites(s)
  <2>1. \/ scripts' = [Overtaken(config') EXCEPT ![s] = [run EXCEPT !.step = "verify"]]
        \/ Becomes(s, [run EXCEPT !.step = "revert"])
    BY <1>6 DEF PinWrites, Goes
  <2> QED
    BY <1>1, <1>2, <1>5, <2>1
<1>7. CASE PinReverts(s)
  <2>1. \/ scripts' = [Overtaken(config') EXCEPT ![s] = Idle("failed")]
        \/ Becomes(s, Idle("failed"))
    BY <1>7 DEF PinReverts, Fails, Ends
  <2> QED
    BY <1>1, <1>3, <1>5, <2>1
<1> QED
  BY <1>4, <1>6, <1>7 DEF PinStep

LEMMA PinTyped ==
  ASSUME ScriptTypeOK, NEW s \in Script, PinStep(s)
  PROVE  /\ scripts' \in [Script -> Run]
         /\ config' \in Config /\ configBackups' \subseteq Config
         /\ allowed' \in [EventKind -> Nat]
<1> DEFINE run == scripts[s]
<1>1. run \in PinRun
  BY RunOfKind DEF PinStep, PinCopies, PinWrites, PinVerifies, PinReverts, IsAt
<1>3. allowed' \in [EventKind -> Nat]
  BY Spending DEF ScriptTypeOK, TypeOK, AlignmentTypeOK, PinStep, PinCopies, PinWrites, PinVerifies,
         PinReverts, Fails, EventKind
<1>4. scripts' \in [Script -> Run]
  BY PinMoves
<1>5. [run.original EXCEPT !.pin = run.version] \in Config /\ run.original \in Config
  BY <1>1 DEF PinRun, Config
<1>6. config' \in Config /\ configBackups' \subseteq Config
  BY <1>5 DEF ScriptTypeOK, TypeOK, AlignmentTypeOK, PinStep, PinCopies, PinWrites, PinVerifies,
     PinReverts, Copied, configVars
<1> QED
  BY <1>3, <1>4, <1>6

LEMMA InstallTyped ==
  ASSUME ScriptTypeOK, NEW s \in Script, InstallStep(s)
  PROVE  /\ scripts' \in [Script -> Run]
         /\ destination' \in Package \cup {None} /\ packageBackups' \subseteq Package
         /\ allowed' \in [EventKind -> Nat]
<1> DEFINE run == scripts[s]
<1> USE DEF ScriptTypeOK, TypeOK, AlignmentTypeOK
<1>1. run \in InstallRun
  BY RunOfKind DEF InstallStep, Stages, BacksUp, MovesAside, Places, InstallVerifies, Discards,
     Undoes, Restores, IsAt
<1>2. \A step \in InstallStage : (step = "discard" => run.previous # None) =>
        [run EXCEPT !.step = step] \in Run
  BY <1>1 DEF InstallRun, Run
<1>3. allowed' \in [EventKind -> Nat]
  BY Spending DEF InstallStep, Stages, BacksUp, MovesAside, Places, InstallVerifies, Discards,
     Undoes, Restores, Fails, EventKind
<1>4. \A package \in Package : Parts(package) \subseteq Package
  BY DEF Parts, Package
<1>5. scripts' \in [Script -> Run]
  <2>1. CASE MovesAside(s)
    <3>1. IsThere => [run EXCEPT !.previous = destination, !.step = "place"] \in Run
      BY <1>1 DEF InstallRun, Run, IsThere, InstallStage
    <3> QED
      BY <2>1, <3>1, RunsTyped, IdleIsRun DEF MovesAside, Ends, Fails, Outcome
  <2>2. CASE Places(s)
    <3>1. [run EXCEPT !.placed = TRUE, !.step = "verify"] \in Run
      BY <1>1 DEF InstallRun, Run, InstallStage
    <3> QED
      BY <1>2, <2>2, <3>1, RunsTyped DEF Places, Goes, InstallStage
  <2>3. CASE Discards(s)
    <3>1. run.previous \in Package
      BY <1>1, <2>3 DEF Discards, IsAt, InstallRun
    <3>2. ASSUME NEW left \in Package
          PROVE  [run EXCEPT !.previous = left, !.step = "undo", !.clean = FALSE] \in Run
      BY <1>1, <3>2 DEF InstallRun, Run, InstallStage
    <3> QED
      BY <1>4, <2>3, <3>1, <3>2, RunsTyped, IdleIsRun DEF Discards, Ends, Outcome
  <2>4. CASE Stages(s) \/ BacksUp(s) \/ InstallVerifies(s) \/ Undoes(s) \/ Restores(s)
    BY <1>2, <2>4, RunsTyped, IdleIsRun DEF Stages, BacksUp, InstallVerifies, Undoes, Restores, Goes,
       Ends, Fails, Outcome, InstallStage
  <2> QED
    BY <2>1, <2>2, <2>3, <2>4 DEF InstallStep
<1>6. destination' \in Package \cup {None} /\ packageBackups' \subseteq Package
  <2>1. Parts(destination) \subseteq Package \/ destination = None
    BY <1>4
  <2>2. Acquired(run.version) \in Package /\ Restored(s) \in Package \cup {None}
    BY <1>1, WholeIsPackage DEF InstallRun, Acquired, Restored
  <2> QED
    BY <2>1, <2>2 DEF InstallStep, Stages, BacksUp, MovesAside, Places, InstallVerifies, Discards, Undoes,
     Restores, packageVars, BackedUp, IsThere
<1> QED
  BY <1>3, <1>5, <1>6

LEMMA AlignmentTyped ==
  ASSUME ScriptTypeOK, AlignmentNext
  PROVE  scripts' \in [Script -> Run] /\ AlignmentTypeOK'
<1> USE DEF ScriptTypeOK, TypeOK, AlignmentTypeOK
<1>1. ASSUME NEW s \in Script, NEW version \in Version, PinStarts(s, version)
      PROVE  scripts' \in [Script -> Run] /\ AlignmentTypeOK'
  <2>1. [kind |-> "pin", step |-> "copy", version |-> version, original |-> config,
         overtaken |-> FALSE] \in Run
    BY DEF Run, PinRun
  <2>2. allowed' \in [EventKind -> Nat]
    BY <1>1, Spending DEF PinStarts, Starts, EventKind
  <2> QED
    BY <1>1, <2>1, <2>2, RunsTyped, IdleIsRun DEF PinStarts, Ends, Outcome, configVars, packageVars
<1>2. ASSUME NEW s \in Script, NEW version \in Version, InstallStarts(s, version)
      PROVE  scripts' \in [Script -> Run] /\ AlignmentTypeOK'
  <2>1. \A others : [kind |-> "install", step |-> "stage", version |-> version,
         found |-> destination, previous |-> None, placed |-> FALSE, clean |-> others = {}] \in Run
    BY DEF Run, InstallRun, InstallStage
  <2>2. \A r \in Script : Runs(r, "install") => [scripts[r] EXCEPT !.clean = FALSE] \in Run
    <3>1. ASSUME NEW run \in InstallRun  PROVE [run EXCEPT !.clean = FALSE] \in Run
      BY DEF Run, InstallRun
    <3> QED
      BY <3>1, RunOfKind
  <2>3. scripts' \in [Script -> Run]
    BY <1>2, <2>1, <2>2 DEF InstallStarts
  <2>4. allowed' \in [EventKind -> Nat]
    BY <1>2, Spending DEF InstallStarts, Starts, EventKind
  <2> QED
    BY <1>2, <2>3, <2>4 DEF InstallStarts, configVars, packageVars
<1>3. ASSUME NEW s \in Script, PinStep(s)
      PROVE  scripts' \in [Script -> Run] /\ AlignmentTypeOK'
  <2>1. UNCHANGED packageVars
    <3> USE DEF packageVars
    <3>1. CASE PinCopies(s) \/ PinWrites(s)
      BY <3>1 DEF PinCopies, PinWrites
    <3>2. CASE PinVerifies(s) \/ PinReverts(s)
      BY <3>2 DEF PinVerifies, PinReverts
    <3> QED
      BY <1>3, <3>1, <3>2 DEF PinStep
  <2> QED
    BY <1>3, <2>1, PinTyped DEF packageVars
<1>4. ASSUME NEW s \in Script, InstallStep(s)
      PROVE  scripts' \in [Script -> Run] /\ AlignmentTypeOK'
  BY <1>4, InstallTyped DEF InstallStep, Stages, BacksUp, MovesAside, Places, InstallVerifies,
     Discards, Undoes, Restores, configVars
<1>5. ASSUME NEW s \in Script, Dies(s)
      PROVE  scripts' \in [Script -> Run] /\ AlignmentTypeOK'
  BY <1>5, Spending, RunsTyped, IdleIsRun DEF Dies, Ends, Outcome, EventKind, configVars, packageVars
<1>6. ASSUME NEW pin \in Version \cup {Moving}, PersonEdits(pin)
      PROVE  scripts' \in [Script -> Run] /\ AlignmentTypeOK'
  <2>2. scripts' \in [Script -> Run]
    BY <1>6, OvertakenTyped DEF PersonEdits
  <2>3. allowed' \in [EventKind -> Nat] /\ allowed["edits"] \in Nat
    BY <1>6, Spending DEF PersonEdits, EventKind
  <2>4. config' \in Config
    BY <1>6, <2>3 DEF PersonEdits, Config
  <2> QED
    BY <1>6, <2>2, <2>3, <2>4 DEF PersonEdits, packageVars
<1> QED
  BY <1>1, <1>2, <1>3, <1>4, <1>5, <1>6 DEF AlignmentNext

LEMMA CheckTyped ==
  ASSUME ScriptTypeOK, NEW s \in Script, CheckStep(s)
  PROVE  /\ scripts' \in [Script -> Run] /\ allowed' \in [EventKind -> Nat]
         /\ releaseCache' \in Remote \cup {None}
<1> DEFINE run == scripts[s]
<1>1. run \in CheckRun
  BY RunOfKind DEF CheckStep, InspectsConfig, InspectsPackage, ReadsReleaseCache, Fetches,
     EmptiesReleaseCache, StoresRelease, Reports, IsAt
<1>2. allowed' \in [EventKind -> Nat]
  BY Spending DEF ScriptTypeOK, TypeOK, AlignmentTypeOK, CheckStep, InspectsConfig, InspectsPackage,
     ReadsReleaseCache, Fetches, EmptiesReleaseCache, StoresRelease, Reports, EventKind
<1>3. \A step \in {"cache", "fetch", "store", "report"} : [run EXCEPT !.step = step] \in Run
  BY <1>1 DEF CheckRun, Run
<1>4. CASE InspectsConfig(s)
  <2>1. [run EXCEPT !.pin = config.pin] \in Run
    BY <1>1 DEF CheckRun, Run, ScriptTypeOK, TypeOK, AlignmentTypeOK, Config
  <2> QED
    BY <1>2, <1>4, <2>1, RunsTyped DEF InspectsConfig, preflightVars, ScriptTypeOK, TypeOK
<1>5. CASE InspectsPackage(s)
  <2>1. destination # None => [run EXCEPT !.package = destination.version] \in Run
    BY <1>1 DEF CheckRun, Run, ScriptTypeOK, TypeOK, AlignmentTypeOK, Package
  <2>2. [run EXCEPT !.package = None] \in Run
    BY <1>1 DEF CheckRun, Run
  <2> QED
    BY <1>2, <1>5, <2>1, <2>2, RunsTyped DEF InspectsPackage, preflightVars, ScriptTypeOK, TypeOK
<1>6. CASE ReadsReleaseCache(s)
  <2>1. ASSUME NEW stale \in BOOLEAN, NEW step \in {"report", "fetch"}
        PROVE  [run EXCEPT !.remote = releaseCache, !.stale = stale, !.step = step] \in Run
    BY <1>1 DEF CheckRun, Run, ScriptTypeOK, TypeOK
  <2>2. PICK stale \in BOOLEAN, step \in {"report", "fetch"} :
          Becomes(s, [run EXCEPT !.remote = releaseCache, !.stale = stale, !.step = step])
    BY <1>1, <1>6 DEF ReadsReleaseCache, CheckRun, Fresh
  <2> QED
    BY <1>2, <1>6, <2>1, <2>2, RunsTyped DEF ReadsReleaseCache, preflightVars, ScriptTypeOK, TypeOK
<1>7. CASE Fetches(s)
  <2>1. [run EXCEPT !.github = github] \in Run /\ [run EXCEPT !.npm = npm] \in Run
    BY <1>1 DEF CheckRun, Run, ScriptTypeOK, TypeOK
  <2> QED
    BY <1>2, <1>3, <1>7, <2>1, RunsTyped DEF Fetches, Goes, preflightVars, ScriptTypeOK, TypeOK
<1>8. CASE EmptiesReleaseCache(s)
  <2> DEFINE remote == [checkedAt |-> run.at, github |-> run.github, npm |-> run.npm]
  <2>1. remote \in Remote
    BY <1>1, <1>8 DEF CheckRun, EmptiesReleaseCache, Remote
  <2>2. [run EXCEPT !.step = "store", !.stale = FALSE, !.remote = remote] \in Run
    BY <1>1, <2>1 DEF CheckRun, Run
  <2> QED
    BY <1>2, <1>8, <2>2, RunsTyped DEF EmptiesReleaseCache
<1>9. CASE StoresRelease(s)
  BY <1>1, <1>2, <1>3, <1>9, RunsTyped DEF StoresRelease, Goes, CheckRun, ScriptTypeOK, TypeOK
<1>10. CASE Reports(s)
  <2>1. Idle(Status(run)) \in Run
    BY IdleIsRun DEF Status, Outcome
  <2> QED
    BY <1>2, <1>10, <2>1, RunsTyped DEF Reports, Ends, preflightVars, ScriptTypeOK, TypeOK
<1> QED
  BY <1>4, <1>5, <1>6, <1>7, <1>8, <1>9, <1>10 DEF CheckStep

LEMMA RefreshTyped ==
  ASSUME ScriptTypeOK, NEW s \in Script, RefreshStep(s)
  PROVE  /\ scripts' \in [Script -> Run] /\ allowed' \in [EventKind -> Nat]
         /\ lock' \in Lock /\ skillCache' \in Checked \cup {None}
<1> DEFINE run == scripts[s]
<1>1. run \in RefreshRun
  BY RunOfKind DEF RefreshStep, ReadsSkillCache, RunsCli, EmptiesSkillCache, StoresSkills, IsAt
<1>2. allowed' \in [EventKind -> Nat]
  BY Spending DEF ScriptTypeOK, TypeOK, AlignmentTypeOK, RefreshStep, ReadsSkillCache, RunsCli,
     EmptiesSkillCache, StoresSkills, EventKind
<1>3. \A step \in {"cache", "cli", "empty", "store"} : [run EXCEPT !.step = step] \in Run
  BY <1>1 DEF RefreshRun, Run
<1>4. CASE ReadsSkillCache(s)
  BY <1>2, <1>3, <1>4, RunsTyped, IdleIsRun DEF ReadsSkillCache, Goes, Ends, Outcome, preflightVars,
     skillVars, ScriptTypeOK, TypeOK
<1>5. CASE RunsCli(s)
  <2>1. lock' \in Lock
    BY <1>5 DEF RunsCli, Lock, Revision, ScriptTypeOK, TypeOK
  <2>2. ASSUME NEW status \in {"current", "updated"}
        PROVE  [run EXCEPT !.step = "empty", !.hashes = lock', !.status = status] \in Run
    BY <1>1, <2>1 DEF RefreshRun, Run
  <2>3. \/ \E status \in {"current", "updated"} :
             Becomes(s, [run EXCEPT !.step = "empty", !.hashes = lock', !.status = status])
        \/ Ends(s, "unknown") \/ Ends(s, "blocked")
    BY <1>5 DEF RunsCli
  <2>4. scripts' \in [Script -> Run]
    BY <2>2, <2>3, RunsTyped, IdleIsRun DEF Ends, Outcome
  <2> QED
    BY <1>2, <1>5, <2>1, <2>4 DEF RunsCli, ScriptTypeOK, TypeOK
<1>6. CASE EmptiesSkillCache(s)
  BY <1>2, <1>3, <1>6, RunsTyped DEF EmptiesSkillCache, Goes, ScriptTypeOK, TypeOK
<1>7. CASE StoresSkills(s)
  <2>1. [checkedAt |-> run.at, hashes |-> run.hashes] \in Checked
    BY <1>1 DEF RefreshRun, Checked
  <2>2. run.status \in Outcome
    BY <1>1 DEF RefreshRun, Outcome
  <2> QED
    BY <1>2, <1>7, <2>1, <2>2, RunsTyped, IdleIsRun DEF StoresSkills, Ends, ScriptTypeOK, TypeOK
<1> QED
  BY <1>4, <1>5, <1>6, <1>7 DEF RefreshStep

LEMMA NextTyped ==
  ASSUME ScriptTypeOK, [Next]_vars
  PROVE  ScriptTypeOK'
<1> USE DEF ScriptTypeOK, TypeOK
<1>1. CASE AlignmentNext /\ UNCHANGED preflightVars
  BY <1>1, AlignmentTyped DEF preflightVars, publications, skillVars
<1>2. ASSUME NEW s \in Script, NEW forced \in BOOLEAN, NEW offline \in BOOLEAN,
             CheckStarts(s, forced, offline)
      PROVE  ScriptTypeOK'
  <2> DEFINE run == [kind |-> "check", step |-> "cache", at |-> clock,
                     forced |-> forced, offline |-> offline, remote |-> None, stale |-> FALSE,
                     github |-> Unread, npm |-> Unread, pin |-> Unread, package |-> Unread]
  <2>1. run \in Run
    BY DEF Run, CheckRun
  <2>2. allowed' \in [EventKind -> Nat]
    BY <1>2, Spending DEF CheckStarts, Starts, EventKind
  <2> QED
    BY <1>2, <2>1, <2>2, RunsTyped DEF CheckStarts, AlignmentTypeOK, preflightVars, publications,
       skillVars, localVars, configVars, packageVars
<1>3. ASSUME NEW s \in Script, NEW forced \in BOOLEAN, NEW offline \in BOOLEAN,
             RefreshStarts(s, forced, offline)
      PROVE  ScriptTypeOK'
  <2> DEFINE run == [kind |-> "refresh", step |-> "cache", at |-> clock,
                     forced |-> forced, offline |-> offline, hashes |-> lock,
                     status |-> "current"]
  <2>1. run \in Run
    BY DEF Run, RefreshRun
  <2>2. allowed' \in [EventKind -> Nat]
    BY <1>3, Spending DEF RefreshStarts, Starts, EventKind
  <2>3. scripts' \in [Script -> Run]
    BY <1>3, <2>1, RunsTyped, IdleIsRun DEF RefreshStarts, Ends, Outcome
  <2> QED
    BY <1>3, <2>2, <2>3 DEF RefreshStarts, AlignmentTypeOK, preflightVars, publications,
       skillVars, localVars, configVars, packageVars
<1>4. ASSUME NEW s \in Script, CheckStep(s)
      PROVE  ScriptTypeOK'
  <2>1. UNCHANGED <<localVars, clock, publications, skillVars>>
    BY <1>4 DEF CheckStep, InspectsConfig, InspectsPackage, ReadsReleaseCache, Fetches,
       EmptiesReleaseCache, StoresRelease, Reports, preflightVars
  <2> QED
    BY <1>4, <2>1, CheckTyped DEF AlignmentTypeOK, publications, skillVars, localVars, configVars,
       packageVars
<1>5. ASSUME NEW s \in Script, RefreshStep(s)
      PROVE  ScriptTypeOK'
  <2>1. UNCHANGED <<localVars, clock, publications, releaseCache>>
    BY <1>5 DEF RefreshStep, ReadsSkillCache, RunsCli, EmptiesSkillCache, StoresSkills, preflightVars
  <2> QED
    BY <1>5, <2>1, RefreshTyped DEF AlignmentTypeOK, publications, localVars, configVars, packageVars
<1>6. CASE Ticks
  BY <1>6, Spending DEF Ticks, AlignmentTypeOK, EventKind, Time, publications, skillVars, localVars,
     configVars, packageVars
<1>7. CASE Publishes
  <2>1. github.version < MaxVersion => github.version + 1 \in Version
    BY AlignmentAssumption DEF Release, Version
  <2>2. npm < MaxVersion => npm + 1 \in Version
    BY AlignmentAssumption DEF Version
  <2>3. [github EXCEPT !.complete = TRUE] \in Release
    BY DEF Release
  <2>4. /\ \/ github.version < MaxVersion
              /\ github' = [version |-> github.version + 1, complete |-> FALSE]
           \/ github' \in {github, [github EXCEPT !.complete = TRUE]}
        /\ npm' = npm \/ (npm < MaxVersion /\ npm' = npm + 1)
    BY <1>7 DEF Publishes
  <2>5. npm' \in Version
    BY <2>2, <2>4
  <2>6. github' \in Release
    <3>1. \A version \in Version : [version |-> version, complete |-> FALSE] \in Release
      BY DEF Release
    <3> QED
      BY <2>1, <2>3, <2>4, <3>1
  <2> QED
    BY <1>7, <2>5, <2>6, Spending DEF Publishes, AlignmentTypeOK, EventKind, skillVars, localVars,
       configVars, packageVars
<1>8. CASE PublishesSkills
  <2>1. upstream' \in Revision
    BY <1>8, PreflightAssumption DEF PublishesSkills, Revision
  <2> QED
    BY <1>8, <2>1, Spending DEF PublishesSkills, AlignmentTypeOK, EventKind, skillVars, localVars,
       configVars, packageVars
<1>9. CASE PersonRestoresSkills
  <2>1. lock' \in Lock
    BY <1>9, PreflightAssumption DEF PersonRestoresSkills, Lock, Revision
  <2> QED
    BY <1>9, <2>1, Spending DEF PersonRestoresSkills, AlignmentTypeOK, EventKind, publications,
       localVars, configVars, packageVars
<1>10. CASE UNCHANGED vars
  BY <1>10 DEF vars, alignmentVars, AlignmentTypeOK, preflightVars, publications, skillVars,
     configVars, packageVars
<1> QED
  BY <1>1, <1>2, <1>3, <1>4, <1>5, <1>6, <1>7, <1>8, <1>9, <1>10 DEF Next, PreflightStep

LEMMA InitTyped == Init => ScriptTypeOK
<1> SUFFICES ASSUME Init  PROVE ScriptTypeOK
  OBVIOUS
<1>1. 1 \in Version /\ 1 \in Revision
  BY AlignmentAssumption, PreflightAssumption DEF Version, Revision
<1> QED
  BY <1>1, AlignmentAssumption, IdleIsRun DEF Init, AlignmentInit, ScriptTypeOK, TypeOK,
     AlignmentTypeOK, Config, Outcome, Time, Release, Lock

\* Files, caches, locks and scripts keep their types.
THEOREM AlignmentTypesHold == Spec => []ScriptTypeOK
  BY InitTyped, NextTyped, PTL DEF Spec

(***************************************************************************)
(* The original package.  Until it is copied, nothing has moved.           *)
(***************************************************************************)

NothingMoved ==
  /\ destination = Original
  /\ \A s \in Script : Runs(s, "install") =>
       scripts[s].step \in {"stage", "backup"} /\ scripts[s].found = Original

OriginalInv == Original # None => Original \in packageBackups \/ NothingMoved

LEMMA InstallKeepsOriginal ==
  ASSUME ScriptTypeOK, OriginalInv, NEW s \in Script, InstallStep(s)
  PROVE  OriginalInv'
<1> SUFFICES ASSUME Original # None, Original \notin packageBackups
             PROVE  Original \in packageBackups' \/ NothingMoved'
  BY DEF OriginalInv, InstallStep, Stages, BacksUp, MovesAside, Places, InstallVerifies, Discards,
     Undoes, Restores, packageVars
<1>1. NothingMoved
  BY DEF OriginalInv
<1>2. Runs(s, "install")
  BY DEF InstallStep, Stages, BacksUp, MovesAside, Places, InstallVerifies, Discards, Undoes,
     Restores, IsAt
<1>3. scripts[s].step \in {"stage", "backup"} /\ scripts[s].found = Original
      /\ scripts[s] \in InstallRun
  BY <1>1, <1>2, RunOfKind DEF NothingMoved
<1>4. CASE Stages(s)
  <2>1. [scripts[s] EXCEPT !.step = "backup"].step = "backup"
        /\ [scripts[s] EXCEPT !.step = "backup"].found = Original
    BY <1>3 DEF InstallRun
  <2>2. Becomes(s, [scripts[s] EXCEPT !.step = "backup"]) \/ Ends(s, "failed")
    BY <1>3, <1>4 DEF Stages, Goes, Fails
  <2>3. Runs(s, "install")' => scripts'[s] = [scripts[s] EXCEPT !.step = "backup"]
    BY <2>2 DEF Ends, Becomes, Idle, Runs, ScriptTypeOK
  <2>4. \A r \in Script \ {s} : scripts'[r] = scripts[r]
    BY <2>2 DEF Ends, Becomes, ScriptTypeOK
  <2>5. \A r \in Script : Runs(r, "install")' =>
          scripts'[r].step \in {"stage", "backup"} /\ scripts'[r].found = Original
    BY <1>1, <2>1, <2>3, <2>4 DEF NothingMoved, Runs
  <2> QED
    BY <1>1, <1>4, <2>5 DEF Stages, NothingMoved, packageVars
<1>5. CASE BacksUp(s)
  BY <1>1, <1>5 DEF BacksUp, NothingMoved, Ends, Fails, Becomes, Idle, Runs, ScriptTypeOK, BackedUp,
     IsThere
<1> QED
  BY <1>3, <1>4, <1>5 DEF InstallStep, Stages, BacksUp, MovesAside, Places, InstallVerifies,
     Discards, Undoes, Restores, IsAt

(***************************************************************************)
(* What the steps of everything but an installation do to installations.   *)
(***************************************************************************)

Continues(r) ==
  Runs(r, "install") /\ scripts'[r] \in {scripts[r], [scripts[r] EXCEPT !.clean = FALSE]}

Begins(r) ==
  /\ scripts'[r].step = "stage" /\ scripts'[r].found = destination
  /\ scripts'[r].previous = None /\ ~scripts'[r].placed
  /\ scripts'[r].clean => \A t \in Script : ~Runs(t, "install")
  /\ \A t \in Script \ {r} : Runs(t, "install")' => ~scripts'[t].clean

Elsewhere ==
  /\ UNCHANGED packageVars
  /\ \A r \in Script :
       /\ Runs(r, "install")' => Continues(r) \/ Begins(r)
       /\ Runs(r, "install") => Continues(r) \/ scripts'[r] = Idle("died")

LEMMA OtherRuns ==
  ASSUME ScriptTypeOK, NEW s \in Script, ~Runs(s, "install"), NEW record,
         record.kind # "install", Becomes(s, record), UNCHANGED packageVars
  PROVE  Elsewhere
  BY DEF ScriptTypeOK, Becomes, Elsewhere, Continues, Runs

LEMMA OtherSteps ==
  ASSUME ScriptTypeOK, [Next]_vars, \A s \in Script : ~InstallStep(s)
  PROVE  Elsewhere
<1>1. ASSUME NEW s \in Script, NEW version \in Version, InstallStarts(s, version)
      PROVE  Elsewhere
  <2> DEFINE others == {r \in Script : Runs(r, "install")}
  <2>1. ~Runs(s, "install")
    BY <1>1 DEF InstallStarts, Starts, Runs
  <2>2. scripts'[s] = [kind |-> "install", step |-> "stage", version |-> version,
                       found |-> destination, previous |-> None, placed |-> FALSE,
                       clean |-> others = {}]
    BY <1>1 DEF InstallStarts
  <2>3. \A r \in Script \ {s} : IF r \in others THEN scripts'[r] = [scripts[r] EXCEPT !.clean = FALSE]
                                 ELSE scripts'[r] = scripts[r]
    BY <1>1 DEF InstallStarts
  <2>4. \A r \in others : ~[scripts[r] EXCEPT !.clean = FALSE].clean
    <3>1. ASSUME NEW run \in InstallRun  PROVE ~[run EXCEPT !.clean = FALSE].clean
      BY DEF InstallRun
    <3> QED
      BY <3>1, RunOfKind
  <2>5. Begins(s)
    <3>1. scripts'[s].clean => \A t \in Script : ~Runs(t, "install")
      <4>1. \A clean : [kind |-> "install", step |-> "stage", version |-> version,
                       found |-> destination, previous |-> None, placed |-> FALSE,
                       clean |-> clean].clean = clean
        OBVIOUS
      <4>2. scripts'[s].clean = (others = {})
        BY <2>2, <4>1
      <4> QED
        BY <4>2
    <3>2. \A t \in Script \ {s} : Runs(t, "install")' => ~scripts'[t].clean
      BY <2>3, <2>4 DEF Runs
    <3>3. /\ scripts'[s].step = "stage" /\ scripts'[s].found = destination
          /\ scripts'[s].previous = None /\ ~scripts'[s].placed
      BY <2>2
    <3> QED
      BY <3>1, <3>2, <3>3 DEF Begins
  <2>6. \A r \in Script \ {s} : Runs(r, "install") => Continues(r)
    BY <2>3 DEF Continues
  <2>7. \A r \in Script \ {s} : Runs(r, "install")' => Runs(r, "install")
    BY <2>3 DEF Runs
  <2> QED
    BY <1>1, <2>1, <2>5, <2>6, <2>7 DEF InstallStarts, Elsewhere
<1>2. ASSUME NEW s \in Script, Dies(s)
      PROVE  Elsewhere
  BY <1>2 DEF Dies, Ends, Becomes, Idle, Elsewhere, Continues, Runs, ScriptTypeOK
<1>3. ASSUME NEW pin \in Version \cup {Moving}, PersonEdits(pin)
      PROVE  Elsewhere
  BY <1>3, OvertakenTyped, MarksTyped DEF PersonEdits, Elsewhere, Continues, Runs
<1>4. ASSUME NEW s \in Script, NEW version \in Version, PinStarts(s, version)
      PROVE  Elsewhere
  BY <1>4, OtherRuns DEF PinStarts, Starts, Runs, Ends, Idle
<1>5. ASSUME NEW s \in Script, PinStep(s)
      PROVE  Elsewhere
  <2>1. UNCHANGED packageVars
    BY <1>5 DEF PinStep, PinCopies, PinWrites, PinVerifies, PinReverts, packageVars
  <2> QED
    BY <1>5, <2>1, PinMoves, MarksTyped DEF Elsewhere, Continues, Runs
<1>6. ASSUME NEW s \in Script, NEW forced \in BOOLEAN, NEW offline \in BOOLEAN,
             CheckStarts(s, forced, offline) \/ RefreshStarts(s, forced, offline)
      PROVE  Elsewhere
  BY <1>6, OtherRuns DEF CheckStarts, RefreshStarts, Starts, Runs, Ends, Idle, localVars
<1>7. ASSUME NEW s \in Script, CheckStep(s)
      PROVE  Elsewhere
  <2>1. Runs(s, "check") /\ scripts[s] \in CheckRun
    BY <1>7, RunOfKind DEF CheckStep, InspectsConfig, InspectsPackage, ReadsReleaseCache, Fetches,
       EmptiesReleaseCache, StoresRelease, Reports, IsAt
  <2>2. UNCHANGED packageVars
    BY <1>7 DEF CheckStep, InspectsConfig, InspectsPackage, ReadsReleaseCache, Fetches,
       EmptiesReleaseCache, StoresRelease, Reports, localVars
  <2>3. \A field, value : field # "kind" =>
          [scripts[s] EXCEPT ![field] = value].kind = "check"
    BY <2>1 DEF CheckRun
  <2>4. PICK record : record.kind # "install" /\ Becomes(s, record)
    <3>1. CASE InspectsConfig(s) \/ InspectsPackage(s) \/ Fetches(s) \/ StoresRelease(s) \/ Reports(s)
      BY <2>3, <3>1 DEF InspectsConfig, InspectsPackage, Fetches, StoresRelease, Reports, Goes, Ends,
         Idle
    <3>2. CASE ReadsReleaseCache(s)
      BY <2>1, <3>2 DEF ReadsReleaseCache, CheckRun
    <3>3. CASE EmptiesReleaseCache(s)
      BY <2>1, <3>3 DEF EmptiesReleaseCache, CheckRun
    <3> QED
      BY <1>7, <3>1, <3>2, <3>3 DEF CheckStep
  <2> QED
    BY <2>1, <2>2, <2>4, OtherRuns DEF Runs
<1>8. ASSUME NEW s \in Script, RefreshStep(s)
      PROVE  Elsewhere
  <2>1. Runs(s, "refresh") /\ scripts[s] \in RefreshRun
    BY <1>8, RunOfKind DEF RefreshStep, ReadsSkillCache, RunsCli, EmptiesSkillCache, StoresSkills, IsAt
  <2>2. UNCHANGED packageVars
    BY <1>8 DEF RefreshStep, ReadsSkillCache, RunsCli, EmptiesSkillCache, StoresSkills, localVars
  <2>3. \A step : [scripts[s] EXCEPT !.step = step].kind = "refresh"
    BY <2>1 DEF RefreshRun
  <2>4. PICK record : record.kind # "install" /\ Becomes(s, record)
    <3>1. CASE ~RunsCli(s)
      BY <1>8, <2>3, <3>1 DEF RefreshStep, ReadsSkillCache, EmptiesSkillCache, StoresSkills, Goes,
         Ends, Idle
    <3>2. CASE RunsCli(s)
      BY <2>1, <3>2 DEF RunsCli, Ends, Idle, RefreshRun
    <3> QED
      BY <3>1, <3>2
  <2> QED
    BY <2>1, <2>2, <2>4, OtherRuns DEF Runs
<1>9. CASE UNCHANGED <<packageVars, scripts>>
  BY <1>9 DEF Elsewhere, Continues, Runs
<1> QED
  BY <1>1, <1>2, <1>3, <1>4, <1>5, <1>6, <1>7, <1>8, <1>9 DEF Next, AlignmentNext, PreflightStep, Ticks,
     Publishes, PublishesSkills, PersonRestoresSkills, localVars, vars, alignmentVars

LEMMA OthersKeepOriginal ==
  ASSUME ScriptTypeOK, OriginalInv, Elsewhere
  PROVE  OriginalInv'
<1>1. \A r \in Script : Continues(r) =>
        scripts'[r].step = scripts[r].step /\ scripts'[r].found = scripts[r].found
  <2>1. ASSUME NEW run \in InstallRun
        PROVE  [run EXCEPT !.clean = FALSE].step = run.step /\ [run EXCEPT !.clean = FALSE].found = run.found
    BY DEF InstallRun
  <2> QED
    BY <2>1, RunOfKind DEF Continues
<1> QED
  BY <1>1 DEF OriginalInv, NothingMoved, Elsewhere, Begins, Continues, packageVars

\* The package a person had is at the destination or among the backups, whichever
\* runs overlap, fail or are killed.
THEOREM OriginalsSurvive == Spec => []OriginalSurvives
<1>1. Init => OriginalInv
  BY DEF Init, AlignmentInit, OriginalInv, NothingMoved, Runs, Idle
<1>2. ScriptTypeOK /\ OriginalInv /\ [Next]_vars => OriginalInv'
  BY InstallKeepsOriginal, OtherSteps, OthersKeepOriginal
<1>3. OriginalInv => OriginalSurvives
  BY DEF OriginalInv, OriginalSurvives, NothingMoved
<1> QED
  BY <1>1, <1>2, <1>3, AlignmentTypesHold, PTL DEF Spec

(***************************************************************************)
(* A failed installation.  While a run is the only one, and nothing it has *)
(* to undo is in parts, the package it found is where its step says.       *)
(***************************************************************************)

KnowsFound(run, there) ==
  /\ run.step \in {"stage", "backup", "aside"} =>
       there = run.found /\ run.previous = None /\ ~run.placed
  /\ run.step = "place" =>
       there = None /\ run.previous = run.found /\ ~run.placed
  /\ run.step = "verify" => run.previous = run.found /\ run.placed
  /\ run.step = "undo" =>
       run.previous = run.found /\ (~run.placed => there = None)
  /\ run.step = "restore" => there = None /\ run.previous = run.found

CleanInv ==
  \A s \in Script : Runs(s, "install") /\ scripts[s].clean =>
    /\ \A r \in Script \ {s} : ~Runs(r, "install")
    /\ KnowsFound(scripts[s], destination)

RestoresFound(s) ==
  (/\ Runs(s, "install") /\ scripts[s].clean
   /\ scripts'[s] = Idle("failed")
   /\ scripts[s].step \in {"undo", "restore"} => allowed' = allowed)
  => destination' = scripts[s].found

\* A run goes to another step, and keeps the rest.
Keeps(s, step) ==
  /\ Runs(s, "install")'
  /\ scripts'[s].step = step
  /\ scripts'[s].found = scripts[s].found
  /\ scripts'[s].previous = scripts[s].previous
  /\ scripts'[s].placed = scripts[s].placed
  /\ scripts'[s].clean = scripts[s].clean

LEMMA GoesKeeps ==
  ASSUME ScriptTypeOK, NEW s \in Script, scripts[s] \in InstallRun, NEW step, Goes(s, step)
  PROVE  Keeps(s, step)
  BY DEF Goes, Becomes, Keeps, InstallRun, Runs, ScriptTypeOK

LEMMA InstallStepOf ==
  ASSUME ScriptTypeOK, CleanInv, NEW s \in Script, InstallStep(s)
  PROVE  /\ Runs(s, "install")' /\ scripts'[s].clean =>
              scripts[s].clean /\ KnowsFound(scripts'[s], destination')
         /\ RestoresFound(s)
<1>1. Runs(s, "install") /\ scripts[s] \in InstallRun
  BY RunOfKind DEF InstallStep, Stages, BacksUp, MovesAside, Places, InstallVerifies, Discards,
     Undoes, Restores, IsAt
<1>2. \A how : Ends(s, how) => scripts'[s] = Idle(how) /\ ~Runs(s, "install")'
  BY DEF Ends, Becomes, ScriptTypeOK, Idle, Runs
<1>3. Idle("done") # Idle("failed") /\ \A how : Idle(how).kind # "install"
  BY DEF Idle
<1>4. scripts[s].clean => KnowsFound(scripts[s], destination)
  BY <1>1 DEF CleanInv
<1>5. Fails(s) => scripts'[s] = Idle("failed") /\ ~Runs(s, "install")' /\ allowed' # allowed
  BY <1>2, Spending DEF Fails, ScriptTypeOK, EventKind
<1>6. \A step : Goes(s, step) => Keeps(s, step) /\ scripts'[s] # Idle("failed")
  BY <1>1, <1>3, GoesKeeps DEF Keeps, Runs
<1> HIDE DEF ScriptTypeOK
<1>7. CASE Stages(s)
  BY <1>4, <1>5, <1>6, <1>7 DEF Stages, IsAt, packageVars, KnowsFound, RestoresFound, Keeps
<1>8. CASE BacksUp(s)
  BY <1>2, <1>4, <1>5, <1>6, <1>8 DEF BacksUp, IsAt, KnowsFound, RestoresFound, Keeps
<1>9. CASE MovesAside(s)
  <2>1. CASE IsThere /\ Becomes(s, [scripts[s] EXCEPT !.previous = destination, !.step = "place"])
    <3>1. /\ Runs(s, "install")'
          /\ scripts'[s].step = "place" /\ scripts'[s].previous = destination
          /\ scripts'[s].found = scripts[s].found /\ scripts'[s].placed = scripts[s].placed
          /\ scripts'[s].clean = scripts[s].clean
      BY <1>1, <2>1 DEF Becomes, InstallRun, Runs, ScriptTypeOK
    <3>2. destination' = None
      BY <1>2, <1>3, <1>5, <1>9, <3>1 DEF MovesAside
    <3> QED
      BY <1>3, <1>4, <1>9, <3>1, <3>2 DEF MovesAside, IsAt, KnowsFound, RestoresFound, Runs
  <2> QED
    BY <1>2, <1>4, <1>5, <1>9, <2>1 DEF MovesAside, IsAt, KnowsFound, RestoresFound
<1>10. CASE Places(s)
  <2>1. CASE Becomes(s, [scripts[s] EXCEPT !.placed = TRUE, !.step = "verify"])
    <3>1. /\ Runs(s, "install")'
          /\ scripts'[s].step = "verify" /\ scripts'[s].previous = scripts[s].previous
          /\ scripts'[s].found = scripts[s].found /\ scripts'[s].placed
          /\ scripts'[s].clean = scripts[s].clean
      BY <1>1, <2>1 DEF Becomes, InstallRun, Runs, ScriptTypeOK
    <3> QED
      BY <1>3, <1>4, <1>10, <3>1 DEF Places, IsAt, KnowsFound, RestoresFound, Runs
  <2>2. CASE Goes(s, "undo") /\ (scripts[s].clean => destination' = None)
    BY <1>4, <1>6, <1>10, <2>2 DEF Places, IsAt, KnowsFound, RestoresFound, Keeps
  <2> QED
    BY <1>4, <1>10, <2>1, <2>2 DEF Places, IsAt, KnowsFound
<1>11. CASE InstallVerifies(s)
  BY <1>2, <1>3, <1>4, <1>6, <1>11 DEF InstallVerifies, IsAt, packageVars, KnowsFound, RestoresFound,
     Keeps
<1>12. CASE Discards(s)
  <2>1. ASSUME NEW left,
               Becomes(s, [scripts[s] EXCEPT !.previous = left, !.step = "undo", !.clean = FALSE])
        PROVE  ~scripts'[s].clean /\ scripts'[s] # Idle("failed")
    <3>1. scripts'[s].kind = "install" /\ ~scripts'[s].clean
      BY <1>1, <2>1 DEF Becomes, InstallRun, ScriptTypeOK
    <3> QED
      BY <1>3, <3>1
  <2> QED
    BY <1>2, <1>3, <1>12, <2>1 DEF Discards, RestoresFound
<1>13. CASE Undoes(s)
  BY <1>4, <1>5, <1>6, <1>13 DEF Undoes, IsAt, KnowsFound, RestoresFound, Keeps
<1>14. CASE Restores(s)
  BY <1>2, <1>4, <1>5, <1>14 DEF Restores, Restored, IsAt, KnowsFound, RestoresFound
<1> QED
  BY <1>7, <1>8, <1>9, <1>10, <1>11, <1>12, <1>13, <1>14 DEF InstallStep

LEMMA InstallKeepsClean ==
  ASSUME ScriptTypeOK, CleanInv, NEW s \in Script, InstallStep(s)
  PROVE  CleanInv' /\ \A r \in Script : RestoresFound(r)
<1>1. Runs(s, "install")
  BY DEF InstallStep, Stages, BacksUp, MovesAside, Places, InstallVerifies, Discards,
     Undoes, Restores, IsAt
<1>2. \A r \in Script \ {s} : scripts'[r] = scripts[r]
  BY DEF InstallStep, Stages, BacksUp, MovesAside, Places, InstallVerifies, Discards,
     Undoes, Restores, Becomes, Goes, Ends, Fails, ScriptTypeOK
<1>3. \A r \in Script \ {s} : Runs(r, "install") => ~scripts[r].clean
  BY <1>1 DEF CleanInv
<1>4. ASSUME Runs(s, "install")', scripts'[s].clean
      PROVE  /\ \A r \in Script \ {s} : ~Runs(r, "install")'
             /\ KnowsFound(scripts'[s], destination')
  BY <1>1, <1>2, <1>4, InstallStepOf DEF CleanInv, Runs
<1>5. CleanInv'
  BY <1>2, <1>3, <1>4 DEF CleanInv, Runs
<1>6. \A r \in Script \ {s} : RestoresFound(r)
  BY <1>3 DEF RestoresFound
<1> QED
  BY <1>5, <1>6, InstallStepOf

LEMMA OthersKeepClean ==
  ASSUME ScriptTypeOK, CleanInv, Elsewhere
  PROVE  CleanInv' /\ \A r \in Script : RestoresFound(r)
<1>1. \A r \in Script : Continues(r) =>
        /\ scripts'[r].clean => scripts'[r] = scripts[r]
        /\ scripts'[r].kind = "install"
  <2>1. ASSUME NEW run \in InstallRun
        PROVE  ~[run EXCEPT !.clean = FALSE].clean /\ [run EXCEPT !.clean = FALSE].kind = "install"
    BY DEF InstallRun
  <2> QED
    BY <2>1, RunOfKind DEF Continues, Runs
<1>2. ASSUME NEW s \in Script, Runs(s, "install")', scripts'[s].clean
      PROVE  /\ \A r \in Script \ {s} : ~Runs(r, "install")'
             /\ KnowsFound(scripts'[s], destination')
  <2>1. CASE Begins(s)
    <3>1. \A r \in Script \ {s} : ~Runs(r, "install")
      BY <1>2, <2>1 DEF Begins
    <3>2. \A r \in Script \ {s} : Runs(r, "install")' => Begins(r)
      BY <3>1 DEF Elsewhere, Continues
    <3>3. \A r \in Script \ {s} : ~Begins(r) \/ ~Runs(r, "install")'
      BY <1>2 DEF Begins
    <3> QED
      BY <2>1, <3>2, <3>3 DEF Begins, KnowsFound, Elsewhere, packageVars
  <2>2. CASE Continues(s)
    <3>1. scripts'[s] = scripts[s] /\ Runs(s, "install")
      BY <1>1, <1>2, <2>2 DEF Continues
    <3>2. \A r \in Script \ {s} : ~Runs(r, "install")
      BY <1>2, <3>1 DEF CleanInv
    <3>3. \A r \in Script \ {s} : ~Runs(r, "install")'
      BY <1>2, <3>2 DEF Elsewhere, Continues, Begins
    <3> QED
      BY <1>2, <3>1, <3>3 DEF CleanInv, Elsewhere, packageVars
  <2> QED
    BY <1>2, <2>1, <2>2 DEF Elsewhere
<1>3. ASSUME NEW r \in Script, Runs(r, "install")
      PROVE  scripts'[r] # Idle("failed")
  <2>1. Idle("failed").kind # "install" /\ Idle("failed") # Idle("died")
    BY DEF Idle
  <2> QED
    BY <1>1, <1>3, <2>1 DEF Elsewhere
<1> QED
  BY <1>2, <1>3 DEF CleanInv, RestoresFound

\* An installation that fails by itself leaves the package that it found.
THEOREM FailedInstallsRestore == Spec => FailedInstallRestores
<1>1. Init => CleanInv
  BY DEF Init, AlignmentInit, CleanInv, Runs, Idle
<1>2. ScriptTypeOK /\ CleanInv /\ [Next]_vars => CleanInv' /\ \A s \in Script : RestoresFound(s)
  BY InstallKeepsClean, OtherSteps, OthersKeepClean
<1>3. (\A s \in Script : RestoresFound(s)) =>
      [\A s \in Script :
         /\ Runs(s, "install") /\ scripts[s].clean
         /\ scripts'[s] = Idle("failed")
         /\ scripts[s].step \in {"undo", "restore"} => allowed' = allowed
         => destination' = scripts[s].found]_alignmentVars
  BY DEF RestoresFound
<1> QED
  BY <1>1, <1>2, <1>3, AlignmentTypesHold, PTL DEF Spec, FailedInstallRestores

(***************************************************************************)
(* Edits of the configuration.  What a run copied holds the edits until    *)
(* others come; after its own writing they are among those it read.        *)
(***************************************************************************)

EditsAreCopied == \E copy \in configBackups : config.edits \subseteq copy.edits

KnowsEdits(s) ==
  Runs(s, "pin") /\ scripts[s].step # "copy" /\ ~scripts[s].overtaken =>
    \/ EditsAreCopied
    \/ /\ scripts[s].step \in {"verify", "revert"}
       /\ config.edits \subseteq scripts[s].original.edits

EditsInv == \A s \in Script : KnowsEdits(s)

BacksUpEdits(s) ==
  (/\ Runs(s, "pin") /\ ~scripts[s].overtaken
   /\ PinWrites(s) \/ PinReverts(s)
   /\ ~(config.edits \subseteq config'.edits))
  => \E copy \in configBackups : config.edits \subseteq copy.edits

\* The configuration and its copies are left alone, and so are the pin runs, but
\* for one that begins.
NoPinMoves ==
  /\ UNCHANGED configVars
  /\ \A r \in Script : Runs(r, "pin")' =>
       scripts'[r] = scripts[r] \/ scripts'[r].step = "copy"

LEMMA ElsewhereNoPin ==
  ASSUME ScriptTypeOK, NEW s \in Script, NEW record,
         record.kind # "pin" \/ record.step = "copy",
         Becomes(s, record), UNCHANGED configVars
  PROVE  NoPinMoves
  BY DEF ScriptTypeOK, Becomes, NoPinMoves, Runs

\* A run goes on as what it is, or ends, and the others stay.
StaysOf(s, kind) ==
  /\ Runs(s, kind) /\ scripts'[s].kind \in {kind, "idle"}
  /\ \A r \in Script \ {s} : scripts'[r] = scripts[r]

LEMMA KindsStay ==
  ASSUME ScriptTypeOK, NEW s \in Script
  PROVE  /\ CheckStep(s) => StaysOf(s, "check") /\ (~Reports(s) => scripts'[s].kind = "check")
         /\ RefreshStep(s) => StaysOf(s, "refresh")
         /\ InstallStep(s) => StaysOf(s, "install")
<1> DEFINE run == scripts[s]
<1>0. ASSUME NEW record, Becomes(s, record)
      PROVE  scripts'[s] = record /\ \A r \in Script \ {s} : scripts'[r] = scripts[r]
  BY <1>0 DEF Becomes, ScriptTypeOK
<1>1. ASSUME CheckStep(s)
      PROVE  /\ Runs(s, "check") /\ scripts'[s].kind \in {"check", "idle"}
             /\ ~Reports(s) => scripts'[s].kind = "check"
             /\ \A r \in Script \ {s} : scripts'[r] = scripts[r]
  <2>1. Runs(s, "check") /\ run \in CheckRun
    BY <1>1, RunOfKind DEF CheckStep, InspectsConfig, InspectsPackage, ReadsReleaseCache, Fetches,
       EmptiesReleaseCache, StoresRelease, Reports, IsAt
  <2>2. \A field, value : field # "kind" => [run EXCEPT ![field] = value].kind = "check"
    BY <2>1 DEF CheckRun
  <2>3. CASE InspectsConfig(s) \/ InspectsPackage(s) \/ Fetches(s) \/ StoresRelease(s)
    <3>1. PICK record : record.kind = "check" /\ Becomes(s, record)
      BY <2>2, <2>3 DEF InspectsConfig, InspectsPackage, Fetches, StoresRelease, Goes
    <3> QED
      BY <1>0, <2>1, <3>1
  <2>4. CASE ReadsReleaseCache(s)
    <3>1. PICK record : record.kind = "check" /\ Becomes(s, record)
      BY <2>1, <2>4 DEF ReadsReleaseCache, CheckRun
    <3> QED
      BY <1>0, <2>1, <3>1
  <2>5. CASE EmptiesReleaseCache(s)
    <3>1. PICK record : record.kind = "check" /\ Becomes(s, record)
      BY <2>1, <2>5 DEF EmptiesReleaseCache, CheckRun
    <3> QED
      BY <1>0, <2>1, <3>1
  <2>6. CASE Reports(s)
    BY <1>0, <2>1, <2>6 DEF Reports, Ends, Idle
  <2> QED
    BY <1>1, <2>3, <2>4, <2>5, <2>6 DEF CheckStep
<1>2. ASSUME RefreshStep(s)
      PROVE  StaysOf(s, "refresh")
  <2>1. Runs(s, "refresh") /\ run \in RefreshRun
    BY <1>2, RunOfKind DEF RefreshStep, ReadsSkillCache, RunsCli, EmptiesSkillCache, StoresSkills, IsAt
  <2>2. \A step : [run EXCEPT !.step = step].kind = "refresh"
    BY <2>1 DEF RefreshRun
  <2>3. ASSUME NEW record, record.kind \in {"refresh", "idle"}, Becomes(s, record)
        PROVE  StaysOf(s, "refresh")
    BY <1>0, <2>1, <2>3 DEF StaysOf
  <2>4. ASSUME NEW step, Goes(s, step)
        PROVE  StaysOf(s, "refresh")
    <3>1. PICK record : record = [run EXCEPT !.step = step]
      OBVIOUS
    <3>2. record.kind = "refresh" /\ Becomes(s, record)
      BY <2>2, <2>4, <3>1 DEF Goes
    <3> QED
      BY <2>3, <3>2
  <2>5. ASSUME NEW how, Ends(s, how)
        PROVE  StaysOf(s, "refresh")
    BY <2>3, <2>5 DEF Ends, Idle
  <2>6. CASE RunsCli(s)
    <3>1. \A hashes, status : [run EXCEPT !.step = "empty", !.hashes = hashes,
                                         !.status = status].kind = "refresh"
      BY <2>1 DEF RefreshRun
    <3>2. ASSUME NEW status, Becomes(s, [run EXCEPT !.step = "empty", !.hashes = lock',
                                                   !.status = status])
          PROVE  StaysOf(s, "refresh")
      <4>1. PICK record : record = [run EXCEPT !.step = "empty", !.hashes = lock',
                                               !.status = status]
        OBVIOUS
      <4>2. record.kind = "refresh" /\ Becomes(s, record)
        BY <3>1, <3>2, <4>1
      <4> QED
        BY <2>3, <4>2
    <3> QED
      BY <2>5, <2>6, <3>2 DEF RunsCli
  <2> QED
    BY <1>2, <2>4, <2>5, <2>6 DEF RefreshStep, ReadsSkillCache, EmptiesSkillCache, StoresSkills
<1>3. ASSUME InstallStep(s)
      PROVE  StaysOf(s, "install")
  <2>1. Runs(s, "install") /\ run \in InstallRun
    BY <1>3, RunOfKind DEF InstallStep, Stages, BacksUp, MovesAside, Places, InstallVerifies,
       Discards, Undoes, Restores, IsAt
  <2>2. /\ \A step : [run EXCEPT !.step = step].kind = "install"
        /\ \A previous : [run EXCEPT !.previous = previous, !.step = "place"].kind = "install"
        /\ [run EXCEPT !.placed = TRUE, !.step = "verify"].kind = "install"
        /\ \A left : [run EXCEPT !.previous = left, !.step = "undo", !.clean = FALSE].kind = "install"
    BY <2>1 DEF InstallRun
  <2>3. ASSUME NEW record, record.kind \in {"install", "idle"}, Becomes(s, record)
        PROVE  StaysOf(s, "install")
    BY <1>0, <2>1, <2>3 DEF StaysOf
  <2>4. ASSUME NEW step, Goes(s, step)
        PROVE  StaysOf(s, "install")
    <3>1. PICK record : record = [run EXCEPT !.step = step]
      OBVIOUS
    <3>2. record.kind = "install" /\ Becomes(s, record)
      BY <2>2, <2>4, <3>1 DEF Goes
    <3> QED
      BY <2>3, <3>2
  <2>5. ASSUME NEW how, Ends(s, how)
        PROVE  StaysOf(s, "install")
    BY <2>3, <2>5 DEF Ends, Idle
  <2>6. CASE Stages(s) \/ BacksUp(s) \/ InstallVerifies(s) \/ Undoes(s) \/ Restores(s)
    BY <2>4, <2>5, <2>6 DEF Stages, BacksUp, InstallVerifies, Undoes, Restores, Fails
  <2>7. CASE MovesAside(s)
    <3>1. ASSUME NEW previous, Becomes(s, [run EXCEPT !.previous = previous, !.step = "place"])
          PROVE  StaysOf(s, "install")
      <4>1. PICK record : record = [run EXCEPT !.previous = previous, !.step = "place"]
        OBVIOUS
      <4>2. record.kind = "install" /\ Becomes(s, record)
        BY <2>2, <3>1, <4>1
      <4> QED
        BY <2>3, <4>2
    <3> QED
      BY <2>5, <2>7, <3>1 DEF MovesAside, Fails
  <2>8. CASE Places(s)
    <3>1. ASSUME Becomes(s, [run EXCEPT !.placed = TRUE, !.step = "verify"])
          PROVE  StaysOf(s, "install")
      <4>1. PICK record : record = [run EXCEPT !.placed = TRUE, !.step = "verify"]
        OBVIOUS
      <4>2. record.kind = "install" /\ Becomes(s, record)
        BY <2>2, <3>1, <4>1
      <4> QED
        BY <2>3, <4>2
    <3> QED
      BY <2>4, <2>8, <3>1 DEF Places
  <2>9. CASE Discards(s)
    <3>1. ASSUME NEW left, Becomes(s, [run EXCEPT !.previous = left, !.step = "undo",
                                                  !.clean = FALSE])
          PROVE  StaysOf(s, "install")
      <4>1. PICK record : record = [run EXCEPT !.previous = left, !.step = "undo", !.clean = FALSE]
        OBVIOUS
      <4>2. record.kind = "install" /\ Becomes(s, record)
        BY <2>2, <3>1, <4>1
      <4> QED
        BY <2>3, <4>2
    <3> QED
      BY <2>5, <2>9, <3>1 DEF Discards
  <2> QED
    BY <1>3, <2>6, <2>7, <2>8, <2>9 DEF InstallStep
<1> QED
  BY <1>1, <1>2, <1>3 DEF StaysOf

LEMMA OtherPinSteps ==
  ASSUME ScriptTypeOK, [Next]_vars, \A s \in Script : ~PinStep(s),
         \A pin \in Version \cup {Moving} : ~PersonEdits(pin)
  PROVE  NoPinMoves
<1>1. ASSUME NEW s \in Script, NEW version \in Version, PinStarts(s, version)
      PROVE  NoPinMoves
  BY <1>1, ElsewhereNoPin DEF PinStarts, Ends, Idle
<1>2. ASSUME NEW s \in Script, NEW version \in Version, InstallStarts(s, version)
      PROVE  NoPinMoves
  <2>1. \A r \in Script : Runs(r, "install") => [scripts[r] EXCEPT !.clean = FALSE].kind = "install"
    <3>1. ASSUME NEW run \in InstallRun  PROVE [run EXCEPT !.clean = FALSE].kind = "install"
      BY DEF InstallRun
    <3> QED
      BY <3>1, RunOfKind
  <2>2. scripts'[s].kind = "install"
    BY <1>2 DEF InstallStarts
  <2>3. \A r \in Script \ {s} :
          scripts'[r] = scripts[r]
          \/ (Runs(r, "install") /\ scripts'[r] = [scripts[r] EXCEPT !.clean = FALSE])
    BY <1>2 DEF InstallStarts
  <2> QED
    BY <1>2, <2>1, <2>2, <2>3 DEF InstallStarts, NoPinMoves, Runs
<1>3. ASSUME NEW s \in Script, Dies(s)
      PROVE  NoPinMoves
  BY <1>3, ElsewhereNoPin DEF Dies, Ends, Idle
<1>4. ASSUME NEW s \in Script, InstallStep(s) \/ CheckStep(s) \/ RefreshStep(s)
      PROVE  NoPinMoves
  <2>1. UNCHANGED configVars
    BY <1>4 DEF InstallStep, Stages, BacksUp, MovesAside, Places, InstallVerifies, Discards, Undoes,
       Restores, CheckStep, InspectsConfig, InspectsPackage, ReadsReleaseCache, Fetches,
       EmptiesReleaseCache, StoresRelease, Reports, RefreshStep, ReadsSkillCache, RunsCli,
       EmptiesSkillCache, StoresSkills, localVars
  <2> QED
    BY <1>4, <2>1, KindsStay DEF NoPinMoves, StaysOf, Runs
<1>5. ASSUME NEW s \in Script, NEW forced \in BOOLEAN, NEW offline \in BOOLEAN,
             CheckStarts(s, forced, offline) \/ RefreshStarts(s, forced, offline)
      PROVE  NoPinMoves
  BY <1>5, ElsewhereNoPin DEF CheckStarts, RefreshStarts, Ends, Idle, localVars
<1>6. CASE UNCHANGED <<configVars, scripts>>
  BY <1>6 DEF NoPinMoves
<1> QED
  BY <1>1, <1>2, <1>3, <1>4, <1>5, <1>6 DEF Next, AlignmentNext, PreflightStep, Ticks, Publishes,
     PublishesSkills, PersonRestoresSkills, localVars, vars, alignmentVars

\* Edits that come in mark every run that has its copy.
LEMMA OvertakenKnow ==
  ASSUME ScriptTypeOK, NEW r \in Script, KnowsEdits(r), Runs(r, "pin")',
         scripts'[r] = Overtaken(config')[r], configBackups \subseteq configBackups'
  PROVE  KnowsEdits(r)'
<1>1. \/ scripts'[r] = scripts[r]
      \/ Runs(r, "pin") /\ scripts'[r] = Marked(r)
  BY OvertakenTyped
<1>2. CASE Runs(r, "pin") /\ scripts'[r] = Marked(r)
  BY <1>2, MarksTyped DEF KnowsEdits
<1>3. CASE scripts'[r] = scripts[r] /\ (scripts[r].step = "copy" \/ scripts[r].overtaken)
  BY <1>3 DEF KnowsEdits
<1>4. CASE scripts'[r] = scripts[r] /\ scripts[r].step # "copy" /\ ~scripts[r].overtaken
  <2>1. Runs(r, "pin") /\ scripts[r] # Marked(r)
    BY <1>4, MarksTyped DEF Runs
  <2>2. config'.edits \subseteq config.edits
    BY <1>4, <2>1 DEF Overtaken, Marked
  <2> QED
    BY <1>4, <2>1, <2>2 DEF KnowsEdits, EditsAreCopied
<1> QED
  BY <1>1, <1>2, <1>3, <1>4

LEMMA EditsStep ==
  ASSUME ScriptTypeOK, EditsInv, [Next]_vars
  PROVE  EditsInv' /\ \A s \in Script : BacksUpEdits(s)
<1>0. \A s \in Script : KnowsEdits(s)
  BY DEF EditsInv
<1>1. CASE NoPinMoves
  <2>1. EditsInv'
    BY <1>0, <1>1 DEF NoPinMoves, EditsInv, KnowsEdits, EditsAreCopied, Runs, configVars
  <2>2. \A s \in Script : BacksUpEdits(s)
    BY <1>1 DEF NoPinMoves, BacksUpEdits, configVars
  <2> QED
    BY <2>1, <2>2
<1>2. ASSUME NEW pin \in Version \cup {Moving}, PersonEdits(pin)
      PROVE  EditsInv' /\ \A s \in Script : BacksUpEdits(s)
  <2>1. /\ scripts' = Overtaken(config') /\ configBackups' = configBackups
        /\ config' = [pin |-> pin, edits |-> config.edits \cup {allowed.edits}]
    BY <1>2 DEF PersonEdits
  <2>2. ASSUME NEW r \in Script  PROVE KnowsEdits(r)'
    <3>1. CASE Runs(r, "pin")'
      BY <1>0, <2>1, <3>1, OvertakenKnow
    <3>2. CASE ~Runs(r, "pin")'
      BY <3>2 DEF KnowsEdits
    <3> QED
      BY <3>1, <3>2
  <2>3. config.edits \subseteq config'.edits
    BY <2>1
  <2> QED
    BY <2>2, <2>3 DEF EditsInv, BacksUpEdits
<1>3. ASSUME NEW s \in Script, PinStep(s)
      PROVE  EditsInv' /\ \A r \in Script : BacksUpEdits(r)
  <2> DEFINE run == scripts[s]
  <2>0. run \in PinRun /\ scripts \in [Script -> Run] /\ config \in Config
    BY <1>3, PinMoves, RunOfKind DEF ScriptTypeOK, TypeOK, AlignmentTypeOK
  <2>1. ASSUME configBackups \subseteq configBackups', config' = config,
               NEW record, Becomes(s, record),
               record.kind = "pin" =>
                 /\ record.overtaken = run.overtaken /\ record.original = run.original
                 /\ record.step # "copy" /\ (run.step = "copy" => config \in configBackups')
                 /\ run.step \in {"verify", "revert"} => record.step \in {"verify", "revert"}
        PROVE  EditsInv' /\ \A r \in Script : BacksUpEdits(r)
    <3>1. ASSUME NEW r \in Script \ {s}  PROVE KnowsEdits(r)'
      <4>1. scripts'[r] = scripts[r] /\ KnowsEdits(r)
        BY <1>0, <2>0, <2>1, <3>1 DEF Becomes
      <4> QED
        BY <2>1, <4>1 DEF KnowsEdits, EditsAreCopied, Runs
    <3>2. KnowsEdits(s)'
      <4>1. scripts'[s] = record /\ KnowsEdits(s) /\ Runs(s, "pin")
        BY <1>0, <1>3, <2>0, <2>1, PinMoves DEF Becomes
      <4>2. CASE run.step = "copy" /\ record.kind = "pin"
        BY <2>1, <4>2 DEF KnowsEdits, EditsAreCopied
      <4>3. CASE run.step # "copy" /\ record.kind = "pin"
        BY <2>1, <4>1, <4>3 DEF KnowsEdits, EditsAreCopied
      <4>4. CASE record.kind # "pin"
        BY <4>1, <4>4 DEF KnowsEdits, Runs
      <4> QED
        BY <4>2, <4>3, <4>4
    <3> QED
      BY <2>1, <3>1, <3>2 DEF EditsInv, BacksUpEdits
  <2>2. \A step \in {"write", "verify", "revert"} :
          LET record == [run EXCEPT !.step = step]
          IN  /\ record.kind = "pin" /\ record.overtaken = run.overtaken
              /\ record.original = run.original /\ record.step = step
    BY <2>0 DEF PinRun
  <2>3. CASE PinCopies(s)
    <3>1. CASE configBackups' = configBackups \cup {Copied(s)} /\ Goes(s, "write")
      <4>1. config \in configBackups' /\ config' = config /\ configBackups \subseteq configBackups'
        BY <2>3, <3>1 DEF PinCopies, Copied
      <4>2. run.step = "copy"
        BY <2>3 DEF PinCopies, IsAt
      <4> QED
        BY <2>1, <2>2, <3>1, <4>1, <4>2 DEF Goes
    <3>2. CASE Fails(s) /\ UNCHANGED configBackups
      BY <2>1, <2>3, <3>2 DEF PinCopies, Fails, Ends, Idle
    <3> QED
      BY <2>3, <3>1, <3>2 DEF PinCopies
  <2>4. CASE PinVerifies(s)
    <3>1. config' = config /\ configBackups' = configBackups /\ run.step = "verify"
      BY <2>4 DEF PinVerifies, IsAt, configVars
    <3>2. CASE Ends(s, "done")
      BY <2>1, <3>1, <3>2 DEF Ends, Idle
    <3>3. CASE Goes(s, "revert")
      BY <2>1, <2>2, <3>1, <3>3 DEF Goes
    <3> QED
      BY <2>4, <3>2, <3>3 DEF PinVerifies
  <2>5. CASE PinWrites(s) /\ UNCHANGED config
    <3>1. configBackups' = configBackups /\ run.step = "write"
      BY <2>5 DEF PinWrites, IsAt
    <3>2. CASE Goes(s, "revert")
      BY <2>1, <2>2, <2>5, <3>1, <3>2 DEF Goes
    <3>3. CASE /\ config' = [run.original EXCEPT !.pin = run.version]
               /\ scripts' = [Overtaken(config') EXCEPT ![s] = [run EXCEPT !.step = "verify"]]
      <4>1. ASSUME NEW r \in Script \ {s}  PROVE Overtaken(config')[r] = scripts[r]
        BY <2>5 DEF Overtaken
      <4>2. Becomes(s, [run EXCEPT !.step = "verify"])
        <5>1. Overtaken(config') \in [Script -> Run]
          BY OvertakenTyped
        <5> QED
          BY <2>0, <3>3, <4>1, <5>1 DEF Becomes
      <4> QED
        BY <2>1, <2>2, <2>5, <3>1, <4>2
    <3> QED
      BY <2>5, <3>2, <3>3 DEF PinWrites
  <2>6. ASSUME NEW record,
               PinWrites(s) \/ PinReverts(s),
               scripts' = [Overtaken(config') EXCEPT ![s] = record],
               config'.edits = run.original.edits, configBackups' = configBackups,
               record.kind = "pin" => /\ record.step = "verify"
                                      /\ record.original = run.original
        PROVE  EditsInv' /\ \A r \in Script : BacksUpEdits(r)
    <3>1. Overtaken(config') \in [Script -> Run]
      BY OvertakenTyped
    <3>2. ASSUME NEW r \in Script  PROVE KnowsEdits(r)'
      <4>1. CASE r = s
        BY <2>6, <3>1, <4>1 DEF KnowsEdits, Runs
      <4>2. CASE r # s /\ Runs(r, "pin")'
        <5>1. scripts'[r] = Overtaken(config')[r]
          BY <2>6, <3>1, <4>2
        <5> QED
          BY <1>0, <2>6, <4>2, <5>1, OvertakenKnow
      <4>3. CASE ~Runs(r, "pin")'
        BY <4>3 DEF KnowsEdits
      <4> QED
        BY <4>1, <4>2, <4>3
    <3>3. ASSUME NEW r \in Script, Runs(r, "pin"), ~scripts[r].overtaken,
                 PinWrites(r) \/ PinReverts(r), ~(config.edits \subseteq config'.edits)
          PROVE  EditsAreCopied
      <4>1. config'.edits = scripts[r].original.edits \/ config' = config
        <5>1. scripts[r] \in PinRun
          BY <3>3, RunOfKind
        <5> QED
          BY <3>3, <5>1 DEF PinWrites, PinReverts, PinRun, Config
      <4>2. scripts[r].step # "copy"
        BY <3>3 DEF PinWrites, PinReverts, IsAt
      <4> QED
        BY <1>0, <3>3, <4>1, <4>2 DEF KnowsEdits
    <3> QED
      BY <3>2, <3>3 DEF EditsInv, BacksUpEdits, EditsAreCopied
  <2>7. CASE PinWrites(s) /\ ~UNCHANGED config
    <3>1. /\ config' = [run.original EXCEPT !.pin = run.version]
          /\ scripts' = [Overtaken(config') EXCEPT ![s] = [run EXCEPT !.step = "verify"]]
          /\ configBackups' = configBackups
      BY <2>7 DEF PinWrites
    <3>2. config'.edits = run.original.edits
      BY <2>0, <3>1 DEF PinRun, Config
    <3> QED
      BY <2>2, <2>6, <2>7, <3>1, <3>2
  <2>8. CASE PinReverts(s)
    <3>1. configBackups' = configBackups
      BY <2>8 DEF PinReverts
    <3>2. CASE config' = run.original /\ scripts' = [Overtaken(config') EXCEPT ![s] = Idle("failed")]
      BY <2>6, <2>8, <3>1, <3>2 DEF Idle
    <3>3. CASE Fails(s) /\ UNCHANGED config
      BY <2>1, <3>1, <3>3 DEF Fails, Ends, Idle
    <3> QED
      BY <2>8, <3>2, <3>3 DEF PinReverts
  <2> QED
    BY <1>3, <2>3, <2>4, <2>5, <2>7, <2>8 DEF PinStep
<1> QED
  BY <1>1, <1>2, <1>3, OtherPinSteps

\* Whatever pin runs overlap, fail or are killed, edits that one of them
\* overwrites are in a backup, unless some came in after it made its copy.
THEOREM OverwrittenEditsAreCopied == Spec => EditsAreBackedUp
<1>1. Init => EditsInv
  BY DEF Init, AlignmentInit, EditsInv, KnowsEdits, Runs, Idle
<1>2. ScriptTypeOK /\ EditsInv /\ [Next]_vars => EditsInv'
  BY EditsStep
<1>3. ScriptTypeOK /\ EditsInv /\ [Next]_vars =>
        [\A s \in Script :
           /\ Runs(s, "pin") /\ ~scripts[s].overtaken
           /\ PinWrites(s) \/ PinReverts(s)
           /\ ~(config.edits \subseteq config'.edits)
           => \E copy \in configBackups : config.edits \subseteq copy.edits]_alignmentVars
  BY EditsStep DEF BacksUpEdits
<1> QED
  BY <1>1, <1>2, <1>3, AlignmentTypesHold, PTL DEF Spec, EditsAreBackedUp

(***************************************************************************)
(* Answers of the check and refresh scripts.  Times in the past stay what  *)
(* they are: what is known up to a time stays known.                       *)
(***************************************************************************)

\* What a step does to one run, when it is of one of these two scripts.
Accounted(r) ==
  \/ scripts'[r] = scripts[r]
  \/ scripts'[r] = Idle("died")
  \/ CheckStep(r)
  \/ RefreshStep(r)
  \/ \E forced, offline \in BOOLEAN : CheckStarts(r, forced, offline)
  \/ \E forced, offline \in BOOLEAN : RefreshStarts(r, forced, offline)
  \/ /\ ~Runs(r, "check") /\ ~Runs(r, "refresh")
     /\ ~Runs(r, "check")' /\ ~Runs(r, "refresh")'

LEMMA StepsAreAccounted ==
  ASSUME ScriptTypeOK, [Next]_vars, NEW r \in Script
  PROVE  Accounted(r)
<1>1. ASSUME NEW s \in Script, NEW record, Becomes(s, record), r # s
      PROVE  Accounted(r)
  BY <1>1 DEF Becomes, ScriptTypeOK, Accounted
<1>2. ASSUME NEW s \in Script, NEW version \in Version, PinStarts(s, version)
      PROVE  Accounted(r)
  <2>1. CASE r # s
    BY <1>1, <1>2, <2>1 DEF PinStarts, Ends
  <2>2. CASE r = s
    <3>1. scripts'[r].kind \in {"pin", "idle"} /\ Runs(r, "idle")
      BY <1>2, <2>2 DEF PinStarts, Starts, Ends, Becomes, Idle, ScriptTypeOK
    <3> QED
      BY <3>1 DEF Accounted, Runs
  <2> QED
    BY <2>1, <2>2
<1>3. ASSUME NEW s \in Script, NEW version \in Version, InstallStarts(s, version)
      PROVE  Accounted(r)
  <2>1. CASE r = s
    <3>1. scripts'[r].kind = "install" /\ Runs(r, "idle")
      BY <1>3, <2>1 DEF InstallStarts, Starts
    <3> QED
      BY <3>1 DEF Accounted, Runs
  <2>2. CASE r # s /\ Runs(r, "install")
    <3>1. ASSUME NEW run \in InstallRun  PROVE [run EXCEPT !.clean = FALSE].kind = "install"
      BY DEF InstallRun
    <3>2. scripts'[r] = [scripts[r] EXCEPT !.clean = FALSE]
      BY <1>3, <2>2 DEF InstallStarts
    <3>3. scripts'[r].kind = "install"
      BY <2>2, <3>1, <3>2, RunOfKind
    <3> QED
      BY <2>2, <3>3 DEF Accounted, Runs
  <2>3. CASE r # s /\ ~Runs(r, "install")
    BY <1>3, <2>3 DEF InstallStarts, Accounted
  <2> QED
    BY <2>1, <2>2, <2>3
<1>4. ASSUME NEW s \in Script, PinStep(s)
      PROVE  Accounted(r)
  BY <1>4, PinMoves, MarksTyped DEF Accounted, Runs
<1>5. ASSUME NEW s \in Script, InstallStep(s)
      PROVE  Accounted(r)
  BY <1>5, KindsStay DEF StaysOf, Accounted, Runs
<1>6. ASSUME NEW s \in Script, Dies(s)
      PROVE  Accounted(r)
  BY <1>6 DEF Dies, Ends, Becomes, ScriptTypeOK, Accounted
<1>7. ASSUME NEW pin \in Version \cup {Moving}, PersonEdits(pin)
      PROVE  Accounted(r)
  BY <1>7, OvertakenTyped, MarksTyped DEF PersonEdits, Accounted, Runs
<1>8. ASSUME NEW s \in Script, CheckStep(s) \/ RefreshStep(s)
      PROVE  Accounted(r)
  BY <1>8, KindsStay DEF StaysOf, Accounted
<1>9. ASSUME NEW s \in Script, NEW forced \in BOOLEAN, NEW offline \in BOOLEAN,
             CheckStarts(s, forced, offline) \/ RefreshStarts(s, forced, offline)
      PROVE  Accounted(r)
  <2>1. CASE r = s
    BY <1>9, <2>1 DEF Accounted
  <2>2. CASE r # s
    BY <1>1, <1>9, <2>2 DEF CheckStarts, RefreshStarts, Ends
  <2> QED
    BY <2>1, <2>2
<1>10. CASE UNCHANGED scripts
  BY <1>10 DEF Accounted
<1> QED
  BY <1>2, <1>3, <1>4, <1>5, <1>6, <1>7, <1>8, <1>9, <1>10 DEF Next, AlignmentNext, PreflightStep,
     Ticks, Publishes, PublishesSkills, PersonRestoresSkills, vars, alignmentVars

\* Time passes, and what happens gets the present as its time.
Later(those, since, now, sinceThen, then) ==
  /\ now <= then
  /\ \A x \in those : sinceThen[x] = since[x] \/ sinceThen[x] = now

(***************************************************************************)
(* Releases.                                                               *)
(***************************************************************************)

\* A version is as new as all that were coherent before a time.
Covers(since, npmVersion, at) ==
  \A version \in Version : since[version] # None /\ since[version] < at => version <= npmVersion

TrueAt(since, now, remote) ==
  remote.checkedAt <= now /\ Covers(since, remote.npm, remote.checkedAt)

CheckKnows(since, now, run) ==
  /\ run.at <= now
  /\ run.npm # Unread => Covers(since, run.npm, run.at)
  /\ run.remote # None => TrueAt(since, now, run.remote)
  /\ run.step = "fetch" => run.stale
  /\ run.step \in {"store", "report"} /\ ~run.stale /\ run.remote # None =>
       run.at <= run.remote.checkedAt + Ttl

CoherentInv ==
  /\ coherentSince \in [Version -> Time \cup {None}]
  /\ \A version \in Version : coherentSince[version] # None => version <= npm

ReleasesInv ==
  /\ CoherentInv
  /\ releaseCache # None => TrueAt(coherentSince, clock, releaseCache)
  /\ \A r \in Script : Runs(r, "check") => CheckKnows(coherentSince, clock, scripts[r])

LEMMA LaterCovers ==
  ASSUME NEW since, NEW sinceThen, NEW now \in Time, NEW then \in Time,
         Later(Version, since, now, sinceThen, then),
         \A version \in Version : since[version] \in Time \cup {None}
  PROVE  /\ \A at \in Time, npmVersion \in Version :
              at <= now /\ Covers(since, npmVersion, at) => Covers(sinceThen, npmVersion, at)
         /\ \A remote \in Remote : TrueAt(since, now, remote) => TrueAt(sinceThen, then, remote)
         /\ \A run \in CheckRun : CheckKnows(since, now, run) => CheckKnows(sinceThen, then, run)
<1>1. ASSUME NEW at \in Time, NEW npmVersion \in Version, at <= now, Covers(since, npmVersion, at)
      PROVE  Covers(sinceThen, npmVersion, at)
  <2> SUFFICES ASSUME NEW version \in Version, sinceThen[version] # None, sinceThen[version] < at
               PROVE  version <= npmVersion
    BY DEF Covers
  <2>1. sinceThen[version] = since[version]
    BY <1>1 DEF Later, Time
  <2> QED
    BY <1>1, <2>1 DEF Covers
<1>2. ASSUME NEW remote \in Remote, TrueAt(since, now, remote)
      PROVE  TrueAt(sinceThen, then, remote)
  <2>1. remote.checkedAt \in Time /\ remote.npm \in Version
    BY DEF Remote
  <2>2. Covers(sinceThen, remote.npm, remote.checkedAt)
    BY <1>1, <1>2, <2>1 DEF TrueAt
  <2>3. remote.checkedAt <= then
    BY <1>2, <2>1 DEF TrueAt, Later, Time
  <2> QED
    BY <2>2, <2>3 DEF TrueAt
<1>3. ASSUME NEW run \in CheckRun, CheckKnows(since, now, run)
      PROVE  CheckKnows(sinceThen, then, run)
  <2>1. run.at \in Time /\ run.npm \in Version \cup {Unread} /\ run.remote \in Remote \cup {None}
    BY DEF CheckRun
  <2>2. run.npm # Unread => Covers(sinceThen, run.npm, run.at)
    BY <1>1, <1>3, <2>1 DEF CheckKnows
  <2>3. run.remote # None => TrueAt(sinceThen, then, run.remote)
    BY <1>2, <1>3, <2>1 DEF CheckKnows
  <2>4. run.at <= then
    BY <1>3, <2>1 DEF CheckKnows, Later, Time
  <2> QED
    BY <1>3, <2>2, <2>3, <2>4 DEF CheckKnows
<1> QED
  BY <1>1, <1>2, <1>3

\* Releases that become coherent do so now, and npm never goes back.
LEMMA ReleasesMove ==
  ASSUME ScriptTypeOK, CoherentInv, [Next]_vars
  PROVE  CoherentInv' /\ Later(Version, coherentSince, clock, coherentSince', clock')
<1>0. clock \in Time /\ npm \in Version
  BY DEF ScriptTypeOK, TypeOK
<1>1. CASE Publishes
  <2>1. /\ clock' = clock
        /\ coherentSince' = [version \in Version |->
             IF coherentSince[version] = None /\ IsCoherent(version)' THEN clock
             ELSE coherentSince[version]]
    BY <1>1 DEF Publishes
  <2>2. npm' \in Version /\ npm <= npm'
    BY <1>0, <1>1, AlignmentAssumption DEF Publishes, Version
  <2>3. \A version \in Version : \/ coherentSince'[version] = coherentSince[version]
                                 \/ coherentSince'[version] = clock /\ npm' = version
    BY <2>1 DEF IsCoherent
  <2>4. CoherentInv'
    <3>1. coherentSince' \in [Version -> Time \cup {None}]
      BY <1>0, <2>1, <2>3 DEF CoherentInv
    <3>2. ASSUME NEW version \in Version, coherentSince'[version] # None
          PROVE  version <= npm'
      <4>1. CASE npm' = version
        BY <2>2, <4>1 DEF Version
      <4>2. CASE coherentSince'[version] = coherentSince[version]
        <5>1. version <= npm
          BY <3>2, <4>2 DEF CoherentInv
        <5> QED
          BY <1>0, <2>2, <5>1, AlignmentAssumption DEF Version
      <4> QED
        BY <2>3, <4>1, <4>2
    <3> QED
      BY <3>1, <3>2 DEF CoherentInv
  <2>5. Later(Version, coherentSince, clock, coherentSince', clock')
    BY <1>0, <2>1, <2>3 DEF Later, Time
  <2> QED
    BY <2>4, <2>5
<1>2. CASE UNCHANGED <<coherentSince, npm>> /\ (clock' = clock \/ clock' = clock + 1)
  <2>1. clock <= clock'
    BY <1>0, <1>2 DEF Time
  <2> QED
    BY <1>2, <2>1 DEF CoherentInv, Later
<1>3. CASE AlignmentNext /\ UNCHANGED preflightVars
  BY <1>2, <1>3 DEF preflightVars, publications
<1>4. CASE PreflightStep
  <2>1. UNCHANGED <<clock, publications>>
    BY <1>4 DEF PreflightStep, CheckStarts, RefreshStarts, CheckStep, InspectsConfig, InspectsPackage,
       ReadsReleaseCache, Fetches, EmptiesReleaseCache, StoresRelease, Reports, RefreshStep,
       ReadsSkillCache, RunsCli, EmptiesSkillCache, StoresSkills, preflightVars
  <2> QED
    BY <1>2, <2>1 DEF publications
<1>5. CASE Ticks \/ PublishesSkills \/ PersonRestoresSkills
  BY <1>2, <1>5 DEF Ticks, PublishesSkills, PersonRestoresSkills, publications
<1>6. CASE UNCHANGED vars
  BY <1>2, <1>6 DEF vars, preflightVars, publications
<1> QED
  BY <1>1, <1>3, <1>4, <1>5, <1>6 DEF Next

\* A step of a check keeps what it knows, and stores nothing else.
LEMMA CheckLearns ==
  ASSUME ScriptTypeOK, ReleasesInv, NEW s \in Script, CheckStep(s)
  PROVE  /\ Runs(s, "check")' => CheckKnows(coherentSince, clock, scripts'[s])
         /\ releaseCache' # None => TrueAt(coherentSince, clock, releaseCache')
<1> DEFINE Learnt == /\ Runs(s, "check")' => CheckKnows(coherentSince, clock, scripts'[s])
                     /\ releaseCache' # None => TrueAt(coherentSince, clock, releaseCache')
<1>0. /\ scripts \in [Script -> Run] /\ clock \in Time /\ npm \in Version
      /\ releaseCache \in Remote \cup {None} /\ Ttl \in Nat
      /\ releaseCache # None => TrueAt(coherentSince, clock, releaseCache)
      /\ coherentSince \in [Version -> Time \cup {None}]
      /\ \A version \in Version : coherentSince[version] # None => version <= npm
  BY PreflightAssumption DEF ScriptTypeOK, TypeOK, ReleasesInv, CoherentInv
<1>1. PICK run \in CheckRun : run = scripts[s] /\ CheckKnows(coherentSince, clock, run)
  BY KindsStay, RunOfKind DEF StaysOf, ReleasesInv
<1>2. ASSUME NEW record, Becomes(s, record), UNCHANGED releaseCache,
             CheckKnows(coherentSince, clock, record)
      PROVE  Learnt
  <2>1. scripts'[s] = record
    BY <1>0, <1>2 DEF Becomes
  <2> QED
    BY <1>0, <1>2, <2>1
<1>3. CASE InspectsConfig(s) \/ InspectsPackage(s)
  <2>1. \E pin, package : Becomes(s, [run EXCEPT !.pin = pin]) \/ Becomes(s, [run EXCEPT !.package = package])
    BY <1>1, <1>3 DEF InspectsConfig, InspectsPackage
  <2>2. PICK record : /\ Becomes(s, record)
                      /\ record.at = run.at /\ record.npm = run.npm /\ record.remote = run.remote
                      /\ record.step = run.step /\ record.stale = run.stale
    BY <2>1 DEF CheckRun
  <2>3. UNCHANGED releaseCache
    BY <1>3 DEF InspectsConfig, InspectsPackage, preflightVars
  <2> QED
    BY <1>1, <1>2, <2>2, <2>3 DEF CheckKnows
<1>4. CASE ReadsReleaseCache(s)
  <2> DEFINE usable == ~run.forced /\ Fresh(releaseCache, run.at)
             stale == IF run.offline THEN ~Fresh(releaseCache, run.at) ELSE ~usable
             step == IF usable \/ run.offline THEN "report" ELSE "fetch"
  <2>1. PICK record : record = [run EXCEPT !.remote = releaseCache, !.stale = stale, !.step = step]
    OBVIOUS
  <2>2. Becomes(s, record)
    BY <1>1, <1>4, <2>1 DEF ReadsReleaseCache
  <2>3. /\ record.at = run.at /\ record.npm = run.npm /\ record.remote = releaseCache
        /\ record.step = step /\ record.stale = stale
    BY <2>1 DEF CheckRun
  <2>4. Fresh(releaseCache, run.at) => run.at <= releaseCache.checkedAt + Ttl
    BY <1>0 DEF Fresh, CheckRun, Remote, Time
  <2>5. step = "fetch" => stale
    OBVIOUS
  <2>6. step \in {"store", "report"} /\ ~stale => run.at <= releaseCache.checkedAt + Ttl
    BY <2>4
  <2> HIDE DEF usable, stale, step
  <2>7. CheckKnows(coherentSince, clock, record)
    BY <1>0, <1>1, <2>3, <2>5, <2>6 DEF CheckKnows
  <2>8. UNCHANGED releaseCache
    BY <1>4 DEF ReadsReleaseCache, preflightVars
  <2> QED
    BY <1>2, <2>2, <2>7, <2>8
<1>5. CASE Fetches(s)
  <2>1. UNCHANGED releaseCache /\ run.step = "fetch" /\ run.stale
    BY <1>1, <1>5 DEF Fetches, IsAt, CheckKnows, preflightVars
  <2>2. CASE Becomes(s, [run EXCEPT !.github = github])
    <3>1. PICK record : record = [run EXCEPT !.github = github]
      OBVIOUS
    <3>2. /\ record.at = run.at /\ record.npm = run.npm /\ record.remote = run.remote
          /\ record.step = run.step /\ record.stale = run.stale
      BY <3>1 DEF CheckRun
    <3> QED
      BY <1>1, <1>2, <2>1, <2>2, <3>1, <3>2 DEF CheckKnows
  <2>3. CASE Becomes(s, [run EXCEPT !.npm = npm])
    <3>1. PICK record : record = [run EXCEPT !.npm = npm]
      OBVIOUS
    <3>2. /\ record.at = run.at /\ record.npm = npm /\ record.remote = run.remote
          /\ record.step = run.step /\ record.stale = run.stale
      BY <3>1 DEF CheckRun
    <3>3. Covers(coherentSince, npm, run.at)
      BY <1>0 DEF Covers
    <3> QED
      BY <1>1, <1>2, <2>1, <2>3, <3>1, <3>2, <3>3 DEF CheckKnows
  <2>4. CASE Goes(s, "report")
    <3>1. PICK record : record = [run EXCEPT !.step = "report"]
      OBVIOUS
    <3>2. /\ record.at = run.at /\ record.npm = run.npm /\ record.remote = run.remote
          /\ record.step = "report" /\ record.stale = run.stale
      BY <3>1 DEF CheckRun
    <3> QED
      BY <1>1, <1>2, <2>1, <2>4, <3>1, <3>2 DEF CheckKnows, Goes
  <2> QED
    BY <1>1, <1>5, <2>2, <2>3, <2>4 DEF Fetches
<1>6. CASE EmptiesReleaseCache(s)
  <2>1. PICK remote : remote = [checkedAt |-> run.at, github |-> run.github, npm |-> run.npm]
    OBVIOUS
  <2>2. PICK record : record = [run EXCEPT !.step = "store", !.stale = FALSE, !.remote = remote]
    OBVIOUS
  <2>3. /\ record.at = run.at /\ record.npm = run.npm /\ record.remote = remote
        /\ record.step = "store" /\ record.stale = FALSE
    BY <2>2 DEF CheckRun
  <2>4. Becomes(s, record) /\ releaseCache' = None /\ run.npm # Unread
    BY <1>1, <1>6, <2>1, <2>2 DEF EmptiesReleaseCache
  <2>5. TrueAt(coherentSince, clock, remote) /\ run.at <= remote.checkedAt + Ttl
    BY <1>0, <1>1, <2>1, <2>4 DEF CheckKnows, TrueAt, CheckRun, Time
  <2>6. CheckKnows(coherentSince, clock, record)
    BY <1>1, <2>3, <2>5 DEF CheckKnows
  <2> QED
    BY <1>0, <2>4, <2>6 DEF Becomes
<1>7. CASE StoresRelease(s)
  <2>1. PICK record : record = [run EXCEPT !.step = "report"]
    OBVIOUS
  <2>2. /\ record.at = run.at /\ record.npm = run.npm /\ record.remote = run.remote
        /\ record.step = "report" /\ record.stale = run.stale
    BY <2>1 DEF CheckRun
  <2>3. /\ Becomes(s, record) /\ run.step = "store"
        /\ releaseCache' \in {run.remote, releaseCache}
    BY <1>1, <1>7, <2>1 DEF StoresRelease, Goes, IsAt
  <2>4. CheckKnows(coherentSince, clock, record)
    BY <1>1, <2>2, <2>3 DEF CheckKnows
  <2> QED
    BY <1>0, <1>1, <2>3, <2>4 DEF Becomes, CheckKnows
<1>8. CASE Reports(s)
  <2>1. ~Runs(s, "check")' /\ UNCHANGED releaseCache
    BY <1>0, <1>8 DEF Reports, Ends, Becomes, Idle, Runs, preflightVars
  <2> QED
    BY <1>0, <2>1
<1> QED
  BY <1>3, <1>4, <1>5, <1>6, <1>7, <1>8 DEF CheckStep

LEMMA ReleasesStep ==
  ASSUME ScriptTypeOK, ReleasesInv, [Next]_vars
  PROVE  ReleasesInv'
<1>0. /\ CoherentInv' /\ Later(Version, coherentSince, clock, coherentSince', clock')
      /\ clock \in Time /\ clock' \in Time
      /\ \A version \in Version : coherentSince[version] \in Time \cup {None}
      /\ releaseCache \in Remote \cup {None} /\ releaseCache' \in Remote \cup {None}
      /\ scripts \in [Script -> Run] /\ scripts' \in [Script -> Run] /\ ScriptTypeOK'
  BY ReleasesMove, NextTyped DEF ReleasesInv, CoherentInv, ScriptTypeOK, TypeOK
<1>1. /\ \A remote \in Remote : TrueAt(coherentSince, clock, remote)
           => TrueAt(coherentSince', clock', remote)
      /\ \A run \in CheckRun : CheckKnows(coherentSince, clock, run)
           => CheckKnows(coherentSince', clock', run)
  BY <1>0, LaterCovers
<1>2. releaseCache' # None => TrueAt(coherentSince', clock', releaseCache')
  <2>1. CASE \E s \in Script : CheckStep(s)
    BY <1>0, <1>1, <2>1, CheckLearns
  <2>2. CASE UNCHANGED releaseCache
    BY <1>0, <1>1, <2>2 DEF ReleasesInv
  <2> QED
    BY <2>1, <2>2 DEF Next, PreflightStep, CheckStarts, RefreshStarts, RefreshStep, ReadsSkillCache,
       RunsCli, EmptiesSkillCache, StoresSkills, Ticks, Publishes, PublishesSkills,
       PersonRestoresSkills, vars, preflightVars
<1>3. ASSUME NEW r \in Script, Runs(r, "check")'
      PROVE  CheckKnows(coherentSince', clock', scripts'[r])
  <2>0. scripts'[r] \in CheckRun
    BY <1>0, <1>3 DEF Runs, Run, IdleRun, PinRun, InstallRun, CheckRun, RefreshRun
  <2>1. CASE scripts'[r] = scripts[r]
    <3>1. Runs(r, "check")
      BY <1>3, <2>1 DEF Runs
    <3>2. CheckKnows(coherentSince, clock, scripts[r])
      BY <3>1 DEF ReleasesInv
    <3> QED
      BY <1>1, <2>0, <2>1, <3>2
  <2>2. CASE CheckStep(r)
    BY <1>1, <1>3, <2>0, <2>2, CheckLearns
  <2>3. ASSUME NEW forced \in BOOLEAN, NEW offline \in BOOLEAN, CheckStarts(r, forced, offline)
        PROVE  CheckKnows(coherentSince', clock', scripts'[r])
    <3>1. /\ scripts'[r].at = clock /\ scripts'[r].npm = Unread /\ scripts'[r].remote = None
          /\ scripts'[r].step = "cache"
      BY <1>0, <2>3 DEF CheckStarts, Becomes
    <3>2. clock <= clock'
      BY <1>0 DEF Later
    <3> QED
      BY <3>1, <3>2 DEF CheckKnows
  <2>4. CASE \/ scripts'[r] = Idle("died") \/ RefreshStep(r)
             \/ \E forced, offline \in BOOLEAN : RefreshStarts(r, forced, offline)
    <3>1. scripts'[r].kind # "check"
      BY <1>0, <2>4, KindsStay DEF StaysOf, RefreshStarts, Becomes, Ends, Idle
    <3> QED
      BY <1>3, <3>1 DEF Runs
  <2> QED
    BY <1>3, <2>1, <2>2, <2>3, <2>4, StepsAreAccounted DEF Accounted
<1> QED
  BY <1>0, <1>2, <1>3 DEF ReleasesInv

\* A run that ends with "current" saw one version, and no newer one.
SaysCurrent(s) ==
  (/\ Runs(s, "check") /\ scripts'[s] = Idle("current")
   /\ destination # None /\ scripts[s].pin = config.pin
   /\ scripts[s].package = destination.version)
  => /\ config.pin = destination.version
     /\ \A version \in Version :
          coherentSince[version] # None /\ coherentSince[version] + Ttl < scripts[s].at
          => version <= config.pin

LEMMA CurrentSaysSo ==
  ASSUME ScriptTypeOK, ReleasesInv, [Next]_vars, NEW s \in Script
  PROVE  SaysCurrent(s)
<1> SUFFICES ASSUME Runs(s, "check"), scripts'[s] = Idle("current"),
                    destination # None, scripts[s].pin = config.pin,
                    scripts[s].package = destination.version
             PROVE  /\ config.pin = destination.version
                    /\ \A version \in Version :
                         coherentSince[version] # None
                         /\ coherentSince[version] + Ttl < scripts[s].at
                         => version <= config.pin
  BY DEF SaysCurrent
<1>1. PICK run \in CheckRun : run = scripts[s] /\ CheckKnows(coherentSince, clock, run)
  BY RunOfKind DEF ReleasesInv
<1>2. Reports(s)
  <2>1. scripts'[s].kind = "idle" /\ scripts'[s] # Idle("died") /\ scripts[s].kind = "check"
    BY DEF Idle, Runs
  <2> QED
    BY <2>1, KindsStay, StepsAreAccounted DEF Accounted, Runs, StaysOf, CheckStarts, RefreshStarts,
       Starts
<1>3. Status(run) = "current" /\ run.step = "report"
  <2>1. scripts'[s] = Idle(Status(run)) /\ run.step = "report"
    BY <1>1, <1>2 DEF Reports, Ends, Becomes, IsAt, ScriptTypeOK
  <2> QED
    BY <2>1 DEF Idle
<1>4. /\ run.pin # Moving /\ ~Mismatch(run) /\ run.remote # None /\ Latest(run.remote) # None
      /\ ~\E version \in {run.pin, run.package} \ {None} : version < Latest(run.remote)
      /\ ~run.stale
  BY <1>3 DEF Status
<1>5. destination.version \in Version /\ destination.version # None /\ run.package = destination.version
      /\ config.pin \in Version \cup {Moving}
  BY <1>1, AlignmentAssumption DEF ScriptTypeOK, TypeOK, AlignmentTypeOK, Package, Config
<1>6. run.pin = run.package
  BY <1>4, <1>5 DEF Mismatch
<1>7. /\ run.remote \in Remote /\ run.remote.npm \in Version /\ run.remote.checkedAt \in Time
      /\ run.at \in Time
  BY <1>4 DEF CheckRun, Remote
<1>8. Latest(run.remote) = run.remote.npm
  BY <1>4 DEF Latest
<1>9. run.remote.npm <= run.pin
  <2>1. ~(run.pin < run.remote.npm) /\ run.pin \in Version
    BY <1>4, <1>5, <1>6, <1>8
  <2> QED
    BY <1>7, <2>1, AlignmentAssumption DEF Version
<1>10. ASSUME NEW version \in Version, coherentSince[version] # None,
              coherentSince[version] + Ttl < run.at
       PROVE  version <= run.pin
  <2>1. /\ run.at <= run.remote.checkedAt + Ttl
        /\ Covers(coherentSince, run.remote.npm, run.remote.checkedAt)
    BY <1>1, <1>3, <1>4 DEF CheckKnows, TrueAt
  <2>2. coherentSince[version] \in Time
    BY <1>10 DEF ReleasesInv, CoherentInv
  <2>3. coherentSince[version] < run.remote.checkedAt
    BY <1>7, <1>10, <2>1, <2>2, PreflightAssumption DEF Time
  <2>4. version <= run.remote.npm
    BY <1>10, <2>1, <2>3 DEF Covers
  <2> QED
    BY <1>5, <1>6, <1>7, <1>9, <2>4, AlignmentAssumption DEF Version
<1> QED
  BY <1>1, <1>5, <1>6, <1>10

\* "current" is true of an installation that nobody changed during the check,
\* however checks, alignments and publications overlap and whatever the cache is.
THEOREM CurrentHolds == Spec => CurrentIsTrue
<1>1. Init => ReleasesInv
  <2> SUFFICES ASSUME Init PROVE ReleasesInv
    OBVIOUS
  <2>1. 1 \in Version
    BY AlignmentAssumption DEF Version
  <2>2. CoherentInv
    BY <2>1, AlignmentAssumption DEF Init, CoherentInv, Time, Version
  <2> QED
    BY <2>2 DEF Init, AlignmentInit, ReleasesInv, Runs, Idle
<1>2. ScriptTypeOK /\ ReleasesInv /\ [Next]_vars => ReleasesInv'
  BY ReleasesStep
<1>3. ScriptTypeOK /\ ReleasesInv /\ [Next]_vars =>
        [\A s \in Script :
           /\ Runs(s, "check") /\ scripts'[s] = Idle("current")
           /\ destination # None /\ scripts[s].pin = config.pin
           /\ scripts[s].package = destination.version
           => /\ config.pin = destination.version
              /\ \A version \in Version :
                   coherentSince[version] # None /\ coherentSince[version] + Ttl < scripts[s].at
                   => version <= config.pin]_vars
  BY CurrentSaysSo DEF SaysCurrent
<1> QED
  BY <1>1, <1>2, <1>3, AlignmentTypesHold, PTL DEF Spec, CurrentIsTrue

(***************************************************************************)
(* Skills.  A revision that is published was not replaced before.          *)
(***************************************************************************)

\* The revisions of a lock were all published at a time, or later.
Recent(replaced, hashes, at) ==
  \A skill \in Skill :
    /\ hashes[skill] \in Revision
    /\ replaced[hashes[skill]] # None => at <= replaced[hashes[skill]]

AnswerIsRecent(replaced, now, answer) ==
  answer.checkedAt <= now /\ Recent(replaced, answer.hashes, answer.checkedAt)

RefreshKnows(replaced, now, run) ==
  /\ run.at <= now
  /\ \A skill \in Skill : run.hashes[skill] \in Revision
  /\ run.step \in {"empty", "store"} => Recent(replaced, run.hashes, run.at)

PublishedInv ==
  /\ replacedAt \in [Revision -> Time \cup {None}]
  /\ \A revision \in Revision : upstream <= revision => replacedAt[revision] = None

SkillsInv ==
  /\ PublishedInv
  /\ skillCache # None => AnswerIsRecent(replacedAt, clock, skillCache)
  /\ \A r \in Script : Runs(r, "refresh") => RefreshKnows(replacedAt, clock, scripts[r])

LEMMA LaterRecent ==
  ASSUME NEW replaced, NEW replacedThen, NEW now \in Time, NEW then \in Time,
         Later(Revision, replaced, now, replacedThen, then),
         \A revision \in Revision : replaced[revision] \in Time \cup {None}
  PROVE  /\ \A answer \in Checked :
              AnswerIsRecent(replaced, now, answer) => AnswerIsRecent(replacedThen, then, answer)
         /\ \A run \in RefreshRun :
              RefreshKnows(replaced, now, run) => RefreshKnows(replacedThen, then, run)
<1>1. ASSUME NEW hashes, NEW at \in Time, at <= now, Recent(replaced, hashes, at)
      PROVE  Recent(replacedThen, hashes, at)
  <2> SUFFICES ASSUME NEW skill \in Skill
               PROVE  /\ hashes[skill] \in Revision
                      /\ replacedThen[hashes[skill]] # None => at <= replacedThen[hashes[skill]]
    BY DEF Recent
  <2>1. /\ hashes[skill] \in Revision
        /\ replaced[hashes[skill]] # None => at <= replaced[hashes[skill]]
    BY <1>1 DEF Recent
  <2>2. \/ replacedThen[hashes[skill]] = replaced[hashes[skill]]
        \/ replacedThen[hashes[skill]] = now
    BY <2>1 DEF Later
  <2> QED
    BY <1>1, <2>1, <2>2
<1>2. ASSUME NEW answer \in Checked, AnswerIsRecent(replaced, now, answer)
      PROVE  AnswerIsRecent(replacedThen, then, answer)
  <2>1. answer.checkedAt \in Time
    BY DEF Checked
  <2>2. Recent(replacedThen, answer.hashes, answer.checkedAt)
    BY <1>1, <1>2, <2>1 DEF AnswerIsRecent
  <2>3. answer.checkedAt <= then
    BY <1>2, <2>1 DEF AnswerIsRecent, Later, Time
  <2> QED
    BY <2>2, <2>3 DEF AnswerIsRecent
<1>3. ASSUME NEW run \in RefreshRun, RefreshKnows(replaced, now, run)
      PROVE  RefreshKnows(replacedThen, then, run)
  <2>1. run.at \in Time
    BY DEF RefreshRun
  <2>2. run.step \in {"empty", "store"} => Recent(replacedThen, run.hashes, run.at)
    BY <1>1, <1>3, <2>1 DEF RefreshKnows
  <2>3. run.at <= then
    BY <1>3, <2>1 DEF RefreshKnows, Later, Time
  <2> QED
    BY <1>3, <2>2, <2>3 DEF RefreshKnows
<1> QED
  BY <1>2, <1>3

\* A revision is replaced now, by one that was not published before.
LEMMA RevisionsMove ==
  ASSUME ScriptTypeOK, PublishedInv, [Next]_vars
  PROVE  PublishedInv' /\ Later(Revision, replacedAt, clock, replacedAt', clock')
<1>0. clock \in Time /\ upstream \in Revision
  BY DEF ScriptTypeOK, TypeOK
<1>1. CASE PublishesSkills
  <2>1. /\ clock' = clock /\ upstream' = upstream + 1
        /\ replacedAt' = [replacedAt EXCEPT ![upstream] = clock]
    BY <1>1 DEF PublishesSkills
  <2>2. \A revision \in Revision : replacedAt'[revision] =
          IF revision = upstream THEN clock ELSE replacedAt[revision]
    BY <2>1 DEF PublishedInv
  <2>3. PublishedInv'
    <3>1. replacedAt' \in [Revision -> Time \cup {None}]
      BY <1>0, <2>1 DEF PublishedInv
    <3>2. ASSUME NEW revision \in Revision, upstream' <= revision
          PROVE  replacedAt'[revision] = None
      <4>1. upstream <= revision /\ revision # upstream
        BY <1>0, <2>1, <3>2, PreflightAssumption DEF Revision
      <4> QED
        BY <2>2, <4>1 DEF PublishedInv
    <3> QED
      BY <3>1, <3>2 DEF PublishedInv
  <2>4. Later(Revision, replacedAt, clock, replacedAt', clock')
    BY <1>0, <2>1, <2>2 DEF Later, Time
  <2> QED
    BY <2>3, <2>4
<1>2. CASE UNCHANGED <<replacedAt, upstream>> /\ (clock' = clock \/ clock' = clock + 1)
  <2>1. clock <= clock'
    BY <1>0, <1>2 DEF Time
  <2> QED
    BY <1>2, <2>1 DEF PublishedInv, Later
<1>3. CASE AlignmentNext /\ UNCHANGED preflightVars
  BY <1>2, <1>3 DEF preflightVars, publications
<1>4. CASE PreflightStep
  <2>1. UNCHANGED <<clock, publications>>
    BY <1>4 DEF PreflightStep, CheckStarts, RefreshStarts, CheckStep, InspectsConfig, InspectsPackage,
       ReadsReleaseCache, Fetches, EmptiesReleaseCache, StoresRelease, Reports, RefreshStep,
       ReadsSkillCache, RunsCli, EmptiesSkillCache, StoresSkills, preflightVars
  <2> QED
    BY <1>2, <2>1 DEF publications
<1>5. CASE Ticks \/ Publishes \/ PersonRestoresSkills
  BY <1>2, <1>5 DEF Ticks, Publishes, PersonRestoresSkills, publications
<1>6. CASE UNCHANGED vars
  BY <1>2, <1>6 DEF vars, preflightVars, publications
<1> QED
  BY <1>1, <1>3, <1>4, <1>5, <1>6 DEF Next

\* A step of a refresh keeps what it knows, and stores nothing else.
LEMMA RefreshLearns ==
  ASSUME ScriptTypeOK, SkillsInv, NEW s \in Script, RefreshStep(s)
  PROVE  /\ Runs(s, "refresh")' => RefreshKnows(replacedAt, clock, scripts'[s])
         /\ skillCache' # None => AnswerIsRecent(replacedAt, clock, skillCache')
<1> DEFINE Learnt == /\ Runs(s, "refresh")' => RefreshKnows(replacedAt, clock, scripts'[s])
                     /\ skillCache' # None => AnswerIsRecent(replacedAt, clock, skillCache')
<1>0. /\ scripts \in [Script -> Run] /\ upstream \in Revision
      /\ skillCache # None => AnswerIsRecent(replacedAt, clock, skillCache)
      /\ \A revision \in Revision : upstream <= revision => replacedAt[revision] = None
  BY DEF ScriptTypeOK, TypeOK, SkillsInv, PublishedInv
<1>1. PICK run \in RefreshRun : run = scripts[s] /\ RefreshKnows(replacedAt, clock, run)
  BY KindsStay, RunOfKind DEF StaysOf, SkillsInv
<1>2. ASSUME NEW how, Ends(s, how)
      PROVE  ~Runs(s, "refresh")'
  BY <1>0, <1>2 DEF Ends, Becomes, Idle, Runs
<1>3. ASSUME NEW step, Goes(s, step), step = "store" => run.step = "empty", step # "empty"
      PROVE  RefreshKnows(replacedAt, clock, scripts'[s])
  <2>1. PICK record : record = [run EXCEPT !.step = step]
    OBVIOUS
  <2>2. record.at = run.at /\ record.hashes = run.hashes /\ record.step = step
    BY <2>1 DEF RefreshRun
  <2>3. scripts'[s] = record
    BY <1>0, <1>1, <1>3, <2>1 DEF Goes, Becomes
  <2> QED
    BY <1>1, <1>3, <2>2, <2>3 DEF RefreshKnows
<1>4. CASE ReadsSkillCache(s)
  <2>1. UNCHANGED skillCache
    BY <1>4 DEF ReadsSkillCache, preflightVars, skillVars
  <2>2. Goes(s, "cli") \/ \E how : Ends(s, how)
    BY <1>4 DEF ReadsSkillCache
  <2> QED
    BY <1>0, <1>2, <1>3, <2>1, <2>2
<1>5. CASE RunsCli(s)
  <2>1. UNCHANGED skillCache
    BY <1>5 DEF RunsCli
  <2>2. ASSUME NEW status, lock' = [skill \in Skill |-> upstream],
               Becomes(s, [run EXCEPT !.step = "empty", !.hashes = lock', !.status = status])
        PROVE  RefreshKnows(replacedAt, clock, scripts'[s])
    <3>1. PICK record : record = [run EXCEPT !.step = "empty", !.hashes = lock', !.status = status]
      OBVIOUS
    <3>2. record.at = run.at /\ record.hashes = lock'
      BY <3>1 DEF RefreshRun
    <3>3. scripts'[s] = record
      BY <1>0, <2>2, <3>1 DEF Becomes
    <3>4. upstream <= upstream
      BY <1>0, PreflightAssumption DEF Revision
    <3>5. Recent(replacedAt, record.hashes, record.at)
      BY <1>0, <2>2, <3>2, <3>4 DEF Recent
    <3> QED
      BY <1>1, <3>2, <3>3, <3>5 DEF RefreshKnows, Recent
  <2>3. \/ \E how : Ends(s, how)
        \/ /\ lock' = [skill \in Skill |-> upstream]
           /\ \E status : Becomes(s, [run EXCEPT !.step = "empty", !.hashes = lock',
                                                 !.status = status])
    BY <1>1, <1>5 DEF RunsCli
  <2> QED
    BY <1>0, <1>2, <2>1, <2>2, <2>3
<1>6. CASE EmptiesSkillCache(s)
  BY <1>1, <1>3, <1>6 DEF EmptiesSkillCache, IsAt
<1>7. CASE StoresSkills(s)
  <2>1. run.step = "store"
    BY <1>1, <1>7 DEF StoresSkills, IsAt
  <2>2. PICK answer : answer = [checkedAt |-> run.at, hashes |-> run.hashes]
    OBVIOUS
  <2>3. AnswerIsRecent(replacedAt, clock, answer)
    BY <1>1, <2>1, <2>2 DEF RefreshKnows, AnswerIsRecent
  <2>4. skillCache' \in {answer, skillCache}
    BY <1>1, <1>7, <2>2 DEF StoresSkills
  <2>5. \E how : Ends(s, how)
    BY <1>7 DEF StoresSkills
  <2> QED
    BY <1>0, <1>2, <2>3, <2>4, <2>5
<1> QED
  BY <1>4, <1>5, <1>6, <1>7 DEF RefreshStep

LEMMA SkillsStep ==
  ASSUME ScriptTypeOK, SkillsInv, [Next]_vars
  PROVE  SkillsInv'
<1>0. /\ PublishedInv' /\ Later(Revision, replacedAt, clock, replacedAt', clock')
      /\ clock \in Time /\ clock' \in Time
      /\ \A revision \in Revision : replacedAt[revision] \in Time \cup {None}
      /\ skillCache \in Checked \cup {None} /\ skillCache' \in Checked \cup {None}
      /\ scripts \in [Script -> Run] /\ scripts' \in [Script -> Run] /\ lock \in Lock
  BY RevisionsMove, NextTyped DEF SkillsInv, PublishedInv, ScriptTypeOK, TypeOK
<1>1. /\ \A answer \in Checked : AnswerIsRecent(replacedAt, clock, answer)
           => AnswerIsRecent(replacedAt', clock', answer)
      /\ \A run \in RefreshRun : RefreshKnows(replacedAt, clock, run)
           => RefreshKnows(replacedAt', clock', run)
  BY <1>0, LaterRecent
<1>2. skillCache' # None => AnswerIsRecent(replacedAt', clock', skillCache')
  <2>1. CASE \E s \in Script : RefreshStep(s)
    BY <1>0, <1>1, <2>1, RefreshLearns
  <2>2. CASE UNCHANGED skillCache
    BY <1>0, <1>1, <2>2 DEF SkillsInv
  <2> QED
    BY <2>1, <2>2 DEF Next, PreflightStep, CheckStarts, RefreshStarts, CheckStep, InspectsConfig,
       InspectsPackage, ReadsReleaseCache, Fetches, EmptiesReleaseCache, StoresRelease, Reports,
       Ticks, Publishes, PublishesSkills, PersonRestoresSkills, vars, preflightVars, skillVars
<1>3. ASSUME NEW r \in Script, Runs(r, "refresh")'
      PROVE  RefreshKnows(replacedAt', clock', scripts'[r])
  <2>0. scripts'[r] \in RefreshRun
    BY <1>0, <1>3 DEF Runs, Run, IdleRun, PinRun, InstallRun, CheckRun, RefreshRun
  <2>1. CASE scripts'[r] = scripts[r]
    <3>1. Runs(r, "refresh")
      BY <1>3, <2>1 DEF Runs
    <3>2. RefreshKnows(replacedAt, clock, scripts[r])
      BY <3>1 DEF SkillsInv
    <3> QED
      BY <1>1, <2>0, <2>1, <3>2
  <2>2. CASE RefreshStep(r)
    BY <1>1, <1>3, <2>0, <2>2, RefreshLearns
  <2>3. ASSUME NEW forced \in BOOLEAN, NEW offline \in BOOLEAN, RefreshStarts(r, forced, offline)
        PROVE  RefreshKnows(replacedAt', clock', scripts'[r])
    <3>1. None \notin {lock[skill] : skill \in Skill}
      BY <1>0, <1>3, <2>3 DEF RefreshStarts, Ends, Becomes, Idle, Runs
    <3>2. scripts'[r].at = clock /\ scripts'[r].hashes = lock /\ scripts'[r].step = "cache"
      BY <1>0, <2>3, <3>1 DEF RefreshStarts, Becomes
    <3>3. \A skill \in Skill : lock[skill] \in Revision
      BY <1>0, <3>1 DEF Lock
    <3>4. clock <= clock'
      BY <1>0 DEF Later
    <3> QED
      BY <3>2, <3>3, <3>4 DEF RefreshKnows
  <2>4. CASE \/ scripts'[r] = Idle("died") \/ CheckStep(r)
             \/ \E forced, offline \in BOOLEAN : CheckStarts(r, forced, offline)
    <3>1. scripts'[r].kind # "refresh"
      BY <1>0, <2>4, KindsStay DEF StaysOf, CheckStarts, Becomes, Idle
    <3> QED
      BY <1>3, <3>1 DEF Runs
  <2> QED
    BY <1>3, <2>1, <2>2, <2>3, <2>4, StepsAreAccounted DEF Accounted
<1> QED
  BY <1>0, <1>2, <1>3 DEF SkillsInv

\* A run that ends well read revisions that are recent.
SaysRecent(s) ==
  (/\ Runs(s, "refresh") /\ scripts'[s].kind = "idle"
   /\ scripts'[s].how \in {"current", "updated"})
  => \A skill \in Skill :
       LET revision == scripts[s].hashes[skill]
       IN  replacedAt[revision] # None => replacedAt[revision] + Ttl >= scripts[s].at

LEMMA RecentSaysSo ==
  ASSUME ScriptTypeOK, SkillsInv, [Next]_vars, NEW s \in Script
  PROVE  SaysRecent(s)
<1> SUFFICES ASSUME Runs(s, "refresh"), scripts'[s].kind = "idle",
                    scripts'[s].how \in {"current", "updated"}, NEW skill \in Skill,
                    replacedAt[scripts[s].hashes[skill]] # None
             PROVE  replacedAt[scripts[s].hashes[skill]] + Ttl >= scripts[s].at
  BY DEF SaysRecent
<1>0. scripts \in [Script -> Run] /\ Ttl \in Nat /\ skillCache \in Checked \cup {None}
      /\ \A revision \in Revision : replacedAt[revision] \in Time \cup {None}
  BY PreflightAssumption DEF ScriptTypeOK, TypeOK, SkillsInv, PublishedInv
<1>1. PICK run \in RefreshRun : run = scripts[s] /\ RefreshKnows(replacedAt, clock, run)
  BY RunOfKind DEF SkillsInv
<1>2. RefreshStep(s)
  <2>1. scripts'[s] # scripts[s] /\ scripts'[s] # Idle("died") /\ scripts[s].kind = "refresh"
    BY DEF Idle, Runs
  <2> QED
    BY <2>1, KindsStay, StepsAreAccounted DEF Accounted, Runs, StaysOf, CheckStarts, RefreshStarts,
       Starts
<1>3. run.at \in Time /\ run.hashes[skill] \in Revision /\ replacedAt[run.hashes[skill]] \in Time
  BY <1>0, <1>1 DEF RefreshRun, RefreshKnows
<1>4. CASE run.step \in {"empty", "store"}
  <2>1. run.at <= replacedAt[run.hashes[skill]]
    BY <1>1, <1>4 DEF RefreshKnows, Recent
  <2> QED
    BY <1>0, <1>1, <1>3, <2>1 DEF Time
<1>5. CASE ReadsSkillCache(s)
  <2>1. Fresh(skillCache, run.at) /\ skillCache.hashes = run.hashes
    <3>1. \/ Fresh(skillCache, run.at) /\ HashesEqual(skillCache.hashes, run.hashes)
          \/ Ends(s, "unknown") \/ Goes(s, "cli")
      BY <1>1, <1>5 DEF ReadsSkillCache
    <3>2. ~Ends(s, "unknown")
      BY <1>0 DEF Ends, Becomes, Idle
    <3>3. ~Goes(s, "cli")
      <4>1. [run EXCEPT !.step = "cli"].kind = "refresh"
        BY DEF RefreshRun
      <4> QED
        BY <1>0, <1>1, <4>1 DEF Goes, Becomes
    <3> QED
      BY <3>1, <3>2, <3>3 DEF HashesEqual
  <2>2. skillCache \in Checked /\ AnswerIsRecent(replacedAt, clock, skillCache)
    BY <1>0, <2>1 DEF Fresh, SkillsInv
  <2>3. /\ skillCache.checkedAt \in Time /\ run.at - skillCache.checkedAt <= Ttl
        /\ skillCache.checkedAt <= replacedAt[run.hashes[skill]]
    BY <1>1, <2>1, <2>2 DEF Fresh, AnswerIsRecent, Recent, Checked
  <2> QED
    BY <1>0, <1>1, <1>3, <2>3 DEF Time
<1>6. CASE RunsCli(s)
  <2>1. ASSUME NEW status, Becomes(s, [scripts[s] EXCEPT !.step = "empty", !.hashes = lock',
                                                         !.status = status])
        PROVE  FALSE
    <3>1. PICK record : record = [scripts[s] EXCEPT !.step = "empty", !.hashes = lock',
                                                    !.status = status]
      OBVIOUS
    <3>2. record.kind = "refresh"
      BY <1>1, <3>1 DEF RefreshRun
    <3>3. scripts'[s] = record
      BY <1>0, <2>1, <3>1 DEF Becomes
    <3> QED
      BY <3>2, <3>3
  <2>2. ASSUME NEW how \in {"unknown", "blocked"}, Ends(s, how)
        PROVE  FALSE
    BY <1>0, <2>2 DEF Ends, Becomes, Idle
  <2> QED
    BY <1>6, <2>1, <2>2 DEF RunsCli
<1> QED
  BY <1>1, <1>2, <1>4, <1>5, <1>6 DEF RefreshStep, EmptiesSkillCache, StoresSkills, IsAt

\* Skills reported as current or updated were published a cache lifetime before
\* the run or later, whatever other runs, the CLI and people do to lock and cache.
THEOREM SkillsHold == Spec => SkillsAreRecent
<1>1. Init => SkillsInv
  <2> SUFFICES ASSUME Init PROVE SkillsInv
    OBVIOUS
  <2>1. PublishedInv
    BY DEF Init, PublishedInv
  <2> QED
    BY <2>1 DEF Init, AlignmentInit, SkillsInv, Runs, Idle
<1>2. ScriptTypeOK /\ SkillsInv /\ [Next]_vars => SkillsInv'
  BY SkillsStep
<1>3. ScriptTypeOK /\ SkillsInv /\ [Next]_vars =>
        [\A s \in Script :
           /\ Runs(s, "refresh") /\ scripts'[s].kind = "idle"
           /\ scripts'[s].how \in {"current", "updated"}
           => \A skill \in Skill :
                LET revision == scripts[s].hashes[skill]
                IN  replacedAt[revision] # None => replacedAt[revision] + Ttl >= scripts[s].at]_vars
  BY RecentSaysSo DEF SaysRecent
<1> QED
  BY <1>1, <1>2, <1>3, AlignmentTypesHold, PTL DEF Spec, SkillsAreRecent
=============================================================================

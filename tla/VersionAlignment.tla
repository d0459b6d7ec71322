-------------------------- MODULE VersionAlignment --------------------------
(***************************************************************************)
(* The scripts with which an agent moves an installation to one exact      *)
(* version: set-codex-mcp-version.mjs rewrites the pin in the Codex        *)
(* configuration, align-native-package.mjs replaces the Max package.       *)
(* Scripts of several agents may run at the same time, a person may edit   *)
(* the configuration, and a script can be killed between any two steps.    *)
(* The configuration is its pin and the edits of anything else that are in *)
(* it; a package is its version and whether all of it is there.            *)
(* Directories named by a nonce that a killed run leaves beside the        *)
(* destination are read by no script and are not part of the state.        *)
(***************************************************************************)
EXTENDS Naturals

CONSTANTS
  Script,       \* processes, each of which runs one script after the other
  None,
  MaxVersion,   \* versions are numbered in the order of their release
  Original,     \* the package at the destination to begin with, or None
  Allowances    \* bounds: of each kind of event, how many a behaviour may have

VARIABLES
  config,          \* config.toml
  configBackups,   \* its copies under ~/.maxforge/backups/codex-config
  destination,     \* the package that Max's search path names, or None
  packageBackups,  \* copies under ~/.maxforge/backups/native
  scripts,
  allowed          \* how many events of each kind are still to come, at most

configVars == <<config, configBackups>>
packageVars == <<destination, packageBackups>>
alignmentVars == <<configVars, packageVars, scripts, allowed>>

Version == 1 .. MaxVersion

Moving == 0   \* the pin of a configuration that names npm's latest tag

Config == [pin : Version \cup {Moving}, edits : SUBSET Nat]

Package == [version : Version, whole : BOOLEAN]

Whole(version) == [version |-> version, whole |-> TRUE]

\* What can be left of a package whose removal does not finish.
Parts(package) == {package, [package EXCEPT !.whole = FALSE]}

EventKind == {"pin", "install", "check", "refresh", "edits", "faults",
              "ticks", "releases", "revisions"}

ASSUME AlignmentAssumption ==
  /\ MaxVersion \in Nat \ {0}
  /\ None \notin Package \cup Version
  /\ Original \in Package \cup {None}
  /\ Allowances \subseteq [EventKind -> Nat]

Spend(kind) ==
  /\ allowed[kind] > 0
  /\ allowed' = [allowed EXCEPT ![kind] = @ - 1]

(***************************************************************************)
(* Scripts.                                                                *)
(***************************************************************************)
Idle(how) == [kind |-> "idle", how |-> how]

Runs(s, kind) == scripts[s].kind = kind

IsAt(s, kind, step) == Runs(s, kind) /\ scripts[s].step = step

Becomes(s, record) == scripts' = [scripts EXCEPT ![s] = record]

Ends(s, how) == Becomes(s, Idle(how))

Goes(s, step) == Becomes(s, [scripts[s] EXCEPT !.step = step])

Starts(s, kind) == Runs(s, "idle") /\ Spend(kind)

Fails(s) == Spend("faults") /\ Ends(s, "failed")

Dies(s) ==
  /\ ~Runs(s, "idle")
  /\ Spend("faults")
  /\ Ends(s, "died")
  /\ UNCHANGED <<configVars, packageVars>>

(***************************************************************************)
(* set-codex-mcp-version.mjs                                               *)
(***************************************************************************)

\* For the properties: edits that come into the configuration, by a person or by
\* a run that puts back what it read, overtake the copies that were made.
Overtaken(new) ==
  [s \in Script |->
     IF /\ Runs(s, "pin") /\ scripts[s].step # "copy"
        /\ ~(new.edits \subseteq config.edits)
     THEN [scripts[s] EXCEPT !.overtaken = TRUE]
     ELSE scripts[s]]

\* The configuration is read; one that has the pin already is left alone.
PinStarts(s, version) ==
  /\ Starts(s, "pin")
  /\ IF config.pin = version
       THEN Ends(s, "done")
       ELSE Becomes(s, [kind |-> "pin", step |-> "copy", version |-> version,
                        original |-> config, overtaken |-> FALSE])
  /\ UNCHANGED <<configVars, packageVars>>

CopiedBug(s) == scripts[s].original

\* copyFile copies the configuration as it is by now.
Copied(s) == config

PinCopies(s) ==
  /\ IsAt(s, "pin", "copy")
  /\ \/ configBackups' = configBackups \cup {Copied(s)} /\ Goes(s, "write") /\ UNCHANGED allowed
     \/ Fails(s) /\ UNCHANGED configBackups
  /\ UNCHANGED <<config, packageVars>>

\* writeAtomically writes what was read at the start, with the new pin.
PinWrites(s) ==
  /\ IsAt(s, "pin", "write")
  /\ \/ /\ config' = [scripts[s].original EXCEPT !.pin = scripts[s].version]
        /\ scripts' = [Overtaken(config') EXCEPT ![s] = [scripts[s] EXCEPT !.step = "verify"]]
        /\ UNCHANGED allowed
     \/ /\ Spend("faults")
        /\ Goes(s, "revert")
        /\ UNCHANGED config
  /\ UNCHANGED <<configBackups, packageVars>>

PinVerifies(s) ==
  /\ IsAt(s, "pin", "verify")
  /\ \/ config.pin = scripts[s].version /\ Ends(s, "done") /\ UNCHANGED allowed
     \/ config.pin # scripts[s].version /\ Goes(s, "revert") /\ UNCHANGED allowed
     \/ Spend("faults") /\ Goes(s, "revert")
  /\ UNCHANGED <<configVars, packageVars>>

PinReverts(s) ==
  /\ IsAt(s, "pin", "revert")
  /\ \/ /\ config' = scripts[s].original
        /\ scripts' = [Overtaken(config') EXCEPT ![s] = Idle("failed")]
        /\ UNCHANGED allowed
     \/ Fails(s) /\ UNCHANGED config
  /\ UNCHANGED <<configBackups, packageVars>>

\* A person edits the configuration, its pin perhaps.
PersonEdits(pin) ==
  /\ Spend("edits")
  /\ config' = [pin |-> pin, edits |-> config.edits \cup {allowed.edits}]
  /\ scripts' = Overtaken(config')
  /\ UNCHANGED <<configBackups, packageVars>>

(***************************************************************************)
(* align-native-package.mjs.  A run keeps the package it found, the one it *)
(* moved aside, whether it has put its own in place, and, for the          *)
(* properties, whether it ran without another and without a failed removal.*)
(***************************************************************************)

\* What acquireArtifacts, verifyChecksum, extractArchive and validatePackage have
\* left in the workspace of a run that none of them ended: all of the package.
Acquired(version) == Whole(version)

\* A run that finds Max open ends before it changes anything.
InstallStarts(s, version) ==
  /\ Starts(s, "install")
  /\ LET others == {r \in Script : Runs(r, "install")}
     IN  scripts' = [r \in Script |->
           IF r = s
           THEN [kind |-> "install", step |-> "stage", version |-> version,
                 found |-> destination, previous |-> None, placed |-> FALSE,
                 clean |-> others = {}]
           ELSE IF r \in others THEN [scripts[r] EXCEPT !.clean = FALSE]
           ELSE scripts[r]]
  /\ UNCHANGED <<configVars, packageVars>>

\* The package is copied beside the destination, and checked there.
Stages(s) ==
  /\ IsAt(s, "install", "stage")
  /\ \/ Goes(s, IF scripts[s].found # None THEN "backup" ELSE "place") /\ UNCHANGED allowed
     \/ Fails(s)
  /\ UNCHANGED <<configVars, packageVars>>

BackedUpBug(s) == {Whole(scripts[s].version)}

BackedUp(s) == {destination}

IsThere == destination # None

\* The destination may be gone by now; a copy of what is not there fails.
BacksUp(s) ==
  /\ IsAt(s, "install", "backup")
  /\ \/ /\ IsThere
        /\ packageBackups' = packageBackups \cup BackedUp(s)
        /\ Goes(s, "aside")
        /\ UNCHANGED allowed
     \/ ~IsThere /\ Ends(s, "failed") /\ UNCHANGED <<packageBackups, allowed>>
     \/ Fails(s) /\ UNCHANGED packageBackups
  /\ UNCHANGED <<configVars, destination>>

MovesAside(s) ==
  /\ IsAt(s, "install", "aside")
  /\ \/ /\ IsThere
        /\ destination' = None
        /\ Becomes(s, [scripts[s] EXCEPT !.previous = destination, !.step = "place"])
        /\ UNCHANGED allowed
     \/ ~IsThere /\ Ends(s, "failed") /\ UNCHANGED <<destination, allowed>>
     \/ Fails(s) /\ UNCHANGED destination
  /\ UNCHANGED <<configVars, packageBackups>>

\* A directory is not renamed over one that is not empty.
Places(s) ==
  /\ IsAt(s, "install", "place")
  /\ \/ /\ destination = None
        /\ destination' = Acquired(scripts[s].version)
        /\ Becomes(s, [scripts[s] EXCEPT !.placed = TRUE, !.step = "verify"])
        /\ UNCHANGED allowed
     \/ destination # None /\ Goes(s, "undo") /\ UNCHANGED <<destination, allowed>>
     \/ Spend("faults") /\ Goes(s, "undo") /\ UNCHANGED destination
  /\ UNCHANGED <<configVars, packageBackups>>

\* validatePackage and verifyMacSignature, of what is at the destination by now
Verified(s) == destination = Whole(scripts[s].version)

InstallVerifies(s) ==
  /\ IsAt(s, "install", "verify")
  /\ \/ /\ Verified(s)
        /\ IF scripts[s].previous # None THEN Goes(s, "discard") ELSE Ends(s, "done")
        /\ UNCHANGED allowed
     \/ ~Verified(s) /\ Goes(s, "undo") /\ UNCHANGED allowed
     \/ Spend("faults") /\ Goes(s, "undo")
  /\ UNCHANGED <<configVars, packageVars>>

\* A removal that fails has removed some of the files, or none.
Discards(s) ==
  /\ IsAt(s, "install", "discard")
  /\ \/ Ends(s, "done") /\ UNCHANGED allowed
     \/ /\ Spend("faults")
        /\ \E left \in Parts(scripts[s].previous) :
             Becomes(s, [scripts[s] EXCEPT !.previous = left, !.step = "undo", !.clean = FALSE])
  /\ UNCHANGED <<configVars, packageVars>>

\* Whatever is at the destination is removed, by a run that put its own there.
Undoes(s) ==
  /\ IsAt(s, "install", "undo")
  /\ \/ /\ destination' = IF scripts[s].placed THEN None ELSE destination
        /\ Goes(s, "restore")
        /\ UNCHANGED allowed
     \/ /\ scripts[s].placed /\ destination # None
        /\ destination' \in Parts(destination)
        /\ Fails(s)
  /\ UNCHANGED <<configVars, packageBackups>>

RestoredBug(s) == None

\* What is moved back is what was moved aside.
Restored(s) == scripts[s].previous

Restores(s) ==
  /\ IsAt(s, "install", "restore")
  /\ \/ /\ destination' = IF destination = None THEN Restored(s) ELSE destination
        /\ Ends(s, "failed")
        /\ UNCHANGED allowed
     \/ scripts[s].previous # None /\ Fails(s) /\ UNCHANGED destination
  /\ UNCHANGED <<configVars, packageBackups>>

(***************************************************************************)
(* Specification.                                                          *)
(***************************************************************************)
AlignmentInit ==
  /\ config = [pin |-> 1, edits |-> {}]
  /\ configBackups = {}
  /\ destination = Original
  /\ packageBackups = {}
  /\ scripts = [s \in Script |-> Idle("done")]
  /\ allowed \in Allowances

PinStep(s) == PinCopies(s) \/ PinWrites(s) \/ PinVerifies(s) \/ PinReverts(s)

InstallStep(s) ==
  \/ Stages(s) \/ BacksUp(s) \/ MovesAside(s) \/ Places(s) \/ InstallVerifies(s)
  \/ Discards(s) \/ Undoes(s) \/ Restores(s)

AlignmentNext ==
  \/ \E s \in Script :
       \/ \E version \in Version : PinStarts(s, version) \/ InstallStarts(s, version)
       \/ PinStep(s)
       \/ InstallStep(s)
       \/ Dies(s)
  \/ \E pin \in Version \cup {Moving} : PersonEdits(pin)

AlignmentSpec == AlignmentInit /\ [][AlignmentNext]_alignmentVars

(***************************************************************************)
(* Properties.                                                             *)
(***************************************************************************)
AlignmentTypeOK ==
  /\ config \in Config
  /\ configBackups \subseteq Config
  /\ destination \in Package \cup {None}
  /\ packageBackups \subseteq Package
  /\ allowed \in [EventKind -> Nat]

\* The package a person had before any alignment is somewhere, whole: at the
\* destination or among the backups, whichever runs overlap, fail or are
\* killed (installPackage copies before it moves, though another run may have
\* changed the destination between the two).
OriginalSurvives ==
  Original # None => Original \in packageBackups \cup {destination}

\* A failed installation leaves the package it found, unless another one ran
\* at the same time, a removal failed, or the last rename did.
FailedInstallRestores ==
  [][\A s \in Script :
       /\ Runs(s, "install") /\ scripts[s].clean
       /\ scripts'[s] = Idle("failed")
       /\ scripts[s].step \in {"undo", "restore"} => allowed' = allowed
       => destination' = scripts[s].found]_alignmentVars

\* Edits of a person that a pin script overwrites are in a backup, unless some
\* came into the configuration after this script's copy.
EditsAreBackedUp ==
  [][\A s \in Script :
       /\ Runs(s, "pin") /\ ~scripts[s].overtaken
       /\ PinWrites(s) \/ PinReverts(s)
       /\ ~(config.edits \subseteq config'.edits)
       => \E copy \in configBackups : config.edits \subseteq copy.edits]_alignmentVars
=============================================================================

-------------------------- MODULE ReleasePreflight --------------------------
(***************************************************************************)
(* The scripts an agent runs first, beside those of VersionAlignment:      *)
(* check-version.mjs compares the pin and the package with the releases    *)
(* that GitHub and npm publish, refresh-skills.mjs has the Skills CLI      *)
(* bring the skills to the revision published upstream.  Each keeps a      *)
(* cache of its last answer under ~/.maxforge/cache, shared by all agents  *)
(* and written in place, so that for a while the file is not readable.     *)
(***************************************************************************)
EXTENDS VersionAlignment

CONSTANTS
  Skill,
  Unread,
  Ttl,          \* how long a cached answer is fresh
  MaxRevision   \* bound of the revisions of the skills

ASSUME PreflightAssumption ==
  /\ Ttl \in Nat
  /\ MaxRevision \in Nat \ {0}

VARIABLES
  clock,
  github,        \* the version of GitHub's latest release, with all its assets or not
  npm,           \* the version of npm's latest tag
  coherentSince, \* when each version was first published as a whole, or None
  releaseCache,  \* version-check-v1.json, or None when it cannot be read
  upstream,      \* the published revision of the skills
  replacedAt,    \* when each revision was replaced upstream, or None
  lock,          \* the Skills lock: the revision of each skill, or None for an entry
                 \* of another source, pinned to a Git ref or without a hash
  skillCache     \* skill-refresh-v1.json, or None

publications == <<github, npm, coherentSince, upstream, replacedAt>>
skillVars == <<lock, skillCache>>
localVars == <<configVars, packageVars>>
preflightVars == <<clock, publications, releaseCache, skillVars>>
vars == <<alignmentVars, preflightVars>>

Revision == 1 .. MaxRevision
Lock == [Skill -> Revision \cup {None}]
Time == Nat
Release == [version : Version, complete : BOOLEAN]
Remote == [checkedAt : Time, github : Release, npm : Version]
Checked == [checkedAt : Time, hashes : Lock]

(***************************************************************************)
(* The world.                                                              *)
(***************************************************************************)
Ticks ==
  /\ Spend("ticks")
  /\ clock' = clock + 1
  /\ UNCHANGED <<localVars, scripts, publications, releaseCache, skillVars>>

IsCoherent(version) == github = [version |-> version, complete |-> TRUE] /\ npm = version

\* A release appears on GitHub, its assets follow, and npm has it before or after.
Publishes ==
  /\ Spend("releases")
  /\ \/ /\ github.version < MaxVersion
        /\ github' = [version |-> github.version + 1, complete |-> FALSE]
        /\ UNCHANGED npm
     \/ ~github.complete /\ github' = [github EXCEPT !.complete = TRUE] /\ UNCHANGED npm
     \/ npm < MaxVersion /\ npm' = npm + 1 /\ UNCHANGED github
  /\ coherentSince' = [version \in Version |->
       IF coherentSince[version] = None /\ IsCoherent(version)' THEN clock
       ELSE coherentSince[version]]
  /\ UNCHANGED <<localVars, scripts, clock, upstream, replacedAt, releaseCache, skillVars>>

PublishesSkills ==
  /\ Spend("revisions")
  /\ upstream < MaxRevision
  /\ upstream' = upstream + 1
  /\ replacedAt' = [replacedAt EXCEPT ![upstream] = clock]
  /\ UNCHANGED <<localVars, scripts, clock, github, npm, coherentSince, releaseCache, skillVars>>

(***************************************************************************)
(* check-version.mjs                                                       *)
(***************************************************************************)
CheckStarts(s, forced, offline) ==
  /\ Starts(s, "check")
  /\ Becomes(s, [kind |-> "check", step |-> "cache", at |-> clock,
                 forced |-> forced, offline |-> offline, remote |-> None, stale |-> FALSE,
                 github |-> Unread, npm |-> Unread, pin |-> Unread, package |-> Unread])
  /\ UNCHANGED <<localVars, preflightVars>>

\* An answer is used again when it is not of the future and not too old.
Fresh(cache, at) == cache # None /\ cache.checkedAt <= at /\ at - cache.checkedAt <= Ttl

\* inspectCodexConfig and inspectPackages run beside resolveRemote.
InspectsConfig(s) ==
  /\ Runs(s, "check") /\ scripts[s].pin = Unread
  /\ Becomes(s, [scripts[s] EXCEPT !.pin = config.pin])
  /\ UNCHANGED <<localVars, preflightVars, allowed>>

\* Of a package that was removed in part package-info.json may be left, or not.
InspectsPackage(s) ==
  /\ Runs(s, "check") /\ scripts[s].package = Unread
  /\ \/ /\ destination # None
        /\ Becomes(s, [scripts[s] EXCEPT !.package = destination.version])
     \/ /\ destination \notin {Whole(version) : version \in Version}
        /\ Becomes(s, [scripts[s] EXCEPT !.package = None])
  /\ UNCHANGED <<localVars, preflightVars, allowed>>

ReadsReleaseCache(s) ==
  /\ IsAt(s, "check", "cache")
  /\ LET usable == ~scripts[s].forced /\ Fresh(releaseCache, scripts[s].at)
     IN  Becomes(s, [scripts[s] EXCEPT
           !.remote = releaseCache,
           !.stale = IF scripts[s].offline THEN ~Fresh(releaseCache, scripts[s].at) ELSE ~usable,
           !.step = IF usable \/ scripts[s].offline THEN "report" ELSE "fetch"])
  /\ UNCHANGED <<localVars, preflightVars, allowed>>

\* Both requests are made at once; when one fails the cached answer is used.
Fetches(s) ==
  /\ IsAt(s, "check", "fetch")
  /\ \/ scripts[s].github = Unread /\ Becomes(s, [scripts[s] EXCEPT !.github = github]) /\ UNCHANGED allowed
     \/ scripts[s].npm = Unread /\ Becomes(s, [scripts[s] EXCEPT !.npm = npm]) /\ UNCHANGED allowed
     \/ Spend("faults") /\ Goes(s, "report")
  /\ UNCHANGED <<localVars, preflightVars>>

\* writeCache empties the file first.
EmptiesReleaseCache(s) ==
  /\ IsAt(s, "check", "fetch")
  /\ Unread \notin {scripts[s].github, scripts[s].npm}
  /\ releaseCache' = None
  /\ Becomes(s, [scripts[s] EXCEPT
       !.step = "store", !.stale = FALSE,
       !.remote = [checkedAt |-> scripts[s].at, github |-> scripts[s].github, npm |-> scripts[s].npm]])
  /\ UNCHANGED <<localVars, clock, publications, skillVars, allowed>>

StoresRelease(s) ==
  /\ IsAt(s, "check", "store")
  /\ \/ releaseCache' = scripts[s].remote /\ UNCHANGED allowed
     \/ Spend("faults") /\ UNCHANGED releaseCache
  /\ Goes(s, "report")
  /\ UNCHANGED <<localVars, clock, publications, skillVars>>

Latest(remote) ==
  IF remote # None /\ remote.github = [version |-> remote.npm, complete |-> TRUE]
  THEN remote.npm
  ELSE None

MismatchBug(run) == FALSE

\* LOCAL_VERSION_MISMATCH
Mismatch(run) == run.package # None /\ run.pin # run.package

Status(run) ==
  LET latest == Latest(run.remote)
      local == {run.pin, run.package} \ {None}
  IN  CASE run.pin = Moving \/ Mismatch(run) \/ (run.remote # None /\ latest = None) -> "blocked"
        [] OTHER -> CASE run.remote = None -> "unknown"
                      [] run.remote # None /\ \E version \in local : version < latest -> "update-available"
                      [] OTHER -> IF run.stale THEN "stale" ELSE "current"

Reports(s) ==
  /\ IsAt(s, "check", "report")
  /\ Unread \notin {scripts[s].pin, scripts[s].package}
  /\ Ends(s, Status(scripts[s]))
  /\ UNCHANGED <<localVars, preflightVars, allowed>>

(***************************************************************************)
(* refresh-skills.mjs                                                      *)
(***************************************************************************)

\* The lock is read first; every tracked skill must have a trusted entry.
RefreshStarts(s, forced, offline) ==
  /\ Starts(s, "refresh")
  /\ IF None \in {lock[skill] : skill \in Skill}
       THEN Ends(s, "blocked")
       ELSE Becomes(s, [kind |-> "refresh", step |-> "cache", at |-> clock,
                        forced |-> forced, offline |-> offline, hashes |-> lock,
                        status |-> "current"])
  /\ UNCHANGED <<localVars, preflightVars>>

HashesEqualBug(cached, hashes) == TRUE

HashesEqual(cached, hashes) == cached = hashes

ReadsSkillCache(s) ==
  /\ IsAt(s, "refresh", "cache")
  /\ LET usable == /\ ~scripts[s].forced
                   /\ Fresh(skillCache, scripts[s].at)
                   /\ HashesEqual(skillCache.hashes, scripts[s].hashes)
     IN  CASE usable -> Ends(s, "current")
           [] ~usable /\ scripts[s].offline -> Ends(s, "unknown")
           [] OTHER -> Goes(s, "cli")
  /\ UNCHANGED <<localVars, preflightVars, allowed>>

\* The Skills CLI, and the second reading of the lock.  A CLI that fails may
\* have updated some of the skills.
RunsCli(s) ==
  /\ IsAt(s, "refresh", "cli")
  /\ \/ /\ lock' = [skill \in Skill |-> upstream]
        /\ Becomes(s, [scripts[s] EXCEPT
             !.step = "empty", !.hashes = lock',
             !.status = IF lock' = scripts[s].hashes THEN "current" ELSE "updated"])
        /\ UNCHANGED allowed
     \/ /\ Spend("faults")
        /\ \E updated \in SUBSET Skill :
             lock' = [skill \in Skill |-> IF skill \in updated THEN upstream ELSE lock[skill]]
        /\ Ends(s, "unknown")
     \/ /\ Spend("faults")
        /\ \E skill \in Skill : lock' = [lock EXCEPT ![skill] = None]
        /\ Ends(s, "blocked")
  /\ UNCHANGED <<localVars, clock, publications, releaseCache, skillCache>>

EmptiesSkillCache(s) ==
  /\ IsAt(s, "refresh", "empty")
  /\ skillCache' = None
  /\ Goes(s, "store")
  /\ UNCHANGED <<localVars, clock, publications, releaseCache, lock, allowed>>

\* The time of an answer is that of the start of its run.
StoresSkills(s) ==
  /\ IsAt(s, "refresh", "store")
  /\ \/ skillCache' = [checkedAt |-> scripts[s].at, hashes |-> scripts[s].hashes] /\ UNCHANGED allowed
     \/ Spend("faults") /\ UNCHANGED skillCache
  /\ Ends(s, scripts[s].status)
  /\ UNCHANGED <<localVars, clock, publications, releaseCache, lock>>

\* A person puts other revisions of the skills in place, with their lock.
PersonRestoresSkills ==
  /\ Spend("edits")
  /\ lock' \in [Skill -> 1 .. upstream]
  /\ UNCHANGED <<localVars, scripts, clock, publications, releaseCache, skillCache>>

(***************************************************************************)
(* Specification.                                                          *)
(***************************************************************************)
Init ==
  /\ AlignmentInit
  /\ clock = 0
  /\ github = [version |-> 1, complete |-> TRUE]
  /\ npm = 1
  /\ coherentSince = [version \in Version |-> IF version = 1 THEN 0 ELSE None]
  /\ releaseCache = None
  /\ upstream = 1
  /\ replacedAt = [revision \in Revision |-> None]
  /\ lock = [skill \in Skill |-> 1]
  /\ skillCache = None

CheckStep(s) ==
  \/ InspectsConfig(s) \/ InspectsPackage(s) \/ ReadsReleaseCache(s) \/ Fetches(s)
  \/ EmptiesReleaseCache(s) \/ StoresRelease(s) \/ Reports(s)

RefreshStep(s) ==
  ReadsSkillCache(s) \/ RunsCli(s) \/ EmptiesSkillCache(s) \/ StoresSkills(s)

PreflightStep ==
  \E s \in Script :
    \/ \E forced, offline \in BOOLEAN :
         CheckStarts(s, forced, offline) \/ RefreshStarts(s, forced, offline)
    \/ CheckStep(s)
    \/ RefreshStep(s)

Next ==
  \/ AlignmentNext /\ UNCHANGED preflightVars
  \/ PreflightStep
  \/ Ticks
  \/ Publishes
  \/ PublishesSkills
  \/ PersonRestoresSkills

Spec == Init /\ [][Next]_vars

(***************************************************************************)
(* Properties.                                                             *)
(***************************************************************************)
TypeOK ==
  /\ AlignmentTypeOK
  /\ clock \in Time
  /\ github \in Release /\ npm \in Version
  /\ releaseCache \in Remote \cup {None}
  /\ lock \in Lock
  /\ skillCache \in Checked \cup {None}

\* "current" is true of an installation that nobody changed during the check:
\* its pin and its package are of one version, and no release that was coherent
\* a cache lifetime before the check began is newer.
CurrentIsTrue ==
  [][\A s \in Script :
       /\ Runs(s, "check") /\ scripts'[s] = Idle("current")
       /\ destination # None /\ scripts[s].pin = config.pin
       /\ scripts[s].package = destination.version
       => /\ config.pin = destination.version
          /\ \A version \in Version :
               coherentSince[version] # None /\ coherentSince[version] + Ttl < scripts[s].at
               => version <= config.pin]_vars

\* Skills reported as current or updated have, in the lock the run read, a
\* revision that was published a cache lifetime before the run, or later.
SkillsAreRecent ==
  [][\A s \in Script :
       /\ Runs(s, "refresh") /\ scripts'[s].kind = "idle"
       /\ scripts'[s].how \in {"current", "updated"}
       => \A skill \in Skill :
            LET revision == scripts[s].hashes[skill]
            IN  replacedAt[revision] # None => replacedAt[revision] + Ttl >= scripts[s].at]_vars
=============================================================================

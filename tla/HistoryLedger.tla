--------------------------- MODULE HistoryLedger ---------------------------
(***************************************************************************)
(* PatchHistoryIdentityLedger: which patch identities a person has         *)
(* declared to be one patch (rekey, merge), and which are hidden from      *)
(* agents (forget).  The ledger file holds the decisions in the order in   *)
(* which they were taken; memory is what replaying them gives, and the     *)
(* identities that were observed.  An identity stands for a patcherId      *)
(* together with its scope.  Reasons and timestamps are left out.          *)
(***************************************************************************)
EXTENDS Naturals, Sequences

CONSTANTS
  Identity,
  ScopeOf,       \* the scope of each identity
  None           \* the absent target of a forget

ASSUME LedgerAssumption ==
  /\ None \notin Identity
  /\ DOMAIN ScopeOf = Identity

VARIABLES
  identities,  \* knownIdentities, aliases and forgotten of the broker
  ledger       \* the lines of identity-resolutions-v1.ndjson

ledgerVars == <<identities, ledger>>

Decision ==
  [action : {"rekey", "merge", "forget"}, source : Identity,
   target : Identity \cup {None}]

\* A memory: the identities observed, from an alias to the identity that took
\* its place, and the canonical identities that are hidden.
Memory ==
  [known : SUBSET Identity,
   aliases : UNION {[A -> Identity] : A \in SUBSET Identity},
   forgotten : SUBSET Identity]

NoIdentities == [known |-> {}, aliases |-> [i \in {} |-> i], forgotten |-> {}]

LedgerTypeOK ==
  /\ identities \in Memory
  /\ ledger \in Seq(Decision)

IsAlias(m, i) == i \in DOMAIN m.aliases

\* canonicalKey
Canonical(m, i) ==
  LET follow[k \in Identity] == IF IsAlias(m, k) THEN follow[m.aliases[k]] ELSE k
  IN  follow[i]

IsForgottenBug(m, i) == i \in m.forgotten

\* The group of an identity was forgotten.
IsForgotten(m, i) == Canonical(m, i) \in m.forgotten

\* What was observed under one identity is shown to who asks for another.
Matches(m, historical, requested) ==
  /\ ~IsForgotten(m, historical)
  /\ Canonical(m, historical) = Canonical(m, requested)

\* validateRequest: only a forget has no target, and nothing crosses scopes.
WellFormed(d) ==
  IF d.action = "forget"
  THEN d.target = None
  ELSE d.target # None /\ ScopeOf[d.source] = ScopeOf[d.target]

\* validateNewDecision
Valid(m, d) ==
  /\ ~IsAlias(m, d.source)
  /\ d.source \in m.known
  /\ d.source \notin m.forgotten
  /\ d.action # "forget" =>
       /\ ~IsAlias(m, d.target)
       /\ d.target \notin m.forgotten
       /\ (d.target \in m.known) = (d.action = "merge")

ApplicableBug(m, d) ==
  /\ ~IsAlias(m, d.source)
  /\ d.action # "forget" =>
       /\ ~IsAlias(m, d.target)
       /\ m.forgotten \cap {d.source, d.target} = {}

ApplicableKnownBug(m, d) ==
  /\ ApplicableBug(m, d)
  /\ d.source # d.target
  /\ d.source \in m.known

\* What apply checks once more, also of the lines of a file.
Applicable(m, d) ==
  /\ ~IsAlias(m, d.source)
  /\ d.action # "forget" =>
       /\ ~IsAlias(m, d.target)
       /\ d.source # d.target
       /\ m.forgotten \cap {d.source, d.target} = {}

Redirected(m, d) ==
  [i \in {d.source} \cup DOMAIN m.aliases |->
     IF i = d.source THEN d.target ELSE m.aliases[i]]

\* apply; a decision that it refuses changes nothing.
Applied(m, d) ==
  IF ~Applicable(m, d) THEN m
  ELSE IF d.action = "forget"
  THEN [m EXCEPT !.forgotten = @ \cup {d.source}]
  ELSE [m EXCEPT !.aliases = Redirected(m, d), !.known = @ \cup {d.target}]

\* load
Replay(file) ==
  LET upTo[n \in 0..Len(file)] ==
        IF n = 0 THEN NoIdentities ELSE Applied(upTo[n - 1], file[n])
  IN  upTo[Len(file)]

Observed(m, seen) == [m EXCEPT !.known = @ \cup seen]

(***************************************************************************)
(* The operations of the ledger.                                           *)
(***************************************************************************)
LedgerInit ==
  /\ identities = NoIdentities
  /\ ledger = <<>>

\* A session of identity i starts.
Observes(i) ==
  /\ identities' = Observed(identities, {i})
  /\ UNCHANGED ledger

\* resolve: the decision is written, then applied.  One that names its source
\* as its target passes validation, is written and refused.
Resolves(d) ==
  /\ WellFormed(d)
  /\ Valid(identities, d)
  /\ ledger' = Append(ledger, d)
  /\ identities' = Applied(identities, d)

\* load, after which the identities of the retained files are observed again.
Loads(file, seen) ==
  /\ ledger' = file
  /\ identities' = Observed(Replay(file), seen)

(***************************************************************************)
(* Properties.                                                             *)
(***************************************************************************)

\* Following aliases always ends: no decision, however long the chain, and no
\* replay closes a cycle, so canonicalKey never throws
\* (patch-history-identity.ts, apply and canonicalKey).
AliasesEnd ==
  \A S \in SUBSET DOMAIN identities.aliases :
    S # {} => \E i \in S : identities.aliases[i] \notin S

\* A broker that restarts takes every decision as the one that recorded it
\* did: replaying the file gives the aliases and the hidden identities that
\* memory has, although replay knows no observed identity and meets the
\* decisions that were refused after they had been written.
ReplayAgrees ==
  LET m == Replay(ledger)
  IN  /\ m.aliases = identities.aliases
      /\ m.forgotten = identities.forgotten
=============================================================================

\* Two agents, each running one script after the other.
SPECIFICATION Spec
CONSTANTS
  None = None
  Unread = Unread
  Script = {s1, s2}
  Skill = {k1}
  MaxVersion = 2
  Original <- FirstPackage
  Allowances <- AgentAllowances
  Ttl = 1
  MaxRevision = 2
SYMMETRY ScriptSymmetry
INVARIANTS OriginalSurvives
PROPERTIES FailedInstallRestores EditsAreBackedUp CurrentIsTrue SkillsAreRecent
CHECK_DEADLOCK FALSE

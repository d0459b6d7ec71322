------------------------- MODULE MCReleasePreflight -------------------------
\* A small instance of ReleasePreflight for TLC.
EXTENDS ReleasePreflight, TLC

FirstPackage == Whole(1)

Allowance(pins, installs, checks, refreshes, edits, faults, ticks, releases, revisions) ==
  [pin |-> pins, install |-> installs, check |-> checks, refresh |-> refreshes,
   edits |-> edits, faults |-> faults,
   ticks |-> ticks, releases |-> releases, revisions |-> revisions]

\* Two agents set pins, or align, two refresh the skills, and one checks while another aligns.
AgentAllowances ==
  { Allowance(3, 0, 0, 0, 2, 1, 0, 0, 0),
    Allowance(0, 3, 0, 0, 0, 2, 0, 0, 0),
    Allowance(0, 0, 0, 3, 1, 1, 2, 0, 1),
    Allowance(0, 0, 2, 0, 0, 0, 2, 3, 0),
    Allowance(0, 0, 2, 0, 0, 1, 2, 1, 0),
    Allowance(1, 1, 1, 0, 0, 1, 0, 0, 0) }

ScriptSymmetry == Permutations(Script)
=============================================================================

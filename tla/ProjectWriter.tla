--------------------------- MODULE ProjectWriter ----------------------------
(***************************************************************************)
(* What the brokers of a project promise about its state file, its edit    *)
(* history and its Max clients: one process at a time works on them.       *)
(***************************************************************************)
CONSTANT Process

VARIABLE writers  \* the processes that work on the project

Init == writers = {}

Begins(p) == writers = {} /\ writers' = {p}

Ends(p) == writers = {p} /\ writers' = {}

Next == \E p \in Process : Begins(p) \/ Ends(p)

Spec == Init /\ [][Next]_writers
=============================================================================

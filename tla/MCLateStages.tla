------------------------------ MODULE MCLateStages ------------------------------
(* Small instances of LateStages for TLC: which statement is which does not    *)
(* matter.                                                                      *)
EXTENDS LateStages, TLC

\* A run that wants Lean gets two papers nothing is wrong with and three commands;
\* one that does not, three papers, for revisions and a correction, and two commands.
Papers == [formal \in BOOLEAN |-> IF formal THEN 2 ELSE 3]
Commands == [formal \in BOOLEAN |-> IF formal THEN 3 ELSE 2]

PaperFaults == [formal \in BOOLEAN |-> IF formal THEN {"flawless"} ELSE Fault \ {"flawless"}]

Symmetry == Permutations(Statements)
=============================================================================

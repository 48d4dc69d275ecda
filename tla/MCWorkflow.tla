------------------------------- MODULE MCWorkflow -------------------------------
(* Small instances of Workflow for TLC: which backend the run starts with does *)
(* not matter.                                                                  *)
EXTENDS Workflow, TLC

Symmetry == Permutations(Providers)
=============================================================================

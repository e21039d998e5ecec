---------------------------- MODULE MCWorkflow ----------------------------
(* Model values and symmetry for the runs of Workflow. *)
EXTENDS Workflow, TLC

\* Only model values that the specification merely compares are permuted.
Symmetric == Permutations(Attempt) \cup Permutations(Job)
===========================================================================

--------------------------- MODULE MCProcessing ---------------------------
(* Model values and symmetry for the runs of Processing. *)
EXTENDS Processing, TLC

\* The tokens, the dispatch calls and the files are interchangeable: they are
\* only compared with each other.  (Never used in a run that checks liveness.)
Symmetric == Permutations(Attempt) \cup Permutations(Dispatcher) \cup Permutations(Job)
===========================================================================

---------------------------- MODULE SurveyIntake ----------------------------
(***************************************************************************)
(* What the service promises about the files of a survey: each is admitted *)
(* at once and for good, only while the survey is open, only if its        *)
(* content is new to the survey, and only up to the size limit.            *)
(***************************************************************************)
EXTENDS Integers

CONSTANTS Upload, Content, Size, SizeLimit

VARIABLES
  files,  \* the uploads whose file the survey has
  open    \* the survey and its project accept files

vars == <<files, open>>

\* A fold, written out for the provers, which take no operator as an argument.
Total ==
  LET sum[f \in SUBSET files] ==
        IF f = {} THEN 0 ELSE LET u == CHOOSE u \in f : TRUE IN Size[u] + sum[f \ {u}]
  IN  sum[files]

Init == files = {} /\ open = TRUE

Admit(u) ==
  /\ open
  /\ \A v \in files : Content[v] # Content[u]
  /\ Total + Size[u] <= SizeLimit
  /\ files' = files \cup {u}
  /\ UNCHANGED open

Close == open /\ open' = FALSE /\ UNCHANGED files

Next == (\E u \in Upload : Admit(u)) \/ Close

Spec == Init /\ [][Next]_vars
===========================================================================

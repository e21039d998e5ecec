-------------------------- MODULE SurveyLifecycle --------------------------
(***************************************************************************)
(* What the service promises about one survey, whatever its queues,        *)
(* leases and retries do: files are added while it is open, each is        *)
(* processed to the end or fails and may be put back by hand, the survey   *)
(* is ready exactly when the last of its files is done, and from its       *)
(* submission on its files are frozen while the review takes its course.   *)
(***************************************************************************)
CONSTANT Job

VARIABLES
  stage,   \* what became of each file
  phase    \* where the survey is on its way to the archive

vars == <<stage, phase>>

Stages == {"none", "pending", "done", "failed"}

Phases == {"open", "ready", "submitted", "approved", "rejected", "archived"}

TypeOK == stage \in [Job -> Stages] /\ phase \in Phases

Init == stage = [j \in Job |-> "none"] /\ phase = "open"

\* A file is added; a survey that was ready is open again.
Add(j) ==
  /\ phase \in {"open", "ready"}
  /\ stage[j] = "none"
  /\ stage' = [stage EXCEPT ![j] = "pending"]
  /\ phase' = "open"

\* Processing succeeds; the last file to be done makes the survey ready.
Finish(j) ==
  /\ phase = "open"
  /\ stage[j] = "pending"
  /\ stage' = [stage EXCEPT ![j] = "done"]
  /\ phase' = IF \A k \in Job \ {j} : stage[k] \in {"none", "done"}
              THEN "ready" ELSE "open"

\* The service gives the file up.
Fail(j) ==
  /\ phase = "open"
  /\ stage[j] = "pending"
  /\ stage' = [stage EXCEPT ![j] = "failed"]
  /\ UNCHANGED phase

\* A user puts a failed file back.
Retry(j) ==
  /\ phase = "open"
  /\ stage[j] = "failed"
  /\ stage' = [stage EXCEPT ![j] = "pending"]
  /\ UNCHANGED phase

Move(from, to) ==
  /\ phase \in from
  /\ phase' = to
  /\ UNCHANGED stage

Review ==
  \/ Move({"ready"}, "submitted")
  \/ Move({"submitted"}, "approved")
  \/ Move({"submitted"}, "rejected")
  \/ Move({"approved", "rejected"}, "archived")

Next ==
  \/ \E j \in Job : Add(j) \/ Finish(j) \/ Fail(j) \/ Retry(j)
  \/ Review

Spec == Init /\ [][Next]_vars

\* Every pending file is done or given up in the end.
FairSpec == Spec /\ \A j \in Job : WF_vars(Finish(j) \/ Fail(j))
===========================================================================

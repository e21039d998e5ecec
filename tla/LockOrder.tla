---------------------------- MODULE LockOrder ----------------------------
(***************************************************************************)
(* The row locks of every transaction of the services, in the order in     *)
(* which the code takes them, on one database.  A script is the list of    *)
(* the row locks of one transaction:                                       *)
(*                                                                         *)
(*   "update"  SELECT ... FOR UPDATE, DELETE, UPDATE of a unique column    *)
(*   "write"   UPDATE of other columns                                     *)
(*   "share"   the check of a foreign key at COMMIT (the constraints are   *)
(*             deferred), in the order in which the rows were written      *)
(*                                                                         *)
(* A row that the transaction inserts is not listed: nobody else sees it.  *)
(* What the transactions read and write is in the other modules; here a    *)
(* transaction is only the order of its locks, and it may fail between any *)
(* two of them.  The rows of a project are its tree: sites, surveys, their *)
(* approvals, files, jobs and measurements, and memberships.  Users stand  *)
(* outside of it.  The rows of one kind in a project are numbered by       *)
(* Items; which job belongs to which survey plays no part.                 *)
(***************************************************************************)
EXTENDS Naturals, Sequences, FiniteSets

CONSTANTS Sessions,    \* the connections, one transaction at a time each
          Projects, Items, Users

VARIABLES script,      \* session -> the locks of its transaction, << >> if idle
          done         \* session -> how many of them it holds

vars == <<script, done>>

-----------------------------------------------------------------------------
(* Rows and lock modes. *)

Project(p) == [kind |-> "project", project |-> p]
Part(kind, p, i) == [kind |-> kind, project |-> p, item |-> i]
User(u) == [kind |-> "user", user |-> u]

Update(row) == [row |-> row, mode |-> "update"]
Write(row)  == [row |-> row, mode |-> "write"]
Share(row)  == [row |-> row, mode |-> "share"]

Compatible(m, n) == {m, n} \in {{"share"}, {"share", "write"}}

InTree(lock) == lock.row.kind # "user"

-----------------------------------------------------------------------------
(* The transactions, named as in the code.  a is the acting user, u the    *)
(* user the request is about.                                              *)

\* The row of the job is locked before the survey's.
RequeueJobSlip(p, i, j) ==
    <<Update(Part("job", p, j)), Update(Project(p)), Update(Part("survey", p, i)),
      Share(Project(p)), Share(Part("survey", p, i))>>

\* schedule_processing_retry and the two sweeps.
RequeueJob(p, i, j) ==
    <<Update(Project(p)), Update(Part("survey", p, i)), Update(Part("job", p, j)),
      Share(Project(p)), Share(Part("survey", p, i))>>

\* _mark_job_running, _mark_job_completed, mark_processing_failed_permanently.
MoveJob(p, i, j) ==
    <<Update(Project(p)), Update(Part("survey", p, i)), Update(Part("job", p, j)),
      Write(Part("file", p, j)), Update(Part("survey", p, i)),
      Share(Project(p)), Share(Part("survey", p, i))>>

ManualRetry(p, i, j, a) ==
    <<Update(Project(p)), Update(Part("survey", p, i)), Update(Part("job", p, j)),
      Write(Part("file", p, j)), Update(Part("survey", p, i)),
      Share(Project(p)), Share(Part("survey", p, i)), Share(User(a))>>

\* dispatch_processing_job, _mark_dispatch_failed.
DispatchJob(p, j) == <<Update(Part("job", p, j))>>

\* refresh_processing_lease, _set_job_progress.
ReportProgress(p, j) == <<Write(Part("job", p, j))>>

AdmitUpload(p, i, a) ==
    <<Update(Project(p)), Update(Part("survey", p, i)), Write(Part("survey", p, i)),
      Share(Part("survey", p, i)), Share(User(a)), Share(Project(p))>>

\* record_file_download_audit_event: the entry of the audit log alone.
RecordDownload(p, i, a) ==
    <<Share(Project(p)), Share(Part("survey", p, i)), Share(User(a))>>

\* submit_survey_for_approval, archive_survey_after_review, update_survey.
ChangeSurvey(p, i, a) ==
    <<Update(Project(p)), Update(Part("survey", p, i)), Update(Part("survey", p, i)),
      Share(Part("survey", p, i)), Share(User(a)), Share(Project(p))>>

\* approve_survey, reject_survey.
ReviewSurvey(p, i, a) ==
    <<Update(Project(p)), Update(Part("survey", p, i)), Update(Part("survey", p, i)),
      Write(Part("approval", p, i)), Share(User(a)), Share(Project(p)),
      Share(Part("survey", p, i))>>

\* create_survey, update_site.
UseSite(p, k, a) ==
    <<Update(Project(p)), Update(Part("site", p, k)), Share(User(a)), Share(Project(p)),
      Share(Part("site", p, k))>>

\* delete_site, with the rows that the deletion of a survey takes along.
DeleteSite(p, k, i, j, a) ==
    <<Update(Project(p)), Update(Part("site", p, k)), Update(Part("job", p, j)),
      Update(Part("measurement", p, i)), Update(Part("approval", p, i)),
      Update(Part("file", p, j)), Update(Part("survey", p, i)),
      Share(Project(p)), Share(User(a))>>

\* archive_project, create_site.
ChangeProject(p, a) == <<Update(Project(p)), Share(Project(p)), Share(User(a))>>

\* update_project with a new manager, add_project_member.
HandProject(p, u, a) ==
    <<Update(Project(p)), Update(User(u)), Share(Project(p)), Share(User(a))>>

RemoveMember(p, u, a) ==
    <<Update(Project(p)), Update(Part("membership", p, u)), Share(Project(p)), Share(User(a))>>

\* create_project.
CreateProject(u, a) == <<Share(User(u)), Share(User(a))>>

\* resolve_active_user_from_external_identity.
Authenticate(u) == <<Update(User(u))>>

\* update_local_user: a new e-mail address is a new value of a unique column.
ChangeEmail(u, a) == <<Update(User(u)), Share(User(a))>>
ChangeRole(u, a)  == <<Write(User(u)), Share(User(a))>>

CreateUser(a) == <<Share(User(a))>>

\* The row of the measurement is checked before the entry of the audit log:
\* its survey comes before the project.
CreateMeasurement(p, i, a) ==
    <<Share(User(a)), Share(Part("survey", p, i)), Share(Project(p)),
      Share(Part("survey", p, i)), Share(User(a))>>

DeleteMeasurement(p, i, a) ==
    <<Update(Part("measurement", p, i)), Share(Project(p)), Share(Part("survey", p, i)),
      Share(User(a))>>

Measurements(p, i, a) == {CreateMeasurement(p, i, a), DeleteMeasurement(p, i, a)}

\* The transactions about project p, its survey i, job j and site k.
Transactions(p, i, j, k, u, a) ==
    {RequeueJob(p, i, j), MoveJob(p, i, j), ManualRetry(p, i, j, a), DispatchJob(p, j),
     ReportProgress(p, j), AdmitUpload(p, i, a), RecordDownload(p, i, a),
     ChangeSurvey(p, i, a), ReviewSurvey(p, i, a), UseSite(p, k, a),
     DeleteSite(p, k, i, j, a), ChangeProject(p, a), HandProject(p, u, a),
     RemoveMember(p, u, a), CreateProject(u, a), Authenticate(u), ChangeEmail(u, a),
     ChangeRole(u, a), CreateUser(a)}
    \cup Measurements(p, i, a)

Scripts == UNION {Transactions(p, i, j, k, u, a) :
                    p \in Projects, i \in Items, j \in Items, k \in Items,
                    u \in Users, a \in Users}

-----------------------------------------------------------------------------
(* The sessions. *)

Init == /\ script = [t \in Sessions |-> << >>]
        /\ done = [t \in Sessions |-> 0]

Begin(t) == /\ script[t] = << >>
            /\ \E s \in Scripts : script' = [script EXCEPT ![t] = s]
            /\ UNCHANGED done

Pending(t) == done[t] < Len(script[t])

Awaited(t) == script[t][done[t] + 1]

\* u holds a lock that t cannot share.
Blocks(u, t) ==
    /\ u # t
    /\ Pending(t)
    /\ \E k \in 1..done[u] : /\ script[u][k].row = Awaited(t).row
                             /\ ~Compatible(script[u][k].mode, Awaited(t).mode)

\* A lock that is asked for and not granted leaves the transaction waiting.
Lock(t) == /\ Pending(t)
           /\ \A u \in Sessions : ~Blocks(u, t)
           /\ done' = [done EXCEPT ![t] = @ + 1]
           /\ UNCHANGED script

End(t) == /\ script' = [script EXCEPT ![t] = << >>]
          /\ done' = [done EXCEPT ![t] = 0]

Commit(t) == script[t] # << >> /\ ~Pending(t) /\ End(t)

\* A validation error, a lost connection, or the database ends a deadlock.
Rollback(t) == Pending(t) /\ End(t)

Next == \E t \in Sessions : Begin(t) \/ Lock(t) \/ Commit(t) \/ Rollback(t)

Spec == Init /\ [][Next]_vars

-----------------------------------------------------------------------------
(* Properties *)

\* Every session is idle or has taken some of the locks of one transaction of
\* the services.
LocksTypeOK ==
    /\ script \in [Sessions -> Scripts \cup {<< >>}]
    /\ done \in [Sessions -> Nat]
    /\ \A t \in Sessions : done[t] <= Len(script[t])

\* Two sessions hold the same row only in modes that share it.
LocksExclude ==
    \A t, u \in Sessions : t # u =>
        \A k \in 1..done[t], l \in 1..done[u] :
            script[t][k].row = script[u][l].row
                => Compatible(script[t][k].mode, script[u][l].mode)

\* The members of a set wait for one another, all of them in a project's tree.
TreeDeadlock(S) ==
    /\ S # {}
    /\ \A t \in S : (\E u \in S : Blocks(u, t)) /\ InTree(Awaited(t))

\* The transaction of t creates or deletes a measurement.
Measures(t) == \E p \in Projects, i \in Items, a \in Users : script[t] \in Measurements(p, i, a)

\* The common lock order (surveys/services.py:70, retry.py:112: project ->
\* survey -> processing job) does what it is for: the requests, the workers and
\* the sweeps never wait for each other in a circle inside a project's tree.
\* Such a circle needs a user's row, or one of the two transactions that do
\* not follow the order (maps/services.py:81).
DeadlocksMeasure == \A S \in SUBSET Sessions : TreeDeadlock(S) => \E t \in S : Measures(t)

\* Nothing inside a project's tree waits in a circle at all (retry.py:112).
\* TLC refutes it: a measurement comes to its survey before its project.
TreeNeverDeadlocks == \A S \in SUBSET Sessions : ~TreeDeadlock(S)
=============================================================================

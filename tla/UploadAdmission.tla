-------------------------- MODULE UploadAdmission --------------------------
(***************************************************************************)
(* admit_uploaded_file of apps/files: the requests that upload files to    *)
(* one survey at the same time, the private object store and the database. *)
(* The bytes go to staging keys first; then a transaction that holds the   *)
(* lock of the survey checks again, inserts the rows and moves the objects *)
(* to canonical keys one by one; an exception anywhere rolls it back and   *)
(* deletes the objects as well as it can.  The two stores commit           *)
(* separately, and a process may die at any step.                          *)
(*                                                                         *)
(* Rows that a transaction has not committed are not in `rows`: nobody but *)
(* the holder of the lock could see them.  A definition introduced as      *)
(* "a slip" is a likely mistake in the code of the one after it.           *)
(***************************************************************************)
EXTENDS Integers

CONSTANTS
  Upload,               \* the requests; also the id of the file each would create
  Content,              \* sha256 of the primary file of each
  Parts,                \* how many objects each has: the file and its assets
  Size,                 \* their bytes together
  SizeLimit,            \* MAX_SURVEY_TOTAL_SIZE_BYTES
  CommitAnswerIsLost,   \* a COMMIT may succeed although its answer is lost
  Nobody                \* the lock is free

ASSUME PartsAssumption == Parts \in [Upload -> Nat \ {0}]
ASSUME SizeAssumption == Size \in [Upload -> Nat] /\ SizeLimit \in Nat
ASSUME NobodyAssumption == Nobody \notin Upload
ASSUME LostAssumption == CommitAnswerIsLost \in BOOLEAN

VARIABLES
  request,   \* where each request is
  done,      \* how many of its parts the loop it is in has dealt with
  objects,   \* the objects of each upload in the bucket
  todo,      \* those _cleanup_storage_objects has still to delete
  rows,      \* the committed SurveyFile rows with their assets
  lock,      \* who holds the rows of the project and the survey
  open,      \* project and survey accept uploads
  impaired   \* uploads hit by a fault that no handler of the request sees

admissionVars == <<request, done, objects, todo, rows, lock, open, impaired>>

Object(u) == {"staged", "canonical"} \X (1 .. Parts[u])

Staged(n) == {"staged"} \X (1 .. n)
Canonical(n) == {"canonical"} \X (1 .. n)

Answers == {"created", "duplicate", "refused", "failed"}

\* In a transaction: before a part is copied, and before its source goes.
InTransaction == {"promoting", "copied"}

Running == {"staging", "dropping", "cleaning"} \cup InTransaction

AdmissionTypeOK ==
  /\ request \in [Upload -> {"new"} \cup Running \cup Answers]
  /\ done \in [Upload -> Nat] /\ \A u \in Upload : done[u] <= Parts[u]
  /\ objects \in [Upload -> SUBSET ({"staged", "canonical"} \X Nat)]
  /\ todo \in [Upload -> SUBSET ({"staged", "canonical"} \X Nat)]
  /\ \A u \in Upload : objects[u] \subseteq Object(u) /\ todo[u] \subseteq Object(u)
  /\ rows \subseteq Upload
  /\ lock \in Upload \cup {Nobody}
  /\ open \in BOOLEAN
  /\ impaired \subseteq Upload

AdmissionInit ==
  /\ request = [u \in Upload |-> "new"]
  /\ done = [u \in Upload |-> 0]
  /\ objects = [u \in Upload |-> {}]
  /\ todo = [u \in Upload |-> {}]
  /\ rows = {}
  /\ lock = Nobody
  /\ open = TRUE
  /\ impaired = {}

---------------------------------------------------------------------------
\* The sum of the sizes of files and assets (a fold, written out for the
\* provers, which take no operator as an argument).
TotalSize ==
  LET sum[f \in SUBSET rows] ==
        IF f = {} THEN 0 ELSE LET u == CHOOSE u \in f : TRUE IN Size[u] + sum[f \ {u}]
  IN  sum[rows]

\* _validate_survey_total_size_limit
Fits(u) == TotalSize + Size[u] <= SizeLimit

Accepted(u) == open /\ Fits(u)

IsDuplicate(u) == \E v \in rows : Content[v] = Content[u]

\* The request goes on at `where`, with the part after n.
GoTo(u, where, n) ==
  /\ request' = [request EXCEPT ![u] = where]
  /\ done' = [done EXCEPT ![u] = n]

\* A slip: a transaction opened by hand, which the handler does not roll back.
FailOnly(u, kept, known) ==
  /\ GoTo(u, "cleaning", 0)
  /\ objects' = [objects EXCEPT ![u] = kept]
  /\ todo' = [todo EXCEPT ![u] = known]
  /\ UNCHANGED lock

\* The exception handler: the transaction, if any, is rolled back, and the
\* keys known so far are deleted.  `kept` are the objects there are by now.
Fail(u, kept, known) ==
  /\ GoTo(u, "cleaning", 0)
  /\ objects' = [objects EXCEPT ![u] = kept]
  /\ todo' = [todo EXCEPT ![u] = known]
  /\ lock' = IF lock = u THEN Nobody ELSE lock

---------------------------------------------------------------------------
(* Before the transaction *)

\* The checks made first: actor, state, content, size.
Refuse(u) ==
  /\ request[u] = "new"
  /\ request' = [request EXCEPT ![u] = "refused"]
  /\ UNCHANGED <<done, objects, todo, rows, lock, open, impaired>>

Begin(u) ==
  /\ request[u] = "new"
  /\ Accepted(u)
  /\ GoTo(u, "staging", 0)
  /\ UNCHANGED <<objects, todo, rows, lock, open, impaired>>

\* upload_to_staging of the file, then of each asset.
StagePart(u) ==
  /\ request[u] = "staging"
  /\ done[u] < Parts[u]
  /\ GoTo(u, "staging", done[u] + 1)
  /\ objects' = [objects EXCEPT ![u] = @ \cup {<<"staged", done[u] + 1>>}]
  /\ UNCHANGED <<todo, rows, lock, open, impaired>>

\* The transfer raises.  The key was not returned, so if the object is there
\* all the same nobody deletes it.
StagingFails(u) ==
  /\ request[u] = "staging"
  /\ done[u] < Parts[u]
  /\ \/ /\ Fail(u, objects[u], Staged(done[u]))
        /\ UNCHANGED impaired
     \/ /\ Fail(u, objects[u] \cup {<<"staged", done[u] + 1>>}, Staged(done[u]))
        /\ impaired' = impaired \cup {u}
  /\ UNCHANGED <<rows, open>>

---------------------------------------------------------------------------
(* The transaction *)

\* lock_survey_for_workflow has returned.
Enters(u) ==
  /\ request[u] = "staging"
  /\ done[u] = Parts[u]
  /\ lock = Nobody

\* A slip: what was checked before the transfer is not checked again.
CreateRowsUnchecked(u) ==
  /\ Enters(u)
  /\ ~ IsDuplicate(u)
  /\ GoTo(u, "promoting", 0)
  /\ lock' = u
  /\ UNCHANGED <<objects, todo, rows, open, impaired>>

\* A slip: the row is not part of the transaction.
CreateRowsAtOnce(u) ==
  /\ Enters(u)
  /\ Accepted(u)
  /\ ~ IsDuplicate(u)
  /\ GoTo(u, "promoting", 0)
  /\ rows' = rows \cup {u}
  /\ lock' = u
  /\ UNCHANGED <<objects, todo, open, impaired>>

CreateRows(u) ==
  /\ Enters(u)
  /\ Accepted(u)
  /\ ~ IsDuplicate(u)
  /\ GoTo(u, "promoting", 0)
  /\ lock' = u
  /\ UNCHANGED <<objects, todo, rows, open, impaired>>

\* The content is already there: the transaction ends without a write.
FindDuplicate(u) ==
  /\ Enters(u)
  /\ Accepted(u)
  /\ IsDuplicate(u)
  /\ GoTo(u, "dropping", 0)
  /\ UNCHANGED <<objects, todo, rows, lock, open, impaired>>

\* The actor, the state or the size is refused now, or a statement fails.
RefuseLocked(u) ==
  /\ Enters(u)
  /\ Fail(u, objects[u], Staged(Parts[u]))
  /\ UNCHANGED <<rows, open, impaired>>

\* promote_object: the copy, and then the deletion of its source.
CopyPart(u) ==
  /\ request[u] = "promoting"
  /\ done[u] < Parts[u]
  /\ GoTo(u, "copied", done[u])
  /\ objects' = [objects EXCEPT ![u] = @ \cup {<<"canonical", done[u] + 1>>}]
  /\ UNCHANGED <<todo, rows, lock, open, impaired>>

DeleteSource(u) ==
  /\ request[u] = "copied"
  /\ GoTo(u, "promoting", done[u] + 1)
  /\ objects' = [objects EXCEPT ![u] = @ \ {<<"staged", done[u] + 1>>}]
  /\ UNCHANGED <<todo, rows, lock, open, impaired>>

\* A slip: a canonical key is noted after the promotion.
PromotedKeys(u) == Staged(Parts[u]) \cup Canonical(done[u])

\* The canonical key of the part in progress is noted before it is promoted.
KnownKeys(u) ==
  Staged(Parts[u]) \cup
  Canonical(IF done[u] < Parts[u] THEN done[u] + 1 ELSE done[u])

\* Any statement or storage call of the transaction raises; a copy or a
\* deletion may have had its effect by then.
Abort(u) ==
  /\ request[u] \in InTransaction
  /\ \E kept \in
       IF request[u] = "copied"
       THEN {objects[u], objects[u] \ {<<"staged", done[u] + 1>>}}
       ELSE {objects[u]} \cup
            {objects[u] \cup {<<"canonical", p>>} : p \in {done[u] + 1} \cap (1 .. Parts[u])} :
       Fail(u, kept, KnownKeys(u))
  /\ UNCHANGED <<rows, open, impaired>>

\* A slip: the assets are left to later.
FilePromoted(u) == request[u] = "promoting" /\ done[u] >= 1

AllPromoted(u) == request[u] = "promoting" /\ done[u] = Parts[u]

\* The rest of the transaction (audit event, survey row) and its COMMIT.  The
\* callback that dispatches the job cannot raise (robust = True).
Commit(u) ==
  /\ AllPromoted(u)
  /\ request' = [request EXCEPT ![u] = "created"]
  /\ rows' = rows \cup {u}
  /\ lock' = Nobody
  /\ UNCHANGED <<done, objects, todo, open, impaired>>

\* The COMMIT is durable, but the connection is lost before it is confirmed:
\* an exception for the request, as if the transaction had failed.
CommitUnconfirmed(u) ==
  /\ CommitAnswerIsLost
  /\ AllPromoted(u)
  /\ rows' = rows \cup {u}
  /\ Fail(u, objects[u], KnownKeys(u))
  /\ UNCHANGED <<open, impaired>>

---------------------------------------------------------------------------
(* After the transaction *)

\* The duplicate's staged objects are deleted one by one.
Drop(u) ==
  /\ request[u] = "dropping"
  /\ done[u] < Parts[u]
  /\ objects' = [objects EXCEPT ![u] = @ \ {<<"staged", done[u] + 1>>}]
  /\ GoTo(u, IF done[u] + 1 = Parts[u] THEN "duplicate" ELSE "dropping", done[u] + 1)
  /\ UNCHANGED <<todo, rows, lock, open, impaired>>

\* A deletion raises: the handler tries them all once more.
DropFails(u) ==
  /\ request[u] = "dropping"
  /\ Fail(u, objects[u], Staged(Parts[u]))
  /\ UNCHANGED <<rows, open, impaired>>

\* One turn of _cleanup_storage_objects; a deletion that fails is logged and
\* left at that.
CleanObject(u) ==
  /\ request[u] = "cleaning"
  /\ \E o \in todo[u] :
       /\ todo' = [todo EXCEPT ![u] = @ \ {o}]
       /\ \/ /\ objects' = [objects EXCEPT ![u] = @ \ {o}]
             /\ UNCHANGED impaired
          \/ /\ UNCHANGED objects
             /\ impaired' = impaired \cup {u}
  /\ UNCHANGED <<request, done, rows, lock, open>>

Raise(u) ==
  /\ request[u] = "cleaning"
  /\ todo[u] = {}
  /\ request' = [request EXCEPT ![u] = "failed"]
  /\ UNCHANGED <<done, objects, todo, rows, lock, open, impaired>>

\* The process dies: the database rolls back, the objects stay.
Crash(u) ==
  /\ request[u] \in Running
  /\ request' = [request EXCEPT ![u] = "failed"]
  /\ lock' = IF lock = u THEN Nobody ELSE lock
  /\ impaired' = impaired \cup {u}
  /\ UNCHANGED <<done, objects, todo, rows, open>>

\* The survey is submitted, or its project archived: both take the lock.
CloseSurvey ==
  /\ open
  /\ lock = Nobody
  /\ open' = FALSE
  /\ UNCHANGED <<request, done, objects, todo, rows, lock, impaired>>

---------------------------------------------------------------------------
RequestStep(u) ==
  \/ StagePart(u) \/ StagingFails(u)
  \/ CreateRows(u) \/ FindDuplicate(u) \/ RefuseLocked(u)
  \/ CopyPart(u) \/ DeleteSource(u) \/ Abort(u)
  \/ Commit(u) \/ CommitUnconfirmed(u)
  \/ Drop(u) \/ DropFails(u)
  \/ CleanObject(u) \/ Raise(u)

AdmissionNext ==
  \/ \E u \in Upload : Refuse(u) \/ Begin(u) \/ RequestStep(u) \/ Crash(u)
  \/ CloseSurvey

AdmissionSpec == AdmissionInit /\ [][AdmissionNext]_admissionVars

\* A request that has begun is not suspended for ever; the lock is granted in
\* the end, because each request takes it once.
FairAdmissionSpec ==
  AdmissionSpec /\ \A u \in Upload : WF_admissionVars(RequestStep(u))

---------------------------------------------------------------------------
(* Properties *)

\* Every committed file and every asset of it is in the bucket under its
\* canonical key, from the commit on: no failure of another request, or of
\* the admission itself, takes it away.
FilesAreStored ==
  \A u \in rows : Canonical(Parts[u]) \subseteq objects[u]

\* A request that has been answered leaves no object behind but those of a
\* committed file, unless storage refused a deletion, hid an object it kept,
\* or the process died.
NothingIsLeftBehind ==
  \A u \in Upload \ impaired :
    request[u] \in Answers =>
      objects[u] = IF u \in rows THEN Canonical(Parts[u]) ELSE {}

\* The answer tells what happened: a row exists exactly for the requests
\* answered with "created", so an upload that failed can be sent again, and
\* a duplicate is one of a row that is there.
AnswersAreTrue ==
  \A u \in Upload :
    /\ u \in rows <=> request[u] = "created"
    /\ request[u] = "duplicate" => \E v \in rows : Content[v] = Content[u]

Intake == INSTANCE SurveyIntake WITH files <- rows

\* However the requests interleave with each other, with the closing of the
\* survey and with failures, files are admitted as SurveyIntake promises:
\* within the size limit, once per content, and into an open survey only.
KeepsIntake == Intake!Spec

\* Every request that has begun is answered: no one waits for the lock for
\* ever, and the cleanup ends.
RequestsEnd ==
  \A u \in Upload : request[u] \in Running ~> request[u] \in Answers
===========================================================================

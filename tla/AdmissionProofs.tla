-------------------------- MODULE AdmissionProofs --------------------------
(***************************************************************************)
(* Proofs about UploadAdmission, for every number of requests, every       *)
(* content, number of assets, size and size limit.                         *)
(***************************************************************************)
EXTENDS UploadAdmission, TLAPS

---------------------------------------------------------------------------
(* The lock *)

\* A request holds the lock exactly while it is in its transaction, and what
\* was checked at the start of the transaction stays true until its end.
LockInv ==
  /\ request \in [Upload -> {"new"} \cup Running \cup Answers]
  /\ DOMAIN done = Upload
  /\ \A u \in Upload : request[u] \in InTransaction <=> lock = u
  /\ \A u \in Upload : lock = u => Accepted(u) /\ ~ IsDuplicate(u)

\* The checks depend on the rows and the state of the survey alone.
LEMMA SameChecks ==
  ASSUME UNCHANGED <<rows, open>>, NEW u \in Upload
  PROVE  /\ Accepted(u)' <=> Accepted(u)
         /\ IsDuplicate(u)' <=> IsDuplicate(u)
<1>1. TotalSize' = TotalSize
  BY DEF TotalSize
<1> QED BY <1>1 DEF Accepted, Fits, IsDuplicate

\* The handler of exceptions gives the lock back.
LEMMA FailKeepsLock ==
  ASSUME LockInv, NEW u \in Upload, NEW kept, NEW known, Fail(u, kept, known),
         UNCHANGED open, rows' = rows \/ lock = u
  PROVE  LockInv'
<1>1. request' = [request EXCEPT ![u] = "cleaning"] /\ done' = [done EXCEPT ![u] = 0]
  BY DEF Fail, GoTo
<1>2. CASE lock = u
  <2>1. lock' = Nobody
    BY <1>2 DEF Fail
  <2>2. \A v \in Upload : request'[v] \notin InTransaction
    BY <1>1, <1>2 DEF LockInv, InTransaction
  <2> QED
    BY <1>1, <2>1, <2>2, NobodyAssumption DEF LockInv, NobodyAssumption, Running
<1>3. CASE lock # u
  <2>1. lock' = lock /\ rows' = rows
    BY <1>3 DEF Fail
  <2>2. \A v \in Upload : request'[v] \in InTransaction <=> lock' = v
    BY <1>1, <1>3, <2>1 DEF LockInv, InTransaction
  <2>3. \A v \in Upload : lock' = v => (Accepted(v) /\ ~ IsDuplicate(v))'
    BY <2>1, SameChecks DEF LockInv
  <2> QED BY <1>1, <2>2, <2>3 DEF LockInv, Running
<1> QED BY <1>2, <1>3

\* A request that stays outside its transaction, or inside it, leaves lock,
\* rows and survey alone.
LEMMA QuietKeepsLock ==
  ASSUME LockInv, NEW u \in Upload, NEW where \in {"new"} \cup Running \cup Answers,
         request' = [request EXCEPT ![u] = where], DOMAIN done' = Upload,
         where \in InTransaction <=> request[u] \in InTransaction,
         UNCHANGED <<lock, rows, open>>
  PROVE  LockInv'
<1>1. \A v \in Upload : request'[v] \in InTransaction <=> lock' = v
  BY DEF LockInv
<1>2. \A v \in Upload : lock' = v => (Accepted(v) /\ ~ IsDuplicate(v))'
  BY SameChecks DEF LockInv
<1> QED BY <1>1, <1>2 DEF LockInv

\* Every step keeps the invariant.
LEMMA NextKeepsLock ==
  ASSUME LockInv, [AdmissionNext]_admissionVars
  PROVE  LockInv'
<1>1. ASSUME NEW u \in Upload,
             StagingFails(u) \/ RefuseLocked(u) \/ Abort(u) \/ DropFails(u)
      PROVE  LockInv'
  BY <1>1, FailKeepsLock DEF StagingFails, RefuseLocked, Abort, DropFails
<1>2. ASSUME NEW u \in Upload, CommitUnconfirmed(u) PROVE LockInv'
  <2>1. lock = u
    BY <1>2 DEF CommitUnconfirmed, AllPromoted, LockInv, InTransaction
  <2> QED BY <1>2, <2>1, FailKeepsLock DEF CommitUnconfirmed
<1>3. ASSUME NEW u \in Upload, Refuse(u) \/ Raise(u) PROVE LockInv'
  <2>1. PICK where \in Answers : request' = [request EXCEPT ![u] = where]
    BY <1>3 DEF Refuse, Raise, Answers
  <2> QED
    BY <1>3, <2>1, QuietKeepsLock
       DEF Refuse, Raise, LockInv, InTransaction, Answers
<1>4. ASSUME NEW u \in Upload, Begin(u) \/ StagePart(u) \/ FindDuplicate(u) \/ Drop(u)
      PROVE  LockInv'
  <2>1. PICK where \in {"staging", "dropping", "duplicate"} :
          request' = [request EXCEPT ![u] = where]
    BY <1>4 DEF Begin, StagePart, FindDuplicate, Drop, GoTo
  <2>2. request[u] \notin InTransaction /\ DOMAIN done' = Upload
    BY <1>4 DEF Begin, StagePart, FindDuplicate, Enters, Drop, GoTo, LockInv, InTransaction
  <2>3. UNCHANGED <<lock, rows, open>>
    BY <1>4 DEF Begin, StagePart, FindDuplicate, Drop
  <2> QED
    BY <2>1, <2>2, <2>3, QuietKeepsLock DEF InTransaction, Running, Answers
<1>5. ASSUME NEW u \in Upload, CopyPart(u) \/ DeleteSource(u) PROVE LockInv'
  <2>1. PICK where \in InTransaction : request' = [request EXCEPT ![u] = where]
    BY <1>5 DEF CopyPart, DeleteSource, GoTo, InTransaction
  <2>2. request[u] \in InTransaction /\ DOMAIN done' = Upload
    BY <1>5 DEF CopyPart, DeleteSource, GoTo, LockInv, InTransaction
  <2>3. UNCHANGED <<lock, rows, open>>
    BY <1>5 DEF CopyPart, DeleteSource
  <2> QED BY <2>1, <2>2, <2>3, QuietKeepsLock DEF Running
<1>6. ASSUME NEW u \in Upload, CleanObject(u) PROVE LockInv'
  BY <1>6, SameChecks DEF CleanObject, LockInv
<1>7. ASSUME NEW u \in Upload, CreateRows(u) PROVE LockInv'
  <2>1. request' = [request EXCEPT ![u] = "promoting"] /\ done' = [done EXCEPT ![u] = 0]
    BY <1>7 DEF CreateRows, GoTo
  <2>2. lock = Nobody /\ lock' = u /\ UNCHANGED <<rows, open>>
    BY <1>7 DEF CreateRows, Enters
  <2>3. \A v \in Upload : request[v] \notin InTransaction
    BY <2>2, NobodyAssumption DEF LockInv, NobodyAssumption
  <2>4. \A v \in Upload : request'[v] \in InTransaction <=> lock' = v
    BY <2>1, <2>2, <2>3 DEF LockInv, InTransaction
  <2>5. (Accepted(u) /\ ~ IsDuplicate(u))'
    BY <1>7, <2>2, SameChecks DEF CreateRows
  <2> QED BY <2>1, <2>2, <2>4, <2>5 DEF LockInv, Running, InTransaction
<1>8. ASSUME NEW u \in Upload, Commit(u) PROVE LockInv'
  <2>1. lock = u /\ lock' = Nobody /\ request' = [request EXCEPT ![u] = "created"]
    BY <1>8 DEF Commit, AllPromoted, LockInv, InTransaction
  <2>2. \A v \in Upload : request'[v] \notin InTransaction
    BY <2>1 DEF LockInv, InTransaction
  <2> QED
    BY <1>8, <2>1, <2>2, NobodyAssumption DEF Commit, LockInv, NobodyAssumption, Answers
<1>9. ASSUME NEW u \in Upload, Crash(u) PROVE LockInv'
  <2>1. request' = [request EXCEPT ![u] = "failed"] /\ UNCHANGED <<done, rows, open>>
    BY <1>9 DEF Crash
  <2>2. CASE lock = u
    <3>1. lock' = Nobody
      BY <1>9, <2>2 DEF Crash
    <3>2. \A v \in Upload : request'[v] \notin InTransaction
      BY <2>1, <2>2 DEF LockInv, InTransaction
    <3> QED
      BY <2>1, <3>1, <3>2, NobodyAssumption DEF LockInv, NobodyAssumption, Answers
  <2>3. CASE lock # u
    <3>1. lock' = lock
      BY <1>9, <2>3 DEF Crash
    <3>2. request[u] \notin InTransaction
      BY <2>3 DEF LockInv
    <3> QED
      BY <2>1, <3>1, <3>2, QuietKeepsLock DEF LockInv, InTransaction, Answers
  <2> QED BY <2>2, <2>3
<1>10. CASE CloseSurvey
  BY <1>10, NobodyAssumption DEF CloseSurvey, LockInv, NobodyAssumption
<1>11. CASE UNCHANGED admissionVars
  BY <1>11, SameChecks DEF admissionVars, LockInv
<1> QED
  BY <1>1, <1>2, <1>3, <1>4, <1>5, <1>6, <1>7, <1>8, <1>9, <1>10, <1>11
     DEF AdmissionNext, RequestStep

\* At first nobody holds the lock.
LEMMA InitLock == AdmissionInit => LockInv
BY NobodyAssumption
   DEF AdmissionInit, LockInv, NobodyAssumption, InTransaction, Running

---------------------------------------------------------------------------
(* Refinement *)

\* The sum is the one SurveyIntake takes.
LEMMA SameTotal == TotalSize = Intake!Total
BY DEF TotalSize, Intake!Total

\* A commit is the admission of the file: its checks are still true.
LEMMA CommitIsAdmit ==
  ASSUME LockInv, NEW u \in Upload, AllPromoted(u),
         rows' = rows \cup {u}, UNCHANGED open
  PROVE  Intake!Admit(u)
<1>1. Accepted(u) /\ ~ IsDuplicate(u)
  BY DEF AllPromoted, LockInv, InTransaction
<1> QED BY <1>1, SameTotal DEF Accepted, Fits, IsDuplicate, Intake!Admit

\* Files are admitted as SurveyIntake promises, whatever the number of
\* requests, their contents and sizes and the size limit, and whether or not
\* the answer to a COMMIT may be lost.
THEOREM IntakeCorrect == AdmissionSpec => KeepsIntake
<1>1. AdmissionInit => Intake!Init
  BY DEF AdmissionInit, Intake!Init
<1>2. LockInv /\ [AdmissionNext]_admissionVars => [Intake!Next]_<<rows, open>>
  <2> SUFFICES ASSUME LockInv, [AdmissionNext]_admissionVars
               PROVE  [Intake!Next]_<<rows, open>>
    OBVIOUS
  <2>1. ASSUME NEW u \in Upload, Commit(u) \/ CommitUnconfirmed(u)
        PROVE  Intake!Next
    BY <2>1, CommitIsAdmit DEF Commit, CommitUnconfirmed, Intake!Next
  <2>2. ASSUME NEW u \in Upload,
               \/ Refuse(u) \/ Begin(u) \/ Crash(u)
               \/ StagePart(u) \/ StagingFails(u) \/ CreateRows(u) \/ FindDuplicate(u)
               \/ RefuseLocked(u) \/ CopyPart(u) \/ DeleteSource(u) \/ Abort(u)
               \/ Drop(u) \/ DropFails(u) \/ CleanObject(u) \/ Raise(u)
        PROVE  UNCHANGED <<rows, open>>
    BY <2>2 DEF Refuse, Begin, Crash, StagePart, StagingFails, CreateRows, FindDuplicate,
                RefuseLocked, CopyPart, DeleteSource, Abort, Drop, DropFails, CleanObject,
                Raise
  <2>3. CASE CloseSurvey
    BY <2>3 DEF CloseSurvey, Intake!Next, Intake!Close
  <2>4. CASE UNCHANGED admissionVars
    BY <2>4 DEF admissionVars
  <2> QED
    BY <2>1, <2>2, <2>3, <2>4 DEF AdmissionNext, RequestStep
<1> QED
  BY <1>1, <1>2, InitLock, NextKeepsLock, PTL
     DEF AdmissionSpec, KeepsIntake, Intake!Spec, Intake!vars

---------------------------------------------------------------------------
(* The objects of a committed file *)

\* How far the promotion of a request has come.
PromotionOf(u) ==
  /\ done[u] \in 0 .. Parts[u]
  /\ request[u] = "promoting" => Canonical(done[u]) \subseteq objects[u]
  /\ request[u] = "copied" =>
       done[u] < Parts[u] /\ Canonical(done[u] + 1) \subseteq objects[u]
  /\ request[u] = "created" => Canonical(Parts[u]) \subseteq objects[u]

PromotionInv ==
  /\ request = [u \in Upload |-> request[u]]
  /\ done = [u \in Upload |-> done[u]]
  /\ objects = [u \in Upload |-> objects[u]]
  /\ \A u \in Upload : PromotionOf(u)

\* A step of one request leaves the objects of the others alone.
LEMMA OtherPromotions ==
  ASSUME PromotionInv, NEW u \in Upload,
         NEW where, request' = [request EXCEPT ![u] = where],
         NEW n, done' = [done EXCEPT ![u] = n],
         NEW kept, objects' = [objects EXCEPT ![u] = kept],
         PromotionOf(u)'
  PROVE  PromotionInv'
<1>1. ASSUME NEW v \in Upload \ {u} PROVE PromotionOf(v)'
  BY DEF PromotionInv, PromotionOf
<1> QED BY <1>1 DEF PromotionInv

\* Where nothing is being promoted only the count matters.
LEMMA NoPromotion ==
  ASSUME PromotionInv, NEW u \in Upload,
         NEW where \in {"new", "staging", "dropping", "cleaning",
                        "duplicate", "refused", "failed"},
         request' = [request EXCEPT ![u] = where],
         NEW n \in 0 .. Parts[u], done' = [done EXCEPT ![u] = n],
         NEW kept, objects' = [objects EXCEPT ![u] = kept]
  PROVE  PromotionInv'
<1>1. PromotionOf(u)'
  BY DEF PromotionInv, PromotionOf
<1> QED BY <1>1, OtherPromotions

\* Every step keeps it.  A copied part is added to the parts copied before.
LEMMA NextKeepsPromotion ==
  ASSUME PromotionInv, [AdmissionNext]_admissionVars
  PROVE  PromotionInv'
<1> DEFINE Same(u) == /\ done' = [done EXCEPT ![u] = done[u]]
                      /\ objects' = [objects EXCEPT ![u] = objects[u]]
<1>1. ASSUME NEW u \in Upload PROVE Parts[u] \in Nat \ {0} /\ done[u] \in 0 .. Parts[u]
  BY PartsAssumption DEF PartsAssumption, PromotionInv, PromotionOf
<1>2. ASSUME NEW u \in Upload, NEW kept, NEW known, Fail(u, kept, known) PROVE PromotionInv'
  <2>1. 0 \in 0 .. Parts[u]
    BY <1>1
  <2> QED BY <1>2, <2>1, NoPromotion DEF Fail, GoTo
<1>3. ASSUME NEW u \in Upload,
             \/ StagingFails(u) \/ RefuseLocked(u) \/ Abort(u) \/ DropFails(u)
             \/ CommitUnconfirmed(u)
      PROVE  PromotionInv'
  BY <1>2, <1>3 DEF StagingFails, RefuseLocked, Abort, DropFails, CommitUnconfirmed
<1>4. ASSUME NEW u \in Upload, UNCHANGED <<done, objects>> PROVE Same(u)
  BY <1>4 DEF PromotionInv
<1>5. ASSUME NEW u \in Upload, Refuse(u) \/ Raise(u) \/ Crash(u) PROVE PromotionInv'
  <2>1. PICK where \in {"refused", "failed"} : request' = [request EXCEPT ![u] = where]
    BY <1>5 DEF Refuse, Raise, Crash
  <2>2. Same(u)
    BY <1>4, <1>5 DEF Refuse, Raise, Crash
  <2> QED BY <1>1, <2>1, <2>2, NoPromotion
<1>6. ASSUME NEW u \in Upload, Begin(u) \/ FindDuplicate(u) PROVE PromotionInv'
  <2>1. PICK where \in {"staging", "dropping"} :
          request' = [request EXCEPT ![u] = where] /\ done' = [done EXCEPT ![u] = 0]
    BY <1>6 DEF Begin, FindDuplicate, GoTo
  <2>2. objects' = [objects EXCEPT ![u] = objects[u]]
    BY <1>6 DEF Begin, FindDuplicate, PromotionInv
  <2>3. 0 \in 0 .. Parts[u]
    BY <1>1
  <2> QED BY <2>1, <2>2, <2>3, NoPromotion
<1>7. ASSUME NEW u \in Upload, StagePart(u) \/ Drop(u) PROVE PromotionInv'
  <2>1. PICK where \in {"staging", "dropping", "duplicate"} :
          request' = [request EXCEPT ![u] = where] /\ done' = [done EXCEPT ![u] = done[u] + 1]
    BY <1>7 DEF StagePart, Drop, GoTo
  <2>2. PICK kept : objects' = [objects EXCEPT ![u] = kept]
    BY <1>7 DEF StagePart, Drop
  <2>3. done[u] < Parts[u]
    BY <1>7 DEF StagePart, Drop
  <2>4. done[u] + 1 \in 0 .. Parts[u]
    BY <1>1, <2>3
  <2> QED BY <2>1, <2>2, <2>4, NoPromotion
<1>8. ASSUME NEW u \in Upload, CreateRows(u) PROVE PromotionInv'
  <2>1. request' = [request EXCEPT ![u] = "promoting"] /\ done' = [done EXCEPT ![u] = 0]
    BY <1>8 DEF CreateRows, GoTo
  <2>2. objects' = [objects EXCEPT ![u] = objects[u]]
    BY <1>8 DEF CreateRows, PromotionInv
  <2>3. request'[u] = "promoting" /\ done'[u] = 0 /\ objects'[u] = objects[u]
    BY <2>1, <2>2 DEF PromotionInv
  <2>4. 0 \in 0 .. Parts[u] /\ 1 .. 0 = {}
    BY <1>1
  <2>5. Canonical(0) = {}
    BY <2>4 DEF Canonical
  <2>6. PromotionOf(u)'
    BY <2>3, <2>4, <2>5 DEF PromotionOf
  <2> QED BY <2>1, <2>2, <2>6, OtherPromotions
<1>9. ASSUME NEW u \in Upload, CopyPart(u) PROVE PromotionInv'
  <2>1. request' = [request EXCEPT ![u] = "copied"] /\ done' = [done EXCEPT ![u] = done[u]]
    BY <1>9 DEF CopyPart, GoTo
  <2>2. objects' = [objects EXCEPT ![u] = objects[u] \cup {<<"canonical", done[u] + 1>>}]
    BY <1>9 DEF CopyPart
  <2>3. /\ request'[u] = "copied" /\ done'[u] = done[u]
        /\ objects'[u] = objects[u] \cup {<<"canonical", done[u] + 1>>}
    BY <2>1, <2>2 DEF PromotionInv
  <2>4. done[u] < Parts[u] /\ Canonical(done[u]) \subseteq objects[u]
    BY <1>9 DEF CopyPart, PromotionInv, PromotionOf
  <2>5. 1 .. (done[u] + 1) = (1 .. done[u]) \cup {done[u] + 1}
    BY <1>1
  <2>6. Canonical(done[u] + 1) \subseteq objects'[u]
    BY <2>3, <2>4, <2>5 DEF Canonical
  <2>7. PromotionOf(u)'
    BY <1>1, <2>3, <2>4, <2>6 DEF PromotionOf
  <2> QED BY <2>1, <2>2, <2>7, OtherPromotions
<1>10. ASSUME NEW u \in Upload, DeleteSource(u) PROVE PromotionInv'
  <2>1. request' = [request EXCEPT ![u] = "promoting"]
        /\ done' = [done EXCEPT ![u] = done[u] + 1]
    BY <1>10 DEF DeleteSource, GoTo
  <2>2. objects' = [objects EXCEPT ![u] = objects[u] \ {<<"staged", done[u] + 1>>}]
    BY <1>10 DEF DeleteSource
  <2>3. /\ request'[u] = "promoting" /\ done'[u] = done[u] + 1
        /\ objects'[u] = objects[u] \ {<<"staged", done[u] + 1>>}
    BY <2>1, <2>2 DEF PromotionInv
  <2>4. done[u] < Parts[u] /\ Canonical(done[u] + 1) \subseteq objects[u]
    BY <1>10 DEF DeleteSource, PromotionInv, PromotionOf
  <2>5. Canonical(done[u] + 1) \subseteq objects'[u]
    BY <2>3, <2>4 DEF Canonical
  <2>6. done[u] + 1 \in 0 .. Parts[u]
    BY <1>1, <2>4
  <2>7. PromotionOf(u)'
    BY <2>3, <2>5, <2>6 DEF PromotionOf
  <2> QED BY <2>1, <2>2, <2>7, OtherPromotions
<1>11. ASSUME NEW u \in Upload, Commit(u) PROVE PromotionInv'
  <2>1. request' = [request EXCEPT ![u] = "created"]
    BY <1>11 DEF Commit
  <2>2. Same(u)
    BY <1>4, <1>11 DEF Commit
  <2>3. request'[u] = "created" /\ done'[u] = done[u] /\ objects'[u] = objects[u]
    BY <2>1, <2>2 DEF PromotionInv
  <2>4. Canonical(Parts[u]) \subseteq objects[u]
    BY <1>11 DEF Commit, AllPromoted, PromotionInv, PromotionOf
  <2>5. PromotionOf(u)'
    BY <1>1, <2>3, <2>4 DEF PromotionOf
  <2> QED BY <2>1, <2>2, <2>5, OtherPromotions
<1>12. ASSUME NEW u \in Upload, CleanObject(u) PROVE PromotionInv'
  <2>1. request[u] = "cleaning" /\ UNCHANGED <<request, done>>
    BY <1>12 DEF CleanObject
  <2>2. request' = [request EXCEPT ![u] = "cleaning"] /\ done' = [done EXCEPT ![u] = done[u]]
    BY <2>1 DEF PromotionInv
  <2>3. PICK kept : objects' = [objects EXCEPT ![u] = kept]
    <3>1. PICK o : objects' = [objects EXCEPT ![u] = @ \ {o}] \/ UNCHANGED objects
      BY <1>12 DEF CleanObject
    <3> QED BY <3>1 DEF PromotionInv
  <2> QED BY <1>1, <2>2, <2>3, NoPromotion
<1>13. CASE CloseSurvey \/ UNCHANGED admissionVars
  BY <1>13 DEF CloseSurvey, admissionVars, PromotionInv, PromotionOf
<1> QED
  BY <1>3, <1>5, <1>6, <1>7, <1>8, <1>9, <1>10, <1>11, <1>12, <1>13
     DEF AdmissionNext, RequestStep

---------------------------------------------------------------------------
(* The answers, as long as every COMMIT is confirmed *)

\* The rows are those of the requests answered with "created", and a request
\* that drops its objects is a duplicate of one of them.
AnswersInv ==
  /\ request = [u \in Upload |-> request[u]]
  /\ rows = {u \in Upload : request[u] = "created"}
  /\ \A u \in Upload :
       request[u] \in {"dropping", "duplicate"} => \E v \in rows : Content[v] = Content[u]

\* A request that goes on without a commit.
LEMMA NoCommit ==
  ASSUME AnswersInv, NEW u \in Upload, request[u] # "created",
         NEW where, where # "created", request' = [request EXCEPT ![u] = where],
         where \in {"dropping", "duplicate"} => \E v \in rows : Content[v] = Content[u],
         UNCHANGED rows
  PROVE  AnswersInv'
<1>1. \A v \in Upload : request'[v] = IF v = u THEN where ELSE request[v]
  BY DEF AnswersInv
<1>2. rows' = {v \in Upload : request'[v] = "created"}
  BY <1>1 DEF AnswersInv
<1> QED BY <1>1, <1>2 DEF AnswersInv

\* Every step keeps the invariant.
LEMMA NextKeepsAnswers ==
  ASSUME ~ CommitAnswerIsLost, AnswersInv, [AdmissionNext]_admissionVars
  PROVE  AnswersInv'
<1>1. ASSUME NEW u \in Upload,
             \/ Refuse(u) \/ Begin(u) \/ Crash(u)
             \/ StagePart(u) \/ StagingFails(u) \/ CreateRows(u)
             \/ RefuseLocked(u) \/ CopyPart(u) \/ DeleteSource(u) \/ Abort(u)
             \/ DropFails(u) \/ Raise(u)
      PROVE  AnswersInv'
  <2>1. PICK where \in {"refused", "failed", "staging", "promoting", "copied", "cleaning"} :
          request' = [request EXCEPT ![u] = where]
    BY <1>1 DEF Refuse, Begin, Crash, StagePart, StagingFails, CreateRows, RefuseLocked,
                CopyPart, DeleteSource, Abort, DropFails, Raise, Fail, GoTo
  <2>2. request[u] # "created" /\ UNCHANGED rows
    BY <1>1 DEF Refuse, Begin, Crash, StagePart, StagingFails, CreateRows, RefuseLocked,
                CopyPart, DeleteSource, Abort, DropFails, Raise, Enters, Running, InTransaction
  <2> QED BY <2>1, <2>2, NoCommit
<1>2. ASSUME NEW u \in Upload, FindDuplicate(u) PROVE AnswersInv'
  <2>1. request[u] # "created" /\ \E v \in rows : Content[v] = Content[u]
    BY <1>2 DEF FindDuplicate, Enters, IsDuplicate
  <2> QED BY <1>2, <2>1, NoCommit DEF FindDuplicate, GoTo
<1>3. ASSUME NEW u \in Upload, Drop(u) PROVE AnswersInv'
  <2>1. PICK where \in {"dropping", "duplicate"} : request' = [request EXCEPT ![u] = where]
    BY <1>3 DEF Drop, GoTo
  <2>2. request[u] # "created" /\ \E v \in rows : Content[v] = Content[u]
    BY <1>3 DEF Drop, AnswersInv
  <2> QED BY <1>3, <2>1, <2>2, NoCommit DEF Drop
<1>4. ASSUME NEW u \in Upload, Commit(u) PROVE AnswersInv'
  <2>1. rows' = rows \cup {u} /\ request' = [request EXCEPT ![u] = "created"]
    BY <1>4 DEF Commit
  <2>2. \A v \in Upload : request'[v] = IF v = u THEN "created" ELSE request[v]
    BY <2>1 DEF AnswersInv
  <2>3. rows' = {v \in Upload : request'[v] = "created"}
    BY <2>1, <2>2 DEF AnswersInv
  <2> QED BY <2>1, <2>2, <2>3 DEF AnswersInv
<1>5. ASSUME NEW u \in Upload, CommitUnconfirmed(u) PROVE FALSE
  BY <1>5 DEF CommitUnconfirmed
<1>6. CASE \/ \E u \in Upload : CleanObject(u)
           \/ CloseSurvey \/ UNCHANGED admissionVars
  BY <1>6 DEF CleanObject, CloseSurvey, admissionVars, AnswersInv
<1> QED
  BY <1>1, <1>2, <1>3, <1>4, <1>5, <1>6 DEF AdmissionNext, RequestStep

\* At first there are no requests, rows or objects.
LEMMA InitAdmission == AdmissionInit => PromotionInv /\ AnswersInv
<1> SUFFICES ASSUME AdmissionInit PROVE PromotionInv /\ AnswersInv
  OBVIOUS
<1>1. \A u \in Upload : 0 \in 0 .. Parts[u]
  BY PartsAssumption DEF PartsAssumption
<1>2. PromotionInv
  BY <1>1 DEF AdmissionInit, PromotionInv, PromotionOf
<1>3. AnswersInv
  BY DEF AdmissionInit, AnswersInv
<1> QED BY <1>2, <1>3

\* What a client is told is true: a file exists exactly if it was reported as
\* created, and a duplicate is one.
THEOREM AnswersCorrect ==
  ASSUME ~ CommitAnswerIsLost
  PROVE  AdmissionSpec => []AnswersAreTrue
<1>1. AdmissionInit => AnswersInv
  BY InitAdmission
<1>2. AnswersInv /\ [AdmissionNext]_admissionVars => AnswersInv'
  BY NextKeepsAnswers
<1>3. AnswersInv => AnswersAreTrue
  BY DEF AnswersInv, AnswersAreTrue
<1> QED
  BY <1>1, <1>2, <1>3, PTL DEF AdmissionSpec

\* The objects of a committed file are there for good, for every number of
\* requests, assets and failures at any step, provided that a COMMIT whose
\* answer is lost did not take effect: without that the code violates it.
THEOREM StoredCorrect ==
  ASSUME ~ CommitAnswerIsLost
  PROVE  AdmissionSpec => []FilesAreStored
<1>1. AdmissionInit => PromotionInv /\ AnswersInv
  BY InitAdmission
<1>2. PromotionInv /\ AnswersInv /\ [AdmissionNext]_admissionVars =>
        PromotionInv' /\ AnswersInv'
  BY NextKeepsPromotion, NextKeepsAnswers
<1>3. PromotionInv /\ AnswersInv => FilesAreStored
  BY DEF PromotionInv, PromotionOf, AnswersInv, FilesAreStored
<1> QED
  BY <1>1, <1>2, <1>3, PTL DEF AdmissionSpec
---------------------------------------------------------------------------
(* What is left of the answers when the answer to a COMMIT may be lost     *)

\* A file reported as created is one, with all of its objects, and a
\* duplicate is one of a file that is there: whoever is told of a success may
\* rely on it, even where FilesAreStored and AnswersAreTrue fail for a request
\* that was told of a failure.
SuccessIsReal ==
  \A u \in Upload :
    /\ request[u] = "created" => u \in rows /\ Canonical(Parts[u]) \subseteq objects[u]
    /\ request[u] = "duplicate" => \E v \in rows : Content[v] = Content[u]

\* What SuccessIsReal rests on, of the rows.
ToldInv ==
  \A u \in Upload :
    /\ request[u] = "created" => u \in rows
    /\ request[u] \in {"dropping", "duplicate"} => \E v \in rows : Content[v] = Content[u]

\* No row is ever taken back, and only a confirmed COMMIT is answered with
\* "created".
LEMMA NextKeepsTold ==
  ASSUME PromotionInv, ToldInv, [AdmissionNext]_admissionVars
  PROVE  ToldInv'
<1>1. CASE \E u \in Upload : Refuse(u) \/ Begin(u) \/ RequestStep(u) \/ Crash(u)
  <2>1. PICK u \in Upload : Refuse(u) \/ Begin(u) \/ RequestStep(u) \/ Crash(u)
    BY <1>1
  <2>2. rows \subseteq rows'
    BY <2>1 DEF Refuse, Begin, RequestStep, Crash, StagePart, StagingFails, CreateRows,
       FindDuplicate, RefuseLocked, CopyPart, DeleteSource, Abort, Commit, CommitUnconfirmed,
       Drop, DropFails, CleanObject, Raise
  <2>3. \A v \in Upload \ {u} : request'[v] = request[v]
    BY <2>1 DEF Refuse, Begin, RequestStep, Crash, StagePart, StagingFails, CreateRows,
       FindDuplicate, RefuseLocked, CopyPart, DeleteSource, Abort, Commit, CommitUnconfirmed,
       Drop, DropFails, CleanObject, Raise, Fail, GoTo, PromotionInv
  <2>4. request'[u] = "created" => u \in rows'
    BY <2>1 DEF Refuse, Begin, RequestStep, Crash, StagePart, StagingFails, CreateRows,
       FindDuplicate, RefuseLocked, CopyPart, DeleteSource, Abort, Commit, CommitUnconfirmed,
       Drop, DropFails, CleanObject, Raise, Fail, GoTo, PromotionInv, ToldInv
  <2>5. request'[u] \in {"dropping", "duplicate"} => \E v \in rows : Content[v] = Content[u]
    BY <2>1 DEF Refuse, Begin, RequestStep, Crash, StagePart, StagingFails, CreateRows,
       FindDuplicate, RefuseLocked, CopyPart, DeleteSource, Abort, Commit, CommitUnconfirmed,
       Drop, DropFails, CleanObject, Raise, Fail, GoTo, PromotionInv, ToldInv, IsDuplicate
  <2> QED BY <2>2, <2>3, <2>4, <2>5 DEF ToldInv
<1>2. CASE CloseSurvey \/ UNCHANGED admissionVars
  BY <1>2 DEF CloseSurvey, admissionVars, ToldInv
<1> QED BY <1>1, <1>2 DEF AdmissionNext

\* Success is never reported by mistake, whatever is lost or fails, for every
\* number of requests, assets and crashes (files/services.py,
\* admit_uploaded_file): this one needs no assumption on COMMIT.
THEOREM SuccessCorrect == AdmissionSpec => []SuccessIsReal
<1>1. AdmissionInit => PromotionInv /\ ToldInv
  BY InitAdmission DEF AdmissionInit, ToldInv
<1>2. PromotionInv /\ ToldInv /\ [AdmissionNext]_admissionVars => PromotionInv' /\ ToldInv'
  BY NextKeepsPromotion, NextKeepsTold
<1>3. PromotionInv /\ ToldInv => SuccessIsReal
  BY DEF PromotionInv, PromotionOf, ToldInv, SuccessIsReal
<1> QED
  BY <1>1, <1>2, <1>3, PTL DEF AdmissionSpec

---------------------------------------------------------------------------
(* The types *)

States == {"new"} \cup Running \cup Answers

\* AdmissionTypeOK alone is not inductive: a part is copied before it counts
\* as done, so the loop must not be at its end then.
TypesInv ==
  /\ AdmissionTypeOK
  /\ \A u \in Upload : request[u] = "copied" => done[u] < Parts[u]

\* A step of one request, by what it writes into its own entries.
LEMMA MoveKeepsTypes ==
  ASSUME TypesInv, NEW u \in Upload, NEW where \in States, NEW n \in 0 .. Parts[u],
         NEW kept \in SUBSET Object(u), NEW known \in SUBSET Object(u),
         where = "copied" => n < Parts[u],
         request' = [request EXCEPT ![u] = where], done' = [done EXCEPT ![u] = n],
         objects' = [objects EXCEPT ![u] = kept], todo' = [todo EXCEPT ![u] = known],
         rows' \subseteq Upload, lock' \in Upload \cup {Nobody},
         open' \in BOOLEAN, impaired' \subseteq Upload
  PROVE  TypesInv'
<1>1. /\ Parts[u] \in Nat /\ n \in Nat /\ n <= Parts[u]
      /\ Object(u) \subseteq {"staged", "canonical"} \X Nat
  BY PartsAssumption DEF PartsAssumption, Object
<1>2. request' \in [Upload -> States] /\ done' \in [Upload -> Nat]
  BY <1>1 DEF TypesInv, AdmissionTypeOK, States
<1>3. /\ objects' \in [Upload -> SUBSET ({"staged", "canonical"} \X Nat)]
      /\ todo' \in [Upload -> SUBSET ({"staged", "canonical"} \X Nat)]
  BY <1>1 DEF TypesInv, AdmissionTypeOK
<1>4. \A v \in Upload : done'[v] <= Parts[v]
  BY <1>1 DEF TypesInv, AdmissionTypeOK
<1>5. \A v \in Upload : objects'[v] \subseteq Object(v) /\ todo'[v] \subseteq Object(v)
  BY DEF TypesInv, AdmissionTypeOK
<1>6. \A v \in Upload : request'[v] = "copied" => done'[v] < Parts[v]
  BY DEF TypesInv, AdmissionTypeOK
<1> QED
  BY <1>2, <1>3, <1>4, <1>5, <1>6 DEF TypesInv, AdmissionTypeOK, States, Object

\* The keys the handlers name are keys of the upload.
LEMMA KeysAreObjects ==
  ASSUME TypesInv, NEW u \in Upload
  PROVE  /\ Parts[u] \in Nat \ {0} /\ done[u] \in 0 .. Parts[u]
         /\ objects[u] \subseteq Object(u) /\ todo[u] \subseteq Object(u)
         /\ Staged(done[u]) \subseteq Object(u) /\ Staged(Parts[u]) \subseteq Object(u)
         /\ KnownKeys(u) \subseteq Object(u)
<1>1. Parts[u] \in Nat \ {0} /\ done[u] \in 0 .. Parts[u]
  BY PartsAssumption DEF PartsAssumption, TypesInv, AdmissionTypeOK
<1>2. objects[u] \subseteq Object(u) /\ todo[u] \subseteq Object(u)
  BY DEF TypesInv, AdmissionTypeOK
<1>3. \A n \in 0 .. Parts[u] : Staged(n) \subseteq Object(u) /\ Canonical(n) \subseteq Object(u)
  BY <1>1 DEF Staged, Canonical, Object
<1>4. KnownKeys(u) \subseteq Object(u)
  <2>1. (IF done[u] < Parts[u] THEN done[u] + 1 ELSE done[u]) \in 0 .. Parts[u]
    BY <1>1
  <2> QED BY <1>1, <1>3, <2>1 DEF KnownKeys
<1> QED BY <1>1, <1>2, <1>3, <1>4

\* The next part has a key of its own.
LEMMA NextKey ==
  ASSUME TypesInv, NEW u \in Upload, done[u] < Parts[u]
  PROVE  /\ done[u] + 1 \in 0 .. Parts[u]
         /\ <<"staged", done[u] + 1>> \in Object(u)
         /\ <<"canonical", done[u] + 1>> \in Object(u)
BY KeysAreObjects DEF Object

\* The handler keeps the types, whatever there is and whatever it knows.
LEMMA FailKeepsTypes ==
  ASSUME TypesInv, NEW u \in Upload, NEW kept \in SUBSET Object(u),
         NEW known \in SUBSET Object(u), Fail(u, kept, known),
         rows' \subseteq Upload, UNCHANGED open, impaired' \subseteq Upload
  PROVE  TypesInv'
<1>1. 0 \in 0 .. Parts[u] /\ "cleaning" \in States
  BY KeysAreObjects DEF States, Running
<1>2. lock' \in Upload \cup {Nobody} /\ open' \in BOOLEAN
  BY DEF Fail, TypesInv, AdmissionTypeOK
<1> QED
  BY <1>1, <1>2, MoveKeepsTypes DEF Fail, GoTo

\* One lemma for all steps, with the steps grouped by what they write.
LEMMA NextKeepsTypes ==
  ASSUME TypesInv, [AdmissionNext]_admissionVars
  PROVE  TypesInv'
<1> DEFINE Kept(u) == /\ request = [request EXCEPT ![u] = request[u]]
                      /\ done = [done EXCEPT ![u] = done[u]]
                      /\ objects = [objects EXCEPT ![u] = objects[u]]
                      /\ todo = [todo EXCEPT ![u] = todo[u]]
<1>1. \A u \in Upload : Kept(u)
  BY DEF TypesInv, AdmissionTypeOK
<1>2. /\ rows \subseteq Upload /\ lock \in Upload \cup {Nobody}
      /\ open \in BOOLEAN /\ impaired \subseteq Upload
  BY DEF TypesInv, AdmissionTypeOK
<1>3. ASSUME NEW u \in Upload, Refuse(u) \/ Raise(u) \/ Crash(u) \/ Commit(u)
      PROVE  TypesInv'
  <2>1. PICK where \in Answers : request' = [request EXCEPT ![u] = where]
    BY <1>3 DEF Refuse, Raise, Crash, Commit, Answers
  <2>2. /\ UNCHANGED <<done, objects, todo, open>>
        /\ rows' \subseteq Upload /\ lock' \in Upload \cup {Nobody} /\ impaired' \subseteq Upload
    BY <1>2, <1>3 DEF Refuse, Raise, Crash, Commit
  <2> QED
    BY <1>1, <1>2, <2>1, <2>2, KeysAreObjects, MoveKeepsTypes DEF States, Answers
<1>4. ASSUME NEW u \in Upload, Begin(u) \/ CreateRows(u) \/ FindDuplicate(u)
      PROVE  TypesInv'
  <2>1. PICK where \in {"staging", "promoting", "dropping"} : GoTo(u, where, 0)
    BY <1>4 DEF Begin, CreateRows, FindDuplicate
  <2>2. UNCHANGED <<objects, todo, rows, open, impaired>> /\ lock' \in Upload \cup {Nobody}
    BY <1>2, <1>4 DEF Begin, CreateRows, FindDuplicate
  <2>3. 0 \in 0 .. Parts[u] /\ where \in States /\ where # "copied"
    BY KeysAreObjects DEF States, Running, InTransaction
  <2> QED
    BY <1>1, <1>2, <2>1, <2>2, <2>3, KeysAreObjects, MoveKeepsTypes DEF GoTo
<1>5. ASSUME NEW u \in Upload, StagePart(u) \/ CopyPart(u) \/ DeleteSource(u) \/ Drop(u)
      PROVE  TypesInv'
  <2>1. done[u] < Parts[u]
    BY <1>5 DEF StagePart, CopyPart, DeleteSource, Drop, TypesInv
  <2>2. PICK where \in {"staging", "copied", "promoting", "dropping", "duplicate"},
             n \in {done[u], done[u] + 1} :
          GoTo(u, where, n) /\ (where = "copied" => n = done[u])
    BY <1>5 DEF StagePart, CopyPart, DeleteSource, Drop
  <2>3. \E kept \in SUBSET Object(u) : objects' = [objects EXCEPT ![u] = kept]
    BY <1>5, <2>1, KeysAreObjects, NextKey DEF StagePart, CopyPart, DeleteSource, Drop
  <2>4. UNCHANGED <<todo, rows, lock, open, impaired>>
    BY <1>5 DEF StagePart, CopyPart, DeleteSource, Drop
  <2>5. n \in 0 .. Parts[u] /\ where \in States /\ (where = "copied" => n < Parts[u])
    BY <2>1, <2>2, KeysAreObjects, NextKey DEF States, Running, InTransaction, Answers
  <2> QED
    BY <1>1, <1>2, <2>2, <2>3, <2>4, <2>5, KeysAreObjects, MoveKeepsTypes DEF GoTo
<1>6. ASSUME NEW u \in Upload, StagingFails(u) PROVE TypesInv'
  <2>1. \E kept \in SUBSET Object(u) : Fail(u, kept, Staged(done[u]))
    BY <1>6, KeysAreObjects, NextKey DEF StagingFails
  <2>2. UNCHANGED <<rows, open>> /\ impaired' \subseteq Upload
    BY <1>2, <1>6 DEF StagingFails
  <2> QED BY <1>2, <2>1, <2>2, KeysAreObjects, FailKeepsTypes
<1>7. ASSUME NEW u \in Upload, RefuseLocked(u) \/ DropFails(u) PROVE TypesInv'
  <2>1. /\ Fail(u, objects[u], Staged(Parts[u]))
        /\ UNCHANGED <<rows, open, impaired>>
    BY <1>7 DEF RefuseLocked, DropFails
  <2> QED BY <1>2, <2>1, KeysAreObjects, FailKeepsTypes
<1>8. ASSUME NEW u \in Upload, Abort(u) PROVE TypesInv'
  <2>1. PICK kept \in
               IF request[u] = "copied"
               THEN {objects[u], objects[u] \ {<<"staged", done[u] + 1>>}}
               ELSE {objects[u]} \cup
                    {objects[u] \cup {<<"canonical", p>>} : p \in {done[u] + 1} \cap (1 .. Parts[u])} :
          Fail(u, kept, KnownKeys(u))
    BY <1>8 DEF Abort
  <2>2. kept \in SUBSET Object(u)
    BY <2>1, KeysAreObjects DEF Object
  <2> QED
    BY <1>2, <1>8, <2>1, <2>2, KeysAreObjects, FailKeepsTypes DEF Abort
<1>9. ASSUME NEW u \in Upload, CommitUnconfirmed(u) PROVE TypesInv'
  BY <1>2, <1>9, KeysAreObjects, FailKeepsTypes DEF CommitUnconfirmed
<1>10. ASSUME NEW u \in Upload, CleanObject(u) PROVE TypesInv'
  <2>1. \E known, kept \in SUBSET Object(u) :
          todo' = [todo EXCEPT ![u] = known] /\ objects' = [objects EXCEPT ![u] = kept]
    <3>1. PICK o \in todo[u] :
            /\ todo' = [todo EXCEPT ![u] = @ \ {o}]
            /\ objects' = [objects EXCEPT ![u] = @ \ {o}] \/ UNCHANGED objects
      BY <1>10 DEF CleanObject
    <3>2. todo[u] \ {o} \in SUBSET Object(u) /\ objects[u] \ {o} \in SUBSET Object(u)
      BY KeysAreObjects
    <3> QED BY <1>1, <3>1, <3>2, KeysAreObjects
  <2>2. UNCHANGED <<request, done, rows, lock, open>> /\ impaired' \subseteq Upload
    BY <1>2, <1>10 DEF CleanObject
  <2>3. request[u] \in States /\ request[u] # "copied"
    BY <1>10 DEF CleanObject, TypesInv, AdmissionTypeOK, States
  <2>4. done[u] \in 0 .. Parts[u]
    BY KeysAreObjects
  <2>5. /\ request' = [request EXCEPT ![u] = request[u]]
        /\ done' = [done EXCEPT ![u] = done[u]]
    BY <1>1, <2>2
  <2> QED
    BY <1>2, <2>1, <2>2, <2>3, <2>4, <2>5, MoveKeepsTypes
<1>11. CASE CloseSurvey \/ UNCHANGED admissionVars
  BY <1>11 DEF CloseSurvey, admissionVars, TypesInv, AdmissionTypeOK, Object
<1> QED
  BY <1>3, <1>4, <1>5, <1>6, <1>7, <1>8, <1>9, <1>10, <1>11 DEF AdmissionNext, RequestStep

\* No loop runs past the last part, and no handler names a key that is not the
\* upload's own, for any number of requests, parts, failures and crashes.
THEOREM AdmissionTypeCorrect == AdmissionSpec => []AdmissionTypeOK
<1>1. AdmissionInit => TypesInv
  BY PartsAssumption DEF PartsAssumption, AdmissionInit, TypesInv, AdmissionTypeOK, Object
<1>2. TypesInv /\ [AdmissionNext]_admissionVars => TypesInv'
  BY NextKeepsTypes
<1>3. TypesInv => AdmissionTypeOK
  BY DEF TypesInv
<1> QED
  BY <1>1, <1>2, <1>3, PTL DEF AdmissionSpec

---------------------------------------------------------------------------
(* Nothing is left behind *)

\* The staged objects that are not promoted or dropped yet.
Remaining(u) == {"staged"} \X (done[u] + 1 .. Parts[u])

\* Which objects a request has that met no fault it cannot see.
LeftOf(u) ==
  /\ request[u] \in {"new", "duplicate", "refused", "failed"} => objects[u] = {}
  /\ request[u] = "staging" => objects[u] = Staged(done[u])
  /\ request[u] = "promoting" => objects[u] = Canonical(done[u]) \cup Remaining(u)
  /\ request[u] = "copied" => objects[u] = Canonical(done[u] + 1) \cup Remaining(u)
  /\ request[u] = "dropping" => objects[u] = Remaining(u)
  /\ request[u] = "cleaning" => objects[u] \subseteq todo[u]
  /\ request[u] = "created" => objects[u] = Canonical(Parts[u])

LeftInv == \A u \in Upload \ impaired : LeftOf(u)

\* What one part more or less makes of the sets of keys.
LEMMA PartsOneByOne ==
  ASSUME NEW m \in Nat, NEW n \in Nat, n < m
  PROVE  /\ Staged(n) \cup {<<"staged", n + 1>>} = Staged(n + 1)
         /\ Canonical(n) \cup {<<"canonical", n + 1>>} = Canonical(n + 1)
         /\ ({"staged"} \X (n + 1 .. m)) \ {<<"staged", n + 1>>} = {"staged"} \X (n + 2 .. m)
         /\ {"staged"} \X (n + 1 .. m) \subseteq Staged(m)
         /\ Canonical(n) \subseteq Canonical(n + 1)
<1>1. (1 .. n) \cup {n + 1} = 1 .. (n + 1)
  OBVIOUS
<1>2. (n + 1 .. m) \ {n + 1} = n + 2 .. m
  OBVIOUS
<1>3. n + 1 .. m \subseteq 1 .. m /\ 1 .. n \subseteq 1 .. (n + 1)
  OBVIOUS
<1>4. \A k : \A S, x : ({k} \X S) \cup {<<k, x>>} = {k} \X (S \cup {x})
  OBVIOUS
<1>5. \A k : \A S, x : ({k} \X S) \ {<<k, x>>} = {k} \X (S \ {x})
  OBVIOUS
<1>6. /\ Staged(n) \cup {<<"staged", n + 1>>} = Staged(n + 1)
      /\ Canonical(n) \cup {<<"canonical", n + 1>>} = Canonical(n + 1)
  BY <1>1, <1>4 DEF Staged, Canonical
<1>7. ({"staged"} \X (n + 1 .. m)) \ {<<"staged", n + 1>>} = {"staged"} \X (n + 2 .. m)
  BY <1>2, <1>5
<1>8. {"staged"} \X (n + 1 .. m) \subseteq Staged(m) /\ Canonical(n) \subseteq Canonical(n + 1)
  BY <1>3 DEF Staged, Canonical
<1> QED
  BY <1>6, <1>7, <1>8

\* A step of one request leaves the entries of the others alone.
LEMMA OthersStay ==
  ASSUME TypesInv, LeftInv, NEW u \in Upload,
         \/ Refuse(u) \/ Begin(u) \/ RequestStep(u) \/ Crash(u),
         u \notin impaired' => LeftOf(u)'
  PROVE  LeftInv'
<1>1. \A v \in Upload \ {u} :
        /\ request'[v] = request[v] /\ done'[v] = done[v]
        /\ objects'[v] = objects[v] /\ todo'[v] = todo[v]
  BY DEF TypesInv, AdmissionTypeOK, Refuse, Begin, RequestStep, Crash, StagePart, StagingFails,
         CreateRows, FindDuplicate, RefuseLocked, CopyPart, DeleteSource, Abort, Commit,
         CommitUnconfirmed, Drop, DropFails, CleanObject, Raise, Fail, GoTo
<1>2. impaired \subseteq impaired'
  BY DEF Refuse, Begin, RequestStep, Crash, StagePart, StagingFails,
         CreateRows, FindDuplicate, RefuseLocked, CopyPart, DeleteSource, Abort, Commit,
         CommitUnconfirmed, Drop, DropFails, CleanObject, Raise
<1>3. \A v \in Upload \ impaired' : v # u => LeftOf(v)'
  BY <1>1, <1>2 DEF LeftInv, LeftOf, Remaining
<1> QED BY <1>3 DEF LeftInv

\* The step of the request itself.
LEMMA StepLeavesNothing ==
  ASSUME ~ CommitAnswerIsLost, TypesInv, NEW u \in Upload, LeftOf(u),
         \/ Refuse(u) \/ Begin(u) \/ RequestStep(u) \/ Crash(u),
         u \notin impaired'
  PROVE  LeftOf(u)'
<1>1. /\ Parts[u] \in Nat \ {0} /\ done[u] \in 0 .. Parts[u] /\ u \in Upload
      /\ u \in DOMAIN request /\ u \in DOMAIN done /\ u \in DOMAIN objects /\ u \in DOMAIN todo
  BY KeysAreObjects DEF TypesInv, AdmissionTypeOK
<1>2. CASE Refuse(u)
  BY <1>1, <1>2 DEF Refuse, LeftOf
<1>3. CASE Begin(u)
  <2>1. Staged(0) = {}
    BY DEF Staged
  <2> QED BY <1>1, <1>3, <2>1 DEF Begin, GoTo, LeftOf
<1>4. CASE StagePart(u)
  BY <1>1, <1>4, PartsOneByOne DEF StagePart, GoTo, LeftOf
<1>5. CASE StagingFails(u)
  BY <1>1, <1>5 DEF StagingFails, Fail, GoTo, LeftOf
<1>6. CASE CreateRows(u)
  <2>1. Canonical(0) = {} /\ Staged(Parts[u]) = {"staged"} \X (0 + 1 .. Parts[u])
    BY DEF Staged, Canonical
  <2> QED BY <1>1, <1>6, <2>1 DEF CreateRows, Enters, GoTo, LeftOf, Remaining
<1>7. CASE FindDuplicate(u)
  <2>1. Staged(Parts[u]) = {"staged"} \X (0 + 1 .. Parts[u])
    BY DEF Staged
  <2> QED BY <1>1, <1>7, <2>1 DEF FindDuplicate, Enters, GoTo, LeftOf, Remaining
<1>8. CASE RefuseLocked(u)
  BY <1>1, <1>8 DEF RefuseLocked, Enters, Fail, GoTo, LeftOf
<1>9. CASE CopyPart(u)
  BY <1>1, <1>9, PartsOneByOne DEF CopyPart, GoTo, LeftOf, Remaining
<1>10. CASE DeleteSource(u)
  <2>1. done[u] < Parts[u]
    BY <1>10 DEF DeleteSource, TypesInv
  <2>2. <<"staged", done[u] + 1>> \notin Canonical(done[u] + 1)
    BY DEF Canonical
  <2> QED BY <1>1, <1>10, <2>1, <2>2, PartsOneByOne DEF DeleteSource, GoTo, LeftOf, Remaining
<1>11. CASE Abort(u)
  <2>1. objects[u] \subseteq KnownKeys(u)
    <3>1. Remaining(u) \subseteq Staged(Parts[u])
      BY <1>1 DEF Remaining, Staged
    <3>2. CASE request[u] = "promoting"
      BY <1>1, <3>1, <3>2, PartsOneByOne DEF LeftOf, KnownKeys
    <3>3. CASE request[u] = "copied"
      BY <3>1, <3>3 DEF LeftOf, KnownKeys, TypesInv
    <3> QED BY <1>11, <3>2, <3>3 DEF Abort, InTransaction
  <2>2. done[u] < Parts[u] => <<"canonical", done[u] + 1>> \in KnownKeys(u)
    BY <1>1 DEF KnownKeys, Canonical
  <2> QED BY <1>1, <1>11, <2>1, <2>2 DEF Abort, Fail, GoTo, LeftOf
<1>12. CASE Commit(u)
  <2>1. {"staged"} \X (Parts[u] + 1 .. Parts[u]) = {}
    BY <1>1
  <2> QED BY <1>1, <1>12, <2>1 DEF Commit, AllPromoted, LeftOf, Remaining
<1>13. CASE Drop(u)
  <2>1. done[u] + 1 = Parts[u] => {"staged"} \X (done[u] + 2 .. Parts[u]) = {}
    BY <1>1
  <2> QED BY <1>1, <1>13, <2>1, PartsOneByOne DEF Drop, GoTo, LeftOf, Remaining
<1>14. CASE DropFails(u)
  BY <1>1, <1>14, PartsOneByOne DEF DropFails, Fail, GoTo, LeftOf, Remaining, Staged
<1>15. CASE CleanObject(u)
  BY <1>1, <1>15 DEF CleanObject, LeftOf
<1>16. CASE Raise(u)
  BY <1>1, <1>16 DEF Raise, LeftOf
<1>17. ~ Crash(u) /\ ~ CommitUnconfirmed(u)
  BY DEF Crash, CommitUnconfirmed
<1> QED
  BY <1>2, <1>3, <1>4, <1>5, <1>6, <1>7, <1>8, <1>9, <1>10, <1>11, <1>12, <1>13, <1>14,
     <1>15, <1>16, <1>17 DEF RequestStep

\* An upload that was answered leaves no object behind but those of a
\* committed file, whatever failed, as long as no fault hit it that the handler
\* does not see and the answer to a COMMIT is not lost.
THEOREM NothingLeftCorrect ==
  ASSUME ~ CommitAnswerIsLost
  PROVE  AdmissionSpec => []NothingIsLeftBehind
<1>1. AdmissionInit => TypesInv /\ AnswersInv /\ LeftInv
  <2>1. AdmissionInit => TypesInv
    BY PartsAssumption DEF PartsAssumption, AdmissionInit, TypesInv, AdmissionTypeOK, Object
  <2>2. AdmissionInit => LeftInv
    BY DEF AdmissionInit, LeftInv, LeftOf
  <2> QED BY <2>1, <2>2, InitAdmission
<1>2. TypesInv /\ AnswersInv /\ LeftInv /\ [AdmissionNext]_admissionVars
        => TypesInv' /\ AnswersInv' /\ LeftInv'
  <2> SUFFICES ASSUME TypesInv, AnswersInv, LeftInv, [AdmissionNext]_admissionVars
               PROVE  LeftInv'
    BY NextKeepsTypes, NextKeepsAnswers
  <2>1. ASSUME NEW u \in Upload, Refuse(u) \/ Begin(u) \/ RequestStep(u) \/ Crash(u)
        PROVE  LeftInv'
    <3>1. impaired \subseteq impaired'
      BY <2>1 DEF Refuse, Begin, RequestStep, Crash, StagePart, StagingFails,
         CreateRows, FindDuplicate, RefuseLocked, CopyPart, DeleteSource, Abort, Commit,
         CommitUnconfirmed, Drop, DropFails, CleanObject, Raise
    <3>2. u \notin impaired' => LeftOf(u)
      BY <3>1 DEF LeftInv
    <3> QED BY <2>1, <3>2, StepLeavesNothing, OthersStay
  <2>2. CASE CloseSurvey \/ UNCHANGED admissionVars
    BY <2>2 DEF CloseSurvey, admissionVars, LeftInv, LeftOf, Remaining
  <2> QED BY <2>1, <2>2 DEF AdmissionNext
<1>3. TypesInv /\ AnswersInv /\ LeftInv => NothingIsLeftBehind
  BY DEF AnswersInv, LeftInv, LeftOf, NothingIsLeftBehind, Answers
<1> QED
  BY <1>1, <1>2, <1>3, PTL DEF AdmissionSpec
===========================================================================

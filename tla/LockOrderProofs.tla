------------------------- MODULE LockOrderProofs -------------------------
(***************************************************************************)
(* For any number of sessions, projects, rows and users, a deadlock inside *)
(* a project's tree has a transaction about a measurement in it.           *)
(* The project is a gate: whoever locks a row of a tree after another lock *)
(* holds the project of that row first (GateIsFirst), and two sessions     *)
(* cannot hold that gate in modes that let them block each other.          *)
(***************************************************************************)
EXTENDS LockOrder, TLAPS

\* A transaction locks a row of a tree first of all, or after the project of
\* that row, and then in no stronger mode than it holds the project.
Gated(s) ==
    /\ Len(s) \in Nat
    /\ \A n \in 2..Len(s) : InTree(s[n]) =>
         /\ s[1].row = Project(s[n].row.project)
         /\ s[1].mode \in {"update", "share"}
         /\ s[1].mode = "share" => s[n].mode = "share"

LockInv == LocksTypeOK /\ LocksExclude

-----------------------------------------------------------------------------
(* Every transaction of the services is gated. *)

LEMMA JobsAreGated ==
    ASSUME NEW p, NEW i, NEW j, NEW a
    PROVE  /\ Gated(RequeueJob(p, i, j)) /\ Gated(MoveJob(p, i, j))
           /\ Gated(ManualRetry(p, i, j, a))
           /\ Gated(DispatchJob(p, j)) /\ Gated(ReportProgress(p, j))
<1>1. Gated(RequeueJob(p, i, j))
  BY DEF Gated, RequeueJob, InTree, Project, Part, Update, Share
<1>2. Gated(MoveJob(p, i, j))
  BY DEF Gated, MoveJob, InTree, Project, Part, Update, Write, Share
<1>3. Gated(ManualRetry(p, i, j, a))
  BY DEF Gated, ManualRetry, InTree, Project, Part, User, Update, Write, Share
<1>4. Gated(DispatchJob(p, j)) /\ Gated(ReportProgress(p, j))
  BY DEF Gated, DispatchJob, ReportProgress, InTree
<1> QED BY <1>1, <1>2, <1>3, <1>4

LEMMA SurveysAreGated ==
    ASSUME NEW p, NEW i, NEW a
    PROVE  /\ Gated(AdmitUpload(p, i, a)) /\ Gated(RecordDownload(p, i, a))
           /\ Gated(ChangeSurvey(p, i, a)) /\ Gated(ReviewSurvey(p, i, a))
<1>1. Gated(AdmitUpload(p, i, a))
  BY DEF Gated, AdmitUpload, InTree, Project, Part, User, Update, Write, Share
<1>2. Gated(RecordDownload(p, i, a))
  BY DEF Gated, RecordDownload, InTree, Project, Part, User, Share
<1>3. Gated(ChangeSurvey(p, i, a))
  BY DEF Gated, ChangeSurvey, InTree, Project, Part, User, Update, Share
<1>4. Gated(ReviewSurvey(p, i, a))
  BY DEF Gated, ReviewSurvey, InTree, Project, Part, User, Update, Write, Share
<1> QED BY <1>1, <1>2, <1>3, <1>4

LEMMA ProjectsAreGated ==
    ASSUME NEW p, NEW i, NEW j, NEW k, NEW u, NEW a
    PROVE  /\ Gated(UseSite(p, k, a)) /\ Gated(DeleteSite(p, k, i, j, a))
           /\ Gated(ChangeProject(p, a)) /\ Gated(HandProject(p, u, a))
           /\ Gated(RemoveMember(p, u, a))
<1>1. Gated(UseSite(p, k, a))
  BY DEF Gated, UseSite, InTree, Project, Part, User, Update, Share
<1>2. Gated(DeleteSite(p, k, i, j, a))
  BY DEF Gated, DeleteSite, InTree, Project, Part, User, Update, Share
<1>3. Gated(ChangeProject(p, a)) /\ Gated(HandProject(p, u, a))
  BY DEF Gated, ChangeProject, HandProject, InTree, Project, User, Update, Share
<1>4. Gated(RemoveMember(p, u, a))
  BY DEF Gated, RemoveMember, InTree, Project, Part, User, Update, Share
<1> QED BY <1>1, <1>2, <1>3, <1>4

LEMMA UsersAreGated ==
    ASSUME NEW u, NEW a
    PROVE  /\ Gated(CreateProject(u, a)) /\ Gated(Authenticate(u))
           /\ Gated(ChangeEmail(u, a)) /\ Gated(ChangeRole(u, a)) /\ Gated(CreateUser(a))
BY DEF Gated, CreateProject, Authenticate, ChangeEmail, ChangeRole, CreateUser,
       InTree, User, Update, Write, Share

\* Every transaction is gated or is about a measurement.
LEMMA GateIsFirst ==
    ASSUME NEW s \in Scripts
    PROVE  Gated(s) \/ \E p \in Projects, i \in Items, a \in Users : s \in Measurements(p, i, a)
<1>1. PICK p \in Projects, i \in Items, j \in Items, k \in Items, u \in Users, a \in Users :
        s \in Transactions(p, i, j, k, u, a)
  BY DEF Scripts
<1>2. CASE s \in Measurements(p, i, a)
  BY <1>2
<1>3. CASE s \notin Measurements(p, i, a)
  BY <1>1, <1>3, JobsAreGated, SurveysAreGated, ProjectsAreGated, UsersAreGated
     DEF Transactions
<1> QED BY <1>2, <1>3

LEMMA ScriptsAreFinite ==
    ASSUME NEW s \in Scripts
    PROVE  Len(s) \in Nat
<1>1. \A p, i, a : \A m \in Measurements(p, i, a) : Len(m) \in Nat
  BY DEF Measurements, CreateMeasurement, DeleteMeasurement
<1> QED BY <1>1, GateIsFirst DEF Gated

-----------------------------------------------------------------------------
(* What the sessions hold. *)

\* Two sessions share a row that both hold, and no session holds more than its
\* transaction asks for.
LEMMA LocksAreExclusive == Spec => []LockInv
<1>1. Init => LockInv
  BY DEF Init, LockInv, LocksTypeOK, LocksExclude
<1>2. LockInv /\ [Next]_vars => LockInv'
  <2> SUFFICES ASSUME LockInv, [Next]_vars PROVE LockInv'
    OBVIOUS
  <2> USE DEF LockInv
  <2>1. ASSUME NEW t \in Sessions, Begin(t) PROVE LockInv'
    <3>1. script[t] = << >> /\ done[t] = 0
      BY <2>1 DEF Begin, LocksTypeOK
    <3>2. PICK s \in Scripts : script' = [script EXCEPT ![t] = s]
      BY <2>1 DEF Begin
    <3>3. Len(s) \in Nat
      BY ScriptsAreFinite
    <3>4. LocksTypeOK'
      BY <2>1, <3>1, <3>2, <3>3 DEF Begin, LocksTypeOK
    <3>5. LocksExclude'
      BY <2>1, <3>1, <3>2 DEF Begin, LocksTypeOK, LocksExclude
    <3> QED BY <3>4, <3>5
  <2>2. ASSUME NEW t \in Sessions, Lock(t) PROVE LockInv'
    <3>1. Len(script[t]) \in Nat
      BY ScriptsAreFinite DEF LocksTypeOK
    <3>2. LocksTypeOK'
      BY <2>2, <3>1 DEF Lock, Pending, LocksTypeOK
    <3>3. LocksExclude'
      <4> SUFFICES ASSUME NEW v \in Sessions, NEW w \in Sessions, v # w,
                          NEW k \in 1..done'[v], NEW l \in 1..done'[w],
                          script[v][k].row = script[w][l].row
                   PROVE  Compatible(script[v][k].mode, script[w][l].mode)
        BY <2>2 DEF Lock, LocksExclude
      <4>1. \A m, n : Compatible(m, n) = Compatible(n, m)
        BY DEF Compatible
      <4>2. done' = [done EXCEPT ![t] = @ + 1] /\ done \in [Sessions -> Nat]
        BY <2>2 DEF Lock, LocksTypeOK
      <4>3. ~Blocks(v, t) /\ ~Blocks(w, t)
        BY <2>2 DEF Lock
      <4>4. CASE v = t /\ k = done[t] + 1
        <5>1. l \in 1..done[w]
          BY <4>2, <4>4
        <5> QED BY <2>2, <4>1, <4>3, <4>4, <5>1 DEF Blocks, Lock, Awaited
      <4>5. CASE w = t /\ l = done[t] + 1
        <5>1. k \in 1..done[v]
          BY <4>2, <4>5
        <5> QED BY <2>2, <4>1, <4>3, <4>5, <5>1 DEF Blocks, Lock, Awaited
      <4>6. CASE ~(v = t /\ k = done[t] + 1) /\ ~(w = t /\ l = done[t] + 1)
        <5>1. k \in 1..done[v] /\ l \in 1..done[w]
          BY <4>2, <4>6
        <5> QED BY <5>1 DEF LocksExclude
      <4> QED BY <4>4, <4>5, <4>6
    <3> QED BY <3>2, <3>3
  <2>3. ASSUME NEW t \in Sessions, End(t) PROVE LockInv'
    <3>1. LocksTypeOK'
      BY <2>3 DEF End, LocksTypeOK
    <3>2. LocksExclude'
      BY <2>3 DEF End, LocksTypeOK, LocksExclude
    <3> QED BY <3>1, <3>2
  <2>4. CASE UNCHANGED vars
    BY <2>4 DEF vars, LocksTypeOK, LocksExclude
  <2> QED BY <2>1, <2>2, <2>3, <2>4 DEF Next, Commit, Rollback
<1> QED BY <1>1, <1>2, PTL DEF Spec

-----------------------------------------------------------------------------

\* A session that holds a lock and waits in a tree holds the project of the row
\* it waits for, unless it measures.
LEMMA WaitersHoldTheGate ==
    ASSUME LocksTypeOK, NEW t \in Sessions, NEW k \in 1..done[t],
           Pending(t), InTree(Awaited(t)), ~Measures(t)
    PROVE  /\ script[t][1].row = Project(Awaited(t).row.project)
           /\ script[t][1].mode \in {"update", "share"}
           /\ script[t][1].mode = "share" => Awaited(t).mode = "share"
           /\ 1 \in 1..done[t]
           /\ Gated(script[t])
<1>1. done[t] \in Nat /\ done[t] >= 1
  BY DEF LocksTypeOK
<1>2. script[t] # << >>
  BY <1>1 DEF LocksTypeOK
<1>3. Gated(script[t])
  BY <1>2, GateIsFirst DEF LocksTypeOK, Measures
<1>4. done[t] + 1 \in 2..Len(script[t])
  BY <1>1, <1>3 DEF Gated, Pending
<1> QED BY <1>1, <1>3, <1>4 DEF Gated, Awaited

\* The invariant excludes a deadlock: two of its members that block each other
\* would hold the same project.
LEMMA NoTreeDeadlock ==
    ASSUME LockInv, NEW S \in SUBSET Sessions, TreeDeadlock(S), \A t \in S : ~Measures(t)
    PROVE  FALSE
<1>1. PICK t \in S : TRUE
  BY DEF TreeDeadlock
<1>2. PICK u \in S : Blocks(u, t)
  BY <1>1 DEF TreeDeadlock
<1>3. PICK v \in S : Blocks(v, u)
  BY <1>2 DEF TreeDeadlock
<1>4. PICK w \in S : Blocks(w, v)
  BY <1>3 DEF TreeDeadlock
<1> USE DEF LockInv
<1>5. PICK k \in 1..done[v] : /\ script[v][k].row = Awaited(u).row
                              /\ ~Compatible(script[v][k].mode, Awaited(u).mode)
  BY <1>3 DEF Blocks
<1>6. Pending(u) /\ InTree(Awaited(u)) /\ Pending(v) /\ InTree(Awaited(v)) /\ u # v
  BY <1>2, <1>3, <1>4 DEF TreeDeadlock, Blocks
<1>7. /\ script[u][1].row = Project(Awaited(u).row.project)
      /\ script[u][1].mode \in {"update", "share"}
      /\ script[u][1].mode = "share" => Awaited(u).mode = "share"
      /\ 1 \in 1..done[u]
  BY <1>2, <1>6, WaitersHoldTheGate DEF Blocks
<1>8. /\ script[v][1].row = Project(Awaited(v).row.project)
      /\ script[v][1].mode \in {"update", "share"}
      /\ 1 \in 1..done[v]
      /\ Gated(script[v])
  BY <1>5, <1>6, WaitersHoldTheGate
\* Both hold the project of the row that u waits for.
<1>9. script[u][1].row = script[v][1].row /\ (script[v][1].mode = "share" => script[v][k].mode = "share")
  <2>1. CASE k = 1
    BY <2>1, <1>5, <1>7, <1>8 DEF Project
  <2>2. CASE k # 1
    <3>1. k \in 2..Len(script[v]) /\ InTree(script[v][k])
      BY <2>2, <1>5, <1>6, <1>8 DEF LocksTypeOK, Gated, InTree
    <3> QED BY <3>1, <1>5, <1>7, <1>8 DEF Gated
  <2> QED BY <2>1, <2>2
<1>10. Compatible(script[u][1].mode, script[v][1].mode)
  BY <1>6, <1>7, <1>8, <1>9 DEF LocksExclude
<1>11. script[u][1].mode = "share" /\ script[v][1].mode = "share"
  BY <1>7, <1>8, <1>10 DEF Compatible
<1> QED BY <1>5, <1>7, <1>9, <1>11 DEF Compatible

\* Whoever waits in a circle inside a project's tree, for any number of sessions
\* and rows, one of them creates or deletes a measurement: the order project,
\* survey, job protects everything that follows it.
THEOREM CirclesMeasure == Spec => []DeadlocksMeasure
<1>1. LockInv => DeadlocksMeasure
  BY NoTreeDeadlock DEF DeadlocksMeasure
<1> QED BY <1>1, LocksAreExclusive, PTL

\* The sessions hold locks of the transactions of the services, and no more.
THEOREM LocksAreTyped == Spec => []LocksTypeOK
<1>1. LockInv => LocksTypeOK
  BY DEF LockInv
<1> QED BY <1>1, LocksAreExclusive, PTL
=============================================================================

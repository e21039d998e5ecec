------------------------ MODULE ProjectAccessProofs ------------------------
(* Proofs about ProjectAccess, for any users, projects and requests.       *)
EXTENDS ProjectAccess, TLAPS

\* A request knows who makes it and what it asks for; one that is to create a
\* project has a manager for it.
RequestsAreKnown ==
  \A r \in Request :
    /\ pc[r] # "new" => actor[r] \in [id : User, role : Role, active : {TRUE}] /\ asked[r] \in Input
    /\ pc[r] = "checked" => asked[r].op = "change_user"
    /\ pc[r] = "looked" /\ asked[r].op = "create_project" => AssignedManager(r) \in User

AccessInv == TypeOK /\ RequestsAreKnown /\ AuditTellsTheRows /\ RowsHaveTheirParents

---------------------------------------------------------------------------

LEMMA AccessInit == Init => AccessInv
<1> SUFFICES ASSUME Init PROVE AccessInv
  OBVIOUS
<1> USE NobodyAssumption, StartAssumption
<1>1. TypeOK
  <2>1. project \in [Project -> ProjectRow]
    BY DEF Init, ProjectRow, NoProject
  <2>2. /\ user \in [User -> UserRow] /\ site \in [Site -> Project \cup {Nobody}]
        /\ survey \in [Survey -> SurveyRow]
    BY DEF Init
  <2>3. audit \in [added : [Pair -> Nat], removed : [Pair -> Nat], archived : [Project -> Nat],
                   built : [Site -> Nat], razed : [Site -> Nat]]
    BY DEF Init, One
  <2>4. member \in [Pair -> Request \cup {Before, Nobody}]
    BY DEF Init
  <2>5. /\ measurement \in [Measurement -> Survey \cup {Nobody}]
        /\ pc \in [Request -> {"new", "known", "looked", "checked", "answering", "done"}]
        /\ asked \in [Request -> Input \cup {NoInput}]
        /\ actor \in [Request -> [id : User, role : Role, active : {TRUE}] \cup {NoActor}]
        /\ answer \in [Request -> {"none", "ok", "refused", "error"}]
    BY DEF Init
  <2> QED BY <2>1, <2>2, <2>3, <2>4, <2>5 DEF TypeOK
<1>2. RequestsAreKnown
  BY DEF Init, RequestsAreKnown
<1>3. AuditTellsTheRows
  <2>1. \A pu \in Pair : audit.added[pu] = audit.removed[pu] + One(member[pu] # Nobody)
    BY DEF Init, One
  <2>2. \A p \in Project : audit.archived[p] = One(project[p].status = "archived")
    BY DEF Init, One, NoProject
  <2>3. \A s \in Site : audit.built[s] = audit.razed[s] + One(site[s] # Nobody)
    BY DEF Init, One
  <2> QED BY <2>1, <2>2, <2>3 DEF AuditTellsTheRows
<1>4. RowsHaveTheirParents
  <2>1. ASSUME NEW v \in Survey, survey[v] # NoSurvey
        PROVE  project[survey[v].project] # NoProject /\ site[survey[v].site] = survey[v].project
    BY <2>1 DEF Init, SurveyRow, NoSurvey, NoProject
  <2> QED BY <2>1 DEF RowsHaveTheirParents, Init
<1> QED BY <1>1, <1>2, <1>3, <1>4 DEF AccessInv

---------------------------------------------------------------------------

\* A request that moves on keeps the request variables well typed.
RequestsOK ==
  /\ pc \in [Request -> {"new", "known", "looked", "checked", "answering", "done"}]
  /\ asked \in [Request -> Input \cup {NoInput}]
  /\ actor \in [Request -> [id : User, role : Role, active : {TRUE}] \cup {NoActor}]
  /\ answer \in [Request -> {"none", "ok", "refused", "error"}]
  /\ RequestsAreKnown

LEMMA DoesRequests ==
  ASSUME AccessInv, NEW r \in Request, NEW op \in Operation, Does(r, op)
  PROVE  RequestsOK' /\ asked[r] \in Input /\ WellFormed(asked[r])
         /\ actor[r] \in [id : User, role : Role, active : {TRUE}]
<1>1. /\ pc' = [pc EXCEPT ![r] = IF op = "add_member" THEN "answering" ELSE "done"]
      /\ answer' = [answer EXCEPT ![r] = IF op = "add_member" THEN "none" ELSE "ok"]
      /\ asked' = asked /\ actor' = actor /\ pc[r] = "looked"
  BY DEF Does, Locked
<1>2. RequestsOK'
  BY <1>1 DEF AccessInv, TypeOK, RequestsAreKnown, RequestsOK, AssignedManager
<1>3. asked[r] \in Input /\ actor[r] \in [id : User, role : Role, active : {TRUE}]
  BY <1>1 DEF AccessInv, RequestsAreKnown
<1>4. WellFormed(asked[r])
  BY <1>3, StartAssumption
<1> QED BY <1>2, <1>3, <1>4

LEMMA EndsRequests ==
  ASSUME AccessInv, NEW r \in Request,
         NEW with \in {"ok", "refused", "error"}, Ends(r, with), pc[r] # "new"
  PROVE  RequestsOK'
BY DEF AccessInv, TypeOK, RequestsAreKnown, RequestsOK, AssignedManager, Ends

LEMMA QuietStep ==
  ASSUME AccessInv, RequestsOK', UNCHANGED rows
  PROVE  AccessInv'
<1>1. /\ user' = user /\ project' = project /\ member' = member /\ site' = site
      /\ survey' = survey /\ measurement' = measurement /\ audit' = audit
  BY DEF rows
<1>2. TypeOK'
  BY <1>1 DEF AccessInv, TypeOK, RequestsOK
<1>3. AuditTellsTheRows' /\ RowsHaveTheirParents'
  BY <1>1 DEF AccessInv, AuditTellsTheRows, RowsHaveTheirParents
<1> QED BY <1>2, <1>3 DEF AccessInv, RequestsOK

LEMMA AuthenticateStep ==
  ASSUME AccessInv, NEW r \in Request, Authenticate(r)
  PROVE  AccessInv'
<1>1. PICK u \in User, in \in Input, role \in TokenRole \cup {user[v].role : v \in User} :
        /\ user[u].active /\ role \in TokenRole \cup {user[u].role}
        /\ user' = [user EXCEPT ![u].role = role]
        /\ actor' = [actor EXCEPT ![r] = [id |-> u, role |-> role, active |-> TRUE]]
        /\ asked' = [asked EXCEPT ![r] = in]
  <2>1. PICK u \in User, in \in Input :
          /\ user[u].active
          /\ \E role \in TokenRole \cup {user[u].role} :
               /\ user' = [user EXCEPT ![u].role = role]
               /\ actor' = [actor EXCEPT ![r] = [id |-> u, role |-> role, active |-> TRUE]]
               /\ asked' = [asked EXCEPT ![r] = in]
    BY DEF Authenticate
  <2>2. PICK given \in TokenRole \cup {user[u].role} :
          /\ user' = [user EXCEPT ![u].role = given]
          /\ actor' = [actor EXCEPT ![r] = [id |-> u, role |-> given, active |-> TRUE]]
          /\ asked' = [asked EXCEPT ![r] = in]
    BY <2>1
  <2>3. given \in TokenRole \cup {user[v].role : v \in User}
    OBVIOUS
  <2> QED BY <2>1, <2>2, <2>3
<1>2. /\ project' = project /\ member' = member /\ site' = site /\ survey' = survey
      /\ measurement' = measurement /\ audit' = audit /\ answer' = answer
      /\ pc[r] = "new" /\ pc' = [pc EXCEPT ![r] = "known"]
  BY DEF Authenticate
<1>3. role \in Role
  <2>1. user[u] \in UserRow
    BY <1>1 DEF AccessInv, TypeOK
  <2> QED BY <1>1, <2>1, StartAssumption DEF UserRow
<1>4. user' \in [User -> UserRow]
  <2>1. [user[u] EXCEPT !.role = role] \in UserRow
    BY <1>3 DEF AccessInv, TypeOK, UserRow
  <2> QED BY <1>1, <2>1 DEF AccessInv, TypeOK
<1>5. actor'[r] \in [id : User, role : Role, active : {TRUE}]
  BY <1>1, <1>3 DEF AccessInv, TypeOK
<1>6. RequestsOK'
  BY <1>1, <1>2, <1>3, <1>5 DEF AccessInv, TypeOK, RequestsAreKnown, RequestsOK, AssignedManager
<1>7. TypeOK'
  BY <1>2, <1>4, <1>6 DEF AccessInv, TypeOK, RequestsOK
<1>8. AuditTellsTheRows' /\ RowsHaveTheirParents'
  BY <1>2 DEF AccessInv, AuditTellsTheRows, RowsHaveTheirParents
<1> QED BY <1>6, <1>7, <1>8 DEF AccessInv, RequestsOK

LEMMA LookStep ==
  ASSUME AccessInv, NEW r \in Request, Look(r)
  PROVE  AccessInv'
<1>1. /\ pc[r] = "known" /\ pc' = [pc EXCEPT ![r] = "looked"] /\ MayLook(r)
      /\ asked' = asked /\ actor' = actor /\ answer' = answer /\ UNCHANGED rows
  BY DEF Look
<1>2. actor[r] \in [id : User, role : Role, active : {TRUE}] /\ asked[r] \in Input
  BY <1>1 DEF AccessInv, RequestsAreKnown
<1>3. asked[r] \in InputRecord
  BY <1>2, StartAssumption DEF WellFormed
<1>4. asked[r].op = "create_project" => AssignedManager(r) \in User
  BY <1>1, <1>2, <1>3 DEF MayLook, LookAtProject, LookAtMembers, LookAtSites, LookAtSurvey,
     LookAtMeasurement, LookAtUser, AssignedManager, IsAdministrator, MayManage, InputRecord, OnSite
<1>5. RequestsOK'
  BY <1>1, <1>2, <1>4 DEF AccessInv, TypeOK, RequestsAreKnown, RequestsOK, AssignedManager
<1> QED BY <1>1, <1>5, QuietStep

\* One lemma for each transaction that writes rows.
LEMMA CreateProjectStep ==
  ASSUME AccessInv, NEW r \in Request, CreateProject(r)
  PROVE  AccessInv'
<1> USE NobodyAssumption
<1>1. PICK p \in Project :
        /\ project[p] = NoProject
        /\ project' = [project EXCEPT ![p] = [status |-> "active", manager |-> AssignedManager(r)]]
  BY DEF CreateProject
<1>2. /\ user' = user /\ member' = member /\ site' = site /\ survey' = survey
      /\ measurement' = measurement /\ audit' = audit /\ Does(r, "create_project")
  BY DEF CreateProject
<1>3. RequestsOK'
  BY <1>2, DoesRequests DEF Operation
<1>4. AssignedManager(r) \in User
  BY <1>2 DEF Does, Locked, AccessInv, RequestsAreKnown
<1>5. project' \in [Project -> ProjectRow]
  BY <1>1, <1>4 DEF AccessInv, TypeOK, ProjectRow
<1>6. TypeOK'
  BY <1>2, <1>3, <1>5 DEF AccessInv, TypeOK, RequestsOK
<1>7. \A q \in Project : audit.archived[q] = One(project'[q].status = "archived")
  BY <1>1 DEF AccessInv, TypeOK, AuditTellsTheRows, One, NoProject
<1>8. AuditTellsTheRows'
  BY <1>2, <1>7 DEF AccessInv, AuditTellsTheRows
<1>9. \A q \in Project : project[q] # NoProject => project'[q] # NoProject
  BY <1>1 DEF AccessInv, TypeOK
<1>10. RowsHaveTheirParents'
  BY <1>2, <1>9 DEF AccessInv, TypeOK, SurveyRow, RowsHaveTheirParents
<1> QED BY <1>3, <1>6, <1>8, <1>10 DEF AccessInv, RequestsOK

LEMMA TransferStep ==
  ASSUME AccessInv, NEW r \in Request, Transfer(r)
  PROVE  AccessInv'
<1> DEFINE p == asked[r].project
<1>1. /\ user' = user /\ member' = member /\ site' = site /\ survey' = survey
      /\ measurement' = measurement /\ audit' = audit /\ Does(r, "transfer")
      /\ project' = [project EXCEPT ![p].manager = asked[r].user]
  BY DEF Transfer
<1>2. RequestsOK' /\ p \in Project /\ asked[r].op = "transfer" /\ asked[r].user \in User \cup {Nobody}
  BY <1>1, DoesRequests DEF Operation, Does, WellFormed, OnProject, InputRecord
<1>3. project[p] # NoProject /\ asked[r].user \in User
  BY <1>1, <1>2 DEF Does, Allowed, Manages, LockedRow, RowOf, ProjectOf, OnSurvey, OnSite
<1>4. [project[p] EXCEPT !.manager = asked[r].user] \in [status : {"active", "archived"}, manager : User]
      /\ [project[p] EXCEPT !.manager = asked[r].user].status = project[p].status
  BY <1>2, <1>3 DEF AccessInv, TypeOK, ProjectRow
<1>5. project' \in [Project -> ProjectRow] /\ \A q \in Project : project'[q].status = project[q].status
  BY <1>1, <1>2, <1>4 DEF AccessInv, TypeOK, ProjectRow
<1>6. \A q \in Project : project[q] # NoProject => project'[q] # NoProject
  BY <1>5 DEF AccessInv, TypeOK, ProjectRow, NoProject
<1>7. TypeOK'
  BY <1>1, <1>2, <1>5 DEF AccessInv, TypeOK, RequestsOK
<1>8. AuditTellsTheRows'
  BY <1>1, <1>5 DEF AccessInv, AuditTellsTheRows
<1>9. RowsHaveTheirParents'
  BY <1>1, <1>6 DEF AccessInv, TypeOK, SurveyRow, RowsHaveTheirParents
<1> QED BY <1>2, <1>7, <1>8, <1>9 DEF AccessInv, RequestsOK

LEMMA ArchiveStep ==
  ASSUME AccessInv, NEW r \in Request, Archive(r)
  PROVE  AccessInv'
<1> DEFINE p == asked[r].project
<1>1. /\ user' = user /\ member' = member /\ site' = site /\ survey' = survey
      /\ measurement' = measurement /\ Does(r, "archive")
      /\ project' = [project EXCEPT ![p].status = "archived"]
      /\ audit' = [audit EXCEPT !.archived[p] = @ + 1]
  BY DEF Archive
<1>2. RequestsOK' /\ p \in Project /\ asked[r].op = "archive"
  BY <1>1, DoesRequests DEF Operation, Does, WellFormed, OnProject
<1>3. project[p].status = "active"
  BY <1>1, <1>2 DEF Does, Allowed, IsActive, RowOf, ProjectOf, OnSurvey, OnSite, NobodyAssumption, NoProject
<1>4. [project[p] EXCEPT !.status = "archived"] \in [status : {"active", "archived"}, manager : User]
  BY <1>2, <1>3 DEF AccessInv, TypeOK, ProjectRow, NoProject
<1>5. project' \in [Project -> ProjectRow]
  BY <1>1, <1>4 DEF AccessInv, TypeOK, ProjectRow
<1>6. \A q \in Project : project[q] # NoProject => project'[q] # NoProject
  BY <1>1, <1>4 DEF AccessInv, TypeOK, ProjectRow, NoProject
<1>7. /\ audit'.added = audit.added /\ audit'.removed = audit.removed /\ audit'.built = audit.built
      /\ audit'.razed = audit.razed
      /\ audit'.archived = [audit.archived EXCEPT ![p] = audit.archived[p] + 1]
      /\ audit.archived[p] = 0 /\ audit.archived[p] + 1 = 1
  BY <1>1, <1>2, <1>3 DEF AccessInv, TypeOK, AuditTellsTheRows, One
<1>8. audit' \in [added : [Pair -> Nat], removed : [Pair -> Nat], archived : [Project -> Nat],
                  built : [Site -> Nat], razed : [Site -> Nat]]
  BY <1>1, <1>7 DEF AccessInv, TypeOK
<1>9. TypeOK'
  BY <1>1, <1>2, <1>5, <1>8 DEF AccessInv, TypeOK, RequestsOK
<1>10. \A q \in Project : audit'.archived[q] = One(project'[q].status = "archived")
  <2>1. ASSUME NEW q \in Project PROVE audit'.archived[q] = One(project'[q].status = "archived")
    <3>1. CASE q = p
      BY <1>1, <1>2, <1>7, <3>1 DEF AccessInv, TypeOK, One, ProjectRow, NoProject
    <3>2. CASE q # p
      BY <1>1, <1>2, <1>7, <3>2 DEF AccessInv, TypeOK, AuditTellsTheRows, One
    <3> QED BY <3>1, <3>2
  <2> QED BY <2>1
<1>11. AuditTellsTheRows'
  BY <1>1, <1>7, <1>10 DEF AccessInv, AuditTellsTheRows
<1>12. RowsHaveTheirParents'
  BY <1>1, <1>6 DEF AccessInv, TypeOK, SurveyRow, RowsHaveTheirParents
<1> QED BY <1>2, <1>9, <1>11, <1>12 DEF AccessInv, RequestsOK

LEMMA AddMemberStep ==
  ASSUME AccessInv, NEW r \in Request, AddMember(r)
  PROVE  AccessInv'
<1> DEFINE pu == <<asked[r].project, asked[r].user>>
<1>1. /\ user' = user /\ project' = project /\ site' = site /\ survey' = survey
      /\ measurement' = measurement /\ Does(r, "add_member")
      /\ member' = [member EXCEPT ![pu] = r]
      /\ audit' = [audit EXCEPT !.added[pu] = @ + 1]
  BY DEF AddMember
<1>2. RequestsOK' /\ pu \in Pair /\ asked[r].op = "add_member"
  BY <1>1, DoesRequests DEF Operation, Does, WellFormed, OnProject, Pair
<1>3. member[pu] = Nobody
  BY <1>1, <1>2 DEF Does, Allowed, OnSite
<1>4. /\ audit'.archived = audit.archived /\ audit'.removed = audit.removed /\ audit'.built = audit.built
      /\ audit'.razed = audit.razed
      /\ audit'.added = [audit.added EXCEPT ![pu] = audit.added[pu] + 1]
      /\ audit.added[pu] + 1 \in Nat
  BY <1>1, <1>2 DEF AccessInv, TypeOK
<1>5. audit' \in [added : [Pair -> Nat], removed : [Pair -> Nat], archived : [Project -> Nat],
                  built : [Site -> Nat], razed : [Site -> Nat]]
  BY <1>1, <1>4 DEF AccessInv, TypeOK
<1>6. TypeOK'
  BY <1>1, <1>2, <1>5 DEF AccessInv, TypeOK, RequestsOK
<1>7. ASSUME NEW x \in Pair PROVE audit'.added[x] = audit'.removed[x] + One(member'[x] # Nobody)
  <2>1. audit.added[x] = audit.removed[x] + One(member[x] # Nobody)
    BY DEF AccessInv, AuditTellsTheRows
  <2>2. CASE x = pu
    BY <1>1, <1>2, <1>3, <1>4, <2>1, <2>2, NobodyAssumption DEF AccessInv, TypeOK, One
  <2>3. CASE x # pu
    BY <1>1, <1>2, <1>4, <2>1, <2>3 DEF AccessInv, TypeOK
  <2> QED BY <2>2, <2>3
<1>8. AuditTellsTheRows'
  BY <1>1, <1>4, <1>7 DEF AccessInv, AuditTellsTheRows, Pair
<1>9. RowsHaveTheirParents'
  BY <1>1 DEF AccessInv, RowsHaveTheirParents
<1> QED BY <1>2, <1>6, <1>8, <1>9 DEF AccessInv, RequestsOK

LEMMA RemoveMemberStep ==
  ASSUME AccessInv, NEW r \in Request, RemoveMember(r)
  PROVE  AccessInv'
<1> DEFINE pu == <<asked[r].project, asked[r].user>>
<1>1. /\ user' = user /\ project' = project /\ site' = site /\ survey' = survey
      /\ measurement' = measurement /\ Does(r, "remove_member")
      /\ member' = [member EXCEPT ![pu] = Nobody]
      /\ audit' = [audit EXCEPT !.removed[pu] = @ + 1]
  BY DEF RemoveMember
<1>2. RequestsOK' /\ pu \in Pair /\ asked[r].op = "remove_member"
  BY <1>1, DoesRequests DEF Operation, Does, WellFormed, OnProject, Pair
<1>3. member[pu] # Nobody
  BY <1>1, <1>2 DEF Does, Allowed, OnSite
<1>4. /\ audit'.archived = audit.archived /\ audit'.added = audit.added /\ audit'.built = audit.built
      /\ audit'.razed = audit.razed
      /\ audit'.removed = [audit.removed EXCEPT ![pu] = audit.removed[pu] + 1]
      /\ audit.removed[pu] + 1 \in Nat
  BY <1>1, <1>2 DEF AccessInv, TypeOK
<1>5. audit' \in [added : [Pair -> Nat], removed : [Pair -> Nat], archived : [Project -> Nat],
                  built : [Site -> Nat], razed : [Site -> Nat]]
  BY <1>1, <1>4 DEF AccessInv, TypeOK
<1>6. TypeOK'
  BY <1>1, <1>2, <1>5 DEF AccessInv, TypeOK, RequestsOK
<1>7. ASSUME NEW x \in Pair PROVE audit'.added[x] = audit'.removed[x] + One(member'[x] # Nobody)
  <2>1. audit.added[x] = audit.removed[x] + One(member[x] # Nobody)
    BY DEF AccessInv, AuditTellsTheRows
  <2>2. CASE x = pu
    BY <1>1, <1>2, <1>3, <1>4, <2>1, <2>2 DEF AccessInv, TypeOK, One
  <2>3. CASE x # pu
    BY <1>1, <1>2, <1>4, <2>1, <2>3 DEF AccessInv, TypeOK
  <2> QED BY <2>2, <2>3
<1>8. AuditTellsTheRows'
  BY <1>1, <1>4, <1>7 DEF AccessInv, AuditTellsTheRows, Pair
<1>9. RowsHaveTheirParents'
  BY <1>1 DEF AccessInv, RowsHaveTheirParents
<1> QED BY <1>2, <1>6, <1>8, <1>9 DEF AccessInv, RequestsOK

LEMMA CreateSiteStep ==
  ASSUME AccessInv, NEW r \in Request, CreateSite(r)
  PROVE  AccessInv'
<1>1. PICK s \in Site :
        /\ site[s] = Nobody
        /\ site' = [site EXCEPT ![s] = asked[r].project]
        /\ audit' = [audit EXCEPT !.built[s] = @ + 1]
  BY DEF CreateSite
<1>2. /\ user' = user /\ project' = project /\ member' = member /\ survey' = survey
      /\ measurement' = measurement /\ Does(r, "create_site")
  BY DEF CreateSite
<1>3. RequestsOK' /\ asked[r].project \in Project
  BY <1>2, DoesRequests DEF Operation, Does, WellFormed, OnProject
<1>4. /\ audit'.archived = audit.archived /\ audit'.added = audit.added /\ audit'.removed = audit.removed
      /\ audit'.razed = audit.razed
      /\ audit'.built = [audit.built EXCEPT ![s] = audit.built[s] + 1]
      /\ audit.built[s] + 1 \in Nat
  BY <1>1 DEF AccessInv, TypeOK
<1>5. audit' \in [added : [Pair -> Nat], removed : [Pair -> Nat], archived : [Project -> Nat],
                  built : [Site -> Nat], razed : [Site -> Nat]]
  BY <1>1, <1>4 DEF AccessInv, TypeOK
<1>6. TypeOK'
  BY <1>1, <1>2, <1>3, <1>5 DEF AccessInv, TypeOK, RequestsOK
<1>7. ASSUME NEW x \in Site PROVE audit'.built[x] = audit'.razed[x] + One(site'[x] # Nobody)
  <2>1. audit.built[x] = audit.razed[x] + One(site[x] # Nobody)
    BY DEF AccessInv, AuditTellsTheRows
  <2>2. CASE x = s
    BY <1>1, <1>3, <1>4, <2>1, <2>2, NobodyAssumption DEF AccessInv, TypeOK, One
  <2>3. CASE x # s
    BY <1>1, <1>4, <2>1, <2>3 DEF AccessInv, TypeOK
  <2> QED BY <2>2, <2>3
<1>8. AuditTellsTheRows'
  BY <1>2, <1>4, <1>7 DEF AccessInv, AuditTellsTheRows
<1>9. RowsHaveTheirParents'
  <2>1. ASSUME NEW v \in Survey, survey[v] # NoSurvey
        PROVE  survey[v].site # s /\ survey[v].site \in Site
    BY <1>1, <2>1, NobodyAssumption DEF AccessInv, TypeOK, SurveyRow, RowsHaveTheirParents
  <2> QED BY <1>1, <1>2, <2>1 DEF AccessInv, TypeOK, RowsHaveTheirParents
<1> QED BY <1>3, <1>6, <1>8, <1>9 DEF AccessInv, RequestsOK

LEMMA DeleteSiteStep ==
  ASSUME AccessInv, NEW r \in Request, DeleteSite(r)
  PROVE  AccessInv'
<1> DEFINE s == asked[r].site
           gone == {v \in Survey : survey[v].site = s}
<1>1. /\ user' = user /\ project' = project /\ member' = member /\ Does(r, "delete_site")
      /\ site' = [site EXCEPT ![s] = Nobody]
      /\ survey' = [v \in Survey |-> IF v \in gone THEN NoSurvey ELSE survey[v]]
      /\ measurement' = [m \in Measurement |-> IF measurement[m] \in gone THEN Nobody ELSE measurement[m]]
      /\ audit' = [audit EXCEPT !.razed[s] = @ + 1]
  BY DEF DeleteSite
<1>2. RequestsOK' /\ s \in Site /\ asked[r].op = "delete_site"
  BY <1>1, DoesRequests DEF Operation, Does, WellFormed, OnSite
<1>3. site[s] # Nobody
  BY <1>1, <1>2 DEF Does, Allowed, SiteFits, OnSite
<1>4. /\ audit'.archived = audit.archived /\ audit'.added = audit.added /\ audit'.built = audit.built
      /\ audit'.removed = audit.removed
      /\ audit'.razed = [audit.razed EXCEPT ![s] = audit.razed[s] + 1]
      /\ audit.razed[s] + 1 \in Nat
  BY <1>1, <1>2 DEF AccessInv, TypeOK
<1>5. audit' \in [added : [Pair -> Nat], removed : [Pair -> Nat], archived : [Project -> Nat],
                  built : [Site -> Nat], razed : [Site -> Nat]]
  BY <1>1, <1>4 DEF AccessInv, TypeOK
<1>6. /\ site' \in [Site -> Project \cup {Nobody}]
      /\ survey' \in [Survey -> SurveyRow]
      /\ measurement' \in [Measurement -> Survey \cup {Nobody}]
  BY <1>1 DEF AccessInv, TypeOK, SurveyRow
<1>7. TypeOK'
  BY <1>1, <1>2, <1>5, <1>6 DEF AccessInv, TypeOK, RequestsOK
<1>8. ASSUME NEW x \in Site PROVE audit'.built[x] = audit'.razed[x] + One(site'[x] # Nobody)
  <2>1. audit.built[x] = audit.razed[x] + One(site[x] # Nobody)
    BY DEF AccessInv, AuditTellsTheRows
  <2>2. CASE x = s
    BY <1>1, <1>2, <1>3, <1>4, <2>1, <2>2 DEF AccessInv, TypeOK, One
  <2>3. CASE x # s
    BY <1>1, <1>2, <1>4, <2>1, <2>3 DEF AccessInv, TypeOK
  <2> QED BY <2>2, <2>3
<1>9. AuditTellsTheRows'
  BY <1>1, <1>4, <1>8 DEF AccessInv, AuditTellsTheRows
<1>10. RowsHaveTheirParents'
  <2>1. ASSUME NEW v \in Survey, survey'[v] # NoSurvey
        PROVE  project'[survey'[v].project] # NoProject /\ site'[survey'[v].site] = survey'[v].project
    <3>1. survey[v].site # s /\ survey'[v] = survey[v] /\ survey[v] # NoSurvey
      BY <1>1, <2>1
    <3>2. survey[v].site \in Site
      BY <3>1 DEF AccessInv, TypeOK, SurveyRow
    <3> QED BY <1>1, <3>1, <3>2 DEF AccessInv, TypeOK, RowsHaveTheirParents
  <2>2. ASSUME NEW m \in Measurement, measurement'[m] # Nobody
        PROVE  survey'[measurement'[m]] # NoSurvey
    <3>1. measurement[m] \notin gone /\ measurement'[m] = measurement[m] /\ measurement[m] \in Survey
      BY <1>1, <2>2 DEF AccessInv, TypeOK
    <3>2. survey[measurement[m]] # NoSurvey
      BY <2>2, <3>1, NobodyAssumption DEF AccessInv, RowsHaveTheirParents
    <3>3. survey'[measurement[m]] = survey[measurement[m]]
      BY <1>1, <3>1
    <3> QED BY <3>1, <3>2, <3>3
  <2> QED BY <2>1, <2>2 DEF RowsHaveTheirParents
<1> QED BY <1>2, <1>7, <1>9, <1>10 DEF AccessInv, RequestsOK

LEMMA CreateSurveyStep ==
  ASSUME AccessInv, NEW r \in Request, CreateSurvey(r)
  PROVE  AccessInv'
<1> DEFINE row == [project |-> asked[r].project, site |-> asked[r].site, creator |-> actor[r].id]
<1>1. PICK v \in Survey : survey[v] = NoSurvey /\ survey' = [survey EXCEPT ![v] = row]
  BY DEF CreateSurvey
<1>2. /\ user' = user /\ project' = project /\ member' = member /\ site' = site /\ audit' = audit
      /\ measurement' = measurement /\ Does(r, "create_survey")
  BY DEF CreateSurvey
<1>3. /\ RequestsOK' /\ asked[r].project \in Project /\ asked[r].site \in Site /\ actor[r].id \in User
      /\ asked[r].op = "create_survey"
  BY <1>2, DoesRequests DEF Operation, Does, WellFormed, OnProject
<1>4. /\ SiteFits(asked[r].site, asked[r].project) /\ project[asked[r].project].status = "active"
  BY <1>2, <1>3, NobodyAssumption DEF Does, Allowed, OnSite, OnSurvey, IsActive, RowOf, ProjectOf, NoProject
<1>5. row \in SurveyRow /\ survey' \in [Survey -> SurveyRow]
  BY <1>1, <1>3 DEF AccessInv, TypeOK, SurveyRow
<1>6. TypeOK'
  BY <1>2, <1>3, <1>5 DEF AccessInv, TypeOK, RequestsOK
<1>7. AuditTellsTheRows'
  BY <1>2 DEF AccessInv, AuditTellsTheRows
<1>8. ASSUME NEW x \in Survey, survey'[x] # NoSurvey
      PROVE  project[survey'[x].project] # NoProject /\ site[survey'[x].site] = survey'[x].project
  <2>1. CASE x = v
    BY <1>1, <1>3, <1>4, <2>1 DEF AccessInv, TypeOK, SiteFits, NoProject
  <2>2. CASE x # v
    BY <1>1, <1>8, <2>2 DEF AccessInv, TypeOK, RowsHaveTheirParents
  <2> QED BY <2>1, <2>2
<1>9. row # NoSurvey
  BY <1>3, NobodyAssumption DEF NoSurvey
<1>10. \A m \in Measurement : measurement[m] # Nobody => survey'[measurement[m]] # NoSurvey
  BY <1>1, <1>9 DEF AccessInv, TypeOK, RowsHaveTheirParents
<1>11. RowsHaveTheirParents'
  BY <1>2, <1>8, <1>10 DEF RowsHaveTheirParents
<1> QED BY <1>3, <1>6, <1>7, <1>11 DEF AccessInv, RequestsOK

LEMMA MeasureStep ==
  ASSUME AccessInv, NEW r \in Request, CreateMeasurement(r) \/ DeleteMeasurement(r)
  PROVE  AccessInv'
<1>1. /\ user' = user /\ project' = project /\ member' = member /\ site' = site /\ audit' = audit
      /\ survey' = survey
  BY DEF CreateMeasurement, DeleteMeasurement
<1>2. RequestsOK'
  BY DoesRequests DEF Operation, CreateMeasurement, DeleteMeasurement
<1>3. /\ measurement' \in [Measurement -> Survey \cup {Nobody}]
      /\ \A m \in Measurement : measurement'[m] # Nobody => survey[measurement'[m]] # NoSurvey
  <2>1. CASE CreateMeasurement(r)
    <3>1. PICK m \in Measurement : measurement' = [measurement EXCEPT ![m] = asked[r].survey]
      BY <2>1 DEF CreateMeasurement
    <3>2. asked[r].op = "measure" /\ asked[r].survey \in Survey /\ ~ Breaks(r)
      BY <2>1, DoesRequests DEF Operation, CreateMeasurement, Does, WellFormed, OnSurvey
    <3>3. survey[asked[r].survey] # NoSurvey
      BY <3>2 DEF Breaks
    <3> QED BY <3>1, <3>2, <3>3 DEF AccessInv, TypeOK, RowsHaveTheirParents
  <2>2. CASE DeleteMeasurement(r)
    BY <2>2, NobodyAssumption DEF DeleteMeasurement, AccessInv, TypeOK, RowsHaveTheirParents
  <2> QED BY <2>1, <2>2
<1>4. TypeOK'
  BY <1>1, <1>2, <1>3 DEF AccessInv, TypeOK, RequestsOK
<1>5. AuditTellsTheRows' /\ RowsHaveTheirParents'
  BY <1>1, <1>3 DEF AccessInv, AuditTellsTheRows, RowsHaveTheirParents
<1> QED BY <1>2, <1>4, <1>5 DEF AccessInv, RequestsOK

LEMMA ChangeUserStep ==
  ASSUME AccessInv, NEW r \in Request, ChangeUser(r)
  PROVE  AccessInv'
<1> DEFINE u == asked[r].user
           row == [role |-> IF asked[r].next.role # seen[r].user.role THEN asked[r].next.role ELSE user[u].role,
                   active |-> IF asked[r].next.active # seen[r].user.active THEN asked[r].next.active
                              ELSE user[u].active]
<1>1. /\ project' = project /\ member' = member /\ site' = site /\ audit' = audit
      /\ survey' = survey /\ measurement' = measurement /\ asked' = asked /\ actor' = actor
      /\ pc[r] = "checked" /\ pc' = [pc EXCEPT ![r] = "done"] /\ answer' = [answer EXCEPT ![r] = "ok"]
      /\ user' = [user EXCEPT ![u] = row]
  BY DEF ChangeUser
<1>2. asked[r].op = "change_user" /\ WellFormed(asked[r])
  BY <1>1, StartAssumption DEF AccessInv, RequestsAreKnown
<1>3. u \in User /\ asked[r].next \in UserRow
  BY <1>2 DEF WellFormed, InputRecord
<1>4. user[u] \in UserRow
  BY <1>3 DEF AccessInv, TypeOK
<1>5. row.role \in Role /\ row.active \in BOOLEAN
  BY <1>3, <1>4, Zenon DEF UserRow
<1>6. user' \in [User -> UserRow]
  BY <1>1, <1>5 DEF AccessInv, TypeOK, UserRow
<1>7. RequestsOK'
  BY <1>1 DEF AccessInv, TypeOK, RequestsAreKnown, RequestsOK, AssignedManager
<1>8. TypeOK'
  BY <1>1, <1>6, <1>7 DEF AccessInv, TypeOK, RequestsOK
<1>9. AuditTellsTheRows' /\ RowsHaveTheirParents'
  BY <1>1 DEF AccessInv, AuditTellsTheRows, RowsHaveTheirParents
<1> QED BY <1>7, <1>8, <1>9 DEF AccessInv, RequestsOK

LEMMA OtherSteps ==
  ASSUME AccessInv, NEW r \in Request,
         \/ RefuseLook(r) \/ BreakLocked(r) \/ RefuseLocked(r) \/ UpdateProject(r)
         \/ AnswerAdd(r) \/ CheckUser(r) \/ RefuseUser(r)
  PROVE  AccessInv'
<1>1. CASE RefuseLook(r) \/ BreakLocked(r) \/ RefuseLocked(r) \/ RefuseUser(r)
  <2>1. UNCHANGED rows
    BY <1>1 DEF RefuseLook, BreakLocked, RefuseLocked, RefuseUser, Ends
  <2>2. RequestsOK'
    BY <1>1, EndsRequests DEF RefuseLook, BreakLocked, RefuseLocked, RefuseUser, Locked
  <2> QED BY <2>1, <2>2, QuietStep
<1>2. CASE UpdateProject(r)
  BY <1>2, DoesRequests, QuietStep DEF UpdateProject, Operation
<1>3. CASE AnswerAdd(r)
  <2>1. RequestsOK'
    BY <1>3 DEF AnswerAdd, AccessInv, TypeOK, RequestsAreKnown, RequestsOK, AssignedManager
  <2> QED BY <1>3, <2>1, QuietStep DEF AnswerAdd
<1>4. CASE CheckUser(r)
  <2>1. RequestsOK'
    BY <1>4 DEF CheckUser, AccessInv, TypeOK, RequestsAreKnown, RequestsOK, AssignedManager
  <2> QED BY <1>4, <2>1, QuietStep DEF CheckUser
<1> QED BY <1>1, <1>2, <1>3, <1>4

LEMMA AccessStep == AccessInv /\ [Next]_vars => AccessInv'
<1> SUFFICES ASSUME AccessInv, [Next]_vars PROVE AccessInv'
  OBVIOUS
<1>1. ASSUME NEW r \in Request, Step(r) PROVE AccessInv'
  BY <1>1, AuthenticateStep, LookStep, CreateProjectStep, TransferStep, ArchiveStep, AddMemberStep,
     RemoveMemberStep, CreateSiteStep, DeleteSiteStep, CreateSurveyStep, MeasureStep, ChangeUserStep,
     OtherSteps DEF Step
<1>2. CASE UNCHANGED vars
  <2>1. RequestsOK' /\ UNCHANGED rows
    BY <1>2 DEF vars, AccessInv, TypeOK, RequestsAreKnown, RequestsOK, AssignedManager
  <2> QED BY <2>1, QuietStep
<1> QED BY <1>1, <1>2 DEF Next

---------------------------------------------------------------------------

\* Whatever the users, the projects and the requests: every row has its type,
\* in every interleaving of the requests.
THEOREM AccessTypes == Spec => []TypeOK
<1>1. AccessInv => TypeOK
  BY DEF AccessInv
<1> QED BY <1>1, AccessInit, AccessStep, PTL DEF Spec

\* The audit log tells which members, sites and archived projects there are.
THEOREM AuditAgrees == Spec => []AuditTellsTheRows
<1>1. AccessInv => AuditTellsTheRows
  BY DEF AccessInv
<1> QED BY <1>1, AccessInit, AccessStep, PTL DEF Spec

\* Surveys lie on a site of their project and measurements have their survey.
THEOREM ParentsStay == Spec => []RowsHaveTheirParents
<1>1. AccessInv => RowsHaveTheirParents
  BY DEF AccessInv
<1> QED BY <1>1, AccessInit, AccessStep, PTL DEF Spec

---------------------------------------------------------------------------

\* The transactions that write rows of a project that exists.
Writers == {"transfer", "archive", "add_member", "remove_member", "create_site", "delete_site",
            "create_survey"}

LEMMA OthersRowsStay ==
  ASSUME AccessInv, NEW r \in Request, Step(r), NEW p \in Project,
         project[p] # NoProject,
         \/ p # asked[r].project
         \/ ~ \E op \in Writers : Does(r, op)
  PROVE  Rows(p)' = Rows(p)
<1> USE NobodyAssumption
<1>1. ASSUME project'[p] = project[p], member' = member, site' = site, survey' = survey
      PROVE  Rows(p)' = Rows(p)
  BY <1>1 DEF Rows
<1>2. CASE UNCHANGED rows
  BY <1>1, <1>2 DEF rows
<1>3. CASE Authenticate(r) \/ ChangeUser(r) \/ CreateMeasurement(r) \/ DeleteMeasurement(r)
  BY <1>1, <1>3 DEF Authenticate, ChangeUser, CreateMeasurement, DeleteMeasurement
<1>4. CASE CreateProject(r)
  <2>1. project'[p] = project[p]
    BY <1>4 DEF CreateProject, AccessInv, TypeOK
  <2> QED BY <1>1, <1>4, <2>1 DEF CreateProject
<1>5. CASE Transfer(r) \/ Archive(r)
  <2>1. p # asked[r].project
    BY <1>5 DEF Transfer, Archive, Writers
  <2>2. project'[p] = project[p]
    BY <1>5, <2>1 DEF Transfer, Archive, AccessInv, TypeOK
  <2> QED BY <1>1, <1>5, <2>2 DEF Transfer, Archive
<1>6. CASE AddMember(r) \/ RemoveMember(r)
  <2>1. p # asked[r].project
    BY <1>6 DEF AddMember, RemoveMember, Writers
  <2>2. \A u \in User : member'[<<p, u>>] = member[<<p, u>>]
    BY <1>6, <2>1 DEF AddMember, RemoveMember, AccessInv, TypeOK, Pair
  <2> QED BY <1>6, <2>2 DEF AddMember, RemoveMember, Rows
<1>7. CASE CreateSite(r)
  <2>1. p # asked[r].project
    BY <1>7 DEF CreateSite, Writers
  <2>2. PICK s \in Site : site[s] = Nobody /\ site' = [site EXCEPT ![s] = asked[r].project]
    BY <1>7 DEF CreateSite
  <2>3. \A x \in Site : site'[x] = p <=> site[x] = p
    BY <2>1, <2>2 DEF AccessInv, TypeOK
  <2> QED BY <1>7, <2>3 DEF CreateSite, Rows
<1>8. CASE DeleteSite(r)
  <2> DEFINE s == asked[r].site
  <2>1. p # asked[r].project /\ Does(r, "delete_site")
    BY <1>8 DEF DeleteSite, Writers
  <2>2. s \in Site /\ asked[r].op = "delete_site"
    BY <2>1, DoesRequests DEF Operation, Does, WellFormed, OnSite
  <2>3. site[s] = asked[r].project
    BY <2>1, <2>2 DEF Does, Allowed, SiteFits, OnSite
  <2>4. \A x \in Site : site'[x] = p <=> site[x] = p
    BY <1>8, <2>1, <2>2, <2>3 DEF DeleteSite, AccessInv, TypeOK
  <2>5. ASSUME NEW v \in Survey PROVE survey'[v].project = p <=> survey[v].project = p
    <3>1. CASE survey[v] = NoSurvey
      BY <1>8, <3>1 DEF DeleteSite, NoSurvey
    <3>2. CASE survey[v] # NoSurvey /\ survey[v].site = s
      <4>1. survey[v].project = asked[r].project
        BY <2>3, <3>2 DEF AccessInv, RowsHaveTheirParents
      <4>2. survey'[v] = NoSurvey
        BY <1>8, <3>2 DEF DeleteSite
      <4> QED BY <2>1, <4>1, <4>2 DEF NoSurvey
    <3>3. CASE survey[v].site # s
      BY <1>8, <3>3 DEF DeleteSite
    <3> QED BY <3>1, <3>2, <3>3
  <2> QED BY <1>8, <2>4, <2>5 DEF DeleteSite, Rows
<1>9. CASE CreateSurvey(r)
  <2>1. p # asked[r].project
    BY <1>9 DEF CreateSurvey, Writers
  <2>2. PICK v \in Survey : survey[v] = NoSurvey /\ survey' = [survey EXCEPT ![v] =
          [project |-> asked[r].project, site |-> asked[r].site, creator |-> actor[r].id]]
    BY <1>9 DEF CreateSurvey
  <2>3. \A x \in Survey : survey'[x].project = p <=> survey[x].project = p
    BY <2>1, <2>2 DEF AccessInv, TypeOK, NoSurvey
  <2> QED BY <1>9, <2>3 DEF CreateSurvey, Rows
<1>10. Step(r) => \/ UNCHANGED rows
                  \/ Authenticate(r) \/ ChangeUser(r) \/ CreateMeasurement(r) \/ DeleteMeasurement(r)
                  \/ CreateProject(r) \/ Transfer(r) \/ Archive(r) \/ AddMember(r) \/ RemoveMember(r)
                  \/ CreateSite(r) \/ DeleteSite(r) \/ CreateSurvey(r)
  BY DEF Step, Look, RefuseLook, BreakLocked, RefuseLocked, UpdateProject, AnswerAdd, CheckUser,
     RefuseUser, Ends
<1> QED BY <1>2, <1>3, <1>4, <1>5, <1>6, <1>7, <1>8, <1>9, <1>10

\* A transaction that writes has locked the project it is about, and found
\* that its actor owns it.
LEMMA WritersOwn ==
  ASSUME AccessInv, NEW r \in Request, NEW op \in Writers, Does(r, op)
  PROVE  /\ OwnsNow(r, asked[r].project) /\ pc'[r] # pc[r]
         /\ op = "transfer" \/ project[asked[r].project].status = "active"
<1> DEFINE p == asked[r].project
<1>1. /\ p \in Project /\ asked[r].op = op /\ Allowed(r) /\ ~ Breaks(r)
      /\ pc[r] = "looked" /\ pc' = [pc EXCEPT ![r] = IF op = "add_member" THEN "answering" ELSE "done"]
  BY DoesRequests DEF Writers, Operation, Does, Locked, WellFormed, OnProject, OnSite
<1>2. RowOf(r) = project[p] /\ ProjectOf(r) = p
  BY <1>1, NobodyAssumption DEF RowOf, ProjectOf, OnSurvey, Writers
<1>3. pc'[r] # pc[r]
  BY <1>1 DEF AccessInv, TypeOK
<1>4. \/ Manages(actor[r], project[p])
      \/ op = "create_survey" /\ EngineerOn(r)
  BY <1>1, <1>2 DEF Writers, Allowed, LockedRow, OnSite
<1>5. EngineerOn(r) => actor[r].role = "SURVEY_ENGINEER" /\ member[<<p, actor[r].id>>] # Nobody
  BY <1>2 DEF EngineerOn, Views, Manages
<1>6. OwnsNow(r, p)
  BY <1>1, <1>4, <1>5 DEF Manages, OwnsNow
<1>7. op = "transfer" \/ project[p].status = "active"
  BY <1>1, <1>2 DEF Writers, Allowed, IsActive, OnSite
<1> QED BY <1>3, <1>6, <1>7

\* What a request may do to a project is decided on the rows it changes: a
\* transfer, an archive and the removal of a member take effect at once.
THEOREM OwnerAccess == Spec => OwnerAccessIsCurrent
<1>1. ASSUME AccessInv, [Next]_vars, NEW p \in Project, project[p] # NoProject, Rows(p)' # Rows(p)
      PROVE  \E r \in Request : pc'[r] # pc[r] /\ OwnsNow(r, p)
  <2>1. ~ UNCHANGED vars
    BY <1>1 DEF vars, rows, Rows
  <2>2. PICK r \in Request : Step(r)
    BY <1>1, <2>1 DEF Next
  <2>3. p = asked[r].project /\ \E op \in Writers : Does(r, op)
    BY <1>1, <2>2, OthersRowsStay
  <2> QED BY <1>1, <2>3, WritersOwn
<1>2. AccessInv /\ [Next]_vars =>
        [\A p \in Project : (project[p] # NoProject /\ Rows(p)' # Rows(p))
            => \E r \in Request : pc'[r] # pc[r] /\ OwnsNow(r, p)]_vars
  BY <1>1
<1> QED BY <1>2, AccessInit, AccessStep, PTL DEF Spec, OwnerAccessIsCurrent

\* An archived project keeps its members, sites and surveys, and stays
\* archived, whatever was under way when it was archived.
THEOREM ArchivedFrozen == Spec => ArchivedIsFrozen
<1> DEFINE Frozen(p) == /\ project'[p].status = "archived"
                        /\ Rows(p)'.members = Rows(p).members
                        /\ Rows(p)'.sites = Rows(p).sites
                        /\ Rows(p)'.surveys = Rows(p).surveys
<1>1. ASSUME AccessInv, [Next]_vars, NEW p \in Project, project[p].status = "archived"
      PROVE  Frozen(p)
  <2>1. CASE Rows(p)' = Rows(p)
    BY <1>1, <2>1 DEF Rows
  <2>2. CASE Rows(p)' # Rows(p)
    <3>1. ~ UNCHANGED vars /\ project[p] # NoProject
      <4>1. ~ UNCHANGED vars
        BY <2>2 DEF vars, rows, Rows
      <4> QED BY <1>1, <4>1 DEF NoProject
    <3>2. PICK r \in Request : Step(r)
      BY <1>1, <3>1 DEF Next
    <3>3. p = asked[r].project /\ \E op \in Writers : Does(r, op)
      BY <1>1, <2>2, <3>1, <3>2, OthersRowsStay
    <3>4. Does(r, "transfer")
      BY <1>1, <3>3, WritersOwn
    <3>5. Transfer(r)
      <4>1. /\ asked[r].op = "transfer" /\ pc[r] = "looked" /\ ~ Breaks(r) /\ Allowed(r)
        BY <3>4 DEF Does, Locked
      <4>2. \/ CreateProject(r) \/ UpdateProject(r) \/ Transfer(r) \/ Archive(r) \/ AddMember(r)
            \/ RemoveMember(r) \/ CreateSite(r) \/ DeleteSite(r) \/ CreateSurvey(r)
            \/ CreateMeasurement(r) \/ DeleteMeasurement(r)
        BY <3>2, <4>1 DEF Step, RefuseLook, BreakLocked, RefuseLocked, AnswerAdd, CheckUser, RefuseUser,
           ChangeUser, Authenticate, Look
      <4> QED BY <4>1, <4>2 DEF Does, CreateProject, UpdateProject, Archive, AddMember, RemoveMember,
                 CreateSite, DeleteSite, CreateSurvey, CreateMeasurement, DeleteMeasurement
    <3>6. project'[p].status = "archived"
      BY <1>1, <3>3, <3>5 DEF Transfer, AccessInv, TypeOK, ProjectRow, NoProject
    <3> QED BY <3>5, <3>6 DEF Transfer, Rows
  <2> QED BY <2>1, <2>2
<1>2. AccessInv /\ [Next]_vars =>
        [\A p \in Project : project[p].status = "archived" => Frozen(p)]_vars
  BY <1>1
<1> QED BY <1>2, AccessInit, AccessStep, PTL DEF Spec, ArchivedIsFrozen
============================================================================

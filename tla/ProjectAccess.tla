--------------------------- MODULE ProjectAccess ---------------------------
(***************************************************************************)
(* Who may change which project, while others change the same project, its *)
(* members, its sites and the users themselves (projects/services.py and   *)
(* views.py, access_control/services.py and authentication.py, the writers *)
(* of survey metadata in surveys/services.py and of measurements in        *)
(* maps/services.py).                                                      *)
(*                                                                         *)
(* A request is a process.  It authenticates, which gives it a copy of its *)
(* user's row; its view looks at the rows it is about; then comes one      *)
(* transaction that locks them and decides again.  Rows change in between. *)
(* A transaction is one step: it locks the project first, and every row it *)
(* reads or writes is locked or changes only under the lock of a project.  *)
(* What is written without such a lock is a step of its own.               *)
(*                                                                         *)
(* A definition introduced as "a slip" is not part of the specification:   *)
(* it is a likely mistake in the code of the definition after it.          *)
(***************************************************************************)
EXTENDS Naturals

CONSTANTS
  User, Project, Site, Survey, Measurement,   \* the rows there may be
  Request,      \* the requests
  Nobody,       \* NULL, and a row that does not exist
  Before,       \* who inserted the memberships there are at the start
  Account,      \* user -> its row at the start
  Owner,        \* project -> its manager at the start, or Nobody: no such project yet
  Assigned,     \* the memberships there are at the start
  Ground,       \* site -> its project at the start, or Nobody
  Flown,        \* survey -> its row at the start, or NoSurvey
  Input,        \* what requests may ask for
  TokenRole     \* the roles the authentication service may have given a user since

Role == {"ADMINISTRATOR", "PROJECT_MANAGER", "SURVEY_ENGINEER", "VIEWER"}

UserRow == [role : Role, active : BOOLEAN]

Operation == {"create_project", "update_project", "transfer", "archive", "add_member",
              "remove_member", "create_site", "update_site", "delete_site", "create_survey",
              "update_survey", "measure", "remove_measurement", "change_user"}

OnSurvey == {"update_survey", "measure", "remove_measurement"}
OnSite == {"update_site", "delete_site"}
OnProject == {"update_project", "transfer", "archive", "add_member", "remove_member",
              "create_site", "create_survey"}

\* next is the row an administrator wants a user to have.
InputRecord == [op : Operation, project : Project \cup {Nobody}, user : User \cup {Nobody},
                site : Site \cup {Nobody}, survey : Survey \cup {Nobody},
                measurement : Measurement \cup {Nobody}, next : UserRow]

\* What the paths and the serializers let through.
WellFormed(in) ==
  /\ in \in InputRecord
  /\ in.op \in OnProject \cup OnSite => in.project \in Project
  /\ in.op \in OnSite \cup {"create_survey"} => in.site \in Site
  /\ in.op \in OnSurvey => in.survey \in Survey
  /\ in.op \in {"add_member", "remove_member", "change_user"} => in.user \in User

ASSUME NobodyAssumption ==
  /\ Nobody \notin User \cup Project \cup Site \cup Survey \cup Measurement \cup Request
  /\ Before \notin Request \cup {Nobody}

VARIABLES
  user,         \* user -> role, is_active
  project,      \* project -> status, project_manager
  member,       \* project, user -> who inserted the membership, or Nobody
  site,         \* site -> its project, or Nobody
  survey,       \* survey -> its project, site and creator, or Nobody thrice
  measurement,  \* measurement -> its survey, or Nobody
  audit,        \* how often each of these was audited
  pc, asked,    \* where a request is, and what it asks for
  actor,        \* request.user: the row as the authentication returned it
  seen,         \* the rows its view looked at: the project's and the user's
  answer

rows == <<user, project, member, site, survey, measurement, audit>>
vars == <<rows, pc, asked, actor, seen, answer>>

Pair == Project \X User

NoInput == [op |-> "none", project |-> Nobody, user |-> Nobody, site |-> Nobody, survey |-> Nobody,
            measurement |-> Nobody, next |-> [role |-> "VIEWER", active |-> FALSE]]

NoSurvey == [project |-> Nobody, site |-> Nobody, creator |-> Nobody]
NoProject == [status |-> "absent", manager |-> Nobody]
NoActor == [id |-> Nobody, role |-> "VIEWER", active |-> FALSE]
NoView == [project |-> NoProject, user |-> [role |-> "VIEWER", active |-> FALSE]]

ProjectRow == [status : {"active", "archived"}, manager : User] \cup {NoProject}
SurveyRow == [project : Project, site : Site, creator : User] \cup {NoSurvey}

ASSUME StartAssumption ==
  /\ Account \in [User -> UserRow]
  /\ Owner \in [Project -> User \cup {Nobody}]
  /\ Assigned \subseteq Project \X User
  /\ \A s \in Site : Ground[s] # Nobody => Owner[Ground[s]] # Nobody
  /\ Ground \in [Site -> Project \cup {Nobody}]
  /\ Flown \in [Survey -> SurveyRow]
  /\ \A v \in Survey : Flown[v] # NoSurvey => Ground[Flown[v].site] = Flown[v].project
  /\ TokenRole \subseteq Role
  /\ \A in \in Input : WellFormed(in)

TypeOK ==
  /\ user \in [User -> UserRow]
  /\ project \in [Project -> ProjectRow]
  /\ member \in [Pair -> Request \cup {Before, Nobody}]
  /\ site \in [Site -> Project \cup {Nobody}]
  /\ survey \in [Survey -> SurveyRow]
  /\ measurement \in [Measurement -> Survey \cup {Nobody}]
  /\ audit \in [added : [Pair -> Nat], removed : [Pair -> Nat], archived : [Project -> Nat],
                built : [Site -> Nat], razed : [Site -> Nat]]
  /\ pc \in [Request -> {"new", "known", "looked", "checked", "answering", "done"}]
  /\ asked \in [Request -> Input \cup {NoInput}]
  /\ actor \in [Request -> [id : User, role : Role, active : {TRUE}] \cup {NoActor}]
  /\ answer \in [Request -> {"none", "ok", "refused", "error"}]

One(b) == IF b THEN 1 ELSE 0

\* The rows there are were made by earlier requests, which audited them.
Init ==
  /\ user = Account
  /\ project = [p \in Project |->
                  IF Owner[p] = Nobody THEN NoProject
                  ELSE [status |-> "active", manager |-> Owner[p]]]
  /\ member = [pu \in Pair |-> IF pu \in Assigned THEN Before ELSE Nobody]
  /\ site = Ground
  /\ survey = Flown
  /\ measurement = [m \in Measurement |-> Nobody]
  /\ audit = [added |-> [pu \in Pair |-> One(pu \in Assigned)],
              removed |-> [pu \in Pair |-> 0],
              archived |-> [p \in Project |-> 0],
              built |-> [s \in Site |-> One(Ground[s] # Nobody)],
              razed |-> [s \in Site |-> 0]]
  /\ pc = [r \in Request |-> "new"]
  /\ asked = [r \in Request |-> NoInput]
  /\ actor = [r \in Request |-> NoActor]
  /\ seen = [r \in Request |-> NoView]
  /\ answer = [r \in Request |-> "none"]

---------------------------------------------------------------------------
(* The rules *)

\* user_can_manage_project
Manages(a, row) ==
  /\ a.active /\ row # NoProject
  /\ a.role = "ADMINISTRATOR" \/ (a.role = "PROJECT_MANAGER" /\ row.manager = a.id)

\* user_can_view_project
Views(a, p, row) ==
  \/ Manages(a, row)
  \/ /\ a.active /\ row # NoProject
     /\ a.role \in {"SURVEY_ENGINEER", "VIEWER"} /\ member[<<p, a.id>>] # Nobody

\* _validate_project_manager
MayManage(u) == u.active /\ u.role = "PROJECT_MANAGER"

\* _validate_project_membership_target
MayJoin(u) == u.active /\ u.role \in {"SURVEY_ENGINEER", "VIEWER"}

\* _ensure_project_manager_ownership_preserved
OwnershipPreserved(u, next) ==
  MayManage(next) \/ \A p \in Project : project[p].manager # u

IsAdministrator(a) == a.active /\ a.role = "ADMINISTRATOR"

\* The project a request is about: named in its path, or the survey's.
ProjectOf(r) ==
  IF asked[r].op \in OnSurvey THEN survey[asked[r].survey].project ELSE asked[r].project

RowOf(r) == IF ProjectOf(r) = Nobody THEN NoProject ELSE project[ProjectOf(r)]

---------------------------------------------------------------------------
(* A request, up to its transaction *)

\* HitechJWTAuthentication and resolve_active_user_from_external_identity:
\* the cached role follows the token.
Authenticate(r) ==
  /\ pc[r] = "new"
  /\ \E u \in User, in \in Input :
       /\ user[u].active
       /\ \E role \in TokenRole \cup {user[u].role} :
            /\ user' = [user EXCEPT ![u].role = role]
            /\ actor' = [actor EXCEPT ![r] = [id |-> u, role |-> role, active |-> TRUE]]
       /\ asked' = [asked EXCEPT ![r] = in]
  /\ pc' = [pc EXCEPT ![r] = "known"]
  /\ UNCHANGED <<project, member, site, survey, measurement, audit, seen, answer>>

Ends(r, with) ==
  /\ pc' = [pc EXCEPT ![r] = "done"]
  /\ answer' = [answer EXCEPT ![r] = with]
  /\ UNCHANGED <<rows, asked, actor, seen>>

\* What the views check before any lock, on rows read then.  A view of projects
\* keeps project managers from naming a manager; create_project locks nothing.
LookAtProject(r) ==
  LET in == asked[r]  a == actor[r]  manages == Manages(a, RowOf(r))
  IN  \/ /\ in.op = "create_project"
         /\ \/ IsAdministrator(a) /\ in.user # Nobody /\ MayManage(user[in.user])
            \/ MayManage(a) /\ in.user = Nobody
      \/ in.op \in {"update_project", "archive"} /\ manages
      \/ in.op = "transfer" /\ manages /\ a.role # "PROJECT_MANAGER"

LookAtMembers(r) ==
  asked[r].op \in {"add_member", "remove_member"} /\ Manages(actor[r], RowOf(r))

LookAtSites(r) ==
  /\ asked[r].op \in OnSite \cup {"create_site"} /\ Manages(actor[r], RowOf(r))
  /\ asked[r].op \in OnSite => site[asked[r].site] = asked[r].project

\* The serializer of a new survey looks for the site among the project's.
LookAtSurvey(r) ==
  LET in == asked[r]
  IN  \/ in.op = "create_survey" /\ RowOf(r) # NoProject /\ site[in.site] = in.project
      \/ in.op \in {"update_survey", "measure"} /\ Views(actor[r], ProjectOf(r), RowOf(r))

\* _get_survey_for_measurement_deletion
LookAtMeasurement(r) ==
  /\ asked[r].op = "remove_measurement" /\ Manages(actor[r], RowOf(r))
  /\ measurement[asked[r].measurement] = asked[r].survey

LookAtUser(r) == asked[r].op = "change_user" /\ IsAdministrator(actor[r])

MayLook(r) ==
  \/ LookAtProject(r) \/ LookAtMembers(r) \/ LookAtSites(r)
  \/ LookAtSurvey(r) \/ LookAtMeasurement(r) \/ LookAtUser(r)

Look(r) ==
  /\ pc[r] = "known"
  /\ MayLook(r)
  /\ seen' = [seen EXCEPT ![r] =
                [project |-> RowOf(r),
                 user |-> IF asked[r].user = Nobody THEN @.user ELSE user[asked[r].user]]]
  /\ pc' = [pc EXCEPT ![r] = "looked"]
  /\ UNCHANGED <<rows, asked, actor, answer>>

RefuseLook(r) == pc[r] = "known" /\ ~ MayLook(r) /\ Ends(r, "refused")

---------------------------------------------------------------------------
(* What its transaction checks *)

\* A slip: the rules are applied to the row the view has read.
RowSeen(r) == seen[r].project

\* lock_project_for_update
LockedRow(r) == RowOf(r)

\* A slip: the status is the one the view has read.
ActiveWhenSeen(r) == seen[r].project.status = "active"

IsActive(r) == RowOf(r).status = "active"

\* A slip: the site the serializer has found is not locked and read again.
SiteOnceFound(s, p) == TRUE

SiteFits(s, p) == site[s] # Nobody /\ site[s] = p

\* _validate_survey_create_actor and _validate_survey_update_actor
EngineerOn(r) ==
  /\ actor[r].role = "SURVEY_ENGINEER"
  /\ Views(actor[r], ProjectOf(r), LockedRow(r))
  /\ asked[r].op = "update_survey" => survey[asked[r].survey].creator = actor[r].id

\* A row that has gone since the view looked, and that the transaction does
\* not expect to be gone; and a transfer to null, which reads null.pk.
Breaks(r) ==
  LET in == asked[r]  manages == Manages(actor[r], LockedRow(r))
  IN  \/ in.op \in {"update_survey", "measure"} /\ survey[in.survey] = NoSurvey
      \/ in.op \in OnSite /\ manages /\ IsActive(r) /\ site[in.site] = Nobody
      \/ in.op = "transfer" /\ manages /\ in.user = Nobody

\* create_project, measurements and users take no lock, and check no more.
Allowed(r) ==
  LET in == asked[r]  manages == Manages(actor[r], LockedRow(r))
  IN  \/ in.op \in {"create_project", "measure", "remove_measurement", "change_user"}
      \/ in.op = "update_project" /\ manages
      \/ in.op = "transfer" /\ manages /\ in.user # Nobody /\ MayManage(user[in.user])
      \/ /\ IsActive(r)
         /\ \/ in.op \in {"archive", "create_site"} /\ manages
            \/ in.op = "add_member" /\ manages /\ MayJoin(user[in.user])
                                    /\ member[<<in.project, in.user>>] = Nobody
            \/ in.op = "remove_member" /\ manages /\ member[<<in.project, in.user>>] # Nobody
            \/ in.op \in OnSite /\ manages /\ SiteFits(in.site, in.project)
            \/ in.op = "create_survey" /\ (manages \/ EngineerOn(r)) /\ SiteFits(in.site, in.project)
            \/ in.op = "update_survey" /\ (manages \/ EngineerOn(r))

Locked(r) == pc[r] = "looked" /\ asked[r].op # "change_user"

BreakLocked(r) == Locked(r) /\ Breaks(r) /\ Ends(r, "error")

RefuseLocked(r) == Locked(r) /\ ~ Breaks(r) /\ ~ Allowed(r) /\ Ends(r, "refused")

Does(r, op) ==
  /\ asked[r].op = op
  /\ Locked(r) /\ ~ Breaks(r) /\ Allowed(r)
  /\ pc' = [pc EXCEPT ![r] = IF op = "add_member" THEN "answering" ELSE "done"]
  /\ answer' = [answer EXCEPT ![r] = IF op = "add_member" THEN "none" ELSE "ok"]
  /\ UNCHANGED <<asked, actor, seen>>

---------------------------------------------------------------------------
(* The transactions *)

AssignedManager(r) == IF actor[r].role = "ADMINISTRATOR" THEN asked[r].user ELSE actor[r].id

CreateProject(r) ==
  /\ Does(r, "create_project")
  /\ \E p \in Project :
       /\ project[p] = NoProject
       /\ project' = [project EXCEPT ![p] = [status |-> "active", manager |-> AssignedManager(r)]]
  /\ UNCHANGED <<user, member, site, survey, measurement, audit>>

\* Names and descriptions are not modelled: only the lock and the rules are.
UpdateProject(r) ==
  /\ Does(r, "update_project") \/ Does(r, "update_site") \/ Does(r, "update_survey")
  /\ UNCHANGED rows

Transfer(r) ==
  /\ Does(r, "transfer")
  /\ project' = [project EXCEPT ![asked[r].project].manager = asked[r].user]
  /\ UNCHANGED <<user, member, site, survey, measurement, audit>>

Archive(r) ==
  /\ Does(r, "archive")
  /\ project' = [project EXCEPT ![asked[r].project].status = "archived"]
  /\ audit' = [audit EXCEPT !.archived[asked[r].project] = @ + 1]
  /\ UNCHANGED <<user, member, site, survey, measurement>>

AddMember(r) ==
  LET pu == <<asked[r].project, asked[r].user>>
  IN  /\ Does(r, "add_member")
      /\ member' = [member EXCEPT ![pu] = r]
      /\ audit' = [audit EXCEPT !.added[pu] = @ + 1]
      /\ UNCHANGED <<user, project, site, survey, measurement>>

\* The response to it is built from the members listed after the commit.
AnswerAdd(r) ==
  /\ pc[r] = "answering"
  /\ pc' = [pc EXCEPT ![r] = "done"]
  /\ answer' = [answer EXCEPT ![r] =
                  IF member[<<asked[r].project, asked[r].user>>] = r THEN "ok" ELSE "error"]
  /\ UNCHANGED <<rows, asked, actor, seen>>

RemoveMember(r) ==
  LET pu == <<asked[r].project, asked[r].user>>
  IN  /\ Does(r, "remove_member")
      /\ member' = [member EXCEPT ![pu] = Nobody]
      /\ audit' = [audit EXCEPT !.removed[pu] = @ + 1]
      /\ UNCHANGED <<user, project, site, survey, measurement>>

CreateSite(r) ==
  /\ Does(r, "create_site")
  /\ \E s \in Site :
       /\ site[s] = Nobody /\ audit.razed[s] = 0
       /\ site' = [site EXCEPT ![s] = asked[r].project]
       /\ audit' = [audit EXCEPT !.built[s] = @ + 1]
  /\ UNCHANGED <<user, project, member, survey, measurement>>

\* The deletion takes the surveys of the site with it, and what they have.
DeleteSite(r) ==
  LET gone == {v \in Survey : survey[v].site = asked[r].site}
  IN  /\ Does(r, "delete_site")
      /\ site' = [site EXCEPT ![asked[r].site] = Nobody]
      /\ survey' = [v \in Survey |-> IF v \in gone THEN NoSurvey ELSE survey[v]]
      /\ measurement' = [m \in Measurement |-> IF measurement[m] \in gone THEN Nobody ELSE measurement[m]]
      /\ audit' = [audit EXCEPT !.razed[asked[r].site] = @ + 1]
      /\ UNCHANGED <<user, project, member>>

CreateSurvey(r) ==
  /\ Does(r, "create_survey")
  /\ \E v \in Survey :
       /\ survey[v] = NoSurvey
       /\ survey' = [survey EXCEPT ![v] = [project |-> asked[r].project, site |-> asked[r].site,
                                           creator |-> actor[r].id]]
  /\ UNCHANGED <<user, project, member, site, measurement, audit>>

CreateMeasurement(r) ==
  /\ Does(r, "measure")
  /\ \E m \in Measurement :
       measurement[m] = Nobody /\ measurement' = [measurement EXCEPT ![m] = asked[r].survey]
  /\ UNCHANGED <<user, project, member, site, survey, audit>>

\* Deleting a measurement that another request has deleted deletes nothing.
DeleteMeasurement(r) ==
  /\ Does(r, "remove_measurement")
  /\ measurement' = [measurement EXCEPT ![asked[r].measurement] = Nobody]
  /\ UNCHANGED <<user, project, member, site, survey, audit>>

---------------------------------------------------------------------------
(* update_local_user: first the check of ownership, then the row *)

CheckUser(r) ==
  /\ pc[r] = "looked" /\ asked[r].op = "change_user"
  /\ OwnershipPreserved(asked[r].user, asked[r].next)
  /\ pc' = [pc EXCEPT ![r] = "checked"]
  /\ UNCHANGED <<rows, asked, actor, seen, answer>>

RefuseUser(r) ==
  /\ pc[r] = "looked" /\ asked[r].op = "change_user"
  /\ ~ OwnershipPreserved(asked[r].user, asked[r].next)
  /\ Ends(r, "refused")

\* Only the fields that differ from the row it read are written.
ChangeUser(r) ==
  LET next == asked[r].next  old == seen[r].user
  IN  /\ pc[r] = "checked"
      /\ user' = [user EXCEPT ![asked[r].user] =
                    [role |-> IF next.role # old.role THEN next.role ELSE @.role,
                     active |-> IF next.active # old.active THEN next.active ELSE @.active]]
      /\ pc' = [pc EXCEPT ![r] = "done"]
      /\ answer' = [answer EXCEPT ![r] = "ok"]
      /\ UNCHANGED <<project, member, site, survey, measurement, audit, asked, actor, seen>>

---------------------------------------------------------------------------
Step(r) ==
  \/ Authenticate(r) \/ Look(r) \/ RefuseLook(r) \/ BreakLocked(r) \/ RefuseLocked(r)
  \/ CreateProject(r) \/ UpdateProject(r) \/ Transfer(r) \/ Archive(r)
  \/ AddMember(r) \/ AnswerAdd(r) \/ RemoveMember(r)
  \/ CreateSite(r) \/ DeleteSite(r) \/ CreateSurvey(r)
  \/ CreateMeasurement(r) \/ DeleteMeasurement(r)
  \/ CheckUser(r) \/ RefuseUser(r) \/ ChangeUser(r)

Next == \E r \in Request : Step(r)

Spec == Init /\ [][Next]_vars

---------------------------------------------------------------------------
(* What must hold *)

\* The rows of a project: its own, its members', its sites' and its surveys'.
Rows(p) == [row |-> project[p],
            members |-> [u \in User |-> member[<<p, u>>]],
            sites |-> {s \in Site : site[s] = p},
            surveys |-> {v \in Survey : survey[v].project = p}]

\* May whoever makes this request write rows of p, as things stand?
OwnsNow(r, p) ==
  \/ actor[r].role = "ADMINISTRATOR"
  \/ actor[r].role = "PROJECT_MANAGER" /\ project[p].manager = actor[r].id
  \/ /\ actor[r].role = "SURVEY_ENGINEER" /\ asked[r].op = "create_survey"
     /\ member[<<p, actor[r].id>>] # Nobody

\* A transfer, and the removal of a member, take effect at once
\* (docs/DEVELOPMENT_DECISIONS.md, "Project ownership transfer"): whatever
\* changes a project's rows is a request of someone who owns the project in
\* the state it changes, however its view found the project.  Only a
\* project that does not exist yet has no owner.
OwnerAccessIsCurrent ==
  [][\A p \in Project :
        (project[p] # NoProject /\ Rows(p)' # Rows(p))
          => \E r \in Request : pc'[r] # pc[r] /\ OwnsNow(r, p)]_vars

\* Nothing of an archived project is added, moved or removed, also by a
\* request that was let in before the project was archived, and no request
\* activates it again ("Project archive transition", "Archived-project site
\* changes").
ArchivedIsFrozen ==
  [][\A p \in Project :
        project[p].status = "archived" =>
          /\ project'[p].status = "archived"
          /\ Rows(p)'.members = Rows(p).members
          /\ Rows(p)'.sites = Rows(p).sites
          /\ Rows(p)'.surveys = Rows(p).surveys]_vars

\* The audit log tells the rows: what was added and not removed is there, and
\* an archived project was archived once ("exactly one PROJECT_ARCHIVED").
AuditTellsTheRows ==
  /\ \A pu \in Pair : audit.added[pu] = audit.removed[pu] + One(member[pu] # Nobody)
  /\ \A p \in Project : audit.archived[p] = One(project[p].status = "archived")
  /\ \A s \in Site : audit.built[s] = audit.razed[s] + One(site[s] # Nobody)

\* A survey's site is a site of the survey's project, and a measurement has
\* its survey, although sites, surveys and measurements are made and deleted
\* at the same time and a deleted site takes them along.
RowsHaveTheirParents ==
  /\ \A v \in Survey : survey[v] # NoSurvey =>
       /\ project[survey[v].project] # NoProject
       /\ site[survey[v].site] = survey[v].project
  /\ \A m \in Measurement : measurement[m] # Nobody => survey[measurement[m]] # NoSurvey

---------------------------------------------------------------------------
(* What the code, the documents and the tests say, and what is not so *)

\* access_control/services.py:270, "Transfer owned projects through the
\* existing project workflow before changing this user.": whoever manages a
\* project is an active project manager, as long as the tokens agree.  TLC refutes
\* this and the three that follow.
OwnersAreManagers ==
  \A p \in Project : project[p] # NoProject => MayManage(user[project[p].manager])

\* docs/DEVELOPMENT_DECISIONS.md:65, "keeping an archived project and its
\* related records frozen consistently": update_project does not look at the
\* status.
ArchivedRowIsFrozen ==
  [][\A p \in Project : project[p].status = "archived" => project'[p] = project[p]]_vars

\* projects/views.py:168 promises 201 for a member that was added: the answer
\* is looked up in a list read after the commit.
AddedMemberIsAnswered ==
  [][\A r \in Request : pc[r] = "answering" => answer'[r] # "error"]_vars

\* projects/services.py:530, "A project manager assignment is required.": a
\* transfer to null is refused with this, not a failure of the server.
NullManagerIsRefused ==
  \A r \in Request :
    asked[r].op = "transfer" /\ asked[r].user = Nobody => answer[r] # "error"
============================================================================

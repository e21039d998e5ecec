-------------------------- MODULE MCProjectAccess --------------------------
(* Small instances of ProjectAccess: an administrator, two managers and an *)
(* engineer; requests that ask for anything sensible about one or two      *)
(* projects.                                                               *)
EXTENDS ProjectAccess, FiniteSets, TLC

CONSTANTS admin, m1, m2, eng, p1, p2, s1, s2, v1, v2, x1

Accounts == [u \in User |->
               [role |-> CASE u = admin -> "ADMINISTRATOR"
                           [] u = eng -> "SURVEY_ENGINEER"
                           [] OTHER -> "PROJECT_MANAGER",
                active |-> TRUE]]

Asks(op, p, u, s, v, x, next) ==
  [op |-> op, project |-> p, user |-> u, site |-> s, survey |-> v, measurement |-> x, next |-> next]

Same == [role |-> "VIEWER", active |-> TRUE]

ProjectInputs ==
  {Asks(op, p1, Nobody, Nobody, Nobody, Nobody, Same) :
      op \in {"update_project", "archive", "create_site"}}
  \cup {Asks("create_project", Nobody, u, Nobody, Nobody, Nobody, Same) : u \in {m2, Nobody}}
  \cup {Asks("transfer", p1, u, Nobody, Nobody, Nobody, Same) : u \in {m2, Nobody}}
  \cup {Asks(op, p1, eng, Nobody, Nobody, Nobody, Same) : op \in {"add_member", "remove_member"}}

SurveyInputs ==
  {Asks(op, p, Nobody, s1, Nobody, Nobody, Same) :
      op \in {"update_site", "delete_site", "create_survey"}, p \in {p1, p2}}
  \cup {Asks(op, Nobody, Nobody, Nobody, v1, Nobody, Same) : op \in {"update_survey", "measure"}}
  \cup {Asks("remove_measurement", Nobody, Nobody, Nobody, v1, x1, Same)}

UserInputs ==
  {Asks("change_user", Nobody, m2, Nobody, Nobody, Nobody, next) :
      next \in {[role |-> "VIEWER", active |-> TRUE], [role |-> "PROJECT_MANAGER", active |-> FALSE]}}

AllInputs == ProjectInputs \cup SurveyInputs \cup UserInputs

Owners == (p1 :> m1) @@ (p2 :> Nobody)
Member1 == {<<p1, eng>>}
Ground1 == (s1 :> p1) @@ (s2 :> Nobody)
Flown1 == (v1 :> [project |-> p1, site |-> s1, creator |-> eng]) @@ (v2 :> NoSurvey)

RequestSymmetry == Permutations(Request)
=============================================================================

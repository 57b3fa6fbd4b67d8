-------------------------------- MODULE Access --------------------------------
(***************************************************************************)
(* Who may ask for what: the routes in the order api/router.py registers   *)
(* them, the one a path reaches, and the role its guard asks for           *)
(* (get_current_user, require_role), against accounts that change role or  *)
(* are deactivated while a request runs.                                   *)
(*                                                                         *)
(* The tests assert each router's tier once, not once per route            *)
(* (docs/adr/0025).  What a service refuses to the roles that get in (not  *)
(* your class, not your grade) is GradeViews' and Grades'.  The routes     *)
(* without a guard, login to logout and health, are not here.              *)
(***************************************************************************)
EXTENDS Sequences, Naturals

CONSTANTS
    Users,      \* accounts
    Requests    \* HTTP requests that can be under way at once

VARIABLES
    account,    \* users: role and is_active
    work        \* each request's route, and what its caller was meanwhile

vars == <<account, work>>

-----------------------------------------------------------------------------

Roles == {"super_admin", "admin", "teacher", "student"}

Admins == {"admin"}              \* _admin_only
Staff  == {"admin", "teacher"}   \* _can_manage, _admin_or_teacher
Anyone == Roles                  \* get_current_user

\* A path parameter, and a value that parses as one.
Id == "id"
Uuid == "uuid"

Route(method, path, allowed, does, about) ==
    [method |-> method, path |-> path, allowed |-> allowed, does |-> does, about |-> about]

Get(path, allowed, about)    == Route("GET", path, allowed, "read", about)
Post(path, allowed, about)   == Route("POST", path, allowed, "write", about)
Patch(path, allowed, about)  == Route("PATCH", path, allowed, "write", about)
Delete(path, allowed, about) == Route("DELETE", path, allowed, "write", about)

\* The five routes most routers have, in this order.
Crud(name, writers, about) ==
    <<Post(<<name>>, writers, about), Get(<<name>>, Anyone, about), Get(<<name, Id>>, Anyone, about),
      Patch(<<name, Id>>, writers, about), Delete(<<name, Id>>, writers, about)>>

-----------------------------------------------------------------------------

AuthRoutes == <<Get(<<"auth", "me">>, Anyone, "own record")>>

UserRoutes == <<
    Post(<<"users">>, Admins, "accounts"),
    Get(<<"users">>, Admins, "accounts"),
    Get(<<"users", Id>>, Admins, "accounts"),
    Patch(<<"users", Id>>, Admins, "accounts")>>

AuditRoutes == <<Get(<<"audit-log">>, {"super_admin"}, "audit")>>

StudentRoutes == <<
    Post(<<"students">>, Staff, "students"),
    Get(<<"students">>, Anyone, "students"),
    Get(<<"students", "me">>, Anyone, "own record"),
    Post(<<"students", Id, "credentials">>, Admins, "accounts"),
    Post(<<"students", Id, "profile-picture">>, Admins, "pictures"),
    Get(<<"students", Id>>, Anyone, "students"),
    Patch(<<"students", Id>>, Staff, "students"),
    Delete(<<"students", Id>>, Staff, "students")>>

\* Mutant: the literal paths come after /{teacher_id}.
TeachersByIdFirst == <<
    Post(<<"teachers">>, Admins, "staff"),
    Get(<<"teachers">>, Anyone, "staff"),
    Get(<<"teachers", Id>>, Anyone, "staff"),
    Patch(<<"teachers", Id>>, Admins, "staff"),
    Delete(<<"teachers", Id>>, Admins, "staff"),
    Get(<<"teachers", "me">>, Anyone, "own record"),
    Get(<<"teachers", "me", "classes">>, Anyone, "own record"),
    Post(<<"teachers", "me", "change-requests">>, Anyone, "proposals"),
    Get(<<"teachers", "change-requests">>, Admins, "change requests")>>

TeacherRoutes == <<
    Post(<<"teachers">>, Admins, "staff"),
    Get(<<"teachers">>, Anyone, "staff"),
    Get(<<"teachers", "me">>, Anyone, "own record"),
    Get(<<"teachers", "me", "classes">>, Anyone, "own record"),
    Post(<<"teachers", "me", "change-requests">>, Anyone, "proposals"),
    Get(<<"teachers", "change-requests">>, Admins, "change requests"),
    Patch(<<"teachers", "change-requests", Id, "approve">>, Admins, "staff"),
    Patch(<<"teachers", "change-requests", Id, "reject">>, Admins, "change requests"),
    Get(<<"teachers", Id>>, Anyone, "staff"),
    Patch(<<"teachers", Id>>, Admins, "staff"),
    Delete(<<"teachers", Id>>, Admins, "staff"),
    Post(<<"teachers", Id, "credentials">>, Admins, "accounts"),
    Post(<<"teachers", Id, "profile-picture">>, Admins, "pictures")>>

YearRoutes    == Crud("academic-years", Admins, "structure")
TermRoutes    == Crud("terms", Admins, "structure")
LevelRoutes   == Crud("grade-levels", Admins, "structure")
SubjectRoutes == Crud("subjects", Admins, "structure")
PeriodRoutes  == Crud("periods", Admins, "structure")

RosterRoutes == <<
    Get(<<"sections", Id, "students">>, Staff, "rosters"),
    Post(<<"sections", Id, "students", Id>>, Admins, "structure"),
    Delete(<<"sections", Id, "students", Id>>, Admins, "structure"),
    Post(<<"sections", Id, "classes", Id>>, Admins, "structure"),
    Delete(<<"sections", Id, "classes", Id>>, Admins, "structure")>>

SectionRoutes == Crud("sections", Admins, "structure") \o RosterRoutes

ClassRoutes == Crud("classes", Admins, "structure") \o <<Get(<<"classes", Id, "gradebook">>, Staff, "rosters")>>

EnrollmentRoutes == <<
    Post(<<"enrollments">>, Staff, "records"),
    Get(<<"enrollments">>, Anyone, "own records"),
    Get(<<"enrollments", Id>>, Anyone, "own records"),
    Patch(<<"enrollments", Id, "drop">>, Staff, "records")>>

TimetableRoutes == <<
    Get(<<"timetable", "me">>, Anyone, "own record"),
    Get(<<"timetable">>, Anyone, "structure"),
    Post(<<"timetable", "slots">>, Admins, "structure"),
    Delete(<<"timetable", "slots", Id>>, Admins, "structure")>>

AssessmentRoutes == Crud("assessments", Staff, "records")

GradeRoutes == <<
    Post(<<"grades">>, Staff, "records"),
    Get(<<"grades">>, Anyone, "own records"),
    Get(<<"grades", Id>>, Anyone, "own records"),
    Patch(<<"grades", Id>>, Staff, "records")>>

Routes ==
    AuthRoutes \o UserRoutes \o AuditRoutes \o StudentRoutes \o TeacherRoutes \o YearRoutes
      \o TermRoutes \o LevelRoutes \o SectionRoutes \o SubjectRoutes \o ClassRoutes
      \o EnrollmentRoutes \o PeriodRoutes \o TimetableRoutes \o AssessmentRoutes \o GradeRoutes

-----------------------------------------------------------------------------

Path(k) == [i \in DOMAIN Routes[k].path |-> IF Routes[k].path[i] = Id THEN Uuid ELSE Routes[k].path[i]]

Fits(method, path, k) ==
    /\ Routes[k].method = method
    /\ Len(Routes[k].path) = Len(path)
    /\ \A i \in DOMAIN path : Routes[k].path[i] \in {Id, path[i]}

\* Routes are tried in the order of registration.
Reached(method, path) ==
    CHOOSE k \in DOMAIN Routes :
        Fits(method, path, k) /\ \A j \in 1..(k - 1) : ~Fits(method, path, j)

\* get_current_user's look at is_active, and require_role's.
Passes(u, allowed) ==
    account[u].active /\ (account[u].role = "super_admin" \/ account[u].role \in allowed)

-----------------------------------------------------------------------------

\* The roles an account has, active.
Now(row) == IF row.active THEN {row.role} ELSE {}

\* asked: the route whose path and method were sent.  got: the one reached.
\* held: the roles the caller has been active in since.
Idle == [pc |-> "idle"]
Work == {Idle} \cup [pc: {"admitted", "done"}, by: Users, asked: DOMAIN Routes, got: DOMAIN Routes,
                     held: SUBSET Roles]

TypeOK ==
    /\ account \in [Users -> [role: Roles, active: BOOLEAN]]
    /\ work \in [Requests -> Work]

\* The caller's row is read once, when the guard runs.
Admit(r, u, k) ==
    LET got == Reached(Routes[k].method, Path(k))
    IN  /\ work[r] = Idle
        /\ Passes(u, Routes[got].allowed)
        /\ work' = [work EXCEPT ![r] = [pc |-> "admitted", by |-> u, asked |-> k, got |-> got,
                                        held |-> Now(account[u])]]
        /\ UNCHANGED account

\* The handler commits, or reads, and answers.
Serve(r) ==
    /\ work[r].pc = "admitted"
    /\ work' = [work EXCEPT ![r].pc = "done"]
    /\ UNCHANGED account

Leave(r) ==
    /\ work[r] # Idle
    /\ work' = [work EXCEPT ![r] = Idle]
    /\ UNCHANGED account

\* UserService.update; UserAdmin has its conditions.
ChangeAccount(u, row) ==
    /\ account' = [account EXCEPT ![u] = row]
    /\ work' = [r \in Requests |->
                    IF work[r].pc = "admitted" /\ work[r].by = u
                      THEN [work[r] EXCEPT !.held = @ \cup Now(row)] ELSE work[r]]

Init ==
    /\ account \in [Users -> [role: Roles, active: {TRUE}]]
    /\ work = [r \in Requests |-> Idle]

Next ==
    \/ \E r \in Requests :
          Serve(r) \/ Leave(r) \/ \E u \in Users, k \in DOMAIN Routes : Admit(r, u, k)
    \/ \E u \in Users, row \in [role: Roles, active: BOOLEAN] : ChangeAccount(u, row)

Spec == Init /\ [][Next]_vars

-----------------------------------------------------------------------------
(* What must hold.                                                         *)

\* The tiers of docs/adr/0010 to 0026, by what a request is about.
MayWrite(about) ==
    CASE about \in {"accounts", "staff", "change requests", "pictures", "structure"} -> {"super_admin", "admin"}
      [] about \in {"students", "records"} -> {"super_admin", "admin", "teacher"}
      [] about = "proposals" -> Roles

MayRead(about) ==
    CASE about = "audit" -> {"super_admin"}
      [] about \in {"accounts", "change requests"} -> {"super_admin", "admin"}
      [] about = "rosters" -> {"super_admin", "admin", "teacher"}
      [] OTHER -> Roles

\* A request that was served was its caller's to make at some time since it
\* was admitted: a demotion or a deactivation is seen by every request that
\* starts later, and no path gets past the tier of what it changes or shows.
TiersHold ==
    \A r \in Requests :
        work[r].pc = "done" =>
            LET route == Routes[work[r].got]
            IN  work[r].held \cap (IF route.does = "write" THEN MayWrite(route.about) ELSE MayRead(route.about)) # {}

\* A path reaches the route that was registered for it: no {id} registered
\* before swallows a literal ("me", "change-requests", "slots").
EveryRouteReached == \A r \in Requests : work[r] # Idle => work[r].got = work[r].asked

\* The right route, and the right to it.
AccessHolds == TiersHold /\ EveryRouteReached
=============================================================================

# TLA+ for the student management system

The program is a FastAPI service over PostgreSQL (`src/src/sms`): some twenty tables,
one service class per domain, and many places where two requests, each correct alone,
can break what the school relies on. Those places are what this directory models and
checks with TLC. For every size of the school and every number of concurrent requests it
also proves it with TLAPS: every invariant, action property and refinement of the passing
runs, so that liveness alone is left to TLC. Of each statement that a run refutes it
proves what has to happen for it to fail.

Paths below are relative to `src/`; `domains/` stands for `src/sms/domains/`.

## The system

Every HTTP request gets one `AsyncSession` (`src/sms/db/session.py`), and so one
transaction under READ COMMITTED, ended by the repository's `commit`, by `rollback`, or
by the session being closed. The services hold no state of their own: everything lives
in tables, except profile pictures (files), the rate limiter's counters (a library) and
the refresh tokens clients hold. So requests interact only through rows, row locks,
unique constraints and foreign keys, and the hard behaviours are all of these kinds:

- two requests interleaved between their statements (each `await` on the database is a
  point where another request may commit);
- a row read without a lock, used for a decision, and changed meanwhile;
- row locks taken in different orders, and waits inside INSERTs (unique keys, foreign
  keys);
- a request that writes twice in two transactions, or dies before its commit;
- rows whose meaning depends on columns other requests may PATCH.

| component | state | operations that change it | what makes it correct |
|---|---|---|---|
| sections, assignments (`domains/sections`) | `sections`, `section_assignments`, `grade_levels` | assign, unassign, attach_class, detach_class, create/update/delete | rosters within capacity; one section per student and year; everyone on a roster enrolled in every attached class |
| enrollments (`domains/enrollments`) | `enrollments` | enroll, drop, the fan-outs of the above | class capacity for individual enrollments; one row per student and class |
| classes, subjects (`domains/classes`) | `classes`, `subjects` | create/update/delete | an attached class stays in its section's academic year |
| users, audit (`domains/users`, `domains/audit`) | `users`, `audit_logs` | create, update | an active super admin is always left; a change and its entry commit together |
| sessions (`domains/auth`) | `sessions`, clients' tokens | login, login_with_pin, refresh, logout | a token is exchanged once; revocation and expiry are final |
| students (`domains/students`) | `students`, link to `users`, PIN | create/update/delete, generate_pin, upload | a PIN opens the student's own account only |
| teachers (`domains/teachers`) | `teachers`, link to `users` | create/update/delete, generate_credentials, upload | as above; what is handed out logs in |
| change requests (`domains/teachers`) | `teacher_change_requests` | create, approve, reject | one pending per teacher; approved exactly if applied |
| academic years, terms (`domains/academic_years`) | two tables | create/update/delete | a term lies in its year |
| assessments, grades (`domains/assessments`) | two tables | create/update/delete | a grade is of an active student of the class, at most the maximum |
| timetable (`domains/timetable`) | `periods`, `schedule_slots` | slots: create, delete; periods: create, update, delete | no teacher, room or section in two places at once |
| pictures (`src/sms/core/file_storage.py`) | files and a column | upload, delete | the column names a whole file that exists |
| read views (`domains/assessments`, `domains/enrollments`) | none | get, list, gradebook | they show every caller the same rows |
| routers and guards (`src/sms/api`, `domains/auth/dependencies.py`) | the accounts they look at | a request's admission | a path reaches its route; a tier is asked of everyone |
| demo data (`src/sms/scripts`) | all tables | a fixed list of service calls | one run seeds the school, and nothing it does is refused |

Schemas, logging, configuration and pagination change no state. `PROJECT.json` lists
every component with its status, and every hazard at its line.

## The modules

| module | what it is |
|---|---|
| `Roster` | sections, assignments, attachment, enrollment and the class columns they depend on |
| `RosterPromise` | the abstract specification of the same: every request is one atomic step |
| `RosterInvariant` | the inductive invariant of `Roster` and the guarantee each step gives the other requests |
| `RosterProofs` | the theorems about `Roster` |
| `UserAdmin` | accounts, the last-super-admin guard, the audit trail |
| `UserAdminInvariant`, `UserAdminProofs` | its inductive invariant and theorems |
| `AuthSessions` | sessions and refresh tokens; its inductive invariant stands at the end of the module |
| `AuthSessionsProofs` | its theorems |
| `Timetable`, `TimetableProofs` | slots of the weekly timetable against what changes the classes they hold; its theorems |
| `ChangeRequests`, `ChangeRequestsProofs` | a teacher's requests to change their own record, with the direct PATCH; its theorems |
| `Credentials`, `CredentialsProofs` | students and teachers and the accounts they log in with; its theorems |
| `Grades`, `GradesProofs` | assessments and grades, written; its theorems |
| `GradeViews` | the same, read: get and list of three kinds of rows, and the gradebook |
| `AcademicCalendar` | the dates of years and terms |
| `BellSchedule` | the periods of the day, their constraints and the errors these become |
| `Catalogue` | years, terms, grade levels, sections, subjects and classes: the unique keys and foreign keys between them |
| `KeyTable` | the abstract specification of a table with unique columns, which `ChangeRequests`, `Grades` and `Catalogue` implement |
| `Access` | routes in the order they are registered, and their guards |
| `PictureStore` | one record's profile picture: files, renames and the column |
| `SeedDemo` | the demo data script, dying and run again |
| `MCRoster`, `MCUserAdmin`, `MCAuthSessions`, `MCTimetable` | instances of single modules for TLC |
| `Records` | the modules from `ChangeRequests` to `SeedDemo`, side by side |
| `RecordsProofs` | the theorems about `Records`, with the lemmas for the six modules that have no proof module of their own |
| `MCRecords` | a small instance of `Records` for TLC |

The models of services share one shape. The tables are variables holding *committed*
rows. `req[r]` is the open transaction of request `r`: where it stands (`pc`, named
after what it has just done), what it has read and keeps in local variables, and what it
has flushed and not committed. An action is the work between two statements that another
transaction can come between. A commit publishes the flushed rows and gives the locks
back in one step; `Abort` ends a transaction anywhere without a trace, which stands for
every failure before the commit: a crash, a lost connection, an error response, a
deadlock PostgreSQL breaks.

The modules `Records` instantiates lock nothing between a check and the write it
allows, as the code does not, and keep less: `work[r]` is what request `r` has read and
decided, a write and its commit are one step (an UPDATE or INSERT that has to wait for
another transaction's row or key goes on when that one has ended, and then meets the
tables as they are), and a refusal is `Abort`, like any other end without a write.
`past` is a history variable. No guard reads it, except that ids are never given twice,
so that a create takes one `past` has not seen; properties name their exceptions with
it. The variants called *Mutant* in the comments are not part of any specification: each
is a definition changed the way a plausible bug would change it, and `PROJECT.json`
names the property that must then fail.

### Roster

| code | actions |
|---|---|
| `SectionAssignmentService.assign` | `AssignLock` (FOR UPDATE of the section), `AssignCheck`, `AssignInsert` (unique index on student and year), `AssignListClasses`, then per class `FanOutLook`, `FanOutInsert` (unique key in), `FanOutShare` (foreign-key check done), then `AssignCommit` |
| `unassign` | `Unassign` |
| `SectionService.attach_class` | `AttachLockSection`, `AttachLockClass` (with the checks that follow), `AttachListRoster`, the same fan-out per student, `AttachCommit` |
| `detach_class` | `DetachLock`, `DetachCommit` |
| `EnrollmentService.enroll`, `drop` | `EnrollLock`, `EnrollCheck`, `EnrollCommit`; `Drop` |
| `SectionService.update`, `ClassService.update` | `PatchSectionCapacity`, `PatchClassCapacity`, `PatchTermRead`, `PatchTermCommit` |

`sectionLock` and `classLock` are the holders of FOR UPDATE. The FOR KEY SHARE lock that
an inserted enrollment takes on its class row follows from the rows flushed
(`SharesKey`), so that a lock of the class waits for it. An INSERT whose unique key
another open transaction has entered waits for it; if that one commits, the INSERT fails
and its request rolls back. Otherwise the key is in (`FanOutInsert`: `cur` joins `rows`),
where others wait for it, before the foreign-key check waits for the class
(`FanOutShare`). An enroll has its class locked, so that `EnrollCommit` has only the
first wait. `WaitsFor(r, q)` says which request's end the next statement
of `r` waits for, and that statement's guard is `Granted(r)`: nobody's. Only a
transaction's first lock (`SectionFree`, `ClassFree`) is asked for before the request
counts as under way: it holds nothing yet that others could wait for.

`drop` and the capacity updates are one step each because what they write does not
depend on what they read, beyond a test the UPDATE's own row carries. The set of
sections and classes, the years of sections and terms are constants: no schema can
change the latter two, and creation adds rows nothing refers to.

### UserAdmin

`Authenticate` reads the actor's row and keeps it: `get_db` is cached per request, so
the guard and the service share one session and one identity map, and an actor updating
their own account decides on the row as authenticated. `create` is `CreateCheck`,
`CreateFlush`, `Commit`; `update` is `UpdateRead`, `CountStart`, `CountRow` once per
row, `CountEnd` (only if the row as read loses the status of active super admin),
`UpdateFlush`, `Commit`. FOR UPDATE under READ COMMITTED takes its rows from the
statement's snapshot and looks at each one again once it has the lock; the model does
exactly this, row by row, in any order. `Changed` is what SQLAlchemy's unit of work
writes: only columns that differ from the loaded row. The audit entry commits with the
change; `logged` keeps the last one.

### AuthSessions

`login` and `login_with_pin` are `Login`, `IssueSession`; `refresh` is `RefreshRead`,
`RefreshUser`, `Rotate`; `logout` is `LogoutRead`, `LogoutCommit`. `Present` brings a
token the server once gave, at any time and as often as it likes: it stands for retries,
duplicated and delayed requests and copies of a token in other hands. Answers are
collected in `sent`; one that is lost is one nobody presents. `Tick` moves the clock,
`SetActive` the account's `is_active`. Only right credentials are modelled. Hashes are
compared where the code compares them, as the tokens themselves. The UPDATEs of rotate
and logout are one step with the commit that follows: the row stays locked between the
two. The answers "logout" and "nothing_to_log_out" are both a plain 204 to the client;
they differ so that properties can speak of them.

### Timetable

| code | actions |
|---|---|
| `ScheduleSlotService.create` | `CreateLockClass`, `CreateLockPeriod` (FOR UPDATE), `CreateCheckOwn`, `CreateList` (`list_by_day_and_period`), `CreateLook` per competing class, then `CreateRefuse` or `CreateCommit` |
| `delete` | `DeleteSlot` |
| `attach_class`, `detach_class` | `AttachLock`, `AttachCommit`; `Detach` |
| `ClassService.update` | `PatchTeacher`, `PatchRoom` |

The three conflict rules read `teacher_id`, `room` and `section_id` of the classes, so
`class` holds these columns and the module has everything that writes them. `Roster` has
the rest of attach_class. `others` keeps the rows of the competing classes as they were
read, in any order: the rules are applied to these, and not to the tables. `changed` is
a history variable: the slots whose class was attached or given another teacher or room
after they were inserted. Which rule fires first changes only the error. `WaitsFor` and
`Granted` are as in `Roster`; only create asks for a second lock. The periods are
constants: creating and changing them is `BellSchedule`'s.

### ChangeRequests

| code | actions |
|---|---|
| `TeacherChangeRequestService.create` | `CreateCheck` (no pending one), `CreateCommit` (partial unique index) |
| `approve` | `ApproveRead`, `ApproveUpdate` (the read of `TeacherService.update`), `UpdateCheck`, `UpdateCommit` (first commit), `ApproveCommit` (second) |
| `reject` | `RejectRead`, `RejectCommit` |
| `TeacherService.update` (PATCH) | `PatchRead`, `UpdateCheck`, `UpdateCommit` |
| `TeacherService.delete` | `DeleteTeacher`, with the cascade to the requests |

An UPDATE writes the columns that differ from the row as loaded (`Changed`), over
whatever the row holds by then. `past[c]` says that a change has been `applied`, that
its approve ended between the two commits (`cut`), that a reject wrote over an approval
(`overruled`).

### Credentials

`create` and `update` of both services are `CreateCheck`, `CreateCommit` and
`UpdateCheck`, `UpdateCommit`; `generate_pin` and `generate_credentials` are
`GenerateRead`, then `GenerateCheck` and `GenerateAccount` (account and link in one
transaction) if there is no account; a student's PIN is `GeneratePin`, a second
transaction; a teacher's reset is `ResetRead`, `ResetCommit`. `CreateAccount` and
`SetRole` are `UserService`'s, reduced to what meets these. Students and teachers are
treated alike but for those two ends, so one variable `person` holds both tables
(`SameTable` keeps their constraints apart).

### Grades and GradeViews

| code | actions |
|---|---|
| `GradeService.create` | `GradeRead`, `GradeOwned`, `GradeCheck`, `GradeCommit` |
| `GradeService.update` | `RegradeRead`, `RegradeCheck`, `RegradeCommit` |
| `AssessmentService.create`, `update`, `delete` | `CreateCheck`, `CreateCommit`; `EditRead`, `EditCheck`, `EditCommit`; `DeleteRead`, `DeleteCommit` |
| `ClassService.update`, `enroll`, `drop` | `Reassign`, `Enroll`, `Drop` |

The order of the reads is the code's: the maximum is kept from the first read, the
class's teacher is read after it, the enrollment last. `GradeViews` extends `Grades`
with what each view answers in one committed state, for callers of every role with and
without a record.

### AcademicCalendar, BellSchedule, Catalogue

`AcademicCalendar` has the dates, `Catalogue` the names and references of the same rows.
A year's update is `YearRead`, `YearCommit`; a term's is `TermRead`, `TermCheck`,
`TermCommit`; creation is `CreateYear` and `CreateTermCheck`, `CreateTerm`;
the deletions are `DeleteYear`, `DeleteTerm`. `BellSchedule` keeps the error a refused
request is answered with (`Translate` is `_translate_period_integrity_error`, and
`NameOnOrig` what the drivers under it leave of a constraint's name: nothing), so that
what a refusal says can be held against what caused it.
In `Catalogue` every create and update is a look (`Create`, `Update`) and a `Commit`
under the unique and foreign keys, for seven kinds of rows; `Delete` is RESTRICT, but
for a year's terms (CASCADE) and a section's homeroom teacher (SET NULL).

### Access, PictureStore, SeedDemo

`Access` lists the guarded routes in the order `api/router.py` registers them; `Reached`
is the first that fits a path, as Starlette has it. `Admit` is the guard, `Serve` the
service's end, `ChangeAccount` what an admin does meanwhile. In `PictureStore` the
server is one process, so what lies between two awaits is one step: an upload is `Open`,
`Write`, `Publish`, then the column; a file's bytes are the chunks and the upload that
wrote each, and a name and an open handle both keep an inode. `SeedDemo` builds the
script's calls with its own loops (`Script`) and runs them against the rules of the
services that could refuse one. `After[n]` is what the first `n` calls leave on an empty
database, and `RunsAlone` says that none of these calls is refused there.

### Records

`part` is chosen in the initial state and never changes. It says which of eleven parts a
behaviour is of, each an instance of one of the modules above: `changes`
(`ChangeRequests`), `pins` and `passwords` (`Credentials`, for students and for
teachers), `scores` and `moves` (`Grades` with `GradeViews`), `bells` (`BellSchedule`),
`calendar` (`AcademicCalendar`), `rows` (`Catalogue`), `access` (`Access`), `pictures`
(`PictureStore`), `seed` (`SeedDemo`). The tables of the other parts stay empty, so that
the states are the sum of the parts' and not their product. Where two modules are about
one table of the code, each has the columns its own rules read and, as actions of its
own, the other services' writes to them (`Reassign`, `SetRole`, `PatchRead`).

## What the runs check

| run | instance | shows |
|---|---|---|
| `roster_all` | 2 students, 2 sections of two years, 1 class, 2 terms, 2 requests, all operations | `TypeOK`; `SeatsRespected`, `EnrollWithinCapacity`; `KeepsPromise`: `Roster` implements `RosterPromise`; `OnlyKnownCircles`; `Inductive`, `StepsKeepOut`, what the proofs rest on |
| `roster_rosters` | 1 student, 2 sections of one year, 2 classes, 2 requests, all but the PATCHes, under `FairSpec` | `RosterEnrolled`, `OneSectionPerYear`, `EveryRequestEnds` |
| `roster_term` (violation) | 1 section, 1 class, 2 terms | a PATCH of the term overtaken by attach_class |
| `roster_stack` (violation) | 2 sections, 1 class, 1 request | rosters stacked by detach and attach |
| `users_demote` | 3 accounts, 2 requests, demotions, promotions to admin, creation of super admins | `TypeOK`, `SuperAdminRemains`, `TierChangedBySuperAdmin`, `EveryChangeAudited`, `SafeInv` |
| `users_promote` (violation) | 2 accounts, 3 requests, promotions too | the last super admin deactivated past the guard |
| `auth_all` | 2 sessions, 3 tokens, 2 requests, clock to twice the lifetime | `TypeOK`, `ExchangedOnce`, `RevokedForGood`, `LogoutEndsSession`, `AbsoluteExpiry`, `Inductive` |
| `auth_logout` (violation) | 1 session, 2 requests | a logout that ends nothing |
| `timetable_all` | 3 classes, 1 time, 3 requests, all operations | `TypeOK`, `NoDoubleBooking`, `ConflictsOnlyUnseen`, `NoDeadlock`, `Inductive` |
| `timetable_attach` (violation) | 2 classes, 2 requests | one section in two places, by attach_class |
| `records_all` | the eleven parts of `Records`, all operations of each | the fourteen properties below |
| `records_reviewed` (violation) | `ChangeRequests`: 2 teachers, 2 change requests, 2 requests | a request that was approved is rejected afterwards |

`MCRecords` gives each part its sets; its state space has about 680 000 states. The
properties each speak of the parts they are about:

| property | parts | says |
|---|---|---|
| `TypeOK` | all | types, and that a grade keeps its assessment and a link its account |
| `ReviewsAreSound` | changes | one open request a teacher; approved only if applied; applied but not approved only after a cut or an overruling reject |
| `AccountsAreSound` | pins, passwords | linked accounts have the record's role; an account made for a record is linked to it and gets its PIN; the e-mail handed out logs in; each but for the histories it names |
| `GradesAreJust`, `TeachersWriteAtHome` | scores, moves | a score's maximum and enrollment outlive the check; a teacher's writes land, when they are committed, in classes that teacher has had, unless the assessment was moved since it was read |
| `ViewsAgree` | scores, moves | lists, gets and gradebooks show every caller the same |
| `PeriodsAreSound`, `RefusalsHaveCause` | bells | no moment in two periods, a scheduled period stays; a row that was checked is refused only on account of another row or another update |
| `CalendarHolds` | calendar | dates in order, terms in their years unless those were shortened |
| `CatalogueHolds` | rows | references hold; a delete takes its own row, or a year and its terms |
| `UniqueKeysHold` | changes, scores, moves, rows | refinement: e-mails, grades and the catalogue's unique columns are each a `KeyTable` |
| `AccessHolds` | access | every served request reached the route it named, and its caller had the tier at some time since it was admitted |
| `PicturesHold` | pictures | a served picture is one upload's, and is there |
| `SeedsOnce` | seed | whatever dies or runs at once, one run alone writes; it is refused nothing |

The bounds. Every conflict in this code is between two requests, or two and the one that
both wait for; two requests show every pairwise interleaving, the three of
`timetable_all` chains of waits. In `roster_all` two students and capacities 1 and 2
give a free seat, the last seat and a full section; two sections that share a class or a
year give every way rosters overlap. `roster_rosters` has one student, whom all requests
are about: its two invariants and the waits for a unique key are about one student's
rows, and `roster_all` and the theorems have more. Two classes are needed for a fan-out
in the middle of which something happens and for a lock on one class while another is
waited for; no operation relates three. In `UserAdmin` three accounts are the least at
which two demotions can each leave "another" admin that the other takes away. In
`AuthSessions` three tokens are a login and two rotations, enough for a token that is
two exchanges old. In `Timetable` three classes are one being scheduled and two
competing ones, of which one is read while the other changes; two teachers, one room and
one section make every rule fire and not fire. Slots at other times do not count by
`At`, and locks of other periods are not waited for; the proofs are for all days and
periods.

In `MCRecords` two requests run in every part but `access`, where one meets the changes
of its caller's account. Two change requests are one open and one reviewed, or two
creates at once; three e-mails are a teacher's old one, a new one and another teacher's.
Two accounts and two e-mails give a record that is relinked and one renamed under a
generate. `scores` has a teacher and two maxima for one class, `moves` two classes of
two teachers to move an assessment between. Three moments are two periods that touch or
overlap, and a term inside, at the edge of and outside its year. In `rows` the ids that
have been used before are any set (`Catalogue`'s `Init`), and `MCSpec` keeps those
initial states in which one of the sets of `Shares` is left: a row of each table that a
class needs and a second teacher, a section and its homeroom teacher, two sections of a
level, two terms, two levels. Two chunks and two extensions are a file half written and
an upload of another type; two inodes are a published file and the one that replaces it,
or two being written. `SeedDemo` has the script's own sizes (4 subjects, 2 sections, 6
students, capacity 30) and two runs. Ids are never given twice, and creates end when
they are used up; `Bodies`, `Inodes` and these sets are the only bounds. Bodies name
their required columns: a null there is refused by the schemas or by NOT NULL and writes
nothing.

In the other runs `MaxCapacity`, `MaxTime`, `Lifetime`, `CreateRoles`, `UpdateRoles`,
`UpdateStatus` and `Ops` are the only bounds besides the sets. `STUDENT` is left out of
the roles: update treats it as it treats `TEACHER`. Students, accounts, sessions, tokens
and requests are interchangeable (SYMMETRY in the safety runs only).

Deadlock. TLC's deadlock check is on in every run but those of `MCRecords`, where a part
stops when its ids are used up or its script has ended, and where nothing waits: no
request holds a lock between two steps. In `Roster` and `Timetable` something can always
happen (a request may always abort), so waits in a circle are invariants of their own,
which speak of `WaitsFor`, what the guards ask. `Timetable`'s `NoDeadlock`: of any set of
requests, one waits for none of them. In `Roster` that is false, for an INSERT waits
twice: for a transaction that has entered its unique key, and then, with its own key in,
for the class row its foreign key names. So its invariant names the circles there are
(`OnlyKnownCircles`), and `roster_all` reaches both:

- `EnrollMeetsFanOut`: an enroll has the class locked and has looked for an existing
  row; an assignment's fan-out enters that very enrollment and waits for the class; the
  enroll's INSERT waits for the key. Nothing rare is needed but the timing.
- `YearsCross`: two fan-outs of one student in two years, to sections whose classes were
  detached, moved to the other year and attached again, want the same enrollments, in
  opposite orders or with an attach_class in between.

PostgreSQL aborts a request of a circle, whose caller gets a 500.

Fairness. `FairSpec` asks strong fairness of `Continue(r)` for each request and weak
fairness of the deadlock detector: that of requests which wait in a circle (`InCircle`)
one is aborted. No other abort is forced, nor is a start. A coroutine that can go on is
scheduled, which gives weak fairness; where it waits for a row lock PostgreSQL queues
the waiters, so a lock released again and again is granted in the end, which is strong
fairness; and the detector runs whenever a wait lasts longer than `deadlock_timeout`. A
first lock not yet granted leaves the request idle in the model: `EveryRequestEnds`
speaks of requests that have it. It makes sure that nothing else holds a request up;
`roster_rosters` has the circle of an enroll and an assignment in it, and without the
detector the two would wait for ever.

## What is proved

TLAPS checks every theorem from the ASSUMEs of the modules: finite sets of students and
accounts, capacities that are numbers, `None` distinct from everything; and in `Records`
four that its instances' code justifies: bodies are of their schema (`BodiesAssumption`),
moments, dates and scores are numbers (`NumbersAssumption`), an id is one table's
(`IdsAssumption`), and no call of the seed script is refused on an empty database
(`ScriptAssumption`). The last one has no free constant: it is a computation over the
script's own 71 calls, TLC evaluates it on every run of `MCRecords`, and it fails
if, say, two sections are given one teacher in one period. In a proof module of a single
component such an assumption is the theorem's own hypothesis (`Bodies \subseteq
Proposal`, `Scores \subseteq Nat`). `CredentialsProofs` has none. No theorem bounds the
number of requests.

**Roster.** `Inductive` gives each request an `Assertion` about its own transaction:
which locks its position means it holds, that its flushed rows are in no table, that its
fan-out has dealt with every pair the commit needs or still has it in `todo`, and that
what it checked under a lock still holds. An assertion about `r` must survive the steps
of every other request, and there are too many pairs of actions to look at one by one.
So `Guarantee(q)` states what a step of `q` may do to the rest (locked rows stay,
rosters of locked sections only shrink, flushed keys stay free), every action is shown
to give it once (`OthersKeepOut`, `KeepingOut`), and each part of the assertion is shown
stable under it once. `RosterEnrolled` is not inductive alone: assign and attach_class
derive enrollments from each other's table, and only the coverage of a running fan-out,
under the section's lock, says nobody is missed. From `Inductive` follow
`RosterAlwaysEnrolled`, `OneSectionAlways`, `SeatsAlwaysRespected`,
`EnrollAlwaysWithinCapacity` and `Refinement`: each step of `Roster` is a step of
`RosterPromise` (at the commit) or a stutter. `RosterPromise` says openly where
atomicity is not quite what the code gives: a fan-out may also reach a class that left
the section, or a student who left the roster, while the request ran.

*Waits.* `CirclesAreKnown` shows, of any requests among which no enroll meets a fan-out
and no years cross, which one waits for none of the others. If one holds a class, it
does: the fan-out of attach_class inserts into the class it has locked, where only an
assignment may have entered its key, and not one of the same year (`AttachFanOutWaits`);
an enroll meets with whoever it waits for (`EnrollWaits`). If none holds a class, an
assignment that has flushed its row waits for nobody in the set, because another such
assignment is of another student or another year, and so inserts other pairs
(`FlushedWaits`). Nobody waits for anyone else (`OnlyHoldersWaitedFor`). That an
attach_class and an assignment of one year never want the same enrollment is an
invariant of its own (`HandsApart`): attach_class has the section locked when it lists
the roster, and an assignment not yet committed is not on it. So `CirclesAlwaysKnown`
holds of every instance. A fan-out stays within its section's year (`YearsAgree`) unless
a PATCH of `term_id` moves a class: under `YearsStay` the enroll's circle is the only one
(`OnlyEnrollsCircleWhileYearsStay`), which `OnlyEnrollsCircleWithoutYearMoves` proves of
every instance without term changes or with terms of one year. That a lock has a holder
under way who has asked for it (`LocksOwned`, in `Inductive`) is what makes the waits end
with their requests.

**UserAdmin.** `SafeInvariant` holds of every instance. What a request has counted it
has locked, and a locked row does not change; a flushed change is alone on its row, and
has been refreshed from it. That gives `ChangesAreAudited` for every instance.
`SuperAdminAlwaysRemains` carries the hypothesis `OnlyDemotions` (no PATCH promotes or
reactivates): then a row never rises to active super admin after it was read, so the
guard is called whenever it must be, and the request that takes one away holds the lock
of another. Without the hypothesis the statement is false, as `users_promote` shows.
`TierIsSuperAdmins` is the action property `TierChangedBySuperAdmin`, of every instance.
An update changes the row some time after it looked at it; `TierGuarded` carries what was
seen: whoever goes on without being a super admin has seen an account outside the tier
and asks for no role of it. So if the account is in the tier when the change commits, it
was promoted in between (`PromotedSince`), and that is the only way.

**AuthSessions.** `Inductive` says that a token is given once and for one session, that
a spent token is no session's, that a request past its checks brings a token that was
once given for the session it read, and how long rows live. `TokensExchangedOnce`,
`LogoutEnds` and `ExpiryIsAbsolute` follow; `RevocationIsFinal` is the action property,
from the guard of `Rotate` and from `IssueSession` taking a new row.

**Timetable.** `Inductive` says which row locks a position in `create` means, that the
class as read is the class as it is (its lock keeps it), that every slot at the time
asked for belongs to a class read or still to be read (the period's lock lets nobody
else insert there), and that what was read of a competitor still holds, but for a
section it may have lost, unless its slots have been marked in `changed`: the history
variable with the slots whose class was attached or got another teacher or room after
they were inserted. `NeverDoubleBooked` follows: a double booking always has such a
slot, and never comes from two requests that schedule at once. `OnlyTheUnseenConflicts`
looks at the insert itself: a slot that conflicts when it is inserted does so with a
class that changed after the request had read it. `NeverDeadlocked` follows from
`LocksOwned`: whoever waits holds a class and waits for a period, and whoever holds a
period has all its locks.

**ChangeRequests, Credentials, Grades, AcademicCalendar.** The four proofs (that of
`AcademicCalendar` is a section of `RecordsProofs`) have one plan. `Sound(w)` says what
a request that stands at `w.pc` may rely on of what it has read: that its change is
applied, that the account it would link has the record's role, that the assessment's
class and maximum are as read, each unless `past` has the event that undid it.
`Inductive` is `TypeOK`, `Sound` of every request, a few facts about rows and history,
and the property. Steps that only read are one lemma (`ReadsInv`). Where a write can
disturb what many others have read (`CredentialsProofs`, `GradesProofs`), `Grows` says
what any write leaves of such rows: every write is shown to satisfy it once, `Sound` is
shown to survive it once (`SoundGrows`), and no pair of requests is looked at. The
properties are not inductive alone:

- *approved only if applied* needs that an approve past its first commit has applied its
  change and that what is not yet a change request has no history;
- *an account made for a record is linked to it* needs that such an account has the
  record's e-mail until the record is renamed, for it is the taken e-mail that stops a
  second `generate_pin` that had read the record without an account;
- *a score within its maximum* needs that a request's copy of the maximum is no higher
  than the row's, unless `lowered`;
- *a teacher's writes land at home* (`TeachersAlwaysAtHome`) is about the class the
  assessment has when the write commits, not the one that was checked: `StillIn` says of
  every request that the two are one, unless `moved`;
- *a term within its year* needs that the ends an update sets lie in the year from the
  check to the write, unless the year was shortened. Of the end it read and does not set
  nothing has to hold: that one lies in the year by the property itself, and the order
  of the two is the CHECK constraint's.

**GradeViews.** `ViewsAgree` compares the answers of get, of two lists and of the
gradebook for every caller in one state. It rests on more than the views: that a
gradebook shows one score for a student and an assessment needs `OneGradeEach`, which is
an invariant of `Grades` (the unique constraint's, through `GradeTable`); that a list
shows a caller what get shows needs `TypeOK`, for a grade has its assessment.
`ListsAlwaysAgree` and `GradebooksAgree` prove the two halves.

**Records.** `RecordsProofs` has a section for each of the other modules, and then
`Inductive`: the conjunction of the parts' inductive invariants, which `InitInv` and
`StepInv` derive part by part, a step of one being a step of its module or a stutter
(`PartSteps`). The theorems about `Records` state the properties that `records_all`
checks, under the same names, for all values of the constants.

- *Bells.* `BellsSound`: what a request has checked is still a row with a length. The
  rest is the constraints' (`Violated`), applied when it commits. `RefusalsAlwaysHaveCause`
  is an action property: for the commit that is refused (`RefuseHasCause`), the CHECK
  constraint can be the one that is violated only if the loaded row has changed, and no
  other step but a delete refuses anything.
- *Rows.* `ReferencesHold` is inductive with the types: a commit looks at its parents, a
  delete looks for children in all tables but the two it takes along or marks. With it
  `DeletesOnlyItsOwn` (`StepDeletes`) and the refinement of `KeyTable` (`KeysStep`).
- *Access.* For the whole table of routes, that no route takes another's path: within a
  router by the routes' shapes, method by method, and between routers by the first word
  of the path. So the first fit of a path is the route it was made for, and the guard it
  meets is that route's. `Admitted` adds what a request's caller has been since.
- *Pictures.* `FilesApart`: two names are never one file, and a file being written to has
  no name of another type and no writer of one; `UploadsAlone`: unless two writes of a
  type overlapped, the `.part` and the chunks written so far are one upload's;
  `ColumnsToCome`: a file published and not yet in the column is there. `PicturesHold`
  needs all three.
- *Seed.* The one run that has written has written exactly `After[n]` for the `n` calls
  it has made, so by `ScriptAssumption` its next call is allowed; and the first thing in
  `After[n]` is the admin, at whose taken e-mail every other run ends. The assumption is
  computed once, the theorem is about any number of runs that start at any time and die
  anywhere.

**Refinement.** `KeyTable` promises that rows come, go and change keys and that a key is
one row's. `EmailsAreAKeyTable` and `GradesAreAKeyTable` prove that `ChangeRequests` and
`Grades` implement it, with the table's keys as the refinement mapping: the initial
states map to initial states, an INSERT to `Insert`, an update to `Rekey` or a stutter,
a deletion to `Remove`. `UniqueKeysAlwaysHold` proves it of these two and of `Catalogue`,
where a key is a table with a set of columns and their values, and one step may remove a
year's terms with it.

**What it takes to break a statement.** A run that refutes a statement shows one way to
break it. These theorems show that there is no other: each assumes that certain steps
never happen (or, for the reviews, certain states) and proves the statement for
everything else the model can do.

| statement | refuted by | holds as long as | theorem |
|---|---|---|---|
| `AttachedClassInSectionYear` | `roster_term` | no PATCH moves a class to another year (`YearsStay`) | `AttachedInYearWhileYearsStay` |
| `SectionCapacityGoverns` | `roster_stack` | nobody leaves a roster and no class its section, no section loses seats, nobody is enrolled on their own (`SeatsOnlyFill`) | `CapacityGovernsWhileSeatsOnlyFill` |
| `LogoutEnsuresInactive` | `auth_logout` | no refresh exchanges the token between a logout's arrival and its read (`NoExchangeBeforeRead`) | `LogoutEndsUnlessExchanged` |
| `SectionInOnePlace` | `timetable_attach` | no class that has a slot is attached to a section (`ScheduledNotAttached`) | `SectionsApartUnlessAttachedLater` |
| `ReviewStands` | `records_reviewed` | no two reviews of one request are under way at once (`OneReviewer`) | `ReviewsStandUnlessTheyOverlap` |

The sixth, in `users_promote`, is `SuperAdminRemains` itself, whose theorem has
`OnlyDemotions`. `SectionCapacityGoverns` needs four conditions because each of the four
steps breaks it: a roster that has lost a student, or a class that has changed sections,
keeps the enrollments; the fan-outs check no capacity but the roster's. Under them
`Seated` is inductive: whoever has a row in a class, or is in the hand of a fan-out that
may give them one, is on the roster of the class's section. The others rest on what a
request keeps while it is under way: the years of the pairs in a fan-out's hand
(`YearsAgree`), the session a logout has come to end (`LogoutsFind`), the sections create
has read of the competing classes (`SectionsSeen`), a change request that is pending
until its one reviewer writes (`StillPending`).

Only model-checked: `EveryRequestEnds` (liveness under fairness), which is out of TLAPS's
reach, and the assumption `RunsAlone`, a computation over the script that no theorem
derives from its loops.

## Where the code and what is said of it part

- `roster_term`: `ClassService.update` lets a term change through on a plain read of the
  class, writes later, and so moves a class that attach_class has meanwhile pinned to
  its section's year.
- `roster_stack`: `detach_class` keeps the enrollments, so a class attached to one
  section after another holds more active students than its section has seats, although
  the section's capacity is said to govern.
- `users_promote`: the last-super-admin guard is called on what the first, unlocked read
  of the target showed; a target promoted since is taken away unguarded.
- `auth_logout`: a logout that crosses a refresh finds no session under its token,
  answers 204 and leaves the session active.
- `timetable_attach`: create and attach_class lock the same class so that one section
  does not get two lessons at once, but attach_class looks at no slot: attaching after
  the slots have been committed does it all the same.
- `records_reviewed`: reject reads the request's status without a lock and its UPDATE
  names only the row, so a reject that read the request before an approval records it as
  rejected, although its changes stay applied.

Met while modelling, visible in the models as the exceptions their properties name,
without a run of their own:

- `TeacherService.update` and `StudentService.update` never touch the linked account, so
  once a record's e-mail has been changed, `generate_credentials` hands out an e-mail
  its password does not log in with (`past.renamed` in `HandedOutLogsIn`); a second
  `generate_pin` that had read the record without an account then finds the new e-mail
  free and links over the first account (`AccountHasRecord`).
- `UserService.update` checks the admin tier on the target as first read, too: a plain
  admin's PATCH of an ordinary account that a super admin promotes before the PATCH
  commits is applied to an account of the tier (`PromotedSince` in
  `TierChangedBySuperAdmin`; `users_demote` reaches it), although ADR 0011 says of "any
  `PATCH`/`POST` that touches an admin-tier account's role or `is_active`" that it
  "requires the acting user to be `SUPER_ADMIN`"
  (docs/adr/0011-super-admin-and-audit-logging.md:11). The model's only ordinary role is
  `TEACHER`; with `STUDENT` the overtaken PATCH could also take the promotion back, and
  the property allows for it.
- Grades and assessments are written to another teacher's class when the assessment was
  moved there between the ownership check and the commit (`MovedSince` in
  `TeachersWriteAtHome`; `records_all` reaches it): the checks are of the class as read,
  nothing is locked, and the INSERT or UPDATE names the assessment only. ADR 0019 says "a
  `TEACHER` can't touch an assessment outside their classes"
  (docs/adr/0019-teacher-class-ownership-scoping.md:15).
- `_translate_period_integrity_error` looks for `constraint_name` on `exc.orig`. Under
  SQLAlchemy's asyncpg dialect that is the adapter's error, which has the SQLSTATE; the
  name is on asyncpg's own, its `__cause__`. So the look finds None and an overlap is
  answered with `PeriodAlreadyExistsError`, although the docstring says that conflating
  the two constraints "would tell the caller to rename a period when the real problem is
  its times" (timetable/service.py:38-39). The integration test looks at the status
  alone, which is 409 for either. This rests on how the two libraries pass errors on,
  which is not under `src/`; the model states it in one definition, `NameOnOrig`. `assign`
  looks in the same way and takes None for its own constraint
  (sections/service.py:365-368): every IntegrityError there, a duplicate from the fan-out
  too, is told as a student already assigned, which the comment above those lines
  rules out.
- `AcademicYearService` and `TermService` translate any IntegrityError as a taken name
  (ADR 0015 knows of it), and `PeriodService` does the same: partial updates whose ends
  cross, which the CHECK constraint stops, are told of a name nobody has
  (`RefusalsHaveCause`), and so are a term whose year has gone and a year whose dates
  cross.
- `AcademicYearService.update` never looks at the year's terms, so shortening a year
  leaves terms outside it (`past.narrowed` in `TermsWithinYear`).
- enroll holds a class FOR UPDATE, has looked for a row and inserts one; the fan-out of
  assign may have entered that row in between and wait for the class. The services
  expect a lost race to be an IntegrityError, the conflict of
  `EnrollmentAlreadyExistsError` (enrollments/service.py:90-93); here it is a deadlock,
  PostgreSQL aborts one of the two and its caller gets a 500 (`EnrollMeetsFanOut` in
  `OnlyKnownCircles`). So do two fan-outs of different years that want the same
  enrollments after a class was moved between years (`YearsCross`).
- The docstring of `save_profile_picture` speaks of "a clean replace with no orphan
  bookkeeping"; an upload of another type leaves the old type's file behind, and so does
  a delete. Two uploads of one type at once write one `.part`: the second rename fails
  with an unhandled FileNotFoundError, or the first publishes a file still written to
  (`past.overlapped`).
- The seed script looks for grade levels, which it creates only after the admin, the
  year, the subjects, the teachers and their passwords: after a crash before that the
  database is not recognised as half seeded, and a rerun ends at the admin's taken
  e-mail instead of the message meant for it.

Some hazards of `PROJECT.json` are met by the code and named by a history: the property
then says that nothing else has the same effect, and does not keep them from happening.
Their notes say so: an account that changes role, a record whose e-mail changes, a
shortened year, a moved assessment or a lowered maximum, overlapping uploads, a delete
that unlinks a picture and is refused.

Hazards of the code that `PROJECT.json` lists without a property, or that it leaves out
because nothing promised is broken: the entry's "before" in the audit trail comes from
the first, unlocked read of the account; two FOR UPDATE scans of the super admins may
meet their rows in different orders (PostgreSQL aborts one request, which ends in a 500);
an account
deactivated between the check and the rotation of a refresh keeps its session until the
next request's guard refuses it; the answer of a refresh may be lost, and the client
with it logged out.

## Not modelled, and why

- Argon2, JWT, SHA-256: libraries. Hashes and tokens are compared where the code
  compares them.
- Configuration, logging, middleware that adds headers and request ids: no state that a
  property here is about.
- The rate limiter's counters (slowapi) and the connection pool (SQLAlchemy).
- Migrations run once before the program. The constraints they leave are in the models.
- Validation of single bodies by the schemas: the models' bodies are those that pass.
- Pagination and ordering of lists, and filters other than the class in `GradeViews`
  (student and assessment filters narrow the same sets by equality).
- Views that read several statements: `GradeViews` takes one committed state for each
  answer. A gradebook read across a commit may miss a grade or a student of its time; no
  document promises otherwise.
- `create_admin.py`: how the first super admin of `UserAdmin`'s initial states comes to
  be.
- Composition of `Roster` with `Timetable` (both lock the class row) and of
  `Credentials` with `UserAdmin` (the role of an account): each has the other's writes
  to the rows they share as actions of its own (`PatchTeacher`, `AttachCommit`;
  `SetRole`, `CreateAccount`), and the locks they share are in both.

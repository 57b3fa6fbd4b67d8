------------------------------- MODULE Records -------------------------------
(***************************************************************************)
(* The modules about single tables, side by side.  part says which of them *)
(* a behaviour is of; the others' tables stay empty, so that the states    *)
(* are the sum of the modules' own and not their product.  A set that more *)
(* than one part has, of different sizes, is a record with a field for     *)
(* each.                                                                   *)
(***************************************************************************)
EXTENDS Naturals

CONSTANTS
    Requests,       \* HTTP requests that can be under way at once
    Visits,         \* the same, of the guards
    Users,          \* accounts, of the guards
    Teachers,       \* changes, passwords, scores, moves, rows
    Students,       \* pins, grades
    Accounts,
    Emails,         \* changes, accounts
    Names,          \* changes, bells
    Bodies,         \* what a teacher may propose
    ChangeIds,
    Classes,        \* scores, moves, rows
    Assessments,
    GradeIds,
    Scores,         \* scores, moves
    Periods,
    Times,
    Years, Dates,
    Terms,          \* calendar, rows
    Levels, Sections, Subjects, Values,
    Exts, Inodes,
    Runs

VARIABLES
    part, past, work, teacher, change, person, account, answer, taught, enrolled, assessment, grade,
    period, slots, year, term, row, record, dir, bytes, db, wrote, run

vars == <<part, past, work, teacher, change, person, account, answer, taught, enrolled, assessment,
          grade, period, slots, year, term, row, record, dir, bytes, db, wrote, run>>

changeTables == <<teacher, change>>
personTables == <<person, answer>>
gradeTables == <<taught, enrolled, assessment, grade>>
bellTables == <<period, slots>>
calendarTables == <<year, term>>
pictureTables == <<record, dir, bytes>>
seedTables == <<db, wrote, run>>

Changes == INSTANCE ChangeRequestsProofs WITH
    Teachers <- Teachers.changes, Emails <- Emails.changes, Names <- Names.changes,
    Changes <- ChangeIds

Pins == INSTANCE CredentialsProofs WITH
    Students <- Students.pins, Teachers <- {}, Emails <- Emails.accounts

Passwords == INSTANCE CredentialsProofs WITH
    Students <- {}, Teachers <- Teachers.passwords, Emails <- Emails.accounts

\* For many grades of one class, and for assessments that change classes.
Scoring == INSTANCE GradesProofs WITH
    Students <- Students.grades, Teachers <- Teachers.scores, Classes <- Classes.scores,
    Scores <- Scores.scores

Moving == INSTANCE GradesProofs WITH
    Students <- Students.grades, Teachers <- Teachers.moves, Classes <- Classes.moves,
    Scores <- Scores.moves

Bells == INSTANCE BellSchedule WITH Names <- Names.bells

Calendar == INSTANCE AcademicCalendar WITH Terms <- Terms.calendar

Rows == INSTANCE Catalogue WITH
    Terms <- Terms.rows, Classes <- Classes.rows, Teachers <- Teachers.rows

Routing == INSTANCE Access WITH Requests <- Visits

Pictures == INSTANCE PictureStore

\* The script's numbers are its own.
Seeding == INSTANCE SeedDemo WITH
    Subjects <- 4, Sections <- 2, Students <- 6, Capacity <- 30, MaxScore <- 20

-----------------------------------------------------------------------------

ASSUME BodiesAssumption == Bodies \subseteq Changes!Proposal

ASSUME NumbersAssumption ==
    Times \subseteq Nat /\ Dates \subseteq Nat /\ Scores.scores \subseteq Nat /\ Scores.moves \subseteq Nat

ASSUME IdsAssumption == Rows!IdsApart

ASSUME ScriptAssumption == Seeding!RunsAlone

-----------------------------------------------------------------------------

Empty == [x \in {} |-> x]

NoChanges == teacher = Empty /\ change = Empty
NoPeople == person = Empty /\ answer = Empty
NoGrades == taught = Empty /\ enrolled = Empty /\ assessment = Empty /\ grade = Empty
NoBells == period = Empty /\ slots = Empty
NoCalendar == year = Empty /\ term = Empty
NoPictures == record = Empty /\ dir = Empty /\ bytes = Empty
NoSeed == db = Empty /\ wrote = Empty /\ run = Empty

Init ==
    \/ part = "changes" /\ Changes!Init
        /\ account = Empty /\ row = Empty /\ NoPeople /\ NoGrades /\ NoBells /\ NoCalendar
        /\ NoPictures /\ NoSeed
    \/ part = "pins" /\ Pins!Init
        /\ row = Empty /\ NoChanges /\ NoGrades /\ NoBells /\ NoCalendar /\ NoPictures /\ NoSeed
    \/ part = "passwords" /\ Passwords!Init
        /\ row = Empty /\ NoChanges /\ NoGrades /\ NoBells /\ NoCalendar /\ NoPictures /\ NoSeed
    \/ part = "scores" /\ Scoring!Init
        /\ account = Empty /\ row = Empty /\ NoChanges /\ NoPeople /\ NoBells /\ NoCalendar
        /\ NoPictures /\ NoSeed
    \/ part = "moves" /\ Moving!Init
        /\ account = Empty /\ row = Empty /\ NoChanges /\ NoPeople /\ NoBells /\ NoCalendar
        /\ NoPictures /\ NoSeed
    \/ part = "bells" /\ Bells!Init
        /\ account = Empty /\ row = Empty /\ NoChanges /\ NoPeople /\ NoGrades /\ NoCalendar
        /\ NoPictures /\ NoSeed
    \/ part = "calendar" /\ Calendar!Init
        /\ account = Empty /\ row = Empty /\ NoChanges /\ NoPeople /\ NoGrades /\ NoBells
        /\ NoPictures /\ NoSeed
    \/ part = "rows" /\ Rows!Init
        /\ account = Empty /\ NoChanges /\ NoPeople /\ NoGrades /\ NoBells /\ NoCalendar
        /\ NoPictures /\ NoSeed
    \/ part = "access" /\ Routing!Init
        /\ past = Empty /\ row = Empty /\ NoChanges /\ NoPeople /\ NoGrades /\ NoBells
        /\ NoCalendar /\ NoPictures /\ NoSeed
    \/ part = "pictures" /\ Pictures!Init
        /\ account = Empty /\ row = Empty /\ NoChanges /\ NoPeople /\ NoGrades /\ NoBells
        /\ NoCalendar /\ NoSeed
    \/ part = "seed" /\ Seeding!Init
        /\ past = Empty /\ work = Empty /\ account = Empty /\ row = Empty /\ NoChanges
        /\ NoPeople /\ NoGrades /\ NoBells /\ NoCalendar /\ NoPictures

Next ==
    \/ part = "changes" /\ Changes!Next
       /\ UNCHANGED <<part, account, row, personTables, gradeTables, bellTables,
                     calendarTables, pictureTables, seedTables>>
    \/ part = "pins" /\ Pins!Next
       /\ UNCHANGED <<part, row, changeTables, gradeTables, bellTables, calendarTables,
                     pictureTables, seedTables>>
    \/ part = "passwords" /\ Passwords!Next
       /\ UNCHANGED <<part, row, changeTables, gradeTables, bellTables, calendarTables,
                     pictureTables, seedTables>>
    \/ part = "scores" /\ Scoring!Next
       /\ UNCHANGED <<part, account, row, changeTables, personTables, bellTables,
                     calendarTables, pictureTables, seedTables>>
    \/ part = "moves" /\ Moving!Next
       /\ UNCHANGED <<part, account, row, changeTables, personTables, bellTables,
                     calendarTables, pictureTables, seedTables>>
    \/ part = "bells" /\ Bells!Next
       /\ UNCHANGED <<part, account, row, changeTables, personTables, gradeTables,
                     calendarTables, pictureTables, seedTables>>
    \/ part = "calendar" /\ Calendar!Next
       /\ UNCHANGED <<part, account, row, changeTables, personTables, gradeTables, bellTables,
                     pictureTables, seedTables>>
    \/ part = "rows" /\ Rows!Next
       /\ UNCHANGED <<part, account, changeTables, personTables, gradeTables, bellTables,
                     calendarTables, pictureTables, seedTables>>
    \/ part = "access" /\ Routing!Next
       /\ UNCHANGED <<part, past, row, changeTables, personTables, gradeTables, bellTables,
                     calendarTables, pictureTables, seedTables>>
    \/ part = "pictures" /\ Pictures!Next
       /\ UNCHANGED <<part, account, row, changeTables, personTables, gradeTables, bellTables,
                     calendarTables, seedTables>>
    \/ part = "seed" /\ Seeding!Next
       /\ UNCHANGED <<part, past, work, account, row, changeTables, personTables, gradeTables,
                     bellTables, calendarTables, pictureTables>>

Spec == Init /\ [][Next]_vars

-----------------------------------------------------------------------------
(* What must hold.                                                         *)

\* Rows, histories and requests under way keep their types.
TypeOK ==
    /\ part = "changes" => Changes!TypeOK
    /\ part = "pins" => Pins!TypeOK
    /\ part = "passwords" => Passwords!TypeOK
    /\ part = "scores" => Scoring!TypeOK
    /\ part = "moves" => Moving!TypeOK
    /\ part = "bells" => Bells!TypeOK
    /\ part = "calendar" => Calendar!TypeOK
    /\ part = "rows" => Rows!TypeOK
    /\ part = "access" => Routing!TypeOK
    /\ part = "pictures" => Pictures!TypeOK
    /\ part = "seed" => Seeding!TypeOK

\* ChangeRequests: one open request a teacher; approved if and only if applied.
ReviewsAreSound == part = "changes" => Changes!ReviewsAreSound

\* ChangeRequests: a reviewed request is not reviewed again.
ReviewedOnce == [][part = "changes" => Changes!ReviewStands]_vars

\* Credentials: accounts, records, PINs and what is handed out go together.
AccountsAreSound ==
    /\ part = "pins" => Pins!AccountsAreSound
    /\ part = "passwords" => Passwords!AccountsAreSound

\* Grades: the rules a grade is entered under hold on.
GradesAreJust ==
    /\ part = "scores" => Scoring!GradesAreJust
    /\ part = "moves" => Moving!GradesAreJust

\* Grades: teachers write to classes they have had, or to an assessment that
\* was moved to another class meanwhile.
TeachersWriteAtHome ==
    [][/\ part = "scores" => Scoring!TeachersWriteAtHome
       /\ part = "moves" => Moving!TeachersWriteAtHome]_vars

\* GradeViews: lists, gets and gradebooks show the same.
ViewsAgree ==
    /\ part = "scores" => Scoring!ViewsAgree
    /\ part = "moves" => Moving!ViewsAgree

\* BellSchedule: no moment is in two periods, and a scheduled period stays.
PeriodsAreSound == part = "bells" => Bells!PeriodsAreSound

\* BellSchedule: a refusal at the commit is on account of others.
RefusalsHaveCause == [][part = "bells" => Bells!RefusalsHaveCause]_vars

\* AcademicCalendar: dates are in order, terms are within their years.
CalendarHolds == part = "calendar" => Calendar!CalendarHolds

\* Catalogue: references hold, and no delete breaks one or takes more along.
CatalogueHolds ==
    /\ [](part = "rows" => Rows!ReferencesHold)
    /\ [][part = "rows" => Rows!DeletesOnlyItsOwn]_vars

\* Teachers' e-mails, grades and the catalogue's unique columns: each table
\* is a KeyTable, whatever its services check and when.
UniqueKeysHold == Changes!OneTeacherPerEmail /\ Scoring!OneGradePerStudent /\ Rows!KeysAreUnique

\* Access: requests reach the route they name, and their callers may.
AccessHolds == part = "access" => Routing!AccessHolds

\* PictureStore: a served picture is one upload's, and it is there.
PicturesHold == part = "pictures" => Pictures!PicturesHold

\* SeedDemo: one run alone writes, and is refused nothing.
SeedsOnce == part = "seed" => Seeding!SeedsOnce
=============================================================================

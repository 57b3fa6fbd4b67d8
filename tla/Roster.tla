------------------------------- MODULE Roster -------------------------------
(***************************************************************************)
(* Section rosters, class attachment and enrollment: the requests handled  *)
(* by SectionService, SectionAssignmentService, EnrollmentService and      *)
(* ClassService.update, running concurrently on one PostgreSQL database    *)
(* under READ COMMITTED.                                                   *)
(*                                                                         *)
(* The tables hold COMMITTED rows.  A request is a transaction of its own  *)
(* (one AsyncSession per request): it reads committed rows, keeps the rows *)
(* it has flushed to itself, and publishes them in the step of its commit. *)
(* Every action is the work between two statements another transaction     *)
(* can come between.  SELECT ... FOR UPDATE is an explicit row lock; the   *)
(* FOR KEY SHARE lock that inserting an enrollment takes on its class row  *)
(* (foreign key) is derived from the flushed rows.                         *)
(***************************************************************************)
EXTENDS Naturals, FiniteSets

CONSTANTS
    Students, Sections, Classes, Terms, Years,
    Requests,       \* transactions that can be open at the same time
    SectionYear,    \* Section.academic_year_id, which no schema can update
    TermYear,       \* Term.academic_year_id, which no schema can update
    MaxCapacity,    \* bound on the capacities the requests ask for
    Ops,            \* the operations this instance of the system receives
    None            \* SQL NULL, "no row", "no holder"

AllOps == {"assign", "unassign", "attach", "detach", "enroll", "drop",
           "section_capacity", "class_capacity", "class_term"}

ASSUME RosterAssumption ==
    /\ IsFiniteSet(Students)
    /\ MaxCapacity \in Nat
    /\ SectionYear \in [Sections -> Years]
    /\ TermYear \in [Terms -> Years]
    /\ Ops \subseteq AllOps
    /\ None \notin Requests \cup Sections \cup Students \cup Classes \cup Terms
    /\ None \notin Students \X Classes

VARIABLES
    sectionCap,     \* sections.capacity
    classCap,       \* classes.capacity
    classTerm,      \* classes.term_id
    classSection,   \* classes.section_id
    assigned,       \* section_assignments, as pairs (student, section)
    enrollment,     \* enrollments: status by (student, class), "none" = no row
    sectionLock,    \* holder of FOR UPDATE on a sections row
    classLock,      \* holder of FOR UPDATE on a classes row
    req             \* the open transaction of each request

tables == <<sectionCap, classCap, classTerm, classSection, assigned, enrollment>>
locks  == <<sectionLock, classLock>>
vars   == <<tables, locks, req>>

-----------------------------------------------------------------------------
(* The state of a transaction.                                             *)

Pairs == Students \X Classes
Status == {"none", "active", "dropped"}
Capacities == 1..MaxCapacity

\* Where a request stands, named after the last statement it has executed.
AssignPCs == {"assign_locked", "assign_checked", "assign_inserted", "assign_fanout"}
AttachPCs == {"attach_locked_section", "attach_locked_class", "attach_fanout"}
PCs == {"idle"} \cup AssignPCs \cup AttachPCs
         \cup {"detach_locked", "enroll_locked", "enroll_checked", "term_read"}

\* st, sec, cls, term: the arguments.  cap: the capacity read under the lock.
\* todo: the (student, class) pairs the fan-out has still to visit.
\* cur: the pair it found no row for and is inserting.
\* rows: the pairs whose enrollments it has entered in the unique index and not
\* committed; cur is one of them while the INSERT still waits for its class.
Transaction ==
    [pc: PCs, st: Students \cup {None}, sec: Sections \cup {None},
     cls: Classes \cup {None}, term: Terms \cup {None}, cap: Nat,
     todo: SUBSET Pairs, cur: Pairs \cup {None}, rows: SUBSET Pairs]

Idle == [pc |-> "idle", st |-> None, sec |-> None, cls |-> None, term |-> None,
         cap |-> 0, todo |-> {}, cur |-> None, rows |-> {}]

TypeOK ==
    /\ sectionCap \in [Sections -> Nat]
    /\ classCap \in [Classes -> Nat]
    /\ classTerm \in [Classes -> Terms]
    /\ classSection \in [Classes -> Sections \cup {None}]
    /\ assigned \subseteq Students \X Sections
    /\ enrollment \in [Pairs -> Status]
    /\ sectionLock \in [Sections -> Requests \cup {None}]
    /\ classLock \in [Classes -> Requests \cup {None}]
    /\ req \in [Requests -> Transaction]

RosterOf(x)   == {s \in Students : <<s, x>> \in assigned}
Attached(x)   == {c \in Classes : classSection[c] = x}
ActiveIn(c)   == {s \in Students : enrollment[<<s, c>>] = "active"}

\* The year rule's pre-check and the unique index behind it: one assignment
\* per student and academic year.
AssignedInYear(s, y) ==
    \E x \in Sections : <<s, x>> \in assigned /\ SectionYear[x] = y

\* The assignment row a request has flushed and not committed.
HasFlushedAssignment(q, s, y) ==
    /\ req[q].pc \in {"assign_inserted", "assign_fanout"}
    /\ req[q].st = s
    /\ SectionYear[req[q].sec] = y

\* q holds FOR KEY SHARE on the row of class c through an enrollment whose
\* INSERT is over.
SharesKey(q, c) == \E s \in Students : <<s, c>> \in req[q].rows \ {req[q].cur}

\* What the first lock of a transaction, which holds none yet, waits for.
SectionFree(x) == sectionLock[x] = None
ClassFree(c)   == classLock[c] = None /\ \A q \in Requests : ~SharesKey(q, c)

\* r waits for q to end: q has entered the unique key r is about to insert, or
\* holds a row lock r needs.  An INSERT waits twice: for whoever has entered
\* its key; then, with its own entry in, where others wait for it, for the
\* FOR KEY SHARE lock that the foreign-key check takes at its end.
WaitsFor(r, q) ==
    /\ q # r
    /\ LET t == req[r]
       IN  \/ t.pc = "assign_checked" /\ HasFlushedAssignment(q, t.st, SectionYear[t.sec])
           \/ t.pc = "attach_locked_section" /\ (classLock[t.cls] = q \/ SharesKey(q, t.cls))
           \/ t.cur \notin t.rows \cup {None} /\ t.cur \in req[q].rows
           \/ t.cur \in t.rows /\ classLock[t.cur[2]] = q
           \/ t.pc = "enroll_checked" /\ <<t.st, t.cls>> \in req[q].rows
           \/ t.pc = "term_read" /\ classLock[t.cls] = q

Granted(r) == \A q \in Requests : ~WaitsFor(r, q)

Become(r, t) == req' = [req EXCEPT ![r] = t]

\* Commit, rollback, an exception that closes the session, or a lost
\* connection: every lock goes and the request is over.
End(r) ==
    /\ Become(r, Idle)
    /\ sectionLock' = [x \in Sections |-> IF sectionLock[x] = r THEN None ELSE sectionLock[x]]
    /\ classLock' = [c \in Classes |-> IF classLock[c] = r THEN None ELSE classLock[c]]

Rollback(r) == End(r) /\ UNCHANGED tables

\* The enrollment table once the flushed rows are committed.
WithRows(rows) ==
    [p \in Pairs |-> IF p \in rows THEN "active" ELSE enrollment[p]]

-----------------------------------------------------------------------------
(* SectionAssignmentService.assign                                         *)

\* Mutant: a plain get of the section.
AssignRead(r, s, x) ==
    /\ "assign" \in Ops
    /\ req[r] = Idle
    /\ Become(r, [Idle EXCEPT !.pc = "assign_locked", !.st = s, !.sec = x,
                              !.cap = sectionCap[x]])
    /\ UNCHANGED <<tables, locks>>

\* The student exists; the section row is locked and its capacity read.
AssignLock(r, s, x) ==
    /\ "assign" \in Ops
    /\ req[r] = Idle
    /\ SectionFree(x)
    /\ sectionLock' = [sectionLock EXCEPT ![x] = r]
    /\ Become(r, [Idle EXCEPT !.pc = "assign_locked", !.st = s, !.sec = x,
                              !.cap = sectionCap[x]])
    /\ UNCHANGED <<tables, classLock>>

\* Already in a section this year, or no seat left: the request is refused.
AssignCheck(r) ==
    /\ req[r].pc = "assign_locked"
    /\ IF \/ AssignedInYear(req[r].st, SectionYear[req[r].sec])
          \/ Cardinality(RosterOf(req[r].sec)) >= req[r].cap
         THEN Rollback(r)
         ELSE /\ Become(r, [req[r] EXCEPT !.pc = "assign_checked"])
              /\ UNCHANGED <<tables, locks>>

\* Mutant: no unique index on (student, academic year).
AssignInsertAnyway(r) ==
    /\ req[r].pc = "assign_checked"
    /\ Become(r, [req[r] EXCEPT !.pc = "assign_inserted"])
    /\ UNCHANGED <<tables, locks>>

\* Flush of the assignment.  The unique index makes it wait for another
\* transaction that has flushed the same (student, year), and fail if that
\* one committed.
AssignInsert(r) ==
    LET s == req[r].st
        y == SectionYear[req[r].sec]
    IN  /\ req[r].pc = "assign_checked"
        /\ Granted(r)
        /\ IF AssignedInYear(s, y)
             THEN Rollback(r)
             ELSE /\ Become(r, [req[r] EXCEPT !.pc = "assign_inserted"])
                  /\ UNCHANGED <<tables, locks>>

AssignListClasses(r) ==
    /\ req[r].pc = "assign_inserted"
    /\ Become(r, [req[r] EXCEPT !.pc = "assign_fanout",
                                !.todo = {req[r].st} \X Attached(req[r].sec)])
    /\ UNCHANGED <<tables, locks>>

\* Mutant: the columns of the assignment row swapped.
AssignCommitSwapped(r) ==
    /\ req[r].pc = "assign_fanout" /\ req[r].todo = {} /\ req[r].cur = None
    /\ assigned' = assigned \cup {<<req[r].sec, req[r].st>>}
    /\ enrollment' = WithRows(req[r].rows)
    /\ End(r)
    /\ UNCHANGED <<sectionCap, classCap, classTerm, classSection>>

AssignCommit(r) ==
    /\ req[r].pc = "assign_fanout" /\ req[r].todo = {} /\ req[r].cur = None
    /\ assigned' = assigned \cup {<<req[r].st, req[r].sec>>}
    /\ enrollment' = WithRows(req[r].rows)
    /\ End(r)
    /\ UNCHANGED <<sectionCap, classCap, classTerm, classSection>>

\* SectionAssignmentService.unassign: the enrollments stay.
Unassign(s, x) ==
    /\ "unassign" \in Ops
    /\ <<s, x>> \in assigned
    /\ assigned' = assigned \ {<<s, x>>}
    /\ UNCHANGED <<sectionCap, classCap, classTerm, classSection, enrollment, locks, req>>

-----------------------------------------------------------------------------
(* The fan-out shared by assign (one student, the section's classes) and   *)
(* attach_class (one class, the section's students).                       *)

\* get_by_student_and_class: an existing row, dropped or not, is left alone.
FanOutLook(r, p) ==
    /\ req[r].pc \in {"assign_fanout", "attach_fanout"}
    /\ req[r].cur = None
    /\ p \in req[r].todo
    /\ Become(r, [req[r] EXCEPT !.todo = @ \ {p},
                                !.cur = IF enrollment[p] = "none" THEN p ELSE None])
    /\ UNCHANGED <<tables, locks>>

\* Mutant: no unique constraint on (student, class).
FanOutInsertAtOnce(r) ==
    /\ req[r].pc \in {"assign_fanout", "attach_fanout"}
    /\ req[r].cur \notin req[r].rows \cup {None}
    /\ Become(r, [req[r] EXCEPT !.rows = @ \cup {req[r].cur}])
    /\ UNCHANGED <<tables, locks>>

\* The INSERT enters the row and its unique key, once no other transaction
\* has the key entered; if the row has been committed since the look, the
\* unique constraint fails and everything rolls back.
FanOutInsert(r) ==
    LET p == req[r].cur
    IN  /\ req[r].pc \in {"assign_fanout", "attach_fanout"}
        /\ p \notin req[r].rows \cup {None}
        /\ Granted(r)
        /\ IF enrollment[p] # "none"
             THEN Rollback(r)
             ELSE /\ Become(r, [req[r] EXCEPT !.rows = @ \cup {p}])
                  /\ UNCHANGED <<tables, locks>>

\* The INSERT ends with the foreign-key check: FOR KEY SHARE on the class.
FanOutShare(r) ==
    /\ req[r].pc \in {"assign_fanout", "attach_fanout"}
    /\ req[r].cur \in req[r].rows
    /\ Granted(r)
    /\ Become(r, [req[r] EXCEPT !.cur = None])
    /\ UNCHANGED <<tables, locks>>

-----------------------------------------------------------------------------
(* SectionService.attach_class and detach_class                            *)

\* Mutant: a plain get of the section.
AttachReadSection(r, x, c) ==
    /\ "attach" \in Ops
    /\ req[r] = Idle
    /\ Become(r, [Idle EXCEPT !.pc = "attach_locked_section", !.sec = x, !.cls = c])
    /\ UNCHANGED <<tables, locks>>

AttachLockSection(r, x, c) ==
    /\ "attach" \in Ops
    /\ req[r] = Idle
    /\ SectionFree(x)
    /\ sectionLock' = [sectionLock EXCEPT ![x] = r]
    /\ Become(r, [Idle EXCEPT !.pc = "attach_locked_section", !.sec = x, !.cls = c])
    /\ UNCHANGED <<tables, classLock>>

\* Mutant: the academic years are not compared.
AttachableAnyYear(c, x) == classSection[c] \in {None, x}

\* The class may be attached here: it belongs to no other section and its
\* term lies in the section's academic year.
Attachable(c, x) ==
    /\ classSection[c] \in {None, x}
    /\ TermYear[classTerm[c]] = SectionYear[x]

AttachLockClass(r) ==
    LET c == req[r].cls
    IN  /\ req[r].pc = "attach_locked_section"
        /\ Granted(r)
        /\ IF Attachable(c, req[r].sec)
             THEN /\ classLock' = [classLock EXCEPT ![c] = r]
                  /\ Become(r, [req[r] EXCEPT !.pc = "attach_locked_class"])
                  /\ UNCHANGED <<tables, sectionLock>>
             ELSE Rollback(r)

AttachListRoster(r) ==
    /\ req[r].pc = "attach_locked_class"
    /\ Become(r, [req[r] EXCEPT !.pc = "attach_fanout",
                                !.todo = RosterOf(req[r].sec) \X {req[r].cls}])
    /\ UNCHANGED <<tables, locks>>

AttachCommit(r) ==
    /\ req[r].pc = "attach_fanout" /\ req[r].todo = {} /\ req[r].cur = None
    /\ classSection' = [classSection EXCEPT ![req[r].cls] = req[r].sec]
    /\ enrollment' = WithRows(req[r].rows)
    /\ End(r)
    /\ UNCHANGED <<sectionCap, classCap, classTerm, assigned>>

\* Mutant: a plain get of the class.
DetachRead(r, x, c) ==
    /\ "detach" \in Ops
    /\ req[r] = Idle
    /\ classSection[c] = x
    /\ Become(r, [Idle EXCEPT !.pc = "detach_locked", !.sec = x, !.cls = c])
    /\ UNCHANGED <<tables, locks>>

\* Detaching a class that is not attached here is refused (no effect).
DetachLock(r, x, c) ==
    /\ "detach" \in Ops
    /\ req[r] = Idle
    /\ ClassFree(c)
    /\ classSection[c] = x
    /\ classLock' = [classLock EXCEPT ![c] = r]
    /\ Become(r, [Idle EXCEPT !.pc = "detach_locked", !.sec = x, !.cls = c])
    /\ UNCHANGED <<tables, sectionLock>>

DetachCommit(r) ==
    /\ req[r].pc = "detach_locked"
    /\ classSection' = [classSection EXCEPT ![req[r].cls] = None]
    /\ End(r)
    /\ UNCHANGED <<sectionCap, classCap, classTerm, assigned, enrollment>>

-----------------------------------------------------------------------------
(* EnrollmentService.enroll and drop                                       *)

\* Mutant: a plain get of the class.
EnrollRead(r, s, c) ==
    /\ "enroll" \in Ops
    /\ req[r] = Idle
    /\ Become(r, [Idle EXCEPT !.pc = "enroll_locked", !.st = s, !.cls = c,
                              !.cap = classCap[c]])
    /\ UNCHANGED <<tables, locks>>

EnrollLock(r, s, c) ==
    /\ "enroll" \in Ops
    /\ req[r] = Idle
    /\ ClassFree(c)
    /\ classLock' = [classLock EXCEPT ![c] = r]
    /\ Become(r, [Idle EXCEPT !.pc = "enroll_locked", !.st = s, !.cls = c,
                              !.cap = classCap[c]])
    /\ UNCHANGED <<tables, sectionLock>>

\* Mutant: a refusal returns the connection with its transaction open.
EnrollCheckOpen(r) ==
    /\ req[r].pc = "enroll_locked"
    /\ Become(r, IF \/ enrollment[<<req[r].st, req[r].cls>>] # "none"
                    \/ Cardinality(ActiveIn(req[r].cls)) >= req[r].cap
                   THEN Idle ELSE [req[r] EXCEPT !.pc = "enroll_checked"])
    /\ UNCHANGED <<tables, locks>>

\* A row already there (dropped ones included) or a full class: refused.
EnrollCheck(r) ==
    /\ req[r].pc = "enroll_locked"
    /\ IF \/ enrollment[<<req[r].st, req[r].cls>>] # "none"
          \/ Cardinality(ActiveIn(req[r].cls)) >= req[r].cap
         THEN Rollback(r)
         ELSE /\ Become(r, [req[r] EXCEPT !.pc = "enroll_checked"])
              /\ UNCHANGED <<tables, locks>>

\* Insert and commit; the unique constraint is the last guard.  The foreign-key
\* check finds the class locked by the request itself.
EnrollCommit(r) ==
    LET p == <<req[r].st, req[r].cls>>
    IN  /\ req[r].pc = "enroll_checked"
        /\ Granted(r)
        /\ IF enrollment[p] # "none"
             THEN Rollback(r)
             ELSE /\ enrollment' = [enrollment EXCEPT ![p] = "active"]
                  /\ End(r)
                  /\ UNCHANGED <<sectionCap, classCap, classTerm, classSection, assigned>>

\* Only an active enrollment is dropped.  No statement of drop locks the
\* class: status is not part of the foreign key.
Drop(s, c) ==
    /\ "drop" \in Ops
    /\ enrollment[<<s, c>>] = "active"
    /\ enrollment' = [enrollment EXCEPT ![<<s, c>>] = "dropped"]
    /\ UNCHANGED <<sectionCap, classCap, classTerm, classSection, assigned, locks, req>>

-----------------------------------------------------------------------------
(* SectionService.update and ClassService.update                           *)

\* The UPDATE waits for a FOR UPDATE holder of the row; the new capacity is
\* not compared with the roster.
PatchSectionCapacity(x, k) ==
    /\ "section_capacity" \in Ops
    /\ SectionFree(x)
    /\ sectionCap' = [sectionCap EXCEPT ![x] = k]
    /\ UNCHANGED <<classCap, classTerm, classSection, assigned, enrollment, locks, req>>

PatchClassCapacity(c, k) ==
    /\ "class_capacity" \in Ops
    /\ classLock[c] = None
    /\ classCap' = [classCap EXCEPT ![c] = k]
    /\ UNCHANGED <<sectionCap, classTerm, classSection, assigned, enrollment, locks, req>>

\* A plain read of the class: moving an attached class to another term is
\* refused on what this read saw.
PatchTermRead(r, c, t) ==
    /\ "class_term" \in Ops
    /\ req[r] = Idle
    /\ classSection[c] = None
    /\ t # classTerm[c]
    /\ Become(r, [Idle EXCEPT !.pc = "term_read", !.cls = c, !.term = t])
    /\ UNCHANGED <<tables, locks>>

\* UPDATE classes SET term_id, the only column the request changed.
PatchTermCommit(r) ==
    /\ req[r].pc = "term_read"
    /\ Granted(r)
    /\ classTerm' = [classTerm EXCEPT ![req[r].cls] = req[r].term]
    /\ End(r)
    /\ UNCHANGED <<sectionCap, classCap, classSection, assigned, enrollment>>

-----------------------------------------------------------------------------
(* A transaction that never commits: server crash, lost connection,        *)
(* statement error, cancelled request.                                     *)

Abort(r) == req[r] # Idle /\ Rollback(r)

\* r and others wait for each other, each for the next.
InCircle(r) ==
    /\ ~Granted(r)
    /\ \E S \in SUBSET Requests : \E next \in [S -> S] :
         /\ r \in S
         /\ {next[q] : q \in S} = S
         /\ \A q \in S : WaitsFor(q, next[q])

-----------------------------------------------------------------------------

Init ==
    /\ sectionCap \in [Sections -> Capacities]
    /\ classCap \in [Classes -> Capacities]
    /\ classTerm \in [Classes -> Terms]
    /\ classSection = [c \in Classes |-> None]
    /\ assigned = {}
    /\ enrollment = [p \in Pairs |-> "none"]
    /\ sectionLock = [x \in Sections |-> None]
    /\ classLock = [c \in Classes |-> None]
    /\ req = [r \in Requests |-> Idle]

\* A new request reaches the server.
Start(r) ==
    \/ \E s \in Students, x \in Sections : AssignLock(r, s, x)
    \/ \E x \in Sections, c \in Classes : AttachLockSection(r, x, c)
    \/ \E x \in Sections, c \in Classes : DetachLock(r, x, c)
    \/ \E s \in Students, c \in Classes : EnrollLock(r, s, c)
    \/ \E c \in Classes, t \in Terms : PatchTermRead(r, c, t)

\* The next statement of a request that is under way.
Continue(r) ==
    \/ AssignCheck(r) \/ AssignInsert(r) \/ AssignListClasses(r) \/ AssignCommit(r)
    \/ AttachLockClass(r) \/ AttachListRoster(r) \/ AttachCommit(r)
    \/ (\E p \in Pairs : FanOutLook(r, p)) \/ FanOutInsert(r) \/ FanOutShare(r)
    \/ DetachCommit(r)
    \/ EnrollCheck(r) \/ EnrollCommit(r)
    \/ PatchTermCommit(r)

\* Requests whose whole effect is one statement.
Single ==
    \/ \E s \in Students, x \in Sections : Unassign(s, x)
    \/ \E s \in Students, c \in Classes : Drop(s, c)
    \/ \E x \in Sections, k \in Capacities : PatchSectionCapacity(x, k)
    \/ \E c \in Classes, k \in Capacities : PatchClassCapacity(c, k)

Next ==
    \/ \E r \in Requests : Start(r) \/ Continue(r) \/ Abort(r)
    \/ Single

Spec == Init /\ [][Next]_vars

\* Each request's coroutine keeps running (weak fairness would do for the
\* steps that never wait); PostgreSQL queues lock waiters, so a lock that is
\* released again and again is granted in the end (strong fairness); and its
\* deadlock detector aborts one of those who wait in a circle.
FairSpec ==
    /\ Spec
    /\ \A r \in Requests : SF_vars(Continue(r))
    /\ WF_vars(\E r \in Requests : InCircle(r) /\ Abort(r))

-----------------------------------------------------------------------------
(* What must hold.                                                         *)

\* Whoever is on a section's roster has an enrollment row in every class
\* attached to the section (it may have been dropped since): assign and
\* attach_class derive rows from each other's table, and the section's row
\* lock is all that keeps one from missing the other.
RosterEnrolled ==
    \A s \in Students, c \in Classes :
        <<s, classSection[c]>> \in assigned => enrollment[<<s, c>>] # "none"

\* A student is in one section per academic year, whatever sections two
\* concurrent assignments lock.
OneSectionPerYear ==
    \A s \in Students, x1, x2 \in Sections :
        /\ <<s, x1>> \in assigned
        /\ <<s, x2>> \in assigned
        /\ SectionYear[x1] = SectionYear[x2]
        => x1 = x2

\* No assignment takes a roster past the section's capacity at that moment
\* (a later PATCH may lower the capacity under the roster).
SeatsRespected ==
    [][\A x \in Sections :
         RosterOf(x)' \subseteq RosterOf(x) \/ Cardinality(RosterOf(x)') <= sectionCap[x]]_vars

\* No individual enrollment (a step that neither grows a roster nor moves a
\* class) takes a class past its capacity, even with section fan-outs adding
\* rows to the same class at the same time.
EnrollWithinCapacity ==
    [][UNCHANGED <<assigned, classSection>> =>
         \A c \in Classes :
            ActiveIn(c)' \subseteq ActiveIn(c) \/ Cardinality(ActiveIn(c)') <= classCap[c]]_vars

\* The pairs a fan-out has still to look at, or to insert, or has flushed.
InHand(t) == t.todo \cup t.rows \cup ({t.cur} \ {None})

\* An individual enrollment (r) holds the class and waits for the key of a row
\* that an assignment's fan-out (q) has entered; that INSERT waits for the class.
EnrollMeetsFanOut(r, q) ==
    /\ req[r].pc = "enroll_checked" /\ req[q].pc = "assign_fanout"
    /\ req[q].cur = <<req[r].st, req[r].cls>>
    /\ WaitsFor(r, q) /\ WaitsFor(q, r)

\* Two fan-outs want the same enrollment for sections of different years, which
\* takes a class that was moved from one year to another.
YearsCross(r, q) ==
    /\ InHand(req[r]) \cap InHand(req[q]) # {}
    /\ SectionYear[req[r].sec] # SectionYear[req[q].sec]

\* Requests that wait in a circle are of these two kinds and no other: of any
\* requests, one waits for none of them, or an enroll and a fan-out meet on one
\* enrollment, or two fan-outs of different years do.  The order of the locks
\* (section, then class, then rows) rules out the rest.  (A request that waits
\* for its first lock holds nothing others could wait for.)
OnlyKnownCircles ==
    \A S \in SUBSET Requests :
        \/ S = {}
        \/ \E r \in S : \A q \in S : ~WaitsFor(r, q)
        \/ \E r, q \in S : EnrollMeetsFanOut(r, q) \/ YearsCross(r, q)

\* A request that has started, and so holds its first lock, ends: it commits, or
\* is rolled back, by the deadlock detector if need be.
EveryRequestEnds == \A r \in Requests : req[r] # Idle ~> req[r] = Idle

\* The code's own statement that a section-taught class is pinned to its
\* section's academic year: attach_class checks it, and ClassService.update
\* is to keep it.
AttachedClassInSectionYear ==
    \A c \in Classes :
        classSection[c] # None => TermYear[classTerm[c]] = SectionYear[classSection[c]]

\* The statement behind the missing capacity check of the fan-out: a
\* section-taught class is governed by the section's capacity, so it never
\* holds more active students than its section has seats.
SectionCapacityGoverns ==
    \A c \in Classes, x \in Sections :
        classSection[c] = x => Cardinality(ActiveIn(c)) <= sectionCap[x]

\* Interleaved, waiting and rolled back as they are, the requests are each
\* as good as one atomic step.
Promise == INSTANCE RosterPromise
KeepsPromise == Promise!Spec
=============================================================================

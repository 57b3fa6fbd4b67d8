------------------------------ MODULE Timetable ------------------------------
(***************************************************************************)
(* The weekly timetable: ScheduleSlotService.create and delete, run by     *)
(* concurrent requests together with what changes the class columns its    *)
(* conflict rules read: PATCH /classes, attach_class and detach_class.     *)
(*                                                                         *)
(* Tables hold committed rows.  A step is the work between two statements  *)
(* another transaction can come between.  attach_class is what it is to    *)
(* this module, a write of section_id under the class's row lock; Roster   *)
(* has the rest of it.                                                     *)
(***************************************************************************)
EXTENDS Naturals

CONSTANTS
    Classes, Days, Periods, Teachers, Rooms, Sections,
    Requests,   \* transactions that can be open at the same time
    Ops,        \* the operations this instance of the system receives
    None        \* SQL NULL, no holder

AllOps == {"create", "delete", "attach", "detach", "patch_teacher", "patch_room"}

ASSUME TimetableAssumption ==
    /\ Ops \subseteq AllOps
    /\ None \notin Classes \cup Days \cup Periods \cup Rooms \cup Sections \cup Requests

VARIABLES
    class,      \* classes: teacher_id, room, section_id
    slot,       \* schedule_slots
    changed,    \* history: the slots whose class has been given another teacher, room or section since
    classLock,  \* holder of FOR UPDATE on a classes row
    periodLock, \* holder of FOR UPDATE on a periods row
    req         \* the open transaction of each request

locks == <<classLock, periodLock>>
tables == <<class, slot, changed>>
vars  == <<tables, locks, req>>

-----------------------------------------------------------------------------

ClassRow == [teacher: Teachers, room: Rooms \cup {None}, section: Sections \cup {None}]
Slot     == [cls: Classes, day: Days, period: Periods]

CreatePCs == {"class_locked", "period_locked", "own_free", "looking"}
PCs == {"idle", "attach_locked"} \cup CreatePCs

\* cls, day, period, sec: the arguments.  row: the class as read under its
\* lock.  todo: the competing classes still to read; others: those read.
Transaction ==
    [pc: PCs, cls: Classes \cup {None}, day: Days \cup {None}, period: Periods \cup {None},
     sec: Sections \cup {None}, row: ClassRow \cup {None},
     todo: SUBSET Classes, others: SUBSET (Classes \X ClassRow)]

Idle == [pc |-> "idle", cls |-> None, day |-> None, period |-> None, sec |-> None,
         row |-> None, todo |-> {}, others |-> {}]

WellFormed(t) ==
    /\ t.pc # "idle" => t.cls \in Classes
    /\ t.pc \in CreatePCs => t.day \in Days /\ t.period \in Periods /\ t.row \in ClassRow
    /\ t.pc = "attach_locked" => t.sec \in Sections
    /\ t.pc # "looking" => t.others = {}

TypeOK ==
    /\ class \in [Classes -> ClassRow]
    /\ slot \subseteq Slot /\ changed \subseteq slot
    /\ classLock \in [Classes -> Requests \cup {None}]
    /\ periodLock \in [Periods -> Requests \cup {None}]
    /\ req \in [Requests -> Transaction]
    /\ \A r \in Requests : WellFormed(req[r])

Detached(row) == [row EXCEPT !.section = None]

\* The three rules: teacher, room and section.  No room and no section are
\* nothing to contend for.
Conflict(a, b) ==
    \/ a.teacher = b.teacher
    \/ a.room # None /\ a.room = b.room
    \/ a.section # None /\ a.section = b.section

\* The slots at the time r asks for.
At(t) == {k \in slot : k.day = t.day /\ k.period = t.period}

\* Mutant: the competing classes are locked as well.
WaitsForCompetitor(r, q) ==
    /\ q # r
    /\ \/ req[r].pc = "class_locked" /\ periodLock[req[r].period] = q
       \/ \E c \in req[r].todo : classLock[c] = q

\* The next statement of r waits for q to end.  Of the requests under way only
\* create asks for a second lock.
WaitsFor(r, q) ==
    /\ q # r
    /\ req[r].pc = "class_locked"
    /\ periodLock[req[r].period] = q

Granted(r) == \A q \in Requests : ~WaitsFor(r, q)

Become(r, t) == req' = [req EXCEPT ![r] = t]

End(r) ==
    /\ Become(r, Idle)
    /\ classLock' = [c \in Classes |-> IF classLock[c] = r THEN None ELSE classLock[c]]
    /\ periodLock' = [p \in Periods |-> IF periodLock[p] = r THEN None ELSE periodLock[p]]

Rollback(r) == End(r) /\ UNCHANGED tables

-----------------------------------------------------------------------------
(* ScheduleSlotService.create                                              *)

\* Mutant: a plain get of the class.
CreateReadClass(r, c, d, p) ==
    /\ "create" \in Ops
    /\ req[r] = Idle
    /\ Become(r, [Idle EXCEPT !.pc = "class_locked", !.cls = c, !.day = d, !.period = p,
                              !.row = class[c]])
    /\ UNCHANGED <<tables, locks>>

CreateLockClass(r, c, d, p) ==
    /\ "create" \in Ops
    /\ req[r] = Idle
    /\ classLock[c] = None
    /\ classLock' = [classLock EXCEPT ![c] = r]
    /\ Become(r, [Idle EXCEPT !.pc = "class_locked", !.cls = c, !.day = d, !.period = p,
                              !.row = class[c]])
    /\ UNCHANGED <<tables, periodLock>>

\* Mutant: a plain get of the period.
CreateReadPeriod(r) ==
    /\ req[r].pc = "class_locked"
    /\ Become(r, [req[r] EXCEPT !.pc = "period_locked"])
    /\ UNCHANGED <<tables, locks>>

CreateLockPeriod(r) ==
    /\ req[r].pc = "class_locked"
    /\ Granted(r)
    /\ periodLock' = [periodLock EXCEPT ![req[r].period] = r]
    /\ Become(r, [req[r] EXCEPT !.pc = "period_locked"])
    /\ UNCHANGED <<tables, classLock>>

\* The class meets at this time already: refused.
CreateCheckOwn(r) ==
    /\ req[r].pc = "period_locked"
    /\ IF \E k \in At(req[r]) : k.cls = req[r].cls
         THEN Rollback(r)
         ELSE /\ Become(r, [req[r] EXCEPT !.pc = "own_free"])
              /\ UNCHANGED <<tables, locks>>

\* list_by_day_and_period
CreateList(r) ==
    /\ req[r].pc = "own_free"
    /\ Become(r, [req[r] EXCEPT !.pc = "looking",
                                !.todo = {k.cls : k \in At(req[r])} \ {req[r].cls}])
    /\ UNCHANGED <<tables, locks>>

\* A plain get of each competing class, one after the other.
CreateLook(r, c) ==
    /\ req[r].pc = "looking"
    /\ c \in req[r].todo
    /\ Become(r, [req[r] EXCEPT !.todo = @ \ {c}, !.others = @ \cup {<<c, class[c]>>}])
    /\ UNCHANGED <<tables, locks>>

\* Every competitor has been read and none of the rules fires.
Passed(t) ==
    /\ t.pc = "looking" /\ t.todo = {}
    /\ \A o \in t.others : ~Conflict(t.row, o[2])

\* A rule fires, or the unique constraint does.
CreateRefuse(r) ==
    /\ req[r].pc = "looking" /\ req[r].todo = {}
    /\ ~Passed(req[r]) \/ \E k \in At(req[r]) : k.cls = req[r].cls
    /\ Rollback(r)

CreateCommit(r) ==
    LET t == req[r]
    IN  /\ Passed(t)
        /\ \A k \in At(t) : k.cls # t.cls
        /\ slot' = slot \cup {[cls |-> t.cls, day |-> t.day, period |-> t.period]}
        /\ End(r)
        /\ UNCHANGED <<class, changed>>

DeleteSlot(k) ==
    /\ "delete" \in Ops
    /\ slot' = slot \ {k}
    /\ changed' = changed \ {k}
    /\ UNCHANGED <<class, locks, req>>

-----------------------------------------------------------------------------
(* What else writes the columns the rules read.                            *)

Changes(c) == changed' = changed \cup {k \in slot : k.cls = c}

\* attach_class: the section is locked before the class, and taken to be
\* free; the class is in no other section.
AttachLock(r, x, c) ==
    /\ "attach" \in Ops
    /\ req[r] = Idle
    /\ classLock[c] = None
    /\ class[c].section \in {None, x}
    /\ classLock' = [classLock EXCEPT ![c] = r]
    /\ Become(r, [Idle EXCEPT !.pc = "attach_locked", !.cls = c, !.sec = x])
    /\ UNCHANGED <<tables, periodLock>>

AttachCommit(r) ==
    /\ req[r].pc = "attach_locked"
    /\ class' = [class EXCEPT ![req[r].cls].section = req[r].sec]
    /\ Changes(req[r].cls)
    /\ End(r)
    /\ UNCHANGED slot

\* detach_class locks the class and writes it with nothing between.
Detach(c) ==
    /\ "detach" \in Ops
    /\ classLock[c] = None
    /\ class[c].section # None
    /\ class' = [class EXCEPT ![c] = Detached(@)]
    /\ UNCHANGED <<slot, changed, locks, req>>

\* Mutant: teacher_id is nullable, and the body names it as null.
PatchTeacherNull(c, t) ==
    /\ "patch_teacher" \in Ops
    /\ classLock[c] = None
    /\ class' = [class EXCEPT ![c].teacher = None]
    /\ Changes(c)
    /\ UNCHANGED <<slot, locks, req>>

\* ClassService.update: the UPDATE waits for the row, and looks at no slot.
PatchTeacher(c, t) ==
    /\ "patch_teacher" \in Ops
    /\ classLock[c] = None
    /\ class' = [class EXCEPT ![c].teacher = t]
    /\ Changes(c)
    /\ UNCHANGED <<slot, locks, req>>

PatchRoom(c, m) ==
    /\ "patch_room" \in Ops
    /\ classLock[c] = None
    /\ class' = [class EXCEPT ![c].room = m]
    /\ Changes(c)
    /\ UNCHANGED <<slot, locks, req>>

\* Any failure before the commit.
Abort(r) == req[r] # Idle /\ Rollback(r)

-----------------------------------------------------------------------------

Init ==
    /\ class \in [Classes -> ClassRow]
    /\ slot = {} /\ changed = {}
    /\ classLock = [c \in Classes |-> None]
    /\ periodLock = [p \in Periods |-> None]
    /\ req = [r \in Requests |-> Idle]

Start(r) ==
    \/ \E c \in Classes, d \in Days, p \in Periods : CreateLockClass(r, c, d, p)
    \/ \E x \in Sections, c \in Classes : AttachLock(r, x, c)

Continue(r) ==
    \/ CreateLockPeriod(r) \/ CreateCheckOwn(r) \/ CreateList(r)
    \/ \E c \in Classes : CreateLook(r, c)
    \/ CreateRefuse(r) \/ CreateCommit(r)
    \/ AttachCommit(r)

Single ==
    \/ \E k \in slot : DeleteSlot(k)
    \/ \E c \in Classes : Detach(c)
    \/ \E c \in Classes, t \in Teachers : PatchTeacher(c, t)
    \/ \E c \in Classes, m \in Rooms \cup {None} : PatchRoom(c, m)

Next ==
    \/ \E r \in Requests : Start(r) \/ Continue(r) \/ Abort(r)
    \/ Single

Spec == Init /\ [][Next]_vars

-----------------------------------------------------------------------------
(* What must hold.                                                         *)

SameTime(j, k) == j # k /\ j.day = k.day /\ j.period = k.period

\* Whoever schedules what at the same time, no teacher, room or section is in
\* two places at once but by a slot whose class was changed after it was
\* inserted.
NoDoubleBooking ==
    \A j, k \in slot : SameTime(j, k) /\ Conflict(class[j.cls], class[k.cls]) => {j, k} \cap changed # {}

\* A slot that conflicts when it is inserted does so with a class that has
\* changed since the request looked at it: no competitor is overlooked, and
\* the class scheduled is still what its locked read showed.
ConflictsOnlyUnseen ==
    [][\A k \in slot' \ slot, j \in slot :
         SameTime(j, k) /\ Conflict(class[k.cls], class[j.cls]) =>
            \E r \in Requests :
               /\ req[r].cls = k.cls /\ req'[r] # req[r]
               /\ \E o \in req[r].others : o[1] = j.cls /\ o[2] # class[j.cls]]_vars

\* Nobody waits in a circle: of any requests, one waits for none of them.  (A
\* request that waits for its first lock holds nothing others could wait for.)
NoDeadlock ==
    \A S \in SUBSET Requests :
        S # {} => \E r \in S : \A q \in S : ~WaitsFor(r, q)

\* What the comment on create's class lock says attach_class cannot do: two
\* classes of one section in one slot.
SectionInOnePlace ==
    \A j, k \in slot :
        SameTime(j, k) => class[j.cls].section = None \/ class[j.cls].section # class[k.cls].section

-----------------------------------------------------------------------------
(* The inductive invariant.                                                *)

LockedPeriodPCs == {"period_locked", "own_free", "looking"}

\* The row locks a request holds, and what the class's lock keeps.
HoldsLocks(r) ==
    /\ req[r].pc # "idle" => classLock[req[r].cls] = r
    /\ req[r].pc \in LockedPeriodPCs => periodLock[req[r].period] = r
    /\ req[r].pc \in CreatePCs => req[r].row = class[req[r].cls]

\* No competitor is overlooked: the period's lock lets nobody else insert at
\* that time.
Covers(r) ==
    req[r].pc = "looking" =>
        \A k \in At(req[r]) : k.cls # req[r].cls =>
            k.cls \in req[r].todo \/ \E o \in req[r].others : o[1] = k.cls

\* What was read of a competitor still stands, unless it has been changed
\* since, or detached.
LooksHigh(r) ==
    \A o \in req[r].others, k \in At(req[r]) :
        k.cls = o[1] /\ k \notin changed => class[k.cls] \in {o[2], Detached(o[2])}

\* A lock has a holder that is under way and has asked for it: none outlives
\* its transaction.
LocksOwned ==
    /\ \A c \in Classes : classLock[c] # None =>
         req[classLock[c]].pc # "idle" /\ req[classLock[c]].cls = c
    /\ \A p \in Periods : periodLock[p] # None =>
         req[periodLock[p]].pc \in LockedPeriodPCs /\ req[periodLock[p]].period = p

Sound ==
    /\ TypeOK
    /\ \A r \in Requests : HoldsLocks(r) /\ Covers(r) /\ LooksHigh(r)
    /\ NoDoubleBooking

Inductive == Sound /\ LocksOwned

\* No class that has a slot is attached to a section.
ScheduledNotAttached ==
    \A k \in slot : class'[k.cls].section \in {class[k.cls].section, None}

\* Without that, the section read of a competitor stands, or is given up.
SectionsSeen(r) ==
    \A o \in req[r].others, k \in At(req[r]) :
        k.cls = o[1] => class[k.cls].section \in {o[2].section, None}

SectionsApart == SectionInOnePlace /\ \A r \in Requests : SectionsSeen(r)
=============================================================================

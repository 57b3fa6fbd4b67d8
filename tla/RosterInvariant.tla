-------------------------- MODULE RosterInvariant --------------------------
(***************************************************************************)
(* The inductive invariant of Roster.  Each request has an assertion about *)
(* its own transaction and the rows it has locked or flushed; the tables   *)
(* and the pairs of requests have the rest.  A request's assertion stays   *)
(* true under the steps of the others because of what those steps may not  *)
(* do (Guarantee).                                                         *)
(***************************************************************************)
EXTENDS Roster

FanOutPCs  == {"assign_fanout", "attach_fanout"}
SectionPCs == AssignPCs \cup AttachPCs
ClassPCs   == {"attach_locked_class", "attach_fanout", "detach_locked",
               "enroll_locked", "enroll_checked"}
FlushedPCs == {"assign_inserted", "assign_fanout"}

\* The arguments a transaction has at each pc, and the pairs its fan-out may
\* touch.
WellFormed(t) ==
    /\ t.pc \in AssignPCs => t.st \in Students /\ t.sec \in Sections
    /\ t.pc \in AttachPCs \cup {"detach_locked"} => t.sec \in Sections /\ t.cls \in Classes
    /\ t.pc \in {"enroll_locked", "enroll_checked"} => t.st \in Students /\ t.cls \in Classes
    /\ t.pc = "term_read" => t.cls \in Classes /\ t.term \in Terms
    /\ t.pc \notin FanOutPCs => t.todo = {} /\ t.cur = None /\ t.rows = {}
    /\ t.pc = "assign_fanout" =>
         /\ \A p \in t.todo \cup t.rows : p[1] = t.st
         /\ t.cur # None => t.cur[1] = t.st
    /\ t.pc = "attach_fanout" =>
         /\ \A p \in t.todo \cup t.rows : p[2] = t.cls
         /\ t.cur # None => t.cur[2] = t.cls

TypeInv == TypeOK /\ \A r \in Requests : WellFormed(req[r])

\* The row locks a transaction's pc stands for.
HoldsLocks(r) ==
    /\ req[r].pc \in SectionPCs => sectionLock[req[r].sec] = r
    /\ req[r].pc \in ClassPCs => classLock[req[r].cls] = r

\* The enrollments it has entered are in no table, and it shares the classes of
\* those whose INSERT is over.
RowsPending(r) ==
    /\ \A p \in req[r].rows : enrollment[p] = "none"
    /\ \A p \in req[r].rows \ {req[r].cur} : classLock[p[2]] \in {None, r}

\* The fan-out of t has dealt with p, or will.
Covers(t, p) == p \in t.todo \/ p = t.cur \/ p \in t.rows \/ enrollment[p] # "none"

AssignCovers(r) ==
    req[r].pc = "assign_fanout" =>
        \A c \in Attached(req[r].sec) : Covers(req[r], <<req[r].st, c>>)

AttachCovers(r) ==
    req[r].pc = "attach_fanout" =>
        \A s \in RosterOf(req[r].sec) : Covers(req[r], <<s, req[r].cls>>)

\* Attaching a class that is attached already finds a row for everyone.
AttachIdempotent(r) ==
    req[r].pc = "attach_fanout" /\ classSection[req[r].cls] = req[r].sec =>
        \A p \in Pairs : p \in req[r].todo \cup req[r].rows \cup {req[r].cur} => enrollment[p] # "none"

\* What assign has checked still holds when it commits.
SeatKept(r) ==
    /\ req[r].pc \in AssignPCs => req[r].cap = sectionCap[req[r].sec]
    /\ req[r].pc \in AssignPCs \ {"assign_locked"} =>
         Cardinality(RosterOf(req[r].sec)) < req[r].cap

YearKept(r) ==
    req[r].pc \in FlushedPCs => ~AssignedInYear(req[r].st, SectionYear[req[r].sec])

\* What attach_class, detach_class and enroll have checked still holds.
ClassKept(r) ==
    /\ req[r].pc \in {"attach_locked_class", "attach_fanout"} =>
         Attachable(req[r].cls, req[r].sec)
    /\ req[r].pc = "detach_locked" => classSection[req[r].cls] = req[r].sec

PlaceKept(r) ==
    /\ req[r].pc \in {"enroll_locked", "enroll_checked"} => req[r].cap = classCap[req[r].cls]
    /\ req[r].pc = "enroll_checked" => Cardinality(ActiveIn(req[r].cls)) < req[r].cap

Assertion(r) ==
    /\ HoldsLocks(r) /\ RowsPending(r)
    /\ AssignCovers(r) /\ AttachCovers(r) /\ AttachIdempotent(r)
    /\ SeatKept(r) /\ YearKept(r) /\ ClassKept(r) /\ PlaceKept(r)

\* No two transactions have flushed the same unique key.
KeysDistinct ==
    \A q, r \in Requests : q # r =>
        /\ req[q].rows \cap req[r].rows = {}
        /\ \A s \in Students, y \in Years :
             ~(HasFlushedAssignment(q, s, y) /\ HasFlushedAssignment(r, s, y))

\* A lock has a holder that is under way and has asked for it: none outlives
\* its transaction.
LocksOwned ==
    /\ \A x \in Sections : sectionLock[x] # None =>
         req[sectionLock[x]].pc \in SectionPCs /\ req[sectionLock[x]].sec = x
    /\ \A c \in Classes : classLock[c] # None =>
         req[classLock[c]].pc \in ClassPCs /\ req[classLock[c]].cls = c

\* Inductive: every step from a state in which it holds keeps it.
Inductive ==
    /\ TypeInv
    /\ \A r \in Requests : Assertion(r)
    /\ KeysDistinct
    /\ LocksOwned
    /\ RosterEnrolled
    /\ OneSectionPerYear

\* What a step of r may do that others can see (r = None: a request of one
\* statement).  Others' locked rows, flushed keys and transactions stay.
Guarantee(r) ==
    /\ \A q \in Requests \ {r} : req'[q] = req[q]
    /\ \A x \in Sections : sectionLock[x] \notin {None, r} =>
         /\ sectionLock'[x] = sectionLock[x]
         /\ sectionCap'[x] = sectionCap[x]
         /\ RosterOf(x)' \subseteq RosterOf(x)
         /\ Attached(x)' \subseteq Attached(x)
    /\ \A c \in Classes : classLock[c] \notin {None, r} =>
         /\ classLock'[c] = classLock[c]
         /\ classCap'[c] = classCap[c]
         /\ classTerm'[c] = classTerm[c]
         /\ classSection'[c] = classSection[c]
         /\ ActiveIn(c)' \subseteq ActiveIn(c)
    /\ \A p \in Pairs : enrollment[p] # "none" => enrollment'[p] # "none"
    /\ \A q \in Requests \ {r} : \A p \in req[q].rows :
         /\ enrollment'[p] = enrollment[p]
         /\ p # req[q].cur => classLock'[p[2]] \in {None, classLock[p[2]]}
    /\ \A q \in Requests \ {r}, s \in Students, x \in Sections :
         HasFlushedAssignment(q, s, SectionYear[x]) /\ <<s, x>> \in assigned' => <<s, x>> \in assigned

\* No step of the system reaches into another request's transaction: the rule
\* that makes the assertions of the requests independent of each other.
StepsKeepOut == [][\E r \in Requests \cup {None} : Guarantee(r)]_vars

\* An attach_class and an assignment of one year never want the same enrollment.
HandsApart ==
    \A r, q \in Requests :
        /\ req[r].pc = "attach_fanout" /\ req[q].pc = "assign_fanout"
        /\ InHand(req[r]) \cap InHand(req[q]) # {}
        => YearsCross(r, q)

\* No circle of fan-outs: of any requests, one waits for none of them, or an
\* enroll and an assignment meet on one enrollment.
OnlyEnrollsCircle ==
    \A S \in SUBSET Requests :
        \/ S = {}
        \/ \E r \in S : \A q \in S : ~WaitsFor(r, q)
        \/ \E r, q \in S : EnrollMeetsFanOut(r, q)

\* No PATCH moves a class to a term of another academic year.
YearsStay == \A c \in Classes : TermYear[classTerm'[c]] = TermYear[classTerm[c]]

\* While years stay, assign touches classes of its section's year alone: two
\* assignments of a student in two years never want the same enrollment.
InSectionYear(t) ==
    t.pc = "assign_fanout" =>
        \A p \in InHand(t) : TermYear[classTerm[p[2]]] = SectionYear[t.sec]

YearsAgree == AttachedClassInSectionYear /\ \A r \in Requests : InSectionYear(req[r])

\* Enough for the years to stay: no term is ever changed, or all lie in one year.
NoYearMoves == "class_term" \in Ops => \A t, u \in Terms : TermYear[t] = TermYear[u]

NoTermChanges == "class_term" \notin Ops => \A r \in Requests : req[r].pc # "term_read"

\* Nobody leaves a roster, no attached class its section, no section loses
\* seats, and no student is enrolled on their own.
SeatsOnlyFill ==
    /\ assigned \subseteq assigned'
    /\ \A c \in Classes : classSection[c] # None => classSection'[c] = classSection[c]
    /\ \A x \in Sections : sectionCap'[x] >= sectionCap[x]
    /\ enrollment' # enrollment => \A r \in Requests : ~EnrollCommit(r)

\* Then whoever has a row in a class, or is about to have one, is on the
\* roster of the class's section.
RowsRostered ==
    \A s \in Students, c \in Classes : enrollment[<<s, c>>] # "none" =>
        classSection[c] # None /\ <<s, classSection[c]>> \in assigned

InHandRostered(t) ==
    /\ t.pc = "assign_fanout" => \A p \in InHand(t) : classSection[p[2]] = t.sec
    /\ t.pc = "attach_fanout" => \A p \in InHand(t) : <<p[1], t.sec>> \in assigned

Seated ==
    /\ RowsRostered
    /\ \A r \in Requests : InHandRostered(req[r])
    /\ \A x \in Sections : Cardinality(RosterOf(x)) <= sectionCap[x]
=============================================================================

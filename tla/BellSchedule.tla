---------------------------- MODULE BellSchedule ----------------------------
(***************************************************************************)
(* The periods of the school day: PeriodService, the constraints of the    *)
(* table (the exclusion constraint of migration 5a1c9e2f7b04 among them)   *)
(* and the errors they are translated to.  Every rule of the timetable     *)
(* takes for granted that no two periods share a moment.                   *)
(***************************************************************************)
EXTENDS Naturals

CONSTANTS
    Periods,    \* ids, never given twice
    Names,
    Times,      \* moments of the day: numbers
    Requests    \* HTTP requests that can be under way at once

VARIABLES
    period,     \* periods: the row of each id there is
    slots,      \* the periods that schedule_slots refer to
    past,       \* ids used
    work        \* what each request has read, or how it was refused

vars == <<period, slots, past, work>>

-----------------------------------------------------------------------------

Period == [name: Names, start: Times, end: Times]

\* The columns an update sets, where they differ from the row it read.
Ends == [start: Times] \cup [end: Times] \cup [start: Times, end: Times]
Update == [name: Names] \cup Ends

Errors == {"exists", "overlaps", "in use"}

Idle == [pc |-> "idle"]
Work ==
    {Idle}
      \cup [pc: {"create_checked"}, row: Period]
      \cup [pc: {"update_checked"}, id: Periods, loaded: Period, set: Update]
      \cup [pc: {"delete_read"}, id: Periods]
      \cup [pc: {"refused"}, error: Errors]

TypeOK ==
    /\ DOMAIN period \subseteq past
    /\ past \subseteq Periods
    /\ \A p \in DOMAIN period : period[p] \in Period
    /\ slots \subseteq Periods
    /\ work \in [Requests -> Work]

Become(r, w) == work' = [work EXCEPT ![r] = w]

\* Mutant: two periods clash when one holds the other's start.
StartsIn(x, y) == x.start <= y.start /\ y.start <= x.end /\ x # y /\ x.start # y.start

\* tsrange && tsrange: half-open ranges.
Overlap(x, y) == x.start < y.end /\ y.start < x.end

\* The constraints a row would violate beside these.
Violated(ids, row) ==
    LET others == {period[q] : q \in ids}
    IN  {c \in {"check", "name", "overlap"} :
            \/ c = "check" /\ row.end <= row.start
            \/ c = "name" /\ \E x \in others : x.name = row.name
            \/ c = "overlap" /\ \E x \in others : Overlap(x, row)}

\* What getattr(exc.orig, "constraint_name", None) finds.  exc.orig is the
\* error of SQLAlchemy's adapter, which carries the SQLSTATE; the name is on
\* asyncpg's own error, one __cause__ further.
NameOnOrig(constraint) == "None"

\* _translate_period_integrity_error
Translate(constraint) == IF NameOnOrig(constraint) = "overlap" THEN "overlaps" ELSE "exists"

\* PostgreSQL checks the row, then the indexes; the first violation is told.
First(cs) == IF "check" \in cs THEN {"check"} ELSE cs

-----------------------------------------------------------------------------

\* Validated by the schema; get_by_name finds no row.
CreateCheck(r, row) ==
    /\ work[r] = Idle
    /\ row.start < row.end
    /\ \A q \in DOMAIN period : period[q].name # row.name
    /\ Become(r, [pc |-> "create_checked", row |-> row])
    /\ UNCHANGED <<period, slots, past>>

CreateCommit(r, p) ==
    /\ work[r].pc = "create_checked"
    /\ p \in Periods \ past
    /\ Violated(DOMAIN period, work[r].row) = {}
    /\ period' = [q \in DOMAIN period \cup {p} |-> IF q = p THEN work[r].row ELSE period[q]]
    /\ past' = past \cup {p}
    /\ Become(r, Idle)
    /\ UNCHANGED slots

\* Mutant: the ends are compared only when an update has both.
UpdateCheckOneEnd(r, p, set) ==
    /\ work[r] = Idle
    /\ p \in DOMAIN period
    /\ \A f \in DOMAIN set : set[f] # period[p][f]
    /\ "name" \in DOMAIN set => \A q \in DOMAIN period : period[q].name # set.name
    /\ {"start", "end"} \subseteq DOMAIN set => set.start < set.end
    /\ Become(r, [pc |-> "update_checked", id |-> p, loaded |-> period[p], set |-> set])
    /\ UNCHANGED <<period, slots, past>>

\* A partial update is held against the other end as it was read.
UpdateCheck(r, p, set) ==
    /\ work[r] = Idle
    /\ p \in DOMAIN period
    /\ LET old == period[p]
           new(f) == IF f \in DOMAIN set THEN set[f] ELSE old[f]
       IN  /\ \A f \in DOMAIN set : set[f] # old[f]
           /\ "name" \in DOMAIN set => \A q \in DOMAIN period : period[q].name # set.name
           /\ new("start") < new("end")
           /\ Become(r, [pc |-> "update_checked", id |-> p, loaded |-> old, set |-> set])
    /\ UNCHANGED <<period, slots, past>>

\* Only the columns that were set are written.
Updated(w) ==
    [f \in DOMAIN w.loaded |-> IF f \in DOMAIN w.set THEN w.set[f] ELSE period[w.id][f]]

UpdateCommit(r) ==
    LET w == work[r]
    IN  /\ w.pc = "update_checked"
        /\ w.id \in DOMAIN period
        /\ Violated(DOMAIN period \ {w.id}, Updated(w)) = {}
        /\ period' = [period EXCEPT ![w.id] = Updated(w)]
        /\ Become(r, Idle)
        /\ UNCHANGED <<slots, past>>

\* The insert or update of a row that violates a constraint.
Refuse(r) ==
    LET w == work[r]
    IN  /\ \/ w.pc = "create_checked"
              /\ \E c \in First(Violated(DOMAIN period, w.row)) :
                     Become(r, [pc |-> "refused", error |-> Translate(c)])
           \/ w.pc = "update_checked" /\ w.id \in DOMAIN period
              /\ \E c \in First(Violated(DOMAIN period \ {w.id}, Updated(w))) :
                     Become(r, [pc |-> "refused", error |-> Translate(c)])
        /\ UNCHANGED <<period, slots, past>>

-----------------------------------------------------------------------------

DeleteRead(r, p) ==
    /\ work[r] = Idle
    /\ p \in DOMAIN period
    /\ Become(r, [pc |-> "delete_read", id |-> p])
    /\ UNCHANGED <<period, slots, past>>

\* The slots' foreign key is RESTRICT, and PeriodInUseError is what it says.
Delete(r) ==
    LET p == work[r].id
    IN  /\ work[r].pc = "delete_read"
        /\ IF p \in slots
             THEN Become(r, [pc |-> "refused", error |-> "in use"]) /\ UNCHANGED period
             ELSE Become(r, Idle) /\ period' = [q \in DOMAIN period \ {p} |-> period[q]]
        /\ UNCHANGED <<slots, past>>

\* ScheduleSlotService; Timetable has its conditions.
Schedule(p) == p \in DOMAIN period \ slots /\ slots' = slots \cup {p} /\ UNCHANGED <<period, past, work>>
Unschedule(p) == p \in slots /\ slots' = slots \ {p} /\ UNCHANGED <<period, past, work>>

\* A crash or a refusal above, or the answer of a refusal.
Abort(r) == work[r] # Idle /\ Become(r, Idle) /\ UNCHANGED <<period, slots, past>>

Init ==
    /\ period = [p \in {} |-> p]
    /\ slots = {}
    /\ past = {}
    /\ work = [r \in Requests |-> Idle]

Next ==
    \/ \E r \in Requests :
          \/ \E row \in Period : CreateCheck(r, row)
          \/ \E p \in Periods :
                CreateCommit(r, p) \/ DeleteRead(r, p) \/ \E set \in Update : UpdateCheck(r, p, set)
          \/ UpdateCommit(r) \/ Refuse(r) \/ Delete(r) \/ Abort(r)
    \/ \E p \in Periods : Schedule(p) \/ Unschedule(p)

Spec == Init /\ [][Next]_vars

-----------------------------------------------------------------------------
(* What must hold.                                                         *)

\* What the conflict rules of the timetable stand on: at no moment are there
\* two periods, and every period has a length.  Concurrent creates and
\* partial updates are each fine against what they read.
OnePeriodAtATime ==
    \A p, q \in DOMAIN period :
        /\ period[p].start < period[p].end
        /\ p # q => \A t \in Times : ~(period[p].start <= t /\ t < period[p].end
                                         /\ period[q].start <= t /\ t < period[q].end)

\* A period that is scheduled stays, whatever a delete read before.
ScheduledPeriodStays == slots \subseteq DOMAIN period

\* What the checks let through is refused by the table only on account of
\* others: a period that has the name or a moment of the row, slots that refer
\* to it, or an update that wrote the other end after this one had read it.
\* Which of them it was the answer does not tell: all but the slots are told
\* as a name that is taken.
RefusalsHaveCause ==
    \A r \in Requests :
        work[r].pc # "refused" /\ work'[r].pc = "refused" =>
            LET w == work[r]
                row == IF w.pc = "create_checked" THEN w.row ELSE Updated(w)
                others == {period[q] : q \in {p \in DOMAIN period : w.pc = "update_checked" => p # w.id}}
            IN  IF work'[r].error = "in use"
                  THEN w.id \in slots
                  ELSE \/ \E x \in others : x.name = row.name \/ Overlap(x, row)
                       \/ w.pc = "update_checked" /\ w.loaded # period[w.id]

\* What the timetable takes for granted of its periods.
PeriodsAreSound == OnePeriodAtATime /\ ScheduledPeriodStays
=============================================================================

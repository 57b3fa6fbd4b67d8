---------------------------- MODULE RecordsProofs ----------------------------
(***************************************************************************)
(* Proofs about Records: a section for each of the modules that have no    *)
(* proofs of their own, and then what follows for all the parts.  Lemmas   *)
(* about change requests, credentials and grades come with the instances   *)
(* of their proof modules.                                                 *)
(***************************************************************************)
EXTENDS Records, SequenceTheorems, FiniteSetTheorems, FiniteSets, TLAPS

-----------------------------------------------------------------------------
(* BellSchedule: a checked row lasts, and the constraints decide.          *)

\* What a request has checked: the row it asks for is a span.
BellsSound(w) ==
    /\ w.pc = "create_checked" => w.row \in Bells!Period /\ w.row.start < w.row.end
    /\ w.pc = "update_checked" =>
         LET new(f) == IF f \in DOMAIN w.set THEN w.set[f] ELSE w.loaded[f]
         IN  /\ w.loaded \in Bells!Period
             /\ w.set \in Bells!Update
             /\ new("start") < new("end")

BellsInductive == Bells!TypeOK /\ (\A r \in Requests : BellsSound(work[r])) /\ Bells!PeriodsAreSound

LEMMA BellsIdleWork == Bells!Idle \in Bells!Work /\ Bells!Idle.pc = "idle" /\ BellsSound(Bells!Idle)
  BY DEF Bells!Idle, Bells!Work, BellsSound

LEMMA RefusedWork ==
    ASSUME NEW e \in Bells!Errors
    PROVE  /\ [pc |-> "refused", error |-> e] \in Bells!Work
           /\ BellsSound([pc |-> "refused", error |-> e])
  BY DEF Bells!Work, BellsSound

\* A partial update leaves a period where there was one.
LEMMA UpdatedRow ==
    ASSUME NEW w, w.loaded \in Bells!Period, w.set \in Bells!Update, period[w.id] \in Bells!Period
    PROVE  /\ Bells!Updated(w) \in Bells!Period
           /\ period[w.id] = w.loaded =>
                Bells!Updated(w) = 
                   [f \in DOMAIN w.loaded |-> IF f \in DOMAIN w.set THEN w.set[f] ELSE w.loaded[f]]
  <1>1. /\ DOMAIN w.loaded = {"name", "start", "end"}
        /\ period[w.id].name \in Names.bells /\ period[w.id].start \in Times /\ period[w.id].end \in Times
    BY DEF Bells!Period
  <1>2. /\ "name" \in DOMAIN w.set => w.set["name"] \in Names.bells
        /\ "start" \in DOMAIN w.set => w.set["start"] \in Times
        /\ "end" \in DOMAIN w.set => w.set["end"] \in Times
    BY DEF Bells!Update, Bells!Ends
  <1> QED BY <1>1, <1>2 DEF Bells!Updated, Bells!Period

\* Steps that write no row: another step of a request, or its answer.
LEMMA BellsReadsInv ==
    ASSUME BellsInductive, NEW r \in Requests, NEW w \in Bells!Work, BellsSound(w), Bells!Become(r, w),
           UNCHANGED <<period, slots, past>>
    PROVE  BellsInductive'
  <1>1. work' \in [Requests -> Bells!Work] /\ \A q \in Requests : work'[q] = IF q = r THEN w ELSE work[q]
    BY DEF Bells!Become, BellsInductive, Bells!TypeOK
  <1>2. Bells!TypeOK'
    BY <1>1 DEF BellsInductive, Bells!TypeOK
  <1>3. \A q \in Requests : BellsSound(work'[q])
    BY <1>1 DEF BellsInductive
  <1> QED BY <1>2, <1>3
          DEF BellsInductive, BellsSound, Bells!PeriodsAreSound, Bells!OnePeriodAtATime,
              Bells!ScheduledPeriodStays

LEMMA CreateCheckInv ==
    ASSUME BellsInductive, NEW r \in Requests, NEW hours \in Bells!Period, Bells!CreateCheck(r, hours)
    PROVE  BellsInductive'
  <1> DEFINE w == [pc |-> "create_checked", row |-> hours]
  <1>1. w \in Bells!Work /\ BellsSound(w)
    BY DEF Bells!CreateCheck, Bells!Work, BellsSound
  <1> QED BY <1>1, BellsReadsInv DEF Bells!CreateCheck

LEMMA UpdateCheckInv ==
    ASSUME BellsInductive, NEW r \in Requests, NEW p \in Periods, NEW set \in Bells!Update,
           Bells!UpdateCheck(r, p, set)
    PROVE  BellsInductive'
  <1> DEFINE w == [pc |-> "update_checked", id |-> p, loaded |-> period[p], set |-> set]
  <1>1. period[p] \in Bells!Period /\ Bells!Become(r, w) /\ UNCHANGED <<period, slots, past>>
    BY DEF Bells!UpdateCheck, BellsInductive, Bells!TypeOK
  <1>2. w \in Bells!Work
    BY <1>1 DEF Bells!Work
  <1>3. BellsSound(w)
    BY <1>1 DEF BellsSound, Bells!UpdateCheck
  <1> QED BY <1>1, <1>2, <1>3, BellsReadsInv

LEMMA RefuseInv ==
    ASSUME BellsInductive, NEW r \in Requests, Bells!Refuse(r)
    PROVE  BellsInductive'
  <1>1. PICK c :
                Bells!Become(r, [pc |-> "refused", error |-> Bells!Translate(c)])
    BY DEF Bells!Refuse
  <1>2. Bells!Translate(c) \in Bells!Errors
    BY DEF Bells!Translate, Bells!NameOnOrig, Bells!Errors
  <1> QED BY <1>1, <1>2, RefusedWork, BellsReadsInv DEF Bells!Refuse

LEMMA DeleteReadInv ==
    ASSUME BellsInductive, NEW r \in Requests, NEW p \in Periods, Bells!DeleteRead(r, p)
    PROVE  BellsInductive'
  <1> DEFINE w == [pc |-> "delete_read", id |-> p]
  <1>1. w \in Bells!Work /\ BellsSound(w)
    BY DEF Bells!Work, BellsSound
  <1> QED BY <1>1, BellsReadsInv DEF Bells!DeleteRead

LEMMA BellsAbortInv ==
    ASSUME BellsInductive, NEW r \in Requests, Bells!Abort(r)
    PROVE  BellsInductive'
  BY BellsIdleWork, BellsReadsInv DEF Bells!Abort

\* A row that violates no constraint shares no moment with the others.
LEMMA NoneViolated ==
    ASSUME Times \subseteq Nat, NEW ids, NEW hours \in Bells!Period, \A q \in ids : period[q] \in Bells!Period,
           Bells!Violated(ids, hours) = {}
    PROVE  /\ hours.start < hours.end
           /\ \A q \in ids : \A t \in Times :
                ~(period[q].start <= t /\ t < period[q].end /\ hours.start <= t /\ t < hours.end)
  <1> DEFINE others == {period[q] : q \in ids}
  <1>1. "check" \notin Bells!Violated(ids, hours) /\ "overlap" \notin Bells!Violated(ids, hours)
    OBVIOUS
  <1>2. ~(hours.end <= hours.start)
    BY <1>1 DEF Bells!Violated
  <1>3. \A x \in others : ~Bells!Overlap(x, hours)
    BY <1>1 DEF Bells!Violated
  <1>4. hours.start \in Nat /\ hours.end \in Nat
        /\ \A q \in ids : period[q].start \in Nat /\ period[q].end \in Nat
    BY DEF Bells!Period
  <1>5. ASSUME NEW q \in ids, NEW t \in Times,
               period[q].start <= t, t < period[q].end, hours.start <= t, t < hours.end
        PROVE  FALSE
    <2>1. ~(period[q].start < hours.end /\ hours.start < period[q].end)
      BY <1>3 DEF Bells!Overlap
    <2>2. t \in Nat
      OBVIOUS
    <2> QED BY <1>4, <1>5, <2>1, <2>2
  <1> QED BY <1>2, <1>4, <1>5

\* The row p is put among the others.
LEMMA PutInv ==
    ASSUME Times \subseteq Nat, BellsInductive, NEW r \in Requests, NEW p \in Periods,
           NEW hours \in Bells!Period,
           p \notin slots \/ p \in DOMAIN period,
           Bells!Violated(DOMAIN period \ {p}, hours) = {},
           DOMAIN period' = DOMAIN period \cup {p}, period'[p] = hours,
           \A q \in DOMAIN period \ {p} : period'[q] = period[q],
           past' = past \cup {p}, Bells!Become(r, Bells!Idle), UNCHANGED slots
    PROVE  BellsInductive'
  <1>1. work' \in [Requests -> Bells!Work]
        /\ \A q \in Requests : work'[q] = IF q = r THEN Bells!Idle ELSE work[q]
    BY BellsIdleWork DEF Bells!Become, BellsInductive, Bells!TypeOK
  <1>2. Bells!TypeOK'
    BY <1>1 DEF BellsInductive, Bells!TypeOK
  <1>3. \A q \in Requests : BellsSound(work'[q])
    BY <1>1, BellsIdleWork DEF BellsInductive
  <1>4. /\ hours.start < hours.end
        /\ \A q \in DOMAIN period \ {p} : \A t \in Times :
                ~(period[q].start <= t /\ t < period[q].end /\ hours.start <= t /\ t < hours.end)
    <2>1. \A q \in DOMAIN period \ {p} : period[q] \in Bells!Period
      BY DEF BellsInductive, Bells!TypeOK
    <2> QED BY <2>1, NoneViolated
  <1>5. Bells!OnePeriodAtATime'
    BY <1>4 DEF BellsInductive, Bells!PeriodsAreSound, Bells!OnePeriodAtATime
  <1>6. Bells!ScheduledPeriodStays'
    BY DEF BellsInductive, Bells!PeriodsAreSound, Bells!ScheduledPeriodStays
  <1> QED BY <1>2, <1>3, <1>5, <1>6 DEF BellsInductive, BellsSound, Bells!PeriodsAreSound

LEMMA CreateCommitInv ==
    ASSUME Times \subseteq Nat, BellsInductive, NEW r \in Requests, NEW p \in Periods, Bells!CreateCommit(r, p)
    PROVE  BellsInductive'
  <1>1. work[r].row \in Bells!Period /\ DOMAIN period \ {p} = DOMAIN period /\ p \notin slots
    BY DEF Bells!CreateCommit, BellsInductive, BellsSound, Bells!TypeOK, Bells!PeriodsAreSound,
           Bells!ScheduledPeriodStays
  <1> QED BY <1>1, PutInv DEF Bells!CreateCommit

LEMMA UpdateCommitInv ==
    ASSUME Times \subseteq Nat, BellsInductive, NEW r \in Requests, Bells!UpdateCommit(r)
    PROVE  BellsInductive'
  <1> DEFINE w == work[r]
  <1>1. /\ w.pc = "update_checked" /\ w.id \in DOMAIN period /\ period[w.id] \in Bells!Period
        /\ w.id \in Periods /\ w.id \in past /\ w.loaded \in Bells!Period /\ w.set \in Bells!Update
    BY DEF Bells!UpdateCommit, BellsInductive, BellsSound, Bells!TypeOK
  <1>2. Bells!Updated(w) \in Bells!Period
    BY <1>1, UpdatedRow
  <1>3. /\ DOMAIN period' = DOMAIN period \cup {w.id} /\ period'[w.id] = Bells!Updated(w)
        /\ \A q \in DOMAIN period \ {w.id} : period'[q] = period[q]
        /\ past' = past \cup {w.id}
    BY <1>1 DEF Bells!UpdateCommit
  <1> HIDE DEF w
  <1> QED BY <1>1, <1>2, <1>3, PutInv DEF Bells!UpdateCommit, w

LEMMA BellsDeleteInv ==
    ASSUME BellsInductive, NEW r \in Requests, Bells!Delete(r)
    PROVE  BellsInductive'
  <1>1. CASE UNCHANGED period
    <2>1. \E w \in Bells!Work : Bells!Become(r, w) /\ BellsSound(w)
      <3>1. "in use" \in Bells!Errors
        BY DEF Bells!Errors
      <3>2. Bells!Become(r, Bells!Idle) \/ Bells!Become(r, [pc |-> "refused", error |-> "in use"])
        BY DEF Bells!Delete
      <3> QED BY <3>1, <3>2, BellsIdleWork, RefusedWork
    <2>2. UNCHANGED <<period, slots, past>>
      BY <1>1 DEF Bells!Delete
    <2> QED BY <2>1, <2>2, BellsReadsInv
  <1>2. CASE /\ work[r].id \notin slots /\ Bells!Become(r, Bells!Idle)
             /\ period' = [q \in DOMAIN period \ {work[r].id} |-> period[q]]
    <2>1. work' \in [Requests -> Bells!Work]
          /\ \A q \in Requests : work'[q] = IF q = r THEN Bells!Idle ELSE work[q]
      BY <1>2, BellsIdleWork DEF Bells!Become, BellsInductive, Bells!TypeOK
    <2>2. UNCHANGED <<slots, past>>
      BY DEF Bells!Delete
    <2>3. Bells!TypeOK'
      BY <1>2, <2>1, <2>2 DEF BellsInductive, Bells!TypeOK
    <2>4. \A q \in Requests : BellsSound(work'[q])
      BY <2>1, BellsIdleWork DEF BellsInductive
    <2>5. Bells!PeriodsAreSound'
      BY <1>2, <2>2
      DEF BellsInductive, Bells!PeriodsAreSound, Bells!OnePeriodAtATime, Bells!ScheduledPeriodStays
    <2> QED BY <2>3, <2>4, <2>5 DEF BellsInductive, BellsSound
  <1> QED BY <1>1, <1>2 DEF Bells!Delete

LEMMA ScheduleInv ==
    ASSUME BellsInductive, NEW p \in Periods, Bells!Schedule(p) \/ Bells!Unschedule(p)
    PROVE  BellsInductive'
  <1>1. UNCHANGED <<period, past, work>>
        /\ (slots' = slots \ {p} \/ (p \in DOMAIN period /\ slots' = slots \cup {p}))
    BY DEF Bells!Schedule, Bells!Unschedule
  <1> QED BY <1>1
          DEF BellsInductive, Bells!TypeOK, BellsSound, Bells!PeriodsAreSound, Bells!OnePeriodAtATime,
              Bells!ScheduledPeriodStays

LEMMA BellsInitInv == Bells!Init => BellsInductive
  BY BellsIdleWork
  DEF Bells!Init, BellsInductive, Bells!TypeOK, BellsSound, Bells!PeriodsAreSound, Bells!OnePeriodAtATime,
      Bells!ScheduledPeriodStays

LEMMA BellsStepInv ==
    ASSUME Times \subseteq Nat, BellsInductive, [Bells!Next]_Bells!vars
    PROVE  BellsInductive'
  <1>1. CASE UNCHANGED Bells!vars
    BY <1>1
    DEF Bells!vars, BellsInductive, Bells!TypeOK, BellsSound, Bells!PeriodsAreSound, Bells!OnePeriodAtATime,
        Bells!ScheduledPeriodStays
  <1> QED BY <1>1, CreateCheckInv, CreateCommitInv, DeleteReadInv, UpdateCheckInv, UpdateCommitInv, RefuseInv,
             BellsDeleteInv, BellsAbortInv, ScheduleInv DEF Bells!Next


\* A row is refused for another's name or hours; an update whose ends cross,
\* only where the row is not the one that was loaded.
LEMMA RefuseHasCause ==
    ASSUME Times \subseteq Nat, BellsInductive, NEW r \in Requests, Bells!Refuse(r)
    PROVE  Bells!RefusalsHaveCause
  <1> SUFFICES ASSUME NEW q \in Requests, work[q].pc # "refused", work'[q].pc = "refused"
               PROVE  LET w == work[q]
                          hours == IF w.pc = "create_checked" THEN w.row ELSE Bells!Updated(w)
                          others == {period[i] : i \in {p \in DOMAIN period : w.pc = "update_checked" => p # w.id}}
                      IN  /\ \/ \E x \in others : x.name = hours.name \/ Bells!Overlap(x, hours)
                             \/ w.pc = "update_checked" /\ w.loaded # period[w.id]
                          /\ work'[q].error # "in use"
    BY DEF Bells!RefusalsHaveCause
  <1>1. q = r
    BY DEF Bells!Refuse, Bells!Become, BellsInductive, Bells!TypeOK
  <1> DEFINE w == work[r]
             hours == IF w.pc = "create_checked" THEN w.row ELSE Bells!Updated(w)
             ids == {p \in DOMAIN period : w.pc = "update_checked" => p # w.id}
             others == {period[i] : i \in ids}
  <1>2. PICK c \in Bells!First(Bells!Violated(ids, hours)) :
            work'[r] = [pc |-> "refused", error |-> Bells!Translate(c)]
    <2>1. CASE w.pc = "create_checked"
      <3>1. ids = DOMAIN period
        BY <2>1
      <3>2. \E c \in Bells!First(Bells!Violated(ids, hours)) :
                Bells!Become(r, [pc |-> "refused", error |-> Bells!Translate(c)])
        BY <2>1, <3>1 DEF Bells!Refuse
      <3> QED BY <3>2 DEF Bells!Become, BellsInductive, Bells!TypeOK
    <2>2. CASE w.pc = "update_checked"
      <3>1. ids = DOMAIN period \ {w.id}
        BY <2>2
      <3>2. \E c \in Bells!First(Bells!Violated(ids, hours)) :
                Bells!Become(r, [pc |-> "refused", error |-> Bells!Translate(c)])
        BY <2>2, <3>1 DEF Bells!Refuse
      <3> QED BY <3>2 DEF Bells!Become, BellsInductive, Bells!TypeOK
    <2> QED BY <2>1, <2>2 DEF Bells!Refuse
  <1>3. c \in Bells!Violated(ids, hours)
    BY <1>2 DEF Bells!First
  <1>4. c = "name" => \E x \in others : x.name = hours.name
    BY <1>3 DEF Bells!Violated
  <1>5. c = "overlap" => \E x \in others : Bells!Overlap(x, hours)
    BY <1>3 DEF Bells!Violated
  <1>6. c = "check" => w.pc = "update_checked" /\ w.loaded # period[w.id]
    <2> SUFFICES ASSUME c = "check" PROVE w.pc = "update_checked" /\ w.loaded # period[w.id]
      OBVIOUS
    <2>1. hours.end <= hours.start
      BY <1>3 DEF Bells!Violated
    <2>2. CASE w.pc = "create_checked"
      <3>1. w.row.start < w.row.end /\ w.row \in Bells!Period
        BY <2>2 DEF BellsInductive, BellsSound
      <3>2. w.row.start \in Nat /\ w.row.end \in Nat
        BY <3>1 DEF Bells!Period
      <3> QED BY <2>1, <2>2, <3>1, <3>2
    <2>3. CASE w.pc = "update_checked" /\ w.loaded = period[w.id]
      <3> DEFINE new(f) == IF f \in DOMAIN w.set THEN w.set[f] ELSE w.loaded[f]
      <3>1. w.loaded \in Bells!Period /\ w.set \in Bells!Update /\ new("start") < new("end")
        BY <2>3 DEF BellsInductive, BellsSound
      <3>2. hours \in Bells!Period /\ hours = [f \in DOMAIN w.loaded |-> new(f)]
        BY <2>3, <3>1, UpdatedRow
      <3>3. hours.start = new("start") /\ hours.end = new("end")
        BY <3>1, <3>2 DEF Bells!Period
      <3>4. hours.start \in Nat /\ hours.end \in Nat
        BY <3>2 DEF Bells!Period
      <3> QED BY <2>1, <3>1, <3>3, <3>4
    <2> QED BY <2>2, <2>3 DEF Bells!Refuse
  <1>7. c \in {"check", "name", "overlap"}
    BY <1>3 DEF Bells!Violated
  <1>8. work'[r].error # "in use"
    BY <1>2 DEF Bells!Translate, Bells!NameOnOrig
  <1> HIDE DEF others, hours, ids
  <1>9. \/ \E x \in others : x.name = hours.name \/ Bells!Overlap(x, hours)
        \/ w.pc = "update_checked" /\ w.loaded # period[w.id]
    BY <1>4, <1>5, <1>6, <1>7
  <1> QED BY <1>1, <1>8, <1>9 DEF others, hours, ids

LEMMA OthersRefuseNothing ==
    ASSUME BellsInductive, Bells!Next, \A r \in Requests : ~Bells!Refuse(r)
    PROVE  Bells!RefusalsHaveCause
  <1> SUFFICES ASSUME NEW q \in Requests, work[q].pc # "refused", work'[q].pc = "refused"
               PROVE  work'[q].error = "in use" /\ work[q].id \in slots
    BY DEF Bells!RefusalsHaveCause
  <1>0. work \in [Requests -> Bells!Work]
    BY DEF BellsInductive, Bells!TypeOK
  <1>1. PICK r \in Requests :
          \/ \E w : Bells!Become(r, w) /\ w.pc # "refused"
          \/ Bells!Delete(r)
    <2>1. ~\E p \in Periods : Bells!Schedule(p) \/ Bells!Unschedule(p)
      BY DEF Bells!Schedule, Bells!Unschedule
    <2>2. PICK r \in Requests :
            \/ \E hours \in Bells!Period : Bells!CreateCheck(r, hours)
            \/ \E p \in Periods :
                  Bells!CreateCommit(r, p) \/ Bells!DeleteRead(r, p)
                  \/ \E set \in Bells!Update : Bells!UpdateCheck(r, p, set)
            \/ Bells!UpdateCommit(r) \/ Bells!Delete(r) \/ Bells!Abort(r)
      BY <2>1 DEF Bells!Next
    <2>3. CASE ~Bells!Delete(r)
      <3>1. ASSUME NEW hours \in Bells!Period, Bells!CreateCheck(r, hours)
            PROVE  \E w : Bells!Become(r, w) /\ w.pc # "refused"
        BY <3>1 DEF Bells!CreateCheck
      <3>2. ASSUME NEW p \in Periods, Bells!DeleteRead(r, p) PROVE \E w : Bells!Become(r, w) /\ w.pc # "refused"
        BY <3>2 DEF Bells!DeleteRead
      <3>3. ASSUME NEW p \in Periods, NEW set \in Bells!Update, Bells!UpdateCheck(r, p, set)
            PROVE  \E w : Bells!Become(r, w) /\ w.pc # "refused"
        BY <3>3 DEF Bells!UpdateCheck
      <3>4. ASSUME Bells!UpdateCommit(r) \/ Bells!Abort(r) \/ \E p \in Periods : Bells!CreateCommit(r, p)
            PROVE  \E w : Bells!Become(r, w) /\ w.pc # "refused"
        BY <3>4, BellsIdleWork DEF Bells!CreateCommit, Bells!UpdateCommit, Bells!Abort
      <3> QED BY <2>2, <2>3, <3>1, <3>2, <3>3, <3>4
    <2> QED BY <2>3
  <1>2. q = r /\ Bells!Delete(r)
    <2>1. \E w : Bells!Become(r, w)
      <3>1. CASE Bells!Delete(r)
        BY <3>1 DEF Bells!Delete
      <3> QED BY <1>1, <3>1
    <2>2. q = r
      BY <1>0, <2>1 DEF Bells!Become
    <2>3. ASSUME NEW w, Bells!Become(r, w), w.pc # "refused" PROVE FALSE
      BY <1>0, <2>2, <2>3 DEF Bells!Become
    <2> QED BY <1>1, <2>2, <2>3
  <1> DEFINE inUse == [pc |-> "refused", error |-> "in use"]
  <1>3. Bells!Become(r, Bells!Idle) \/ (work[r].id \in slots /\ Bells!Become(r, inUse))
    BY <1>2 DEF Bells!Delete
  <1>4. ASSUME Bells!Become(r, Bells!Idle) PROVE FALSE
    BY <1>0, <1>2, <1>4, BellsIdleWork DEF Bells!Become
  <1>5. ASSUME Bells!Become(r, inUse) PROVE work'[q].error = "in use"
    BY <1>0, <1>2, <1>5 DEF Bells!Become
  <1> HIDE DEF inUse
  <1> QED BY <1>2, <1>3, <1>4, <1>5

\* A request that a step refuses is refused for a cause.
LEMMA StepRefuses ==
    ASSUME Times \subseteq Nat, BellsInductive, [Bells!Next]_Bells!vars
    PROVE  Bells!RefusalsHaveCause
  <1>1. CASE \E r \in Requests : Bells!Refuse(r)
    BY <1>1, RefuseHasCause
  <1>2. CASE Bells!Next /\ \A r \in Requests : ~Bells!Refuse(r)
    BY <1>2, OthersRefuseNothing
  <1>3. CASE UNCHANGED Bells!vars
    BY <1>3 DEF Bells!vars, Bells!RefusalsHaveCause
  <1> QED BY <1>1, <1>2, <1>3

-----------------------------------------------------------------------------
(* AcademicCalendar: what a request has read of the years still stands.    *)

\* The years that no update has shortened: TermsWithinYear is about these.
Kept == DOMAIN year \ past.narrowed

\* The dates an update sets are within the year y.
Inside(set, y) ==
    /\ "start" \in DOMAIN set => year[y].start <= set.start
    /\ "end" \in DOMAIN set => set.end <= year[y].end

\* What a request has read or checked, and still is so.
CalendarSound(w) ==
    /\ w.pc = "create_checked" =>
         w.row.year \in past.given /\ (w.row.year \in Kept => Calendar!Within(w.row, w.row.year))
    /\ w.pc = "term_read" =>
         /\ w.id \in past.given
         /\ w.id \in DOMAIN term => w.year = term[w.id].year
         /\ \A f \in DOMAIN w.set : w.wanted[f] = w.set[f]
    /\ w.pc = "term_checked" =>
         /\ w.id \in past.given
         /\ w.id \in DOMAIN term /\ term[w.id].year \in Kept => Inside(w.set, term[w.id].year)

CalendarInductive ==
    /\ Calendar!TypeOK
    /\ \A r \in Requests : CalendarSound(work[r])
    /\ DOMAIN year \cup DOMAIN term \subseteq past.given
    /\ Calendar!CalendarHolds

LEMMA CalendarWorkKinds ==
    ASSUME NEW w \in Calendar!Work
    PROVE  /\ w.pc = "year_read" => w.id \in Years /\ w.set \in Calendar!Moves
           /\ w.pc = "create_checked" => w.row \in Calendar!Term
           /\ w.pc = "term_read" =>
                w.id \in Terms.calendar /\ w.set \in Calendar!Moves /\ w.year \in Years
                /\ w.wanted \in Calendar!Span
           /\ w.pc = "term_checked" => w.id \in Terms.calendar /\ w.set \in Calendar!Moves
  BY DEF Calendar!Work, Calendar!Idle

LEMMA CalendarIdleWork == Calendar!Idle \in Calendar!Work /\ Calendar!Idle.pc = "idle"
  BY DEF Calendar!Work, Calendar!Idle

LEMMA MovesKinds ==
    ASSUME NEW set \in Calendar!Moves
    PROVE  /\ DOMAIN set \subseteq {"start", "end"}
           /\ "start" \in DOMAIN set => set.start \in Dates
           /\ "end" \in DOMAIN set => set.end \in Dates
  BY DEF Calendar!Moves, Calendar!Span

LEMMA WriteSpan ==
    ASSUME NEW dates \in Calendar!Span, NEW set \in Calendar!Moves
    PROVE  /\ Calendar!Write(dates, set) \in Calendar!Span
           /\ Calendar!Write(dates, set).start = IF "start" \in DOMAIN set THEN set.start ELSE dates.start
           /\ Calendar!Write(dates, set).end = IF "end" \in DOMAIN set THEN set.end ELSE dates.end
  <1>1. DOMAIN dates = {"start", "end"} /\ dates["start"] \in Dates /\ dates["end"] \in Dates
    BY DEF Calendar!Span
  <1> QED BY <1>1, MovesKinds DEF Calendar!Write, Calendar!Span

LEMMA WriteTerm ==
    ASSUME NEW dates \in Calendar!Term, NEW set \in Calendar!Moves
    PROVE  /\ Calendar!Write(dates, set) \in Calendar!Term
           /\ Calendar!Write(dates, set).year = dates.year
           /\ Calendar!Write(dates, set).start = IF "start" \in DOMAIN set THEN set.start ELSE dates.start
           /\ Calendar!Write(dates, set).end = IF "end" \in DOMAIN set THEN set.end ELSE dates.end
           /\ \A f \in DOMAIN set : Calendar!Write(dates, set)[f] = set[f]
  <1>1. /\ DOMAIN dates = {"year", "start", "end"}
        /\ dates["start"] \in Dates /\ dates["end"] \in Dates /\ dates["year"] \in Years
    BY DEF Calendar!Term
  <1> QED BY <1>1, MovesKinds DEF Calendar!Write, Calendar!Term

-----------------------------------------------------------------------------
(* Steps that leave the tables alone.                                      *)

LEMMA CalendarReadsInv ==
    ASSUME CalendarInductive, NEW r \in Requests, NEW w \in Calendar!Work, Calendar!Become(r, w),
           CalendarSound(w),
           UNCHANGED <<year, term, past>>
    PROVE  CalendarInductive'
  <1>1. \A q \in Requests : work'[q] = IF q = r THEN w ELSE work[q]
    BY DEF Calendar!Become, CalendarInductive, Calendar!TypeOK
  <1>2. Calendar!TypeOK'
    BY <1>1 DEF Calendar!Become, CalendarInductive, Calendar!TypeOK
  <1>3. \A q \in Requests : CalendarSound(work[q])'
    BY <1>1 DEF CalendarInductive, CalendarSound, Kept, Inside, Calendar!Within
  <1>4. Calendar!CalendarHolds'
    BY DEF CalendarInductive, Calendar!CalendarHolds, Calendar!TermsWithinYear, Calendar!CalendarIsSound,
           Calendar!Ordered, Calendar!Within
  <1> QED BY <1>2, <1>3, <1>4 DEF CalendarInductive

LEMMA YearReadInv ==
    ASSUME CalendarInductive, NEW r \in Requests, NEW y \in Years, NEW set \in Calendar!Moves,
           Calendar!YearRead(r, y, set)
    PROVE  CalendarInductive'
  <1> DEFINE w == [pc |-> "year_read", id |-> y, set |-> set]
  <1>1. w \in Calendar!Work /\ CalendarSound(w)
    BY DEF Calendar!Work, CalendarSound
  <1>2. Calendar!Become(r, w) /\ UNCHANGED <<year, term, past>>
    BY DEF Calendar!YearRead
  <1> HIDE DEF w
  <1> QED BY <1>1, <1>2, CalendarReadsInv

LEMMA CreateTermCheckInv ==
    ASSUME CalendarInductive, NEW r \in Requests, NEW dates \in Calendar!Term,
           Calendar!CreateTermCheck(r, dates)
    PROVE  CalendarInductive'
  <1> DEFINE w == [pc |-> "create_checked", row |-> dates]
  <1>1. w \in Calendar!Work
    BY DEF Calendar!Work
  <1>2. CalendarSound(w)
    BY DEF CalendarSound, Calendar!CreateTermCheck, CalendarInductive
  <1>3. Calendar!Become(r, w) /\ UNCHANGED <<year, term, past>>
    BY DEF Calendar!CreateTermCheck
  <1> HIDE DEF w
  <1> QED BY <1>1, <1>2, <1>3, CalendarReadsInv

LEMMA TermReadInv ==
    ASSUME CalendarInductive, NEW r \in Requests, NEW m \in Terms.calendar, NEW set \in Calendar!Moves,
           Calendar!TermRead(r, m, set)
    PROVE  CalendarInductive'
  <1> DEFINE new == Calendar!Write(term[m], set)
             w == [pc |-> "term_read", id |-> m, set |-> set, year |-> new.year,
                   wanted |-> [start |-> new.start, end |-> new.end]]
  <1>1. m \in DOMAIN term /\ term[m] \in Calendar!Term /\ m \in past.given
    BY DEF Calendar!TermRead, CalendarInductive, Calendar!TypeOK
  <1>2. /\ new \in Calendar!Term /\ new.year = term[m].year
        /\ \A f \in DOMAIN set : new[f] = set[f]
    BY <1>1, WriteTerm
  <1>3. Calendar!Become(r, w) /\ UNCHANGED <<year, term, past>>
    BY DEF Calendar!TermRead
  <1> HIDE DEF new
  <1>4. new.start \in Dates /\ new.end \in Dates /\ new.year \in Years
    BY <1>2 DEF Calendar!Term
  <1>5. w \in Calendar!Work
    BY <1>4 DEF Calendar!Work, Calendar!Span
  <1>6. CalendarSound(w)
    BY <1>1, <1>2, MovesKinds DEF CalendarSound
  <1> HIDE DEF w
  <1> QED BY <1>3, <1>5, <1>6, CalendarReadsInv

LEMMA TermCheckInv ==
    ASSUME CalendarInductive, NEW r \in Requests, Calendar!TermCheck(r)
    PROVE  CalendarInductive'
  <1> DEFINE w == [pc |-> "term_checked", id |-> work[r].id, set |-> work[r].set]
  <1>1. work[r] \in Calendar!Work /\ work[r].pc = "term_read" /\ CalendarSound(work[r])
    BY DEF Calendar!TermCheck, CalendarInductive, Calendar!TypeOK
  <1>2. w \in Calendar!Work
    BY <1>1, CalendarWorkKinds DEF Calendar!Work
  <1>3. Calendar!Within(work[r].wanted, work[r].year) /\ Calendar!Become(r, w) /\ UNCHANGED <<year, term, past>>
    BY DEF Calendar!TermCheck
  <1>4. Inside(work[r].set, work[r].year)
    BY <1>1, <1>3 DEF CalendarSound, Inside, Calendar!Within
  <1>5. CalendarSound(w)
    BY <1>1, <1>4 DEF CalendarSound
  <1> HIDE DEF w
  <1> QED BY <1>2, <1>3, <1>5, CalendarReadsInv

LEMMA CalendarAbortInv ==
    ASSUME CalendarInductive, NEW r \in Requests, Calendar!Abort(r)
    PROVE  CalendarInductive'
  BY CalendarIdleWork, CalendarReadsInv DEF Calendar!Abort, CalendarSound

-----------------------------------------------------------------------------
(* Steps that write years.                                                 *)

LEMMA CreateYearInv ==
    ASSUME CalendarInductive, NEW y \in Years, NEW dates \in Calendar!Span, Calendar!CreateYear(y, dates)
    PROVE  CalendarInductive'
  <1>1. /\ y \notin past.given /\ Calendar!Ordered(dates) /\ UNCHANGED <<term, work>>
        /\ DOMAIN year' = DOMAIN year \cup {y} /\ year'[y] = dates
        /\ \A z \in DOMAIN year : year'[z] = year[z]
        /\ past'.given = past.given \cup {y} /\ past'.narrowed = past.narrowed
    BY DEF Calendar!CreateYear, Calendar!Insert, CalendarInductive, Calendar!TypeOK
  <1>2. past' \in [given: SUBSET (Years \cup Terms.calendar), narrowed: SUBSET Years]
    BY DEF Calendar!CreateYear, CalendarInductive, Calendar!TypeOK
  <1>3. Calendar!TypeOK'
    BY <1>1, <1>2 DEF CalendarInductive, Calendar!TypeOK
  <1>4. \A m \in DOMAIN term : term[m].year \in DOMAIN year /\ term[m].year # y
    BY <1>1 DEF CalendarInductive, Calendar!CalendarHolds, Calendar!CalendarIsSound
  <1>5. \A z : z \in Kept' /\ z # y => z \in Kept /\ year'[z] = year[z]
    BY <1>1 DEF Kept
  <1>6. \A q \in Requests : CalendarSound(work[q])'
    BY <1>1, <1>4, <1>5 DEF CalendarInductive, CalendarSound, Inside, Calendar!Within
  <1>7. Calendar!CalendarHolds'
    BY <1>1, <1>4
    DEF CalendarInductive, Calendar!CalendarHolds, Calendar!CalendarIsSound, Calendar!TermsWithinYear,
        Calendar!Within
  <1> QED BY <1>1, <1>3, <1>6, <1>7 DEF CalendarInductive

\* An update that leaves its year unshortened leaves dates within it there.
LEMMA YearCommitInv ==
    ASSUME Dates \subseteq Nat, CalendarInductive, NEW r \in Requests, Calendar!YearCommit(r)
    PROVE  CalendarInductive'
  <1> DEFINE w == work[r]
             old == year[w.id]
             new == Calendar!Write(old, w.set)
  <1>1. /\ w.pc = "year_read" /\ w \in Calendar!Work /\ w.id \in DOMAIN year /\ old \in Calendar!Span
        /\ Calendar!Ordered(new) /\ Calendar!Become(r, Calendar!Idle) /\ UNCHANGED term
        /\ year' = [year EXCEPT ![w.id] = new]
    BY DEF Calendar!YearCommit, CalendarInductive, Calendar!TypeOK
  <1>2. new \in Calendar!Span
    BY <1>1, CalendarWorkKinds, WriteSpan
  <1>3. /\ past' \in [given: SUBSET (Years \cup Terms.calendar), narrowed: SUBSET Years]
        /\ past'.given = past.given /\ past.narrowed \subseteq past'.narrowed
        /\ w.id \in past'.narrowed \/ (new.start <= old.start /\ old.end <= new.end)
    <2>1. w.id \in Years
      BY <1>1, CalendarWorkKinds
    <2>2. old.start \in Nat /\ old.end \in Nat /\ new.start \in Nat /\ new.end \in Nat
      BY <1>1, <1>2 DEF Calendar!Span
    <2>3. past' = [past EXCEPT !.narrowed =
                     IF old.start < new.start \/ new.end < old.end THEN @ \cup {w.id} ELSE @]
      BY DEF Calendar!YearCommit
    <2> QED BY <2>1, <2>2, <2>3 DEF CalendarInductive, Calendar!TypeOK
  <1> HIDE DEF new
  <1>4. /\ DOMAIN year' = DOMAIN year /\ year'[w.id] = new
        /\ \A z \in DOMAIN year : z # w.id => year'[z] = year[z]
    BY <1>1
  <1> HIDE DEF w
  <1>5. \A q \in Requests : work'[q] = IF q = r THEN Calendar!Idle ELSE work[q]
    BY <1>1 DEF Calendar!Become, CalendarInductive, Calendar!TypeOK
  <1>6. Calendar!TypeOK'
    <2>1. work' \in [Requests -> Calendar!Work]
      BY <1>1, CalendarIdleWork DEF Calendar!Become, CalendarInductive, Calendar!TypeOK
    <2> QED BY <1>1, <1>2, <1>3, <1>4, <2>1 DEF CalendarInductive, Calendar!TypeOK
  <1>7. \A z \in Kept' : z \in Kept /\ year[z] \in Calendar!Span /\ year'[z] \in Calendar!Span
                          /\ year'[z].start <= year[z].start /\ year[z].end <= year'[z].end
    <2> TAKE z \in Kept'
    <2>1. z \in Kept /\ year[z] \in Calendar!Span /\ year'[z] \in Calendar!Span
          /\ (z = w.id => z \notin past'.narrowed)
      BY <1>3, <1>4, <1>6 DEF Kept, CalendarInductive, Calendar!TypeOK
    <2>2. CASE z = w.id
      BY <1>3, <1>4, <2>1, <2>2
    <2>3. CASE z # w.id
      <3>1. year'[z] = year[z] /\ year[z].start \in Nat /\ year[z].end \in Nat
        BY <1>4, <2>1, <2>3 DEF Kept, Calendar!Span
      <3> QED BY <2>1, <3>1
    <2> QED BY <2>2, <2>3
  <1>8. ASSUME NEW z \in Kept', NEW x \in Calendar!Span \cup Calendar!Term, Calendar!Within(x, z)
        PROVE  year'[z].start <= x.start /\ x.end <= year'[z].end
    <2>1. x.start \in Nat /\ x.end \in Nat
      BY DEF Calendar!Span, Calendar!Term
    <2>2. /\ year[z].start \in Nat /\ year'[z].start \in Nat /\ year[z].end \in Nat /\ year'[z].end \in Nat
          /\ year'[z].start <= year[z].start /\ year[z].end <= year'[z].end
      BY <1>7 DEF Calendar!Span
    <2> QED BY <1>8, <2>1, <2>2 DEF Calendar!Within
  <1>9. ASSUME NEW z \in Kept', NEW set \in Calendar!Moves, Inside(set, z)
        PROVE  /\ "start" \in DOMAIN set => year'[z].start <= set.start
               /\ "end" \in DOMAIN set => set.end <= year'[z].end
    <2>1. /\ year[z].start \in Nat /\ year'[z].start \in Nat /\ year[z].end \in Nat /\ year'[z].end \in Nat
          /\ year'[z].start <= year[z].start /\ year[z].end <= year'[z].end
      BY <1>7 DEF Calendar!Span
    <2>2. ("start" \in DOMAIN set => set.start \in Nat) /\ ("end" \in DOMAIN set => set.end \in Nat)
      BY MovesKinds
    <2>3. /\ "start" \in DOMAIN set => year[z].start <= set.start
          /\ "end" \in DOMAIN set => set.end <= year[z].end
      BY <1>9 DEF Inside
    <2> QED BY <2>1, <2>2, <2>3
  <1>10. \A q \in Requests : CalendarSound(work[q])'
    <2> TAKE q \in Requests
    <2>1. CASE q = r
      BY <1>5, <2>1, CalendarIdleWork DEF CalendarSound
    <2>2. CASE q # r
      <3>1. work'[q] = work[q] /\ work[q] \in Calendar!Work /\ CalendarSound(work[q])
        BY <1>5, <2>2 DEF CalendarInductive, Calendar!TypeOK
      <3>2. ASSUME work[q].pc = "create_checked", work[q].row.year \in Kept'
            PROVE  Calendar!Within(work[q].row, work[q].row.year)'
        <4>1. PICK x \in Calendar!Term : x = work[q].row
          BY <3>1, <3>2, CalendarWorkKinds
        <4>2. PICK z \in Kept' : z = x.year
          BY <3>2, <4>1
        <4>3. Calendar!Within(x, z)
          BY <1>7, <3>1, <3>2, <4>1, <4>2 DEF CalendarSound
        <4> QED BY <1>8, <3>1, <4>1, <4>2, <4>3 DEF Calendar!Within
      <3>3. ASSUME work[q].pc = "term_checked", work[q].id \in DOMAIN term', term'[work[q].id].year \in Kept'
            PROVE  Inside(work[q].set, term[work[q].id].year)'
        <4>1. PICK set \in Calendar!Moves : set = work[q].set
          BY <3>1, <3>3, CalendarWorkKinds
        <4>2. PICK z \in Kept' : z = term[work[q].id].year
          BY <1>1, <3>3
        <4>3. Inside(set, z)
          BY <1>1, <1>7, <3>1, <3>3, <4>1, <4>2 DEF CalendarSound
        <4> QED BY <1>1, <1>9, <3>1, <4>1, <4>2, <4>3 DEF Inside
      <3> QED BY <1>1, <1>3, <3>1, <3>2, <3>3 DEF CalendarSound
    <2> QED BY <2>1, <2>2
  <1>11. Calendar!CalendarHolds'
    <2>1. Calendar!CalendarIsSound'
      BY <1>1, <1>4 DEF CalendarInductive, Calendar!CalendarHolds, Calendar!CalendarIsSound
    <2>2. ASSUME NEW m \in DOMAIN term, term[m].year \in Kept'
          PROVE  Calendar!Within(term[m], term[m].year)'
      <3>1. term[m].year \in Kept /\ term[m] \in Calendar!Term
        BY <1>7, <2>2 DEF CalendarInductive, Calendar!TypeOK
      <3>2. Calendar!Within(term[m], term[m].year)
        BY <3>1 DEF CalendarInductive, Calendar!CalendarHolds, Calendar!TermsWithinYear, Kept
      <3>3. PICK x \in Calendar!Term : x = term[m]
        BY <3>1
      <3>4. PICK z \in Kept' : z = term[m].year
        BY <2>2
      <3> QED BY <1>1, <1>8, <3>2, <3>3, <3>4 DEF Calendar!Within
    <2> QED BY <1>1, <2>1, <2>2 DEF Calendar!CalendarHolds, Calendar!TermsWithinYear, Kept
  <1> QED BY <1>1, <1>3, <1>4, <1>6, <1>10, <1>11 DEF CalendarInductive

LEMMA DeleteYearInv ==
    ASSUME CalendarInductive, NEW y \in Years, Calendar!DeleteYear(y)
    PROVE  CalendarInductive'
  <1>1. /\ DOMAIN year' = DOMAIN year \ {y} /\ \A z \in DOMAIN year' : year'[z] = year[z]
        /\ DOMAIN term' = {m \in DOMAIN term : term[m].year # y}
        /\ \A m \in DOMAIN term' : term'[m] = term[m]
        /\ UNCHANGED <<past, work>>
    BY DEF Calendar!DeleteYear
  <1>2. Calendar!TypeOK'
    BY <1>1 DEF CalendarInductive, Calendar!TypeOK
  <1>3. \A z \in Kept' : z \in Kept /\ year'[z] = year[z]
    BY <1>1 DEF Kept
  <1>4. \A q \in Requests : CalendarSound(work[q])'
    BY <1>1, <1>3 DEF CalendarInductive, CalendarSound, Inside, Calendar!Within
  <1>5. Calendar!CalendarHolds'
    BY <1>1
    DEF CalendarInductive, Calendar!CalendarHolds, Calendar!CalendarIsSound, Calendar!TermsWithinYear,
        Calendar!Within
  <1> QED BY <1>1, <1>2, <1>4, <1>5 DEF CalendarInductive

-----------------------------------------------------------------------------
(* Steps that write terms.                                                 *)

LEMMA CreateTermInv ==
    ASSUME CalendarInductive, NEW r \in Requests, NEW m \in Terms.calendar, Calendar!CreateTerm(r, m)
    PROVE  CalendarInductive'
  <1> DEFINE dates == work[r].row
  <1>1. /\ work[r].pc = "create_checked" /\ work[r] \in Calendar!Work /\ CalendarSound(work[r])
        /\ m \notin past.given /\ dates.year \in DOMAIN year /\ Calendar!Ordered(dates)
        /\ Calendar!Become(r, Calendar!Idle) /\ UNCHANGED year
    BY DEF Calendar!CreateTerm, CalendarInductive, Calendar!TypeOK
  <1>2. dates \in Calendar!Term
    BY <1>1, CalendarWorkKinds
  <1>3. /\ DOMAIN term' = DOMAIN term \cup {m} /\ term'[m] = dates /\ m \notin DOMAIN term
        /\ \A n \in DOMAIN term : term'[n] = term[n]
        /\ past'.given = past.given \cup {m} /\ past'.narrowed = past.narrowed
        /\ past' \in [given: SUBSET (Years \cup Terms.calendar), narrowed: SUBSET Years]
    BY <1>1 DEF Calendar!CreateTerm, Calendar!Insert, CalendarInductive, Calendar!TypeOK
  <1>4. dates.year \in Kept => Calendar!Within(dates, dates.year)
    BY <1>1 DEF CalendarSound
  <1> HIDE DEF dates
  <1>5. \A q \in Requests : work'[q] = IF q = r THEN Calendar!Idle ELSE work[q]
    BY <1>1 DEF Calendar!Become, CalendarInductive, Calendar!TypeOK
  <1>6. Calendar!TypeOK'
    <2>1. work' \in [Requests -> Calendar!Work]
      BY <1>1, CalendarIdleWork DEF Calendar!Become, CalendarInductive, Calendar!TypeOK
    <2> QED BY <1>1, <1>2, <1>3, <2>1 DEF CalendarInductive, Calendar!TypeOK
  <1>7. Kept' = Kept
    BY <1>1, <1>3 DEF Kept
  <1>8. \A q \in Requests : CalendarSound(work[q])'
    <2> TAKE q \in Requests
    <2>1. CASE q = r
      BY <1>5, <2>1, CalendarIdleWork DEF CalendarSound
    <2>2. CASE q # r
      <3>1. work'[q] = work[q] /\ CalendarSound(work[q])
        BY <1>5, <2>2 DEF CalendarInductive
      <3> QED BY <1>1, <1>3, <1>7, <3>1 DEF CalendarSound, Inside, Calendar!Within
    <2> QED BY <2>1, <2>2
  <1>9. Calendar!CalendarHolds'
    BY <1>1, <1>3, <1>4, <1>7
    DEF CalendarInductive, Calendar!CalendarHolds, Calendar!CalendarIsSound, Calendar!TermsWithinYear,
        Calendar!Within, Kept
  <1> QED BY <1>1, <1>3, <1>6, <1>8, <1>9 DEF CalendarInductive

\* What the update sets was checked, what it leaves is within the year.
LEMMA TermCommitInv ==
    ASSUME CalendarInductive, NEW r \in Requests, Calendar!TermCommit(r)
    PROVE  CalendarInductive'
  <1> DEFINE w == work[r]
             new == Calendar!Write(term[w.id], w.set)
  <1>1. /\ w.pc = "term_checked" /\ w \in Calendar!Work /\ CalendarSound(w) /\ w.id \in DOMAIN term
        /\ Calendar!Ordered(new) /\ term' = [term EXCEPT ![w.id] = new]
        /\ Calendar!Become(r, Calendar!Idle) /\ UNCHANGED <<year, past>> /\ term[w.id] \in Calendar!Term
    BY DEF Calendar!TermCommit, CalendarInductive, Calendar!TypeOK
  <1>2. /\ new \in Calendar!Term /\ new.year = term[w.id].year
        /\ new.start = IF "start" \in DOMAIN w.set THEN w.set.start ELSE term[w.id].start
        /\ new.end = IF "end" \in DOMAIN w.set THEN w.set.end ELSE term[w.id].end
    BY <1>1, CalendarWorkKinds, WriteTerm
  <1> HIDE DEF new
  <1>3. /\ DOMAIN term' = DOMAIN term /\ term'[w.id] = new
        /\ \A n \in DOMAIN term : n # w.id => term'[n] = term[n]
        /\ \A n \in DOMAIN term : term'[n].year = term[n].year
    BY <1>1, <1>2
  <1>4. new.year \in Kept => Calendar!Within(new, new.year)
    <2> SUFFICES ASSUME new.year \in Kept PROVE Calendar!Within(new, new.year)
      OBVIOUS
    <2>1. Inside(w.set, new.year)
      BY <1>1, <1>2 DEF CalendarSound
    <2>2. Calendar!Within(term[w.id], new.year)
      BY <1>1, <1>2 DEF CalendarInductive, Calendar!CalendarHolds, Calendar!TermsWithinYear, Kept
    <2> QED BY <1>2, <2>1, <2>2 DEF Inside, Calendar!Within
  <1> HIDE DEF w
  <1>5. \A q \in Requests : work'[q] = IF q = r THEN Calendar!Idle ELSE work[q]
    BY <1>1 DEF Calendar!Become, CalendarInductive, Calendar!TypeOK
  <1>6. Calendar!TypeOK'
    <2>1. work' \in [Requests -> Calendar!Work]
      BY <1>1, CalendarIdleWork DEF Calendar!Become, CalendarInductive, Calendar!TypeOK
    <2> QED BY <1>1, <1>2, <1>3, <2>1 DEF CalendarInductive, Calendar!TypeOK
  <1>7. \A q \in Requests : CalendarSound(work[q])'
    <2> TAKE q \in Requests
    <2>1. CASE q = r
      BY <1>5, <2>1, CalendarIdleWork DEF CalendarSound
    <2>2. CASE q # r
      <3>1. work'[q] = work[q] /\ CalendarSound(work[q])
        BY <1>5, <2>2 DEF CalendarInductive
      <3> QED BY <1>1, <1>3, <3>1 DEF CalendarSound, Inside, Calendar!Within, Kept
    <2> QED BY <2>1, <2>2
  <1>8. Calendar!CalendarIsSound'
    BY <1>1, <1>2, <1>3 DEF CalendarInductive, Calendar!CalendarHolds, Calendar!CalendarIsSound
  <1>9. Calendar!TermsWithinYear'
    <2> SUFFICES ASSUME NEW n \in DOMAIN term, term'[n].year \in Kept
                 PROVE  Calendar!Within(term'[n], term'[n].year)
      BY <1>1, <1>3 DEF Calendar!TermsWithinYear, Kept, Calendar!Within
    <2>1. CASE n = w.id
      BY <1>3, <1>4, <2>1
    <2>2. CASE n # w.id
      BY <1>3, <2>2 DEF CalendarInductive, Calendar!CalendarHolds, Calendar!TermsWithinYear, Kept
    <2> QED BY <2>1, <2>2
  <1> QED BY <1>1, <1>3, <1>6, <1>7, <1>8, <1>9 DEF CalendarInductive, Calendar!CalendarHolds

LEMMA DeleteTermInv ==
    ASSUME CalendarInductive, NEW m \in Terms.calendar, Calendar!DeleteTerm(m)
    PROVE  CalendarInductive'
  <1>1. /\ DOMAIN term' = DOMAIN term \ {m} /\ \A n \in DOMAIN term' : term'[n] = term[n]
        /\ UNCHANGED <<year, past, work>>
    BY DEF Calendar!DeleteTerm
  <1>2. Calendar!TypeOK'
    BY <1>1 DEF CalendarInductive, Calendar!TypeOK
  <1>3. \A q \in Requests : CalendarSound(work[q])'
    BY <1>1 DEF CalendarInductive, CalendarSound, Inside, Calendar!Within, Kept
  <1>4. Calendar!CalendarHolds'
    BY <1>1
    DEF CalendarInductive, Calendar!CalendarHolds, Calendar!CalendarIsSound, Calendar!TermsWithinYear,
        Calendar!Within
  <1> QED BY <1>1, <1>2, <1>3, <1>4 DEF CalendarInductive

-----------------------------------------------------------------------------

LEMMA CalendarInitInv == Calendar!Init => CalendarInductive
  <1> SUFFICES ASSUME Calendar!Init PROVE CalendarInductive
    OBVIOUS
  <1>1. DOMAIN year = {} /\ DOMAIN term = {}
    BY DEF Calendar!Init
  <1>2. Calendar!TypeOK
    BY <1>1, CalendarIdleWork DEF Calendar!Init, Calendar!TypeOK
  <1>3. \A r \in Requests : CalendarSound(work[r])
    BY CalendarIdleWork DEF Calendar!Init, CalendarSound
  <1> QED BY <1>1, <1>2, <1>3
          DEF CalendarInductive, Calendar!CalendarHolds, Calendar!CalendarIsSound, Calendar!TermsWithinYear

LEMMA CalendarStepInv ==
    ASSUME Dates \subseteq Nat, CalendarInductive, [Calendar!Next]_Calendar!vars
    PROVE  CalendarInductive'
  <1>1. ASSUME NEW y \in Years,
               \/ \E dates \in Calendar!Span : Calendar!CreateYear(y, dates)
               \/ \E r \in Requests, set \in Calendar!Moves : Calendar!YearRead(r, y, set)
               \/ Calendar!DeleteYear(y)
        PROVE  CalendarInductive'
    BY <1>1, CreateYearInv, YearReadInv, DeleteYearInv
  <1>2. ASSUME NEW r \in Requests,
               Calendar!YearCommit(r) \/ Calendar!TermCheck(r) \/ Calendar!TermCommit(r) \/ Calendar!Abort(r)
        PROVE  CalendarInductive'
    BY <1>2, YearCommitInv, TermCheckInv, TermCommitInv, CalendarAbortInv
  <1>3. ASSUME NEW r \in Requests,
               \/ \E dates \in Calendar!Term : Calendar!CreateTermCheck(r, dates)
               \/ \E m \in Terms.calendar : Calendar!CreateTerm(r, m)
                  \/ \E set \in Calendar!Moves : Calendar!TermRead(r, m, set)
        PROVE  CalendarInductive'
    BY <1>3, CreateTermCheckInv, CreateTermInv, TermReadInv
  <1>4. CASE \E m \in Terms.calendar : Calendar!DeleteTerm(m)
    BY <1>4, DeleteTermInv
  <1>5. CASE UNCHANGED Calendar!vars
    BY <1>5
    DEF Calendar!vars, CalendarInductive, Calendar!TypeOK, CalendarSound, Kept, Inside, Calendar!Within,
        Calendar!CalendarHolds, Calendar!CalendarIsSound, Calendar!TermsWithinYear
  <1> QED BY <1>1, <1>2, <1>3, <1>4, <1>5 DEF Calendar!Next

-----------------------------------------------------------------------------
(* PictureStore: files keep apart, and rows name files that are there.     *)

\* Request r has a file open.
Holds(r) == work[r].pc \in {"writing", "written"}

\* No two names for one file; a file that is written to has no name of
\* another extension, and nobody writes another extension to it.
FilesApart ==
    /\ \A m, n \in DOMAIN dir : dir[m] = dir[n] => m = n
    /\ \A r \in Requests : Holds(r) =>
          /\ work[r].file \in DOMAIN bytes
          /\ \A n \in DOMAIN dir : dir[n] = work[r].file => n[2] = work[r].ext
          /\ \A q \in Requests : Holds(q) /\ work[q].file = work[r].file => work[q].ext = work[r].ext

\* The only upload of an extension has the .part, and all of its bytes.
Alone(r) ==
    /\ \A q \in Requests : Holds(q) /\ work[q].ext = work[r].ext => q = r
    /\ <<"part", work[r].ext>> \in DOMAIN dir
    /\ dir[<<"part", work[r].ext>>] = work[r].file
    /\ bytes[work[r].file] = [c \in (IF work[r].pc = "writing" THEN {1} ELSE Pictures!Chunks) |-> r]

UploadsAlone == \A r \in Requests : Holds(r) /\ work[r].ext \notin past.overlapped => Alone(r)

\* The picture of extension x is there, or a delete has seen to it.
Served(x) ==
    \/ <<"final", x>> \in DOMAIN dir
    \/ past.cut
    \/ \E r \in Requests : work[r].pc = "unlinked"

ColumnsToCome ==
    /\ record.there \/ record.picture = {}
    /\ \A r \in Requests : work[r].pc = "published" => Served(work[r].ext) \/ ~record.there

PicturesInductive == Pictures!TypeOK /\ FilesApart /\ UploadsAlone /\ ColumnsToCome /\ Pictures!PicturesHold

PicturesFiles == Pictures!TypeOK /\ FilesApart /\ UploadsAlone /\ Pictures!PublishedIsWhole
PicturesColumn == ColumnsToCome /\ Pictures!ColumnNamesFile

LEMMA PicturesParts == PicturesInductive <=> PicturesFiles /\ PicturesColumn
  BY DEF PicturesInductive, PicturesFiles, PicturesColumn, Pictures!PicturesHold

LEMMA PicturesWorkKinds ==
    ASSUME NEW w \in Pictures!Work
    PROVE  /\ w.pc \in {"idle", "writing", "written", "published", "unlinked"}
           /\ w.pc \in {"writing", "written"} =>
                w.ext \in Exts /\ w.file \in Inodes /\ w.loaded \in {{}} \cup {{x} : x \in Exts}
           /\ w.pc = "published" => w.ext \in Exts /\ w.loaded \in {{}} \cup {{x} : x \in Exts}
  BY DEF Pictures!Work, Pictures!Idle

LEMMA PicturesIdleWork == Pictures!Idle \in Pictures!Work /\ Pictures!Idle.pc = "idle"
  BY DEF Pictures!Work, Pictures!Idle

LEMMA PicturesBecomes ==
    ASSUME Pictures!TypeOK, NEW r \in Requests, NEW w \in Pictures!Work, Pictures!Become(r, w)
    PROVE  /\ work' \in [Requests -> Pictures!Work]
           /\ \A q \in Requests : work'[q] = IF q = r THEN w ELSE work[q]
  BY DEF Pictures!Become, Pictures!TypeOK

-----------------------------------------------------------------------------
(* The files.                                                              *)

LEMMA KeptBytes ==
    ASSUME Pictures!TypeOK, Pictures!Live' \subseteq DOMAIN bytes, Pictures!Keep
    PROVE  /\ DOMAIN bytes' = Pictures!Live' /\ DOMAIN bytes' \subseteq Inodes
           /\ \A i \in DOMAIN bytes' : bytes'[i] = bytes[i]
           /\ \A i \in DOMAIN bytes' : bytes'[i] \in UNION {[C -> Requests] : C \in SUBSET Pictures!Chunks}
  BY DEF Pictures!Keep, Pictures!TypeOK

\* A request lets go of its file, if it has one, and names go.
LEMMA FilesLeft ==
    ASSUME PicturesFiles, NEW r \in Requests, NEW w \in Pictures!Work, w.pc \notin {"writing", "written"},
           Pictures!Become(r, w), Pictures!Keep, record' \in Pictures!Row, past' \in Pictures!Past,
           past'.overlapped = past.overlapped,
           DOMAIN dir' \subseteq DOMAIN dir, \A n \in DOMAIN dir' : dir'[n] = dir[n],
           \A n \in DOMAIN dir : n[1] = "part" /\ ~(Holds(r) /\ n[2] = work[r].ext) => n \in DOMAIN dir'
    PROVE  PicturesFiles'
  <1>1. /\ work' \in [Requests -> Pictures!Work]
        /\ \A q \in Requests : work'[q] = IF q = r THEN w ELSE work[q]
    BY PicturesBecomes DEF PicturesFiles
  <1>2. \A q \in Requests : Holds(q)' => q # r /\ Holds(q) /\ work'[q] = work[q]
    BY <1>1 DEF Holds
  <1>3. Pictures!Live' \subseteq DOMAIN bytes
    BY <1>2 DEF PicturesFiles, Pictures!TypeOK, FilesApart, Pictures!Live, Holds
  <1>4. /\ DOMAIN bytes' = Pictures!Live' /\ DOMAIN bytes' \subseteq Inodes
        /\ \A i \in DOMAIN bytes' : bytes'[i] = bytes[i]
        /\ \A i \in DOMAIN bytes' : bytes'[i] \in UNION {[C -> Requests] : C \in SUBSET Pictures!Chunks}
    BY <1>3, KeptBytes DEF PicturesFiles
  <1>5. \A n \in DOMAIN dir' : dir'[n] \in DOMAIN bytes'
    BY <1>4 DEF Pictures!Live
  <1>6. \A q \in Requests : Holds(q)' => work[q].file \in DOMAIN bytes'
    BY <1>2, <1>4 DEF Pictures!Live, Holds
  <1>7. Pictures!TypeOK'
    BY <1>1, <1>4, <1>5 DEF PicturesFiles, Pictures!TypeOK
  <1>8. FilesApart'
    BY <1>2, <1>6 DEF PicturesFiles, FilesApart
  <1>9. UploadsAlone'
    <2> SUFFICES ASSUME NEW q \in Requests, Holds(q)', work'[q].ext \notin past'.overlapped PROVE Alone(q)'
      BY DEF UploadsAlone
    <2>1. q # r /\ Holds(q) /\ work'[q] = work[q] /\ Alone(q)
      BY <1>2 DEF PicturesFiles, UploadsAlone
    <2>2. \A p \in Requests : Holds(p)' /\ work'[p].ext = work'[q].ext => p = q
      BY <1>2, <2>1 DEF Alone
    <2>3. ~(Holds(r) /\ work[q].ext = work[r].ext)
      BY <2>1 DEF Alone
    <2>4. <<"part", work[q].ext>> \in DOMAIN dir'
      BY <2>1, <2>3 DEF Alone
    <2>5. bytes'[work[q].file] = bytes[work[q].file]
      BY <1>4, <1>6
    <2> QED BY <2>1, <2>2, <2>4, <2>5 DEF Alone
  <1>10. Pictures!PublishedIsWhole'
    BY <1>4, <1>5 DEF PicturesFiles, Pictures!PublishedIsWhole
  <1> QED BY <1>7, <1>8, <1>9, <1>10 DEF PicturesFiles

\* Rows and requests change, files do not.
LEMMA FilesUntouched ==
    ASSUME PicturesFiles, NEW r \in Requests, ~Holds(r), NEW w \in Pictures!Work,
           w.pc \notin {"writing", "written"},
           Pictures!Become(r, w), record' \in Pictures!Row, UNCHANGED <<dir, bytes, past>>
    PROVE  PicturesFiles'
  <1>1. /\ work' \in [Requests -> Pictures!Work]
        /\ \A q \in Requests : work'[q] = IF q = r THEN w ELSE work[q]
    BY PicturesBecomes DEF PicturesFiles
  <1>2. \A q \in Requests : /\ Holds(q)' <=> Holds(q)
                            /\ Holds(q) => work'[q] = work[q]
    BY <1>1 DEF Holds
  <1>3. Pictures!TypeOK'
    BY <1>1 DEF PicturesFiles, Pictures!TypeOK
  <1>4. FilesApart'
    BY <1>2 DEF PicturesFiles, FilesApart
  <1>5. UploadsAlone'
    BY <1>2 DEF PicturesFiles, UploadsAlone, Alone
  <1> QED BY <1>3, <1>4, <1>5 DEF PicturesFiles, Pictures!PublishedIsWhole

LEMMA OpenFiles ==
    ASSUME PicturesFiles, NEW r \in Requests, NEW x \in Exts, NEW i \in Inodes, Pictures!Open(r, x, i)
    PROVE  PicturesFiles'
  <1> DEFINE w == [pc |-> "writing", loaded |-> record.picture, ext |-> x, file |-> i]
             partial == <<"part", x>>
  <1>1. w \in Pictures!Work
    BY DEF PicturesFiles, Pictures!TypeOK, Pictures!Row, Pictures!Work
  <1>2. /\ work' \in [Requests -> Pictures!Work]
        /\ \A q \in Requests : work'[q] = IF q = r THEN w ELSE work[q]
    <2>1. Pictures!Become(r, w)
      BY DEF Pictures!Open
    <2> HIDE DEF w
    <2> QED BY <1>1, <2>1, PicturesBecomes DEF PicturesFiles
  <1>3. Holds(r)' /\ ~Holds(r) /\ \A q \in Requests \ {r} : (Holds(q)' <=> Holds(q)) /\ work'[q] = work[q]
    BY <1>2 DEF Holds, Pictures!Open, Pictures!Idle
  <1>4. partial \in Pictures!FileNames
    BY DEF Pictures!FileNames
  <1>5. /\ DOMAIN dir' = DOMAIN dir \cup {partial} /\ dir'[partial] = i
        /\ \A n \in DOMAIN dir : dir'[n] = dir[n]
    BY DEF Pictures!Open
  <1>6. /\ DOMAIN bytes' = DOMAIN bytes \cup {i} /\ bytes'[i] = [c \in {1} |-> r]
        /\ \A j \in DOMAIN bytes \ {i} : bytes'[j] = bytes[j]
    BY DEF Pictures!Open
  <1>7. bytes'[i] \in UNION {[C -> Requests] : C \in SUBSET Pictures!Chunks}
    <2>1. bytes'[i] \in [{1} -> Requests] /\ {1} \in SUBSET Pictures!Chunks
      BY <1>6 DEF Pictures!Chunks
    <2> QED BY <2>1
  <1>8. /\ past'.overlapped = past.overlapped \cup (IF Pictures!Writing(x) # {} THEN {x} ELSE {})
        /\ past' \in Pictures!Past
    <2>1. PICK o : past' = [past EXCEPT !.overlapped = o]
                     /\ o = IF Pictures!Writing(x) # {} THEN past.overlapped \cup {x} ELSE past.overlapped
      BY DEF Pictures!Open
    <2> QED BY <2>1 DEF PicturesFiles, Pictures!TypeOK, Pictures!Past
  <1>9. record' = record
    BY DEF Pictures!Open
  <1>10. Pictures!TypeOK'
    BY <1>2, <1>4, <1>5, <1>6, <1>7, <1>8, <1>9 DEF PicturesFiles, Pictures!TypeOK
  <1>11. \A n \in DOMAIN dir : dir[n] = i => n = partial
    BY DEF Pictures!Open, PicturesFiles, Pictures!TypeOK, FilesApart
  <1>12. \A q \in Requests : Holds(q) /\ work[q].file = i => work[q].ext = x
    BY DEF Pictures!Open, PicturesFiles, Pictures!TypeOK, FilesApart
  <1>13. FilesApart'
    <2>1. \A m, n \in DOMAIN dir' : dir'[m] = dir'[n] => m = n
      BY <1>5, <1>11 DEF PicturesFiles, FilesApart
    <2>2. \A q \in Requests : Holds(q)' => work'[q].file \in DOMAIN bytes'
      BY <1>2, <1>3, <1>6 DEF PicturesFiles, FilesApart
    <2>3. partial[2] = x
      OBVIOUS
    <2>4. \A q \in Requests : Holds(q)' => \A n \in DOMAIN dir' : dir'[n] = work'[q].file => n[2] = work'[q].ext
      BY <1>2, <1>3, <1>5, <1>11, <1>12, <2>3 DEF PicturesFiles, FilesApart
    <2>5. \A p, q \in Requests : Holds(p)' /\ Holds(q)'
          /\ work'[q].file = work'[p].file => work'[q].ext = work'[p].ext
      BY <1>2, <1>3, <1>12 DEF PicturesFiles, FilesApart
    <2> QED BY <2>1, <2>2, <2>4, <2>5 DEF FilesApart
  <1>14. UploadsAlone'
    <2> SUFFICES ASSUME NEW q \in Requests, Holds(q)', work'[q].ext \notin past'.overlapped PROVE Alone(q)'
      BY DEF UploadsAlone
    <2>1. CASE q = r
      <3>1. \A p \in Requests : ~(Holds(p) /\ work[p].ext = x)
        BY <1>2, <1>8, <2>1 DEF Pictures!Writing, Holds
      <3> QED BY <1>2, <1>3, <1>5, <1>6, <2>1, <3>1 DEF Alone
    <2>2. CASE q # r
      <3>1. Holds(q) /\ work'[q] = work[q] /\ Alone(q)
        BY <1>3, <1>8, <2>2 DEF PicturesFiles, UploadsAlone
      <3>2. work[q].ext # x
        BY <1>8, <3>1 DEF Pictures!Writing, Holds
      <3>3. work[q].file # i
        BY <1>12, <3>1, <3>2
      <3>4. work[q].file \in DOMAIN bytes
        BY <3>1 DEF PicturesFiles, FilesApart
      <3> QED BY <1>2, <1>3, <1>5, <1>6, <3>1, <3>2, <3>3, <3>4 DEF Alone
    <2> QED BY <2>1, <2>2
  <1>15. Pictures!PublishedIsWhole'
    <2> SUFFICES ASSUME NEW n \in DOMAIN dir', n[1] = "final", n[2] \notin past'.overlapped
                 PROVE  \E q \in Requests : bytes'[dir'[n]] = [c \in Pictures!Chunks |-> q]
      BY DEF Pictures!PublishedIsWhole
    <2>1. n # partial /\ n \in DOMAIN dir /\ dir'[n] = dir[n] /\ n[2] \notin past.overlapped
      BY <1>5, <1>8
    <2>2. dir[n] # i /\ dir[n] \in DOMAIN bytes
      BY <1>11, <2>1 DEF PicturesFiles, Pictures!TypeOK
    <2>3. PICK q \in Requests : bytes[dir[n]] = [c \in Pictures!Chunks |-> q]
      BY <2>1 DEF PicturesFiles, Pictures!PublishedIsWhole
    <2>4. bytes'[dir'[n]] = bytes[dir[n]]
      BY <1>6, <2>1, <2>2
    <2> QED BY <2>3, <2>4
  <1> QED BY <1>10, <1>13, <1>14, <1>15 DEF PicturesFiles

LEMMA WriteFiles ==
    ASSUME PicturesFiles, NEW r \in Requests, Pictures!Write(r)
    PROVE  PicturesFiles'
  <1> DEFINE w == [work[r] EXCEPT !.pc = "written"]
             i == work[r].file
             b == [c \in DOMAIN bytes[i] \cup {2} |-> IF c = 2 THEN r ELSE bytes[i][c]]
  <1>0. work[r] \in Pictures!Work /\ work[r].pc = "writing" /\ i \in DOMAIN bytes
    BY DEF Pictures!Write, PicturesFiles, Pictures!TypeOK, FilesApart, Holds
  <1>1. /\ w \in Pictures!Work /\ w.pc = "written" /\ w.ext = work[r].ext /\ w.file = i
    BY <1>0 DEF Pictures!Work, Pictures!Idle
  <1>2. /\ work' \in [Requests -> Pictures!Work]
        /\ \A q \in Requests : work'[q] = IF q = r THEN w ELSE work[q]
    <2>1. Pictures!Become(r, w)
      BY DEF Pictures!Write
    <2> HIDE DEF w
    <2> QED BY <1>1, <2>1, PicturesBecomes DEF PicturesFiles
  <1> HIDE DEF w
  <1>3. /\ DOMAIN bytes' = DOMAIN bytes /\ bytes'[i] = b
        /\ \A j \in DOMAIN bytes \ {i} : bytes'[j] = bytes[j]
    BY <1>0 DEF Pictures!Write
  <1>4. bytes'[i] \in UNION {[C -> Requests] : C \in SUBSET Pictures!Chunks}
    <2>1. PICK C \in SUBSET Pictures!Chunks : bytes[i] \in [C -> Requests]
      BY <1>0 DEF PicturesFiles, Pictures!TypeOK
    <2>2. C \cup {2} \in SUBSET Pictures!Chunks
      BY DEF Pictures!Chunks
    <2>3. b \in [C \cup {2} -> Requests]
      BY <2>1
    <2> HIDE DEF b
    <2> QED BY <1>3, <2>2, <2>3
  <1>5. UNCHANGED <<record, dir, past>>
    BY DEF Pictures!Write
  <1>6. Pictures!TypeOK'
    BY <1>2, <1>3, <1>4, <1>5 DEF PicturesFiles, Pictures!TypeOK
  <1>7. \A q \in Requests : /\ Holds(q)' <=> Holds(q)
                            /\ work'[q].ext = work[q].ext \/ ~Holds(q)
                            /\ work'[q].file = work[q].file \/ ~Holds(q)
                            /\ q # r => work'[q] = work[q]
    BY <1>0, <1>1, <1>2 DEF Holds
  <1>8. FilesApart'
    BY <1>3, <1>5, <1>7 DEF PicturesFiles, FilesApart
  <1>9. UploadsAlone'
    <2> SUFFICES ASSUME NEW q \in Requests, Holds(q)', work'[q].ext \notin past'.overlapped PROVE Alone(q)'
      BY DEF UploadsAlone
    <2>1. Holds(q) /\ Alone(q)
      BY <1>5, <1>7 DEF PicturesFiles, UploadsAlone
    <2>2. \A p \in Requests : Holds(p)' /\ work'[p].ext = work'[q].ext => p = q
      BY <1>7, <2>1 DEF Alone
    <2>3. bytes'[work'[q].file] = [c \in (IF work'[q].pc = "writing" THEN {1} ELSE Pictures!Chunks) |-> q]
      <3>1. CASE q = r
        <4>1. bytes[i] = [c \in {1} |-> r]
          <5>1. bytes[work[r].file] = [c \in (IF work[r].pc = "writing" THEN {1} ELSE Pictures!Chunks) |-> r]
            BY <2>1, <3>1 DEF Alone
          <5> QED BY <1>0, <5>1
        <4>2. b = [c \in {1, 2} |-> r]
          BY <4>1
        <4> QED BY <1>1, <1>2, <1>3, <3>1, <4>2 DEF Pictures!Chunks
      <3>2. CASE q # r
        <4>1. work[q].file # i
          BY <1>0, <2>1, <3>2 DEF PicturesFiles, FilesApart, Alone, Holds
        <4>2. work[q].file \in DOMAIN bytes
          BY <2>1 DEF PicturesFiles, FilesApart
        <4>3. bytes'[work[q].file] = bytes[work[q].file]
          BY <1>3, <4>1, <4>2
        <4>4. work'[q] = work[q]
          BY <1>7, <3>2
        <4> QED BY <2>1, <4>3, <4>4 DEF Alone
      <3> QED BY <3>1, <3>2
    <2> QED BY <1>5, <1>7, <2>1, <2>2, <2>3 DEF Alone
  <1>10. Pictures!PublishedIsWhole'
    <2> SUFFICES ASSUME NEW n \in DOMAIN dir, n[1] = "final", n[2] \notin past.overlapped
                 PROVE  \E q \in Requests : bytes'[dir[n]] = [c \in Pictures!Chunks |-> q]
      BY <1>5 DEF Pictures!PublishedIsWhole
    <2>1. dir[n] # i
      <3> SUFFICES ASSUME dir[n] = i PROVE FALSE
        OBVIOUS
      <3>1. n[2] = work[r].ext
        BY <1>0 DEF PicturesFiles, FilesApart, Holds
      <3>2. Alone(r)
        BY <1>0, <3>1 DEF PicturesFiles, UploadsAlone, Holds
      <3>3. n = <<"part", work[r].ext>>
        BY <3>2 DEF Alone, PicturesFiles, FilesApart
      <3> QED BY <3>3
    <2>2. dir[n] \in DOMAIN bytes
      BY DEF PicturesFiles, Pictures!TypeOK
    <2>3. PICK q \in Requests : bytes[dir[n]] = [c \in Pictures!Chunks |-> q]
      BY DEF PicturesFiles, Pictures!PublishedIsWhole
    <2>4. bytes'[dir[n]] = bytes[dir[n]]
      BY <1>3, <2>1, <2>2
    <2> QED BY <2>3, <2>4
  <1> QED BY <1>6, <1>8, <1>9, <1>10 DEF PicturesFiles

\* A whole file takes the place of the picture there was.
LEMMA PublishFiles ==
    ASSUME PicturesFiles, NEW r \in Requests, Pictures!Publish(r)
    PROVE  PicturesFiles'
  <1> DEFINE x == work[r].ext
             partial == <<"part", x>>
             final == <<"final", x>>
             w == [pc |-> "published", loaded |-> work[r].loaded, ext |-> x]
  <1>0. Holds(r) /\ work[r].pc = "written" /\ work[r] \in Pictures!Work
    BY DEF Pictures!Publish, Holds, PicturesFiles, Pictures!TypeOK
  <1>1. UNCHANGED <<record, past>> /\ Pictures!Keep
    BY DEF Pictures!Publish
  <1>2. CASE partial \notin DOMAIN dir
    <2>1. Pictures!Become(r, Pictures!Idle) /\ UNCHANGED dir
      BY <1>2 DEF Pictures!Publish
    <2> QED BY <1>1, <2>1, FilesLeft, PicturesIdleWork DEF PicturesFiles, Pictures!TypeOK
  <1>3. CASE partial \in DOMAIN dir
    <2>1. w \in Pictures!Work /\ w.pc = "published"
      BY <1>0, PicturesWorkKinds DEF Pictures!Work
    <2>2. Pictures!Become(r, w)
      BY <1>3 DEF Pictures!Publish
    <2> HIDE DEF w
    <2>3. /\ work' \in [Requests -> Pictures!Work]
          /\ \A q \in Requests : work'[q] = IF q = r THEN w ELSE work[q]
      BY <2>1, <2>2, PicturesBecomes DEF PicturesFiles
    <2>4. \A q \in Requests : Holds(q)' => q # r /\ Holds(q) /\ work'[q] = work[q]
      BY <2>1, <2>3 DEF Holds
    <2>5. /\ DOMAIN dir' = (DOMAIN dir \ {partial}) \cup {final} /\ dir'[final] = dir[partial]
          /\ \A n \in DOMAIN dir' \ {final} : n \in DOMAIN dir /\ n # partial /\ dir'[n] = dir[n]
      BY <1>3 DEF Pictures!Publish
    <2>6. Pictures!Live' \subseteq DOMAIN bytes
      BY <1>3, <2>4, <2>5 DEF PicturesFiles, Pictures!TypeOK, FilesApart, Pictures!Live, Holds
    <2>7. /\ DOMAIN bytes' = Pictures!Live' /\ DOMAIN bytes' \subseteq Inodes
          /\ \A i \in DOMAIN bytes' : bytes'[i] = bytes[i]
          /\ \A i \in DOMAIN bytes' : bytes'[i] \in UNION {[C -> Requests] : C \in SUBSET Pictures!Chunks}
      BY <1>1, <2>6, KeptBytes DEF PicturesFiles
    <2>8. \A n \in DOMAIN dir' : dir'[n] \in DOMAIN bytes'
      BY <2>7 DEF Pictures!Live
    <2>9. \A q \in Requests : Holds(q)' => work[q].file \in DOMAIN bytes'
      BY <2>4, <2>7 DEF Pictures!Live, Holds
    <2>10. final \in Pictures!FileNames
      BY <1>0, PicturesWorkKinds DEF Pictures!FileNames
    <2>11. Pictures!TypeOK'
      BY <1>1, <2>3, <2>5, <2>7, <2>8, <2>10 DEF PicturesFiles, Pictures!TypeOK
    <2>12. FilesApart'
      <3>1. final[2] = partial[2]
        OBVIOUS
      <3>2. \A m, n \in DOMAIN dir' : dir'[m] = dir'[n] => m = n
        BY <1>3, <2>5 DEF PicturesFiles, FilesApart
      <3>3. \A q \in Requests : Holds(q)' => \A n \in DOMAIN dir' : dir'[n] = work'[q].file
              => n[2] = work'[q].ext
        BY <1>3, <2>4, <2>5, <3>1 DEF PicturesFiles, FilesApart
      <3>4. \A q, p \in Requests : Holds(q)' /\ Holds(p)'
            /\ work'[q].file = work'[p].file => work'[q].ext = work'[p].ext
        BY <2>4 DEF PicturesFiles, FilesApart
      <3> QED BY <2>4, <2>9, <3>2, <3>3, <3>4 DEF FilesApart
    <2>13. UploadsAlone'
      <3> SUFFICES ASSUME NEW q \in Requests, Holds(q)', work'[q].ext \notin past'.overlapped PROVE Alone(q)'
        BY DEF UploadsAlone
      <3>1. q # r /\ Holds(q) /\ work'[q] = work[q] /\ Alone(q)
        BY <1>1, <2>4 DEF PicturesFiles, UploadsAlone
      <3>2. \A p \in Requests : Holds(p)' /\ work'[p].ext = work'[q].ext => p = q
        BY <2>4, <3>1 DEF Alone
      <3>3. work[q].ext # x
        BY <1>0, <3>1 DEF Alone
      <3>4. <<"part", work[q].ext>> # partial /\ <<"part", work[q].ext>> # final
        BY <3>3
      <3>5. <<"part", work[q].ext>> \in DOMAIN dir'
        BY <2>5, <3>1, <3>4 DEF Alone
      <3>6. bytes'[work[q].file] = bytes[work[q].file]
        BY <2>7, <2>9
      <3>7. dir'[<<"part", work[q].ext>>] = work[q].file
        BY <2>5, <3>1, <3>4, <3>5 DEF Alone
      <3> QED BY <3>1, <3>2, <3>5, <3>6, <3>7 DEF Alone
    <2>14. Pictures!PublishedIsWhole'
      <3> SUFFICES ASSUME NEW n \in DOMAIN dir', n[1] = "final", n[2] \notin past'.overlapped
                   PROVE  \E q \in Requests : bytes'[dir'[n]] = [c \in Pictures!Chunks |-> q]
        BY DEF Pictures!PublishedIsWhole
      <3>1. bytes'[dir'[n]] = bytes[dir'[n]]
        BY <2>7, <2>8
      <3>2. CASE n = final
        <4>0. x \notin past.overlapped
          <5>1. final[2] = x
            OBVIOUS
          <5>2. past' = past
            BY <1>1
          <5> QED BY <3>2, <5>1, <5>2
        <4>1. Alone(r)
          BY <1>0, <4>0 DEF PicturesFiles, UploadsAlone
        <4>2. bytes[dir[partial]] = [c \in (IF work[r].pc = "writing" THEN {1} ELSE Pictures!Chunks) |-> r]
          BY <4>1 DEF Alone
        <4>3. bytes[dir[partial]] = [c \in Pictures!Chunks |-> r]
          BY <1>0, <4>2
        <4>4. bytes'[dir'[n]] = bytes[dir[partial]]
          BY <2>5, <3>1, <3>2
        <4> QED BY <4>3, <4>4
      <3>3. CASE n # final
        <4>1. n \in DOMAIN dir /\ dir'[n] = dir[n]
          BY <2>5, <3>3
        <4>2. PICK q \in Requests : bytes[dir[n]] = [c \in Pictures!Chunks |-> q]
          BY <1>1, <4>1 DEF PicturesFiles, Pictures!PublishedIsWhole
        <4> QED BY <3>1, <4>1, <4>2
      <3> QED BY <3>2, <3>3
    <2> QED BY <2>11, <2>12, <2>13, <2>14 DEF PicturesFiles
  <1> QED BY <1>2, <1>3

LEMMA FilesStep ==
    ASSUME PicturesFiles, NEW r \in Requests,
           \/ \E x \in Exts, i \in Inodes : Pictures!Open(r, x, i)
           \/ Pictures!Write(r) \/ Pictures!GiveUp(r) \/ Pictures!Publish(r) \/ Pictures!SetColumn(r)
           \/ Pictures!Unlink(r) \/ Pictures!RemoveRow(r) \/ Pictures!Abort(r)
    PROVE  PicturesFiles'
  <1>1. CASE Pictures!GiveUp(r)
    <2>1. Pictures!Become(r, Pictures!Idle) /\ Pictures!Keep /\ UNCHANGED <<record, past>>
          /\ dir' = Pictures!Without(<<"part", work[r].ext>>) /\ Holds(r)
      BY <1>1 DEF Pictures!GiveUp, Holds
    <2>2. \A n \in DOMAIN dir : n[1] = "part" /\ n[2] # work[r].ext => n \in DOMAIN dir'
      BY <2>1 DEF Pictures!Without
    <2>3. DOMAIN dir' \subseteq DOMAIN dir /\ \A n \in DOMAIN dir' : dir'[n] = dir[n]
      BY <2>1 DEF Pictures!Without
    <2> QED BY <2>1, <2>2, <2>3, FilesLeft, PicturesIdleWork DEF PicturesFiles, Pictures!TypeOK
  <1>2. CASE Pictures!SetColumn(r)
    <2>1. Pictures!Become(r, Pictures!Idle) /\ UNCHANGED <<dir, bytes, past>> /\ ~Holds(r)
      BY <1>2 DEF Pictures!SetColumn, Holds
    <2>2. work[r].ext \in Exts /\ record \in Pictures!Row
      BY <1>2, PicturesWorkKinds DEF Pictures!SetColumn, PicturesFiles, Pictures!TypeOK
    <2>3. record' \in Pictures!Row
      BY <1>2, <2>2 DEF Pictures!SetColumn, Pictures!Row
    <2> QED BY <2>1, <2>3, FilesUntouched, PicturesIdleWork
  <1>3. CASE Pictures!Unlink(r)
    <2> DEFINE w == [pc |-> "unlinked"]
    <2>1. w \in Pictures!Work /\ w.pc = "unlinked"
      BY DEF Pictures!Work
    <2>2. Pictures!Become(r, w) /\ Pictures!Keep /\ UNCHANGED <<record, past>>
      BY <1>3 DEF Pictures!Unlink
    <2>3. /\ DOMAIN dir' \subseteq DOMAIN dir /\ \A n \in DOMAIN dir' : dir'[n] = dir[n]
          /\ \A n \in DOMAIN dir : n[1] = "part" => n \in DOMAIN dir'
      BY <1>3 DEF Pictures!Unlink
    <2> HIDE DEF w
    <2> QED BY <2>1, <2>2, <2>3, FilesLeft DEF PicturesFiles, Pictures!TypeOK
  <1>4. CASE Pictures!RemoveRow(r)
    <2>1. Pictures!Become(r, Pictures!Idle) /\ UNCHANGED <<dir, bytes, past>> /\ ~Holds(r)
      BY <1>4 DEF Pictures!RemoveRow, Holds
    <2>2. record' \in Pictures!Row
      BY <1>4 DEF Pictures!RemoveRow, Pictures!Row
    <2> QED BY <2>1, <2>2, FilesUntouched, PicturesIdleWork
  <1>5. CASE Pictures!Abort(r)
    <2>1. Pictures!Become(r, Pictures!Idle) /\ Pictures!Keep /\ UNCHANGED <<record, dir>>
      BY <1>5 DEF Pictures!Abort
    <2>2. past' \in Pictures!Past /\ past'.overlapped = past.overlapped
      BY <1>5 DEF Pictures!Abort, PicturesFiles, Pictures!TypeOK, Pictures!Past
    <2> QED BY <2>1, <2>2, FilesLeft, PicturesIdleWork DEF PicturesFiles, Pictures!TypeOK
  <1> QED BY <1>1, <1>2, <1>3, <1>4, <1>5, OpenFiles, WriteFiles, PublishFiles

-----------------------------------------------------------------------------
(* The column.                                                             *)

LEMMA ColumnStep ==
    ASSUME PicturesInductive, NEW r \in Requests,
           \/ \E x \in Exts, i \in Inodes : Pictures!Open(r, x, i)
           \/ Pictures!Write(r) \/ Pictures!GiveUp(r) \/ Pictures!Publish(r) \/ Pictures!SetColumn(r)
           \/ Pictures!Unlink(r) \/ Pictures!RemoveRow(r) \/ Pictures!Abort(r)
    PROVE  PicturesColumn'
  <1>0. Pictures!TypeOK /\ work \in [Requests -> Pictures!Work] /\ work[r] \in Pictures!Work
    BY DEF PicturesInductive, Pictures!TypeOK
  \* A step that leaves the row and what excuses a missing picture alone.
  <1>1. ASSUME NEW w \in Pictures!Work, Pictures!Become(r, w), w.pc \notin {"published", "unlinked"},
               work[r].pc # "unlinked",
               UNCHANGED record, past'.cut = past.cut,
               \A x : <<"final", x>> \in DOMAIN dir => <<"final", x>> \in DOMAIN dir'
        PROVE  PicturesColumn'
    <2>1. \A q \in Requests : work'[q] = IF q = r THEN w ELSE work[q]
      BY <1>0, <1>1, PicturesBecomes
    <2>2. \A x : Served(x) => Served(x)'
      BY <1>1, <2>1 DEF Served
    <2>3. ColumnsToCome'
      BY <1>1, <2>1, <2>2 DEF PicturesInductive, ColumnsToCome
    <2>4. \A x \in record.picture : Served(x)
      BY DEF PicturesInductive, Pictures!PicturesHold, Pictures!ColumnNamesFile, Served
    <2>5. Pictures!ColumnNamesFile'
      BY <1>1, <2>2, <2>4 DEF Pictures!ColumnNamesFile, Served
    <2> QED BY <2>3, <2>5 DEF PicturesColumn
  <1>2. CASE \E x \in Exts, i \in Inodes : Pictures!Open(r, x, i)
    <2>1. PICK x \in Exts, i \in Inodes : Pictures!Open(r, x, i)
      BY <1>2
    <2> DEFINE w == [pc |-> "writing", loaded |-> record.picture, ext |-> x, file |-> i]
    <2>2. w \in Pictures!Work /\ w.pc = "writing"
      BY <1>0 DEF Pictures!TypeOK, Pictures!Row, Pictures!Work
    <2>3. Pictures!Become(r, w) /\ work[r].pc = "idle" /\ UNCHANGED record
      BY <2>1 DEF Pictures!Open, Pictures!Idle
    <2>4. past'.cut = past.cut
      <3>1. PICK o : past' = [past EXCEPT !.overlapped = o]
        BY <2>1 DEF Pictures!Open
      <3> QED BY <1>0, <3>1 DEF Pictures!TypeOK, Pictures!Past
    <2>5. \A n \in DOMAIN dir : n \in DOMAIN dir'
      BY <2>1 DEF Pictures!Open
    <2> HIDE DEF w
    <2> QED BY <1>1, <2>2, <2>3, <2>4, <2>5
  <1>3. CASE Pictures!Write(r)
    <2> DEFINE w == [work[r] EXCEPT !.pc = "written"]
    <2>1. w \in Pictures!Work /\ w.pc = "written"
      BY <1>0, <1>3 DEF Pictures!Write, Pictures!Work, Pictures!Idle
    <2>2. Pictures!Become(r, w) /\ work[r].pc = "writing" /\ UNCHANGED <<record, dir, past>>
      BY <1>3 DEF Pictures!Write
    <2> HIDE DEF w
    <2> QED BY <1>1, <2>1, <2>2
  <1>4. CASE Pictures!GiveUp(r)
    <2>1. Pictures!Become(r, Pictures!Idle) /\ work[r].pc # "unlinked" /\ UNCHANGED <<record, past>>
      BY <1>4 DEF Pictures!GiveUp
    <2>2. \A x : <<"final", x>> \in DOMAIN dir => <<"final", x>> \in DOMAIN dir'
      BY <1>4 DEF Pictures!GiveUp, Pictures!Without
    <2> QED BY <1>1, <2>1, <2>2, PicturesIdleWork
  <1>5. CASE Pictures!Publish(r)
    <2> DEFINE x == work[r].ext
               w == [pc |-> "published", loaded |-> work[r].loaded, ext |-> x]
    <2>1. UNCHANGED <<record, past>> /\ work[r].pc = "written"
      BY <1>5 DEF Pictures!Publish
    <2>2. CASE <<"part", x>> \notin DOMAIN dir
      BY <1>1, <1>5, <2>1, <2>2, PicturesIdleWork DEF Pictures!Publish
    <2>3. CASE <<"part", x>> \in DOMAIN dir
      <3>1. w \in Pictures!Work /\ w.pc = "published" /\ w.ext = x
        BY <1>0, <2>1, PicturesWorkKinds DEF Pictures!Work
      <3>2. Pictures!Become(r, w)
        BY <1>5, <2>3 DEF Pictures!Publish
      <3> HIDE DEF w
      <3>3. \A q \in Requests : work'[q] = IF q = r THEN w ELSE work[q]
        BY <1>0, <3>1, <3>2, PicturesBecomes
      <3>4. /\ <<"final", x>> \in DOMAIN dir'
            /\ \A y : <<"final", y>> \in DOMAIN dir => <<"final", y>> \in DOMAIN dir'
        BY <1>5, <2>3 DEF Pictures!Publish
      <3>5. Served(x)' /\ \A y : Served(y) => Served(y)'
        BY <2>1, <3>1, <3>3, <3>4 DEF Served
      <3>6. ColumnsToCome'
        BY <2>1, <3>1, <3>3, <3>5 DEF PicturesInductive, ColumnsToCome
      <3>7. \A y \in record.picture : Served(y)
        BY DEF PicturesInductive, Pictures!PicturesHold, Pictures!ColumnNamesFile, Served
      <3>8. Pictures!ColumnNamesFile'
        BY <2>1, <3>5, <3>7 DEF Pictures!ColumnNamesFile, Served
      <3> QED BY <3>6, <3>8 DEF PicturesColumn
    <2> QED BY <2>2, <2>3
  <1>6. CASE Pictures!SetColumn(r)
    <2>1. Pictures!Become(r, Pictures!Idle) /\ work[r].pc = "published" /\ record.there
          /\ UNCHANGED <<dir, past>>
      BY <1>6 DEF Pictures!SetColumn
    <2>2. \A q \in Requests : work'[q] = IF q = r THEN Pictures!Idle ELSE work[q]
      BY <1>0, <2>1, PicturesBecomes, PicturesIdleWork
    <2>3. \A y : Served(y) => Served(y)'
      BY <2>1, <2>2 DEF Served
    <2>4. Served(work[r].ext)
      BY <2>1 DEF PicturesInductive, ColumnsToCome
    <2>5. record'.there /\ (record'.picture = record.picture \/ record'.picture = {work[r].ext})
      BY <1>0, <1>6, <2>1 DEF Pictures!SetColumn, Pictures!TypeOK, Pictures!Row
    <2>6. \A y \in record.picture : Served(y)
      BY DEF PicturesInductive, Pictures!PicturesHold, Pictures!ColumnNamesFile, Served
    <2>7. Pictures!ColumnNamesFile'
      BY <2>3, <2>4, <2>5, <2>6 DEF Pictures!ColumnNamesFile, Served
    <2>8. ColumnsToCome'
      <3> SUFFICES ASSUME NEW q \in Requests, work'[q].pc = "published" PROVE Served(work[q].ext)'
        BY <2>5 DEF ColumnsToCome
      <3>1. work'[q] = work[q]
        BY <2>2, PicturesIdleWork
      <3>2. Served(work[q].ext)
        BY <2>1, <3>1 DEF PicturesInductive, ColumnsToCome
      <3> QED BY <2>3, <3>1, <3>2
    <2> QED BY <2>7, <2>8 DEF PicturesColumn
  <1>7. CASE Pictures!Unlink(r)
    <2> DEFINE w == [pc |-> "unlinked"]
    <2>1. w \in Pictures!Work /\ w.pc = "unlinked"
      BY DEF Pictures!Work
    <2>2. Pictures!Become(r, w) /\ UNCHANGED <<record, past>>
      BY <1>7 DEF Pictures!Unlink
    <2> HIDE DEF w
    <2>3. \A q \in Requests : work'[q] = IF q = r THEN w ELSE work[q]
      BY <1>0, <2>1, <2>2, PicturesBecomes
    <2>4. \A y : Served(y)'
      BY <2>1, <2>3 DEF Served
    <2> QED BY <2>1, <2>2, <2>3, <2>4
            DEF PicturesInductive, PicturesColumn, ColumnsToCome, Pictures!ColumnNamesFile, Served
  <1>8. CASE Pictures!RemoveRow(r)
    BY <1>8 DEF Pictures!RemoveRow, PicturesColumn, ColumnsToCome, Pictures!ColumnNamesFile
  <1>9. CASE Pictures!Abort(r)
    <2>1. Pictures!Become(r, Pictures!Idle) /\ UNCHANGED <<record, dir>>
      BY <1>9 DEF Pictures!Abort
    <2>2. past'.cut = (past.cut \/ work[r].pc = "unlinked")
      BY <1>0, <1>9 DEF Pictures!Abort, Pictures!TypeOK, Pictures!Past
    <2>3. \A q \in Requests : work'[q] = IF q = r THEN Pictures!Idle ELSE work[q]
      BY <1>0, <2>1, PicturesBecomes, PicturesIdleWork
    <2>4. \A y : Served(y) => Served(y)'
      BY <2>1, <2>2, <2>3 DEF Served
    <2>5. \A y \in record.picture : Served(y)
      BY DEF PicturesInductive, Pictures!PicturesHold, Pictures!ColumnNamesFile, Served
    <2>6. ColumnsToCome'
      BY <2>1, <2>3, <2>4, PicturesIdleWork DEF PicturesInductive, ColumnsToCome
    <2>7. Pictures!ColumnNamesFile'
      BY <2>1, <2>4, <2>5 DEF Pictures!ColumnNamesFile, Served
    <2> QED BY <2>6, <2>7 DEF PicturesColumn
  <1> QED BY <1>2, <1>3, <1>4, <1>5, <1>6, <1>7, <1>8, <1>9

-----------------------------------------------------------------------------

LEMMA PicturesInitInv == Pictures!Init => PicturesInductive
  <1> SUFFICES ASSUME Pictures!Init PROVE PicturesInductive
    OBVIOUS
  <1>1. DOMAIN dir = {} /\ DOMAIN bytes = {} /\ record \in Pictures!Row /\ record.picture = {}
        /\ past \in Pictures!Past
    BY DEF Pictures!Init, Pictures!Empty, Pictures!Row, Pictures!Past
  <1>2. work \in [Requests -> Pictures!Work] /\ \A r \in Requests : work[r].pc = "idle"
    BY PicturesIdleWork DEF Pictures!Init
  <1> QED BY <1>1, <1>2
          DEF PicturesInductive, Pictures!TypeOK, FilesApart, UploadsAlone, ColumnsToCome,
              Pictures!PicturesHold, Pictures!PublishedIsWhole, Pictures!ColumnNamesFile, Holds

LEMMA PicturesStepInv ==
    ASSUME PicturesInductive, [Pictures!Next]_Pictures!vars
    PROVE  PicturesInductive'
  <1>1. CASE Pictures!Next
    <2>1. PicturesFiles' /\ PicturesColumn'
      BY <1>1, FilesStep, ColumnStep, PicturesParts DEF Pictures!Next
    <2> QED BY <2>1 DEF PicturesInductive, PicturesFiles, PicturesColumn, Pictures!PicturesHold
  <1>2. CASE UNCHANGED Pictures!vars
    <2>1. UNCHANGED record /\ UNCHANGED dir /\ UNCHANGED bytes /\ UNCHANGED past /\ UNCHANGED work
      BY <1>2 DEF Pictures!vars
    <2> QED BY <2>1
            DEF PicturesInductive, Pictures!TypeOK, FilesApart, UploadsAlone, Alone, Holds, ColumnsToCome,
                Served, Pictures!PicturesHold, Pictures!PublishedIsWhole, Pictures!ColumnNamesFile
  <1> QED BY <1>1, <1>2

-----------------------------------------------------------------------------
(* Catalogue: references hold, and unique columns are a KeyTable.          *)

LEMMA RowsKinds ==
    ASSUME Rows!IdsApart, NEW i \in Rows!Ids
    PROVE  /\ i \in Years => Rows!Columns(i) = Rows!AcademicYear /\ Rows!Settable(i) = Rows!AcademicYear
              /\ Rows!Unique(i) = {{"name"}}
           /\ i \in Terms.rows => Rows!Columns(i) = Rows!Term /\ Rows!Settable(i) = [name: Values]
              /\ Rows!Unique(i) = {{"year", "name"}}
           /\ i \in Levels => /\ Rows!Columns(i) = Rows!GradeLevel
                              /\ Rows!Settable(i) = [name: Values] \cup [rank: Values] \cup Rows!GradeLevel
                              /\ Rows!Unique(i) = {{"name"}, {"rank"}}
           /\ i \in Sections => /\ Rows!Columns(i) = Rows!Section
                                /\ Rows!Settable(i) = [name: Values] \cup [homeroom: Rows!Optional(Teachers.rows)]
                                                 \cup [name: Values, homeroom: Rows!Optional(Teachers.rows)]
                                /\ Rows!Unique(i) = {{"level", "year", "name"}}
           /\ i \in Subjects => Rows!Columns(i) = Rows!Subject /\ Rows!Settable(i) = Rows!Subject
              /\ Rows!Unique(i) = {{"code"}}
           /\ i \in Classes.rows => /\ Rows!Columns(i) = Rows!Class
                               /\ Rows!Settable(i) = Rows!ClassUpdate
                               /\ Rows!Unique(i) = {}
           /\ i \in Teachers.rows => Rows!Columns(i) = {<<>>} /\ Rows!Settable(i) = {<<>>} /\ Rows!Unique(i) = {}
  <1>1. i \in Years => Rows!Columns(i) = Rows!AcademicYear /\ Rows!Settable(i) = Rows!AcademicYear
        /\ Rows!Unique(i) = {{"name"}}
    BY DEF Rows!IdsApart, Rows!Columns, Rows!Settable, Rows!Unique
  <1>2. i \in Terms.rows => Rows!Columns(i) = Rows!Term /\ Rows!Settable(i) = [name: Values]
        /\ Rows!Unique(i) = {{"year", "name"}}
    BY DEF Rows!IdsApart, Rows!Columns, Rows!Settable, Rows!Unique
  <1>3. i \in Levels => /\ Rows!Columns(i) = Rows!GradeLevel
                        /\ Rows!Settable(i) = [name: Values] \cup [rank: Values] \cup Rows!GradeLevel
                        /\ Rows!Unique(i) = {{"name"}, {"rank"}}
    BY DEF Rows!IdsApart, Rows!Columns, Rows!Settable, Rows!Unique
  <1>4. i \in Sections => /\ Rows!Columns(i) = Rows!Section
                          /\ Rows!Settable(i) = [name: Values] \cup [homeroom: Rows!Optional(Teachers.rows)]
                                           \cup [name: Values, homeroom: Rows!Optional(Teachers.rows)]
                          /\ Rows!Unique(i) = {{"level", "year", "name"}}
    BY DEF Rows!IdsApart, Rows!Columns, Rows!Settable, Rows!Unique
  <1>5. i \in Subjects => Rows!Columns(i) = Rows!Subject /\ Rows!Settable(i) = Rows!Subject
        /\ Rows!Unique(i) = {{"code"}}
    BY DEF Rows!IdsApart, Rows!Columns, Rows!Settable, Rows!Unique
  <1>6. i \in Classes.rows => /\ Rows!Columns(i) = Rows!Class
                         /\ Rows!Settable(i) = Rows!ClassUpdate
                         /\ Rows!Unique(i) = {}
    BY DEF Rows!IdsApart, Rows!Columns, Rows!Settable, Rows!Unique
  <1>7. i \in Teachers.rows => Rows!Columns(i) = {<<>>} /\ Rows!Settable(i) = {<<>>} /\ Rows!Unique(i) = {}
    BY DEF Rows!IdsApart, Rows!Columns, Rows!Settable, Rows!Unique
  <1> QED BY <1>1, <1>2, <1>3, <1>4, <1>5, <1>6, <1>7

LEMMA SomeTable ==
    ASSUME NEW i \in Rows!Ids
    PROVE  i \in Years \/ i \in Terms.rows \/ i \in Levels \/ i \in Sections \/ i \in Subjects
           \/ i \in Classes.rows \/ i \in Teachers.rows
  BY DEF Rows!Ids

\* Setting columns of a row leaves a row of the same table.
LEMMA Written ==
    ASSUME Rows!IdsApart, NEW i \in Rows!Ids, NEW old \in Rows!Columns(i), NEW set \in Rows!Settable(i)
    PROVE  Rows!Write(old, set) \in Rows!Columns(i)
  <1>1. CASE i \in Years
    <2>1. old \in Rows!AcademicYear /\ set \in Rows!AcademicYear /\ Rows!Columns(i) = Rows!AcademicYear
      BY <1>1, RowsKinds
    <2> QED BY <2>1 DEF Rows!Write, Rows!AcademicYear
  <1>2. CASE i \in Terms.rows
    <2>1. old \in Rows!Term /\ set \in [name: Values] /\ Rows!Columns(i) = Rows!Term
      BY <1>2, RowsKinds
    <2>2. DOMAIN old = {"name", "year"} /\ old["name"] \in Values /\ old["year"] \in Years
      BY <2>1 DEF Rows!Term
    <2>3. DOMAIN set = {"name"} /\ set["name"] \in Values
      BY <2>1
    <2> QED BY <2>1, <2>2, <2>3 DEF Rows!Write, Rows!Term
  <1>3. CASE i \in Levels
    <2>1. old \in Rows!GradeLevel /\ set \in [name: Values] \cup [rank: Values] \cup Rows!GradeLevel
          /\ Rows!Columns(i) = Rows!GradeLevel
      BY <1>3, RowsKinds
    <2>2. DOMAIN old = {"name", "rank"} /\ old["name"] \in Values /\ old["rank"] \in Values
      BY <2>1 DEF Rows!GradeLevel
    <2>3. ("name" \in DOMAIN set => set["name"] \in Values) /\ ("rank" \in DOMAIN set => set["rank"] \in Values)
      BY <2>1 DEF Rows!GradeLevel
    <2> QED BY <2>1, <2>2, <2>3 DEF Rows!Write, Rows!GradeLevel
  <1>4. CASE i \in Sections
    <2>1. /\ old \in Rows!Section /\ Rows!Columns(i) = Rows!Section
          /\ set \in [name: Values] \cup [homeroom: Rows!Optional(Teachers.rows)] \cup [name: Values, homeroom: Rows!Optional(Teachers.rows)]
      BY <1>4, RowsKinds
    <2>2. /\ DOMAIN old = {"name", "level", "year", "homeroom"} /\ old["name"] \in Values
          /\ old["level"] \in Levels /\ old["year"] \in Years
             /\ old["homeroom"] \in Rows!Optional(Teachers.rows)
      BY <2>1 DEF Rows!Section
    <2>3. /\ "level" \notin DOMAIN set /\ "year" \notin DOMAIN set
          /\ "name" \in DOMAIN set => set["name"] \in Values
          /\ "homeroom" \in DOMAIN set => set["homeroom"] \in Rows!Optional(Teachers.rows)
      BY <2>1
    <2> QED BY <2>1, <2>2, <2>3 DEF Rows!Write, Rows!Section
  <1>5. CASE i \in Subjects
    <2>1. old \in Rows!Subject /\ set \in Rows!Subject /\ Rows!Columns(i) = Rows!Subject
      BY <1>5, RowsKinds
    <2> QED BY <2>1 DEF Rows!Write, Rows!Subject
  <1>6. CASE i \in Classes.rows
    <2>1. old \in Rows!Class
          /\ set \in Rows!ClassUpdate /\ Rows!Columns(i) = Rows!Class
      BY <1>6, RowsKinds
    <2>2. /\ DOMAIN old = {"subject", "term", "teacher"} /\ old["subject"] \in Subjects
          /\ old["term"] \in Terms.rows /\ old["teacher"] \in Teachers.rows
      BY <2>1 DEF Rows!Class
    <2>3. /\ "subject" \in DOMAIN set => set["subject"] \in Subjects
          /\ "term" \in DOMAIN set => set["term"] \in Terms.rows
          /\ "teacher" \in DOMAIN set => set["teacher"] \in Teachers.rows
      BY <2>1 DEF Rows!ClassUpdate, Rows!Class
    <2> QED BY <2>1, <2>2, <2>3 DEF Rows!Write, Rows!Class
  <1>7. CASE i \in Teachers.rows
    <2>1. old = <<>> /\ Rows!Columns(i) = {<<>>}
      BY <1>7, RowsKinds
    <2>2. Rows!Write(old, set) = <<>>
      BY <2>1 DEF Rows!Write
    <2> QED BY <2>1, <2>2
  <1> QED BY <1>1, <1>2, <1>3, <1>4, <1>5, <1>6, <1>7, SomeTable

\* Only sections have a homeroom teacher.
LEMMA HomeroomKinds ==
    ASSUME Rows!IdsApart, NEW i \in Rows!Ids, NEW old \in Rows!Columns(i)
    PROVE  IF i \in Sections THEN old \in Rows!Section ELSE "homeroom" \notin DOMAIN old
  <1>1. i \notin Sections => old \in Rows!AcademicYear \/ old \in Rows!Term \/ old \in Rows!GradeLevel
        \/ old \in Rows!Subject \/ old \in Rows!Class \/ old = <<>>
    BY RowsKinds, SomeTable
  <1>2. old \in Rows!AcademicYear \/ old \in Rows!Term \/ old \in Rows!GradeLevel \/ old \in Rows!Subject
        \/ old \in Rows!Class => "homeroom" \notin DOMAIN old
    BY DEF Rows!AcademicYear, Rows!Term, Rows!GradeLevel, Rows!Subject, Rows!Class
  <1>3. DOMAIN <<>> = {}
    OBVIOUS
  <1> QED BY <1>1, <1>2, <1>3, RowsKinds

LEMMA RowsIdleWork == Rows!Idle.pc = "idle"
  BY DEF Rows!Idle

-----------------------------------------------------------------------------

RowsInductive == Rows!TypeOK /\ Rows!ReferencesHold

LEMMA RowsInitInv == Rows!Init => RowsInductive
  BY DEF Rows!Init, RowsInductive, Rows!TypeOK, Rows!ReferencesHold

\* Looks and ends.
LEMMA BecomeInv ==
    ASSUME RowsInductive, NEW r \in Requests, NEW w, Rows!Become(r, w), UNCHANGED <<row, past>>,
           \/ w = Rows!Idle
           \/ \E i \in Rows!Ids : \/ w \in [pc: {"create"}, id: {i}, set: Rows!Columns(i)]
                            \/ w \in [pc: {"update"}, id: {i}, set: Rows!Settable(i)]
    PROVE  RowsInductive'
  <1>1. Rows!TypeOK'
    <2> DEFINE Fit(x) == \/ x = Rows!Idle
                         \/ \E i \in Rows!Ids : \/ x \in [pc: {"create"}, id: {i}, set: Rows!Columns(i)]
                                          \/ x \in [pc: {"update"}, id: {i}, set: Rows!Settable(i)]
    <2>1. DOMAIN work = Requests /\ \A q \in Requests : Fit(work[q])
      BY DEF RowsInductive, Rows!TypeOK
    <2>2. Fit(w)
      OBVIOUS
    <2>3. work' = [work EXCEPT ![r] = w]
      BY DEF Rows!Become
    <2> HIDE DEF Fit
    <2>4. DOMAIN work' = Requests /\ \A q \in Requests : Fit(work'[q])
      BY <2>1, <2>2, <2>3
    <2> QED BY <2>4 DEF RowsInductive, Rows!TypeOK, Fit
  <1>2. Rows!ReferencesHold'
    BY DEF RowsInductive, Rows!ReferencesHold, Rows!Parents, Rows!Homeroom
  <1> QED BY <1>1, <1>2 DEF RowsInductive

LEMMA CreateInv ==
    ASSUME RowsInductive, NEW r \in Requests, NEW i \in Rows!Ids, NEW new \in Rows!Columns(i),
           Rows!Create(r, i, new)
    PROVE  RowsInductive'
  <1>1. [pc |-> "create", id |-> i, set |-> new] \in [pc: {"create"}, id: {i}, set: Rows!Columns(i)]
    OBVIOUS
  <1> QED BY <1>1, BecomeInv DEF Rows!Create

LEMMA UpdateInv ==
    ASSUME RowsInductive, NEW r \in Requests, NEW i \in Rows!Ids, NEW set \in Rows!Settable(i),
           Rows!Update(r, i, set)
    PROVE  RowsInductive'
  <1>1. [pc |-> "update", id |-> i, set |-> set] \in [pc: {"update"}, id: {i}, set: Rows!Settable(i)]
    OBVIOUS
  <1> QED BY <1>1, BecomeInv DEF Rows!Update

\* What a Commit puts, and where.
LEMMA CommitPuts ==
    ASSUME Rows!IdsApart, RowsInductive, NEW r \in Requests, Rows!Commit(r)
    PROVE  \E i \in Rows!Ids : \E new \in Rows!Columns(i) :
              /\ Rows!Put(r, new) /\ work[r].id = i
              /\ ~Rows!Taken(i, new)
              /\ Rows!Parents(new) \cup Rows!Homeroom(new) \subseteq DOMAIN row
  <1> DEFINE w == work[r]
  <1>1. PICK i \in Rows!Ids : \/ w \in [pc: {"create"}, id: {i}, set: Rows!Columns(i)]
                        \/ w \in [pc: {"update"}, id: {i}, set: Rows!Settable(i)]
    BY DEF Rows!Commit, RowsInductive, Rows!TypeOK
  <1>2. w.id = i
    BY <1>1
  <1>3. Rows!Wanted(w) \in Rows!Columns(i)
    <2>1. CASE w \in [pc: {"create"}, id: {i}, set: Rows!Columns(i)]
      BY <2>1 DEF Rows!Wanted
    <2>2. CASE w \in [pc: {"update"}, id: {i}, set: Rows!Settable(i)]
      <3>1. i \in DOMAIN row /\ row[i] \in Rows!Columns(i)
        BY <2>2 DEF Rows!Commit, RowsInductive, Rows!TypeOK
      <3>2. Rows!Wanted(w) = Rows!Write(row[i], w.set) /\ w.set \in Rows!Settable(i)
        BY <2>2 DEF Rows!Wanted
      <3> QED BY <3>1, <3>2, Written
    <2> QED BY <1>1, <2>1, <2>2
  <1> QED BY <1>2, <1>3 DEF Rows!Commit

LEMMA CommitInv ==
    ASSUME Rows!IdsApart, RowsInductive, NEW r \in Requests, Rows!Commit(r)
    PROVE  RowsInductive'
  <1>1. PICK i \in Rows!Ids : \E new \in Rows!Columns(i) :
          Rows!Put(r, new) /\ work[r].id = i /\ Rows!Parents(new) \cup Rows!Homeroom(new) \subseteq DOMAIN row
    BY CommitPuts
  <1>2. PICK new \in Rows!Columns(i) :
          Rows!Put(r, new) /\ work[r].id = i /\ Rows!Parents(new) \cup Rows!Homeroom(new) \subseteq DOMAIN row
    BY <1>1
  <1>3. /\ DOMAIN row' = DOMAIN row \cup {i}
        /\ row'[i] = new
        /\ \A j \in DOMAIN row \ {i} : row'[j] = row[j]
        /\ past' = past \cup {i}
        /\ work' = [work EXCEPT ![r] = Rows!Idle]
    BY <1>2 DEF Rows!Put, Rows!Become
  <1>4. Rows!TypeOK'
    <2>1. past' \subseteq Rows!Ids /\ DOMAIN row' \subseteq past'
      BY <1>3 DEF RowsInductive, Rows!TypeOK
    <2>2. \A j \in DOMAIN row' : row'[j] \in Rows!Columns(j)
      BY <1>3 DEF RowsInductive, Rows!TypeOK
    <2> DEFINE Fit(x) == \/ x = Rows!Idle
                         \/ \E k \in Rows!Ids : \/ x \in [pc: {"create"}, id: {k}, set: Rows!Columns(k)]
                                          \/ x \in [pc: {"update"}, id: {k}, set: Rows!Settable(k)]
    <2>3. DOMAIN work = Requests /\ \A q \in Requests : Fit(work[q])
      BY DEF RowsInductive, Rows!TypeOK
    <2>4. Fit(Rows!Idle)
      OBVIOUS
    <2> HIDE DEF Fit
    <2>5. DOMAIN work' = Requests /\ \A q \in Requests : Fit(work'[q])
      BY <1>3, <2>3, <2>4
    <2> QED BY <2>1, <2>2, <2>5 DEF Rows!TypeOK, Fit
  <1>5. Rows!ReferencesHold'
    <2> SUFFICES ASSUME NEW j \in DOMAIN row'
                 PROVE  Rows!Parents(row'[j]) \cup Rows!Homeroom(row'[j]) \subseteq DOMAIN row'
      BY DEF Rows!ReferencesHold
    <2>1. CASE j = i
      BY <1>2, <1>3, <2>1
    <2>2. CASE j # i
      BY <1>3, <2>2 DEF RowsInductive, Rows!ReferencesHold
    <2> QED BY <2>1, <2>2
  <1> QED BY <1>4, <1>5 DEF RowsInductive

\* What a deletion leaves of the rows it does not take.
LEMMA Left ==
    ASSUME Rows!IdsApart, RowsInductive, NEW i \in Rows!Ids, Rows!Delete(i), NEW j \in DOMAIN row'
    PROVE  /\ j \in DOMAIN row
           /\ row'[j] \in Rows!Columns(j)
           /\ Rows!Parents(row'[j]) = Rows!Parents(row[j])
           /\ Rows!Homeroom(row'[j]) \subseteq Rows!Homeroom(row[j]) \ (DOMAIN row \ DOMAIN row')
           /\ Rows!KeyedBy(j, row'[j]) = Rows!KeyedBy(j, row[j])
  <1> DEFINE gone == {i} \cup {m \in DOMAIN row \cap Terms.rows : row[m].year = i}
  <1>1. /\ DOMAIN row' = DOMAIN row \ gone
        /\ row'[j] = IF j \in Sections THEN [row[j] EXCEPT !.homeroom = @ \ gone] ELSE row[j]
    BY DEF Rows!Delete
  <1> HIDE DEF gone
  <1>2. j \in DOMAIN row /\ row[j] \in Rows!Columns(j) /\ j \in Rows!Ids
    BY <1>1 DEF RowsInductive, Rows!TypeOK
  <1>3. CASE j \notin Sections
    <2>1. row'[j] = row[j] /\ Rows!Homeroom(row[j]) = {}
      BY <1>1, <1>2, <1>3, HomeroomKinds DEF Rows!Homeroom
    <2> QED BY <1>2, <2>1
  <1>4. CASE j \in Sections
    <2>1. row[j] \in Rows!Section /\ Rows!Columns(j) = Rows!Section
          /\ Rows!Unique(j) = {{"level", "year", "name"}}
      BY <1>2, <1>4, RowsKinds
    <2>2. PICK new : new = row'[j]
      OBVIOUS
    <2>3. new = [row[j] EXCEPT !.homeroom = @ \ gone]
      BY <1>1, <1>4, <2>2
    <2>4. /\ DOMAIN new = {"name", "level", "year", "homeroom"}
          /\ new.name = row[j].name /\ new.level = row[j].level /\ new.year = row[j].year
          /\ new.homeroom = row[j].homeroom \ gone
          /\ DOMAIN row[j] = {"name", "level", "year", "homeroom"}
      BY <2>1, <2>3 DEF Rows!Section
    <2>5. new \in Rows!Section
      <3>1. row[j].homeroom \ gone \in Rows!Optional(Teachers.rows)
        BY <2>1 DEF Rows!Section, Rows!Optional
      <3> QED BY <2>1, <2>3, <3>1 DEF Rows!Section
    <2>6. Rows!Parents(new) = Rows!Parents(row[j])
      BY <2>4 DEF Rows!Parents
    <2>7. Rows!Homeroom(new) = Rows!Homeroom(row[j]) \ gone
      BY <2>4 DEF Rows!Homeroom
    <2>8. Rows!KeyedBy(j, new) = Rows!KeyedBy(j, row[j])
      <3>1. [f \in {"level", "year", "name"} |-> new[f]] = [f \in {"level", "year", "name"} |-> row[j][f]]
        BY <2>4
      <3> QED BY <2>1, <3>1 DEF Rows!KeyedBy, Rows!KeysOf
    <2> QED BY <1>1, <1>2, <2>1, <2>2, <2>5, <2>6, <2>7, <2>8
  <1> QED BY <1>3, <1>4

LEMMA RowsDeleteInv ==
    ASSUME Rows!IdsApart, RowsInductive, NEW i \in Rows!Ids, Rows!Delete(i)
    PROVE  RowsInductive'
  <1>1. DOMAIN row' \subseteq DOMAIN row /\ past' = past /\ work' = work
    BY DEF Rows!Delete
  <1>2. Rows!TypeOK'
    BY <1>1, Left DEF RowsInductive, Rows!TypeOK
  <1>3. Rows!ReferencesHold'
    <2> SUFFICES ASSUME NEW j \in DOMAIN row'
                 PROVE  Rows!Parents(row'[j]) \cup Rows!Homeroom(row'[j]) \subseteq DOMAIN row'
      BY DEF Rows!ReferencesHold
    <2> DEFINE gone == {i} \cup {m \in DOMAIN row \cap Terms.rows : row[m].year = i}
    <2>1. DOMAIN row' = DOMAIN row \ gone /\ Rows!Parents(row[j]) \cap gone = {}
      BY DEF Rows!Delete
    <2>2. Rows!Parents(row[j]) \cup Rows!Homeroom(row[j]) \subseteq DOMAIN row
      BY <1>1 DEF RowsInductive, Rows!ReferencesHold
    <2> HIDE DEF gone
    <2>3. Rows!Parents(row'[j]) = Rows!Parents(row[j])
          /\ Rows!Homeroom(row'[j]) \subseteq Rows!Homeroom(row[j]) \ (DOMAIN row \ DOMAIN row')
      BY Left
    <2> QED BY <2>1, <2>2, <2>3
  <1> QED BY <1>2, <1>3 DEF RowsInductive

LEMMA RowsStepInv ==
    ASSUME Rows!IdsApart, RowsInductive, [Rows!Next]_Rows!vars
    PROVE  RowsInductive'
  <1>1. ASSUME NEW r \in Requests, NEW i \in Rows!Ids,
               \/ Rows!CreateYear(r, i) \/ Rows!CreateTerm(r, i) \/ Rows!CreateLevel(r, i)
                  \/ Rows!CreateSection(r, i)
               \/ Rows!CreateSubject(r, i) \/ Rows!CreateClass(r, i) \/ Rows!CreateTeacher(r, i)
        PROVE  RowsInductive'
    <2>1. \E new \in Rows!Columns(i) : Rows!Create(r, i, new)
      BY <1>1, RowsKinds
      DEF Rows!CreateYear, Rows!CreateTerm, Rows!CreateLevel, Rows!CreateSection, Rows!CreateSubject,
          Rows!CreateClass, Rows!CreateTeacher
    <2> QED BY <2>1, CreateInv
  <1>2. ASSUME NEW r \in Requests, NEW i \in Rows!Ids,
               \/ Rows!UpdateYear(r, i) \/ Rows!UpdateTerm(r, i) \/ Rows!UpdateLevel(r, i)
                  \/ Rows!UpdateSection(r, i)
               \/ Rows!UpdateSubject(r, i) \/ Rows!UpdateClass(r, i)
        PROVE  RowsInductive'
    <2>1. \E set \in Rows!Settable(i) : Rows!Update(r, i, set)
      BY <1>2
      DEF Rows!UpdateYear, Rows!UpdateTerm, Rows!UpdateLevel, Rows!UpdateSection, Rows!UpdateSubject,
          Rows!UpdateClass
    <2> QED BY <2>1, UpdateInv
  <1>3. ASSUME NEW r \in Requests, Rows!Commit(r) \/ Rows!Abort(r)
        PROVE  RowsInductive'
    <2>1. CASE Rows!Commit(r)
      BY <2>1, CommitInv
    <2>2. CASE Rows!Abort(r)
      BY <2>2, BecomeInv DEF Rows!Abort
    <2> QED BY <1>3, <2>1, <2>2
  <1>4. ASSUME NEW i \in Rows!Ids,
               \/ Rows!DeleteYear(i) \/ Rows!DeleteTerm(i) \/ Rows!DeleteLevel(i) \/ Rows!DeleteSection(i)
               \/ Rows!DeleteSubject(i) \/ Rows!DeleteClass(i) \/ Rows!DeleteTeacher(i)
        PROVE  RowsInductive'
    <2>1. Rows!Delete(i)
      BY <1>4
      DEF Rows!DeleteYear, Rows!DeleteTerm, Rows!DeleteLevel, Rows!DeleteSection, Rows!DeleteSubject,
          Rows!DeleteClass, Rows!DeleteTeacher
    <2> QED BY <2>1, RowsDeleteInv
  <1>5. CASE UNCHANGED Rows!vars
    BY <1>5 DEF Rows!vars, RowsInductive, Rows!TypeOK, Rows!ReferencesHold, Rows!Parents, Rows!Homeroom
  <1> QED BY <1>1, <1>2, <1>3, <1>4, <1>5 DEF Rows!Next

-----------------------------------------------------------------------------

LEMMA StepKinds ==
    ASSUME [Rows!Next]_Rows!vars
    PROVE  \/ UNCHANGED row
           \/ \E r \in Requests : Rows!Commit(r)
           \/ \E i \in Rows!Ids : Rows!Delete(i)
  <1> USE DEF Rows!Create, Rows!Update
  <1>1. ASSUME NEW r \in Requests, NEW i \in Rows!Ids,
               \/ Rows!CreateYear(r, i) \/ Rows!CreateTerm(r, i) \/ Rows!CreateLevel(r, i)
                  \/ Rows!CreateSection(r, i)
               \/ Rows!CreateSubject(r, i) \/ Rows!CreateClass(r, i) \/ Rows!CreateTeacher(r, i)
        PROVE  UNCHANGED row
    BY <1>1
    DEF Rows!CreateYear, Rows!CreateTerm, Rows!CreateLevel, Rows!CreateSection, Rows!CreateSubject,
        Rows!CreateClass, Rows!CreateTeacher
  <1>2. ASSUME NEW r \in Requests, NEW i \in Rows!Ids,
               \/ Rows!UpdateYear(r, i) \/ Rows!UpdateTerm(r, i) \/ Rows!UpdateLevel(r, i)
                  \/ Rows!UpdateSection(r, i)
               \/ Rows!UpdateSubject(r, i) \/ Rows!UpdateClass(r, i)
        PROVE  UNCHANGED row
    BY <1>2
    DEF Rows!UpdateYear, Rows!UpdateTerm, Rows!UpdateLevel, Rows!UpdateSection, Rows!UpdateSubject,
        Rows!UpdateClass
  <1>3. ASSUME NEW i \in Rows!Ids,
               \/ Rows!DeleteYear(i) \/ Rows!DeleteTerm(i) \/ Rows!DeleteLevel(i) \/ Rows!DeleteSection(i)
               \/ Rows!DeleteSubject(i) \/ Rows!DeleteClass(i) \/ Rows!DeleteTeacher(i)
        PROVE  Rows!Delete(i)
    BY <1>3
    DEF Rows!DeleteYear, Rows!DeleteTerm, Rows!DeleteLevel, Rows!DeleteSection, Rows!DeleteSubject,
        Rows!DeleteClass, Rows!DeleteTeacher
  <1>4. ASSUME NEW r \in Requests, Rows!Abort(r)
        PROVE  UNCHANGED row
    BY <1>4 DEF Rows!Abort
  <1> QED BY <1>1, <1>2, <1>3, <1>4 DEF Rows!Next, Rows!vars

LEMMA StepDeletes ==
    ASSUME Rows!IdsApart, RowsInductive, [Rows!Next]_Rows!vars
    PROVE  Rows!DeletesOnlyItsOwn
  <1> DEFINE lost == DOMAIN row \ DOMAIN row'
  <1>1. CASE UNCHANGED row
    BY <1>1 DEF Rows!DeletesOnlyItsOwn
  <1>2. ASSUME NEW r \in Requests, Rows!Commit(r)
        PROVE  lost = {}
    <2>1. PICK new : Rows!Put(r, new)
      BY <1>2 DEF Rows!Commit
    <2> QED BY <2>1 DEF Rows!Put
  <1>3. ASSUME NEW i \in Rows!Ids, Rows!Delete(i)
        PROVE  Rows!DeletesOnlyItsOwn
    <2> DEFINE gone == {i} \cup {m \in DOMAIN row \cap Terms.rows : row[m].year = i}
    <2>1. /\ i \in DOMAIN row
          /\ row' = [j \in DOMAIN row \ gone |->
                        IF j \in Sections THEN [row[j] EXCEPT !.homeroom = @ \ gone] ELSE row[j]]
      BY <1>3 DEF Rows!Delete
    <2>2. gone \subseteq DOMAIN row /\ i \in gone /\ \A j \in gone \ {i} : j \in Terms.rows /\ row[j].year = i
      BY <2>1
    <2> HIDE DEF gone
    <2>3. lost = gone /\ DOMAIN row' = DOMAIN row \ gone
      BY <2>1, <2>2
    <2>4. /\ \A x \in DOMAIN row' \cap Sections : row'[x] = [row[x] EXCEPT !.homeroom = @ \ gone]
          /\ \A j \in DOMAIN row' \ Sections : row'[j] = row[j]
      BY <2>1
    <2> QED BY <2>2, <2>3, <2>4 DEF Rows!DeletesOnlyItsOwn
  <1> QED BY <1>1, <1>2, <1>3, StepKinds DEF Rows!DeletesOnlyItsOwn

-----------------------------------------------------------------------------
(* Catalogue implements KeyTable.                                          *)

keyed == [i \in DOMAIN row |-> Rows!KeyedBy(i, row[i])]

LEMMA KeysInit == Rows!Init => Rows!UniqueColumns!Init
  BY DEF Rows!Init, Rows!UniqueColumns!Init

LEMMA KeysStep ==
    ASSUME Rows!IdsApart, RowsInductive, [Rows!Next]_Rows!vars
    PROVE  [Rows!UniqueColumns!Next]_keyed
  <1>1. CASE UNCHANGED row
    BY <1>1 DEF keyed
  <1>2. ASSUME NEW r \in Requests, Rows!Commit(r)
        PROVE  Rows!UniqueColumns!Next
    <2>1. PICK i \in Rows!Ids : \E new \in Rows!Columns(i) : Rows!Put(r, new) /\ work[r].id = i
          /\ ~Rows!Taken(i, new)
      BY <1>2, CommitPuts
    <2>2. PICK new \in Rows!Columns(i) : Rows!Put(r, new) /\ work[r].id = i /\ ~Rows!Taken(i, new)
      BY <2>1
    <2>3. /\ DOMAIN keyed' = DOMAIN row \cup {i} /\ DOMAIN keyed = DOMAIN row
          /\ keyed'[i] = Rows!KeyedBy(i, new)
          /\ \A j \in DOMAIN row \ {i} : keyed'[j] = keyed[j]
          /\ \A j \in DOMAIN row : keyed[j] = Rows!KeyedBy(j, row[j])
      BY <2>2 DEF Rows!Put, keyed
    <2> DEFINE Keys == UNION {UNION {Rows!KeyedBy(j, c) : c \in Rows!Columns(j)} : j \in Rows!Ids}
    <2>4. Rows!KeyedBy(i, new) \subseteq Keys
      OBVIOUS
    <2>5. ASSUME NEW j \in DOMAIN row \ {i}, NEW k \in Rows!KeyedBy(i, new), k \in Rows!KeyedBy(j, row[j])
          PROVE  FALSE
      <3>1. PICK c \in Rows!KeysOf(i, new) : k = <<Rows!Unique(i), c>>
        BY DEF Rows!KeyedBy
      <3>2. PICK d \in Rows!KeysOf(j, row[j]) : k = <<Rows!Unique(j), d>>
        BY <2>5 DEF Rows!KeyedBy
      <3>3. c = d /\ Rows!Unique(j) = Rows!Unique(i)
        BY <3>1, <3>2
      <3> QED BY <2>2, <3>3 DEF Rows!Taken
    <2> HIDE DEF Keys
    <2>6. CASE i \in DOMAIN row
      <3>1. Rows!UniqueColumns!Rekey(i)
        <4>1. keyed'[i] \subseteq Keys \ Rows!UniqueColumns!InUse(DOMAIN keyed \ {i})
          BY <2>3, <2>4, <2>5 DEF Rows!UniqueColumns!InUse, keyed
        <4> QED BY <2>3, <2>6, <4>1 DEF Rows!UniqueColumns!Rekey, Rows!UniqueColumns!Keep, keyed, Keys
      <3> QED BY <3>1 DEF Rows!UniqueColumns!Next
    <2>7. CASE i \notin DOMAIN row
      <3>1. Rows!UniqueColumns!Insert(i)
        <4>1. keyed'[i] \subseteq Keys \ Rows!UniqueColumns!InUse(DOMAIN keyed)
          BY <2>3, <2>4, <2>5, <2>7 DEF Rows!UniqueColumns!InUse, keyed
        <4> QED BY <2>3, <2>7, <4>1 DEF Rows!UniqueColumns!Insert, Rows!UniqueColumns!Keep, keyed, Keys
      <3> QED BY <3>1 DEF Rows!UniqueColumns!Next
    <2> QED BY <2>6, <2>7
  <1>3. ASSUME NEW i \in Rows!Ids, Rows!Delete(i)
        PROVE  Rows!UniqueColumns!Next
    <2>1. DOMAIN row' \subseteq DOMAIN row
      BY <1>3 DEF Rows!Delete
    <2>2. \A j \in DOMAIN row' : Rows!KeyedBy(j, row'[j]) = Rows!KeyedBy(j, row[j])
      BY <1>3, Left
    <2>3. Rows!UniqueColumns!Remove
      BY <2>1, <2>2 DEF Rows!UniqueColumns!Remove, Rows!UniqueColumns!Keep
    <2> QED BY <2>3 DEF Rows!UniqueColumns!Next
  <1> QED BY <1>1, <1>2, <1>3, StepKinds

-----------------------------------------------------------------------------
(* Access: the first route that takes a path is the one it was made for.   *)

\* Who may send what a route does, and a guard that lets nobody else through.
Tier(route) == IF route.does = "write" THEN Routing!MayWrite(route.about) ELSE Routing!MayRead(route.about)
Tiered(route) == route.allowed \cup {"super_admin"} \subseteq Tier(route)

Is(route, method, path) == Tiered(route) /\ route.method = method /\ route.path = path

Sent(w) == IF w = Routing!Id THEN Routing!Uuid ELSE w

\* What is sent for b is taken for a.
Covers(a, b) ==
    /\ a.method = b.method
    /\ Len(a.path) = Len(b.path)
    /\ \A i \in 1..Len(b.path) : a.path[i] \in {Routing!Id, Sent(b.path[i])}

IsSeq(s) == Len(s) \in Nat /\ s = [k \in 1..Len(s) |-> s[k]]

Path4(path) == Len(path) \in 1..4 /\ DOMAIN path = 1..Len(path)

\* Tiered routes, none of which hides a later one, whose paths start with one
\* of the names.
Routers(s, names) ==
    /\ IsSeq(s)
    /\ \A k \in 1..Len(s) : Tiered(s[k]) /\ Path4(s[k].path) /\ s[k].path[1] \in names
    /\ \A j, k \in 1..Len(s) : j < k => ~Covers(s[j], s[k])

LEMMA RoutesAreTiered ==
    ASSUME NEW path
    PROVE  /\ \A about \in {"accounts", "staff", "change requests", "pictures", "structure"} :
                /\ Is(Routing!Post(path, Routing!Admins, about), "POST", path)
                /\ Is(Routing!Patch(path, Routing!Admins, about), "PATCH", path)
                /\ Is(Routing!Delete(path, Routing!Admins, about), "DELETE", path)
           /\ \A about \in {"students", "records"} :
                /\ Is(Routing!Post(path, Routing!Staff, about), "POST", path)
                /\ Is(Routing!Patch(path, Routing!Staff, about), "PATCH", path)
                /\ Is(Routing!Delete(path, Routing!Staff, about), "DELETE", path)
           /\ Is(Routing!Post(path, Routing!Anyone, "proposals"), "POST", path)
           /\ Is(Routing!Get(path, {"super_admin"}, "audit"), "GET", path)
           /\ \A about \in {"accounts", "change requests"} : Is(Routing!Get(path, Routing!Admins, about), "GET", path)
           /\ Is(Routing!Get(path, Routing!Staff, "rosters"), "GET", path)
           /\ \A about \in {"own record", "own records", "students", "staff", "structure", "records"} :
                Is(Routing!Get(path, Routing!Anyone, about), "GET", path)
  <1>1. ASSUME NEW about \in {"accounts", "staff", "change requests", "pictures", "structure"}
        PROVE  /\ Is(Routing!Post(path, Routing!Admins, about), "POST", path)
               /\ Is(Routing!Patch(path, Routing!Admins, about), "PATCH", path)
               /\ Is(Routing!Delete(path, Routing!Admins, about), "DELETE", path)
    BY DEF Is, Tiered, Tier, Routing!Route, Routing!Post, Routing!Patch, Routing!Delete, Routing!Admins,
           Routing!MayWrite
  <1>2. ASSUME NEW about \in {"students", "records"}
        PROVE  /\ Is(Routing!Post(path, Routing!Staff, about), "POST", path)
               /\ Is(Routing!Patch(path, Routing!Staff, about), "PATCH", path)
               /\ Is(Routing!Delete(path, Routing!Staff, about), "DELETE", path)
    BY DEF Is, Tiered, Tier, Routing!Route, Routing!Post, Routing!Patch, Routing!Delete, Routing!Staff,
           Routing!MayWrite
  <1>3. Is(Routing!Post(path, Routing!Anyone, "proposals"), "POST", path)
    BY DEF Is, Tiered, Tier, Routing!Route, Routing!Post, Routing!Anyone, Routing!Roles, Routing!MayWrite
  <1>4. Is(Routing!Get(path, {"super_admin"}, "audit"), "GET", path)
    BY DEF Is, Tiered, Tier, Routing!Route, Routing!Get, Routing!MayRead
  <1>5. ASSUME NEW about \in {"accounts", "change requests"}
        PROVE  Is(Routing!Get(path, Routing!Admins, about), "GET", path)
    BY DEF Is, Tiered, Tier, Routing!Route, Routing!Get, Routing!Admins, Routing!MayRead
  <1>6. Is(Routing!Get(path, Routing!Staff, "rosters"), "GET", path)
    BY DEF Is, Tiered, Tier, Routing!Route, Routing!Get, Routing!Staff, Routing!MayRead
  <1>7. ASSUME NEW about \in {"own record", "own records", "students", "staff", "structure", "records"}
        PROVE  Is(Routing!Get(path, Routing!Anyone, about), "GET", path)
    BY DEF Is, Tiered, Tier, Routing!Route, Routing!Get, Routing!Anyone, Routing!Roles, Routing!MayRead
  <1> QED BY <1>1, <1>2, <1>3, <1>4, <1>5, <1>6, <1>7

\* The same, part by part.
Is1(route, method, a) ==
    Tiered(route) /\ route.method = method /\ Len(route.path) = 1 /\ DOMAIN route.path = 1..1
    /\ route.path[1] = a
Is2(route, method, a, b) ==
    Tiered(route) /\ route.method = method /\ Len(route.path) = 2 /\ DOMAIN route.path = 1..2
    /\ route.path[1] = a /\ route.path[2] = b
Is3(route, method, a, b, c) ==
    /\ Tiered(route) /\ route.method = method /\ Len(route.path) = 3 /\ DOMAIN route.path = 1..3
    /\ route.path[1] = a /\ route.path[2] = b /\ route.path[3] = c
Is4(route, method, a, b, c, d) ==
    /\ Tiered(route) /\ route.method = method /\ Len(route.path) = 4 /\ DOMAIN route.path = 1..4
    /\ route.path[1] = a /\ route.path[2] = b /\ route.path[3] = c /\ route.path[4] = d

LEMMA PartByPart ==
    ASSUME NEW route, NEW method, NEW a
    PROVE  /\ Is(route, method, <<a>>) => Is1(route, method, a)
           /\ \A b : Is(route, method, <<a, b>>) => Is2(route, method, a, b)
           /\ \A b, c : Is(route, method, <<a, b, c>>) => Is3(route, method, a, b, c)
           /\ \A b, c, d : Is(route, method, <<a, b, c, d>>) => Is4(route, method, a, b, c, d)
  <1>1. Is(route, method, <<a>>) => Is1(route, method, a)
    BY DEF Is, Is1
  <1>2. \A b : Is(route, method, <<a, b>>) => Is2(route, method, a, b)
    BY DEF Is, Is2
  <1>3. \A b, c : Is(route, method, <<a, b, c>>) => Is3(route, method, a, b, c)
    BY DEF Is, Is3
  <1>4. \A b, c, d : Is(route, method, <<a, b, c, d>>) => Is4(route, method, a, b, c, d)
    BY DEF Is, Is4
  <1> QED BY <1>1, <1>2, <1>3, <1>4

LEMMA Covered ==
    ASSUME NEW a, NEW b, Len(b.path) \in Nat, Covers(a, b)
    PROVE  /\ a.method = b.method
           /\ Len(a.path) = Len(b.path)
           /\ Len(b.path) >= 1 => a.path[1] = Routing!Id \/ a.path[1] = Sent(b.path[1])
           /\ Len(b.path) >= 2 => a.path[2] = Routing!Id \/ a.path[2] = Sent(b.path[2])
           /\ Len(b.path) >= 3 => a.path[3] = Routing!Id \/ a.path[3] = Sent(b.path[3])
           /\ Len(b.path) >= 4 => a.path[4] = Routing!Id \/ a.path[4] = Sent(b.path[4])
  <1>1. \A i \in Nat : i >= 1 /\ i <= Len(b.path) => a.path[i] \in {Routing!Id, Sent(b.path[i])}
    BY DEF Covers
  <1>2. Len(b.path) >= 1 => a.path[1] = Routing!Id \/ a.path[1] = Sent(b.path[1])
    BY <1>1
  <1>3. Len(b.path) >= 2 => a.path[2] = Routing!Id \/ a.path[2] = Sent(b.path[2])
    BY <1>1
  <1>4. Len(b.path) >= 3 => a.path[3] = Routing!Id \/ a.path[3] = Sent(b.path[3])
    BY <1>1
  <1>5. Len(b.path) >= 4 => a.path[4] = Routing!Id \/ a.path[4] = Sent(b.path[4])
    BY <1>1
  <1> QED BY <1>2, <1>3, <1>4, <1>5 DEF Covers

LEMMA ConcatIsSeq ==
    ASSUME NEW s, NEW t, IsSeq(s), IsSeq(t)
    PROVE  /\ IsSeq(s \o t)
           /\ Len(s \o t) = Len(s) + Len(t)
           /\ \A k \in 1..Len(s) : (s \o t)[k] = s[k]
           /\ \A k \in 1..Len(t) : (s \o t)[Len(s) + k] = t[k]
  <1> DEFINE X == {s[k] : k \in 1..Len(s)} \cup {t[k] : k \in 1..Len(t)}
  <1>1. s \in [1..Len(s) -> X] /\ t \in [1..Len(t) -> X] /\ Len(s) \in Nat /\ Len(t) \in Nat
    BY DEF IsSeq
  <1> HIDE DEF X
  <1>2. s \in Seq(X) /\ t \in Seq(X)
    BY <1>1
  <1>3. s \o t \in Seq(X) /\ Len(s \o t) = Len(s) + Len(t)
    BY <1>2
  <1>4. IsSeq(s \o t)
    BY <1>3, LenProperties DEF IsSeq
  <1>5. \A k \in 1..Len(s) : (s \o t)[k] = s[k]
    BY <1>2
  <1>6. \A k \in 1..Len(t) : (s \o t)[Len(s) + k] = t[k]
    BY <1>2
  <1> QED BY <1>3, <1>4, <1>5, <1>6

\* Routers are put one after the other.
LEMMA Concatenated ==
    ASSUME NEW s, NEW t, NEW M, NEW N, Routers(s, M), Routers(t, N),
           \A j \in 1..Len(s), k \in 1..Len(t) : ~Covers(s[j], t[k])
    PROVE  Routers(s \o t, M \cup N)
  <1>1. /\ IsSeq(s \o t) /\ Len(s \o t) = Len(s) + Len(t) /\ Len(s) \in Nat /\ Len(t) \in Nat
        /\ \A k \in 1..Len(s) : (s \o t)[k] = s[k]
        /\ \A k \in 1..Len(t) : (s \o t)[Len(s) + k] = t[k]
    BY ConcatIsSeq DEF Routers, IsSeq
  <1>2. ASSUME NEW k \in 1..Len(s \o t)
        PROVE  \/ k \in 1..Len(s) /\ (s \o t)[k] = s[k]
               \/ \E l \in 1..Len(t) : k = Len(s) + l /\ (s \o t)[k] = t[l]
    <2>1. CASE k > Len(s)
      <3>1. k - Len(s) \in 1..Len(t) /\ k = Len(s) + (k - Len(s))
        BY <1>1, <2>1
      <3> QED BY <1>1, <3>1
    <2>2. CASE k <= Len(s)
      BY <1>1, <2>2
    <2> QED BY <1>1, <2>1, <2>2
  <1>3. ASSUME NEW k \in 1..Len(s \o t)
        PROVE  LET r == (s \o t)[k] IN Tiered(r) /\ Path4(r.path) /\ r.path[1] \in M \cup N
    BY <1>2 DEF Routers
  <1>4. ASSUME NEW j \in 1..Len(s \o t), NEW k \in 1..Len(s \o t), j < k
        PROVE  ~Covers((s \o t)[j], (s \o t)[k])
    <2>1. CASE k \in 1..Len(s) /\ (s \o t)[k] = s[k]
      <3>1. j \in 1..Len(s) /\ (s \o t)[j] = s[j]
        BY <1>1, <1>4, <2>1
      <3> QED BY <1>4, <2>1, <3>1 DEF Routers
    <2>2. CASE \E l \in 1..Len(t) : k = Len(s) + l /\ (s \o t)[k] = t[l]
      <3>1. PICK l \in 1..Len(t) : k = Len(s) + l /\ (s \o t)[k] = t[l]
        BY <2>2
      <3>2. CASE j \in 1..Len(s) /\ (s \o t)[j] = s[j]
        BY <3>1, <3>2
      <3>3. CASE \E i \in 1..Len(t) : j = Len(s) + i /\ (s \o t)[j] = t[i]
        <4>1. PICK i \in 1..Len(t) : j = Len(s) + i /\ (s \o t)[j] = t[i]
          BY <3>3
        <4>2. i < l
          BY <1>1, <1>4, <3>1, <4>1
        <4> QED BY <3>1, <4>1, <4>2 DEF Routers
      <3> QED BY <1>2, <3>2, <3>3
    <2> QED BY <1>2, <2>1, <2>2
  <1> QED BY <1>1, <1>3, <1>4 DEF Routers

\* Routers of other names hide nothing from each other.
LEMMA NamesApart ==
    ASSUME NEW s, NEW t, NEW M, NEW N, Routers(s, M), Routers(t, N), M \cap N = {}, Routing!Id \notin M \cup N
    PROVE  Routers(s \o t, M \cup N)
  <1>1. ASSUME NEW j \in 1..Len(s), NEW k \in 1..Len(t), Covers(s[j], t[k]) PROVE FALSE
    <2>1. /\ Len(t[k].path) \in Nat /\ Len(t[k].path) >= 1
          /\ s[j].path[1] \in M /\ t[k].path[1] \in N
      BY DEF Routers, Path4
    <2>2. s[j].path[1] = Routing!Id \/ s[j].path[1] = Sent(t[k].path[1])
      BY <1>1, <2>1, Covered
    <2> QED BY <2>1, <2>2 DEF Sent
  <1> QED BY <1>1, Concatenated


LEMMA AuthApart == Routers(Routing!AuthRoutes, {"auth"})
  <1>1. IsSeq(Routing!AuthRoutes) /\ Len(Routing!AuthRoutes) = 1
    BY DEF IsSeq, Routing!AuthRoutes
  <1>2. Is2(Routing!AuthRoutes[1], "GET", "auth", "me")
    BY RoutesAreTiered, PartByPart DEF Routing!AuthRoutes
  <1>3. ASSUME NEW k \in 1..1
        PROVE  Tiered(Routing!AuthRoutes[k]) /\ Path4(Routing!AuthRoutes[k].path)
               /\ Routing!AuthRoutes[k].path[1] = "auth"
    BY <1>2 DEF Is1, Is2, Is3, Is4, Path4
  <1>4. ASSUME NEW j \in 1..1, NEW k \in 1..1, j < k, Covers(Routing!AuthRoutes[j], Routing!AuthRoutes[k])
        PROVE  FALSE
    BY <1>2, <1>3, <1>4, Covered DEF Is1, Is2, Is3, Is4, Path4, Sent, Routing!Id, Routing!Uuid
  <1> QED BY <1>1, <1>3, <1>4 DEF Routers

LEMMA UserApart == Routers(Routing!UserRoutes, {"users"})
  <1>1. IsSeq(Routing!UserRoutes) /\ Len(Routing!UserRoutes) = 4
    BY DEF IsSeq, Routing!UserRoutes
  <1>2. Is1(Routing!UserRoutes[1], "POST", "users")
    BY RoutesAreTiered, PartByPart DEF Routing!UserRoutes
  <1>3. Is1(Routing!UserRoutes[2], "GET", "users")
    BY RoutesAreTiered, PartByPart DEF Routing!UserRoutes
  <1>4. Is2(Routing!UserRoutes[3], "GET", "users", Routing!Id)
    BY RoutesAreTiered, PartByPart DEF Routing!UserRoutes
  <1>5. Is2(Routing!UserRoutes[4], "PATCH", "users", Routing!Id)
    BY RoutesAreTiered, PartByPart DEF Routing!UserRoutes
  <1>6. ASSUME NEW k \in 1..4
        PROVE  Tiered(Routing!UserRoutes[k]) /\ Path4(Routing!UserRoutes[k].path)
               /\ Routing!UserRoutes[k].path[1] = "users"
    BY <1>2, <1>3, <1>4, <1>5 DEF Is1, Is2, Is3, Is4, Path4
  <1>7. ASSUME NEW j \in 1..4, NEW k \in 1..4, j < k, Covers(Routing!UserRoutes[j], Routing!UserRoutes[k])
        PROVE  FALSE
    BY <1>2, <1>3, <1>4, <1>5, <1>6, <1>7, Covered
    DEF Is1, Is2, Is3, Is4, Path4, Sent, Routing!Id, Routing!Uuid
  <1> QED BY <1>1, <1>6, <1>7 DEF Routers

LEMMA AuditApart == Routers(Routing!AuditRoutes, {"audit-log"})
  <1>1. IsSeq(Routing!AuditRoutes) /\ Len(Routing!AuditRoutes) = 1
    BY DEF IsSeq, Routing!AuditRoutes
  <1>2. Is1(Routing!AuditRoutes[1], "GET", "audit-log")
    BY RoutesAreTiered, PartByPart DEF Routing!AuditRoutes
  <1>3. ASSUME NEW k \in 1..1
        PROVE  Tiered(Routing!AuditRoutes[k]) /\ Path4(Routing!AuditRoutes[k].path)
               /\ Routing!AuditRoutes[k].path[1] = "audit-log"
    BY <1>2 DEF Is1, Is2, Is3, Is4, Path4
  <1>4. ASSUME NEW j \in 1..1, NEW k \in 1..1, j < k, Covers(Routing!AuditRoutes[j], Routing!AuditRoutes[k])
        PROVE  FALSE
    BY <1>2, <1>3, <1>4, Covered DEF Is1, Is2, Is3, Is4, Path4, Sent, Routing!Id, Routing!Uuid
  <1> QED BY <1>1, <1>3, <1>4 DEF Routers

LEMMA StudentApart == Routers(Routing!StudentRoutes, {"students"})
  <1>1. IsSeq(Routing!StudentRoutes) /\ Len(Routing!StudentRoutes) = 8
    BY DEF IsSeq, Routing!StudentRoutes
  <1>2. Is1(Routing!StudentRoutes[1], "POST", "students")
    BY RoutesAreTiered, PartByPart DEF Routing!StudentRoutes
  <1>3. Is1(Routing!StudentRoutes[2], "GET", "students")
    BY RoutesAreTiered, PartByPart DEF Routing!StudentRoutes
  <1>4. Is2(Routing!StudentRoutes[3], "GET", "students", "me")
    BY RoutesAreTiered, PartByPart DEF Routing!StudentRoutes
  <1>5. Is3(Routing!StudentRoutes[4], "POST", "students", Routing!Id, "credentials")
    BY RoutesAreTiered, PartByPart DEF Routing!StudentRoutes
  <1>6. Is3(Routing!StudentRoutes[5], "POST", "students", Routing!Id, "profile-picture")
    BY RoutesAreTiered, PartByPart DEF Routing!StudentRoutes
  <1>7. Is2(Routing!StudentRoutes[6], "GET", "students", Routing!Id)
    BY RoutesAreTiered, PartByPart DEF Routing!StudentRoutes
  <1>8. Is2(Routing!StudentRoutes[7], "PATCH", "students", Routing!Id)
    BY RoutesAreTiered, PartByPart DEF Routing!StudentRoutes
  <1>9. Is2(Routing!StudentRoutes[8], "DELETE", "students", Routing!Id)
    BY RoutesAreTiered, PartByPart DEF Routing!StudentRoutes
  <1>10. ASSUME NEW k \in 1..8
         PROVE  Tiered(Routing!StudentRoutes[k]) /\ Path4(Routing!StudentRoutes[k].path)
                /\ Routing!StudentRoutes[k].path[1] = "students"
    BY <1>2, <1>3, <1>4, <1>5, <1>6, <1>7, <1>8, <1>9 DEF Is1, Is2, Is3, Is4, Path4
  <1>11. ASSUME NEW k \in 1..8
         PROVE  \/ k \in {1} /\ Routing!StudentRoutes[k].method = "POST"
                   /\ Len(Routing!StudentRoutes[k].path) = 1
                \/ k \in {2} /\ Routing!StudentRoutes[k].method = "GET"
                   /\ Len(Routing!StudentRoutes[k].path) = 1
                \/ k \in {3, 6} /\ Routing!StudentRoutes[k].method = "GET"
                   /\ Len(Routing!StudentRoutes[k].path) = 2
                \/ k \in {4, 5} /\ Routing!StudentRoutes[k].method = "POST"
                   /\ Len(Routing!StudentRoutes[k].path) = 3
                \/ k \in {7} /\ Routing!StudentRoutes[k].method = "PATCH"
                   /\ Len(Routing!StudentRoutes[k].path) = 2
                \/ k \in {8} /\ Routing!StudentRoutes[k].method = "DELETE"
                   /\ Len(Routing!StudentRoutes[k].path) = 2
    BY <1>2, <1>3, <1>4, <1>5, <1>6, <1>7, <1>8, <1>9 DEF Is1, Is2, Is3, Is4
  <1>12. ~Covers(Routing!StudentRoutes[3], Routing!StudentRoutes[6])
    BY <1>4, <1>7, Covered DEF Is1, Is2, Is3, Is4, Path4, Sent, Routing!Id, Routing!Uuid
  <1>13. ~Covers(Routing!StudentRoutes[4], Routing!StudentRoutes[5])
    BY <1>5, <1>6, Covered DEF Is1, Is2, Is3, Is4, Path4, Sent, Routing!Id, Routing!Uuid
  <1>14. ASSUME NEW j \in 1..8, NEW k \in 1..8, j < k,
                Covers(Routing!StudentRoutes[j], Routing!StudentRoutes[k])
         PROVE  FALSE
    <2>1. Routing!StudentRoutes[j].method = Routing!StudentRoutes[k].method
          /\ Len(Routing!StudentRoutes[j].path) = Len(Routing!StudentRoutes[k].path)
      BY <1>14 DEF Covers
    <2>2. \E g \in {{1}, {2}, {3, 6}, {4, 5}, {7}, {8}} : j \in g /\ k \in g
      BY <1>11, <2>1
    <2> QED BY <1>14, <2>2, <1>12, <1>13
  <1> QED BY <1>1, <1>10, <1>14 DEF Routers

LEMMA TeacherApart == Routers(Routing!TeacherRoutes, {"teachers"})
  <1>1. IsSeq(Routing!TeacherRoutes) /\ Len(Routing!TeacherRoutes) = 13
    BY DEF IsSeq, Routing!TeacherRoutes
  <1>2. Is1(Routing!TeacherRoutes[1], "POST", "teachers")
    BY RoutesAreTiered, PartByPart DEF Routing!TeacherRoutes
  <1>3. Is1(Routing!TeacherRoutes[2], "GET", "teachers")
    BY RoutesAreTiered, PartByPart DEF Routing!TeacherRoutes
  <1>4. Is2(Routing!TeacherRoutes[3], "GET", "teachers", "me")
    BY RoutesAreTiered, PartByPart DEF Routing!TeacherRoutes
  <1>5. Is3(Routing!TeacherRoutes[4], "GET", "teachers", "me", "classes")
    BY RoutesAreTiered, PartByPart DEF Routing!TeacherRoutes
  <1>6. Is3(Routing!TeacherRoutes[5], "POST", "teachers", "me", "change-requests")
    BY RoutesAreTiered, PartByPart DEF Routing!TeacherRoutes
  <1>7. Is2(Routing!TeacherRoutes[6], "GET", "teachers", "change-requests")
    BY RoutesAreTiered, PartByPart DEF Routing!TeacherRoutes
  <1>8. Is4(Routing!TeacherRoutes[7], "PATCH", "teachers", "change-requests", Routing!Id, "approve")
    BY RoutesAreTiered, PartByPart DEF Routing!TeacherRoutes
  <1>9. Is4(Routing!TeacherRoutes[8], "PATCH", "teachers", "change-requests", Routing!Id, "reject")
    BY RoutesAreTiered, PartByPart DEF Routing!TeacherRoutes
  <1>10. Is2(Routing!TeacherRoutes[9], "GET", "teachers", Routing!Id)
    BY RoutesAreTiered, PartByPart DEF Routing!TeacherRoutes
  <1>11. Is2(Routing!TeacherRoutes[10], "PATCH", "teachers", Routing!Id)
    BY RoutesAreTiered, PartByPart DEF Routing!TeacherRoutes
  <1>12. Is2(Routing!TeacherRoutes[11], "DELETE", "teachers", Routing!Id)
    BY RoutesAreTiered, PartByPart DEF Routing!TeacherRoutes
  <1>13. Is3(Routing!TeacherRoutes[12], "POST", "teachers", Routing!Id, "credentials")
    BY RoutesAreTiered, PartByPart DEF Routing!TeacherRoutes
  <1>14. Is3(Routing!TeacherRoutes[13], "POST", "teachers", Routing!Id, "profile-picture")
    BY RoutesAreTiered, PartByPart DEF Routing!TeacherRoutes
  <1>15. ASSUME NEW k \in 1..13
         PROVE  Tiered(Routing!TeacherRoutes[k]) /\ Path4(Routing!TeacherRoutes[k].path)
                /\ Routing!TeacherRoutes[k].path[1] = "teachers"
    BY <1>2, <1>3, <1>4, <1>5, <1>6, <1>7, <1>8, <1>9, <1>10, <1>11, <1>12, <1>13, <1>14
    DEF Is1, Is2, Is3, Is4, Path4
  <1> DEFINE Kind(k) == \/ k \in {1} /\ Routing!TeacherRoutes[k].method = "POST"
                           /\ Len(Routing!TeacherRoutes[k].path) = 1
                        \/ k \in {2} /\ Routing!TeacherRoutes[k].method = "GET"
                           /\ Len(Routing!TeacherRoutes[k].path) = 1
                        \/ k \in {3, 6, 9} /\ Routing!TeacherRoutes[k].method = "GET"
                           /\ Len(Routing!TeacherRoutes[k].path) = 2
                        \/ k \in {4} /\ Routing!TeacherRoutes[k].method = "GET"
                           /\ Len(Routing!TeacherRoutes[k].path) = 3
                        \/ k \in {5, 12, 13} /\ Routing!TeacherRoutes[k].method = "POST"
                           /\ Len(Routing!TeacherRoutes[k].path) = 3
                        \/ k \in {7, 8} /\ Routing!TeacherRoutes[k].method = "PATCH"
                           /\ Len(Routing!TeacherRoutes[k].path) = 4
                        \/ k \in {10} /\ Routing!TeacherRoutes[k].method = "PATCH"
                           /\ Len(Routing!TeacherRoutes[k].path) = 2
                        \/ k \in {11} /\ Routing!TeacherRoutes[k].method = "DELETE"
                           /\ Len(Routing!TeacherRoutes[k].path) = 2
  <1>16. ASSUME NEW k \in 1..13 PROVE Kind(k)
    BY <1>2, <1>3, <1>4, <1>5, <1>6, <1>7, <1>8, <1>9, <1>10, <1>11, <1>12, <1>13, <1>14
    DEF Is1, Is2, Is3, Is4
  <1> HIDE DEF Kind
  <1>17. ~Covers(Routing!TeacherRoutes[3], Routing!TeacherRoutes[6])
    BY <1>4, <1>7, Covered DEF Is1, Is2, Is3, Is4, Path4, Sent, Routing!Id, Routing!Uuid
  <1>18. ~Covers(Routing!TeacherRoutes[3], Routing!TeacherRoutes[9])
    BY <1>4, <1>10, Covered DEF Is1, Is2, Is3, Is4, Path4, Sent, Routing!Id, Routing!Uuid
  <1>19. ~Covers(Routing!TeacherRoutes[5], Routing!TeacherRoutes[12])
    BY <1>6, <1>13, Covered DEF Is1, Is2, Is3, Is4, Path4, Sent, Routing!Id, Routing!Uuid
  <1>20. ~Covers(Routing!TeacherRoutes[5], Routing!TeacherRoutes[13])
    BY <1>6, <1>14, Covered DEF Is1, Is2, Is3, Is4, Path4, Sent, Routing!Id, Routing!Uuid
  <1>21. ~Covers(Routing!TeacherRoutes[6], Routing!TeacherRoutes[9])
    BY <1>7, <1>10, Covered DEF Is1, Is2, Is3, Is4, Path4, Sent, Routing!Id, Routing!Uuid
  <1>22. ~Covers(Routing!TeacherRoutes[7], Routing!TeacherRoutes[8])
    BY <1>8, <1>9, Covered DEF Is1, Is2, Is3, Is4, Path4, Sent, Routing!Id, Routing!Uuid
  <1>23. ~Covers(Routing!TeacherRoutes[12], Routing!TeacherRoutes[13])
    BY <1>13, <1>14, Covered DEF Is1, Is2, Is3, Is4, Path4, Sent, Routing!Id, Routing!Uuid
  <1>24. ASSUME NEW j \in 1..13, NEW k \in 1..13, j < k,
                Covers(Routing!TeacherRoutes[j], Routing!TeacherRoutes[k])
         PROVE  FALSE
    <2>1. Routing!TeacherRoutes[j].method = Routing!TeacherRoutes[k].method
          /\ Len(Routing!TeacherRoutes[j].path) = Len(Routing!TeacherRoutes[k].path)
      BY <1>24 DEF Covers
    <2>2. /\ \E g \in {{1, 5, 12, 13}, {2, 3, 4, 6, 9}, {7, 8, 10}, {11}} : j \in g /\ k \in g
          /\ \E g \in {{1, 2}, {3, 6, 9, 10, 11}, {4, 5, 12, 13}, {7, 8}} : j \in g /\ k \in g
      <3>1. Kind(j) /\ Kind(k)
        BY <1>16
      <3> QED BY <2>1, <3>1 DEF Kind
    <2> QED BY <1>24, <2>2, <1>17, <1>18, <1>19, <1>20, <1>21, <1>22, <1>23
  <1> QED BY <1>1, <1>15, <1>24 DEF Routers

LEMMA RosterApart == Routers(Routing!RosterRoutes, {"sections"})
  <1>1. IsSeq(Routing!RosterRoutes) /\ Len(Routing!RosterRoutes) = 5
    BY DEF IsSeq, Routing!RosterRoutes
  <1>2. Is3(Routing!RosterRoutes[1], "GET", "sections", Routing!Id, "students")
    BY RoutesAreTiered, PartByPart DEF Routing!RosterRoutes
  <1>3. Is4(Routing!RosterRoutes[2], "POST", "sections", Routing!Id, "students", Routing!Id)
    BY RoutesAreTiered, PartByPart DEF Routing!RosterRoutes
  <1>4. Is4(Routing!RosterRoutes[3], "DELETE", "sections", Routing!Id, "students", Routing!Id)
    BY RoutesAreTiered, PartByPart DEF Routing!RosterRoutes
  <1>5. Is4(Routing!RosterRoutes[4], "POST", "sections", Routing!Id, "classes", Routing!Id)
    BY RoutesAreTiered, PartByPart DEF Routing!RosterRoutes
  <1>6. Is4(Routing!RosterRoutes[5], "DELETE", "sections", Routing!Id, "classes", Routing!Id)
    BY RoutesAreTiered, PartByPart DEF Routing!RosterRoutes
  <1>7. ASSUME NEW k \in 1..5
        PROVE  Tiered(Routing!RosterRoutes[k]) /\ Path4(Routing!RosterRoutes[k].path)
               /\ Routing!RosterRoutes[k].path[1] = "sections"
    BY <1>2, <1>3, <1>4, <1>5, <1>6 DEF Is1, Is2, Is3, Is4, Path4
  <1>8. ASSUME NEW k \in 1..5
        PROVE  \/ k \in {1} /\ Routing!RosterRoutes[k].method = "GET" /\ Len(Routing!RosterRoutes[k].path) = 3
               \/ k \in {2, 4} /\ Routing!RosterRoutes[k].method = "POST"
                  /\ Len(Routing!RosterRoutes[k].path) = 4
               \/ k \in {3, 5} /\ Routing!RosterRoutes[k].method = "DELETE"
                  /\ Len(Routing!RosterRoutes[k].path) = 4
    BY <1>2, <1>3, <1>4, <1>5, <1>6 DEF Is1, Is2, Is3, Is4
  <1>9. ~Covers(Routing!RosterRoutes[2], Routing!RosterRoutes[4])
    BY <1>3, <1>5, Covered DEF Is1, Is2, Is3, Is4, Path4, Sent, Routing!Id, Routing!Uuid
  <1>10. ~Covers(Routing!RosterRoutes[3], Routing!RosterRoutes[5])
    BY <1>4, <1>6, Covered DEF Is1, Is2, Is3, Is4, Path4, Sent, Routing!Id, Routing!Uuid
  <1>11. ASSUME NEW j \in 1..5, NEW k \in 1..5, j < k, Covers(Routing!RosterRoutes[j], Routing!RosterRoutes[k])
         PROVE  FALSE
    <2>1. Routing!RosterRoutes[j].method = Routing!RosterRoutes[k].method
          /\ Len(Routing!RosterRoutes[j].path) = Len(Routing!RosterRoutes[k].path)
      BY <1>11 DEF Covers
    <2>2. \E g \in {{1}, {2, 4}, {3, 5}} : j \in g /\ k \in g
      BY <1>8, <2>1
    <2> QED BY <1>11, <2>2, <1>9, <1>10
  <1> QED BY <1>1, <1>7, <1>11 DEF Routers

LEMMA EnrollmentApart == Routers(Routing!EnrollmentRoutes, {"enrollments"})
  <1>1. IsSeq(Routing!EnrollmentRoutes) /\ Len(Routing!EnrollmentRoutes) = 4
    BY DEF IsSeq, Routing!EnrollmentRoutes
  <1>2. Is1(Routing!EnrollmentRoutes[1], "POST", "enrollments")
    BY RoutesAreTiered, PartByPart DEF Routing!EnrollmentRoutes
  <1>3. Is1(Routing!EnrollmentRoutes[2], "GET", "enrollments")
    BY RoutesAreTiered, PartByPart DEF Routing!EnrollmentRoutes
  <1>4. Is2(Routing!EnrollmentRoutes[3], "GET", "enrollments", Routing!Id)
    BY RoutesAreTiered, PartByPart DEF Routing!EnrollmentRoutes
  <1>5. Is3(Routing!EnrollmentRoutes[4], "PATCH", "enrollments", Routing!Id, "drop")
    BY RoutesAreTiered, PartByPart DEF Routing!EnrollmentRoutes
  <1>6. ASSUME NEW k \in 1..4
        PROVE  Tiered(Routing!EnrollmentRoutes[k]) /\ Path4(Routing!EnrollmentRoutes[k].path)
               /\ Routing!EnrollmentRoutes[k].path[1] = "enrollments"
    BY <1>2, <1>3, <1>4, <1>5 DEF Is1, Is2, Is3, Is4, Path4
  <1>7. ASSUME NEW j \in 1..4, NEW k \in 1..4, j < k,
               Covers(Routing!EnrollmentRoutes[j], Routing!EnrollmentRoutes[k])
        PROVE  FALSE
    BY <1>2, <1>3, <1>4, <1>5, <1>6, <1>7, Covered
    DEF Is1, Is2, Is3, Is4, Path4, Sent, Routing!Id, Routing!Uuid
  <1> QED BY <1>1, <1>6, <1>7 DEF Routers

LEMMA TimetableApart == Routers(Routing!TimetableRoutes, {"timetable"})
  <1>1. IsSeq(Routing!TimetableRoutes) /\ Len(Routing!TimetableRoutes) = 4
    BY DEF IsSeq, Routing!TimetableRoutes
  <1>2. Is2(Routing!TimetableRoutes[1], "GET", "timetable", "me")
    BY RoutesAreTiered, PartByPart DEF Routing!TimetableRoutes
  <1>3. Is1(Routing!TimetableRoutes[2], "GET", "timetable")
    BY RoutesAreTiered, PartByPart DEF Routing!TimetableRoutes
  <1>4. Is2(Routing!TimetableRoutes[3], "POST", "timetable", "slots")
    BY RoutesAreTiered, PartByPart DEF Routing!TimetableRoutes
  <1>5. Is3(Routing!TimetableRoutes[4], "DELETE", "timetable", "slots", Routing!Id)
    BY RoutesAreTiered, PartByPart DEF Routing!TimetableRoutes
  <1>6. ASSUME NEW k \in 1..4
        PROVE  Tiered(Routing!TimetableRoutes[k]) /\ Path4(Routing!TimetableRoutes[k].path)
               /\ Routing!TimetableRoutes[k].path[1] = "timetable"
    BY <1>2, <1>3, <1>4, <1>5 DEF Is1, Is2, Is3, Is4, Path4
  <1>7. ASSUME NEW j \in 1..4, NEW k \in 1..4, j < k,
               Covers(Routing!TimetableRoutes[j], Routing!TimetableRoutes[k])
        PROVE  FALSE
    BY <1>2, <1>3, <1>4, <1>5, <1>6, <1>7, Covered
    DEF Is1, Is2, Is3, Is4, Path4, Sent, Routing!Id, Routing!Uuid
  <1> QED BY <1>1, <1>6, <1>7 DEF Routers

LEMMA GradeApart == Routers(Routing!GradeRoutes, {"grades"})
  <1>1. IsSeq(Routing!GradeRoutes) /\ Len(Routing!GradeRoutes) = 4
    BY DEF IsSeq, Routing!GradeRoutes
  <1>2. Is1(Routing!GradeRoutes[1], "POST", "grades")
    BY RoutesAreTiered, PartByPart DEF Routing!GradeRoutes
  <1>3. Is1(Routing!GradeRoutes[2], "GET", "grades")
    BY RoutesAreTiered, PartByPart DEF Routing!GradeRoutes
  <1>4. Is2(Routing!GradeRoutes[3], "GET", "grades", Routing!Id)
    BY RoutesAreTiered, PartByPart DEF Routing!GradeRoutes
  <1>5. Is2(Routing!GradeRoutes[4], "PATCH", "grades", Routing!Id)
    BY RoutesAreTiered, PartByPart DEF Routing!GradeRoutes
  <1>6. ASSUME NEW k \in 1..4
        PROVE  Tiered(Routing!GradeRoutes[k]) /\ Path4(Routing!GradeRoutes[k].path)
               /\ Routing!GradeRoutes[k].path[1] = "grades"
    BY <1>2, <1>3, <1>4, <1>5 DEF Is1, Is2, Is3, Is4, Path4
  <1>7. ASSUME NEW j \in 1..4, NEW k \in 1..4, j < k, Covers(Routing!GradeRoutes[j], Routing!GradeRoutes[k])
        PROVE  FALSE
    BY <1>2, <1>3, <1>4, <1>5, <1>6, <1>7, Covered
    DEF Is1, Is2, Is3, Is4, Path4, Sent, Routing!Id, Routing!Uuid
  <1> QED BY <1>1, <1>6, <1>7 DEF Routers

LEMMA RosterKinds == Len(Routing!RosterRoutes) = 5 /\ \A k \in 1..5 : Len(Routing!RosterRoutes[k].path) >= 3
  <1>1. IsSeq(Routing!RosterRoutes) /\ Len(Routing!RosterRoutes) = 5
    BY DEF IsSeq, Routing!RosterRoutes
  <1>2. Is3(Routing!RosterRoutes[1], "GET", "sections", Routing!Id, "students")
    BY RoutesAreTiered, PartByPart DEF Routing!RosterRoutes
  <1>3. Is4(Routing!RosterRoutes[2], "POST", "sections", Routing!Id, "students", Routing!Id)
    BY RoutesAreTiered, PartByPart DEF Routing!RosterRoutes
  <1>4. Is4(Routing!RosterRoutes[3], "DELETE", "sections", Routing!Id, "students", Routing!Id)
    BY RoutesAreTiered, PartByPart DEF Routing!RosterRoutes
  <1>5. Is4(Routing!RosterRoutes[4], "POST", "sections", Routing!Id, "classes", Routing!Id)
    BY RoutesAreTiered, PartByPart DEF Routing!RosterRoutes
  <1>6. Is4(Routing!RosterRoutes[5], "DELETE", "sections", Routing!Id, "classes", Routing!Id)
    BY RoutesAreTiered, PartByPart DEF Routing!RosterRoutes
  <1> QED BY <1>1, <1>2, <1>3, <1>4, <1>5, <1>6 DEF Is3, Is4

LEMMA CrudApart ==
    ASSUME NEW name, NEW writers, NEW about, name # Routing!Id,
           (writers = Routing!Admins /\ about = "structure") \/ (writers = Routing!Staff /\ about = "records")
    PROVE  /\ Routers(Routing!Crud(name, writers, about), {name})
           /\ Len(Routing!Crud(name, writers, about)) = 5
           /\ \A k \in 1..5 : Len(Routing!Crud(name, writers, about)[k].path) <= 2
  <1> DEFINE s == Routing!Crud(name, writers, about)
  <1>1. IsSeq(s) /\ Len(s) = 5
    BY DEF IsSeq, Routing!Crud
  <1>2. Is1(s[1], "POST", name)
    BY RoutesAreTiered, PartByPart DEF Routing!Crud
  <1>3. Is1(s[2], "GET", name)
    BY RoutesAreTiered, PartByPart DEF Routing!Crud
  <1>4. Is2(s[3], "GET", name, Routing!Id)
    BY RoutesAreTiered, PartByPart DEF Routing!Crud
  <1>5. Is2(s[4], "PATCH", name, Routing!Id)
    BY RoutesAreTiered, PartByPart DEF Routing!Crud
  <1>6. Is2(s[5], "DELETE", name, Routing!Id)
    BY RoutesAreTiered, PartByPart DEF Routing!Crud
  <1> HIDE DEF s
  <1> DEFINE Good(r) == Tiered(r) /\ Path4(r.path) /\ r.path[1] = name /\ Len(r.path) <= 2
  <1>7. Good(s[1]) /\ Good(s[2])
    <2>1. ASSUME NEW r, NEW m, Is1(r, m, name) PROVE Good(r)
      BY <2>1 DEF Is1, Path4
    <2> QED BY <1>2, <1>3, <2>1
  <1>8. Good(s[3]) /\ Good(s[4]) /\ Good(s[5])
    <2>1. ASSUME NEW r, NEW m, Is2(r, m, name, Routing!Id) PROVE Good(r)
      BY <2>1 DEF Is2, Path4
    <2> QED BY <1>4, <1>5, <1>6, <2>1
  <1> HIDE DEF Good
  <1>9. \A k \in 1..5 : k = 1 \/ k = 2 \/ k = 3 \/ k = 4 \/ k = 5
    OBVIOUS
  <1>10. \A k \in 1..5 : Good(s[k])
    BY <1>7, <1>8, <1>9
  <1> USE DEF Good
  <1>11. \A k \in 1..5 : Tiered(s[k]) /\ Path4(s[k].path) /\ s[k].path[1] = name /\ Len(s[k].path) <= 2
    BY <1>10
  <1>12. ASSUME NEW j \in 1..5, NEW k \in 1..5, j < k, Covers(s[j], s[k]) PROVE FALSE
    BY <1>2, <1>3, <1>4, <1>5, <1>6, <1>12 DEF Is1, Is2, Covers
  <1>13. Routers(s, {name})
    BY <1>1, <1>11, <1>12 DEF Routers
  <1> QED BY <1>1, <1>11, <1>13 DEF s

\* Longer paths after shorter ones.
LEMMA LongerApart ==
    ASSUME NEW name, NEW writers, NEW about, name # Routing!Id,
           (writers = Routing!Admins /\ about = "structure") \/ (writers = Routing!Staff /\ about = "records"),
           NEW t, Routers(t, {name}), \A k \in 1..Len(t) : Len(t[k].path) >= 3
    PROVE  Routers(Routing!Crud(name, writers, about) \o t, {name})
  <1> DEFINE s == Routing!Crud(name, writers, about)
  <1>1. Routers(s, {name}) /\ Len(s) = 5 /\ \A j \in 1..5 : Len(s[j].path) <= 2
    BY CrudApart
  <1> HIDE DEF s
  <1>2. ASSUME NEW j \in 1..Len(s), NEW k \in 1..Len(t), Covers(s[j], t[k]) PROVE FALSE
    <2>1. Len(s[j].path) = Len(t[k].path)
      BY <1>2, <1>1 DEF Covers
    <2>2. Len(t[k].path) \in Nat
      BY DEF Routers, Path4
    <2> QED BY <1>1, <2>1, <2>2
  <1>3. Routers(s \o t, {name} \cup {name})
    BY <1>1, <1>2, Concatenated
  <1> QED BY <1>3 DEF s

LEMMA SectionApart == Routers(Routing!SectionRoutes, {"sections"})
  <1>1. \A k \in 1..Len(Routing!RosterRoutes) : Len(Routing!RosterRoutes[k].path) >= 3
    BY RosterKinds
  <1>2. "sections" # Routing!Id
    BY DEF Routing!Id
  <1>3. Routers(Routing!Crud("sections", Routing!Admins, "structure") \o Routing!RosterRoutes, {"sections"})
    BY <1>1, <1>2, RosterApart, LongerApart
  <1> QED BY <1>3 DEF Routing!SectionRoutes

LEMMA ClassApart == Routers(Routing!ClassRoutes, {"classes"})
  <1> DEFINE t == <<Routing!Get(<<"classes", Routing!Id, "gradebook">>, Routing!Staff, "rosters")>>
  <1>1. IsSeq(t) /\ Len(t) = 1
    BY DEF IsSeq
  <1>2. Is3(t[1], "GET", "classes", Routing!Id, "gradebook")
    BY RoutesAreTiered, PartByPart
  <1> HIDE DEF t
  <1>3. Routers(t, {"classes"}) /\ \A k \in 1..Len(t) : Len(t[k].path) >= 3
    BY <1>1, <1>2 DEF Routers, Is3, Path4
  <1>4. "classes" # Routing!Id
    BY DEF Routing!Id
  <1>5. Routers(Routing!Crud("classes", Routing!Admins, "structure") \o t, {"classes"})
    BY <1>3, <1>4, LongerApart
  <1> QED BY <1>5 DEF Routing!ClassRoutes, t

LEMMA CrudsApart ==
    /\ Routers(Routing!YearRoutes, {"academic-years"})
    /\ Routers(Routing!TermRoutes, {"terms"})
    /\ Routers(Routing!LevelRoutes, {"grade-levels"})
    /\ Routers(Routing!SubjectRoutes, {"subjects"})
    /\ Routers(Routing!PeriodRoutes, {"periods"})
    /\ Routers(Routing!AssessmentRoutes, {"assessments"})
  <1>1. "academic-years" # Routing!Id /\ "terms" # Routing!Id /\ "grade-levels" # Routing!Id
        /\ "subjects" # Routing!Id /\ "periods" # Routing!Id /\ "assessments" # Routing!Id
    BY DEF Routing!Id
  <1> QED BY <1>1, CrudApart
          DEF Routing!YearRoutes, Routing!TermRoutes, Routing!LevelRoutes, Routing!SubjectRoutes,
              Routing!PeriodRoutes, Routing!AssessmentRoutes

LEMMA NextRouter ==
    ASSUME NEW s, NEW t, NEW M, NEW name, Routers(s, M), Routers(t, {name}), Routing!Id \notin M,
           name # Routing!Id, name \notin M
    PROVE  Routers(s \o t, M \cup {name})
  BY NamesApart

\* All of them, one after the other.
LEMMA RoutesApart == \E names : Routers(Routing!Routes, names)
  <1> DEFINE R0 == Routing!AuthRoutes
             N0 == {"auth"}
             R1 == R0 \o Routing!UserRoutes
             N1 == N0 \cup {"users"}
             R2 == R1 \o Routing!AuditRoutes
             N2 == N1 \cup {"audit-log"}
             R3 == R2 \o Routing!StudentRoutes
             N3 == N2 \cup {"students"}
             R4 == R3 \o Routing!TeacherRoutes
             N4 == N3 \cup {"teachers"}
             R5 == R4 \o Routing!YearRoutes
             N5 == N4 \cup {"academic-years"}
             R6 == R5 \o Routing!TermRoutes
             N6 == N5 \cup {"terms"}
             R7 == R6 \o Routing!LevelRoutes
             N7 == N6 \cup {"grade-levels"}
             R8 == R7 \o Routing!SectionRoutes
             N8 == N7 \cup {"sections"}
             R9 == R8 \o Routing!SubjectRoutes
             N9 == N8 \cup {"subjects"}
             R10 == R9 \o Routing!ClassRoutes
             N10 == N9 \cup {"classes"}
             R11 == R10 \o Routing!EnrollmentRoutes
             N11 == N10 \cup {"enrollments"}
             R12 == R11 \o Routing!PeriodRoutes
             N12 == N11 \cup {"periods"}
             R13 == R12 \o Routing!TimetableRoutes
             N13 == N12 \cup {"timetable"}
             R14 == R13 \o Routing!AssessmentRoutes
             N14 == N13 \cup {"assessments"}
             R15 == R14 \o Routing!GradeRoutes
             N15 == N14 \cup {"grades"}
  <1>1. Routers(R0, N0) /\ Routing!Id \notin N0
    BY AuthApart DEF Routing!Id
  <1>2. Routers(R1, N1) /\ Routing!Id \notin N1
    BY <1>1, UserApart, NextRouter DEF Routing!Id
  <1>3. Routers(R2, N2) /\ Routing!Id \notin N2
    BY <1>2, AuditApart, NextRouter DEF Routing!Id
  <1>4. Routers(R3, N3) /\ Routing!Id \notin N3
    BY <1>3, StudentApart, NextRouter DEF Routing!Id
  <1>5. Routers(R4, N4) /\ Routing!Id \notin N4
    BY <1>4, TeacherApart, NextRouter DEF Routing!Id
  <1>6. Routers(R5, N5) /\ Routing!Id \notin N5
    BY <1>5, CrudsApart, NextRouter DEF Routing!Id
  <1>7. Routers(R6, N6) /\ Routing!Id \notin N6
    BY <1>6, CrudsApart, NextRouter DEF Routing!Id
  <1>8. Routers(R7, N7) /\ Routing!Id \notin N7
    BY <1>7, CrudsApart, NextRouter DEF Routing!Id
  <1>9. Routers(R8, N8) /\ Routing!Id \notin N8
    BY <1>8, SectionApart, NextRouter DEF Routing!Id
  <1>10. Routers(R9, N9) /\ Routing!Id \notin N9
    BY <1>9, CrudsApart, NextRouter DEF Routing!Id
  <1>11. Routers(R10, N10) /\ Routing!Id \notin N10
    BY <1>10, ClassApart, NextRouter DEF Routing!Id
  <1>12. Routers(R11, N11) /\ Routing!Id \notin N11
    BY <1>11, EnrollmentApart, NextRouter DEF Routing!Id
  <1>13. Routers(R12, N12) /\ Routing!Id \notin N12
    BY <1>12, CrudsApart, NextRouter DEF Routing!Id
  <1>14. Routers(R13, N13) /\ Routing!Id \notin N13
    BY <1>13, TimetableApart, NextRouter DEF Routing!Id
  <1>15. Routers(R14, N14) /\ Routing!Id \notin N14
    BY <1>14, CrudsApart, NextRouter DEF Routing!Id
  <1>16. Routers(R15, N15) /\ Routing!Id \notin N15
    BY <1>15, GradeApart, NextRouter DEF Routing!Id
  <1> QED BY <1>16 DEF Routing!Routes

-----------------------------------------------------------------------------

\* A path reaches the route it was made for.
LEMMA PathsReachTheirs ==
    ASSUME NEW k \in DOMAIN Routing!Routes
    PROVE  Routing!Reached(Routing!Routes[k].method, Routing!Path(k)) = k
  <1>1. /\ DOMAIN Routing!Routes = 1..Len(Routing!Routes) /\ Len(Routing!Routes) \in Nat
        /\ \A j \in DOMAIN Routing!Routes : j < k => ~Covers(Routing!Routes[j], Routing!Routes[k])
        /\ \A j \in DOMAIN Routing!Routes : Path4(Routing!Routes[j].path)
    BY RoutesApart DEF Routers, IsSeq
  <1>2. /\ Len(Routing!Path(k)) = Len(Routing!Routes[k].path)
           /\ DOMAIN Routing!Path(k) = 1..Len(Routing!Routes[k].path)
        /\ \A i \in 1..Len(Routing!Routes[k].path) : Routing!Path(k)[i] = Sent(Routing!Routes[k].path[i])
    BY <1>1 DEF Routing!Path, Path4, Sent
  <1>3. \A j \in DOMAIN Routing!Routes : Routing!Fits(Routing!Routes[k].method, Routing!Path(k), j)
             <=> Covers(Routing!Routes[j], Routing!Routes[k])
    BY <1>2 DEF Routing!Fits, Covers
  <1>4. Covers(Routing!Routes[k], Routing!Routes[k])
    BY DEF Covers, Sent
  <1> DEFINE First(j) == Routing!Fits(Routing!Routes[k].method, Routing!Path(k), j)
                         /\ \A l \in 1..(j - 1) : ~Routing!Fits(Routing!Routes[k].method, Routing!Path(k), l)
  <1>5. First(k)
    <2>1. \A l \in 1..(k - 1) : l \in DOMAIN Routing!Routes /\ l < k
      BY <1>1
    <2> QED BY <1>1, <1>3, <1>4, <2>1
  <1>6. ASSUME NEW j \in DOMAIN Routing!Routes, First(j) PROVE j = k
    <2>1. ~(j < k)
      BY <1>1, <1>3, <1>6
    <2>2. ~(k < j)
      <3>1. k < j => k \in 1..(j - 1)
        BY <1>1
      <3> QED BY <1>3, <1>4, <1>6, <3>1
    <2> QED BY <1>1, <2>1, <2>2
  <1>7. Routing!Reached(Routing!Routes[k].method, Routing!Path(k)) = CHOOSE j \in DOMAIN Routing!Routes : First(j)
    BY DEF Routing!Reached
  <1> HIDE DEF First
  <1> QED BY <1>5, <1>6, <1>7

LEMMA GuardsFit ==
    ASSUME NEW k \in DOMAIN Routing!Routes
    PROVE  Tiered(Routing!Routes[k])
  BY RoutesApart DEF Routers, IsSeq

-----------------------------------------------------------------------------
(* Requests.                                                               *)

\* What a request may have been admitted with: the route it was made for,
\* and a role that passes its guard.
Admitted(w) ==
    /\ w.got = w.asked
    /\ w.held \cap (Routing!Routes[w.got].allowed \cup {"super_admin"}) # {}

RoutingInductive ==
    /\ Routing!TypeOK
    /\ \A r \in Visits : work[r] # Routing!Idle => Admitted(work[r])

LEMMA RoutingInitInv == Routing!Init => RoutingInductive
  BY DEF Routing!Init, RoutingInductive, Routing!TypeOK, Routing!Work, Routing!Idle

\* A busy request is not idle, whatever its fields are.
LEMMA BusyIsNotIdle ==
    ASSUME NEW w \in Routing!Work, w.pc # "idle"
    PROVE  w \in [pc: {"admitted", "done"}, by: Users, asked: DOMAIN Routing!Routes,
                  got: DOMAIN Routing!Routes, held: SUBSET Routing!Roles]
  BY DEF Routing!Work, Routing!Idle

LEMMA RoutingStepInv == RoutingInductive /\ [Routing!Next]_Routing!vars => RoutingInductive'
  <1> SUFFICES ASSUME RoutingInductive, [Routing!Next]_Routing!vars PROVE RoutingInductive'
    OBVIOUS
  <1> DEFINE Busy == [pc: {"admitted", "done"}, by: Users, asked: DOMAIN Routing!Routes,
                  got: DOMAIN Routing!Routes, held: SUBSET Routing!Roles]
  <1>1. ASSUME NEW r \in Visits, Routing!Serve(r) PROVE RoutingInductive'
    <2>1. work[r] \in Routing!Work /\ work[r].pc = "admitted" /\ work[r] # Routing!Idle
      BY <1>1 DEF Routing!Serve, RoutingInductive, Routing!TypeOK, Routing!Idle
    <2>2. work[r] \in Busy /\ Admitted(work[r])
      BY <2>1, BusyIsNotIdle DEF RoutingInductive
    <2>3. PICK w : w = [work[r] EXCEPT !.pc = "done"]
      OBVIOUS
    <2>4. w \in Busy /\ Admitted(w)
      BY <2>2, <2>3 DEF Admitted
    <2>5. work' = [work EXCEPT ![r] = w] /\ account' = account
      BY <1>1, <2>3 DEF Routing!Serve
    <2> QED BY <2>4, <2>5 DEF RoutingInductive, Routing!TypeOK, Routing!Work
  <1>2. ASSUME NEW r \in Visits, Routing!Leave(r) PROVE RoutingInductive'
    BY <1>2 DEF Routing!Leave, RoutingInductive, Routing!TypeOK, Routing!Work
  <1>3. ASSUME NEW r \in Visits, NEW u \in Users, NEW k \in DOMAIN Routing!Routes, Routing!Admit(r, u, k)
        PROVE  RoutingInductive'
    <2>1. Routing!Reached(Routing!Routes[k].method, Routing!Path(k)) = k
      BY PathsReachTheirs
    <2>2. PICK w : w = [pc |-> "admitted", by |-> u, asked |-> k, got |-> k, held |-> Routing!Now(account[u])]
      OBVIOUS
    <2>3. work' = [work EXCEPT ![r] = w] /\ account' = account /\ Routing!Passes(u, Routing!Routes[k].allowed)
      BY <1>3, <2>1, <2>2 DEF Routing!Admit
    <2>4. account[u].active /\ account[u].role \in Routing!Roles
      BY <2>3 DEF Routing!Passes, RoutingInductive, Routing!TypeOK
    <2>5. w.held = {account[u].role}
      BY <2>2, <2>4 DEF Routing!Now
    <2>6. w \in Busy
      BY <2>2, <2>4, <2>5
    <2>7. Admitted(w)
      BY <2>2, <2>3, <2>5 DEF Admitted, Routing!Passes
    <2> QED BY <2>3, <2>6, <2>7 DEF RoutingInductive, Routing!TypeOK, Routing!Work
  <1>4. ASSUME NEW u \in Users, NEW new \in [role: Routing!Roles, active: BOOLEAN],
               Routing!ChangeAccount(u, new)
        PROVE  RoutingInductive'
    <2>1. account' \in [Users -> [role: Routing!Roles, active: BOOLEAN]]
      BY <1>4 DEF Routing!ChangeAccount, RoutingInductive, Routing!TypeOK
    <2>2. ASSUME NEW r \in Visits
          PROVE  work'[r] \in Routing!Work /\ (work'[r] # Routing!Idle => Admitted(work'[r]))
      <3>1. CASE work[r].pc = "admitted" /\ work[r].by = u
        <4>1. work[r] \in Busy /\ Admitted(work[r])
          BY <3>1, BusyIsNotIdle DEF RoutingInductive, Routing!TypeOK, Routing!Idle
        <4>2. Routing!Now(new) \subseteq Routing!Roles
          BY DEF Routing!Now
        <4>3. work'[r] = [work[r] EXCEPT !.held = @ \cup Routing!Now(new)]
          BY <1>4, <3>1 DEF Routing!ChangeAccount
        <4>4. work'[r] \in Busy /\ Admitted(work'[r])
          BY <4>1, <4>2, <4>3 DEF Admitted
        <4> QED BY <4>4 DEF Routing!Work
      <3>2. CASE ~(work[r].pc = "admitted" /\ work[r].by = u)
        <4>1. work'[r] = work[r]
          BY <1>4, <3>2 DEF Routing!ChangeAccount
        <4> QED BY <4>1 DEF RoutingInductive, Routing!TypeOK
      <3> QED BY <3>1, <3>2
    <2>3. work' = [r \in Visits |-> work'[r]]
      BY <1>4 DEF Routing!ChangeAccount
    <2> QED BY <2>1, <2>2, <2>3 DEF RoutingInductive, Routing!TypeOK
  <1>5. CASE UNCHANGED Routing!vars
    BY <1>5 DEF Routing!vars, RoutingInductive, Routing!TypeOK
  <1> QED BY <1>1, <1>2, <1>3, <1>4, <1>5 DEF Routing!Next

LEMMA RoutingIsSound == RoutingInductive => Routing!TypeOK /\ Routing!AccessHolds
  <1> SUFFICES ASSUME RoutingInductive, NEW r \in Visits, work[r] # Routing!Idle
               PROVE  /\ work[r].got = work[r].asked
                      /\ work[r].held \cap Tier(Routing!Routes[work[r].got]) # {}
    BY DEF RoutingInductive, Routing!AccessHolds, Routing!EveryRouteReached, Routing!TiersHold, Tier,
           Routing!Idle
  <1>1. work[r].got \in DOMAIN Routing!Routes /\ Admitted(work[r])
    BY DEF RoutingInductive, Routing!TypeOK, Routing!Work
  <1>2. Tiered(Routing!Routes[work[r].got])
    BY <1>1, GuardsFit
  <1> QED BY <1>1, <1>2 DEF Admitted, Tiered

-----------------------------------------------------------------------------
(* SeedDemo: the rows are those of the first calls of one run.             *)

NamesNoGrade(n) == Seeding!Script[n].op # "grade"

RowOf(n) == Seeding!Row(Seeding!Script[n].op, Seeding!Script[n].args)

SeedingInductive ==
    /\ Seeding!TypeOK
    /\ \A x, y \in wrote : x = y
    /\ wrote = {} => db = {}
    /\ wrote # {} => Seeding!Row("admin", <<>>) \in db
    /\ \A x \in Runs \ wrote : run[x] \in {0, 1, Len(Seeding!Script) + 2, Len(Seeding!Script) + 3}
    /\ \A x \in wrote : run[x] # Len(Seeding!Script) + 2 =>
          /\ run[x] \in 2..(Len(Seeding!Script) + 1)
          /\ db = Seeding!After[run[x] - 1]
          /\ \A n \in 1..(run[x] - 1) : NamesNoGrade(n) => RowOf(n) \in db

LEMMA WrittenRows ==
    ASSUME NEW rows, NEW op, NEW a
    PROVE  /\ \A x \in Seeding!Written(rows, op, a) : Len(x) = 2
           /\ op # "grade" => Seeding!Row(op, a) \in Seeding!Written(rows, op, a)
  <1>1. CASE op = "assign"
    <2>1. Seeding!Written(rows, op, a) = {Seeding!Row(op, a)} \cup
             {Seeding!Row("enrolled", <<a[1], a[2], p>>) :
                p \in {q \in 1..4 : Seeding!Has(rows, "attach", <<a[2], q>>)}}
      BY <1>1 DEF Seeding!Written
    <2>2. \A p : Len(Seeding!Row("enrolled", <<a[1], a[2], p>>)) = 2
      BY DEF Seeding!Row
    <2>3. Len(Seeding!Row(op, a)) = 2
      BY DEF Seeding!Row
    <2>4. \A x \in Seeding!Written(rows, op, a) :
             x = Seeding!Row(op, a) \/ \E p : x = Seeding!Row("enrolled", <<a[1], a[2], p>>)
      BY <2>1, Zenon
    <2>5. Seeding!Row(op, a) \in Seeding!Written(rows, op, a)
      BY <2>1, Zenon
    <2> QED BY <2>2, <2>3, <2>4, <2>5, Zenon
  <1>2. CASE op = "attach"
    BY <1>2 DEF Seeding!Written, Seeding!Row
  <1>3. CASE op = "grade"
    BY <1>3 DEF Seeding!Written, Seeding!Row
  <1>4. CASE op \notin {"assign", "attach", "grade"}
    BY <1>4 DEF Seeding!Written, Seeding!Row
  <1> QED BY <1>1, <1>2, <1>3, <1>4

\* A second admin is refused.
LEMMA OneAdmin ==
    ASSUME NEW rows, Seeding!Row("admin", <<>>) \in rows
    PROVE  ~Seeding!Allowed(rows, "admin", <<>>)
  BY DEF Seeding!Allowed, Seeding!Free, Seeding!Has

LEMMA SeedingInitInv == Seeding!RunsAlone => (Seeding!Init => SeedingInductive)
  BY DEF Seeding!Init, SeedingInductive, Seeding!TypeOK, Seeding!RunsAlone

\* A run starts, dies or is refused: the rows stay.
LEMMA EndsInv ==
    ASSUME Seeding!RunsAlone, SeedingInductive, NEW x \in Runs, NEW n, UNCHANGED <<db, wrote>>,
           run' = [run EXCEPT ![x] = n],
           \/ n = Len(Seeding!Script) + 2
           \/ x \notin wrote /\ n \in {1, Len(Seeding!Script) + 3}
    PROVE  SeedingInductive'
  <1>1. Len(Seeding!Script) \in Nat
    BY DEF Seeding!RunsAlone
  <1> DEFINE L == Len(Seeding!Script)
  <1>2. n \in 0..(L + 3)
    BY <1>1
  <1>3. run' \in [Runs -> 0..(L + 3)] /\ \A y \in Runs : run'[y] = IF y = x THEN n ELSE run[y]
    BY <1>2 DEF SeedingInductive, Seeding!TypeOK
  <1>4. wrote \subseteq Runs
    BY DEF SeedingInductive, Seeding!TypeOK
  <1> HIDE DEF L
  <1>5. Seeding!TypeOK'
    BY <1>3 DEF SeedingInductive, Seeding!TypeOK, L
  <1>6. \A y \in Runs \ wrote : run'[y] \in {0, 1, L + 2, L + 3}
    BY <1>3 DEF SeedingInductive, L
  <1>7. \A y \in wrote : run'[y] = run[y] \/ run'[y] = L + 2
    BY <1>3, <1>4 DEF L
  <1> QED BY <1>5, <1>6, <1>7 DEF SeedingInductive, L

LEMMA CallInv ==
    ASSUME Seeding!RunsAlone, SeedingInductive, NEW x \in Runs, Seeding!Step(x)
    PROVE  SeedingInductive'
  <1> DEFINE L == Len(Seeding!Script)
             n == run[x]
             op == Seeding!Script[n].op
             args == Seeding!Script[n].args
  <1>1. /\ L \in Nat \ {0} /\ n \in 1..L
        /\ Seeding!Script[1] = Seeding!Call("admin", <<>>) /\ Seeding!After[0] = {}
        /\ Seeding!Allowed(Seeding!After[n - 1], op, args)
        /\ Seeding!After[n] = Seeding!After[n - 1] \cup Seeding!Written(Seeding!After[n - 1], op, args)
    BY DEF Seeding!Step, Seeding!RunsAlone
  <1>2. wrote \subseteq Runs /\ run \in [Runs -> 0..(L + 3)]
    BY DEF SeedingInductive, Seeding!TypeOK
  <1>3. n = 1 => op = "admin" /\ args = <<>>
    BY <1>1 DEF Seeding!Call
  <1>4. x \notin wrote => n = 1
    BY <1>1 DEF SeedingInductive
  <1>5. x \in wrote => /\ n # L + 2 /\ n \in 2..(L + 1) /\ db = Seeding!After[n - 1]
                       /\ \A m \in 1..(n - 1) : NamesNoGrade(m) => RowOf(m) \in db
    BY <1>1 DEF SeedingInductive
  <1>6. CASE ~Seeding!Allowed(db, op, args)
    <2>1. x \notin wrote
      BY <1>1, <1>5, <1>6
    <2>2. run' = [run EXCEPT ![x] = L + 3] /\ UNCHANGED <<db, wrote>>
      BY <1>6 DEF Seeding!Step
    <2> QED BY <2>1, <2>2, EndsInv
  <1>7. CASE Seeding!Allowed(db, op, args)
    <2>1. /\ db' = db \cup Seeding!Written(db, op, args) /\ wrote' = wrote \cup {x}
          /\ run' = [run EXCEPT ![x] = n + 1]
      BY <1>7 DEF Seeding!Step
    <2>2. x \in wrote \/ wrote = {}
      BY <1>3, <1>4, <1>7, OneAdmin DEF SeedingInductive
    <2>3. wrote' = {x}
      BY <2>1, <2>2 DEF SeedingInductive
    <2>4. db = Seeding!After[n - 1]
      <3>1. CASE x \in wrote
        BY <1>5, <3>1
      <3>2. CASE wrote = {}
        <4>1. n - 1 = 0 /\ db = {}
          BY <1>4, <3>2 DEF SeedingInductive
        <4> QED BY <1>1, <4>1
      <3> QED BY <2>2, <3>1, <3>2
    <2>5. db' = Seeding!After[n] /\ db \subseteq db'
      BY <1>1, <2>1, <2>4
    <2>6. NamesNoGrade(n) => RowOf(n) \in db'
      BY <2>1, WrittenRows DEF NamesNoGrade, RowOf
    <2>7. \A m \in 1..n : NamesNoGrade(m) => RowOf(m) \in db'
      <3>1. \A m \in 1..(n - 1) : NamesNoGrade(m) => RowOf(m) \in db
        BY <1>1, <1>4, <1>5
      <3>2. \A m \in 1..n : m = n \/ m \in 1..(n - 1)
        BY <1>1
      <3> QED BY <2>5, <2>6, <3>1, <3>2
    <2>8. Seeding!Row("admin", <<>>) \in db'
      <3>1. CASE n = 1
        BY <1>3, <2>6, <3>1 DEF NamesNoGrade, RowOf
      <3>2. CASE n # 1
        BY <1>4, <2>5, <3>2 DEF SeedingInductive
      <3> QED BY <3>1, <3>2
    <2> HIDE DEF op, args
    <2>9. run'[x] = n + 1 /\ \A y \in Runs \ {x} : run'[y] = run[y]
      BY <1>2, <2>1
    <2>10. Seeding!TypeOK'
      <3>1. n + 1 \in 0..(L + 3)
        BY <1>1
      <3>2. run' \in [Runs -> 0..(L + 3)]
        BY <1>2, <2>1, <3>1
      <3>3. \A y \in db' : Len(y) = 2
        BY <2>1, WrittenRows DEF SeedingInductive, Seeding!TypeOK
      <3> QED BY <2>3, <3>2, <3>3 DEF Seeding!TypeOK
    <2>11. \A y \in Runs \ wrote' : run'[y] \in {0, 1, L + 2, L + 3}
      BY <1>2, <2>1, <2>9 DEF SeedingInductive
    <2>12. run'[x] \in 2..(L + 1) /\ run'[x] - 1 = n
      BY <1>1, <2>9
    <2> QED BY <2>3, <2>5, <2>7, <2>8, <2>10, <2>11, <2>12 DEF SeedingInductive
  <1> QED BY <1>6, <1>7

LEMMA SeedingStepInv ==
    ASSUME Seeding!RunsAlone, SeedingInductive, [Seeding!Next]_Seeding!vars
    PROVE  SeedingInductive'
  <1>1. ASSUME NEW x \in Runs, Seeding!Start(x) PROVE SeedingInductive'
    <2>1. x \notin wrote
      BY <1>1 DEF Seeding!Start, SeedingInductive, Seeding!RunsAlone
    <2> QED BY <1>1, <2>1, EndsInv DEF Seeding!Start
  <1>2. ASSUME NEW x \in Runs, Seeding!Die(x) PROVE SeedingInductive'
    BY <1>2, EndsInv DEF Seeding!Die
  <1>3. CASE UNCHANGED Seeding!vars
    BY <1>3 DEF Seeding!vars, SeedingInductive, Seeding!TypeOK
  <1> QED BY <1>1, <1>2, <1>3, CallInv DEF Seeding!Next

LEMMA SeedingIsSound == Seeding!RunsAlone /\ SeedingInductive => Seeding!SeedsOnce
  <1> SUFFICES ASSUME Seeding!RunsAlone, SeedingInductive PROVE Seeding!SeedsOnce
    OBVIOUS
  <1>1. \A x, y \in wrote : x = y
    BY DEF SeedingInductive
  <1>2. ASSUME NEW x \in wrote, NEW n \in DOMAIN Seeding!Script, NamesNoGrade(n),
               n < run[x], run[x] <= Len(Seeding!Script) + 1
        PROVE  RowOf(n) \in db
    <2>1. run[x] \in Nat /\ Len(Seeding!Script) \in Nat /\ n \in 1..Len(Seeding!Script)
      BY DEF SeedingInductive, Seeding!TypeOK, Seeding!RunsAlone
    <2>2. run[x] # Len(Seeding!Script) + 2 /\ n \in 1..(run[x] - 1)
      BY <1>2, <2>1
    <2> QED BY <1>2, <2>2 DEF SeedingInductive
  <1>3. \A x \in wrote : \A n \in DOMAIN Seeding!Script :
           Seeding!Script[n].op # "grade" =>
              \/ Seeding!Row(Seeding!Script[n].op, Seeding!Script[n].args) \in db
              \/ ~(n < run[x] /\ run[x] <= Len(Seeding!Script) + 1)
    BY <1>2 DEF NamesNoGrade, RowOf
  <1>4. \A x \in wrote : run[x] # Len(Seeding!Script) + 3
    BY DEF SeedingInductive, Seeding!RunsAlone
  <1>5. Seeding!OneRunSeeds
    BY <1>1, <1>3, Zenon DEF Seeding!OneRunSeeds
  <1>6. Seeding!RunsClean
    BY <1>4, Zenon DEF Seeding!RunsClean, Seeding!Refused
  <1> QED BY <1>5, <1>6 DEF Seeding!SeedsOnce

-----------------------------------------------------------------------------
(* Records: a step is a step of its part's module, and nothing else's.     *)

LEMMA PartSteps ==
    ASSUME [Next]_vars
    PROVE  /\ part' = part
           /\ part = "changes" => [Changes!Next]_Changes!vars
           /\ part = "pins" => [Pins!Next]_Pins!vars
           /\ part = "passwords" => [Passwords!Next]_Passwords!vars
           /\ part = "scores" => [Scoring!Next]_Scoring!vars
           /\ part = "moves" => [Moving!Next]_Moving!vars
           /\ part = "bells" => [Bells!Next]_Bells!vars
           /\ part = "calendar" => [Calendar!Next]_Calendar!vars
           /\ part = "rows" => [Rows!Next]_Rows!vars
           /\ part = "access" => [Routing!Next]_Routing!vars
           /\ part = "pictures" => [Pictures!Next]_Pictures!vars
           /\ part = "seed" => [Seeding!Next]_Seeding!vars
  <1>1. CASE Next
    BY <1>1 DEF Next
  <1>2. CASE UNCHANGED vars
    BY <1>2 DEF vars, Changes!vars, Pins!vars, Passwords!vars, Scoring!vars, Moving!vars, Bells!vars,
                Calendar!vars, Rows!vars, Routing!vars, Pictures!vars, Seeding!vars
  <1> QED BY <1>1, <1>2

\* Tables with unique columns change in their own parts only.
LEMMA OtherTablesStay ==
    ASSUME [Next]_vars
    PROVE  /\ part # "changes" => UNCHANGED teacher
           /\ part \notin {"scores", "moves"} => UNCHANGED grade
           /\ part # "rows" => UNCHANGED row
  BY DEF Next, vars, changeTables, gradeTables

LEMMA OtherTablesEmpty ==
    ASSUME Init
    PROVE  /\ part # "changes" => teacher = Empty
           /\ part \notin {"scores", "moves"} => grade = Empty
           /\ part # "rows" => row = Empty
  BY DEF Init, NoChanges, NoGrades

-----------------------------------------------------------------------------
(* The inductive invariant: each part's.                                   *)

Inductive ==
    /\ part = "changes" => Changes!Inductive
    /\ part = "pins" => Pins!Inductive
    /\ part = "passwords" => Passwords!Inductive
    /\ part = "scores" => Scoring!Inductive /\ Scoring!OneGradeEach
    /\ part = "moves" => Moving!Inductive /\ Moving!OneGradeEach
    /\ part = "bells" => BellsInductive
    /\ part = "calendar" => CalendarInductive
    /\ part = "rows" => RowsInductive
    /\ part = "access" => RoutingInductive
    /\ part = "pictures" => PicturesInductive
    /\ part = "seed" => SeedingInductive

LEMMA InitInv == Init => Inductive
  <1> SUFFICES ASSUME Init PROVE Inductive
    OBVIOUS
  <1>1. CASE part = "changes" /\ Changes!Init
    BY <1>1, Changes!InitInv DEF Inductive
  <1>2. CASE part = "pins" /\ Pins!Init
    BY <1>2, Pins!InitInv DEF Inductive
  <1>3. CASE part = "passwords" /\ Passwords!Init
    BY <1>3, Passwords!InitInv DEF Inductive
  <1>4. CASE part = "scores" /\ Scoring!Init
    BY <1>4, Scoring!InitInv, Scoring!OneGradeInit DEF Inductive
  <1>5. CASE part = "moves" /\ Moving!Init
    BY <1>5, Moving!InitInv, Moving!OneGradeInit DEF Inductive
  <1>6. CASE part = "bells" /\ Bells!Init
    BY <1>6, BellsInitInv DEF Inductive
  <1>7. CASE part = "calendar" /\ Calendar!Init
    BY <1>7, CalendarInitInv DEF Inductive
  <1>8. CASE part = "rows" /\ Rows!Init
    BY <1>8, RowsInitInv DEF Inductive
  <1>9. CASE part = "access" /\ Routing!Init
    BY <1>9, RoutingInitInv DEF Inductive
  <1>10. CASE part = "pictures" /\ Pictures!Init
    BY <1>10, PicturesInitInv DEF Inductive
  <1>11. CASE part = "seed" /\ Seeding!Init
    BY <1>11, ScriptAssumption, SeedingInitInv DEF Inductive
  <1> QED BY <1>1, <1>2, <1>3, <1>4, <1>5, <1>6, <1>7, <1>8, <1>9, <1>10, <1>11 DEF Init

LEMMA StepInv == Inductive /\ [Next]_vars => Inductive'
  <1> SUFFICES ASSUME Inductive, [Next]_vars PROVE Inductive'
    OBVIOUS
  <1>0. part' = part
    BY PartSteps
  <1>1. part = "changes" => Changes!Inductive'
    BY PartSteps, BodiesAssumption, Changes!StepInv DEF Inductive
  <1>2. part = "pins" => Pins!Inductive'
    BY PartSteps, Pins!StepInv DEF Inductive
  <1>3. part = "passwords" => Passwords!Inductive'
    BY PartSteps, Passwords!StepInv DEF Inductive
  <1>4. part = "scores" => Scoring!Inductive' /\ Scoring!OneGradeEach'
    BY PartSteps, NumbersAssumption, Scoring!StepInv, Scoring!OneGradeStep DEF Inductive
  <1>5. part = "moves" => Moving!Inductive' /\ Moving!OneGradeEach'
    BY PartSteps, NumbersAssumption, Moving!StepInv, Moving!OneGradeStep DEF Inductive
  <1>6. part = "bells" => BellsInductive'
    BY PartSteps, NumbersAssumption, BellsStepInv DEF Inductive
  <1>7. part = "calendar" => CalendarInductive'
    BY PartSteps, NumbersAssumption, CalendarStepInv DEF Inductive
  <1>8. part = "rows" => RowsInductive'
    BY PartSteps, IdsAssumption, RowsStepInv DEF Inductive
  <1>9. part = "access" => RoutingInductive'
    BY PartSteps, RoutingStepInv DEF Inductive
  <1>10. part = "pictures" => PicturesInductive'
    BY PartSteps, PicturesStepInv DEF Inductive
  <1>11. part = "seed" => SeedingInductive'
    BY PartSteps, ScriptAssumption, SeedingStepInv DEF Inductive
  <1> QED BY <1>0, <1>1, <1>2, <1>3, <1>4, <1>5, <1>6, <1>7, <1>8, <1>9, <1>10, <1>11 DEF Inductive

\* Each part keeps its inductive invariant.
THEOREM InductiveInvariant == Spec => []Inductive
  BY InitInv, StepInv, PTL DEF Spec

\* Rows, histories and requests under way keep their types, in every table.
THEOREM TypeCorrect == Spec => []TypeOK
  <1>1. Inductive => TypeOK
    BY RoutingIsSound
       DEF Inductive, TypeOK, Changes!Inductive, Pins!Inductive, Passwords!Inductive, Scoring!Inductive,
           Moving!Inductive, BellsInductive, CalendarInductive, RowsInductive, PicturesInductive, SeedingInductive
  <1> QED BY <1>1, InductiveInvariant, PTL

\* One open change request a teacher; approved if and only if applied, but for
\* a cut or an overruling reject.
THEOREM ReviewsAlwaysSound == Spec => []ReviewsAreSound
  <1>1. Inductive => ReviewsAreSound
    BY DEF Inductive, ReviewsAreSound, Changes!Inductive
  <1> QED BY <1>1, InductiveInvariant, PTL

\* Accounts, records, PINs and what is handed out go together, for students
\* and for teachers.
THEOREM AccountsAlwaysSound == Spec => []AccountsAreSound
  <1>1. Inductive => AccountsAreSound
    BY DEF Inductive, AccountsAreSound, Pins!Inductive, Passwords!Inductive
  <1> QED BY <1>1, InductiveInvariant, PTL

\* Grades are within their maximum and of students of the class, but where an
\* assessment has been lowered or moved.
THEOREM GradesAlwaysJust == Spec => []GradesAreJust
  <1>1. Inductive => GradesAreJust
    BY DEF Inductive, GradesAreJust, Scoring!Inductive, Moving!Inductive
  <1> QED BY <1>1, InductiveInvariant, PTL

\* Lists, gets and gradebooks show a caller the same grades, assessments and
\* enrollments, whatever requests are under way.
THEOREM ViewsAlwaysAgree == Spec => []ViewsAgree
  <1>1. Scoring!Inductive /\ Scoring!OneGradeEach => Scoring!ViewsAgree
    BY Scoring!ListsAlwaysAgree, Scoring!GradebooksAgree DEF Scoring!Inductive, Scoring!ViewsAgree
  <1>2. Moving!Inductive /\ Moving!OneGradeEach => Moving!ViewsAgree
    BY Moving!ListsAlwaysAgree, Moving!GradebooksAgree DEF Moving!Inductive, Moving!ViewsAgree
  <1>3. Inductive => ViewsAgree
    BY <1>1, <1>2 DEF Inductive, ViewsAgree
  <1> QED BY <1>3, InductiveInvariant, PTL

\* No moment is in two periods, and a period that is scheduled stays: creates
\* and updates check before they commit, and the constraints decide.
THEOREM PeriodsAlwaysSound == Spec => []PeriodsAreSound
  <1>1. Inductive => PeriodsAreSound
    BY DEF Inductive, PeriodsAreSound, BellsInductive
  <1> QED BY <1>1, InductiveInvariant, PTL

\* Years and terms last at least a day, a term has its year and is within it,
\* unless the year has been shortened.
THEOREM CalendarAlwaysHolds == Spec => []CalendarHolds
  <1>1. Inductive => CalendarHolds
    BY DEF Inductive, CalendarHolds, CalendarInductive
  <1> QED BY <1>1, InductiveInvariant, PTL

\* A path reaches the route it was made for, and whoever is admitted has had
\* a role of the route's tier.
THEOREM AccessAlwaysHolds == Spec => []AccessHolds
  <1>1. Inductive => AccessHolds
    BY RoutingIsSound DEF Inductive, AccessHolds
  <1> QED BY <1>1, InductiveInvariant, PTL

\* A served picture is one upload's, and the file that a row names is there.
THEOREM PicturesAlwaysHold == Spec => []PicturesHold
  <1>1. Inductive => PicturesHold
    BY DEF Inductive, PicturesHold, PicturesInductive
  <1> QED BY <1>1, InductiveInvariant, PTL

\* One run of the script seeds the school and is refused nothing, however many
\* are started and wherever they die.
THEOREM SeedsAlwaysOnce == Spec => []SeedsOnce
  <1>1. Inductive => SeedsOnce
    BY ScriptAssumption, SeedingIsSound DEF Inductive, SeedsOnce
  <1> QED BY <1>1, InductiveInvariant, PTL

-----------------------------------------------------------------------------
(* Steps.                                                                  *)

\* A teacher's writes land in classes that teacher has had, but for those to an
\* assessment that was moved after the request read it.
THEOREM TeachersAlwaysAtHome == Spec => TeachersWriteAtHome
  <1>1. part = "scores" /\ Inductive /\ [Next]_vars => Scoring!TeachersWriteAtHome
    BY PartSteps, Scoring!StepAtHome DEF Inductive
  <1>2. part = "moves" /\ Inductive /\ [Next]_vars => Moving!TeachersWriteAtHome
    BY PartSteps, Moving!StepAtHome DEF Inductive
  <1> QED BY <1>1, <1>2, InductiveInvariant, PTL DEF Spec, TeachersWriteAtHome

\* The table refuses what the checks of periods let through only on account of
\* another period, of slots, or of an update in between.
THEOREM RefusalsAlwaysHaveCause == Spec => RefusalsHaveCause
  <1>1. part = "bells" /\ Inductive /\ [Next]_vars => Bells!RefusalsHaveCause
    BY PartSteps, NumbersAssumption, StepRefuses DEF Inductive
  <1> QED BY <1>1, InductiveInvariant, PTL DEF Spec, RefusalsHaveCause

\* References hold, and a delete takes away one row, or a year and its terms.
THEOREM CatalogueAlwaysHolds == Spec => CatalogueHolds
  <1>1. Inductive => (part = "rows" => Rows!ReferencesHold)
    BY DEF Inductive, RowsInductive
  <1>2. part = "rows" /\ Inductive /\ [Next]_vars => Rows!DeletesOnlyItsOwn
    BY PartSteps, IdsAssumption, StepDeletes DEF Inductive
  <1> QED BY <1>1, <1>2, InductiveInvariant, PTL DEF Spec, CatalogueHolds

\* E-mails, grades and the catalogue's unique columns implement KeyTable.
THEOREM UniqueKeysAlwaysHold == Spec => UniqueKeysHold
  <1>1. Init => Changes!EmailTable!Init
    BY OtherTablesEmpty, Changes!EmailsInit DEF Init, Empty, Changes!EmailTable!Init
  <1>2. Inductive /\ [Next]_vars => [Changes!EmailTable!Next]_Changes!emails
    <2>1. part = "changes" /\ Inductive /\ [Next]_vars => [Changes!EmailTable!Next]_Changes!emails
      BY PartSteps, Changes!EmailsStep DEF Inductive
    <2>2. UNCHANGED teacher => UNCHANGED Changes!emails
      BY DEF Changes!emails
    <2> QED BY <2>1, <2>2, OtherTablesStay
  <1>3. Init => Scoring!GradeTable!Init
    BY OtherTablesEmpty, Scoring!KeysInit, Moving!KeysInit
       DEF Init, Empty, Scoring!GradeTable!Init, Moving!GradeTable!Init
  <1>4. Inductive /\ [Next]_vars => [Scoring!GradeTable!Next]_Scoring!keys
    <2>1. part = "scores" /\ Inductive /\ [Next]_vars => [Scoring!GradeTable!Next]_Scoring!keys
      BY PartSteps, Scoring!KeysStep DEF Inductive
    <2>2. part = "moves" /\ Inductive /\ [Next]_vars => [Moving!GradeTable!Next]_Moving!keys
      BY PartSteps, Moving!KeysStep DEF Inductive
    <2>3. [Moving!GradeTable!Next]_Moving!keys => [Scoring!GradeTable!Next]_Scoring!keys
      BY DEF Moving!GradeTable!Next, Moving!GradeTable!Insert, Moving!GradeTable!Rekey,
             Moving!GradeTable!Remove,
             Moving!GradeTable!Keep, Moving!GradeTable!InUse, Scoring!GradeTable!Next, Scoring!GradeTable!Insert,
             Scoring!GradeTable!Rekey, Scoring!GradeTable!Remove, Scoring!GradeTable!Keep,
             Scoring!GradeTable!InUse, Moving!keys, Scoring!keys
    <2>4. UNCHANGED grade => UNCHANGED Scoring!keys
      BY DEF Scoring!keys
    <2> QED BY <2>1, <2>2, <2>3, <2>4, OtherTablesStay
  <1>5. Init => Rows!UniqueColumns!Init
    BY OtherTablesEmpty, KeysInit DEF Init, Empty, Rows!UniqueColumns!Init
  <1>6. Inductive /\ [Next]_vars => [Rows!UniqueColumns!Next]_keyed
    <2>1. part = "rows" /\ Inductive /\ [Next]_vars => [Rows!UniqueColumns!Next]_keyed
      BY PartSteps, IdsAssumption, KeysStep DEF Inductive
    <2>2. UNCHANGED row => UNCHANGED keyed
      BY DEF keyed
    <2> QED BY <2>1, <2>2, OtherTablesStay
  <1> QED BY <1>1, <1>2, <1>3, <1>4, <1>5, <1>6, InductiveInvariant, PTL
          DEF Spec, UniqueKeysHold, Changes!OneTeacherPerEmail, Changes!EmailTable!Spec, Changes!emails,
              Scoring!OneGradePerStudent, Scoring!GradeTable!Spec, Scoring!keys,
              Rows!KeysAreUnique, Rows!UniqueColumns!Spec, keyed
=============================================================================

-------------------------- MODULE AcademicCalendar --------------------------
(***************************************************************************)
(* The dates of academic years and of their terms: AcademicYearService and *)
(* TermService.  A term is validated against its year with plain reads and *)
(* written later; an update of a year never looks at its terms.  Names are *)
(* Catalogue's.  A refusal, like a crash, is Abort; a year or term that    *)
(* classes, sections or assignments refer to stays (RESTRICT).             *)
(***************************************************************************)
EXTENDS Naturals

CONSTANTS
    Years, Terms,   \* ids, never given twice
    Dates,          \* numbers
    Requests        \* HTTP requests that can be under way at once

VARIABLES
    year,           \* academic_years: the dates of each id there is
    term,           \* terms: year and dates of each id there is
    past,           \* given: ids used.  narrowed: years an update shortened
    work            \* what each request has read

vars == <<year, term, past, work>>

-----------------------------------------------------------------------------

\* Nothing but the constraint of the table says that they are in order.
Span == [start: Dates, end: Dates]
Term == [year: Years, start: Dates, end: Dates]

\* The dates an update sets, where they differ from the row it read.
Moves == [start: Dates] \cup [end: Dates] \cup Span

Idle == [pc |-> "idle"]
Work ==
    {Idle}
      \cup [pc: {"year_read"}, id: Years, set: Moves]
      \cup [pc: {"create_checked"}, row: Term]
      \cup [pc: {"term_read"}, id: Terms, set: Moves, year: Years, wanted: Span]
      \cup [pc: {"term_checked"}, id: Terms, set: Moves]

TypeOK ==
    /\ DOMAIN year \subseteq Years
    /\ \A y \in DOMAIN year : year[y] \in Span
    /\ DOMAIN term \subseteq Terms
    /\ \A m \in DOMAIN term : term[m] \in Term
    /\ past \in [given: SUBSET (Years \cup Terms), narrowed: SUBSET Years]
    /\ work \in [Requests -> Work]

Become(r, w) == work' = [work EXCEPT ![r] = w]
Insert(f, i, row) == [j \in DOMAIN f \cup {i} |-> IF j = i THEN row ELSE f[j]]
Write(row, set) == [f \in DOMAIN row |-> IF f \in DOMAIN set THEN set[f] ELSE row[f]]

\* ck_academic_years_dates and ck_terms_dates
Ordered(row) == row.start < row.end

\* _validate_within_year
Within(x, y) == year[y].start <= x.start /\ x.end <= year[y].end

-----------------------------------------------------------------------------

CreateYear(y, row) ==
    /\ y \in Years \ past.given
    /\ Ordered(row)
    /\ year' = Insert(year, y, row)
    /\ past' = [past EXCEPT !.given = @ \cup {y}]
    /\ UNCHANGED <<term, work>>

YearRead(r, y, set) ==
    /\ work[r] = Idle
    /\ y \in DOMAIN year
    /\ \A f \in DOMAIN set : set[f] # year[y][f]
    /\ Become(r, [pc |-> "year_read", id |-> y, set |-> set])
    /\ UNCHANGED <<year, term, past>>

YearCommit(r) ==
    LET w == work[r]
        old == year[w.id]
        new == Write(old, w.set)
    IN  /\ w.pc = "year_read"
        /\ w.id \in DOMAIN year
        /\ Ordered(new)
        /\ year' = [year EXCEPT ![w.id] = new]
        /\ past' = [past EXCEPT !.narrowed =
                        IF old.start < new.start \/ new.end < old.end THEN @ \cup {w.id} ELSE @]
        /\ Become(r, Idle)
        /\ UNCHANGED term

\* ON DELETE CASCADE
DeleteYear(y) ==
    /\ y \in DOMAIN year
    /\ year' = [z \in DOMAIN year \ {y} |-> year[z]]
    /\ term' = [m \in {n \in DOMAIN term : term[n].year # y} |-> term[m]]
    /\ UNCHANGED <<past, work>>

-----------------------------------------------------------------------------

CreateTermCheck(r, row) ==
    /\ work[r] = Idle
    /\ row.year \in DOMAIN year
    /\ Within(row, row.year)
    /\ Become(r, [pc |-> "create_checked", row |-> row])
    /\ UNCHANGED <<year, term, past>>

\* The foreign key and the constraint on the dates.
CreateTerm(r, m) ==
    LET row == work[r].row
    IN  /\ work[r].pc = "create_checked"
        /\ m \in Terms \ past.given
        /\ row.year \in DOMAIN year
        /\ Ordered(row)
        /\ term' = Insert(term, m, row)
        /\ past' = [past EXCEPT !.given = @ \cup {m}]
        /\ Become(r, Idle)
        /\ UNCHANGED year

\* What an update sets, completed by the row as it was read.
TermRead(r, m, set) ==
    /\ work[r] = Idle
    /\ m \in DOMAIN term
    /\ \A f \in DOMAIN set : set[f] # term[m][f]
    /\ LET new == Write(term[m], set)
       IN  Become(r, [pc |-> "term_read", id |-> m, set |-> set, year |-> new.year,
                      wanted |-> [start |-> new.start, end |-> new.end]])
    /\ UNCHANGED <<year, term, past>>

\* Mutant: the end is not looked at.
TermCheckStart(r) ==
    LET w == work[r]
    IN  /\ w.pc = "term_read"
        /\ w.year \in DOMAIN year
        /\ year[w.year].start <= w.wanted.start
        /\ Become(r, [pc |-> "term_checked", id |-> w.id, set |-> w.set])
        /\ UNCHANGED <<year, term, past>>

TermCheck(r) ==
    LET w == work[r]
    IN  /\ w.pc = "term_read"
        /\ w.year \in DOMAIN year
        /\ Within(w.wanted, w.year)
        /\ Become(r, [pc |-> "term_checked", id |-> w.id, set |-> w.set])
        /\ UNCHANGED <<year, term, past>>

TermCommit(r) ==
    LET w == work[r]
    IN  /\ w.pc = "term_checked"
        /\ w.id \in DOMAIN term
        /\ Ordered(Write(term[w.id], w.set))
        /\ term' = [term EXCEPT ![w.id] = Write(@, w.set)]
        /\ Become(r, Idle)
        /\ UNCHANGED <<year, past>>

DeleteTerm(m) ==
    /\ m \in DOMAIN term
    /\ term' = [n \in DOMAIN term \ {m} |-> term[n]]
    /\ UNCHANGED <<year, past, work>>

-----------------------------------------------------------------------------

Abort(r) == work[r] # Idle /\ Become(r, Idle) /\ UNCHANGED <<year, term, past>>

Init ==
    /\ year = [y \in {} |-> y]
    /\ term = [m \in {} |-> m]
    /\ past = [given |-> {}, narrowed |-> {}]
    /\ work = [r \in Requests |-> Idle]

Next ==
    \/ \E y \in Years :
          \/ \E row \in Span : CreateYear(y, row)
          \/ \E r \in Requests, set \in Moves : YearRead(r, y, set)
          \/ DeleteYear(y)
    \/ \E r \in Requests :
          \/ YearCommit(r) \/ TermCheck(r) \/ TermCommit(r) \/ Abort(r)
          \/ \E row \in Term : CreateTermCheck(r, row)
          \/ \E m \in Terms : CreateTerm(r, m) \/ \E set \in Moves : TermRead(r, m, set)
    \/ \E m \in Terms : DeleteTerm(m)

Spec == Init /\ [][Next]_vars

-----------------------------------------------------------------------------
(* What must hold.                                                         *)

\* Each date of a term is within its year, whichever of two partial updates
\* came second, unless an update shortened the year: TermService checks when
\* it reads, and AcademicYearService never looks back.
TermsWithinYear ==
    \A m \in DOMAIN term : term[m].year \in DOMAIN year \ past.narrowed => Within(term[m], term[m].year)

\* Terms and years last at least a day and a term has its year: two partial
\* updates whose ends cross and a year deleted under a create are stopped
\* by the table's constraints alone.
CalendarIsSound ==
    /\ \A y \in DOMAIN year : Ordered(year[y])
    /\ \A m \in DOMAIN term : Ordered(term[m]) /\ term[m].year \in DOMAIN year

\* What the rest of the system takes for granted of dates.
CalendarHolds == TermsWithinYear /\ CalendarIsSound
=============================================================================

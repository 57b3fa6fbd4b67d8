--------------------------- MODULE RosterPromise ---------------------------
(***************************************************************************)
(* What sections, classes and enrollments promise a caller: every request  *)
(* takes effect in one step, as if it ran alone.  No locks, no requests    *)
(* under way.  Roster implements it.                                       *)
(***************************************************************************)
EXTENDS Naturals, FiniteSets

CONSTANTS Students, Sections, Classes, Terms, SectionYear, TermYear, None

VARIABLES sectionCap, classCap, classTerm, classSection, assigned, enrollment

vars == <<sectionCap, classCap, classTerm, classSection, assigned, enrollment>>

RosterOf(x) == {s \in Students : <<s, x>> \in assigned}
Attached(x) == {c \in Classes : classSection[c] = x}
ActiveIn(c) == {s \in Students : enrollment[<<s, c>>] = "active"}

\* Gives every pair of ps that has no enrollment row an active one; the rows
\* that exist stay as they are.
EnrollMissing(ps) ==
    enrollment' = [p \in Students \X Classes |->
        IF p \in ps /\ enrollment[p] = "none" THEN "active" ELSE enrollment[p]]

\* A student without a section this year takes a free seat, and gets a row in
\* every class of the section.  The fan-out may reach a class that has left
\* the section while the request ran.
Assign(s, x) ==
    /\ \A z \in Sections : <<s, z>> \in assigned => SectionYear[z] # SectionYear[x]
    /\ Cardinality(RosterOf(x)) < sectionCap[x]
    /\ assigned' = assigned \cup {<<s, x>>}
    /\ \E left \in SUBSET (Classes \ Attached(x)) :
          EnrollMissing({s} \X (Attached(x) \cup left))
    /\ UNCHANGED <<sectionCap, classCap, classTerm, classSection>>

Unassign(s, x) ==
    /\ <<s, x>> \in assigned
    /\ assigned' = assigned \ {<<s, x>>}
    /\ UNCHANGED <<sectionCap, classCap, classTerm, classSection, enrollment>>

\* A class without a section, taught in the section's year, becomes a class
\* of x.  Everyone on the roster gets a row, and perhaps a student who left
\* the roster while the request ran.
Attach(c, x) ==
    /\ classSection[c] \in {None, x}
    /\ TermYear[classTerm[c]] = SectionYear[x]
    /\ classSection' = [classSection EXCEPT ![c] = x]
    /\ \E gone \in SUBSET (Students \ RosterOf(x)) :
          EnrollMissing((RosterOf(x) \cup gone) \X {c})
    /\ UNCHANGED <<sectionCap, classCap, classTerm, assigned>>

Detach(c) ==
    /\ classSection[c] # None
    /\ classSection' = [classSection EXCEPT ![c] = None]
    /\ UNCHANGED <<sectionCap, classCap, classTerm, assigned, enrollment>>

\* A student who never had a row in the class takes a free place.
Enroll(s, c) ==
    /\ enrollment[<<s, c>>] = "none"
    /\ Cardinality(ActiveIn(c)) < classCap[c]
    /\ enrollment' = [enrollment EXCEPT ![<<s, c>>] = "active"]
    /\ UNCHANGED <<sectionCap, classCap, classTerm, classSection, assigned>>

Drop(s, c) ==
    /\ enrollment[<<s, c>>] = "active"
    /\ enrollment' = [enrollment EXCEPT ![<<s, c>>] = "dropped"]
    /\ UNCHANGED <<sectionCap, classCap, classTerm, classSection, assigned>>

\* The capacities and the term are free columns: a PATCH changes one of them
\* in one row, whatever the other tables hold.
Patch ==
    /\ \/ /\ \E x \in Sections : sectionCap' = [sectionCap EXCEPT ![x] = sectionCap'[x]]
          /\ UNCHANGED <<classCap, classTerm>>
       \/ /\ \E c \in Classes : classCap' = [classCap EXCEPT ![c] = classCap'[c]]
          /\ UNCHANGED <<sectionCap, classTerm>>
       \/ /\ \E c \in Classes, t \in Terms : classTerm' = [classTerm EXCEPT ![c] = t]
          /\ UNCHANGED <<sectionCap, classCap>>
    /\ UNCHANGED <<classSection, assigned, enrollment>>

Init ==
    /\ classSection = [c \in Classes |-> None]
    /\ assigned = {}
    /\ enrollment = [p \in Students \X Classes |-> "none"]

Next ==
    \/ \E s \in Students, x \in Sections : Assign(s, x) \/ Unassign(s, x)
    \/ \E c \in Classes, x \in Sections : Attach(c, x)
    \/ \E c \in Classes : Detach(c)
    \/ \E s \in Students, c \in Classes : Enroll(s, c) \/ Drop(s, c)
    \/ Patch

Spec == Init /\ [][Next]_vars
=============================================================================

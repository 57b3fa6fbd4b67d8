------------------------------ MODULE MCRecords ------------------------------
(***************************************************************************)
(* A small instance of every part of Records.  Parts share model values    *)
(* where that keeps the symmetries few: c1 is a change request here and a  *)
(* section there.                                                          *)
(***************************************************************************)
EXTENDS Records, TLC

CONSTANTS s1, t1, t2, a1, a2, e1, e2, e3, n1, n2, c1, c2, k1, q1, y1, m1, m2, b1, r1, r2

TeachersOf ==
    [changes |-> {t1, t2}, passwords |-> {t1}, scores |-> {t1}, moves |-> {t1, t2}, rows |-> {t1, t2}]
StudentsOf == [pins |-> {s1}, grades |-> {s1}]
EmailsOf == [changes |-> {e1, e2, e3}, accounts |-> {e1, e2}]
NamesOf == [changes |-> {n1}, bells |-> {a1, a2}]
OneEmail == {[email |-> e3]}
\* Two grades of one class, or an assessment that changes classes.
ClassesOf == [scores |-> {k1}, moves |-> {c1, c2}, rows |-> {k1}]
ScoresOf == [scores |-> {1, 2}, moves |-> {1}]
TermsOf == [calendar |-> {m1}, rows |-> {m1, m2}]
Moments == 1..3

\* What Catalogue is checked with: a row of each table that a class needs and
\* a second teacher; a section and its homeroom teacher; two sections of a
\* level; two terms; two levels.
Shares == {{y1, m1, b1, k1, t1, t2}, {y1, a1, c1, t1}, {y1, a1, c1, c2}, {y1, m1, m2, b1}, {a1, a2, b1}}

\* The ids of the other rows have been used before.
MCInit == Init /\ (part = "rows" => Rows!Ids \ past \in Shares)

MCSpec == MCInit /\ [][Next]_vars

Interchangeable ==
    Permutations({r1, r2}) \cup Permutations({a1, a2}) \cup Permutations({t1, t2})
      \cup Permutations({c1, c2}) \cup Permutations({e1, e2})
=============================================================================

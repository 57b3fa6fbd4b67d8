------------------------------ MODULE MCRoster ------------------------------
(* Small instances of Roster for TLC.                                      *)
EXTENDS RosterInvariant, TLC

CONSTANTS y1, y2

\* Every section lies in the first year.
OneYear == [x \in Sections |-> y1]

\* Each section in a year of its own.
YearEach == CHOOSE f \in [Sections -> Years] : \A a, b \in Sections : f[a] = f[b] => a = b

\* Each term in a year of its own.
TermEach == CHOOSE f \in [Terms -> Years] : \A a, b \in Terms : f[a] = f[b] => a = b

\* Every term in the first year.
OneTermYear == [t \in Terms |-> y1]

\* Students and requests are interchangeable: no definition tells them apart.
Interchangeable == Permutations(Students) \cup Permutations(Requests)
=============================================================================

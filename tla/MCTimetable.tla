----------------------------- MODULE MCTimetable -----------------------------
(* Small instances of Timetable for TLC.                                   *)
EXTENDS Timetable, TLC

\* No definition tells two values of a kind apart.
Interchangeable ==
    Permutations(Classes) \cup Permutations(Days) \cup Permutations(Periods)
      \cup Permutations(Teachers) \cup Permutations(Requests)
=============================================================================

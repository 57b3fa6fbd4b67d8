------------------------------- MODULE SeedDemo -------------------------------
(***************************************************************************)
(* scripts/seed_demo_data.py: a fixed list of service calls, each of which *)
(* commits by itself, run on a database that nobody else uses; by several  *)
(* runs of the script, each of which may die between two calls.            *)
(*                                                                         *)
(* The database is the set of rows as the services' rules see them.  Names *)
(* are numbers; dates, which fit, are left out.                            *)
(***************************************************************************)
EXTENDS Naturals, Sequences, FiniteSets

CONSTANTS
    Subjects,   \* subjects, teachers and periods: four of each
    Sections,   \* two, with a grade level, a room and a class of each subject
    Students,   \* six, in turn to each section
    Capacity,   \* of sections and classes
    MaxScore,   \* of the quizzes
    Runs        \* executions of the script

VARIABLES
    db,         \* the rows there are
    wrote,      \* which runs have written
    run         \* the next call of each run that has started

vars == <<db, wrote, run>>

-----------------------------------------------------------------------------
(* The script.                                                             *)

Call(op, args) == [op |-> op, args |-> args]

\* Subject and teacher of a section's class in a period: a Latin square.
SubjectAt(j, p) == ((p + j - 2) % Subjects) + 1

SectionOf(s) == ((s - 1) % Sections) + 1

\* The calls for(1) \o for(2) \o ... \o for(n), k of each.
Each(n, k, calls(_)) == [i \in 1..(n * k) |-> calls(((i - 1) \div k) + 1)[((i - 1) % k) + 1]]

People == Each(Subjects, 2, LAMBDA t : <<Call("teacher", <<t>>), Call("password", <<t>>)>>)

Structure == Each(Sections, 2, LAMBDA j : <<Call("level", <<j>>), Call("section", <<j>>)>>)

Lessons ==
    Each(Sections * Subjects, 3, LAMBDA n :
        LET j == ((n - 1) \div Subjects) + 1
            p == ((n - 1) % Subjects) + 1
        IN  <<Call("class", <<j, p>>), Call("attach", <<j, p>>), Call("slot", <<j, p>>)>>)

Roster ==
    Each(Students, 3, LAMBDA s :
        <<Call("student", <<s>>), Call("pin", <<s>>), Call("assign", <<s, SectionOf(s)>>)>>)

\* All but the last of a section's students, in order.
Graded(j) ==
    LET members == SelectSeq([i \in 1..Students |-> i], LAMBDA s : SectionOf(s) = j)
    IN  IF members = <<>> THEN <<>> ELSE SubSeq(members, 1, Len(members) - 1)

Quiz(j) ==
    <<Call("assessment", <<j>>)>>
      \o [i \in DOMAIN Graded(j) |-> Call("grade", <<j, Graded(j)[i], 12 + 3 * (i - 1)>>)]

Quizzes[j \in 0..Sections] == IF j = 0 THEN <<>> ELSE Quizzes[j - 1] \o Quiz(j)

Script ==
    <<Call("admin", <<>>), Call("year", <<>>), Call("term", <<>>)>>
      \o Each(Subjects, 1, LAMBDA n : <<Call("subject", <<n>>)>>)
      \o People
      \o Each(Subjects, 1, LAMBDA p : <<Call("period", <<p>>)>>)
      \o Structure \o Lessons \o Roster \o Quizzes[Sections]

-----------------------------------------------------------------------------
(* What a call asks of the rows there are, and what it writes.             *)

Row(op, args) == <<op, args>>
Has(rows, op, args) == Row(op, args) \in rows

\* The rules of ScheduleSlotService: the teacher, the room and the section
\* are free in the period.
Clash(rows, j, p) ==
    \E k \in 1..Sections :
        Has(rows, "slot", <<k, p>>) /\ (SubjectAt(k, p) = SubjectAt(j, p) \/ k = j)

Assigned(rows, j) == {s \in 1..Students : Has(rows, "assign", <<s, j>>)}

\* Mutant: nobody looks for the key.
FreeAlways(rows, op, a) == TRUE

\* No row has the key of the row a call inserts.
Free(rows, op, a) == ~Has(rows, op, a)

\* What the service lets pass.  A key that is there is refused (classes have
\* none); parents come earlier in the script, and are looked for.
Allowed(rows, op, a) ==
    CASE op = "term"       -> Has(rows, "year", <<>>) /\ Free(rows, op, a)
      [] op = "password"   -> Has(rows, "teacher", a) /\ Free(rows, op, a)
      [] op = "section"    -> Has(rows, "level", a) /\ Has(rows, "year", <<>>) /\ Free(rows, op, a)
      [] op = "class"      -> /\ Has(rows, "subject", <<SubjectAt(a[1], a[2])>>)
                              /\ Has(rows, "term", <<>>)
                              /\ Has(rows, "teacher", <<SubjectAt(a[1], a[2])>>)
      [] op = "attach"     -> Has(rows, "class", a) /\ Has(rows, "section", <<a[1]>>)
      [] op = "slot"       -> /\ Has(rows, "class", a) /\ Has(rows, "period", <<a[2]>>)
                              /\ ~Clash(rows, a[1], a[2])
      [] op = "pin"        -> Has(rows, "student", a)
      [] op = "assign"     -> /\ Has(rows, "student", <<a[1]>>) /\ Has(rows, "section", <<a[2]>>)
                              /\ \A j \in 1..Sections : ~Has(rows, "assign", <<a[1], j>>)
                              /\ Cardinality(Assigned(rows, a[2])) < Capacity
      [] op = "assessment" -> Has(rows, "class", <<a[1], 1>>)
      [] op = "grade"      -> /\ Has(rows, "assessment", <<a[1]>>)
                              /\ Has(rows, "enrolled", <<a[2], a[1], 1>>)
                              /\ ~Has(rows, "graded", <<a[1], a[2]>>)
                              /\ a[3] <= MaxScore
      [] OTHER             -> Free(rows, op, a)

\* assign enrolls into the classes attached to the section; a class attached
\* later enrolls the section's students.
Written(rows, op, a) ==
    CASE op = "assign" -> {Row(op, a)} \cup
             {Row("enrolled", <<a[1], a[2], p>>) : p \in {q \in 1..Subjects : Has(rows, "attach", <<a[2], q>>)}}
      [] op = "attach" -> {Row(op, a)} \cup {Row("enrolled", <<s, a[1], a[2]>>) : s \in Assigned(rows, a[1])}
      [] op = "grade"  -> {Row("graded", <<a[1], a[2]>>)}
      [] OTHER         -> {Row(op, a)}

\* The rows after the first n calls.
After[n \in 0..Len(Script)] ==
    IF n = 0
      THEN {}
      ELSE LET rows == After[n - 1] IN rows \cup Written(rows, Script[n].op, Script[n].args)

\* The script has nothing to be refused where it runs alone, and starts with
\* the admin.
RunsAlone ==
    /\ Len(Script) \in Nat \ {0}
    /\ DOMAIN Script = 1..Len(Script)
    /\ Script[1] = Call("admin", <<>>)
    /\ After[0] = {}
    /\ \A n \in 1..Len(Script) :
          /\ Allowed(After[n - 1], Script[n].op, Script[n].args)
          /\ After[n] = After[n - 1] \cup Written(After[n - 1], Script[n].op, Script[n].args)

-----------------------------------------------------------------------------

\* 0: not started.  Refuses where there are grade levels.
Start(x) ==
    /\ run[x] = 0
    /\ \A j \in 1..Sections : ~Has(db, "level", <<j>>)
    /\ run' = [run EXCEPT ![x] = 1]
    /\ UNCHANGED <<db, wrote>>

\* The next call; a call that is refused ends the run with a traceback.
Step(x) ==
    /\ run[x] \in DOMAIN Script
    /\ LET call == Script[run[x]]
       IN  IF Allowed(db, call.op, call.args)
             THEN /\ db' = db \cup Written(db, call.op, call.args)
                  /\ wrote' = wrote \cup {x}
                  /\ run' = [run EXCEPT ![x] = @ + 1]
             ELSE /\ run' = [run EXCEPT ![x] = Len(Script) + 3]
                  /\ UNCHANGED <<db, wrote>>

Done(x) == run[x] = Len(Script) + 1
Died(x) == run[x] = Len(Script) + 2
Refused(x) == run[x] = Len(Script) + 3

Die(x) ==
    /\ run[x] \in DOMAIN Script
    /\ run' = [run EXCEPT ![x] = Len(Script) + 2]
    /\ UNCHANGED <<db, wrote>>

Init == db = {} /\ wrote = {} /\ run = [x \in Runs |-> 0]

Next == \E x \in Runs : Start(x) \/ Step(x) \/ Die(x)

Spec == Init /\ [][Next]_vars

-----------------------------------------------------------------------------
(* What must hold.                                                         *)

TypeOK ==
    /\ \A x \in db : Len(x) = 2
    /\ wrote \subseteq Runs
    /\ run \in [Runs -> 0..(Len(Script) + 3)]

\* The script never tops up a school: whatever has died or runs at once, the
\* rows are one run's, up to the call it got to.  The look for grade levels
\* comes 19 calls before the first one is made; until then it is the admin's
\* e-mail that keeps a second run out.
OneRunSeeds ==
    /\ \A x, y \in wrote : x = y
    /\ \A x \in wrote : \A n \in DOMAIN Script :
          Script[n].op # "grade" => (Row(Script[n].op, Script[n].args) \in db
                \/ ~(n < run[x] /\ run[x] <= Len(Script) + 1))

\* "A seed that runs clean is also evidence the domains compose": no call of
\* the run that seeds is refused, by the timetable (the Latin square), by a
\* full section, or for want of an enrollment that assign should have made.
RunsClean == \A x \in wrote : ~Refused(x)

\* One run seeds the school, and nothing it does is refused.
SeedsOnce == OneRunSeeds /\ RunsClean
=============================================================================

------------------------------ MODULE KeyTable ------------------------------
(***************************************************************************)
(* What docs/adr/0004 promises of every table with unique columns: rows    *)
(* come, go and change their keys, one row at a time but for deletions     *)
(* that cascade, and a key belongs to one row.  The services look first    *)
(* and write later; the modules that model them instantiate this one WITH  *)
(* their table's keys for `key'.                                           *)
(***************************************************************************)
CONSTANTS Rows, Keys

VARIABLE key    \* the keys of each row there is: a value of each unique column

InUse(S) == UNION {key[i] : i \in S}

Init ==
    /\ DOMAIN key \subseteq Rows
    /\ \A i \in DOMAIN key : key[i] \subseteq Keys
    /\ \A i, j \in DOMAIN key : i # j => key[i] \cap key[j] = {}

\* The rows of S stay as they are.
Keep(S) == \A j \in S : key'[j] = key[j]

Insert(i) ==
    /\ i \notin DOMAIN key
    /\ DOMAIN key' = DOMAIN key \cup {i}
    /\ key'[i] \subseteq Keys \ InUse(DOMAIN key)
    /\ Keep(DOMAIN key)

Rekey(i) ==
    /\ i \in DOMAIN key
    /\ DOMAIN key' = DOMAIN key
    /\ key'[i] \subseteq Keys \ InUse(DOMAIN key \ {i})
    /\ Keep(DOMAIN key \ {i})

Remove ==
    /\ DOMAIN key' \subseteq DOMAIN key
    /\ Keep(DOMAIN key')

Next == Remove \/ \E i \in Rows : Insert(i) \/ Rekey(i)

Spec == Init /\ [][Next]_key
=============================================================================

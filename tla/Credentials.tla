---------------------------- MODULE Credentials ----------------------------
(***************************************************************************)
(* Students and teachers and the accounts they log in with: create, update *)
(* and delete of both services, StudentService.generate_pin,               *)
(* TeacherService.generate_credentials, and the account changes of         *)
(* UserService that meet them.                                             *)
(*                                                                         *)
(* generate_pin commits twice when the student has no account: the account *)
(* and the link, then the PIN.  A refusal, like a crash, is Abort.         *)
(***************************************************************************)
CONSTANTS
    Students, Teachers, \* ids of records, never given twice
    Accounts,           \* ids of users
    Emails,
    Requests            \* HTTP requests that can be under way at once

VARIABLES
    person,     \* students and teachers: the row of each id there is
    account,    \* users: the row of each id there is
    answer,     \* the last credentials handed out for each record
    past,       \* history, below
    work        \* what each request has read

vars == <<person, account, answer, past, work>>

-----------------------------------------------------------------------------

People == Students \cup Teachers
Roles  == {"student", "teacher"}
Role(p) == IF p \in Students THEN "student" ELSE "teacher"
SameTable(p) == IF p \in Students THEN Students ELSE Teachers

\* user_id and pin_hash are nullable: no account, no PIN.
Person  == [email: Emails, user: {{}} \cup {{a} : a \in Accounts}, pin: BOOLEAN]
Account == [email: Emails, role: Roles]

\* given: ids used.  renamed: records whose e-mail was changed.  byhand:
\* records whose user_id a PATCH or a create set.  cut: students whose
\* generate_pin ended between its commits.  reroled: accounts that changed
\* role.  issued: which record an account was made for.
Past == [given: SUBSET People, renamed: SUBSET People, byhand: SUBSET People, cut: SUBSET People,
         reroled: SUBSET Accounts, issued: SUBSET (Accounts \X People)]

\* What a create or an update sets: the columns that differ from the row it
\* read, which are all an UPDATE writes.
Fields == [email: Emails, user: {{}} \cup {{a} : a \in Accounts}]
Set == Fields \cup [email: Emails] \cup [user: {{}} \cup {{a} : a \in Accounts}]

Idle == [pc |-> "idle"]
Work ==
    {Idle}
      \cup [pc: {"create_checked", "update_checked"}, person: People, set: Set]
      \cup [pc: {"gen_read", "gen_checked", "linked", "role_read"}, person: People, loaded: Fields]

TypeOK ==
    /\ DOMAIN person \subseteq People
    /\ \A p \in DOMAIN person : person[p] \in Person
    /\ DOMAIN account \subseteq Accounts
    /\ \A a \in DOMAIN account : account[a] \in Account
    /\ \A p \in DOMAIN person : person[p].user \subseteq DOMAIN account
    /\ answer \in [People -> SUBSET [email: Emails, account: Accounts]]
    /\ past \in Past
    /\ work \in [Requests -> Work]

Become(r, w) == work' = [work EXCEPT ![r] = w]
Put(p, row) == person' = [q \in DOMAIN person \cup {p} |-> IF q = p THEN row ELSE person[q]]
PutAccount(a, row) == account' = [b \in DOMAIN account \cup {a} |-> IF b = a THEN row ELSE account[b]]

Written(p, set) == [f \in {"email", "user"} |-> IF f \in DOMAIN set THEN set[f] ELSE person[p][f]]

\* Another row of p's table has the e-mail, or the account.
Clashes(p, row) ==
    \E q \in (DOMAIN person \cap SameTable(p)) \ {p} :
        person[q].email = row.email \/ person[q].user \cap row.user # {}

EmailTaken(e) == \E a \in DOMAIN account : account[a].email = e

-----------------------------------------------------------------------------
(* create and update of both services                                      *)

\* _check_unique_fields, and the account to link exists and has the role
\* (_require_student_role_user, _require_teacher_role_user).
Check(p, row) ==
    /\ ~Clashes(p, row)
    /\ row.user \subseteq DOMAIN account
    /\ \A a \in row.user : account[a].role = Role(p) \/ (p \in DOMAIN person /\ person[p].user = {a})

CreateCheck(r, p, row) ==
    /\ work[r] = Idle
    /\ p \notin past.given
    /\ Check(p, row)
    /\ Become(r, [pc |-> "create_checked", person |-> p, set |-> row])
    /\ UNCHANGED <<person, account, answer, past>>

UpdateCheck(r, p, set) ==
    /\ work[r] = Idle
    /\ p \in DOMAIN person
    /\ \A f \in DOMAIN set : set[f] # person[p][f]
    /\ Check(p, Written(p, set))
    /\ Become(r, [pc |-> "update_checked", person |-> p, set |-> set])
    /\ UNCHANGED <<person, account, answer, past>>

\* The INSERT or UPDATE, under the unique constraints of the table.
CreateCommit(r) ==
    LET p == work[r].person
        row == work[r].set
    IN  /\ work[r].pc = "create_checked"
        /\ p \notin past.given
        /\ ~Clashes(p, row)
        /\ Put(p, [email |-> row.email, user |-> row.user, pin |-> FALSE])
        /\ past' = [past EXCEPT !.given = @ \cup {p}, !.byhand = IF row.user # {} THEN @ \cup {p} ELSE @]
        /\ Become(r, Idle)
        /\ UNCHANGED <<account, answer>>

UpdateCommit(r) ==
    LET p == work[r].person
        set == work[r].set
    IN  /\ work[r].pc = "update_checked"
        /\ p \in DOMAIN person
        /\ ~Clashes(p, Written(p, set))
        /\ Put(p, [f \in DOMAIN person[p] |-> IF f \in DOMAIN set THEN set[f] ELSE person[p][f]])
        /\ past' = [past EXCEPT !.renamed = IF "email" \in DOMAIN set THEN @ \cup {p} ELSE @,
                                !.byhand = IF "user" \in DOMAIN set THEN @ \cup {p} ELSE @]
        /\ Become(r, Idle)
        /\ UNCHANGED <<account, answer>>

\* A record that other rows refer to stays.
Delete(p) ==
    /\ p \in DOMAIN person
    /\ person' = [q \in DOMAIN person \ {p} |-> person[q]]
    /\ UNCHANGED <<account, answer, past, work>>

-----------------------------------------------------------------------------
(* generate_pin and generate_credentials                                   *)

GenerateRead(r, p) ==
    /\ work[r] = Idle
    /\ p \in DOMAIN person
    /\ Become(r, [pc |-> "gen_read", person |-> p, loaded |-> Written(p, [f \in {} |-> f])])
    /\ UNCHANGED <<person, account, answer, past>>

\* Without an account, its e-mail must be free.
GenerateCheck(r) ==
    /\ work[r].pc = "gen_read"
    /\ work[r].loaded.user = {}
    /\ ~EmailTaken(work[r].loaded.email)
    /\ Become(r, [work[r] EXCEPT !.pc = "gen_checked"])
    /\ UNCHANGED <<person, account, answer, past>>

\* Mutant: the account is committed before the record is linked to it.
GenerateUnlinked(r, a) ==
    LET w == work[r]
    IN  /\ w.pc = "gen_checked"
        /\ a \in Accounts \ DOMAIN account
        /\ ~EmailTaken(w.loaded.email)
        /\ PutAccount(a, [email |-> w.loaded.email, role |-> Role(w.person)])
        /\ past' = [past EXCEPT !.issued = @ \cup {<<a, w.person>>}]
        /\ Become(r, [w EXCEPT !.pc = "gen_read", !.loaded.user = {a}])
        /\ UNCHANGED <<person, answer>>

\* The account and the link, in one transaction.  The unit of work writes
\* user_id over whatever the row holds by now, and the record is refreshed:
\* a teacher is handed the e-mail the row has, and the account the one read.
GenerateAccount(r, a) ==
    LET w == work[r]
        p == w.person
    IN  /\ w.pc = "gen_checked"
        /\ p \in DOMAIN person
        /\ a \in Accounts \ DOMAIN account
        /\ ~EmailTaken(w.loaded.email)
        /\ PutAccount(a, [email |-> w.loaded.email, role |-> Role(p)])
        /\ Put(p, [person[p] EXCEPT !.user = {a}])
        /\ past' = [past EXCEPT !.issued = @ \cup {<<a, p>>}]
        /\ IF p \in Students
             THEN Become(r, [w EXCEPT !.pc = "linked"]) /\ UNCHANGED answer
             ELSE /\ Become(r, Idle)
                  /\ answer' = [answer EXCEPT ![p] = {[email |-> person[p].email, account |-> a]}]

\* The PIN, of an account just linked or linked before: nobody looks at the
\* account's role.
GeneratePin(r) ==
    LET w == work[r]
    IN  /\ w.pc = "linked" \/ (w.pc = "gen_read" /\ w.loaded.user # {})
        /\ w.person \in Students \cap DOMAIN person
        /\ Put(w.person, [person[w.person] EXCEPT !.pin = TRUE])
        /\ Become(r, Idle)
        /\ UNCHANGED <<account, answer, past>>

\* A teacher's reset reads the linked account ...
ResetRead(r) ==
    LET w == work[r]
    IN  /\ w.pc = "gen_read"
        /\ w.person \in Teachers
        /\ \E a \in w.loaded.user : account[a].role = "teacher"
        /\ Become(r, [w EXCEPT !.pc = "role_read"])
        /\ UNCHANGED <<person, account, answer, past>>

\* ... and gives its new password out under the teacher's e-mail as read.
ResetCommit(r) ==
    LET w == work[r]
    IN  /\ w.pc = "role_read"
        /\ \E a \in w.loaded.user :
              answer' = [answer EXCEPT ![w.person] = {[email |-> w.loaded.email, account |-> a]}]
        /\ Become(r, Idle)
        /\ UNCHANGED <<person, account, past>>

-----------------------------------------------------------------------------
(* UserService: e-mails are unique and stay, accounts are never deleted.   *)

CreateAccount(a, e, role) ==
    /\ a \in Accounts \ DOMAIN account
    /\ ~EmailTaken(e)
    /\ PutAccount(a, [email |-> e, role |-> role])
    /\ UNCHANGED <<person, answer, past, work>>

SetRole(a, role) ==
    /\ a \in DOMAIN account
    /\ account[a].role # role
    /\ account' = [account EXCEPT ![a].role = role]
    /\ past' = [past EXCEPT !.reroled = @ \cup {a}]
    /\ UNCHANGED <<person, answer, work>>

Abort(r) ==
    /\ work[r] # Idle
    /\ past' = [past EXCEPT !.cut = IF work[r].pc = "linked" THEN @ \cup {work[r].person} ELSE @]
    /\ Become(r, Idle)
    /\ UNCHANGED <<person, account, answer>>

Init ==
    /\ person = [p \in {} |-> p]
    /\ account = [a \in {} |-> a]
    /\ answer = [p \in People |-> {}]
    /\ past = [given |-> {}, renamed |-> {}, byhand |-> {}, cut |-> {}, reroled |-> {}, issued |-> {}]
    /\ work = [r \in Requests |-> Idle]

Next ==
    \/ \E r \in Requests, p \in People : GenerateRead(r, p)
    \/ \E r \in Requests, p \in People, row \in Fields : CreateCheck(r, p, row)
    \/ \E r \in Requests, p \in People, set \in Set : UpdateCheck(r, p, set)
    \/ \E r \in Requests :
          \/ CreateCommit(r) \/ UpdateCommit(r) \/ GenerateCheck(r) \/ GeneratePin(r) \/ ResetRead(r) \/ ResetCommit(r)
          \/ Abort(r)
          \/ \E a \in Accounts : GenerateAccount(r, a)
    \/ \E p \in People : Delete(p)
    \/ \E a \in Accounts, role \in Roles : SetRole(a, role) \/ \E e \in Emails : CreateAccount(a, e, role)

Spec == Init /\ [][Next]_vars

-----------------------------------------------------------------------------
(* What must hold.                                                         *)

\* What the comments on _require_student_role_user are about: a record's
\* account has the record's role, unless that account changed role.  The
\* checks look once, before the link is committed.
LinkedInRole ==
    \A p \in DOMAIN person : \A a \in person[p].user : account[a].role = Role(p) \/ a \in past.reroled

\* An account made for a record is the record's, unless the record is gone,
\* was linked by hand, or changed e-mail: then a second generate that had
\* read it without an account finds the new e-mail free and links over it.
AccountHasRecord ==
    \A i \in past.issued :
        i[2] \in DOMAIN person \ (past.byhand \cup past.renamed) => person[i[2]].user = {i[1]}

\* A student with an account of generate_pin's making has a PIN, or is about
\* to; but for a run that ended between its two commits.
PinFollowsAccount ==
    \A i \in past.issued :
        i[2] \in DOMAIN person \cap Students =>
            \/ person[i[2]].pin \/ i[2] \in past.cut
            \/ \E r \in Requests : work[r].pc = "linked" /\ work[r].person = i[2]

\* The e-mail handed out with a password is the one its account logs in
\* with, unless the teacher's e-mail was changed or the account was linked
\* by hand: an update of the record never reaches the account.
HandedOutLogsIn ==
    \A t \in Teachers \ (past.renamed \cup past.byhand) :
        \A x \in answer[t] : account[x.account].email = x.email

\* Record, account, PIN and what was handed out go together.
AccountsAreSound == LinkedInRole /\ AccountHasRecord /\ PinFollowsAccount /\ HandedOutLogsIn
=============================================================================

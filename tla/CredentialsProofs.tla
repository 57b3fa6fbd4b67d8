-------------------------- MODULE CredentialsProofs --------------------------
(* Theorems about Credentials for every set of students, teachers,         *)
(* accounts, e-mails and requests.                                         *)
EXTENDS Credentials, TLAPS

\* a has p's role, unless its role was changed.
InRole(p, a) == a \in DOMAIN account /\ (account[a].role = Role(p) \/ a \in past.reroled)

\* What a request has read or checked, and still is so.
Sound(w) ==
    /\ w.pc = "create_checked" => w.set \in Fields
    /\ w.pc \in {"create_checked", "update_checked"} /\ "user" \in DOMAIN w.set =>
         \A a \in w.set.user : InRole(w.person, a)
    /\ w.pc \in {"gen_read", "gen_checked", "linked", "role_read"} =>
         /\ w.person \in past.given
         /\ w.person \in DOMAIN person \ past.renamed => w.loaded.email = person[w.person].email
         /\ \A a \in w.loaded.user :
              /\ a \in DOMAIN account
              /\ w.person \notin past.renamed \cup past.byhand => account[a].email = w.loaded.email

\* An account made for a record has the record's e-mail until that changes.
IssuedKept ==
    \A i \in past.issued :
        /\ i[1] \in DOMAIN account /\ i[2] \in past.given
        /\ i[2] \in DOMAIN person \ past.renamed => account[i[1]].email = person[i[2]].email

\* So has any account a record is linked to, but for links by hand.
SameEmail ==
    \A p \in DOMAIN person \ (past.renamed \cup past.byhand) :
        \A a \in person[p].user : account[a].email = person[p].email

Kept ==
    /\ DOMAIN person \subseteq past.given
    /\ \A p \in People : \A x \in answer[p] : x.account \in DOMAIN account
    /\ IssuedKept /\ SameEmail

Inductive == TypeOK /\ (\A r \in Requests : Sound(work[r])) /\ Kept /\ AccountsAreSound

LEMMA WorkKinds ==
    ASSUME NEW w \in Work
    PROVE  /\ w.pc # "idle" => w.person \in People
           /\ w.pc \in {"create_checked", "update_checked"} => w.set \in Set
           /\ w.pc \in {"gen_read", "gen_checked", "linked", "role_read"} => w.loaded \in Fields
  BY DEF Work, Idle

LEMMA IdleWork == Idle \in Work /\ Idle.pc = "idle"
  BY DEF Work, Idle

LEMMA SetKinds ==
    ASSUME NEW set \in Set
    PROVE  /\ DOMAIN set \subseteq {"email", "user"}
           /\ "email" \in DOMAIN set => set.email \in Emails
           /\ "user" \in DOMAIN set => set.user \subseteq Accounts
           /\ "user" \in DOMAIN set => set.user \in {{}} \cup {{a} : a \in Accounts}
  BY DEF Set, Fields

-----------------------------------------------------------------------------
(* Steps that leave the tables alone.                                      *)

LEMMA ReadsInv ==
    ASSUME Inductive, NEW r \in Requests, NEW w \in Work, Become(r, w), Sound(w), work[r].pc # "linked",
           UNCHANGED <<person, account, answer, past>>
    PROVE  Inductive'
  <1>1. \A q \in Requests : work'[q] = IF q = r THEN w ELSE work[q]
    BY DEF Become, Inductive, TypeOK
  <1>2. TypeOK'
    BY <1>1 DEF Become, Inductive, TypeOK
  <1>3. \A q \in Requests : Sound(work[q])'
    BY <1>1 DEF Inductive, Sound, InRole
  <1>4. Kept'
    BY DEF Inductive, Kept, IssuedKept, SameEmail
  <1>5. PinFollowsAccount'
    BY <1>1 DEF Inductive, AccountsAreSound, PinFollowsAccount
  <1>6. LinkedInRole' /\ AccountHasRecord' /\ HandedOutLogsIn'
    BY DEF Inductive, AccountsAreSound, LinkedInRole, AccountHasRecord, HandedOutLogsIn
  <1> QED BY <1>2, <1>3, <1>4, <1>5, <1>6 DEF Inductive, AccountsAreSound

LEMMA CreateCheckInv ==
    ASSUME Inductive, NEW r \in Requests, NEW p \in People, NEW row \in Fields, CreateCheck(r, p, row)
    PROVE  Inductive'
  <1> DEFINE w == [pc |-> "create_checked", person |-> p, set |-> row]
  <1>1. w \in Work
    BY DEF Work, Set
  <1>2. /\ p \notin DOMAIN person /\ work[r].pc # "linked" /\ Become(r, w)
        /\ UNCHANGED <<person, account, answer, past>>
    BY IdleWork DEF CreateCheck, Inductive, Kept
  <1>3. \A a \in row.user : InRole(p, a)
    BY <1>2 DEF CreateCheck, Check, InRole
  <1>4. Sound(w)
    BY <1>3 DEF Sound
  <1> HIDE DEF w
  <1> QED BY <1>1, <1>2, <1>4, ReadsInv

LEMMA UpdateCheckInv ==
    ASSUME Inductive, NEW r \in Requests, NEW p \in People, NEW set \in Set, UpdateCheck(r, p, set)
    PROVE  Inductive'
  <1> DEFINE w == [pc |-> "update_checked", person |-> p, set |-> set]
  <1>1. w \in Work
    BY DEF Work
  <1>2. work[r].pc # "linked" /\ Become(r, w) /\ UNCHANGED <<person, account, answer, past>>
    BY IdleWork DEF UpdateCheck
  <1>3. ASSUME "user" \in DOMAIN set, NEW a \in set.user PROVE InRole(p, a)
    <2>1. Written(p, set).user = set.user
      BY <1>3 DEF Written
    <2>2. set.user = {a}
      BY <1>3, SetKinds
    <2>3. person[p].user # {a}
      BY <1>3, <2>2 DEF UpdateCheck
    <2> QED BY <1>3, <2>1, <2>3 DEF UpdateCheck, Check, InRole
  <1>4. Sound(w)
    BY <1>3 DEF Sound
  <1> HIDE DEF w
  <1> QED BY <1>1, <1>2, <1>4, ReadsInv

LEMMA GenerateReadInv ==
    ASSUME Inductive, NEW r \in Requests, NEW p \in People, GenerateRead(r, p)
    PROVE  Inductive'
  <1> DEFINE loaded == [f \in {"email", "user"} |-> person[p][f]]
             w == [pc |-> "gen_read", person |-> p, loaded |-> loaded]
  <1>1. /\ p \in DOMAIN person /\ person[p] \in Person /\ work[r].pc # "linked"
        /\ UNCHANGED <<person, account, answer, past>>
    BY IdleWork DEF GenerateRead, Inductive, TypeOK
  <1>2. Written(p, [f \in {} |-> f]) = loaded
    BY DEF Written
  <1>3. /\ loaded = [email |-> person[p].email, user |-> person[p].user]
        /\ loaded.email = person[p].email /\ loaded.user = person[p].user
    OBVIOUS
  <1>4. loaded \in Fields
    BY <1>1, <1>3 DEF Person, Fields
  <1> HIDE DEF loaded
  <1>5. w \in Work
    BY <1>4 DEF Work
  <1>6. Become(r, w)
    BY <1>2 DEF GenerateRead
  <1>7. p \in past.given /\ person[p].user \subseteq DOMAIN account
    BY <1>1 DEF Inductive, Kept, TypeOK
  <1>8. p \notin past.renamed \cup past.byhand => \A a \in loaded.user : account[a].email = loaded.email
    BY <1>1, <1>3 DEF Inductive, Kept, SameEmail
  <1>9. Sound(w)
    BY <1>3, <1>7, <1>8 DEF Sound
  <1> HIDE DEF w
  <1> QED BY <1>1, <1>5, <1>6, <1>9, ReadsInv

LEMMA GenerateCheckInv ==
    ASSUME Inductive, NEW r \in Requests, GenerateCheck(r)
    PROVE  Inductive'
  <1> DEFINE o == work[r]
             w == [o EXCEPT !.pc = "gen_checked"]
  <1>1. /\ o \in Work /\ Sound(o) /\ o.pc = "gen_read" /\ Become(r, w)
        /\ UNCHANGED <<person, account, answer, past>>
    BY DEF GenerateCheck, Inductive, TypeOK
  <1>2. w \in Work /\ w.pc = "gen_checked" /\ w.person = o.person /\ w.loaded = o.loaded
    BY <1>1 DEF Work, Idle
  <1> HIDE DEF w
  <1>3. Sound(w)
    BY <1>1, <1>2 DEF Sound
  <1> QED BY <1>1, <1>2, <1>3, ReadsInv

LEMMA ResetReadInv ==
    ASSUME Inductive, NEW r \in Requests, ResetRead(r)
    PROVE  Inductive'
  <1> DEFINE o == work[r]
             w == [o EXCEPT !.pc = "role_read"]
  <1>1. /\ o \in Work /\ Sound(o) /\ o.pc = "gen_read" /\ Become(r, w)
        /\ UNCHANGED <<person, account, answer, past>>
    BY DEF ResetRead, Inductive, TypeOK
  <1>2. w \in Work /\ w.pc = "role_read" /\ w.person = o.person /\ w.loaded = o.loaded
    BY <1>1 DEF Work, Idle
  <1> HIDE DEF w
  <1>3. Sound(w)
    BY <1>1, <1>2 DEF Sound
  <1> QED BY <1>1, <1>2, <1>3, ReadsInv

LEMMA AbortInv ==
    ASSUME Inductive, NEW r \in Requests, Abort(r)
    PROVE  Inductive'
  <1>1. /\ past \in Past /\ Become(r, Idle) /\ UNCHANGED <<person, account, answer>> /\ work[r] \in Work
        /\ past' = [past EXCEPT !.cut = IF work[r].pc = "linked" THEN @ \cup {work[r].person} ELSE @]
    BY DEF Abort, Inductive, TypeOK
  <1>2. work[r].pc = "linked" => work[r].person \in People
    BY <1>1, WorkKinds
  <1>3. /\ past' \in Past /\ past'.given = past.given /\ past'.renamed = past.renamed
        /\ past'.byhand = past.byhand /\ past'.reroled = past.reroled /\ past'.issued = past.issued
        /\ past.cut \subseteq past'.cut
        /\ work[r].pc = "linked" => work[r].person \in past'.cut
    BY <1>1, <1>2 DEF Past
  <1>4. \A q \in Requests : work'[q] = IF q = r THEN Idle ELSE work[q]
    BY <1>1 DEF Become, Inductive, TypeOK
  <1>5. TypeOK'
    BY <1>1, <1>3, <1>4, IdleWork DEF Become, Inductive, TypeOK
  <1>6. \A q \in Requests : Sound(work[q])'
    BY <1>1, <1>3, <1>4, IdleWork DEF Inductive, Sound, InRole
  <1>7. Kept'
    BY <1>1, <1>3 DEF Inductive, Kept, IssuedKept, SameEmail
  <1>8. PinFollowsAccount'
    BY <1>1, <1>3, <1>4 DEF Inductive, AccountsAreSound, PinFollowsAccount
  <1>9. LinkedInRole' /\ AccountHasRecord' /\ HandedOutLogsIn'
    BY <1>1, <1>3 DEF Inductive, AccountsAreSound, LinkedInRole, AccountHasRecord, HandedOutLogsIn
  <1> QED BY <1>5, <1>6, <1>7, <1>8, <1>9 DEF Inductive, AccountsAreSound

-----------------------------------------------------------------------------
(* Steps that write.                                                       *)

\* What any of them leaves of the rows that were read: accounts and their
\* e-mails, and what past does not say has changed.
Grows ==
    /\ past.given \subseteq past'.given /\ past.renamed \subseteq past'.renamed
    /\ past.byhand \subseteq past'.byhand /\ past.reroled \subseteq past'.reroled
    /\ DOMAIN account \subseteq DOMAIN account'
    /\ \A a \in DOMAIN account :
         /\ account'[a].email = account[a].email
         /\ account'[a].role = account[a].role \/ a \in past'.reroled
    /\ \A p \in past.given \cap (DOMAIN person' \ past'.renamed) :
         p \in DOMAIN person /\ person'[p].email = person[p].email

LEMMA SoundGrows ==
    ASSUME Grows, NEW w \in Work, Sound(w)
    PROVE  Sound(w)'
  <1>1. ASSUME w.pc \in {"create_checked", "update_checked"}, "user" \in DOMAIN w.set, NEW a \in w.set.user
        PROVE  InRole(w.person, a)'
    <2>1. InRole(w.person, a)
      BY <1>1 DEF Sound
    <2> QED BY <2>1 DEF InRole, Grows
  <1>2. ASSUME w.pc \in {"gen_read", "gen_checked", "linked", "role_read"}
        PROVE  /\ w.person \in past'.given
               /\ w.person \in DOMAIN person' \ past'.renamed => w.loaded.email = person'[w.person].email
               /\ \A a \in w.loaded.user :
                    /\ a \in DOMAIN account'
                    /\ w.person \notin past'.renamed \cup past'.byhand => account'[a].email = w.loaded.email
    BY <1>2 DEF Sound, Grows
  <1>3. w.pc = "create_checked" => w.set \in Fields
    BY DEF Sound
  <1> QED BY <1>1, <1>2, <1>3 DEF Sound

\* What is left to show of a step that writes.
LEMMA WritesInv ==
    ASSUME Inductive, TypeOK', Grows, Kept', AccountsAreSound',
           \A q \in Requests : \E w \in Work : w = work'[q] /\ Sound(w)
    PROVE  Inductive'
  <1>1. ASSUME NEW q \in Requests PROVE Sound(work[q])'
    <2>1. PICK w \in Work : w = work'[q] /\ Sound(w)
      OBVIOUS
    <2>2. Sound(w)'
      BY <2>1, SoundGrows
    <2> QED BY <2>1, <2>2 DEF Sound, InRole
  <1> QED BY <1>1 DEF Inductive

\* The request r ends.
LEMMA Ends ==
    ASSUME Inductive, NEW r \in Requests, Become(r, Idle)
    PROVE  /\ work' \in [Requests -> Work] /\ \A q \in Requests : work'[q] = IF q = r THEN Idle ELSE work[q]
           /\ \A q \in Requests : \E w \in Work : w = work'[q] /\ Sound(w)
  <1>1. work' \in [Requests -> Work] /\ \A q \in Requests : work'[q] = IF q = r THEN Idle ELSE work[q]
    BY IdleWork DEF Become, Inductive, TypeOK
  <1>2. ASSUME NEW q \in Requests PROVE \E w \in Work : w = work'[q] /\ Sound(w)
    <2>1. PICK w \in Work : w = work'[q]
      BY <1>1
    <2>2. Sound(w)
      BY <1>1, <2>1, IdleWork DEF Inductive, Sound
    <2> QED BY <2>1, <2>2
  <1> QED BY <1>1, <1>2

LEMMA CreateCommitInv ==
    ASSUME Inductive, NEW r \in Requests, CreateCommit(r)
    PROVE  Inductive'
  <1> DEFINE set == work[r].set
             row == [email |-> set.email, user |-> set.user, pin |-> FALSE]
  <1>1. PICK p \in People :
          /\ p = work[r].person /\ p \notin past.given /\ Put(p, row) /\ Become(r, Idle)
          /\ past' = [past EXCEPT !.given = @ \cup {p}, !.byhand = IF set.user # {} THEN @ \cup {p} ELSE @]
          /\ UNCHANGED <<account, answer>> /\ work[r] \in Work /\ work[r].pc = "create_checked"
    BY WorkKinds DEF CreateCommit, Inductive, TypeOK
  <1>2. set \in Fields
    BY <1>1 DEF Inductive, Sound
  <1>3. row \in Person
    BY <1>2 DEF Fields, Person
  <1>4. \A a \in row.user : InRole(p, a)
    BY <1>1, <1>2 DEF Inductive, Sound, Fields
  <1>5. row.user = set.user
    OBVIOUS
  <1> HIDE DEF row
  <1>6. /\ DOMAIN person' = DOMAIN person \cup {p} /\ person'[p] = row
        /\ \A q \in DOMAIN person : q # p => person'[q] = person[q]
    BY <1>1 DEF Put
  <1>7. /\ past' \in Past /\ past'.given = past.given \cup {p} /\ past'.renamed = past.renamed
        /\ past.byhand \subseteq past'.byhand /\ past'.cut = past.cut /\ past'.reroled = past.reroled
        /\ past'.issued = past.issued
        /\ row.user # {} => p \in past'.byhand
    <2> DEFINE B == IF row.user # {} THEN past.byhand \cup {p} ELSE past.byhand
    <2>1. past \in Past
      BY DEF Inductive, TypeOK
    <2>2. B \in SUBSET People /\ past.byhand \subseteq B /\ (row.user # {} => p \in B)
      BY <2>1 DEF Past
    <2>3. past' = [past EXCEPT !.given = @ \cup {p}, !.byhand = B]
      BY <1>1, <1>5
    <2> HIDE DEF B
    <2> QED BY <2>1, <2>2, <2>3 DEF Past
  <1>8. p \notin DOMAIN person
    BY <1>1 DEF Inductive, Kept
  <1>9. TypeOK'
    <2>1. row.user \subseteq DOMAIN account
      BY <1>4 DEF InRole
    <2> QED BY <1>1, <1>3, <1>6, <1>7, <2>1, Ends DEF Inductive, TypeOK
  <1>10. Grows
    BY <1>1, <1>6, <1>7, <1>8 DEF Grows
  <1>11. Kept'
    BY <1>1, <1>6, <1>7, <1>8 DEF Inductive, Kept, IssuedKept, SameEmail
  <1>12. LinkedInRole' /\ AccountHasRecord' /\ HandedOutLogsIn'
    <2>1. LinkedInRole'
      BY <1>1, <1>4, <1>6, <1>7 DEF Inductive, AccountsAreSound, LinkedInRole, InRole
    <2>2. AccountHasRecord'
      BY <1>1, <1>6, <1>7 DEF Inductive, Kept, IssuedKept, AccountsAreSound, AccountHasRecord
    <2>3. HandedOutLogsIn'
      BY <1>1, <1>7 DEF Inductive, AccountsAreSound, HandedOutLogsIn
    <2> QED BY <2>1, <2>2, <2>3
  <1>13. PinFollowsAccount'
    BY <1>1, <1>6, <1>7, Ends DEF Inductive, Kept, IssuedKept, AccountsAreSound, PinFollowsAccount
  <1> QED BY <1>1, <1>9, <1>10, <1>11, <1>12, <1>13, Ends, WritesInv DEF AccountsAreSound

Updated(old, set) == [f \in DOMAIN old |-> IF f \in DOMAIN set THEN set[f] ELSE old[f]]

LEMMA UpdatedRow ==
    ASSUME NEW old \in Person, NEW set \in Set
    PROVE  /\ Updated(old, set) \in Person
           /\ Updated(old, set).pin = old.pin
           /\ Updated(old, set).user = IF "user" \in DOMAIN set THEN set.user ELSE old.user
           /\ Updated(old, set).email = IF "email" \in DOMAIN set THEN set.email ELSE old.email
  <1>1. /\ DOMAIN old = {"email", "user", "pin"} /\ old["email"] \in Emails
        /\ old["user"] \in {{}} \cup {{a} : a \in Accounts} /\ old["pin"] \in BOOLEAN
    BY DEF Person
  <1>2. /\ "pin" \notin DOMAIN set
        /\ "email" \in DOMAIN set => set["email"] \in Emails
        /\ "user" \in DOMAIN set => set["user"] \in {{}} \cup {{a} : a \in Accounts}
    BY SetKinds
  <1> QED BY <1>1, <1>2 DEF Updated, Person

\* An update says so when it changes the e-mail or the link.
LEMMA UpdateCommitInv ==
    ASSUME Inductive, NEW r \in Requests, UpdateCommit(r)
    PROVE  Inductive'
  <1> DEFINE set == work[r].set
  <1>1. PICK p \in DOMAIN person :
          /\ p = work[r].person /\ Put(p, Updated(person[p], set)) /\ Become(r, Idle)
          /\ past' = [past EXCEPT !.renamed = IF "email" \in DOMAIN set THEN @ \cup {p} ELSE @,
                                  !.byhand = IF "user" \in DOMAIN set THEN @ \cup {p} ELSE @]
          /\ UNCHANGED <<account, answer>> /\ work[r] \in Work /\ work[r].pc = "update_checked"
    BY DEF UpdateCommit, Updated, Inductive, TypeOK
  <1>2. set \in Set /\ person[p] \in Person /\ p \in People
    BY <1>1, WorkKinds DEF Inductive, TypeOK
  <1>3. "user" \in DOMAIN set => \A a \in set.user : InRole(p, a)
    BY <1>1 DEF Inductive, Sound
  <1>4. PICK row \in Person : row = Updated(person[p], set)
    BY <1>2, UpdatedRow
  <1>5. /\ row.pin = person[p].pin
        /\ row.user = IF "user" \in DOMAIN set THEN set.user ELSE person[p].user
        /\ row.email = IF "email" \in DOMAIN set THEN set.email ELSE person[p].email
    BY <1>2, <1>4, UpdatedRow
  <1>6. /\ DOMAIN person' = DOMAIN person /\ person'[p] = row
        /\ \A q \in DOMAIN person : q # p => person'[q] = person[q]
    BY <1>1, <1>4 DEF Put
  <1>7. /\ past' \in Past /\ past'.given = past.given /\ past.renamed \subseteq past'.renamed
        /\ past.byhand \subseteq past'.byhand /\ past'.cut = past.cut /\ past'.reroled = past.reroled
        /\ past'.issued = past.issued
        /\ "email" \in DOMAIN set => p \in past'.renamed
        /\ "user" \in DOMAIN set => p \in past'.byhand
    <2> DEFINE N == IF "email" \in DOMAIN set THEN past.renamed \cup {p} ELSE past.renamed
               B == IF "user" \in DOMAIN set THEN past.byhand \cup {p} ELSE past.byhand
    <2>1. past \in Past
      BY DEF Inductive, TypeOK
    <2>2. /\ N \in SUBSET People /\ past.renamed \subseteq N /\ ("email" \in DOMAIN set => p \in N)
          /\ B \in SUBSET People /\ past.byhand \subseteq B /\ ("user" \in DOMAIN set => p \in B)
      BY <1>2, <2>1 DEF Past
    <2>3. past' = [past EXCEPT !.renamed = N, !.byhand = B]
      BY <1>1
    <2> HIDE DEF N, B
    <2> QED BY <2>1, <2>2, <2>3 DEF Past
  <1>8. TypeOK'
    <2>1. row.user \subseteq DOMAIN account
      BY <1>3, <1>5 DEF InRole, Inductive, TypeOK
    <2> QED BY <1>1, <1>6, <1>7, <2>1, Ends DEF Inductive, TypeOK
  <1>9. Grows
    BY <1>1, <1>5, <1>6, <1>7 DEF Grows
  <1>10. Kept'
    <2>1. IssuedKept'
      BY <1>1, <1>5, <1>6, <1>7 DEF Inductive, Kept, IssuedKept
    <2>2. SameEmail'
      BY <1>1, <1>5, <1>6, <1>7 DEF Inductive, Kept, SameEmail
    <2> QED BY <1>1, <1>6, <1>7, <2>1, <2>2 DEF Inductive, Kept
  <1>11. LinkedInRole'
    BY <1>1, <1>3, <1>5, <1>6, <1>7 DEF Inductive, AccountsAreSound, LinkedInRole, InRole
  <1>12. AccountHasRecord'
    BY <1>1, <1>5, <1>6, <1>7 DEF Inductive, AccountsAreSound, AccountHasRecord
  <1>13. PinFollowsAccount'
    BY <1>1, <1>5, <1>6, <1>7, Ends DEF Inductive, AccountsAreSound, PinFollowsAccount
  <1>14. HandedOutLogsIn'
    BY <1>1, <1>7 DEF Inductive, AccountsAreSound, HandedOutLogsIn
  <1> QED BY <1>1, <1>8, <1>9, <1>10, <1>11, <1>12, <1>13, <1>14, Ends, WritesInv DEF AccountsAreSound

\* No request ends.
LEMMA Stays ==
    ASSUME Inductive, UNCHANGED work
    PROVE  \A q \in Requests : \E w \in Work : w = work'[q] /\ Sound(w)
  BY DEF Inductive, TypeOK

LEMMA DeleteInv ==
    ASSUME Inductive, NEW p \in People, Delete(p)
    PROVE  Inductive'
  <1>1. /\ DOMAIN person' = DOMAIN person \ {p} /\ \A q \in DOMAIN person' : person'[q] = person[q]
        /\ UNCHANGED <<account, answer, past, work>>
    BY DEF Delete
  <1>2. TypeOK'
    BY <1>1 DEF Inductive, TypeOK
  <1>3. Grows
    BY <1>1 DEF Grows
  <1>4. Kept'
    BY <1>1 DEF Inductive, Kept, IssuedKept, SameEmail
  <1>5. AccountsAreSound'
    BY <1>1 DEF Inductive, AccountsAreSound, LinkedInRole, AccountHasRecord, PinFollowsAccount, HandedOutLogsIn
  <1> QED BY <1>1, <1>2, <1>3, <1>4, <1>5, Stays, WritesInv

\* A record an account was made for, and whose e-mail did not change, is
\* not given another: the e-mail is taken.
LEMMA NotIssued ==
    ASSUME Inductive, NEW p \in DOMAIN person \ past.renamed, ~EmailTaken(person[p].email)
    PROVE  \A i \in past.issued : i[2] # p
  BY DEF Inductive, Kept, IssuedKept, EmailTaken

LEMMA GenerateAccountInv ==
    ASSUME Inductive, NEW r \in Requests, NEW a \in Accounts, GenerateAccount(r, a)
    PROVE  Inductive'
  <1> DEFINE o == work[r]
             e == o.loaded.email
  <1>1. PICK p \in DOMAIN person :
          /\ p = o.person /\ o.pc = "gen_checked" /\ o \in Work /\ Sound(o)
          /\ a \notin DOMAIN account /\ ~EmailTaken(e)
          /\ PutAccount(a, [email |-> e, role |-> Role(p)])
          /\ Put(p, [person[p] EXCEPT !.user = {a}])
          /\ past' = [past EXCEPT !.issued = @ \cup {<<a, p>>}]
          /\ IF p \in Students
               THEN Become(r, [o EXCEPT !.pc = "linked"]) /\ UNCHANGED answer
               ELSE Become(r, Idle) /\ answer' = [answer EXCEPT ![p] = {[email |-> person[p].email, account |-> a]}]
    BY DEF GenerateAccount, Inductive, TypeOK
  <1>2. /\ p \in People /\ person[p] \in Person /\ o.loaded \in Fields /\ e \in Emails
        /\ p \notin past.renamed => e = person[p].email
    BY <1>1, WorkKinds DEF Inductive, TypeOK, Sound, Fields
  <1>3. PICK row \in Person : row = [person[p] EXCEPT !.user = {a}]
    BY <1>2 DEF Person
  <1>4. row.user = {a} /\ row.email = person[p].email /\ row.pin = person[p].pin
    BY <1>2, <1>3 DEF Person
  <1>5. /\ DOMAIN person' = DOMAIN person /\ person'[p] = row
        /\ \A q \in DOMAIN person : q # p => person'[q] = person[q]
    BY <1>1, <1>3 DEF Put
  <1>6. /\ DOMAIN account' = DOMAIN account \cup {a}
        /\ account'[a] \in Account /\ account'[a].email = e /\ account'[a].role = Role(p)
        /\ \A b \in DOMAIN account : account'[b] = account[b]
    BY <1>1, <1>2 DEF PutAccount, Account, Role, Roles
  <1>7. /\ past' \in Past /\ past'.issued = past.issued \cup {<<a, p>>} /\ past'.given = past.given
        /\ past'.renamed = past.renamed /\ past'.byhand = past.byhand /\ past'.cut = past.cut
        /\ past'.reroled = past.reroled
    BY <1>1, <1>2 DEF Past, Inductive, TypeOK
  <1>8. /\ answer' \in [People -> SUBSET [email: Emails, account: Accounts]]
        /\ \A q \in People : q # p => answer'[q] = answer[q]
        /\ answer'[p] = answer[p] \/ answer'[p] = {[email |-> person[p].email, account |-> a]}
    <2>1. [email |-> person[p].email, account |-> a] \in [email: Emails, account: Accounts]
      BY <1>2 DEF Person
    <2> QED BY <1>1, <1>2, <2>1 DEF Inductive, TypeOK
  <1>9. /\ work' \in [Requests -> Work]
        /\ \A q \in Requests : q # r => work'[q] = work[q]
        /\ p \in Students => work'[r].pc = "linked" /\ work'[r].person = p
        /\ \A q \in Requests : \E w \in Work : w = work'[q] /\ Sound(w)
    <2>1. CASE p \in Students
      <3> DEFINE w == [o EXCEPT !.pc = "linked"]
      <3>1. w \in Work /\ w.pc = "linked" /\ w.person = o.person /\ w.loaded = o.loaded
        BY <1>1 DEF Work, Idle
      <3>2. Become(r, w)
        BY <1>1, <2>1
      <3> HIDE DEF w
      <3>3. Sound(w)
        BY <1>1, <3>1 DEF Sound
      <3>4. work' \in [Requests -> Work] /\ \A q \in Requests : work'[q] = IF q = r THEN w ELSE work[q]
        BY <3>1, <3>2 DEF Become, Inductive, TypeOK
      <3> QED BY <1>1, <3>1, <3>3, <3>4 DEF Inductive, TypeOK
    <2>2. CASE p \notin Students
      BY <1>1, <2>2, Ends
    <2> QED BY <2>1, <2>2
  <1>10. p \notin past.renamed => \A i \in past.issued : i[2] # p
    BY <1>1, <1>2, NotIssued
  <1> HIDE DEF o, e
  <1>11. TypeOK'
    BY <1>4, <1>5, <1>6, <1>7, <1>8, <1>9 DEF Inductive, TypeOK
  <1>12. Grows
    BY <1>4, <1>5, <1>6, <1>7 DEF Grows
  <1>13. Kept'
    <2>1. IssuedKept'
      <3> SUFFICES ASSUME NEW i \in past'.issued
                   PROVE  /\ i[1] \in DOMAIN account' /\ i[2] \in past'.given
                          /\ i[2] \in DOMAIN person' \ past'.renamed =>
                               account'[i[1]].email = person'[i[2]].email
        BY DEF IssuedKept
      <3>1. CASE i \in past.issued
        BY <1>4, <1>5, <1>6, <1>7, <3>1 DEF Inductive, Kept, IssuedKept
      <3>2. CASE i = <<a, p>>
        BY <1>2, <1>4, <1>5, <1>6, <1>7, <3>2 DEF Inductive, Kept
      <3> QED BY <1>7, <3>1, <3>2
    <2>2. SameEmail'
      <3> SUFFICES ASSUME NEW q \in DOMAIN person \ (past.renamed \cup past.byhand), NEW b \in person'[q].user
                   PROVE  account'[b].email = person'[q].email
        BY <1>5, <1>7 DEF SameEmail
      <3>1. CASE q = p
        BY <1>2, <1>4, <1>5, <1>6, <3>1
      <3>2. CASE q # p
        BY <1>5, <1>6, <3>2 DEF Inductive, TypeOK, Kept, SameEmail
      <3> QED BY <3>1, <3>2
    <2>3. \A q \in People : \A x \in answer'[q] : x.account \in DOMAIN account'
      BY <1>6, <1>8 DEF Inductive, Kept
    <2> QED BY <1>5, <1>7, <2>1, <2>2, <2>3 DEF Inductive, Kept
  <1>14. LinkedInRole'
    BY <1>4, <1>5, <1>6, <1>7 DEF Inductive, TypeOK, AccountsAreSound, LinkedInRole
  <1>15. AccountHasRecord'
    <2> SUFFICES ASSUME NEW i \in past'.issued, i[2] \in DOMAIN person \ (past.byhand \cup past.renamed)
                 PROVE  person'[i[2]].user = {i[1]}
      BY <1>5, <1>7 DEF AccountHasRecord
    <2>1. CASE i \in past.issued
      BY <1>5, <1>10, <2>1 DEF Inductive, AccountsAreSound, AccountHasRecord
    <2>2. CASE i = <<a, p>>
      BY <1>4, <1>5, <2>2
    <2> QED BY <1>7, <2>1, <2>2
  <1>16. PinFollowsAccount'
    <2> SUFFICES ASSUME NEW i \in past'.issued, i[2] \in DOMAIN person \cap Students
                 PROVE  \/ person'[i[2]].pin \/ i[2] \in past.cut
                        \/ \E q \in Requests : work'[q].pc = "linked" /\ work'[q].person = i[2]
      BY <1>5, <1>7 DEF PinFollowsAccount
    <2>1. CASE i[2] = p
      BY <1>9, <2>1
    <2>2. CASE i[2] # p
      <3>1. i \in past.issued
        BY <1>7, <2>2
      <3>2. work[r].pc # "linked"
        BY <1>1 DEF o
      <3> QED BY <1>5, <1>9, <2>2, <3>1, <3>2 DEF Inductive, AccountsAreSound, PinFollowsAccount
    <2> QED BY <2>1, <2>2
  <1>17. HandedOutLogsIn'
    <2> SUFFICES ASSUME NEW t \in Teachers \ (past.renamed \cup past.byhand), NEW x \in answer'[t]
                 PROVE  account'[x.account].email = x.email
      BY <1>7 DEF HandedOutLogsIn
    <2>1. CASE x \in answer[t]
      BY <1>6, <2>1 DEF Inductive, Kept, People, AccountsAreSound, HandedOutLogsIn
    <2>2. CASE t = p /\ x = [email |-> person[p].email, account |-> a]
      BY <1>2, <1>6, <2>2
    <2> QED BY <1>8, <2>1, <2>2 DEF People
  <1> QED BY <1>9, <1>11, <1>12, <1>13, <1>14, <1>15, <1>16, <1>17, WritesInv DEF AccountsAreSound

LEMMA GeneratePinInv ==
    ASSUME Inductive, NEW r \in Requests, GeneratePin(r)
    PROVE  Inductive'
  <1>1. PICK p \in DOMAIN person :
          /\ p = work[r].person /\ Put(p, [person[p] EXCEPT !.pin = TRUE]) /\ Become(r, Idle)
          /\ UNCHANGED <<account, answer, past>> /\ person[p] \in Person
    BY DEF GeneratePin, Inductive, TypeOK
  <1>2. PICK row \in Person : row = [person[p] EXCEPT !.pin = TRUE]
    BY <1>1 DEF Person
  <1>3. row.user = person[p].user /\ row.email = person[p].email /\ row.pin
    BY <1>1, <1>2 DEF Person
  <1>4. /\ DOMAIN person' = DOMAIN person /\ person'[p] = row
        /\ \A q \in DOMAIN person : q # p => person'[q] = person[q]
    BY <1>1, <1>2 DEF Put
  <1>5. TypeOK'
    BY <1>1, <1>3, <1>4, Ends DEF Inductive, TypeOK
  <1>6. Grows
    BY <1>1, <1>3, <1>4 DEF Grows
  <1>7. Kept'
    BY <1>1, <1>3, <1>4 DEF Inductive, Kept, IssuedKept, SameEmail
  <1>8. LinkedInRole' /\ AccountHasRecord' /\ HandedOutLogsIn'
    BY <1>1, <1>3, <1>4 DEF Inductive, AccountsAreSound, LinkedInRole, AccountHasRecord, HandedOutLogsIn
  <1>9. PinFollowsAccount'
    <2> SUFFICES ASSUME NEW i \in past.issued, i[2] \in DOMAIN person \cap Students
                 PROVE  \/ person'[i[2]].pin \/ i[2] \in past.cut
                        \/ \E q \in Requests : work'[q].pc = "linked" /\ work'[q].person = i[2]
      BY <1>1, <1>4 DEF PinFollowsAccount
    <2>1. CASE i[2] = p
      BY <1>3, <1>4, <2>1
    <2>2. CASE i[2] # p
      BY <1>1, <1>4, <2>2, Ends DEF Inductive, AccountsAreSound, PinFollowsAccount
    <2> QED BY <2>1, <2>2
  <1> QED BY <1>1, <1>5, <1>6, <1>7, <1>8, <1>9, Ends, WritesInv DEF AccountsAreSound

LEMMA ResetCommitInv ==
    ASSUME Inductive, NEW r \in Requests, ResetCommit(r)
    PROVE  Inductive'
  <1> DEFINE o == work[r]
             p == o.person
             e == o.loaded.email
  <1>1. PICK a \in o.loaded.user :
          /\ answer' = [answer EXCEPT ![p] = {[email |-> e, account |-> a]}]
          /\ o.pc = "role_read" /\ o \in Work /\ Sound(o) /\ Become(r, Idle)
          /\ UNCHANGED <<person, account, past>>
    BY DEF ResetCommit, Inductive, TypeOK
  <1>2. /\ p \in People /\ e \in Emails /\ a \in Accounts /\ a \in DOMAIN account
        /\ p \notin past.renamed \cup past.byhand => account[a].email = e
    BY <1>1, WorkKinds DEF Fields, Sound
  <1>3. /\ answer' \in [People -> SUBSET [email: Emails, account: Accounts]]
        /\ \A q \in People : answer'[q] = IF q = p THEN {[email |-> e, account |-> a]} ELSE answer[q]
    BY <1>1, <1>2 DEF Inductive, TypeOK
  <1>4. work[r].pc # "linked"
    BY <1>1
  <1> HIDE DEF o, p, e
  <1>5. TypeOK'
    BY <1>1, <1>3, Ends DEF Inductive, TypeOK
  <1>6. Grows
    BY <1>1 DEF Grows
  <1>7. Kept'
    BY <1>1, <1>2, <1>3 DEF Inductive, Kept, IssuedKept, SameEmail
  <1>8. LinkedInRole' /\ AccountHasRecord'
    BY <1>1 DEF Inductive, AccountsAreSound, LinkedInRole, AccountHasRecord
  <1>9. PinFollowsAccount'
    BY <1>1, <1>4, Ends DEF Inductive, AccountsAreSound, PinFollowsAccount
  <1>10. HandedOutLogsIn'
    BY <1>1, <1>2, <1>3 DEF Inductive, AccountsAreSound, HandedOutLogsIn, People
  <1> QED BY <1>1, <1>5, <1>6, <1>7, <1>8, <1>9, <1>10, Ends, WritesInv DEF AccountsAreSound

\* UserService.
LEMMA AccountsInv ==
    ASSUME Inductive, NEW a \in Accounts, NEW role \in Roles,
           SetRole(a, role) \/ \E e \in Emails : CreateAccount(a, e, role)
    PROVE  Inductive'
  <1>1. /\ UNCHANGED <<person, answer, work>>
        /\ DOMAIN account \subseteq DOMAIN account' /\ DOMAIN account' \subseteq Accounts
        /\ \A b \in DOMAIN account' : account'[b] \in Account
        /\ \A b \in DOMAIN account :
             /\ account'[b].email = account[b].email
             /\ account'[b].role = account[b].role \/ b \in past'.reroled
        /\ past' \in Past /\ past'.given = past.given /\ past'.renamed = past.renamed
        /\ past'.byhand = past.byhand /\ past'.cut = past.cut /\ past.reroled \subseteq past'.reroled
        /\ past'.issued = past.issued
    <2>1. CASE SetRole(a, role)
      <3>1. /\ past' \in Past /\ past'.given = past.given /\ past'.renamed = past.renamed
            /\ past'.byhand = past.byhand /\ past'.cut = past.cut /\ past'.reroled = past.reroled \cup {a}
            /\ past'.issued = past.issued
        BY <2>1 DEF SetRole, Past, Inductive, TypeOK
      <3>2. /\ DOMAIN account' = DOMAIN account /\ account[a] \in Account
            /\ account'[a] = [account[a] EXCEPT !.role = role]
            /\ \A b \in DOMAIN account : b # a => account'[b] = account[b]
        BY <2>1 DEF SetRole, Inductive, TypeOK
      <3>3. account'[a] \in Account /\ account'[a].email = account[a].email
        BY <3>2 DEF Account
      <3> QED BY <2>1, <3>1, <3>2, <3>3 DEF SetRole, Inductive, TypeOK
    <2>2. ASSUME NEW e \in Emails, CreateAccount(a, e, role)
          PROVE  /\ DOMAIN account' = DOMAIN account \cup {a} /\ account'[a] \in Account
                 /\ \A b \in DOMAIN account : account'[b] = account[b]
                 /\ UNCHANGED <<person, answer, past, work>>
      BY <2>2 DEF CreateAccount, PutAccount, Account
    <2>3. CASE \E e \in Emails : CreateAccount(a, e, role)
      BY <2>2, <2>3 DEF Inductive, TypeOK
    <2> QED BY <2>1, <2>3
  <1>2. TypeOK'
    BY <1>1 DEF Inductive, TypeOK
  <1>3. Grows
    BY <1>1 DEF Grows
  <1>4. Kept'
    BY <1>1 DEF Inductive, TypeOK, Kept, IssuedKept, SameEmail
  <1>5. LinkedInRole'
    BY <1>1 DEF Inductive, TypeOK, AccountsAreSound, LinkedInRole
  <1>6. AccountHasRecord' /\ PinFollowsAccount'
    BY <1>1 DEF Inductive, AccountsAreSound, AccountHasRecord, PinFollowsAccount
  <1>7. HandedOutLogsIn'
    BY <1>1 DEF Inductive, Kept, People, AccountsAreSound, HandedOutLogsIn
  <1> QED BY <1>1, <1>2, <1>3, <1>4, <1>5, <1>6, <1>7, Stays, WritesInv DEF AccountsAreSound

-----------------------------------------------------------------------------

LEMMA InitInv == Init => Inductive
  <1> SUFFICES ASSUME Init PROVE Inductive
    OBVIOUS
  <1>1. DOMAIN person = {} /\ DOMAIN account = {} /\ past \in Past /\ past.issued = {}
    BY DEF Init, Past
  <1>2. answer \in [People -> SUBSET [email: Emails, account: Accounts]] /\ \A p \in People : answer[p] = {}
    BY DEF Init
  <1>3. work \in [Requests -> Work] /\ \A r \in Requests : work[r].pc = "idle"
    BY IdleWork DEF Init
  <1>4. \A r \in Requests : Sound(work[r])
    BY <1>3 DEF Sound
  <1>5. Kept
    BY <1>1, <1>2 DEF Kept, IssuedKept, SameEmail
  <1>6. AccountsAreSound
    BY <1>1, <1>2 DEF AccountsAreSound, LinkedInRole, AccountHasRecord, PinFollowsAccount, HandedOutLogsIn, People
  <1> QED BY <1>1, <1>2, <1>3, <1>4, <1>5, <1>6 DEF Inductive, TypeOK

LEMMA StepInv ==
    ASSUME Inductive, [Next]_vars
    PROVE  Inductive'
  <1>1. ASSUME NEW r \in Requests, NEW p \in People,
               \/ GenerateRead(r, p)
               \/ \E row \in Fields : CreateCheck(r, p, row)
               \/ \E set \in Set : UpdateCheck(r, p, set)
        PROVE  Inductive'
    BY <1>1, GenerateReadInv, CreateCheckInv, UpdateCheckInv
  <1>2. ASSUME NEW r \in Requests,
               CreateCommit(r) \/ UpdateCommit(r) \/ GenerateCheck(r) \/ GeneratePin(r) \/ ResetRead(r)
        PROVE  Inductive'
    BY <1>2, CreateCommitInv, UpdateCommitInv, GenerateCheckInv, GeneratePinInv, ResetReadInv
  <1>3. ASSUME NEW r \in Requests,
               ResetCommit(r) \/ Abort(r) \/ \E a \in Accounts : GenerateAccount(r, a)
        PROVE  Inductive'
    BY <1>3, ResetCommitInv, AbortInv, GenerateAccountInv
  <1>4. ASSUME NEW p \in People, Delete(p) PROVE Inductive'
    BY <1>4, DeleteInv
  <1>5. ASSUME NEW a \in Accounts, NEW role \in Roles,
               SetRole(a, role) \/ \E e \in Emails : CreateAccount(a, e, role)
        PROVE  Inductive'
    BY <1>5, AccountsInv
  <1>6. CASE UNCHANGED vars
    BY <1>6 DEF vars, Inductive, TypeOK, Sound, InRole, Kept, IssuedKept, SameEmail, AccountsAreSound,
                LinkedInRole, AccountHasRecord, PinFollowsAccount, HandedOutLogsIn
  <1> QED BY <1>1, <1>2, <1>3, <1>4, <1>5, <1>6 DEF Next

\* The inductive invariant: a record that was neither renamed nor linked by
\* hand has the e-mail of its account and of the account made for it, so
\* that no second generate finds that e-mail free; and what a request has
\* loaded of it is still so.
THEOREM InductiveInvariant == Spec => []Inductive
  <1>1. Inductive /\ [Next]_vars => Inductive'
    BY StepInv
  <1> QED BY <1>1, InitInv, PTL DEF Spec

\* Rows, history and requests keep their types, and the account a record is
\* linked to is there.
THEOREM TypeCorrect == Spec => []TypeOK
  <1>1. Inductive => TypeOK
    BY DEF Inductive
  <1> QED BY <1>1, InductiveInvariant, PTL

\* Records are linked to accounts of their role; an account made for a
\* record is the record's, which gets its PIN; what was handed out with a
\* password is what it logs in with.  The exceptions are those past keeps.
THEOREM AccountsAlwaysSound == Spec => []AccountsAreSound
  <1>1. Inductive => AccountsAreSound
    BY DEF Inductive
  <1> QED BY <1>1, InductiveInvariant, PTL
=============================================================================

--------------------------- MODULE ChangeRequests ---------------------------
(***************************************************************************)
(* A teacher's requests to change their own record:                        *)
(* TeacherChangeRequestService.create, approve and reject, with the        *)
(* TeacherService.update that approve shares with the direct PATCH.        *)
(*                                                                         *)
(* Tables hold committed rows; a step is the work between two statements   *)
(* another request can come between.  approve commits twice: the teacher's *)
(* columns, then the request's status.  A refusal, like a crash or a       *)
(* closed connection, is Abort.                                            *)
(***************************************************************************)
CONSTANTS
    Teachers,   \* ids of teachers
    Emails,     \* values of the unique column
    Names,      \* values of a column without a constraint
    Bodies,     \* the fields bodies set: a bound on Proposal
    Changes,    \* ids of change requests, never given twice
    Requests    \* HTTP requests that can be under way at once

VARIABLES
    teacher,    \* teachers: the row of each id there is
    change,     \* teacher_change_requests: the row of each id ever given
    past,       \* history of each change request
    work        \* what each HTTP request has read

vars == <<teacher, change, past, work>>

-----------------------------------------------------------------------------

Row == [email: Emails, name: Names]

\* The fields a body sets: at least one.
Proposal == [email: Emails] \cup [name: Names] \cup Row

Statuses == {"pending", "approved", "rejected"}
Change == [teacher: Teachers, proposal: Proposal, status: Statuses]

\* "applied": an approve has committed the changes.  "cut": it ended before
\* its second commit.  "overruled": a reject wrote over another review.
Events == {"applied", "cut", "overruled"}

Idle == [pc |-> "idle"]
Work ==
    {Idle}
      \cup [pc: {"create_checked"}, teacher: Teachers, proposal: Proposal]
      \cup [pc: {"approve_read", "applied", "reject_read"}, change: Changes]
      \cup [pc: {"update_read", "update_checked"}, teacher: Teachers, proposal: Proposal,
            loaded: Row, for: SUBSET Changes]

TypeOK ==
    /\ DOMAIN teacher \subseteq Teachers
    /\ \A t \in DOMAIN teacher : teacher[t] \in Row
    /\ DOMAIN change \subseteq Changes
    /\ \A c \in DOMAIN change : change[c] \in Change
    /\ past \in [Changes -> SUBSET Events]
    /\ work \in [Requests -> Work]

\* The foreign key's ON DELETE CASCADE.
Rows == {c \in DOMAIN change : change[c].teacher \in DOMAIN teacher}

Pending(t) == {c \in Rows : change[c].teacher = t /\ change[c].status = "pending"}

Become(r, w) == work' = [work EXCEPT ![r] = w]
Record(cs, event) == past' = [c \in Changes |-> IF c \in cs THEN past[c] \cup {event} ELSE past[c]]

-----------------------------------------------------------------------------
(* create                                                                  *)

\* get_my_teacher and the look for a pending request.
CreateCheck(r, t, p) ==
    /\ work[r] = Idle
    /\ t \in DOMAIN teacher
    /\ Pending(t) = {}
    /\ Become(r, [pc |-> "create_checked", teacher |-> t, proposal |-> p])
    /\ UNCHANGED <<teacher, change, past>>

AddRow(r, c) ==
    /\ change' = [d \in DOMAIN change \cup {c} |->
                    IF d = c THEN [teacher |-> work[r].teacher, proposal |-> work[r].proposal,
                                   status |-> "pending"]
                             ELSE change[d]]
    /\ Become(r, Idle)
    /\ UNCHANGED <<teacher, past>>

\* The insert: the foreign key and the partial unique index.
CreateCommit(r, c) ==
    /\ work[r].pc = "create_checked"
    /\ c \in Changes \ DOMAIN change
    /\ work[r].teacher \in DOMAIN teacher
    /\ Pending(work[r].teacher) = {}
    /\ AddRow(r, c)

-----------------------------------------------------------------------------
(* TeacherService.update, of a PATCH or of an approve                      *)

UpdateRead(r, t, p, for) ==
    /\ t \in DOMAIN teacher
    /\ Become(r, [pc |-> "update_read", teacher |-> t, proposal |-> p,
                  loaded |-> teacher[t], for |-> for])
    /\ UNCHANGED <<teacher, change, past>>

PatchRead(r, t, p) == work[r] = Idle /\ UpdateRead(r, t, p, {})

\* The columns the unit of work writes: those that differ from the row as read.
Changed(w) == {f \in DOMAIN w.proposal : w.proposal[f] # w.loaded[f]}

Updated(w) == [f \in DOMAIN teacher[w.teacher] |->
                  IF f \in Changed(w) THEN w.proposal[f] ELSE teacher[w.teacher][f]]

Taken(t, e) == \E u \in DOMAIN teacher \ {t} : teacher[u].email = e

UpdateCheck(r) ==
    LET w == work[r]
    IN  /\ w.pc = "update_read"
        /\ "email" \in Changed(w) => ~Taken(w.teacher, w.proposal.email)
        /\ Become(r, [w EXCEPT !.pc = "update_checked"])
        /\ UNCHANGED <<teacher, change, past>>

\* Mutant: no unique constraint, the check alone.
UpdateUnguarded(r) ==
    LET w == work[r]
    IN  /\ w.pc = "update_checked"
        /\ w.teacher \in DOMAIN teacher
        /\ teacher' = [teacher EXCEPT ![w.teacher] = Updated(w)]
        /\ Record(w.for, "applied")
        /\ \/ w.for = {} /\ Become(r, Idle)
           \/ \E c \in w.for : Become(r, [pc |-> "applied", change |-> c])
        /\ UNCHANGED change

\* The constraint on the e-mail holds whatever was checked.
UpdateCommit(r) ==
    LET w == work[r]
    IN  /\ w.pc = "update_checked"
        /\ w.teacher \in DOMAIN teacher
        /\ ~Taken(w.teacher, Updated(w).email)
        /\ teacher' = [teacher EXCEPT ![w.teacher] = Updated(w)]
        /\ Record(w.for, "applied")
        /\ \/ w.for = {} /\ Become(r, Idle)
           \/ \E c \in w.for : Become(r, [pc |-> "applied", change |-> c])
        /\ UNCHANGED change

-----------------------------------------------------------------------------
(* approve and reject                                                      *)

\* _get_pending
ReviewRead(r, c, pc) ==
    /\ work[r] = Idle
    /\ c \in Rows
    /\ change[c].status = "pending"
    /\ Become(r, [pc |-> pc, change |-> c])
    /\ UNCHANGED <<teacher, change, past>>

ApproveRead(r, c) == ReviewRead(r, c, "approve_read")

ApproveUpdate(r) ==
    /\ work[r].pc = "approve_read"
    /\ LET c == work[r].change IN UpdateRead(r, change[c].teacher, change[c].proposal, {c})

SetStatus(r, status) ==
    /\ work[r].change \in Rows
    /\ change' = [change EXCEPT ![work[r].change].status = status]
    /\ Become(r, Idle)
    /\ UNCHANGED teacher

\* Mutant: approve writes the status it read back.
ApproveStale(r) ==
    /\ work[r].pc = "applied"
    /\ SetStatus(r, "pending")
    /\ UNCHANGED past

\* The UPDATE names the row and not the status it was read with.
ApproveCommit(r) ==
    /\ work[r].pc = "applied"
    /\ SetStatus(r, "approved")
    /\ UNCHANGED past

RejectRead(r, c) == ReviewRead(r, c, "reject_read")

RejectCommit(r) ==
    /\ work[r].pc = "reject_read"
    /\ SetStatus(r, "rejected")
    /\ Record({c \in {work[r].change} : change[c].status # "pending"}, "overruled")

-----------------------------------------------------------------------------

\* The pictures are PictureStore's; a teacher with classes stays.
DeleteTeacher(t) ==
    /\ t \in DOMAIN teacher
    /\ teacher' = [u \in DOMAIN teacher \ {t} |-> teacher[u]]
    /\ UNCHANGED <<change, past, work>>

Abort(r) ==
    /\ work[r] # Idle
    /\ Become(r, Idle)
    /\ Record({c \in Changes : work[r].pc = "applied" /\ work[r].change = c}, "cut")
    /\ UNCHANGED <<teacher, change>>

Init ==
    /\ teacher \in [Teachers -> Row]
    /\ \A t, u \in Teachers : teacher[t].email = teacher[u].email => t = u
    /\ change = [c \in {} |-> c]
    /\ past = [c \in Changes |-> {}]
    /\ work = [r \in Requests |-> Idle]

Next ==
    \/ \E r \in Requests, t \in Teachers, p \in Bodies : CreateCheck(r, t, p) \/ PatchRead(r, t, p)
    \/ \E r \in Requests, c \in Changes : CreateCommit(r, c) \/ ApproveRead(r, c) \/ RejectRead(r, c)
    \/ \E r \in Requests :
          \/ UpdateCheck(r) \/ UpdateCommit(r)
          \/ ApproveUpdate(r) \/ ApproveCommit(r) \/ RejectCommit(r) \/ Abort(r)
    \/ \E t \in Teachers : DeleteTeacher(t)

Spec == Init /\ [][Next]_vars

-----------------------------------------------------------------------------
(* What must hold.                                                         *)

\* create's check and its index leave at most one request of a teacher open,
\* however many creates and reviews run at once.
OnePendingPerTeacher ==
    \A c, d \in Rows :
        change[c].status = "pending" /\ change[d].status = "pending"
          /\ change[c].teacher = change[d].teacher => c = d

\* No approval is recorded that did not apply: an update that is refused
\* leaves the request as it was.
ApprovedWasApplied == \A c \in DOMAIN change : change[c].status = "approved" => "applied" \in past[c]

\* Changes that are applied are recorded as approved, or an approve is about
\* to; but for an approve that ended between its two commits, and a reject
\* that read the request before the approval and wrote after it.
AppliedIsApproved ==
    \A c \in Rows :
        "applied" \in past[c] =>
            \/ change[c].status = "approved"
            \/ \E r \in Requests : work[r].pc = "applied" /\ work[r].change = c
            \/ {"cut", "overruled"} \cap past[c] # {}

\* The table of e-mails, as every other request sees it: a row at a time,
\* and no address twice.
EmailTable == INSTANCE KeyTable WITH
    Rows <- Teachers, Keys <- Emails, key <- [t \in DOMAIN teacher |-> {teacher[t].email}]

OneTeacherPerEmail == EmailTable!Spec

\* What ChangeRequestNotPendingError says: a request that has been reviewed
\* is not reviewed again.
ReviewStands ==
    \A c \in DOMAIN change : change[c].status # "pending" => change'[c].status = change[c].status

\* What the two commits of approve and the index behind create leave of a
\* teacher's requests, at any moment.
ReviewsAreSound == OnePendingPerTeacher /\ ApprovedWasApplied /\ AppliedIsApproved
=============================================================================

----------------------------- MODULE PictureStore -----------------------------
(***************************************************************************)
(* The profile picture of one record: save_profile_picture, the column     *)
(* upload_profile_picture then sets, and the delete that unlinks the file  *)
(* the column names before it removes the row.  Students and teachers do   *)
(* the same.                                                               *)
(*                                                                         *)
(* The server is one process: what lies between two awaits is one step.    *)
(* An upload opens <id>.<ext>.part and truncates it, writes a chunk at a   *)
(* time, and renames it to <id>.<ext>.  Two chunks stand for any number.   *)
(***************************************************************************)
EXTENDS Naturals

CONSTANTS
    Exts,       \* jpg, png, webp
    Inodes,     \* files there can be at once: a bound
    Requests    \* HTTP requests that can be under way at once

VARIABLES
    record,     \* the row: gone, or the extension its column names, if any
    dir,        \* the upload directory: the inode of each name there is
    bytes,      \* the chunks of each inode there is: whose upload wrote them
    past,       \* history, below
    work        \* each request's upload or delete

vars == <<record, dir, bytes, past, work>>

-----------------------------------------------------------------------------

FileNames == {"final", "part"} \X Exts
Chunks == {1, 2}

Empty == [i \in {} |-> i]
Row == [there: BOOLEAN, picture: {{}} \cup {{x} : x \in Exts}]

\* overlapped: extensions that two uploads were writing at once.
\* cut: a delete unlinked the picture and the row stayed.
Past == [overlapped: SUBSET Exts, cut: BOOLEAN]

Idle == [pc |-> "idle"]
Work ==
    {Idle} \cup [pc: {"writing", "written"}, loaded: {{}} \cup {{x} : x \in Exts}, ext: Exts, file: Inodes]
           \cup [pc: {"published"}, loaded: {{}} \cup {{x} : x \in Exts}, ext: Exts]
           \cup [pc: {"unlinked"}]

TypeOK ==
    /\ record \in Row
    /\ DOMAIN dir \subseteq FileNames
    /\ \A n \in DOMAIN dir : dir[n] \in DOMAIN bytes
    /\ DOMAIN bytes \subseteq Inodes
    /\ \A i \in DOMAIN bytes : bytes[i] \in UNION {[C -> Requests] : C \in SUBSET Chunks}
    /\ past \in Past
    /\ work \in [Requests -> Work]

Become(r, w) == work' = [work EXCEPT ![r] = w]

Without(n) == [m \in DOMAIN dir \ {n} |-> dir[m]]

\* The uploads that hold a file of this extension open.
Writing(x) == {r \in Requests : work[r].pc \in {"writing", "written"} /\ work[r].ext = x}

\* An inode is there while it has a name or an open handle.
Live ==
    {dir[n] : n \in DOMAIN dir}
      \cup {work[r].file : r \in {q \in Requests : work[q].pc \in {"writing", "written"}}}

Keep == bytes' = [i \in Live' |-> bytes[i]]

-----------------------------------------------------------------------------
(* upload_profile_picture                                                  *)

\* The record is loaded, the first chunk read and its type seen; open("wb")
\* takes the .part there is, whoever writes it, or a new one.
Open(r, x, i) ==
    /\ work[r] = Idle
    /\ record.there
    /\ IF <<"part", x>> \in DOMAIN dir
         THEN i = dir[<<"part", x>>]
         ELSE i \notin DOMAIN bytes
    /\ dir' = [n \in DOMAIN dir \cup {<<"part", x>>} |-> IF n = <<"part", x>> THEN i ELSE dir[n]]
    /\ bytes' = [j \in DOMAIN bytes \cup {i} |-> IF j = i THEN [c \in {1} |-> r] ELSE bytes[j]]
    /\ past' = [past EXCEPT !.overlapped = IF Writing(x) # {} THEN @ \cup {x} ELSE @]
    /\ Become(r, [pc |-> "writing", loaded |-> record.picture, ext |-> x, file |-> i])
    /\ UNCHANGED record

\* Mutant: the file is renamed before its last chunk is written.
WritePublished(r) ==
    LET w == work[r]
    IN  /\ w.pc = "writing"
        /\ <<"part", w.ext>> \in DOMAIN dir
        /\ dir' = [n \in (DOMAIN dir \ {<<"part", w.ext>>}) \cup {<<"final", w.ext>>} |->
                      IF n = <<"final", w.ext>> THEN dir[<<"part", w.ext>>] ELSE dir[n]]
        /\ Become(r, [pc |-> "published", loaded |-> w.loaded, ext |-> w.ext])
        /\ Keep
        /\ UNCHANGED <<record, past>>

Write(r) ==
    LET w == work[r]
    IN  /\ w.pc = "writing"
        /\ bytes' = [bytes EXCEPT ![w.file] = [c \in DOMAIN @ \cup {2} |-> IF c = 2 THEN r ELSE @[c]]]
        /\ Become(r, [w EXCEPT !.pc = "written"])
        /\ UNCHANGED <<record, dir, past>>

\* FileTooLargeError, or a read that fails: the .part is unlinked.
GiveUp(r) ==
    LET w == work[r]
    IN  /\ w.pc \in {"writing", "written"}
        /\ dir' = Without(<<"part", w.ext>>)
        /\ Become(r, Idle)
        /\ Keep
        /\ UNCHANGED <<record, past>>

\* The rename; where another upload has renamed the .part already, it fails.
Publish(r) ==
    LET w == work[r]
        part == <<"part", w.ext>>
        final == <<"final", w.ext>>
    IN  /\ w.pc = "written"
        /\ IF part \in DOMAIN dir
             THEN /\ dir' = [n \in (DOMAIN dir \ {part}) \cup {final} |->
                                IF n = final THEN dir[part] ELSE dir[n]]
                  /\ Become(r, [pc |-> "published", loaded |-> w.loaded, ext |-> w.ext])
             ELSE Become(r, Idle) /\ UNCHANGED dir
        /\ Keep
        /\ UNCHANGED <<record, past>>

\* The UPDATE writes the column if it differs from the row as loaded; the
\* picture of another extension keeps its file.
SetColumn(r) ==
    LET w == work[r]
    IN  /\ w.pc = "published"
        /\ record.there
        /\ record' = IF w.loaded = {w.ext} THEN record ELSE [record EXCEPT !.picture = {w.ext}]
        /\ Become(r, Idle)
        /\ UNCHANGED <<dir, bytes, past>>

-----------------------------------------------------------------------------
(* delete                                                                  *)

Unlink(r) ==
    /\ work[r] = Idle
    /\ record.there
    /\ dir' = [n \in {m \in DOMAIN dir : m[1] = "part" \/ m[2] \notin record.picture} |-> dir[n]]
    /\ Become(r, [pc |-> "unlinked"])
    /\ Keep
    /\ UNCHANGED <<record, past>>

RemoveRow(r) ==
    /\ work[r].pc = "unlinked"
    /\ record' = [there |-> FALSE, picture |-> {}]
    /\ Become(r, Idle)
    /\ UNCHANGED <<dir, bytes, past>>

\* A crash or a cancelled request; a delete also where the row is referred
\* to (RESTRICT).  A .part stays, and its writer's handle is closed.
Abort(r) ==
    /\ work[r] # Idle
    /\ past' = [past EXCEPT !.cut = @ \/ work[r].pc = "unlinked"]
    /\ Become(r, Idle)
    /\ UNCHANGED <<record, dir>>
    /\ Keep

Init ==
    /\ record = [there |-> TRUE, picture |-> {}]
    /\ dir = [n \in {} |-> n]
    /\ bytes = Empty
    /\ past = [overlapped |-> {}, cut |-> FALSE]
    /\ work = [r \in Requests |-> Idle]

Next ==
    \E r \in Requests :
        \/ \E x \in Exts, i \in Inodes : Open(r, x, i)
        \/ Write(r) \/ GiveUp(r) \/ Publish(r) \/ SetColumn(r)
        \/ Unlink(r) \/ RemoveRow(r) \/ Abort(r)

Spec == Init /\ [][Next]_vars

-----------------------------------------------------------------------------
(* What must hold.                                                         *)

\* A picture that is served has every chunk of one upload and of no other,
\* be the upload cut short, too large, or one of several: unless two of them
\* wrote the same extension at once, when the first rename publishes a file
\* the second still writes to.
PublishedIsWhole ==
    \A n \in DOMAIN dir :
        n[1] = "final" /\ n[2] \notin past.overlapped =>
            \E r \in Requests : bytes[dir[n]] = [c \in Chunks |-> r]

\* The picture a record names is there, unless a delete has unlinked it and
\* is about to remove the row, or did not.
ColumnNamesFile ==
    \A x \in record.picture :
        \/ <<"final", x>> \in DOMAIN dir
        \/ past.cut
        \/ \E r \in Requests : work[r].pc = "unlinked"

\* Files and the column that names them go together.
PicturesHold == PublishedIsWhole /\ ColumnNamesFile
=============================================================================

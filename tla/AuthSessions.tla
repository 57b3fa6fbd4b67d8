----------------------------- MODULE AuthSessions -----------------------------
(***************************************************************************)
(* Sessions and their refresh tokens: AuthService.login, login_with_pin,   *)
(* refresh and logout, run by concurrent requests.                         *)
(*                                                                         *)
(* A step is the part of a request up to its next await on the database.   *)
(* The UPDATEs of rotate and logout hold the row from the statement to the *)
(* commit that follows it, so each is one step.  A request refused, or cut *)
(* short by a failure, changes no row.  Hashing is injective: the model    *)
(* compares tokens where the code compares their hashes.                   *)
(***************************************************************************)
EXTENDS Naturals

CONSTANTS
    Users,      \* accounts
    Sessions,   \* rows there can be
    Tokens,     \* refresh tokens there can be
    Requests,   \* requests that can be open at the same time
    Lifetime,   \* refresh_token_expire_days
    MaxTime,    \* bound on the clock
    None        \* no row, no session, no token

ASSUME AuthAssumption ==
    /\ Lifetime \in Nat /\ MaxTime \in Nat
    /\ None \notin Users \cup Sessions \cup Tokens

VARIABLES
    now,        \* the clock
    active,     \* users: is_active
    session,    \* sessions: the row of each, or None
    req,        \* the open request of each client
    sent        \* the answers the server has given

vars == <<now, active, session, req, sent>>

-----------------------------------------------------------------------------

Row == [user: Users, token: Tokens, revoked: BOOLEAN, expires: Nat]

ASSUME NoneIsNoRow == None \notin Row

\* What an answer tells: the token presented and the one given, of which
\* session, and the time a login or a refresh looked at.
Answer == [op: {"login", "refresh", "logout", "nothing_to_log_out"}, sid: Sessions \cup {None},
           old: Tokens \cup {None}, new: Tokens \cup {None}, at: Nat]

PCs == {"idle", "opening", "refresh", "checked", "rotating", "logout", "ending"}

\* sid: the session whose token the request brought when it came, then the
\* one it has read.
Request == [pc: PCs, user: Users \cup {None}, sid: Sessions \cup {None},
            token: Tokens \cup {None}, at: Nat]

Idle == [pc |-> "idle", user |-> None, sid |-> None, token |-> None, at |-> 0]

\* The fields a request has at each pc.
WellFormed(q) ==
    /\ q.pc \in {"opening", "checked", "rotating"} => q.user \in Users
    /\ q.pc \in {"checked", "rotating", "ending"} => q.sid \in Sessions
    /\ q.pc \in {"refresh", "checked", "rotating", "logout", "ending"} => q.token \in Tokens

TypeOK ==
    /\ now \in Nat
    /\ active \in [Users -> BOOLEAN]
    /\ session \in [Sessions -> Row \cup {None}]
    /\ req \in [Requests -> Request]
    /\ sent \subseteq Answer
    /\ \A r \in Requests : WellFormed(req[r])

Open == {s \in Sessions : session[s] # None}

Holds(s, t) == s \in Open /\ session[s].token = t

\* generate_refresh_token: no token is drawn twice.
Fresh(t) == (\A s \in Open : session[s].token # t) /\ (\A a \in sent : t \notin {a.old, a.new})

Become(r, q) == req' = [req EXCEPT ![r] = q]
Finish(r) == Become(r, Idle)

-----------------------------------------------------------------------------
(* login and login_with_pin                                                *)

\* The credentials are right and the account, as read, is active.
Login(r, u) ==
    /\ req[r].pc = "idle"
    /\ active[u]
    /\ Become(r, [Idle EXCEPT !.pc = "opening", !.user = u])
    /\ UNCHANGED <<now, active, session, sent>>

IssueSession(r, s, t) ==
    /\ req[r].pc = "opening"
    /\ s \notin Open /\ Fresh(t)
    /\ session' = [session EXCEPT ![s] =
         [user |-> req[r].user, token |-> t, revoked |-> FALSE, expires |-> now + Lifetime]]
    /\ sent' = sent \cup {[op |-> "login", sid |-> s, old |-> None, new |-> t, at |-> now]}
    /\ Finish(r)
    /\ UNCHANGED <<now, active>>

-----------------------------------------------------------------------------
(* A token comes in, at any time, any number of times, from anyone.        *)

Present(r, a, op) ==
    /\ req[r].pc = "idle"
    /\ a.new # None
    /\ Become(r, [Idle EXCEPT !.pc = op, !.token = a.new,
                              !.sid = IF Holds(a.sid, a.new) THEN a.sid ELSE None])
    /\ UNCHANGED <<now, active, session, sent>>

-----------------------------------------------------------------------------
(* refresh                                                                 *)

\* The token is some session's, neither revoked nor expired.
RefreshRead(r) ==
    /\ req[r].pc = "refresh"
    /\ \/ \E s \in Open :
            /\ Holds(s, req[r].token) /\ ~session[s].revoked /\ session[s].expires >= now
            /\ Become(r, [req[r] EXCEPT !.pc = "checked", !.sid = s,
                                        !.user = session[s].user, !.at = now])
       \/ /\ \A s \in Open :
               Holds(s, req[r].token) => session[s].revoked \/ session[s].expires < now
          /\ Finish(r)
    /\ UNCHANGED <<now, active, session, sent>>

RefreshUser(r) ==
    /\ req[r].pc = "checked"
    /\ IF active[req[r].user] THEN Become(r, [req[r] EXCEPT !.pc = "rotating"]) ELSE Finish(r)
    /\ UNCHANGED <<now, active, session, sent>>

Exchange(r, t) ==
    /\ sent' = sent \cup {[op |-> "refresh", sid |-> req[r].sid, old |-> req[r].token,
                           new |-> t, at |-> req[r].at]}
    /\ Finish(r)
    /\ UNCHANGED <<now, active>>

\* Mutant: the row as read is written back.
RotateByKey(r, t) ==
    /\ req[r].pc = "rotating" /\ Fresh(t)
    /\ session' = [session EXCEPT ![req[r].sid].token = t]
    /\ Exchange(r, t)

\* Mutant: rotate does not look at revoked_at.
RotateRevoked(r, t) ==
    /\ req[r].pc = "rotating" /\ Fresh(t)
    /\ \/ \E s \in Open :
            /\ Holds(s, req[r].token)
            /\ session' = [session EXCEPT ![s].token = t]
            /\ Exchange(r, t)
       \/ /\ \A s \in Open : ~Holds(s, req[r].token)
          /\ Finish(r) /\ UNCHANGED <<now, active, session, sent>>

\* Mutant: each refresh extends the session.
RotateSliding(r, t) ==
    /\ req[r].pc = "rotating" /\ Fresh(t)
    /\ \/ \E s \in Open :
            /\ Holds(s, req[r].token) /\ ~session[s].revoked
            /\ session' = [session EXCEPT ![s].token = t, ![s].expires = now + Lifetime]
            /\ Exchange(r, t)
       \/ /\ \A s \in Open : Holds(s, req[r].token) => session[s].revoked
          /\ Finish(r) /\ UNCHANGED <<now, active, session, sent>>

\* SessionRepository.rotate: one UPDATE where the token is still the same and
\* revoked_at is null.
Rotate(r, t) ==
    /\ req[r].pc = "rotating" /\ Fresh(t)
    /\ \/ \E s \in Open :
            /\ Holds(s, req[r].token) /\ ~session[s].revoked
            /\ session' = [session EXCEPT ![s].token = t]
            /\ Exchange(r, t)
       \/ /\ \A s \in Open : Holds(s, req[r].token) => session[s].revoked
          /\ Finish(r) /\ UNCHANGED <<now, active, session, sent>>

-----------------------------------------------------------------------------
(* logout                                                                  *)

LoggedOut(r, op) ==
    /\ sent' = sent \cup {[op |-> op, sid |-> req[r].sid, old |-> req[r].token,
                           new |-> None, at |-> 0]}
    /\ Finish(r)

\* Mutant: a token that no session has is not noticed.
LogoutReadUnchecked(r) ==
    /\ req[r].pc = "logout"
    /\ Become(r, [req[r] EXCEPT !.pc = "ending",
                    !.sid = IF \E s \in Open : Holds(s, req[r].token)
                            THEN CHOOSE s \in Open : Holds(s, req[r].token) ELSE None])
    /\ UNCHANGED <<now, active, session, sent>>

\* An unknown or already revoked token is not an error.
LogoutRead(r) ==
    /\ req[r].pc = "logout"
    /\ \/ \E s \in Open :
            /\ Holds(s, req[r].token) /\ ~session[s].revoked
            /\ Become(r, [req[r] EXCEPT !.pc = "ending", !.sid = s])
            /\ UNCHANGED sent
       \/ /\ \A s \in Open : Holds(s, req[r].token) => session[s].revoked
          /\ LoggedOut(r, "nothing_to_log_out")
    /\ UNCHANGED <<now, active, session>>

\* Mutant: the row is looked for by its token, as rotate does.
LogoutByToken(r) ==
    /\ req[r].pc = "ending"
    /\ session' = [s \in Sessions |->
         IF Holds(s, req[r].token) THEN [session[s] EXCEPT !.revoked = TRUE] ELSE session[s]]
    /\ LoggedOut(r, "logout")
    /\ UNCHANGED <<now, active>>

\* revoked_at is written by primary key, whatever the token is by now.
LogoutCommit(r) ==
    /\ req[r].pc = "ending"
    /\ session' = [session EXCEPT ![req[r].sid].revoked = TRUE]
    /\ LoggedOut(r, "logout")
    /\ UNCHANGED <<now, active>>

-----------------------------------------------------------------------------
(* Time passes, accounts are deactivated and reactivated, requests die.    *)

Tick == now < MaxTime /\ now' = now + 1 /\ UNCHANGED <<active, session, req, sent>>

SetActive(u, b) ==
    active' = [active EXCEPT ![u] = b] /\ UNCHANGED <<now, session, req, sent>>

Abort(r) == req[r].pc # "idle" /\ Finish(r) /\ UNCHANGED <<now, active, session, sent>>

Init ==
    /\ now = 0
    /\ active \in [Users -> BOOLEAN]
    /\ session = [s \in Sessions |-> None]
    /\ req = [r \in Requests |-> Idle]
    /\ sent = {}

Next ==
    \/ Tick
    \/ \E u \in Users, b \in BOOLEAN : SetActive(u, b)
    \/ \E r \in Requests :
         \/ \E u \in Users : Login(r, u)
         \/ \E s \in Sessions, t \in Tokens : IssueSession(r, s, t)
         \/ \E a \in sent, op \in {"refresh", "logout"} : Present(r, a, op)
         \/ RefreshRead(r) \/ RefreshUser(r) \/ (\E t \in Tokens : Rotate(r, t))
         \/ LogoutRead(r) \/ LogoutCommit(r)
         \/ Abort(r)

Spec == Init /\ [][Next]_vars

-----------------------------------------------------------------------------
(* What must hold.                                                         *)

\* However many requests bring the same token, at most one is given the next:
\* of two holders of a token only one goes on.
ExchangedOnce ==
    \A a, b \in sent : a.op = "refresh" /\ b.op = "refresh" /\ a.old = b.old => a = b

\* Once a session is revoked none of its tokens is exchanged any more, not
\* even by a refresh that had already been let through.
RevokedForGood ==
    [][\A s \in Open : session[s].revoked => session'[s] = session[s]]_vars

\* A logout that found its session has ended it for good, even if the token
\* was rotated away between its read and its write.
LogoutEndsSession == \A a \in sent : a.op = "logout" => session[a.sid].revoked

\* No token is given for one checked later than a session's lifetime after
\* its login, however often it was refreshed.
AbsoluteExpiry ==
    \A l, a \in sent : l.op = "login" /\ a.op = "refresh" /\ a.sid = l.sid => a.at <= l.at + Lifetime

\* What ADR 0009 says of logout: whoever is told that a session is logged out,
\* having brought the token it then had, finds it ended.
LogoutEnsuresInactive ==
    \A a \in sent : a.op \in {"logout", "nothing_to_log_out"} /\ a.sid # None => session[a.sid].revoked

-----------------------------------------------------------------------------
(* The inductive invariant.                                                *)

\* A token is given once, for one session; a spent token is no session's.
TokensOnce ==
    /\ \A a, b \in sent : a.new = b.new /\ a.new # None => a = b
    /\ \A s \in Open : \E a \in sent : a.sid = s /\ a.new = session[s].token
    /\ \A a \in sent : a.op = "refresh" => \A s \in Open : ~Holds(s, a.old)
    /\ \A r \in Requests : req[r].pc \in {"checked", "rotating"} =>
          \E a \in sent : a.sid = req[r].sid /\ a.new = req[r].token

\* Sessions keep the lifetime of their login, and what a refresh has checked
\* of the session whose token it brought.
Lifetimes ==
    /\ \A l \in sent : l.op = "login" => l.sid \in Open /\ session[l.sid].expires = l.at + Lifetime
    /\ \A a \in sent : a.op = "refresh" => a.sid \in Open /\ a.at <= session[a.sid].expires
    /\ \A r \in Requests : req[r].pc \in {"checked", "rotating"} =>
          req[r].sid \in Open /\ req[r].at <= session[req[r].sid].expires

\* A logout writes to a session there is.
Endings ==
    /\ \A r \in Requests : req[r].pc = "ending" => req[r].sid \in Open
    /\ \A a \in sent : a.op = "logout" => a.sid \in Open /\ session[a.sid].revoked

Inductive == TypeOK /\ TokensOnce /\ Lifetimes /\ Endings /\ ExchangedOnce

\* No refresh exchanges a token between the arrival of a logout that brought it
\* and the logout's read.
NoExchangeBeforeRead ==
    \A r \in Requests : req[r].pc = "logout" /\ req[r].sid # None =>
        session'[req[r].sid].token = session[req[r].sid].token

\* Without that, the logout finds the session it came to end.
LogoutsFind ==
    /\ \A r \in Requests :
         req[r].pc = "logout" /\ req[r].sid # None => Holds(req[r].sid, req[r].token)
    /\ \A a \in sent : a.op = "nothing_to_log_out" /\ a.sid # None =>
         a.sid \in Open /\ session[a.sid].revoked
=============================================================================

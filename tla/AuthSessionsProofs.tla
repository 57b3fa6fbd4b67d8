-------------------------- MODULE AuthSessionsProofs --------------------------
(* Theorems about AuthSessions for every set of accounts, sessions, tokens *)
(* and requests.                                                           *)
EXTENDS AuthSessions, TLAPS

-----------------------------------------------------------------------------
(* Steps that move one request on and touch no table.                      *)

LEMMA IdleType == Idle \in Request /\ WellFormed(Idle) /\ Idle.pc = "idle"
  BY DEF Idle, Request, PCs, WellFormed

LEMMA FoundRow ==
    ASSUME Inductive, NEW s \in Open
    PROVE  session[s] \in Row /\ s \in Sessions
  BY DEF Inductive, TypeOK, Open

\* A request in its next state, the tables as they are.
Moves(r, q) == Become(r, q) /\ UNCHANGED <<now, active, session>>

\* What a request in progress relies on.
GoodRequest(q) ==
    /\ q.pc \in {"checked", "rotating"} =>
         /\ q.sid \in Open /\ q.at <= session[q.sid].expires
         /\ \E a \in sent : a.sid = q.sid /\ a.new = q.token
    /\ q.pc = "ending" => q.sid \in Open

LEMMA MovesInv ==
    ASSUME Inductive, NEW r \in Requests, NEW q \in Request, WellFormed(q), GoodRequest(q),
           Moves(r, q), UNCHANGED sent
    PROVE  Inductive'
  <1>1. UNCHANGED <<now, active, session, sent, Open>>
    BY DEF Moves, Open
  <1>2. \A p \in Requests : req'[p] = IF p = r THEN q ELSE req[p]
    BY DEF Moves, Become, Inductive, TypeOK
  <1>3. TypeOK'
    BY <1>1, <1>2 DEF Moves, Become, Inductive, TypeOK, WellFormed
  <1>4. TokensOnce' /\ ExchangedOnce'
    BY <1>1, <1>2 DEF Inductive, TokensOnce, ExchangedOnce, Holds, GoodRequest
  <1>5. Lifetimes'
    BY <1>1, <1>2 DEF Inductive, Lifetimes, GoodRequest
  <1>6. Endings'
    BY <1>1, <1>2 DEF Inductive, Endings, GoodRequest
  <1> QED BY <1>3, <1>4, <1>5, <1>6 DEF Inductive

\* A request that is refused or dies.
LEMMA FinishInv ==
    ASSUME Inductive, NEW r \in Requests, Finish(r), UNCHANGED <<now, active, session, sent>>
    PROVE  Inductive'
  <1>1. Moves(r, Idle) /\ Idle \in Request /\ WellFormed(Idle) /\ GoodRequest(Idle)
    BY IdleType DEF Finish, Moves, GoodRequest
  <1> QED BY <1>1, MovesInv

-----------------------------------------------------------------------------
(* login                                                                   *)

LEMMA LoginInv ==
    ASSUME Inductive, NEW r \in Requests, NEW u \in Users, Login(r, u)
    PROVE  Inductive'
  <1> DEFINE q == [Idle EXCEPT !.pc = "opening", !.user = u]
  <1>1. q \in Request /\ WellFormed(q) /\ GoodRequest(q)
    BY DEF Idle, Request, PCs, WellFormed, GoodRequest
  <1>2. Moves(r, q) /\ UNCHANGED sent
    BY DEF Login, Moves
  <1> HIDE DEF q
  <1> QED BY <1>1, <1>2, MovesInv

\* An answer added and a row written in one step, the request at its end.
Answers(r, a) ==
    /\ sent' = sent \cup {a}
    /\ Become(r, Idle)
    /\ UNCHANGED <<now, active>>

LEMMA AnswersType ==
    ASSUME Inductive, NEW r \in Requests, NEW a \in Answer, Answers(r, a),
           session' \in [Sessions -> Row \cup {None}]
    PROVE  TypeOK' /\ \A p \in Requests : req'[p] = IF p = r THEN Idle ELSE req[p]
  <1>1. \A p \in Requests : req'[p] = IF p = r THEN Idle ELSE req[p]
    BY DEF Answers, Become, Inductive, TypeOK
  <1>2. req' \in [Requests -> Request] /\ \A p \in Requests : WellFormed(req'[p])
    BY <1>1, IdleType DEF Answers, Become, Inductive, TypeOK
  <1> QED BY <1>1, <1>2 DEF Answers, Inductive, TypeOK, WellFormed

LEMMA IssueSessionInv ==
    ASSUME Inductive, NEW r \in Requests, NEW s \in Sessions, NEW t \in Tokens, IssueSession(r, s, t)
    PROVE  Inductive'
  <1> DEFINE a == [op |-> "login", sid |-> s, old |-> None, new |-> t, at |-> now]
             row == [user |-> req[r].user, token |-> t, revoked |-> FALSE, expires |-> now + Lifetime]
  <1>0. req[r].user \in Users /\ now \in Nat /\ now + Lifetime \in Nat
    BY AuthAssumption DEF IssueSession, Inductive, TypeOK, WellFormed
  <1>1. row \in Row /\ a \in Answer /\ row # None
    <2>1. row \in Row
      BY <1>0 DEF Row
    <2>2. a \in Answer
      BY <1>0 DEF Answer
    <2> QED BY <2>1, <2>2, NoneIsNoRow
  <1>2. Answers(r, a) /\ session' = [session EXCEPT ![s] = row]
    BY DEF IssueSession, Answers, Finish
  <1>3. s \notin Open /\ Fresh(t)
    BY DEF IssueSession
  <1>4. session' \in [Sessions -> Row \cup {None}] /\ \A x \in Sessions : session'[x] = IF x = s THEN row ELSE session[x]
    BY <1>1, <1>2 DEF Inductive, TypeOK
  <1>5. TypeOK' /\ \A p \in Requests : req'[p] = IF p = r THEN Idle ELSE req[p]
    BY <1>1, <1>2, <1>4, AnswersType
  <1>6. Open' = Open \cup {s} /\ \A x \in Open : x # s /\ session'[x] = session[x]
    BY <1>1, <1>3, <1>4 DEF Open
  <1>7. sent' = sent \cup {a} /\ a.op = "login" /\ a.sid = s /\ a.new = t /\ a.at = now
    BY <1>2 DEF Answers
  <1>8. session'[s] = row /\ row.token = t /\ row.expires = now + Lifetime
    BY <1>4
  <1> HIDE DEF a, row
  <1>9. TokensOnce'
    <2>1. \A b, c \in sent' : b.new = c.new /\ b.new # None => b = c
      BY <1>3, <1>7 DEF Inductive, TokensOnce, Fresh
    <2>2. \A x \in Open' : \E b \in sent' : b.sid = x /\ b.new = session'[x].token
      BY <1>6, <1>7, <1>8 DEF Inductive, TokensOnce
    <2>3. \A b \in sent' : b.op = "refresh" => \A x \in Open' : ~Holds(x, b.old)'
      BY <1>3, <1>6, <1>7, <1>8 DEF Inductive, TokensOnce, Fresh, Holds
    <2>4. \A p \in Requests : req'[p].pc \in {"checked", "rotating"} =>
            \E b \in sent' : b.sid = req'[p].sid /\ b.new = req'[p].token
      BY <1>5, <1>7, IdleType DEF Inductive, TokensOnce
    <2> QED BY <2>1, <2>2, <2>3, <2>4 DEF TokensOnce
  <1>10. ExchangedOnce'
    BY <1>7 DEF Inductive, ExchangedOnce
  <1>11. Lifetimes'
    BY <1>5, <1>6, <1>7, <1>8, IdleType DEF Inductive, Lifetimes
  <1>12. Endings'
    BY <1>5, <1>6, <1>7, IdleType DEF Inductive, Endings
  <1> QED BY <1>5, <1>9, <1>10, <1>11, <1>12 DEF Inductive

-----------------------------------------------------------------------------
(* refresh                                                                 *)

LEMMA PresentInv ==
    ASSUME Inductive, NEW r \in Requests, NEW a \in sent, NEW op \in {"refresh", "logout"}, Present(r, a, op)
    PROVE  Inductive'
  <1> DEFINE q == [Idle EXCEPT !.pc = op, !.token = a.new, !.sid = IF Holds(a.sid, a.new) THEN a.sid ELSE None]
  <1>1. a.new \in Tokens /\ a.sid \in Sessions \cup {None}
    BY DEF Present, Inductive, TypeOK, Answer
  <1>2. q \in Request /\ WellFormed(q) /\ GoodRequest(q)
    BY <1>1 DEF Idle, Request, PCs, WellFormed, GoodRequest
  <1>3. Moves(r, q) /\ UNCHANGED sent
    BY DEF Present, Moves
  <1> HIDE DEF q
  <1> QED BY <1>2, <1>3, MovesInv

LEMMA RefreshReadInv ==
    ASSUME Inductive, NEW r \in Requests, RefreshRead(r)
    PROVE  Inductive'
  <1>1. ASSUME NEW s \in Open, Holds(s, req[r].token), session[s].expires >= now,
               Become(r, [req[r] EXCEPT !.pc = "checked", !.sid = s, !.user = session[s].user, !.at = now]),
               UNCHANGED <<now, active, session, sent>>
        PROVE  Inductive'
    <2> DEFINE q == [req[r] EXCEPT !.pc = "checked", !.sid = s, !.user = session[s].user, !.at = now]
    <2>1. req[r] \in Request /\ req[r].token \in Tokens /\ now \in Nat
      BY DEF RefreshRead, Inductive, TypeOK, WellFormed
    <2>2. session[s] \in Row /\ s \in Sessions
      BY FoundRow
    <2>3. q \in Request /\ WellFormed(q)
      BY <2>1, <2>2 DEF Request, PCs, WellFormed, Row
    <2>4. GoodRequest(q)
      <3>1. \E a \in sent : a.sid = s /\ a.new = req[r].token
        BY <1>1 DEF Holds, Inductive, TokensOnce
      <3> QED BY <1>1, <2>1, <2>2, <3>1 DEF GoodRequest, Request, Row
    <2>5. Moves(r, q)
      BY <1>1 DEF Moves
    <2> HIDE DEF q
    <2> QED BY <1>1, <2>3, <2>4, <2>5, MovesInv
  <1> QED BY <1>1, FinishInv DEF RefreshRead

LEMMA RefreshUserInv ==
    ASSUME Inductive, NEW r \in Requests, RefreshUser(r)
    PROVE  Inductive'
  <1> DEFINE q == [req[r] EXCEPT !.pc = "rotating"]
  <1>1. req[r] \in Request /\ WellFormed(req[r]) /\ req[r].pc = "checked"
    BY DEF RefreshUser, Inductive, TypeOK
  <1>2. GoodRequest(req[r])
    BY DEF Inductive, TokensOnce, Lifetimes, Endings, GoodRequest
  <1>3. q \in Request /\ WellFormed(q) /\ GoodRequest(q)
    BY <1>1, <1>2 DEF Request, PCs, WellFormed, GoodRequest
  <1>4. (Moves(r, q) /\ UNCHANGED sent) \/ (Finish(r) /\ UNCHANGED <<now, active, session, sent>>)
    BY DEF RefreshUser, Moves
  <1> HIDE DEF q
  <1> QED BY <1>3, <1>4, MovesInv, FinishInv

\* The session whose token is exchanged is the one the request has read.
LEMMA SameSession ==
    ASSUME Inductive, NEW r \in Requests, req[r].pc = "rotating", NEW s \in Open, Holds(s, req[r].token)
    PROVE  s = req[r].sid
  <1>1. req[r].token # None
    BY AuthAssumption DEF Inductive, TypeOK, WellFormed
  <1>2. PICK a \in sent : a.sid = req[r].sid /\ a.new = req[r].token
    BY DEF Inductive, TokensOnce
  <1>3. PICK b \in sent : b.sid = s /\ b.new = req[r].token
    BY DEF Inductive, TokensOnce, Holds
  <1> QED BY <1>1, <1>2, <1>3 DEF Inductive, TokensOnce

LEMMA ExchangeInv ==
    ASSUME Inductive, NEW r \in Requests, NEW t \in Tokens, NEW s \in Open,
           req[r].pc = "rotating", Fresh(t), Holds(s, req[r].token), ~session[s].revoked,
           session' = [session EXCEPT ![s].token = t], Exchange(r, t)
    PROVE  Inductive'
  <1> DEFINE a == [op |-> "refresh", sid |-> req[r].sid, old |-> req[r].token, new |-> t, at |-> req[r].at]
             row == [session[s] EXCEPT !.token = t]
  <1>1. /\ session[s] \in Row /\ s \in Sessions /\ req[r] \in Request /\ req[r].token \in Tokens
        /\ req[r].sid = s /\ req[r].at <= session[s].expires
    BY FoundRow, SameSession DEF Inductive, TypeOK, WellFormed, Lifetimes
  <1>2. /\ row \in Row /\ row # None /\ row.token = t /\ row.revoked = session[s].revoked
        /\ row.expires = session[s].expires /\ a \in Answer
    BY <1>1, NoneIsNoRow DEF Row, Answer, Request
  <1>3. Answers(r, a)
    BY DEF Exchange, Finish, Answers
  <1>4. /\ session' \in [Sessions -> Row \cup {None}]
        /\ \A x \in Sessions : session'[x] = IF x = s THEN row ELSE session[x]
    BY <1>1, <1>2 DEF Inductive, TypeOK
  <1>5. TypeOK' /\ \A p \in Requests : req'[p] = IF p = r THEN Idle ELSE req[p]
    BY <1>2, <1>3, <1>4, AnswersType
  <1>6. Open' = Open
    BY <1>1, <1>2, <1>4 DEF Open
  <1>7. /\ sent' = sent \cup {a} /\ a.op = "refresh" /\ a.sid = s
        /\ a.new = t /\ a.old = session[s].token /\ a.at = req[r].at
    BY <1>1, <1>3 DEF Answers, Holds
  <1>8. \A x \in Open : session'[x] = IF x = s THEN row ELSE session[x]
    BY <1>4 DEF Open
  <1>9. \A x \in Open : session'[x].expires = session[x].expires /\ session'[x].revoked = session[x].revoked
    BY <1>2, <1>8
  <1>10. \A x \in Open : session[x].token # t
    BY DEF Fresh
  <1>11. \A x \in Open : x # s => session[x].token # session[s].token
    <2>1. SUFFICES ASSUME NEW x \in Open, session[x].token = session[s].token PROVE x = s
      OBVIOUS
    <2>2. Holds(x, req[r].token)
      BY <2>1 DEF Holds
    <2> QED BY <1>1, <2>2, SameSession
  <1> HIDE DEF a, row
  <1>12. TokensOnce'
    <2>1. \A b, c \in sent' : b.new = c.new /\ b.new # None => b = c
      BY <1>7 DEF Inductive, TokensOnce, Fresh
    <2>2. \A x \in Open' : \E b \in sent' : b.sid = x /\ b.new = session'[x].token
      BY <1>2, <1>6, <1>7, <1>8 DEF Inductive, TokensOnce
    <2>3. \A b \in sent' : b.op = "refresh" => \A x \in Open' : ~Holds(x, b.old)'
      <3>1. ASSUME NEW b \in sent, b.op = "refresh", NEW x \in Open PROVE session'[x].token # b.old
        BY <1>2, <1>8, <3>1 DEF Inductive, TokensOnce, Holds, Fresh
      <3>2. ASSUME NEW x \in Open PROVE session'[x].token # a.old
        BY <1>2, <1>7, <1>8, <1>10, <1>11
      <3> QED BY <1>6, <1>7, <3>1, <3>2 DEF Holds
    <2>4. \A p \in Requests : req'[p].pc \in {"checked", "rotating"} =>
            \E b \in sent' : b.sid = req'[p].sid /\ b.new = req'[p].token
      BY <1>5, <1>7, IdleType DEF Inductive, TokensOnce
    <2> QED BY <2>1, <2>2, <2>3, <2>4 DEF TokensOnce
  <1>13. ExchangedOnce'
    <2>1. ASSUME NEW b \in sent, b.op = "refresh" PROVE b.old # a.old
      BY <1>7, <2>1 DEF Inductive, TokensOnce, Holds
    <2> QED BY <1>7, <2>1 DEF Inductive, ExchangedOnce
  <1>14. Lifetimes'
    BY <1>1, <1>5, <1>6, <1>7, <1>9, IdleType DEF Inductive, Lifetimes
  <1>15. Endings'
    BY <1>5, <1>6, <1>7, <1>9, IdleType DEF Inductive, Endings
  <1> QED BY <1>5, <1>12, <1>13, <1>14, <1>15 DEF Inductive

LEMMA RotateInv ==
    ASSUME Inductive, NEW r \in Requests, NEW t \in Tokens, Rotate(r, t)
    PROVE  Inductive'
  BY ExchangeInv, FinishInv DEF Rotate

-----------------------------------------------------------------------------
(* logout                                                                  *)

\* A logout answered: at most one session's revoked_at changes.
LEMMA LoggedOutInv ==
    ASSUME Inductive, NEW r \in Requests, NEW op \in {"logout", "nothing_to_log_out"},
           req[r].token \in Tokens, LoggedOut(r, op), UNCHANGED <<now, active>>,
           session' \in [Sessions -> Row \cup {None}], Open' = Open,
           \A x \in Open : session'[x].token = session[x].token /\ session'[x].expires = session[x].expires,
           \A x \in Open : session[x].revoked => session'[x].revoked,
           op = "logout" => req[r].sid \in Open /\ session'[req[r].sid].revoked
    PROVE  Inductive'
  <1> DEFINE a == [op |-> op, sid |-> req[r].sid, old |-> req[r].token, new |-> None, at |-> 0]
  <1>1. a \in Answer
    BY DEF Inductive, TypeOK, Request, Answer
  <1>2. Answers(r, a)
    BY DEF LoggedOut, Finish, Answers
  <1>3. TypeOK' /\ \A p \in Requests : req'[p] = IF p = r THEN Idle ELSE req[p]
    BY <1>1, <1>2, AnswersType
  <1>4. sent' = sent \cup {a} /\ a.op = op /\ a.sid = req[r].sid /\ a.new = None
    BY <1>2 DEF Answers
  <1> HIDE DEF a
  <1>5. TokensOnce'
    BY <1>3, <1>4, IdleType DEF Inductive, TokensOnce, Holds
  <1>6. ExchangedOnce'
    BY <1>4 DEF Inductive, ExchangedOnce
  <1>7. Lifetimes'
    BY <1>3, <1>4, IdleType DEF Inductive, Lifetimes
  <1>8. Endings'
    BY <1>3, <1>4, IdleType DEF Inductive, Endings
  <1> QED BY <1>3, <1>5, <1>6, <1>7, <1>8 DEF Inductive

LEMMA LogoutReadInv ==
    ASSUME Inductive, NEW r \in Requests, LogoutRead(r)
    PROVE  Inductive'
  <1>t. req[r] \in Request /\ WellFormed(req[r]) /\ req[r].token \in Tokens
    BY DEF LogoutRead, Inductive, TypeOK, WellFormed
  <1>1. ASSUME NEW s \in Open, Become(r, [req[r] EXCEPT !.pc = "ending", !.sid = s]),
               UNCHANGED <<now, active, session, sent>>
        PROVE  Inductive'
    <2> DEFINE q == [req[r] EXCEPT !.pc = "ending", !.sid = s]
    <2>1. q \in Request /\ WellFormed(q) /\ GoodRequest(q)
      BY <1>t DEF Request, PCs, WellFormed, GoodRequest, Open
    <2>2. Moves(r, q)
      BY <1>1 DEF Moves
    <2> HIDE DEF q
    <2> QED BY <1>1, <2>1, <2>2, MovesInv
  <1>2. ASSUME LoggedOut(r, "nothing_to_log_out"), UNCHANGED <<now, active, session>>
        PROVE  Inductive'
    <2>1. session' = session /\ session \in [Sessions -> Row \cup {None}] /\ Open' = Open
      BY <1>2 DEF Inductive, TypeOK, Open
    <2> HIDE DEF Open
    <2> QED BY <1>t, <1>2, <2>1, LoggedOutInv
  <1> QED BY <1>1, <1>2 DEF LogoutRead

LEMMA LogoutCommitInv ==
    ASSUME Inductive, NEW r \in Requests, LogoutCommit(r)
    PROVE  Inductive'
  <1> DEFINE s == req[r].sid
             row == [session[s] EXCEPT !.revoked = TRUE]
  <1>1. s \in Open /\ s \in Sessions /\ session[s] \in Row /\ req[r].token \in Tokens
    BY FoundRow DEF LogoutCommit, Inductive, TypeOK, WellFormed, Endings
  <1>2. row \in Row /\ row # None /\ row.revoked /\ row.token = session[s].token /\ row.expires = session[s].expires
    BY <1>1, NoneIsNoRow DEF Row
  <1>3. /\ session' \in [Sessions -> Row \cup {None}]
        /\ \A x \in Sessions : session'[x] = IF x = s THEN row ELSE session[x]
    BY <1>1, <1>2 DEF LogoutCommit, Inductive, TypeOK
  <1> HIDE DEF row
  <1>4. Open' = Open
    BY <1>1, <1>2, <1>3 DEF Open
  <1>5. \A x \in Open : session'[x] = IF x = s THEN row ELSE session[x]
    BY <1>3 DEF Open
  <1>6. LoggedOut(r, "logout") /\ UNCHANGED <<now, active>>
    BY DEF LogoutCommit
  <1> QED BY <1>1, <1>2, <1>3, <1>4, <1>5, <1>6, LoggedOutInv

-----------------------------------------------------------------------------
(* The theorems.                                                           *)

LEMMA InitInv == Init => Inductive
  BY IdleType DEF Init, Inductive, TypeOK, Open, TokensOnce, Lifetimes, Endings, ExchangedOnce

\* A step of the clock or of an account leaves the rest alone.
LEMMA OutsideInv ==
    ASSUME Inductive, UNCHANGED <<session, req, sent>>, now' \in Nat, active' \in [Users -> BOOLEAN]
    PROVE  Inductive'
  BY DEF Inductive, TypeOK, WellFormed, Open, Holds, TokensOnce, Lifetimes, Endings, ExchangedOnce

LEMMA NextInv == Inductive /\ [Next]_vars => Inductive'
  <1> SUFFICES ASSUME Inductive, [Next]_vars PROVE Inductive'
    OBVIOUS
  <1>t. now \in Nat /\ active \in [Users -> BOOLEAN]
    BY DEF Inductive, TypeOK
  <1>1. CASE Tick \/ UNCHANGED vars
    BY <1>t, <1>1, OutsideInv DEF Tick, vars
  <1>3. ASSUME NEW u \in Users, NEW b \in BOOLEAN, SetActive(u, b) PROVE Inductive'
    <2>1. active' \in [Users -> BOOLEAN]
      BY <1>t, <1>3, Zenon DEF SetActive
    <2> QED BY <1>t, <1>3, <2>1, OutsideInv DEF SetActive
  <1>2. ASSUME NEW r \in Requests, Abort(r) PROVE Inductive'
    BY <1>2, FinishInv DEF Abort
  <1> QED BY <1>1, <1>2, <1>3, LoginInv, IssueSessionInv, PresentInv, RefreshReadInv, RefreshUserInv, RotateInv,
             LogoutReadInv, LogoutCommitInv DEF Next

\* The invariant behind the single use of tokens and the end of sessions.
THEOREM InductiveInvariant == Spec => []Inductive
  BY InitInv, NextInv, PTL DEF Spec

\* Every row, request and answer has the shape the code gives it.
THEOREM TypeCorrect == Spec => []TypeOK
  <1>1. Inductive => TypeOK
    BY DEF Inductive
  <1> QED BY <1>1, InductiveInvariant, PTL

\* Any number of refreshes with one token: at most one is given the next.
THEOREM TokensExchangedOnce == Spec => []ExchangedOnce
  <1>1. Inductive => ExchangedOnce
    BY DEF Inductive
  <1> QED BY <1>1, InductiveInvariant, PTL

\* A session that a logout has found is ended for good.
THEOREM LogoutEnds == Spec => []LogoutEndsSession
  <1>1. Inductive => LogoutEndsSession
    BY DEF Inductive, Endings, LogoutEndsSession
  <1> QED BY <1>1, InductiveInvariant, PTL

\* However often it is refreshed, a session gives no token for a request
\* checked after its lifetime.
THEOREM ExpiryIsAbsolute == Spec => []AbsoluteExpiry
  <1>1. Inductive => AbsoluteExpiry
    BY DEF Inductive, Lifetimes, AbsoluteExpiry
  <1> QED BY <1>1, InductiveInvariant, PTL

\* A revoked session's row is never written again.
LEMMA RevokedStays ==
    ASSUME Inductive, [Next]_vars, NEW s \in Open, session[s].revoked
    PROVE  session'[s] = session[s]
  <1>0. session[s] \in Row /\ s \in Sessions /\ session \in [Sessions -> Row \cup {None}]
    BY FoundRow DEF Inductive, TypeOK
  <1>1. ASSUME NEW r \in Requests, NEW x \in Sessions, NEW t \in Tokens, IssueSession(r, x, t)
        PROVE  session'[s] = session[s]
    BY <1>0, <1>1 DEF IssueSession
  <1>2. ASSUME NEW r \in Requests, NEW t \in Tokens, Rotate(r, t) PROVE session'[s] = session[s]
    BY <1>0, <1>2 DEF Rotate
  <1>3. ASSUME NEW r \in Requests, LogoutCommit(r) PROVE session'[s] = session[s]
    <2>1. session' = [session EXCEPT ![req[r].sid].revoked = TRUE]
      BY <1>3 DEF LogoutCommit
    <2>2. CASE req[r].sid = s
      BY <1>0, <2>1, <2>2 DEF Row
    <2> QED BY <1>0, <2>1, <2>2
  <1> QED BY <1>1, <1>2, <1>3 DEF Next, Tick, SetActive, Login, Present, RefreshRead, RefreshUser, LogoutRead, Abort,
             vars

THEOREM RevocationIsFinal == Spec => RevokedForGood
  <1>1. Inductive /\ [Next]_vars => [\A s \in Open : session[s].revoked => session'[s] = session[s]]_vars
    BY RevokedStays
  <1> QED BY <1>1, InductiveInvariant, PTL DEF Spec, RevokedForGood

-----------------------------------------------------------------------------
(* What ADR 0009 says of logout, and the one step that breaks it.          *)

\* A logout that has yet to read came with the token, or was so before.
LEMMA LogoutsArrive ==
    ASSUME Inductive, [Next]_vars, NEW q \in Requests, req'[q].pc = "logout", req'[q].sid # None
    PROVE  req'[q] = req[q] \/ (Holds(req'[q].sid, req'[q].token) /\ session' = session)
  <1>t. req \in [Requests -> Request]
    BY DEF Inductive, TypeOK
  <1>1. ASSUME NEW r \in Requests, NEW x, Become(r, x), x.pc # "logout" PROVE req'[q] = req[q]
    BY <1>t, <1>1 DEF Become
  <1>i. ASSUME NEW r \in Requests, Finish(r) PROVE req'[q] = req[q]
    BY <1>i, <1>1, IdleType DEF Finish
  <1>2. CASE Tick \/ UNCHANGED vars \/ \E u \in Users, b \in BOOLEAN : SetActive(u, b)
    BY <1>2 DEF Tick, SetActive, vars
  <1>3. ASSUME NEW r \in Requests, NEW u \in Users, Login(r, u) PROVE req'[q] = req[q]
    <2> DEFINE x == [Idle EXCEPT !.pc = "opening", !.user = u]
    <2>1. Become(r, x) /\ x.pc # "logout"
      BY <1>3 DEF Login, Idle
    <2> HIDE DEF x
    <2> QED BY <2>1, <1>1
  <1>4. ASSUME NEW r \in Requests, NEW s \in Sessions, NEW t \in Tokens, IssueSession(r, s, t) PROVE req'[q] = req[q]
    BY <1>4, <1>i DEF IssueSession
  <1>5. ASSUME NEW r \in Requests, NEW a \in sent, NEW op \in {"refresh", "logout"}, Present(r, a, op)
        PROVE  req'[q] = req[q] \/ (Holds(req'[q].sid, req'[q].token) /\ session' = session)
    <2> DEFINE x == [Idle EXCEPT !.pc = op, !.token = a.new, !.sid = IF Holds(a.sid, a.new) THEN a.sid ELSE None]
    <2>1. Become(r, x) /\ session' = session
      BY <1>5 DEF Present
    <2>2. x.sid # None => Holds(x.sid, x.token)
      BY DEF Idle
    <2> HIDE DEF x
    <2>3. req'[q] = IF q = r THEN x ELSE req[q]
      BY <1>t, <2>1 DEF Become
    <2> QED BY <2>1, <2>2, <2>3
  <1>6. ASSUME NEW r \in Requests, RefreshRead(r) PROVE req'[q] = req[q]
    <2>1. ASSUME NEW s \in Open,
                 Become(r, [req[r] EXCEPT !.pc = "checked", !.sid = s, !.user = session[s].user, !.at = now])
          PROVE  req'[q] = req[q]
      <3> DEFINE x == [req[r] EXCEPT !.pc = "checked", !.sid = s, !.user = session[s].user, !.at = now]
      <3>1. x.pc # "logout"
        BY <1>t DEF Request
      <3> HIDE DEF x
      <3> QED BY <2>1, <3>1, <1>1 DEF x
    <2> QED BY <1>6, <1>i, <2>1 DEF RefreshRead
  <1>7. ASSUME NEW r \in Requests, RefreshUser(r) PROVE req'[q] = req[q]
    <2> DEFINE x == [req[r] EXCEPT !.pc = "rotating"]
    <2>1. x.pc # "logout"
      BY <1>t DEF Request
    <2>2. Become(r, x) \/ Finish(r)
      BY <1>7 DEF RefreshUser
    <2> HIDE DEF x
    <2> QED BY <2>1, <2>2, <1>1, <1>i
  <1>8. ASSUME NEW r \in Requests, NEW t \in Tokens, Rotate(r, t) PROVE req'[q] = req[q]
    BY <1>8, <1>i DEF Rotate, Exchange
  <1>9. ASSUME NEW r \in Requests, LogoutRead(r) PROVE req'[q] = req[q]
    <2>1. ASSUME NEW s \in Open, Become(r, [req[r] EXCEPT !.pc = "ending", !.sid = s]) PROVE req'[q] = req[q]
      <3> DEFINE x == [req[r] EXCEPT !.pc = "ending", !.sid = s]
      <3>1. x.pc # "logout"
        BY <1>t DEF Request
      <3> HIDE DEF x
      <3> QED BY <2>1, <3>1, <1>1 DEF x
    <2> QED BY <1>9, <1>i, <2>1 DEF LogoutRead, LoggedOut
  <1>10. ASSUME NEW r \in Requests, LogoutCommit(r) \/ Abort(r) PROVE req'[q] = req[q]
    BY <1>10, <1>i DEF LogoutCommit, LoggedOut, Abort
  <1>11. ASSUME NEW r \in Requests,
                \/ \E u \in Users : Login(r, u)
                \/ \E s \in Sessions, t \in Tokens : IssueSession(r, s, t)
                \/ RefreshRead(r) \/ RefreshUser(r) \/ (\E t \in Tokens : Rotate(r, t))
                \/ LogoutRead(r) \/ LogoutCommit(r) \/ Abort(r)
         PROVE  req'[q] = req[q]
    BY <1>3, <1>4, <1>6, <1>7, <1>8, <1>9, <1>10, <1>11
  <1> QED BY <1>2, <1>5, <1>11 DEF Next

\* No session's row goes away.
LEMMA SessionsStay ==
    ASSUME Inductive, [Next]_vars
    PROVE  Open \subseteq Open'
  <1>t. session \in [Sessions -> Row \cup {None}]
    BY DEF Inductive, TypeOK
  <1>1. ASSUME NEW r \in Requests, NEW s \in Sessions, NEW t \in Tokens, IssueSession(r, s, t) PROVE Open \subseteq Open'
    BY <1>t, <1>1 DEF IssueSession, Open
  <1>2. ASSUME NEW s \in Open, NEW t \in Tokens, session' = [session EXCEPT ![s].token = t] PROVE Open \subseteq Open'
    <2>1. session[s] \in Row /\ s \in Sessions
      BY FoundRow
    <2>2. [session[s] EXCEPT !.token = t] \in Row
      BY <2>1 DEF Row
    <2> QED BY <1>t, <1>2, <2>1, <2>2, NoneIsNoRow DEF Open
  <1>3. ASSUME NEW r \in Requests, LogoutCommit(r) PROVE Open \subseteq Open'
    <2>1. req[r].sid \in Open /\ session[req[r].sid] \in Row /\ req[r].sid \in Sessions
      BY <1>3, FoundRow DEF LogoutCommit, Inductive, Endings
    <2>2. [session[req[r].sid] EXCEPT !.revoked = TRUE] \in Row
      BY <2>1 DEF Row
    <2> QED BY <1>t, <1>3, <2>1, <2>2, NoneIsNoRow DEF LogoutCommit, Open
  <1>4. session' = session => Open' = Open
    BY DEF Open
  <1>5. ASSUME NEW r \in Requests, NEW t \in Tokens, Rotate(r, t) PROVE Open \subseteq Open'
    BY <1>2, <1>4, <1>5 DEF Rotate
  <1> QED BY <1>1, <1>3, <1>4, <1>5
          DEF Next, Tick, SetActive, Login, Present, RefreshRead, RefreshUser, LogoutRead, Abort, vars

\* Who finds nothing to log out came with a revoked session's token, or with
\* none of a session.
LEMMA NothingFound ==
    ASSUME Inductive, LogoutsFind, [Next]_vars, NEW a \in sent' \ sent, a.op = "nothing_to_log_out", a.sid # None
    PROVE  a.sid \in Open /\ session[a.sid].revoked
  <1>1. PICK r \in Requests : LogoutRead(r) /\ LoggedOut(r, "nothing_to_log_out")
    <2>1. ASSUME NEW r \in Requests, NEW s \in Sessions, NEW t \in Tokens, IssueSession(r, s, t) PROVE FALSE
      BY <2>1 DEF IssueSession
    <2>2. ASSUME NEW r \in Requests, NEW t \in Tokens, Rotate(r, t) PROVE FALSE
      BY <2>2 DEF Rotate, Exchange
    <2>3. ASSUME NEW r \in Requests, LogoutCommit(r) PROVE FALSE
      BY <2>3 DEF LogoutCommit, LoggedOut
    <2>4. ASSUME NEW r \in Requests, LogoutRead(r) PROVE LoggedOut(r, "nothing_to_log_out")
      BY <2>4 DEF LogoutRead
    <2>5. sent' # sent
      OBVIOUS
    <2> QED BY <2>1, <2>2, <2>3, <2>4, <2>5
            DEF Next, Tick, SetActive, Login, Present, RefreshRead, RefreshUser, Abort, vars
  <1>2. a.sid = req[r].sid /\ req[r].pc = "logout"
    <2> DEFINE b == [op |-> "nothing_to_log_out", sid |-> req[r].sid, old |-> req[r].token, new |-> None, at |-> 0]
    <2>1. sent' = sent \cup {b}
      BY <1>1 DEF LoggedOut
    <2>2. a = b
      BY <2>1
    <2> QED BY <1>1, <2>2 DEF LogoutRead
  <1>3. Holds(req[r].sid, req[r].token)
    BY <1>2 DEF LogoutsFind
  <1>4. req[r].sid \in Open /\ sent' # sent
    BY <1>3 DEF Holds
  <1> QED BY <1>1, <1>2, <1>3, <1>4 DEF LogoutRead

LEMMA LogoutsFindStep ==
    ASSUME Inductive, LogoutsFind, [Next]_vars, NoExchangeBeforeRead
    PROVE  LogoutsFind'
  <1>1. ASSUME NEW q \in Requests, req'[q].pc = "logout", req'[q].sid # None
        PROVE  Holds(req[q].sid, req[q].token)'
    <2>1. CASE Holds(req'[q].sid, req'[q].token) /\ session' = session
      BY <2>1 DEF Holds, Open
    <2>2. CASE req'[q] = req[q]
      <3>1. Holds(req[q].sid, req[q].token) /\ session'[req[q].sid].token = session[req[q].sid].token
        BY <1>1, <2>2 DEF LogoutsFind, NoExchangeBeforeRead
      <3> QED BY <2>2, <3>1, SessionsStay DEF Holds
    <2> QED BY <1>1, <2>1, <2>2, LogoutsArrive
  <1>2. ASSUME NEW a \in sent', a.op = "nothing_to_log_out", a.sid # None
        PROVE  a.sid \in Open' /\ session'[a.sid].revoked
    <2>1. a.sid \in Open /\ session[a.sid].revoked
      BY <1>2, NothingFound DEF LogoutsFind
    <2> QED BY <2>1, RevokedStays, SessionsStay
  <1>3. \A q \in Requests : (req[q].pc = "logout" /\ req[q].sid # None => Holds(req[q].sid, req[q].token))'
    BY <1>1
  <1> QED BY <1>2, <1>3 DEF LogoutsFind

\* Whoever is told that a session is logged out finds it ended, unless a
\* refresh exchanged the token between the logout's arrival and its read:
\* nothing else the server may do meanwhile lets the session live on.
THEOREM LogoutEndsUnlessExchanged == Spec /\ [][NoExchangeBeforeRead]_vars => []LogoutEnsuresInactive
  <1>1. Init => LogoutsFind
    BY IdleType DEF Init, LogoutsFind
  <1>2. Inductive /\ LogoutsFind /\ [Next]_vars /\ [NoExchangeBeforeRead]_vars => LogoutsFind'
    <2> SUFFICES ASSUME Inductive, LogoutsFind, [Next]_vars, [NoExchangeBeforeRead]_vars PROVE LogoutsFind'
      OBVIOUS
    <2>1. NoExchangeBeforeRead
      BY DEF NoExchangeBeforeRead, vars
    <2> QED BY <2>1, LogoutsFindStep
  <1>3. Inductive /\ LogoutsFind => LogoutEnsuresInactive
    BY DEF Inductive, Endings, LogoutsFind, LogoutEnsuresInactive
  <1> QED BY <1>1, <1>2, <1>3, InductiveInvariant, PTL DEF Spec
=============================================================================

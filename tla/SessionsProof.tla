--------------------------- MODULE SessionsProof ---------------------------
(***************************************************************************)
(* Proofs about Sessions: the types; that no interleaving of sign-ins,     *)
(* refreshes and sign-outs with a password change, a sign-out of all       *)
(* devices or a deactivation leaves a session alive that it was to end;    *)
(* that a sign-out ends the session of its cookie; and that the tabs of a  *)
(* browser never sign each other out.                                      *)
(***************************************************************************)
EXTENDS Sessions, TLAPS

\* Where a sign-in still carries the epoch its credential check read.
Carry == {"totp", "oidc", "insert"}

-----------------------------------------------------------------------------
(* What a step may do to the requests and to the sessions.                  *)

\* A request keeps the epoch and the password it carries, or has just read them;
\* one that is to sweep has the epoch its own bump made.
ReqKept ==
    \A q \in Req :
      /\ req'[q].pc \in Carry =>
           \/ req[q].pc \in Carry /\ req'[q].epoch = req[q].epoch /\ req'[q].pw = req[q].pw
           \/ req'[q].epoch = user.epoch /\ req'[q].pw = user.pw
      /\ req'[q].pc = "sweep" =>
           \/ req[q].pc = "sweep" /\ req'[q].epoch = req[q].epoch
           \/ req'[q].epoch = user'.epoch

\* A live session was live before, with the same epoch and password.
SessKept ==
    \A s \in Sess : sess'[s].state = "live" =>
      sess[s].state = "live" /\ sess'[s].epoch = sess[s].epoch /\ sess'[s].pw = sess[s].pw

\* A request nobody is using is a request record.
LEMMA IdleType == Idle \in Request
BY SessionAssumption DEF Idle, Request, Kinds, Pcs, Cookies

\* Ending a request: it stays a request and carries no epoch any more.
LEMMA AnswerReq ==
  ASSUME TypeOK, NEW r \in Req, NEW c \in Cookies, NEW ok \in BOOLEAN, Answer(r, c, ok)
  PROVE  req' \in [Req -> Request] /\ ReqKept
<1>1. req[r] \in Request
  BY DEF TypeOK
<1> DEFINE a == [Idle EXCEPT !.kind = req[r].kind, !.b = req[r].b, !.pc = "answered",
                             !.cookie = c, !.ok = ok,
                             !.tok = IF ok THEN req[r].tok ELSE {},
                             !.own = IF c = "set" THEN req[r].own ELSE {}]
<1>2. a \in Request /\ a.pc = "answered"
  BY <1>1, IdleType DEF Request, Pcs, Cookies
<1>3. req' = [req EXCEPT ![r] = a]
  BY DEF Answer
<1> HIDE DEF a
<1>4. QED
  BY <1>2, <1>3 DEF TypeOK, ReqKept, Carry

\* Starting a request: it carries nothing but what the browser sends.
LEMMA SendReq ==
  ASSUME TypeOK, NEW r \in Req, NEW b \in Browser, NEW kind \in Kinds, NEW pc \in Pcs,
         Send(r, b, kind, pc), pc \in Carry => kind = "signin", pc # "sweep"
  PROVE  req' \in [Req -> Request] /\ ReqKept
<1> DEFINE tok == IF kind \in {"signin", "refresh", "logout"} THEN jar[b] ELSE {}
           epoch == IF kind = "signin" THEN user.epoch ELSE 0
           pw == IF kind \in {"signin", "password"} THEN user.pw ELSE 0
           role == IF kind = "signin" THEN user.role ELSE 0
           a == [Idle EXCEPT !.kind = kind, !.b = b, !.pc = pc, !.tok = tok,
                             !.epoch = epoch, !.pw = pw, !.role = role]
<1>1. jar[b] \in SUBSET Token /\ user.epoch \in Nat /\ user.pw \in Nat /\ user.role \in 0 .. 1
  BY DEF TypeOK, User
<1>2. /\ tok \in SUBSET Token /\ epoch \in Nat /\ pw \in Nat /\ role \in 0 .. 1
      /\ kind = "signin" => epoch = user.epoch /\ pw = user.pw
  BY <1>1
<1>3. req' = [req EXCEPT ![r] = a]
  BY DEF Send
<1> HIDE DEF tok, epoch, pw, role
<1>4. a \in Request /\ a.pc = pc /\ a.epoch = epoch /\ a.pw = pw
  BY <1>2, IdleType DEF Request
<1> HIDE DEF a
<1>5. QED
  BY <1>2, <1>3, <1>4 DEF TypeOK, ReqKept, Carry

\* Revoking sessions changes nothing of a session but its state, and brings none to life.
LEMMA EndedKept ==
  ASSUME TypeOK, NEW S
  PROVE  /\ Ended(S) \in [Sess -> Session]
         /\ \A s \in Sess : Ended(S)[s].state = "live" => Ended(S)[s] = sess[s] /\ s \notin S
<1>1. NoSession \in Session /\ [NoSession EXCEPT !.state = "ended"] \in Session
      /\ [NoSession EXCEPT !.state = "ended"].state # "live"
  BY SessionAssumption DEF NoSession, Session
<1>2. QED
  BY <1>1 DEF TypeOK, Ended, Live

\* Revoking sessions keeps the session table well formed.
LEMMA EndedSess ==
  ASSUME TypeOK, NEW S, sess' = Ended(S)
  PROVE  sess' \in [Sess -> Session] /\ SessKept
BY EndedKept DEF SessKept

\* A step that leaves the sessions alone keeps them.
LEMMA SameSess ==
  ASSUME TypeOK, UNCHANGED sess
  PROVE  sess' \in [Sess -> Session] /\ SessKept
BY DEF TypeOK, SessKept

\* A step that leaves the requests alone keeps them.
LEMMA SameReq ==
  ASSUME TypeOK, UNCHANGED req
  PROVE  req' \in [Req -> Request] /\ ReqKept
BY DEF TypeOK, ReqKept

\* A browser that gives its session up is on none.
LEMMA LeavesHome ==
  ASSUME TypeOK, NEW b \in Browser, Leaves(b)
  PROVE  home' \in [Browser -> SUBSET Sess]
BY DEF TypeOK, Leaves

\* Spending one of the bounded troubles keeps their counter in range.
LEMMA TroubleSpent ==
  ASSUME TypeOK, Trouble
  PROVE  spent' \in 0 .. MaxTroubles
BY SessionAssumption DEF TypeOK, Trouble

-----------------------------------------------------------------------------
(* One lemma per action that leaves the users row alone.                    *)

\* What such a step keeps.
Kept == TypeOK' /\ ReqKept /\ SessKept /\ UNCHANGED <<user, swept>>

\* The parts of TypeOK', put together.
LEMMA KeptParts ==
  ASSUME TypeOK, UNCHANGED <<user, swept>>,
         sess' \in [Sess -> Session] /\ SessKept,
         req' \in [Req -> Request] /\ ReqKept,
         jar' \in [Browser -> SUBSET Token], home' \in [Browser -> SUBSET Sess],
         spent' \in 0 .. MaxTroubles
  PROVE  Kept
BY DEF TypeOK, Kept

\* Whatever of the browsers and of the bound a step leaves alone keeps its type.
LEMMA SameRest ==
  ASSUME TypeOK
  PROVE  /\ UNCHANGED jar => jar' \in [Browser -> SUBSET Token]
         /\ UNCHANGED home => home' \in [Browser -> SUBSET Sess]
         /\ UNCHANGED spent => spent' \in 0 .. MaxTroubles
         /\ \A r \in Req : req[r].b \in Browser
BY DEF TypeOK, Request

\* A request moves on and holds a new session set, its epoch and password as before.
LEMMA MoveReq ==
  ASSUME TypeOK, NEW r \in Req, NEW pc \in Pcs \ (Carry \cup {"sweep"}), NEW own \in SUBSET Sess,
         req' = [req EXCEPT ![r].own = own, ![r].pc = pc]
  PROVE  req' \in [Req -> Request] /\ ReqKept
<1> DEFINE a == [req[r] EXCEPT !.own = own, !.pc = pc]
<1>1. a \in Request /\ a.pc = pc
  BY DEF TypeOK, Request
<1>2. req' = [req EXCEPT ![r] = a]
  BY DEF TypeOK
<1> HIDE DEF a
<1>3. QED
  BY <1>1, <1>2 DEF TypeOK, ReqKept

\* A request that only moves to its next step carries what it carried.
LEMMA GotoReq ==
  ASSUME TypeOK, NEW r \in Req, NEW pc \in Pcs \ (Carry \cup {"sweep"}), Goto(r, pc)
  PROVE  req' \in [Req -> Request] /\ ReqKept
BY DEF TypeOK, ReqKept, Request, Goto

\* A request given up is idle, and carries no epoch.
LEMMA IdleReq ==
  ASSUME TypeOK, NEW r \in Req, req' = [req EXCEPT ![r] = Idle]
  PROVE  req' \in [Req -> Request] /\ ReqKept
<1>1. Idle.pc = "idle"
  BY DEF Idle
<1>2. QED
  BY <1>1, IdleType DEF TypeOK, ReqKept, Carry

\* A lookup by token finds sessions.
LEMMA ByTokenSess == \A tok : ByToken(tok) \in SUBSET Sess
BY DEF ByToken

\* Login checks the password and only starts a request.
LEMMA LoginKept ==
  ASSUME TypeOK, NEW r \in Req, NEW b \in Browser, Login(r, b)
  PROVE  Kept
<1>1. PICK pc \in {"insert", "totp", "oidc"} : Send(r, b, "signin", pc)
  BY DEF Login
<1>2. req' \in [Req -> Request] /\ ReqKept
  BY <1>1, SendReq DEF Kinds, Pcs
<1>3. QED
  BY <1>2, SameSess, SameRest, LeavesHome, KeptParts DEF Login

\* A browser that sends a refresh, a sign-out, a password change or a sign-out everywhere.
LEMMA SendKept ==
  ASSUME TypeOK, NEW r \in Req, NEW b \in Browser,
         SendRefresh(r, b) \/ SendLogout(r, b) \/ SendLogoutAll(r, b) \/ SendChangePassword(r, b)
  PROVE  Kept
<1>1. CASE SendRefresh(r, b)
  <2>1. req' \in [Req -> Request] /\ ReqKept
    BY <1>1, SendReq DEF SendRefresh, Kinds, Pcs, Carry
  <2>2. QED
    BY <1>1, <2>1, SameSess, SameRest, KeptParts DEF SendRefresh
<1>2. CASE SendLogout(r, b)
  <2>1. req' \in [Req -> Request] /\ ReqKept
    BY <1>2, SendReq DEF SendLogout, Kinds, Pcs, Carry
  <2>2. QED
    BY <1>2, <2>1, SameSess, SameRest, LeavesHome, KeptParts DEF SendLogout
<1>3. CASE SendLogoutAll(r, b)
  <2>1. req' \in [Req -> Request] /\ ReqKept
    BY <1>3, SendReq DEF SendLogoutAll, Kinds, Pcs, Carry
  <2>2. QED
    BY <1>3, <2>1, SameSess, SameRest, LeavesHome, KeptParts DEF SendLogoutAll
<1>4. CASE SendChangePassword(r, b)
  <2>1. req' \in [Req -> Request] /\ ReqKept
    BY <1>4, SendReq DEF SendChangePassword, Kinds, Pcs, Carry
  <2>2. QED
    BY <1>4, <2>1, SameSess, SameRest, KeptParts DEF SendChangePassword
<1>5. QED
  BY <1>1, <1>2, <1>3, <1>4

\* The second factor or the OIDC exchange takes the sign-in to its insert.
LEMMA RedeemKept ==
  ASSUME TypeOK, NEW r \in Req, Redeem(r)
  PROVE  Kept
<1>1. req' \in [Req -> Request] /\ ReqKept
  <2>1. CASE req' = [req EXCEPT ![r].pc = "insert", ![r].role = user.role]
    <3> DEFINE a == [req[r] EXCEPT !.pc = "insert", !.role = user.role]
    <3>1. /\ a \in Request /\ a.pc = "insert" /\ a.epoch = req[r].epoch /\ a.pw = req[r].pw
          /\ req[r].pc \in Carry
      BY DEF TypeOK, Request, User, Pcs, Redeem, At, Carry
    <3>2. req' = [req EXCEPT ![r] = a]
      BY <2>1 DEF TypeOK
    <3> HIDE DEF a
    <3>3. QED
      BY <3>1, <3>2 DEF TypeOK, ReqKept
  <2>2. CASE Answer(r, "keep", FALSE)
    BY <2>2, AnswerReq DEF Cookies
  <2>3. QED
    BY <2>1, <2>2 DEF Redeem
<1>2. QED
  BY <1>1, SameSess, SameRest, KeptParts DEF Redeem

\* The session the browser held before is revoked after a sign-in.
LEMMA ReplaceKept ==
  ASSUME TypeOK, NEW r \in Req, endReplacedSession(r)
  PROVE  Kept
<1>1. req' \in [Req -> Request] /\ ReqKept
  BY AnswerReq DEF endReplacedSession, Cookies
<1>2. /\ sess' \in [Sess -> Session] /\ SessKept
      /\ spent' \in 0 .. MaxTroubles
  BY EndedSess, SameSess, SameRest, TroubleSpent DEF endReplacedSession
<1>3. QED
  BY <1>1, <1>2, SameRest, KeptParts DEF endReplacedSession

\* A refresh finds its session, or is refused.
LEMMA ValidateKept ==
  ASSUME TypeOK, NEW r \in Req, ValidateRefreshToken(r)
  PROVE  Kept
<1>1. /\ req' \in [Req -> Request] /\ ReqKept
      /\ spent' \in 0 .. MaxTroubles
  <2> DEFINE pc == IF ByToken(req[r].tok) = {} THEN "refuse" ELSE "user"
  <2>1. CASE /\ req' = [req EXCEPT ![r].own = ByToken(req[r].tok), ![r].pc = pc]
             /\ UNCHANGED spent
    <3>1. pc \in Pcs \ (Carry \cup {"sweep"})
      BY DEF Pcs, Carry
    <3> HIDE DEF pc
    <3>2. QED
      BY <2>1, <3>1, MoveReq, ByTokenSess, SameRest
  <2>2. CASE Trouble /\ Answer(r, "keep", FALSE)
    BY <2>2, AnswerReq, TroubleSpent DEF Cookies
  <2>3. QED
    BY <2>1, <2>2 DEF ValidateRefreshToken
<1>2. QED
  BY <1>1, SameSess, SameRest, KeptParts DEF ValidateRefreshToken

\* A refresh reads the user's row, and goes on only for an active user.
LEMMA ReadUserKept ==
  ASSUME TypeOK, NEW r \in Req, RefreshReadsUser(r)
  PROVE  Kept
<1>1. CASE Goto(r, "rotate") /\ UNCHANGED <<sess, home, spent>>
  BY <1>1, GotoReq, SameSess, SameRest, KeptParts DEF RefreshReadsUser, Pcs, Carry
<1>2. CASE Answer(r, "clear", FALSE) /\ sess' = Ended(req[r].own) /\ UNCHANGED <<home, spent>>
  BY <1>2, AnswerReq, EndedSess, SameRest, KeptParts DEF RefreshReadsUser, Cookies
<1>3. CASE Answer(r, "clear", FALSE) /\ Trouble /\ Leaves(req[r].b) /\ UNCHANGED sess
  BY <1>3, AnswerReq, SameSess, SameRest, TroubleSpent, LeavesHome, KeptParts DEF RefreshReadsUser, Cookies
<1>4. QED
  BY <1>1, <1>2, <1>3 DEF RefreshReadsUser

\* A rotation writes tokens and timestamps, never the epoch, the password or the state.
LEMMA RotatedKept ==
  ASSUME TypeOK, NEW s \in Sess, sess[s].gen < MaxGen, sess' = Rotated(s)
  PROVE  sess' \in [Sess -> Session] /\ SessKept
<1> DEFINE g == sess[s].gen + 1
           a == [sess[s] EXCEPT !.gen = g, !.rotated = "tolerance"]
<1>0. g \in 0 .. MaxGen
  BY SessionAssumption DEF TypeOK, Session
<1>2. sess' = [sess EXCEPT ![s] = a]
  BY DEF TypeOK, Rotated
<1> HIDE DEF g
<1>1. /\ a \in Session /\ a.state = sess[s].state
      /\ a.epoch = sess[s].epoch /\ a.pw = sess[s].pw
  BY <1>0 DEF TypeOK, Session
<1> HIDE DEF a
<1>3. QED
  BY <1>1, <1>2 DEF TypeOK, SessKept

\* The rotation commits, misses its row, or fails.
LEMMA RotateKept ==
  ASSUME TypeOK, NEW r \in Req, RotateRefreshToken(r)
  PROVE  Kept
<1>1. CASE Goto(r, "refuse") /\ UNCHANGED <<sess, home, spent>>
  BY <1>1, GotoReq, SameSess, SameRest, KeptParts DEF RotateRefreshToken, Pcs, Carry
<1>2. ASSUME NEW s \in Rotatable(r), sess[s].gen < MaxGen, sess' = Rotated(s),
             Answer(r, "set", TRUE), UNCHANGED <<home, spent>>
      PROVE  Kept
  <2>1. s \in Sess
    BY DEF TypeOK, Request, Rotatable
  <2>2. QED
    BY <1>2, <2>1, RotatedKept, AnswerReq, SameRest, KeptParts DEF RotateRefreshToken, Cookies
<1>3. ASSUME NEW s \in Rotatable(r), sess[s].gen < MaxGen, sess' \in {sess, Rotated(s)},
             Trouble, Answer(r, "keep", FALSE), Leaves(req[r].b)
      PROVE  Kept
  <2>1. s \in Sess
    BY DEF TypeOK, Request, Rotatable
  <2>2. sess' \in [Sess -> Session] /\ SessKept
    BY <1>3, <2>1, RotatedKept, SameSess
  <2>3. QED
    BY <1>3, <2>2, AnswerReq, SameRest, TroubleSpent, LeavesHome, KeptParts DEF RotateRefreshToken, Cookies
<1>4. QED
  BY <1>1, <1>2, <1>3 DEF RotateRefreshToken

\* A refused refresh answers with or without clearing the cookie.
LEMMA RefuseKept ==
  ASSUME TypeOK, NEW r \in Req, refuseStaleRefresh(r)
  PROVE  Kept
<1>1. req' \in [Req -> Request] /\ ReqKept
  <2> DEFINE c == IF RefusalSparesCookie(r) THEN "keep" ELSE "clear"
  <2>1. CASE Answer(r, c, FALSE)
    <3>1. c \in Cookies
      BY DEF Cookies
    <3> HIDE DEF c
    <3>2. QED
      BY <2>1, <3>1, AnswerReq
  <2>2. CASE Answer(r, "clear", FALSE)
    BY <2>2, AnswerReq DEF Cookies
  <2>3. QED
    BY <2>1, <2>2 DEF refuseStaleRefresh
<1>2. spent' \in 0 .. MaxTroubles /\ home' \in [Browser -> SUBSET Sess]
  <2>1. Leaves(req[r].b) \/ UNCHANGED home
    BY DEF refuseStaleRefresh
  <2>2. Trouble \/ UNCHANGED spent
    BY DEF refuseStaleRefresh
  <2>3. QED
    BY <2>1, <2>2, SameRest, LeavesHome, TroubleSpent
<1>3. QED
  BY <1>1, <1>2, SameSess, SameRest, KeptParts DEF refuseStaleRefresh

\* A sign-out looks its session up by the current or by the previous token.
LEMMA FindKept ==
  ASSUME TypeOK, NEW r \in Req, FindCurrent(r) \/ FindPrevious(r)
  PROVE  Kept
<1>1. req' \in [Req -> Request] /\ ReqKept
  <2> DEFINE pc == IF ByToken(req[r].tok) = {} THEN "findprev" ELSE "end"
             found == ByPreviousToken(req[r].tok, RevocationWindow)
  <2>1. CASE req' = [req EXCEPT ![r].own = ByToken(req[r].tok), ![r].pc = pc]
    <3>1. pc \in Pcs \ (Carry \cup {"sweep"})
      BY DEF Pcs, Carry
    <3> HIDE DEF pc
    <3>2. QED
      BY <2>1, <3>1, MoveReq, ByTokenSess
  <2>2. CASE req' = [req EXCEPT ![r].own = found, ![r].pc = "end"]
    <3>1. "end" \in Pcs \ (Carry \cup {"sweep"}) /\ found \in SUBSET Sess
      BY DEF Pcs, Carry, ByPreviousToken
    <3> HIDE DEF found
    <3>2. QED
      BY <2>2, <3>1, MoveReq
  <2>3. CASE \E ok \in BOOLEAN : Answer(r, "clear", ok)
    BY <2>3, AnswerReq DEF Cookies
  <2>4. QED
    BY <2>1, <2>2, <2>3 DEF FindCurrent, FindPrevious
<1>2. /\ spent' \in 0 .. MaxTroubles
      /\ UNCHANGED <<user, sess, jar, swept, home>>
  <2>1. (Trouble \/ UNCHANGED spent) /\ UNCHANGED <<user, sess, jar, swept, home>>
    BY DEF FindCurrent, FindPrevious
  <2>2. QED
    BY <2>1, SameRest, TroubleSpent
<1>3. QED
  BY <1>1, <1>2, SameSess, SameRest, KeptParts

\* A sign-out revokes what it found.
LEMMA RevokeKept ==
  ASSUME TypeOK, NEW r \in Req, LogoutRevokes(r)
  PROVE  Kept
<1>1. CASE sess' = Ended(req[r].own) /\ Answer(r, "clear", TRUE) /\ UNCHANGED spent
  BY <1>1, AnswerReq, EndedSess, SameRest, KeptParts DEF LogoutRevokes, Cookies
<1>2. CASE Trouble /\ Answer(r, "clear", FALSE) /\ UNCHANGED sess
  BY <1>2, AnswerReq, SameSess, TroubleSpent, SameRest, KeptParts DEF LogoutRevokes, Cookies
<1>3. QED
  BY <1>1, <1>2 DEF LogoutRevokes

\* A session is revoked from the list of sessions.
LEMMA RevokeByIDKept ==
  ASSUME TypeOK, NEW r \in Req, NEW b \in Browser, NEW s \in Sess, RevokeSessionByID(r, b, s)
  PROVE  Kept
<1> DEFINE c == IF s \in ByToken(jar[b]) THEN "clear" ELSE "keep"
           a == [Idle EXCEPT !.kind = "revoke", !.b = b, !.pc = "answered", !.ok = TRUE, !.cookie = c]
<1>1. c \in Cookies
  BY DEF Cookies
<1>2. req' = [req EXCEPT ![r] = a]
  BY DEF RevokeSessionByID
<1> HIDE DEF c
<1>3. a \in Request /\ a.pc = "answered"
  BY <1>1, IdleType DEF Request, Kinds, Pcs
<1> HIDE DEF a
<1>4. req' \in [Req -> Request] /\ ReqKept
  BY <1>2, <1>3 DEF TypeOK, ReqKept, Carry
<1>5. QED
  BY <1>4, EndedSess, SameRest, LeavesHome, KeptParts DEF RevokeSessionByID

\* An answer reaches its browser.
LEMMA DeliverKept ==
  ASSUME TypeOK, NEW r \in Req, Deliver(r)
  PROVE  Kept
<1>1. req' \in [Req -> Request] /\ ReqKept
  BY IdleReq DEF Deliver
<1>2. req[r] \in Request /\ req[r].b \in Browser /\ req[r].own \in SUBSET Sess
  BY DEF TypeOK, Request
<1>3. NewToken(r) \in SUBSET Token
  BY <1>2 DEF NewToken, Token, Request
<1>4. jar' \in [Browser -> SUBSET Token]
  <2>1. PICK j : /\ jar' = [jar EXCEPT ![req[r].b] = j]
                 /\ j = NewToken(r) \/ j = {} \/ j = jar[req[r].b]
    BY DEF Deliver, TypeOK
  <2>2. j \in SUBSET Token
    BY <2>1, <1>2, <1>3 DEF TypeOK
  <2>3. QED
    BY <2>1, <2>2 DEF TypeOK
<1>5. home' \in [Browser -> SUBSET Sess]
  BY <1>2 DEF Deliver, TypeOK
<1>6. QED
  BY <1>1, <1>4, <1>5, SameSess, SameRest, KeptParts DEF Deliver

\* An answer is lost on its way.
LEMMA LoseKept ==
  ASSUME TypeOK, NEW r \in Req, LoseAnswer(r)
  PROVE  Kept
BY IdleReq, SameSess, SameRest, LeavesHome, TroubleSpent, KeptParts DEF LoseAnswer

\* Time passes over a rotation.
LEMMA AgesKept ==
  ASSUME TypeOK, NEW s \in Sess, RotationAges(s)
  PROVE  Kept
<1> DEFINE t == IF sess[s].rotated = "tolerance" THEN "window" ELSE "long"
           a == [sess[s] EXCEPT !.rotated = t]
<1>1. t \in {"window", "long"}
  OBVIOUS
<1>2. sess' = [sess EXCEPT ![s] = a]
  BY DEF RotationAges, TypeOK
<1> HIDE DEF t
<1>3. a \in Session /\ a.state = sess[s].state /\ a.epoch = sess[s].epoch /\ a.pw = sess[s].pw
  BY <1>1 DEF TypeOK, Session
<1> HIDE DEF a
<1>4. sess' \in [Sess -> Session] /\ SessKept
  BY <1>2, <1>3 DEF TypeOK, SessKept
<1>5. home' \in [Browser -> SUBSET Sess]
  BY DEF RotationAges, TypeOK
<1>6. QED
  BY <1>4, <1>5, SameReq, SameRest, KeptParts DEF RotationAges

\* A session's lifetime ends.
LEMMA ExpiresKept ==
  ASSUME TypeOK, NEW s \in Sess, Expires(s)
  PROVE  Kept
BY SameReq, EndedSess, SameRest, TroubleSpent, KeptParts DEF Expires

-----------------------------------------------------------------------------
(* The invariant.                                                           *)

\* A sign-in carries an epoch the row has had; if the row still has it, the
\* password the sign-in checked is the current one.
CarriedEpoch ==
    \A r \in Req : req[r].pc \in Carry =>
      /\ req[r].epoch <= user.epoch
      /\ req[r].epoch = user.epoch => req[r].pw = user.pw

\* Nobody sweeps, or has swept, for an epoch the row has not reached.
SweepsReached ==
    /\ \A r \in Req : req[r].pc = "sweep" => req[r].epoch <= user.epoch
    /\ swept <= user.epoch

\* The inductive invariant.  The three properties say nothing of a sign-in that
\* is still under way, and it is one of those that would break them.
Inv ==
    /\ TypeOK
    /\ CarriedEpoch
    /\ SweepsReached
    /\ NoSessionOnReplacedPassword
    /\ SignOutEverywhereHolds
    /\ DeactivatedHasNoSession

\* The invariant holds before the first request.
LEMMA InitInv == Init => Inv
<1> SUFFICES ASSUME Init PROVE Inv
  OBVIOUS
<1>1. NoSession \in Session /\ NoSession.state # "live"
  BY SessionAssumption DEF NoSession, Session
<1>2. Idle.pc = "idle"
  BY DEF Idle
<1>3. TypeOK
  BY <1>1, IdleType, SessionAssumption DEF Init, TypeOK, User
<1>4. QED
  BY <1>1, <1>2, <1>3 DEF Init, Inv, CarriedEpoch, SweepsReached, Carry, NoSessionOnReplacedPassword,
                          SignOutEverywhereHolds, DeactivatedHasNoSession, Live

\* A step of one of the lemmas above keeps the invariant.
LEMMA KeptInv ==
  ASSUME Inv, Kept
  PROVE  Inv'
<1>1. /\ user.epoch \in Nat /\ swept \in Nat
      /\ \A q \in Req : req[q].epoch \in Nat /\ req'[q].epoch \in Nat
  BY DEF Inv, Kept, TypeOK, User, Request
<1>2. CarriedEpoch'
  BY <1>1 DEF Inv, Kept, ReqKept, CarriedEpoch
<1>3. SweepsReached'
  BY <1>1 DEF Inv, Kept, ReqKept, SweepsReached
<1>4. NoSessionOnReplacedPassword' /\ SignOutEverywhereHolds' /\ DeactivatedHasNoSession'
  BY DEF Inv, Kept, SessKept, NoSessionOnReplacedPassword, SignOutEverywhereHolds,
         DeactivatedHasNoSession, Live
<1>5. QED
  BY <1>2, <1>3, <1>4 DEF Inv, Kept

\* The insert: the epoch it requires is the row's, so it is not below the last
\* sweep's and the password is the current one.
LEMMA CreateInv ==
  ASSUME Inv, NEW r \in Req, CreateSessionAtEpoch(r)
  PROVE  Inv'
<1>0. TypeOK
  BY DEF Inv
<1>1. CASE Answer(r, "keep", FALSE) /\ UNCHANGED sess
  <2>1. Kept
    BY <1>0, <1>1, AnswerReq, SameSess, SameRest, KeptParts DEF CreateSessionAtEpoch, Cookies
  <2>2. QED
    BY <2>1, KeptInv
<1>2. ASSUME NEW new \in Sess, user.active, user.epoch = req[r].epoch,
             sess' = [sess EXCEPT ![new] = [NoSession EXCEPT !.state = "live", !.epoch = user.epoch,
                                                             !.pw = req[r].pw, !.role = req[r].role]],
             req' = [req EXCEPT ![r].pc = "replace", ![r].own = {new}]
      PROVE  Inv'
  <2> DEFINE a == [NoSession EXCEPT !.state = "live", !.epoch = user.epoch,
                                    !.pw = req[r].pw, !.role = req[r].role]
  <2>1. /\ a \in Session /\ a.epoch = user.epoch /\ a.pw = req[r].pw
    <3>1. NoSession \in Session
      BY SessionAssumption DEF NoSession, Session
    <3>2. user.epoch \in Nat /\ req[r].pw \in Nat /\ req[r].role \in 0 .. 1
      BY <1>0 DEF TypeOK, User, Request
    <3>3. QED
      BY <3>1, <3>2 DEF Session
  <2>2. req[r].pw = user.pw /\ swept <= user.epoch
    BY <1>2 DEF Inv, CarriedEpoch, SweepsReached, Carry, CreateSessionAtEpoch, At
  <2>3. sess' = [sess EXCEPT ![new] = a]
    BY <1>2
  <2> HIDE DEF a
  <2>4. req' \in [Req -> Request] /\ ReqKept
    <3> DEFINE c == [req[r] EXCEPT !.pc = "replace", !.own = {new}]
    <3>1. c \in Request /\ c.pc = "replace"
      BY <1>0 DEF TypeOK, Request, Pcs
    <3>2. req' = [req EXCEPT ![r] = c]
      BY <1>0, <1>2 DEF TypeOK
    <3> HIDE DEF c
    <3>3. QED
      BY <1>0, <3>1, <3>2 DEF TypeOK, ReqKept, Carry
  <2>5. UNCHANGED <<user, jar, swept, home, spent>>
    BY DEF CreateSessionAtEpoch
  <2>6. TypeOK'
    BY <1>0, <2>1, <2>3, <2>4, <2>5 DEF TypeOK
  <2>7. CarriedEpoch' /\ SweepsReached'
    <3>1. /\ user.epoch \in Nat /\ swept \in Nat
          /\ \A q \in Req : req[q].epoch \in Nat /\ req'[q].epoch \in Nat
      BY <1>0, <2>6 DEF TypeOK, User, Request
    <3>2. QED
      BY <2>4, <2>5, <3>1 DEF Inv, ReqKept, CarriedEpoch, SweepsReached
  <2>8. NoSessionOnReplacedPassword' /\ SignOutEverywhereHolds' /\ DeactivatedHasNoSession'
    BY <1>0, <1>2, <2>1, <2>2, <2>3, <2>5 DEF Inv, NoSessionOnReplacedPassword,
       SignOutEverywhereHolds, DeactivatedHasNoSession, Live, TypeOK
  <2>9. QED
    BY <2>6, <2>7, <2>8 DEF Inv
<1>3. QED
  <2> DEFINE free == {s \in Sess : sess[s].state = "none"}
             new == CHOOSE s \in free : TRUE
  <2>1. CASE user.active /\ user.epoch = req[r].epoch
    <3>1. free # {}
      BY <2>1 DEF CreateSessionAtEpoch
    <3>2. new \in Sess
      BY <3>1
    <3>3. QED
      BY <1>2, <2>1, <3>2 DEF CreateSessionAtEpoch
  <2>2. CASE ~(user.active /\ user.epoch = req[r].epoch)
    BY <1>1, <2>2 DEF CreateSessionAtEpoch
  <2>3. QED
    BY <2>1, <2>2

\* No session is live after a step that ended them all.
LEMMA AllEnded ==
  ASSUME TypeOK, sess' = Ended(Sess)
  PROVE  sess' \in [Sess -> Session] /\ \A s \in Sess : sess'[s].state # "live"
BY EndedKept

\* A step that ends every session keeps the invariant, if it leaves the row's epoch
\* where it is or raises it, and raises it when it replaces the password.
LEMMA EndAllInv ==
  ASSUME Inv, sess' = Ended(Sess), req' \in [Req -> Request] /\ ReqKept,
         user' \in User, user'.epoch >= user.epoch,
         user'.pw = user.pw \/ user'.epoch > user.epoch,
         swept' \in Nat, swept' <= user'.epoch,
         spent' \in 0 .. MaxTroubles, UNCHANGED <<jar, home>>,
         user'.epoch > user.epoch =>
            \A q \in Req : req'[q].pc \in Carry => req[q].pc \in Carry /\ req'[q].epoch = req[q].epoch
  PROVE  Inv'
<1>0. TypeOK
  BY DEF Inv
<1>1. sess' \in [Sess -> Session] /\ \A s \in Sess : sess'[s].state # "live"
  BY <1>0, AllEnded
<1>2. TypeOK'
  BY <1>0, <1>1, SameRest DEF TypeOK
<1>3. /\ user.epoch \in Nat /\ user'.epoch \in Nat /\ swept \in Nat
      /\ \A q \in Req : req[q].epoch \in Nat /\ req'[q].epoch \in Nat
  BY <1>0, <1>2 DEF TypeOK, User, Request
<1>4. CarriedEpoch'
  BY <1>3 DEF Inv, ReqKept, CarriedEpoch
<1>5. SweepsReached'
  BY <1>3 DEF Inv, ReqKept, SweepsReached
<1>6. NoSessionOnReplacedPassword' /\ SignOutEverywhereHolds' /\ DeactivatedHasNoSession'
  BY <1>1 DEF NoSessionOnReplacedPassword, SignOutEverywhereHolds, DeactivatedHasNoSession, Live
<1>7. QED
  BY <1>2, <1>4, <1>5, <1>6 DEF Inv

\* Sign-out everywhere raises the epoch, then lists and revokes: each part keeps the invariant.
LEMMA LogoutAllInv ==
  ASSUME Inv, NEW r \in Req, LogoutAll(r)
  PROVE  Inv'
<1>0. TypeOK /\ user.epoch \in Nat /\ swept \in Nat /\ req[r].epoch \in Nat
  BY DEF Inv, TypeOK, User, Request
<1>1. CASE /\ At(r, "bump") /\ user' = [user EXCEPT !.epoch = @ + 1]
           /\ req' = [req EXCEPT ![r].pc = "sweep", ![r].epoch = user.epoch + 1]
           /\ UNCHANGED <<sess, jar, swept, home, spent>>
  <2>1. user' \in User /\ user'.epoch = user.epoch + 1 /\ user'.pw = user.pw
        /\ user'.active = user.active /\ user'.ldap = user.ldap
    BY <1>0, <1>1 DEF TypeOK, User
  <2> DEFINE e == user.epoch + 1
             c == [req[r] EXCEPT !.pc = "sweep", !.epoch = e]
  <2>e. e \in Nat /\ e = user.epoch + 1
    BY <1>0
  <2>3. req' = [req EXCEPT ![r] = c]
    BY <1>0, <1>1 DEF TypeOK
  <2> HIDE DEF e
  <2>f. c \in Request /\ c.pc = "sweep" /\ c.epoch = e
    BY <1>0, <2>e DEF TypeOK, Request, Pcs
  <2>2. c \in Request /\ c.pc = "sweep" /\ c.epoch = user.epoch + 1
    BY <2>e, <2>f
  <2> HIDE DEF c
  <2>4. TypeOK'
    BY <1>0, <1>1, <2>1, <2>2, <2>3 DEF TypeOK
  <2>5. \A q \in Req : req[q].epoch \in Nat /\ req'[q].epoch \in Nat
    BY <1>0, <2>4 DEF TypeOK, Request
  <2>6. \A q \in Req : q # r => req'[q] = req[q]
    BY <1>0, <2>3 DEF TypeOK
  <2>7. req'[r] = c
    BY <1>0, <2>3 DEF TypeOK
  <2>8. CarriedEpoch'
    BY <1>0, <2>1, <2>2, <2>5, <2>6, <2>7 DEF Inv, CarriedEpoch, Carry
  <2>9. SweepsReached'
    <3>1. swept' <= user'.epoch
      BY <1>0, <1>1, <2>1 DEF Inv, SweepsReached
    <3>2. ASSUME NEW q \in Req, req'[q].pc = "sweep" PROVE req'[q].epoch <= user'.epoch
      BY <1>0, <2>1, <2>2, <2>5, <2>6, <2>7, <3>2 DEF Inv, SweepsReached
    <3>3. QED
      BY <3>1, <3>2 DEF SweepsReached
  <2>10. NoSessionOnReplacedPassword' /\ SignOutEverywhereHolds' /\ DeactivatedHasNoSession'
    BY <1>1, <2>1 DEF Inv, NoSessionOnReplacedPassword, SignOutEverywhereHolds,
                      DeactivatedHasNoSession, Live
  <2>11. QED
    BY <2>4, <2>8, <2>9, <2>10 DEF Inv
<1>2. CASE /\ At(r, "sweep") /\ sess' = Ended(Sess)
           /\ swept' = IF req[r].epoch > swept THEN req[r].epoch ELSE swept
           /\ Answer(r, "clear", TRUE) /\ UNCHANGED <<user, jar, home, spent>>
  <2>1. req' \in [Req -> Request] /\ ReqKept
    BY <1>0, <1>2, AnswerReq DEF Cookies
  <2>2. swept' \in Nat /\ swept' <= user.epoch
    BY <1>0, <1>2 DEF Inv, SweepsReached, At
  <2>3. /\ user' \in User /\ user'.pw = user.pw /\ spent' \in 0 .. MaxTroubles
        /\ user'.epoch >= user.epoch /\ ~(user'.epoch > user.epoch) /\ swept' <= user'.epoch
    BY <1>0, <1>2, <2>2 DEF TypeOK
  <2>4. QED
    BY <1>2, <2>1, <2>2, <2>3, EndAllInv
<1>3. CASE Trouble /\ Answer(r, "keep", FALSE) /\ UNCHANGED <<user, sess, jar, swept, home>>
  <2>1. Kept
    BY <1>0, <1>3, AnswerReq, SameSess, SameRest, TroubleSpent, KeptParts DEF Cookies
  <2>2. QED
    BY <2>1, KeptInv
<1>4. QED
  BY <1>1, <1>2, <1>3 DEF LogoutAll

\* After an answer nobody carries an epoch that was not carried before.
LEMMA AnswerCarries ==
  ASSUME TypeOK, NEW r \in Req, NEW c \in Cookies, NEW ok \in BOOLEAN, Answer(r, c, ok)
  PROVE  \A q \in Req : req'[q].pc \in Carry => req[q].pc \in Carry /\ req'[q].epoch = req[q].epoch
<1> DEFINE a == [Idle EXCEPT !.kind = req[r].kind, !.b = req[r].b, !.pc = "answered",
                             !.cookie = c, !.ok = ok,
                             !.tok = IF ok THEN req[r].tok ELSE {},
                             !.own = IF c = "set" THEN req[r].own ELSE {}]
<1>1. a.pc = "answered"
  BY DEF Idle
<1>2. req' = [req EXCEPT ![r] = a]
  BY DEF Answer
<1> HIDE DEF a
<1>3. QED
  BY <1>1, <1>2 DEF TypeOK, Carry

\* A password change raises the epoch and ends every session in one transaction.
LEMMA ChangePasswordInv ==
  ASSUME Inv, NEW r \in Req, ChangePassword(r)
  PROVE  Inv'
<1>0. TypeOK /\ user.epoch \in Nat /\ swept \in Nat /\ swept <= user.epoch
  BY DEF Inv, TypeOK, User, SweepsReached
<1>1. CASE /\ user' = [user EXCEPT !.pw = @ + 1, !.epoch = @ + 1]
           /\ sess' = Ended(Sess) /\ Answer(r, "keep", TRUE) /\ UNCHANGED spent
  <2> DEFINE e == user.epoch + 1
             p == user.pw + 1
  <2>a. e \in Nat /\ p \in Nat /\ e = user.epoch + 1
    BY <1>0 DEF TypeOK, User
  <2>b. user' = [user EXCEPT !.pw = p, !.epoch = e]
    BY <1>0, <1>1 DEF TypeOK, User
  <2> HIDE DEF e, p
  <2>c. user' \in User /\ user'.epoch = e
    BY <1>0, <2>a, <2>b DEF TypeOK, User
  <2>1. user' \in User /\ user'.epoch = user.epoch + 1
    BY <2>a, <2>c
  <2>2. req' \in [Req -> Request] /\ ReqKept
    BY <1>0, <1>1, AnswerReq DEF Cookies
  <2>3. \A q \in Req : req'[q].pc \in Carry => req[q].pc \in Carry /\ req'[q].epoch = req[q].epoch
    BY <1>0, <1>1, AnswerCarries DEF Cookies
  <2>4. UNCHANGED <<jar, swept, home>> /\ spent' \in 0 .. MaxTroubles
    BY <1>0, <1>1 DEF ChangePassword, TypeOK
  <2>5. /\ user'.epoch >= user.epoch /\ user'.epoch > user.epoch
        /\ swept' \in Nat /\ swept' <= user'.epoch
    BY <1>0, <2>1, <2>4
  <2>6. QED
    BY <1>1, <2>1, <2>2, <2>3, <2>4, <2>5, EndAllInv
<1>2. CASE Answer(r, "keep", FALSE) /\ UNCHANGED <<user, sess>>
  <2>1. spent' \in 0 .. MaxTroubles
    BY <1>0, <1>2, TroubleSpent, SameRest DEF ChangePassword
  <2>2. Kept
    BY <1>0, <1>2, <2>1, AnswerReq, SameSess, SameRest, KeptParts DEF Cookies, ChangePassword
  <2>3. QED
    BY <2>2, KeptInv
<1>3. QED
  BY <1>1, <1>2 DEF ChangePassword

\* An administrator's deactivation ends every session and raises the epoch.
LEMMA DeactivateInv ==
  ASSUME Inv, deactivate
  PROVE  Inv'
<1>0. TypeOK /\ user.epoch \in Nat /\ swept \in Nat /\ swept <= user.epoch
  BY DEF Inv, TypeOK, User, SweepsReached
<1> DEFINE e == user.epoch + 1
<1>1. e \in Nat /\ e = user.epoch + 1
  BY <1>0
<1>2. user' = [user EXCEPT !.active = FALSE, !.epoch = e]
  BY <1>0 DEF deactivate, TypeOK, User
<1> HIDE DEF e
<1>3. user' \in User /\ user'.epoch = e /\ user'.pw = user.pw
  BY <1>0, <1>1, <1>2 DEF TypeOK, User
<1>4. sess' = Ended(Sess) /\ UNCHANGED <<req, jar, swept, home>> /\ Trouble
  BY DEF deactivate
<1>5. req' \in [Req -> Request] /\ ReqKept
  BY <1>0, <1>4, SameReq
<1>6. spent' \in 0 .. MaxTroubles
  BY <1>0, <1>4, TroubleSpent
<1>7. /\ user'.epoch >= user.epoch /\ user'.epoch > user.epoch
      /\ swept' \in Nat /\ swept' <= user'.epoch
  BY <1>0, <1>1, <1>3, <1>4
<1>8. \A q \in Req : req'[q].pc \in Carry => req[q].pc \in Carry /\ req'[q].epoch = req[q].epoch
  BY <1>4
<1>9. QED
  BY <1>3, <1>4, <1>5, <1>6, <1>7, <1>8, EndAllInv

\* Changes of the row that touch neither its epoch nor its password: what they
\* switch on or off concerns DeactivatedHasNoSession alone.
LEMMA RowInv ==
  ASSUME Inv, LdapDeactivates \/ UpdateUser
  PROVE  Inv'
<1>0. TypeOK
  BY DEF Inv
<1>1. Trouble /\ UNCHANGED <<sess, req, jar, swept, home>>
  BY DEF LdapDeactivates, UpdateUser
<1>2. /\ user' \in User /\ user'.epoch = user.epoch /\ user'.pw = user.pw
      /\ (~user'.active /\ ~user'.ldap) => (~user.active /\ ~user.ldap)
  <2>1. CASE user' = [user EXCEPT !.active = FALSE, !.ldap = TRUE]
    BY <1>0, <2>1 DEF TypeOK, User
  <2>2. CASE user' = [user EXCEPT !.active = TRUE, !.ldap = FALSE]
    BY <1>0, <2>2 DEF TypeOK, User
  <2>3. CASE user' = [user EXCEPT !.role = 1 - @]
    <3> DEFINE x == 1 - user.role
    <3>1. x \in 0 .. 1
      BY <1>0 DEF TypeOK, User
    <3>2. user' = [user EXCEPT !.role = x]
      BY <1>0, <2>3 DEF TypeOK, User
    <3> HIDE DEF x
    <3>3. QED
      BY <1>0, <3>1, <3>2 DEF TypeOK, User
  <2>4. QED
    BY <2>1, <2>2, <2>3 DEF LdapDeactivates, UpdateUser
<1>3. TypeOK'
  BY <1>0, <1>1, <1>2, TroubleSpent DEF TypeOK
<1>4. QED
  BY <1>1, <1>2, <1>3 DEF Inv, CarriedEpoch, SweepsReached, NoSessionOnReplacedPassword,
                          SignOutEverywhereHolds, DeactivatedHasNoSession, Live

\* Every step keeps the invariant.
LEMMA NextInv == Inv /\ [Next]_vars => Inv'
<1> SUFFICES ASSUME Inv, [Next]_vars PROVE Inv'
  OBVIOUS
<1>0. TypeOK
  BY DEF Inv
<1>1. ASSUME NEW r \in Req, NEW b \in Browser,
             \/ Login(r, b) \/ SendRefresh(r, b) \/ SendLogout(r, b)
             \/ SendLogoutAll(r, b) \/ SendChangePassword(r, b)
      PROVE  Inv'
  BY <1>0, <1>1, LoginKept, SendKept, KeptInv
<1>2. ASSUME NEW r \in Req, NEW b \in Browser, NEW s \in Sess, RevokeSessionByID(r, b, s)
      PROVE  Inv'
  BY <1>0, <1>2, RevokeByIDKept, KeptInv
<1>3. ASSUME NEW r \in Req,
             \/ Redeem(r) \/ endReplacedSession(r) \/ ValidateRefreshToken(r) \/ RefreshReadsUser(r)
             \/ RotateRefreshToken(r) \/ refuseStaleRefresh(r) \/ FindCurrent(r) \/ FindPrevious(r)
             \/ LogoutRevokes(r) \/ Deliver(r) \/ LoseAnswer(r)
      PROVE  Inv'
  <2>1. Kept
    BY <1>0, <1>3, RedeemKept, ReplaceKept, ValidateKept, ReadUserKept, RotateKept, RefuseKept,
       FindKept, RevokeKept, DeliverKept, LoseKept
  <2>2. QED
    BY <2>1, KeptInv
<1>4. ASSUME NEW r \in Req, CreateSessionAtEpoch(r) \/ LogoutAll(r) \/ ChangePassword(r)
      PROVE  Inv'
  BY <1>4, CreateInv, LogoutAllInv, ChangePasswordInv
<1>5. CASE deactivate \/ LdapDeactivates \/ UpdateUser
  BY <1>5, DeactivateInv, RowInv
<1>6. ASSUME NEW s \in Sess, RotationAges(s) \/ Expires(s)
      PROVE  Inv'
  BY <1>0, <1>6, AgesKept, ExpiresKept, KeptInv
<1>7. CASE UNCHANGED vars
  BY <1>7 DEF vars, Inv, TypeOK, CarriedEpoch, SweepsReached, NoSessionOnReplacedPassword,
              SignOutEverywhereHolds, DeactivatedHasNoSession, Live
<1>8. QED
  BY <1>1, <1>2, <1>3, <1>4, <1>5, <1>6, <1>7 DEF Next

-----------------------------------------------------------------------------
(* The theorems.                                                            *)

\* The variables keep their types, for any numbers of browsers and requests.
THEOREM TypeCorrect == Spec => []TypeOK
<1>1. Inv => TypeOK
  BY DEF Inv
<1>2. QED
  BY <1>1, InitInv, NextInv, PTL DEF Spec

\* ChangePassword leaves no session alive that rests on the replaced password,
\* whatever sign-ins were between their credential check and CreateSession.
THEOREM PasswordChangeEndsSessions == Spec => []NoSessionOnReplacedPassword
<1>1. Inv => NoSessionOnReplacedPassword
  BY DEF Inv
<1>2. QED
  BY <1>1, InitInv, NextInv, PTL DEF Spec

\* A confirmed LogoutAll leaves no session alive whose sign-in was checked before it.
THEOREM SignOutEverywhere == Spec => []SignOutEverywhereHolds
<1>1. Inv => SignOutEverywhereHolds
  BY DEF Inv
<1>2. QED
  BY <1>1, InitInv, NextInv, PTL DEF Spec

\* deactivate leaves no session alive, and CreateSession makes none afterwards.
THEOREM DeactivationEndsSessions == Spec => []DeactivatedHasNoSession
<1>1. Inv => DeactivatedHasNoSession
  BY DEF Inv
<1>2. QED
  BY <1>1, InitInv, NextInv, PTL DEF Spec

-----------------------------------------------------------------------------
(* Refresh tokens: who holds which, and how far behind the session it is.   *)

\* A token of a session that was created, and no newer than the session's.
Known(t, table) ==
    /\ table[t[1]].state # "none"
    /\ table[t[1]].state = "live" => t[2] <= table[t[1]].gen

\* The documented limits of a sign-out: two rotations, or one that is long ago.
Overtaken(t, table) ==
    \/ table[t[1]].gen >= t[2] + 2
    \/ table[t[1]].gen >= t[2] + 1 /\ table[t[1]].rotated = "long"

AtMostOne(S) == \A x, y \in S : x = y

\* The kinds of request that reach a statement, and that set a cookie.
KindAt(q) ==
    /\ q.pc \in {"totp", "oidc", "insert", "replace"} => q.kind = "signin"
    /\ q.pc \in {"validate", "user", "rotate", "refuse"} => q.kind = "refresh"
    /\ q.pc \in {"find", "findprev", "end"} => q.kind = "logout"
    /\ q.pc \in {"bump", "sweep"} => q.kind = "logoutall"
    /\ q.pc = "change" => q.kind = "password"
    /\ q.cookie = "set" => q.pc = "answered" /\ q.kind \in {"signin", "refresh"}

\* How far the session of a request's token has gone at the request's statement.
Behind(q, t, table) ==
    table[t[1]].state = "live" =>
      /\ q.kind = "refresh" /\ q.cookie = "set" => table[t[1]].gen > t[2]
      /\ q.pc = "findprev" => table[t[1]].gen > t[2]
      /\ q.pc = "end" => t[1] \in q.own \/ Overtaken(t, table)
      /\ q.kind = "logout" /\ q.pc = "answered" /\ q.ok => Overtaken(t, table)

\* What a request holds of the sessions.
Carries(q, table) ==
    /\ AtMostOne(q.tok) /\ AtMostOne(q.own) /\ KindAt(q)
    /\ \A t \in q.tok : Known(t, table) /\ Behind(q, t, table)
    /\ \A s \in q.own : table[s].state # "none"

\* What a cookie jar holds of them.
Holds(j, table) == AtMostOne(j) /\ \A t \in j : Known(t, table)

\* A session with a previous token has the time of its rotation.
RotationTimed(table) ==
    \A s \in Sess : table[s].state = "live" /\ table[s].gen > 0 => table[s].rotated # "never"

Tokens ==
    /\ \A r \in Req : Carries(req[r], sess)
    /\ \A b \in Browser : Holds(jar[b], sess)
    /\ RotationTimed(sess)

\* From a table to a later one: a session that exists is not born again, does not
\* go back, and its last rotation stays long ago unless there is another.
Grows(old, new) ==
    \A s \in Sess : old[s].state # "none" =>
      /\ new[s].state # "none"
      /\ new[s].state = "live" =>
           /\ old[s].state = "live" /\ new[s].gen >= old[s].gen
           /\ old[s].rotated = "long" => new[s].rotated = "long" \/ new[s].gen > old[s].gen

\* What a request holds, it holds of every later table.
LEMMA CarriesGrows ==
  ASSUME NEW old \in [Sess -> Session], NEW new \in [Sess -> Session], Grows(old, new),
         NEW q \in Request, Carries(q, old)
  PROVE  Carries(q, new)
<1>1. ASSUME NEW t \in q.tok
      PROVE  Known(t, new) /\ Behind(q, t, new)
  <2>1. t[1] \in Sess /\ t[2] \in Nat
    BY DEF Request, Token
  <2>2. /\ old[t[1]].gen \in Nat /\ new[t[1]].gen \in Nat
    BY <2>1 DEF Session
  <2>3. Known(t, old) /\ Behind(q, t, old)
    BY DEF Carries
  <2>4. /\ new[t[1]].state # "none" 
        /\ new[t[1]].state = "live" =>
           /\ old[t[1]].state = "live" /\ new[t[1]].gen >= old[t[1]].gen
           /\ old[t[1]].rotated = "long" => new[t[1]].rotated = "long" \/ new[t[1]].gen > old[t[1]].gen
    BY <2>1, <2>3 DEF Grows, Known
  <2>5. Known(t, new)
    BY <2>1, <2>2, <2>3, <2>4 DEF Known
  <2>6. new[t[1]].state = "live" /\ Overtaken(t, old) => Overtaken(t, new)
    BY <2>1, <2>2, <2>4 DEF Overtaken
  <2>7. Behind(q, t, new)
    BY <2>1, <2>2, <2>3, <2>4, <2>6 DEF Behind
  <2>8. QED
    BY <2>5, <2>7
<1>2. \A s \in q.own : new[s].state # "none"
  BY DEF Carries, Grows, Request
<1>3. QED
  BY <1>1, <1>2 DEF Carries

\* So does a cookie jar.
LEMMA HoldsGrows ==
  ASSUME NEW old \in [Sess -> Session], NEW new \in [Sess -> Session], Grows(old, new),
         NEW j \in SUBSET Token, Holds(j, old)
  PROVE  Holds(j, new)
<1>1. ASSUME NEW t \in j PROVE Known(t, new)
  <2>1. t[1] \in Sess /\ t[2] \in Nat
    BY DEF Token
  <2>2. old[t[1]].gen \in Nat /\ new[t[1]].gen \in Nat
    BY <2>1 DEF Session
  <2>3. Known(t, old)
    BY DEF Holds
  <2>4. QED
    BY <2>1, <2>2, <2>3 DEF Known, Grows
<1>2. QED
  BY <1>1 DEF Holds

\* Revoking sessions is such a step of the table.
LEMMA EndedGrows ==
  ASSUME TypeOK, NEW S, Tokens
  PROVE  Grows(sess, Ended(S)) /\ RotationTimed(Ended(S))
<1>1. [NoSession EXCEPT !.state = "ended"].state = "ended"
  BY DEF NoSession
<1>2. \A s \in Sess : sess[s].gen \in Nat
  BY DEF TypeOK, Session
<1>3. QED
  BY <1>1, <1>2 DEF Grows, RotationTimed, Ended, Live, Tokens

\* So is a rotation.
LEMMA RotatedGrows ==
  ASSUME TypeOK, NEW s \in Sess, Tokens
  PROVE  /\ Grows(sess, Rotated(s)) /\ RotationTimed(Rotated(s))
         /\ Rotated(s)[s].gen = sess[s].gen + 1 /\ Rotated(s)[s].state = sess[s].state
         /\ Rotated(s)[s].rotated = "tolerance"
         /\ \A u \in Sess : u # s => Rotated(s)[u] = sess[u]
<1>1. \A u \in Sess : sess[u].gen \in Nat
  BY DEF TypeOK, Session
<1>2. /\ Rotated(s)[s].gen = sess[s].gen + 1 /\ Rotated(s)[s].state = sess[s].state
      /\ Rotated(s)[s].rotated = "tolerance"
  BY DEF Rotated, TypeOK, Session
<1>3. \A u \in Sess : u # s => Rotated(s)[u] = sess[u]
  BY DEF Rotated, TypeOK
<1>4. Grows(sess, Rotated(s)) 
  BY <1>1, <1>2, <1>3 DEF Grows
<1>5. RotationTimed(Rotated(s))
  BY <1>1, <1>2, <1>3 DEF RotationTimed, Tokens
<1>6. QED
  BY <1>2, <1>3, <1>4, <1>5

\* And so is no step.
LEMMA SameGrows ==
  ASSUME TypeOK, Tokens
  PROVE  Grows(sess, sess) /\ RotationTimed(sess)
<1>1. \A s \in Sess : sess[s].gen \in Nat
  BY DEF TypeOK, Session
<1>2. QED
  BY <1>1 DEF Grows, Tokens

\* What an answer leaves of its request.
LEMMA AnswerIs ==
  ASSUME TypeOK, NEW r \in Req, NEW c, NEW ok, Answer(r, c, ok)
  PROVE  /\ \A q \in Req : q # r => req'[q] = req[q]
         /\ req'[r].kind = req[r].kind /\ req'[r].b = req[r].b /\ req'[r].pc = "answered"
         /\ req'[r].cookie = c /\ req'[r].ok = ok
         /\ req'[r].tok = (IF ok THEN req[r].tok ELSE {})
         /\ req'[r].own = (IF c = "set" THEN req[r].own ELSE {})
BY DEF Answer, TypeOK, Idle

\* What a request starts with.
LEMMA SendIs ==
  ASSUME TypeOK, NEW r \in Req, NEW b \in Browser, NEW kind, NEW pc, Send(r, b, kind, pc)
  PROVE  /\ \A q \in Req : q # r => req'[q] = req[q]
         /\ req[r].pc = "idle"
         /\ req'[r].kind = kind /\ req'[r].b = b /\ req'[r].pc = pc
         /\ req'[r].cookie = "keep" /\ req'[r].own = {} /\ req'[r].ok = FALSE
         /\ req'[r].tok = (IF kind \in {"signin", "refresh", "logout"} THEN jar[b] ELSE {})
BY DEF Send, TypeOK, Idle, At

\* What a step of the table and of one request does to the tokens.
LEMMA TokensStep ==
  ASSUME TypeOK, TypeOK', Tokens, Grows(sess, sess'), RotationTimed(sess'),
         \A q \in Req : req'[q] = req[q] \/ Carries(req'[q], sess'),
         \A b \in Browser : jar'[b] = jar[b] \/ Holds(jar'[b], sess')
  PROVE  Tokens'
<1>1. sess \in [Sess -> Session] /\ sess' \in [Sess -> Session]
  BY DEF TypeOK
<1>2. ASSUME NEW q \in Req PROVE Carries(req'[q], sess')
  <2>1. req[q] \in Request /\ Carries(req[q], sess)
    BY DEF TypeOK, Tokens
  <2>2. Carries(req[q], sess')
    BY <1>1, <2>1, CarriesGrows
  <2>3. QED
    BY <2>2
<1>3. ASSUME NEW b \in Browser PROVE Holds(jar'[b], sess')
  <2>1. jar[b] \in SUBSET Token /\ Holds(jar[b], sess)
    BY DEF TypeOK, Tokens
  <2>2. Holds(jar[b], sess')
    BY <1>1, <2>1, HoldsGrows
  <2>3. QED
    BY <2>2
<1>4. QED
  BY <1>2, <1>3 DEF Tokens

\* An answer carries what its request carried; if it sets the cookie the session
\* has rotated, and if it confirms a sign-out the session is ended or overtaken.
LEMMA AnswerTokens ==
  ASSUME TypeOK, TypeOK', Tokens, Grows(sess, sess'), RotationTimed(sess'), UNCHANGED jar,
         NEW r \in Req, NEW c, NEW ok \in BOOLEAN, Answer(r, c, ok),
         c = "set" => req[r].kind \in {"signin", "refresh"},
         c = "set" /\ req[r].kind = "refresh" =>
            \A t \in req[r].tok : sess'[t[1]].state = "live" => sess'[t[1]].gen > t[2],
         ok /\ req[r].kind = "logout" =>
            \A t \in req[r].tok : sess'[t[1]].state = "live" => Overtaken(t, sess')
  PROVE  Tokens'
<1>1. /\ \A q \in Req : q # r => req'[q] = req[q]
      /\ req'[r].kind = req[r].kind /\ req'[r].pc = "answered"
      /\ req'[r].cookie = c /\ req'[r].ok = ok
      /\ req'[r].tok = (IF ok THEN req[r].tok ELSE {})
      /\ req'[r].own = (IF c = "set" THEN req[r].own ELSE {})
  BY AnswerIs
<1>2. Carries(req[r], sess')
  <2>1. sess \in [Sess -> Session] /\ sess' \in [Sess -> Session] /\ req[r] \in Request
        /\ Carries(req[r], sess)
    BY DEF TypeOK, Tokens
  <2>2. QED
    BY <2>1, CarriesGrows
<1>3. Carries(req'[r], sess')
  <2>1. AtMostOne(req'[r].tok) /\ AtMostOne(req'[r].own)
    BY <1>1, <1>2 DEF Carries, AtMostOne
  <2>2. KindAt(req'[r])
    BY <1>1 DEF KindAt
  <2>3. \A t \in req'[r].tok : Known(t, sess') /\ Behind(req'[r], t, sess')
    BY <1>1, <1>2 DEF Carries, Behind
  <2>4. QED
    BY <1>1, <1>2, <2>1, <2>2, <2>3 DEF Carries
<1>4. QED
  BY <1>1, <1>3, TokensStep


\* A request starts with its browser's cookie.
LEMMA SendTokens ==
  ASSUME TypeOK, TypeOK', Tokens, NEW r \in Req, NEW b \in Browser, NEW kind, NEW pc,
         Send(r, b, kind, pc), UNCHANGED <<sess, jar>>,
         \/ kind = "signin" /\ pc \in {"insert", "totp", "oidc"}
         \/ kind = "refresh" /\ pc = "validate"
         \/ kind = "logout" /\ pc = "find"
         \/ kind = "logoutall" /\ pc = "bump"
         \/ kind = "password" /\ pc = "change"
  PROVE  Tokens'
<1>1. /\ \A q \in Req : q # r => req'[q] = req[q]
      /\ req'[r].kind = kind /\ req'[r].pc = pc /\ req'[r].cookie = "keep" /\ req'[r].own = {}
      /\ req'[r].tok = {} \/ req'[r].tok = jar[b]
  BY SendIs
<1>2. Carries(req'[r], sess')
  <2>1. KindAt(req'[r])
    BY <1>1 DEF KindAt
  <2>2. AtMostOne(req'[r].tok) /\ AtMostOne(req'[r].own) /\ \A t \in req'[r].tok : Known(t, sess')
    BY <1>1 DEF Tokens, Holds, AtMostOne
  <2>3. \A t \in req'[r].tok : Behind(req'[r], t, sess')
    BY <1>1 DEF Behind
  <2>4. QED
    BY <1>1, <2>1, <2>2, <2>3 DEF Carries
<1>3. QED
  BY <1>1, <1>2, SameGrows, TokensStep

\* A cookie with one token finds one session.
LEMMA FoundOne ==
  ASSUME NEW T, AtMostOne(T)
  PROVE  /\ AtMostOne(ByToken(T))
         /\ \A window : AtMostOne(ByPreviousToken(T, window))
         /\ \A s \in ByToken(T) : sess[s].state # "none"
         /\ \A window : \A s \in ByPreviousToken(T, window) : sess[s].state # "none"
<1>1. ASSUME NEW s, NEW u, NEW g, NEW h, <<s, g>> \in T, <<u, h>> \in T
      PROVE  s = u
  <2>1. <<s, g>> = <<u, h>>
    BY <1>1 DEF AtMostOne
  <2>2. QED
    BY <2>1
<1>2. QED
  BY <1>1 DEF AtMostOne, ByToken, ByPreviousToken, Live

\* A request goes on to its next statement with the session it found.
LEMMA MoveTokens ==
  ASSUME TypeOK, TypeOK', Tokens, NEW r \in Req, UNCHANGED <<sess, jar>>,
         \A q \in Req : q # r => req'[q] = req[q],
         req'[r].kind = req[r].kind, req'[r].tok = req[r].tok, req'[r].cookie = req[r].cookie,
         req[r].pc # "answered", req'[r].pc # "answered",
         AtMostOne(req'[r].own), \A s \in req'[r].own : sess[s].state # "none",
         KindAt(req'[r]),
         req'[r].pc = "findprev" => \A t \in req[r].tok : Live(t[1]) => sess[t[1]].gen > t[2],
         req'[r].pc = "end" =>
            \A t \in req[r].tok : Live(t[1]) => t[1] \in req'[r].own \/ Overtaken(t, sess)
  PROVE  Tokens'
<1>1. Carries(req[r], sess)
  BY DEF Tokens
<1>2. \A t \in req'[r].tok : Known(t, sess) /\ Behind(req'[r], t, sess)
  <2>1. req'[r].cookie # "set"
    BY <1>1 DEF Carries, KindAt
  <2>2. QED
    BY <1>1, <2>1 DEF Carries, Behind, Live
<1>3. Carries(req'[r], sess')
  BY <1>1, <1>2 DEF Carries
<1>4. QED
  BY <1>3, SameGrows, TokensStep

\* The same, when the request keeps the session it has.
LEMMA GotoTokens ==
  ASSUME TypeOK, TypeOK', Tokens, NEW r \in Req, UNCHANGED <<sess, jar>>, NEW pc, Goto(r, pc),
         \/ req[r].pc = "user" /\ pc = "rotate"
         \/ req[r].pc = "rotate" /\ pc = "refuse"
  PROVE  Tokens'
<1>1. /\ \A q \in Req : q # r => req'[q] = req[q]
      /\ req'[r].kind = req[r].kind /\ req'[r].tok = req[r].tok /\ req'[r].cookie = req[r].cookie
      /\ req'[r].own = req[r].own /\ req'[r].pc = pc
  BY DEF Goto, TypeOK, Request
<1>2. Carries(req[r], sess)
  BY DEF Tokens
<1>3. KindAt(req'[r])
  BY <1>1, <1>2 DEF Carries, KindAt
<1>4. AtMostOne(req'[r].own) /\ \A s \in req'[r].own : sess[s].state # "none"
  BY <1>1, <1>2 DEF Carries
<1>5. QED
  BY <1>1, <1>3, <1>4, MoveTokens

\* A request given up holds nothing.
LEMMA IdleCarries ==
  \A table : Carries(Idle, table)
BY DEF Carries, Idle, KindAt, AtMostOne

-----------------------------------------------------------------------------
(* The tokens, action by action.                                            *)

\* The requests browsers send.
LEMMA SendsTokens ==
  ASSUME TypeOK, TypeOK', Tokens, NEW r \in Req, NEW b \in Browser,
         \/ Login(r, b) \/ SendRefresh(r, b) \/ SendLogout(r, b)
         \/ SendLogoutAll(r, b) \/ SendChangePassword(r, b)
  PROVE  Tokens'
<1>1. CASE Login(r, b)
  <2>1. PICK pc \in {"insert", "totp", "oidc"} : Send(r, b, "signin", pc)
    BY <1>1 DEF Login
  <2>2. QED
    BY <1>1, <2>1, SendTokens DEF Login
<1>2. CASE SendRefresh(r, b)
  BY <1>2, SendTokens DEF SendRefresh
<1>3. CASE SendLogout(r, b)
  BY <1>3, SendTokens DEF SendLogout
<1>4. CASE SendLogoutAll(r, b)
  BY <1>4, SendTokens DEF SendLogoutAll
<1>5. CASE SendChangePassword(r, b)
  BY <1>5, SendTokens DEF SendChangePassword
<1>6. QED
  BY <1>1, <1>2, <1>3, <1>4, <1>5

\* The second step of a sign-in.
LEMMA RedeemTokens ==
  ASSUME TypeOK, TypeOK', Tokens, NEW r \in Req, Redeem(r)
  PROVE  Tokens'
<1>1. CASE Answer(r, "keep", FALSE)
  BY <1>1, SameGrows, AnswerTokens DEF Redeem
<1>2. CASE req' = [req EXCEPT ![r].pc = "insert", ![r].role = user.role]
  <2>1. /\ \A q \in Req : q # r => req'[q] = req[q]
        /\ req'[r].kind = req[r].kind /\ req'[r].tok = req[r].tok /\ req'[r].cookie = req[r].cookie
        /\ req'[r].own = req[r].own /\ req'[r].pc = "insert" /\ req[r].pc \in {"totp", "oidc"}
    BY <1>2 DEF Redeem, At, TypeOK, Request
  <2>2. Carries(req[r], sess)
    BY DEF Tokens
  <2>3. KindAt(req'[r]) /\ AtMostOne(req'[r].own) /\ \A s \in req'[r].own : sess[s].state # "none"
    BY <2>1, <2>2 DEF Carries, KindAt
  <2>4. UNCHANGED <<sess, jar>>
    BY DEF Redeem
  <2>5. QED
    BY <2>1, <2>3, <2>4, MoveTokens
<1>3. QED
  BY <1>1, <1>2 DEF Redeem

\* The session of a sign-in is one that did not exist.
LEMMA CreateIs ==
  ASSUME TypeOK, NEW r \in Req, CreateSessionAtEpoch(r)
  PROVE  \/ Answer(r, "keep", FALSE) /\ UNCHANGED <<user, sess, jar, swept, home, spent>>
         \/ \E new \in Sess :
              /\ sess[new].state = "none" /\ sess'[new].state = "live" /\ sess'[new].gen = 0
              /\ \A u \in Sess : u # new => sess'[u] = sess[u]
              /\ \A q \in Req : q # r => req'[q] = req[q]
              /\ req'[r].pc = "replace" /\ req'[r].own = {new} /\ req'[r].tok = req[r].tok
              /\ req'[r].kind = req[r].kind /\ req'[r].b = req[r].b
              /\ req'[r].cookie = req[r].cookie
              /\ UNCHANGED <<user, jar, swept, home, spent>>
<1> DEFINE free == {s \in Sess : sess[s].state = "none"}
           new == CHOOSE s \in free : TRUE
<1>1. CASE user.active /\ user.epoch = req[r].epoch
  <2>1. /\ free # {}
        /\ sess' = [sess EXCEPT ![new] = [NoSession EXCEPT !.state = "live", !.epoch = user.epoch,
                                                          !.pw = req[r].pw, !.role = req[r].role]]
        /\ req' = [req EXCEPT ![r].pc = "replace", ![r].own = {new}]
        /\ UNCHANGED <<user, jar, swept, home, spent>>
    BY <1>1 DEF CreateSessionAtEpoch
  <2>2. new \in Sess /\ sess[new].state = "none"
    BY <2>1
  <2> HIDE DEF new
  <2>3. sess'[new].state = "live" /\ sess'[new].gen = 0 /\ \A u \in Sess : u # new => sess'[u] = sess[u]
    BY <2>1, <2>2 DEF TypeOK, NoSession
  <2>4. /\ \A q \in Req : q # r => req'[q] = req[q]
        /\ req'[r].pc = "replace" /\ req'[r].own = {new} /\ req'[r].tok = req[r].tok
        /\ req'[r].kind = req[r].kind /\ req'[r].b = req[r].b /\ req'[r].cookie = req[r].cookie
    BY <2>1 DEF TypeOK, Request
  <2>5. QED
    BY <2>1, <2>2, <2>3, <2>4
<1>2. CASE ~(user.active /\ user.epoch = req[r].epoch)
  BY <1>2 DEF CreateSessionAtEpoch
<1>3. QED
  BY <1>1, <1>2

\* The insert of a session.
LEMMA CreateTokens ==
  ASSUME TypeOK, TypeOK', Tokens, NEW r \in Req, CreateSessionAtEpoch(r)
  PROVE  Tokens'
<1>1. CASE Answer(r, "keep", FALSE) /\ UNCHANGED <<user, sess, jar, swept, home, spent>>
  BY <1>1, SameGrows, AnswerTokens
<1>2. ASSUME NEW new \in Sess, sess[new].state = "none", sess'[new].state = "live", sess'[new].gen = 0,
             \A u \in Sess : u # new => sess'[u] = sess[u],
             \A q \in Req : q # r => req'[q] = req[q],
             req'[r].pc = "replace", req'[r].own = {new}, req'[r].tok = req[r].tok,
             req'[r].kind = req[r].kind, req'[r].cookie = req[r].cookie, UNCHANGED jar
      PROVE  Tokens'
  <2>1. \A s \in Sess : sess[s].gen \in Nat
    BY DEF TypeOK, Session
  <2>2. Grows(sess, sess') /\ RotationTimed(sess')
    BY <1>2, <2>1 DEF Grows, RotationTimed, Tokens
  <2>3. Carries(req[r], sess')
    <3>1. sess \in [Sess -> Session] /\ sess' \in [Sess -> Session] /\ req[r] \in Request
          /\ Carries(req[r], sess)
      BY DEF TypeOK, Tokens
    <3>2. QED
      BY <2>2, <3>1, CarriesGrows
  <2>4. req[r].pc = "insert"
    BY DEF CreateSessionAtEpoch, At
  <2>5. req[r].kind = "signin" /\ req[r].cookie # "set"
    BY <2>3, <2>4 DEF Carries, KindAt
  <2>6. Carries(req'[r], sess')
    BY <1>2, <2>3, <2>5 DEF Carries, KindAt, Behind, AtMostOne
  <2>7. QED
    BY <1>2, <2>2, <2>6, TokensStep
<1>3. QED
  BY <1>1, <1>2, CreateIs

\* A sign-in that ends the session its cookie named before.
LEMMA ReplaceTokens ==
  ASSUME TypeOK, TypeOK', Tokens, NEW r \in Req, endReplacedSession(r)
  PROVE  Tokens'
<1>1. req[r].kind = "signin"
  BY DEF endReplacedSession, At, Tokens, Carries, KindAt
<1>2. Grows(sess, sess') /\ RotationTimed(sess')
  BY EndedGrows, SameGrows DEF endReplacedSession
<1>3. QED
  BY <1>1, <1>2, AnswerTokens DEF endReplacedSession

\* A refresh looks its token up.
LEMMA ValidateTokens ==
  ASSUME TypeOK, TypeOK', Tokens, NEW r \in Req, ValidateRefreshToken(r)
  PROVE  Tokens'
<1>0. UNCHANGED <<sess, jar>> /\ req[r].pc = "validate" /\ Carries(req[r], sess)
  BY DEF ValidateRefreshToken, At, Tokens
<1>1. CASE Answer(r, "keep", FALSE)
  BY <1>0, <1>1, SameGrows, AnswerTokens
<1>2. ASSUME NEW pc, pc \in {"refuse", "user"},
             req' = [req EXCEPT ![r].own = ByToken(req[r].tok), ![r].pc = pc]
      PROVE  Tokens'
  <2>1. /\ \A q \in Req : q # r => req'[q] = req[q]
        /\ req'[r].kind = req[r].kind /\ req'[r].tok = req[r].tok /\ req'[r].cookie = req[r].cookie
        /\ req'[r].own = ByToken(req[r].tok) /\ req'[r].pc = pc
    BY <1>2 DEF TypeOK, Request
  <2>2. KindAt(req'[r])
    BY <1>0, <1>2, <2>1 DEF Carries, KindAt
  <2>3. AtMostOne(req'[r].own) /\ \A s \in req'[r].own : sess[s].state # "none"
    BY <1>0, <2>1, FoundOne DEF Carries
  <2>4. QED
    BY <1>0, <1>2, <2>1, <2>2, <2>3, MoveTokens
<1>3. QED
  BY <1>1, <1>2 DEF ValidateRefreshToken

\* A refresh reads the user's row.
LEMMA ReadUserTokens ==
  ASSUME TypeOK, TypeOK', Tokens, NEW r \in Req, RefreshReadsUser(r)
  PROVE  Tokens'
<1>0. req[r].pc = "user" /\ req[r].kind = "refresh" /\ UNCHANGED jar
  BY DEF RefreshReadsUser, At, Tokens, Carries, KindAt
<1>1. CASE Goto(r, "rotate") /\ UNCHANGED sess
  BY <1>0, <1>1, GotoTokens
<1>2. CASE Answer(r, "clear", FALSE) /\ (sess' = Ended(req[r].own) \/ UNCHANGED sess)
  BY <1>0, <1>2, EndedGrows, SameGrows, AnswerTokens
<1>3. QED
  BY <1>1, <1>2 DEF RefreshReadsUser

\* A rotation: the token the browser is to get is the new one.
LEMMA RotateTokens ==
  ASSUME TypeOK, TypeOK', Tokens, NEW r \in Req, RotateRefreshToken(r)
  PROVE  Tokens'
<1>0. req[r].pc = "rotate" /\ req[r].kind = "refresh" /\ UNCHANGED jar /\ Carries(req[r], sess)
  BY DEF RotateRefreshToken, At, Tokens, Carries, KindAt
<1>1. CASE Goto(r, "refuse") /\ UNCHANGED sess
  BY <1>0, <1>1, GotoTokens
<1>2. ASSUME NEW s \in Rotatable(r), sess' = Rotated(s) \/ UNCHANGED sess,
             \/ Answer(r, "set", TRUE) /\ sess' = Rotated(s)
             \/ Answer(r, "keep", FALSE)
      PROVE  Tokens'
  <2>1. s \in Sess /\ <<s, sess[s].gen>> \in req[r].tok /\ sess[s].gen \in Nat
    BY DEF Rotatable, TypeOK, Request, Session
  <2>2. Grows(sess, sess') /\ RotationTimed(sess')
    BY <1>2, <2>1, RotatedGrows, SameGrows
  <2>3. CASE Answer(r, "set", TRUE) /\ sess' = Rotated(s)
    <3>1. sess'[s].gen = sess[s].gen + 1
      BY <2>1, <2>3, RotatedGrows
    <3>2. ASSUME NEW t \in req[r].tok PROVE sess'[t[1]].gen > t[2]
      <4>1. t = <<s, sess[s].gen>>
        BY <1>0, <2>1 DEF Carries, AtMostOne
      <4>2. QED
        BY <2>1, <3>1, <4>1
    <3>3. QED
      BY <1>0, <2>2, <2>3, <3>2, AnswerTokens
  <2>4. CASE Answer(r, "keep", FALSE)
    BY <1>0, <2>2, <2>4, AnswerTokens
  <2>5. QED
    BY <1>2, <2>3, <2>4
<1>3. QED
  BY <1>1, <1>2 DEF RotateRefreshToken

\* A refused refresh sets no cookie.
LEMMA RefuseTokens ==
  ASSUME TypeOK, TypeOK', Tokens, NEW r \in Req, refuseStaleRefresh(r)
  PROVE  Tokens'
<1>1. UNCHANGED <<sess, jar>>
  BY DEF refuseStaleRefresh
<1>2. PICK c : c # "set" /\ Answer(r, c, FALSE)
  BY DEF refuseStaleRefresh
<1>3. QED
  BY <1>1, <1>2, SameGrows, AnswerTokens

\* A sign-out that does not find its token current knows the session has rotated.
LEMMA FindCurrentTokens ==
  ASSUME TypeOK, TypeOK', Tokens, NEW r \in Req, FindCurrent(r)
  PROVE  Tokens'
<1>0. UNCHANGED <<sess, jar>> /\ req[r].pc = "find" /\ Carries(req[r], sess)
  BY DEF FindCurrent, At, Tokens
<1>1. CASE Answer(r, "clear", FALSE)
  BY <1>0, <1>1, SameGrows, AnswerTokens
<1>2. ASSUME NEW pc, pc = IF ByToken(req[r].tok) = {} THEN "findprev" ELSE "end",
             req' = [req EXCEPT ![r].own = ByToken(req[r].tok), ![r].pc = pc]
      PROVE  Tokens'
  <2>1. /\ \A q \in Req : q # r => req'[q] = req[q]
        /\ req'[r].kind = req[r].kind /\ req'[r].tok = req[r].tok /\ req'[r].cookie = req[r].cookie
        /\ req'[r].own = ByToken(req[r].tok) /\ req'[r].pc = pc
    BY <1>2 DEF TypeOK, Request
  <2>2. KindAt(req'[r])
    BY <1>0, <1>2, <2>1 DEF Carries, KindAt
  <2>3. AtMostOne(req'[r].own) /\ \A s \in req'[r].own : sess[s].state # "none"
    BY <1>0, <2>1, FoundOne DEF Carries
  <2>4. ASSUME NEW t \in req[r].tok, Live(t[1])
        PROVE  /\ pc = "findprev" => sess[t[1]].gen > t[2]
               /\ pc = "end" => t[1] \in ByToken(req[r].tok)
    <3>1. t[1] \in Sess /\ t[2] \in Nat /\ sess[t[1]].gen \in Nat /\ t = <<t[1], t[2]>>
      BY DEF TypeOK, Request, Token, Session
    <3>2. t[2] <= sess[t[1]].gen
      BY <1>0, <2>4 DEF Carries, Known, Live
    <3>3. CASE pc = "findprev"
      BY <1>2, <2>4, <3>1, <3>2, <3>3 DEF ByToken
    <3>4. CASE pc = "end"
      <4>1. PICK s \in ByToken(req[r].tok) : TRUE
        BY <1>2, <3>4
      <4>2. <<s, sess[s].gen>> \in req[r].tok
        BY DEF ByToken
      <4>3. t = <<s, sess[s].gen>>
        BY <1>0, <4>2 DEF Carries, AtMostOne
      <4>4. QED
        BY <3>4, <4>1, <4>3
    <3>5. QED
      BY <1>2, <3>3, <3>4
  <2>5. /\ req'[r].pc = "findprev" => \A t \in req[r].tok : Live(t[1]) => sess[t[1]].gen > t[2]
        /\ req'[r].pc = "end" =>
             \A t \in req[r].tok : Live(t[1]) => t[1] \in req'[r].own \/ Overtaken(t, sess)
    BY <2>1, <2>4
  <2>6. req'[r].pc # "answered" /\ req[r].pc # "answered"
    BY <1>0, <1>2, <2>1
  <2>7. QED
    BY <1>0, <2>1, <2>2, <2>3, <2>5, <2>6, MoveTokens
<1>3. QED
  BY <1>1, <1>2 DEF FindCurrent

\* One that does not find it as the previous token either has been overtaken.
LEMMA FindPreviousTokens ==
  ASSUME TypeOK, TypeOK', Tokens, NEW r \in Req, FindPrevious(r)
  PROVE  Tokens'
<1>0. UNCHANGED <<sess, jar>> /\ req[r].pc = "findprev" /\ Carries(req[r], sess)
  BY DEF FindPrevious, At, Tokens
<1> DEFINE found == ByPreviousToken(req[r].tok, RevocationWindow)
<1>1. ASSUME NEW t \in req[r].tok, Live(t[1])
      PROVE  t[1] \in found \/ Overtaken(t, sess)
  <2>1. t[1] \in Sess /\ t[2] \in Nat /\ sess[t[1]].gen \in Nat /\ t = <<t[1], t[2]>>
        /\ sess[t[1]].rotated \in {"never", "tolerance", "window", "long"}
    BY DEF TypeOK, Request, Token, Session
  <2>2. sess[t[1]].gen > t[2]
    BY <1>0, <1>1 DEF Carries, Behind, Live
  <2>3. sess[t[1]].rotated # "never"
    BY <1>1, <2>1, <2>2 DEF Tokens, RotationTimed, Live
  <2>4. CASE sess[t[1]].gen >= t[2] + 2
    BY <2>4 DEF Overtaken
  <2>5. CASE sess[t[1]].gen = t[2] + 1 /\ sess[t[1]].rotated # "long"
    <3>1. sess[t[1]].gen > 0 /\ sess[t[1]].gen - 1 = t[2]
      BY <2>1, <2>5
    <3>2. <<t[1], sess[t[1]].gen - 1>> \in req[r].tok
      BY <2>1, <3>1
    <3>3. QED
      BY <1>1, <2>1, <2>3, <2>5, <3>1, <3>2 DEF ByPreviousToken, RevocationWindow
  <2>6. CASE sess[t[1]].gen = t[2] + 1 /\ sess[t[1]].rotated = "long"
    BY <2>1, <2>6 DEF Overtaken
  <2>7. QED
    BY <2>1, <2>2, <2>4, <2>5, <2>6
<1>2. AtMostOne(found) /\ \A s \in found : sess[s].state # "none"
  BY <1>0, FoundOne DEF Carries
<1>3. CASE Answer(r, "clear", FALSE)
  BY <1>0, <1>3, SameGrows, AnswerTokens
<1>4. CASE found = {} /\ Answer(r, "clear", TRUE)
  <2>1. \A t \in req[r].tok : sess'[t[1]].state = "live" => Overtaken(t, sess')
    BY <1>0, <1>1, <1>4 DEF Live
  <2> HIDE DEF found
  <2>2. QED
    BY <1>0, <1>4, <2>1, SameGrows, AnswerTokens
<1>5. CASE req' = [req EXCEPT ![r].own = found, ![r].pc = "end"]
  <2> HIDE DEF found
  <2>1. /\ \A q \in Req : q # r => req'[q] = req[q]
        /\ req'[r].kind = req[r].kind /\ req'[r].tok = req[r].tok /\ req'[r].cookie = req[r].cookie
        /\ req'[r].own = found /\ req'[r].pc = "end"
    BY <1>5 DEF TypeOK, Request
  <2>2. KindAt(req'[r])
    BY <1>0, <2>1 DEF Carries, KindAt
  <2>3. QED
    BY <1>0, <1>1, <1>2, <2>1, <2>2, MoveTokens
<1>6. QED
  BY <1>3, <1>4, <1>5 DEF FindPrevious

\* A sign-out ends the session it found: its token's, or else that was overtaken.
LEMMA LogoutTokens ==
  ASSUME TypeOK, TypeOK', Tokens, NEW r \in Req, LogoutRevokes(r)
  PROVE  Tokens'
<1>0. UNCHANGED jar /\ req[r].pc = "end" /\ req[r].kind = "logout" /\ Carries(req[r], sess)
  BY DEF LogoutRevokes, At, Tokens, Carries, KindAt
<1>1. CASE sess' = Ended(req[r].own) /\ Answer(r, "clear", TRUE)
  <2>1. Grows(sess, sess') /\ RotationTimed(sess')
    BY <1>1, EndedGrows
  <2>2. ASSUME NEW t \in req[r].tok, sess'[t[1]].state = "live"
        PROVE  Overtaken(t, sess')
    <3>1. t[1] \in Sess
      BY DEF TypeOK, Request, Token
    <3>2. sess'[t[1]] = sess[t[1]] /\ t[1] \notin req[r].own
      BY <1>1, <2>2, <3>1, EndedKept
    <3>3. Overtaken(t, sess)
      BY <1>0, <2>2, <3>2 DEF Carries, Behind
    <3>4. QED
      BY <3>2, <3>3 DEF Overtaken
  <2>3. QED
    BY <1>0, <1>1, <2>1, <2>2, AnswerTokens
<1>2. CASE Answer(r, "clear", FALSE) /\ UNCHANGED sess
  BY <1>0, <1>2, SameGrows, AnswerTokens
<1>3. QED
  BY <1>1, <1>2 DEF LogoutRevokes

\* A session is revoked from the list of sessions.
LEMMA RevokeByIDIs ==
  ASSUME TypeOK, NEW r \in Req, NEW b \in Browser, NEW s \in Sess, RevokeSessionByID(r, b, s)
  PROVE  /\ \A q \in Req : q # r => req'[q] = req[q]
         /\ req[r].pc = "idle" /\ req'[r].kind = "revoke" /\ req'[r].pc = "answered" /\ req'[r].b = b
         /\ req'[r].cookie # "set" /\ req'[r].tok = {} /\ req'[r].own = {}
<1> DEFINE c == IF s \in ByToken(jar[b]) THEN "clear" ELSE "keep"
           a == [Idle EXCEPT !.kind = "revoke", !.b = b, !.pc = "answered", !.ok = TRUE, !.cookie = c]
<1>1. req' = [req EXCEPT ![r] = a] /\ c # "set" /\ req[r].pc = "idle"
  BY DEF RevokeSessionByID, At
<1> HIDE DEF c
<1>2. /\ a.kind = "revoke" /\ a.pc = "answered" /\ a.cookie = c /\ a.tok = {} /\ a.own = {} /\ a.b = b
  BY DEF Idle
<1> HIDE DEF a
<1>3. QED
  BY <1>1, <1>2 DEF TypeOK

\* That answer carries nothing.
LEMMA RevokeByIDTokens ==
  ASSUME TypeOK, TypeOK', Tokens, NEW r \in Req, NEW b \in Browser, NEW s \in Sess,
         RevokeSessionByID(r, b, s)
  PROVE  Tokens'
<1>1. /\ \A q \in Req : q # r => req'[q] = req[q]
      /\ req'[r].kind = "revoke" /\ req'[r].pc = "answered"
      /\ req'[r].cookie # "set" /\ req'[r].tok = {} /\ req'[r].own = {}
  BY RevokeByIDIs
<1>2. sess' = Ended({s}) /\ UNCHANGED jar
  BY DEF RevokeSessionByID
<1>3. Grows(sess, sess') /\ RotationTimed(sess')
  BY <1>2, EndedGrows
<1>4. Carries(req'[r], sess')
  BY <1>1 DEF Carries, KindAt, AtMostOne
<1>5. QED
  BY <1>1, <1>2, <1>3, <1>4, TokensStep

\* The two parts of a sign-out everywhere.
LEMMA LogoutAllTokens ==
  ASSUME TypeOK, TypeOK', Tokens, NEW r \in Req, LogoutAll(r)
  PROVE  Tokens'
<1>0. UNCHANGED jar
  BY DEF LogoutAll
<1>1. CASE /\ At(r, "bump") /\ UNCHANGED sess
           /\ req' = [req EXCEPT ![r].pc = "sweep", ![r].epoch = user.epoch + 1]
  <2>1. /\ \A q \in Req : q # r => req'[q] = req[q]
        /\ req'[r].kind = req[r].kind /\ req'[r].tok = req[r].tok /\ req'[r].cookie = req[r].cookie
        /\ req'[r].own = req[r].own /\ req'[r].pc = "sweep" /\ req[r].pc = "bump"
    BY <1>1 DEF TypeOK, Request, At
  <2>2. Carries(req[r], sess)
    BY DEF Tokens
  <2>3. KindAt(req'[r]) /\ AtMostOne(req'[r].own) /\ \A s \in req'[r].own : sess[s].state # "none"
    BY <2>1, <2>2 DEF Carries, KindAt
  <2>4. QED
    BY <1>0, <1>1, <2>1, <2>3, MoveTokens
<1>2. CASE sess' = Ended(Sess) /\ Answer(r, "clear", TRUE) /\ At(r, "sweep")
  <2>1. req[r].kind = "logoutall"
    BY <1>2 DEF At, Tokens, Carries, KindAt
  <2>2. QED
    BY <1>0, <1>2, <2>1, EndedGrows, AnswerTokens
<1>3. CASE Answer(r, "keep", FALSE) /\ UNCHANGED sess
  BY <1>0, <1>3, SameGrows, AnswerTokens
<1>4. QED
  BY <1>1, <1>2, <1>3 DEF LogoutAll

\* A password change, confirmed or not.
LEMMA ChangePasswordTokens ==
  ASSUME TypeOK, TypeOK', Tokens, NEW r \in Req, ChangePassword(r)
  PROVE  Tokens'
<1>1. PICK ok \in BOOLEAN : Answer(r, "keep", ok)
  BY DEF ChangePassword
<1>2. (sess' = Ended(Sess) \/ UNCHANGED sess) /\ UNCHANGED jar
  BY DEF ChangePassword
<1>3. Grows(sess, sess') /\ RotationTimed(sess')
  BY <1>2, EndedGrows, SameGrows
<1>4. req[r].kind = "password"
  BY DEF ChangePassword, At, Tokens, Carries, KindAt
<1>5. QED
  BY <1>1, <1>2, <1>3, <1>4, AnswerTokens

\* A request whose answer was delivered or lost holds nothing any more.
LEMMA GivenUp ==
  ASSUME TypeOK, NEW r \in Req, req' = [req EXCEPT ![r] = Idle]
  PROVE  /\ \A q \in Req : q # r => req'[q] = req[q]
         /\ req'[r] = Idle
BY DEF TypeOK

\* What the cookie jar of the browser becomes.
LEMMA DeliverIs ==
  ASSUME TypeOK, NEW r \in Req, Deliver(r)
  PROVE  /\ req[r].b \in Browser
         /\ \A c \in Browser : c # req[r].b => jar'[c] = jar[c]
         /\ jar'[req[r].b] = (CASE req[r].cookie = "set" -> NewToken(r)
                                [] req[r].cookie = "clear" -> {}
                                [] OTHER -> jar[req[r].b])
<1>1. req[r].b \in Browser
  BY DEF TypeOK, Request
<1>2. QED
  BY <1>1 DEF TypeOK, Deliver

\* The token an answer brings is one token, and no newer than the session's.
LEMMA NewTokenHeld ==
  ASSUME TypeOK, Tokens, NEW r \in Req, req[r].cookie = "set"
  PROVE  Holds(NewToken(r), sess)
<1>0. Carries(req[r], sess) /\ req[r] \in Request
  BY DEF Tokens, TypeOK
<1>1. CASE req[r].kind = "signin"
  <2>1. NewToken(r) = {<<s, 0>> : s \in req[r].own}
    BY <1>1 DEF NewToken
  <2>2. AtMostOne(NewToken(r))
    BY <1>0, <2>1 DEF Carries, AtMostOne
  <2>3. ASSUME NEW s \in req[r].own PROVE Known(<<s, 0>>, sess)
    <3>1. sess[s].gen \in Nat
      BY <1>0 DEF TypeOK, Request, Session
    <3>2. QED
      BY <1>0, <3>1 DEF Known, Carries
  <2>4. QED
    BY <2>1, <2>2, <2>3 DEF Holds
<1>2. CASE req[r].kind = "refresh"
  <2>1. NewToken(r) = {<<t[1], t[2] + 1>> : t \in req[r].tok}
    BY <1>2 DEF NewToken
  <2>2. AtMostOne(NewToken(r))
    BY <1>0, <2>1 DEF Carries, AtMostOne
  <2>3. ASSUME NEW t \in req[r].tok PROVE Known(<<t[1], t[2] + 1>>, sess)
    <3>1. t[1] \in Sess /\ t[2] \in Nat /\ sess[t[1]].gen \in Nat
      BY <1>0 DEF TypeOK, Request, Token, Session
    <3>2. Known(t, sess) /\ (sess[t[1]].state = "live" => sess[t[1]].gen > t[2])
      BY <1>0, <1>2 DEF Carries, Behind
    <3>3. QED
      BY <3>1, <3>2 DEF Known
  <2>4. QED
    BY <2>1, <2>2, <2>3 DEF Holds
<1>3. QED
  BY <1>0, <1>1, <1>2 DEF Carries, KindAt

\* An answer reaches its browser.
LEMMA DeliverTokens ==
  ASSUME TypeOK, TypeOK', Tokens, NEW r \in Req, Deliver(r)
  PROVE  Tokens'
<1>1. \A q \in Req : req'[q] = req[q] \/ Carries(req'[q], sess')
  BY GivenUp, IdleCarries DEF Deliver
<1>2. UNCHANGED sess /\ Holds({}, sess)
  BY DEF Deliver, Holds, AtMostOne
<1>3. \A b \in Browser : jar'[b] = jar[b] \/ Holds(jar'[b], sess')
  BY <1>2, DeliverIs, NewTokenHeld
<1>4. QED
  BY <1>1, <1>2, <1>3, SameGrows, TokensStep

\* An answer is lost.
LEMMA LoseTokens ==
  ASSUME TypeOK, TypeOK', Tokens, NEW r \in Req, LoseAnswer(r)
  PROVE  Tokens'
<1>1. \A q \in Req : req'[q] = req[q] \/ Carries(req'[q], sess')
  BY GivenUp, IdleCarries DEF LoseAnswer
<1>2. UNCHANGED <<sess, jar>>
  BY DEF LoseAnswer
<1>3. QED
  BY <1>1, <1>2, SameGrows, TokensStep

\* Time over a rotation, by session.
LEMMA AgesIs ==
  ASSUME TypeOK, NEW s \in Sess, RotationAges(s)
  PROVE  /\ \A u \in Sess : u # s => sess'[u] = sess[u]
         /\ sess'[s].state = sess[s].state /\ sess'[s].gen = sess[s].gen
         /\ sess[s].rotated # "long" /\ sess'[s].rotated # "never"
<1> DEFINE t == IF sess[s].rotated = "tolerance" THEN "window" ELSE "long"
<1>1. t # "never" /\ sess' = [sess EXCEPT ![s].rotated = t] /\ sess[s].rotated # "long"
  BY DEF RotationAges, RevocationWindow, TypeOK, Session
<1> HIDE DEF t
<1>2. QED
  BY <1>1 DEF TypeOK, Session

\* Steps that touch no request: changes of the user's row, clocks.
LEMMA QuietTokens ==
  ASSUME TypeOK, TypeOK', Tokens, UNCHANGED <<req, jar>>,
         \/ \E S : sess' = Ended(S)
         \/ UNCHANGED sess
         \/ \E s \in Sess : RotationAges(s)
  PROVE  Tokens'
<1>1. Grows(sess, sess') /\ RotationTimed(sess')
  <2>1. CASE \E S : sess' = Ended(S)
    BY <2>1, EndedGrows
  <2>2. CASE UNCHANGED sess
    BY <2>2, SameGrows
  <2>3. ASSUME NEW s \in Sess, RotationAges(s)
        PROVE  Grows(sess, sess') /\ RotationTimed(sess')
    <3>1. \A u \in Sess : sess[u].gen \in Nat
      BY DEF TypeOK, Session
    <3>2. /\ \A u \in Sess : u # s => sess'[u] = sess[u]
          /\ sess'[s].state = sess[s].state /\ sess'[s].gen = sess[s].gen
          /\ sess[s].rotated # "long" /\ sess'[s].rotated # "never"
      BY <2>3, AgesIs
    <3>3. QED
      BY <3>1, <3>2 DEF Grows, RotationTimed, Tokens
  <2>4. QED
    BY <2>1, <2>2, <2>3
<1>2. QED
  BY <1>1, TokensStep

\* Every step keeps the tokens in order.
LEMMA TokensInv ==
  ASSUME TypeOK, TypeOK', Tokens, [Next]_vars
  PROVE  Tokens'
<1>1. ASSUME NEW r \in Req, NEW b \in Browser,
             \/ Login(r, b) \/ SendRefresh(r, b) \/ SendLogout(r, b)
             \/ SendLogoutAll(r, b) \/ SendChangePassword(r, b)
      PROVE  Tokens'
  BY <1>1, SendsTokens
<1>2. ASSUME NEW r \in Req, NEW b \in Browser, NEW s \in Sess, RevokeSessionByID(r, b, s)
      PROVE  Tokens'
  BY <1>2, RevokeByIDTokens
<1>3. ASSUME NEW r \in Req,
             \/ Redeem(r) \/ CreateSessionAtEpoch(r) \/ endReplacedSession(r)
             \/ ValidateRefreshToken(r) \/ RefreshReadsUser(r) \/ RotateRefreshToken(r)
             \/ refuseStaleRefresh(r) \/ FindCurrent(r) \/ FindPrevious(r) \/ LogoutRevokes(r)
             \/ LogoutAll(r) \/ ChangePassword(r) \/ Deliver(r) \/ LoseAnswer(r)
      PROVE  Tokens'
  BY <1>3, RedeemTokens, CreateTokens, ReplaceTokens, ValidateTokens, ReadUserTokens, RotateTokens,
     RefuseTokens, FindCurrentTokens, FindPreviousTokens, LogoutTokens, LogoutAllTokens,
     ChangePasswordTokens, DeliverTokens, LoseTokens
<1>4. CASE deactivate \/ LdapDeactivates \/ UpdateUser \/ UNCHANGED vars
  BY <1>4, QuietTokens DEF deactivate, LdapDeactivates, UpdateUser, vars
<1>5. ASSUME NEW s \in Sess, RotationAges(s) \/ Expires(s)
      PROVE  Tokens'
  BY <1>5, QuietTokens DEF RotationAges, Expires
<1>6. QED
  BY <1>1, <1>2, <1>3, <1>4, <1>5 DEF Next

-----------------------------------------------------------------------------
(* A session is one browser's.                                              *)

Names(T, s) == \E t \in T : t[1] = s

\* Browser b has a token of s, or a request of it has, or works on s.
Has(b, s) ==
    \/ Names(jar[b], s)
    \/ \E r \in Req : req[r].b = b /\ (Names(req[r].tok, s) \/ s \in req[r].own)

\* No two browsers have the same session.
Private == \A s \in Sess, b, c \in Browser : Has(b, s) /\ Has(c, s) => b = c

\* The session of a sign-in that is not answered yet: nobody has a token of it.
Unseen ==
    \A r \in Req : req[r].kind = "signin" => \A s \in req[r].own :
      /\ Live(s) => sess[s].gen = 0
      /\ \A b \in Browser : ~Names(jar[b], s)
      /\ \A q \in Req : ~Names(req[q].tok, s) /\ (q # r => s \notin req[q].own)

\* A step in which requests get their tokens and sessions from what their browser
\* has, and a session rotates only for one who has a token of it.
Inherits ==
    /\ \A q \in Req :
         /\ \A s : Names(req'[q].tok, s) =>
              \/ Names(req[q].tok, s) /\ req'[q].b = req[q].b
              \/ Names(jar[req'[q].b], s)
         /\ \A s \in req'[q].own : req'[q].b = req[q].b /\ (Names(req[q].tok, s) \/ s \in req[q].own)
         /\ req'[q].kind = "signin" => \A s \in req'[q].own : req[q].kind = "signin" /\ s \in req[q].own
    /\ \A s \in Sess : sess'[s].state = "live" =>
         /\ sess[s].state = "live"
         /\ sess'[s].gen = sess[s].gen \/ \E q \in Req : Names(req[q].tok, s)

\* Such a step keeps sessions private, and those of sign-ins unseen.
LEMMA InheritsPrivate ==
  ASSUME TypeOK, TypeOK', Private, Unseen, Inherits, UNCHANGED jar
  PROVE  Private' /\ Unseen'
<1>1. ASSUME NEW b \in Browser, NEW s \in Sess, Has(b, s)'
      PROVE  Has(b, s)
  BY <1>1 DEF Has, Inherits, Names
<1>2. Private'
  BY <1>1 DEF Private
<1>3. ASSUME NEW r \in Req, req'[r].kind = "signin", NEW s \in req'[r].own
      PROVE  /\ sess'[s].state = "live" => sess'[s].gen = 0
             /\ \A b \in Browser : ~Names(jar'[b], s)
             /\ \A q \in Req : ~Names(req'[q].tok, s) /\ (q # r => s \notin req'[q].own)
  <2>1. s \in Sess /\ req[r].kind = "signin" /\ s \in req[r].own
    BY <1>3 DEF Inherits, TypeOK, Request
  <2>2. /\ sess[s].state = "live" => sess[s].gen = 0
        /\ \A b \in Browser : ~Names(jar[b], s)
        /\ \A q \in Req : ~Names(req[q].tok, s) /\ (q # r => s \notin req[q].own)
    BY <2>1 DEF Unseen, Live
  <2>3. \A q \in Req : req'[q].b \in Browser
    BY DEF TypeOK, Request
  <2>4. QED
    BY <2>1, <2>2, <2>3 DEF Inherits
<1>4. Unseen'
  BY <1>3 DEF Unseen, Live
<1>5. QED
  BY <1>2, <1>4

\* No session is created or rotated.
Unrotated == \A s \in Sess : sess'[s].state = "live" => sess'[s] = sess[s]

\* An answer hands nothing to another.
LEMMA AnswerInherits ==
  ASSUME TypeOK, NEW r \in Req, NEW c, NEW ok, Answer(r, c, ok),
         Unrotated \/ \E s \in Sess : Names(req[r].tok, s) /\ sess' = Rotated(s)
  PROVE  Inherits
<1>1. /\ \A q \in Req : q # r => req'[q] = req[q]
      /\ req'[r].kind = req[r].kind /\ req'[r].b = req[r].b
      /\ req'[r].tok = req[r].tok \/ req'[r].tok = {}
      /\ req'[r].own = req[r].own \/ req'[r].own = {}
  BY AnswerIs
<1>2. \A s \in Sess : sess'[s].state = "live" =>
         /\ sess[s].state = "live"
         /\ sess'[s].gen = sess[s].gen \/ \E q \in Req : Names(req[q].tok, s)
  <2>1. CASE Unrotated
    BY <2>1 DEF Unrotated
  <2>2. ASSUME NEW s \in Sess, Names(req[r].tok, s), sess' = Rotated(s)
        PROVE  \A u \in Sess : sess'[u].state = "live" =>
                 /\ sess[u].state = "live"
                 /\ sess'[u].gen = sess[u].gen \/ \E q \in Req : Names(req[q].tok, u)
    <3>1. sess'[s].state = sess[s].state /\ \A u \in Sess : u # s => sess'[u] = sess[u]
      BY <2>2 DEF Rotated, TypeOK, Session
    <3>2. QED
      BY <2>2, <3>1
  <2>3. QED
    BY <2>1, <2>2
<1>3. QED
  BY <1>1, <1>2 DEF Inherits, Names

\* Nor does a request sent, which has its browser's cookie.
LEMMA SendInherits ==
  ASSUME TypeOK, NEW r \in Req, NEW b \in Browser, NEW kind, NEW pc, Send(r, b, kind, pc), UNCHANGED sess
  PROVE  Inherits
<1>1. /\ \A q \in Req : q # r => req'[q] = req[q]
      /\ req'[r].b = b /\ req'[r].own = {}
      /\ req'[r].tok = jar[b] \/ req'[r].tok = {}
  BY SendIs
<1>2. QED
  BY <1>1 DEF Inherits, Names

\* Nor does one that goes on with a session its token names.
LEMMA MoveInherits ==
  ASSUME TypeOK, NEW r \in Req, UNCHANGED sess,
         \A q \in Req : q # r => req'[q] = req[q],
         req'[r].kind = req[r].kind, req'[r].b = req[r].b, req'[r].tok = req[r].tok,
         \/ req'[r].own = req[r].own
         \/ req[r].kind # "signin" /\ \A s \in req'[r].own : Names(req[r].tok, s)
  PROVE  Inherits
BY DEF Inherits

\* A session found by a token is one the token names.
LEMMA FoundNamed ==
  ASSUME NEW T
  PROVE  /\ \A s \in ByToken(T) : Names(T, s)
         /\ \A window : \A s \in ByPreviousToken(T, window) : Names(T, s)
<1>1. \A s, g : <<s, g>> \in T => Names(T, s)
  <2>1. \A s, g : <<s, g>>[1] = s
    OBVIOUS
  <2>2. QED
    BY <2>1 DEF Names
<1>2. QED
  BY <1>1 DEF ByToken, ByPreviousToken

\* Revoking sessions rotates none.
LEMMA EndedUnrotated ==
  ASSUME TypeOK, NEW S, sess' = Ended(S)
  PROVE  Unrotated
BY EndedKept DEF Unrotated

\* A request given up hands nothing on.
LEMMA IdleInherits ==
  ASSUME TypeOK, NEW r \in Req, req' = [req EXCEPT ![r] = Idle], UNCHANGED sess
  PROVE  Inherits
<1>1. Idle.tok = {} /\ Idle.own = {}
  BY DEF Idle
<1>2. QED
  BY <1>1, GivenUp DEF Inherits, Names

\* All the steps of requests but the insert and the delivery of an answer.
LEMMA RequestInherits ==
  ASSUME TypeOK, Tokens, NEW r \in Req,
         \/ \E b \in Browser : \/ Login(r, b) \/ SendRefresh(r, b) \/ SendLogout(r, b)
                               \/ SendLogoutAll(r, b) \/ SendChangePassword(r, b)
                               \/ \E s \in Sess : RevokeSessionByID(r, b, s)
         \/ Redeem(r) \/ endReplacedSession(r)
         \/ ValidateRefreshToken(r) \/ RefreshReadsUser(r) \/ RotateRefreshToken(r)
         \/ refuseStaleRefresh(r) \/ FindCurrent(r) \/ FindPrevious(r) \/ LogoutRevokes(r)
         \/ LogoutAll(r) \/ ChangePassword(r) \/ LoseAnswer(r)
  PROVE  Inherits /\ UNCHANGED jar
<1>0. UNCHANGED sess => Unrotated
  BY DEF Unrotated
<1>c. KindAt(req[r])
  BY DEF Tokens, Carries
<1>1. ASSUME NEW b \in Browser, \/ Login(r, b) \/ SendRefresh(r, b) \/ SendLogout(r, b)
                                \/ SendLogoutAll(r, b) \/ SendChangePassword(r, b)
      PROVE  Inherits /\ UNCHANGED jar
  <2>1. PICK kind, pc : Send(r, b, kind, pc)
    BY <1>1 DEF Login, SendRefresh, SendLogout, SendLogoutAll, SendChangePassword
  <2>2. UNCHANGED <<sess, jar>>
    BY <1>1 DEF Login, SendRefresh, SendLogout, SendLogoutAll, SendChangePassword
  <2>3. QED
    BY <2>1, <2>2, SendInherits
<1>2. ASSUME NEW b \in Browser, NEW s \in Sess, RevokeSessionByID(r, b, s)
      PROVE  Inherits /\ UNCHANGED jar
  <2>1. Unrotated /\ UNCHANGED jar
    BY <1>2, EndedUnrotated DEF RevokeSessionByID
  <2>2. QED
    BY <1>2, <2>1, RevokeByIDIs DEF Inherits, Unrotated, Names
<1>3. CASE Redeem(r)
  <2>1. UNCHANGED <<sess, jar>>
    BY <1>3 DEF Redeem
  <2>2. CASE Answer(r, "keep", FALSE)
    BY <1>0, <2>1, <2>2, AnswerInherits
  <2>3. CASE req' = [req EXCEPT ![r].pc = "insert", ![r].role = user.role]
    <3>1. /\ \A q \in Req : q # r => req'[q] = req[q]
          /\ req'[r].kind = req[r].kind /\ req'[r].tok = req[r].tok /\ req'[r].b = req[r].b
          /\ req'[r].own = req[r].own
      BY <2>3 DEF TypeOK, Request
    <3>2. QED
      BY <2>1, <3>1, MoveInherits
  <2>4. QED
    BY <1>3, <2>2, <2>3 DEF Redeem
<1>4. CASE endReplacedSession(r)
  <2>1. Unrotated
    BY <1>0, <1>4, EndedUnrotated DEF endReplacedSession
  <2>2. QED
    BY <1>4, <2>1, AnswerInherits DEF endReplacedSession
<1>5. CASE ValidateRefreshToken(r) \/ FindCurrent(r)
  <2>1. UNCHANGED <<sess, jar>> /\ req[r].kind # "signin"
    BY <1>5, <1>c DEF ValidateRefreshToken, FindCurrent, KindAt, At
  <2>2. CASE \E c : Answer(r, c, FALSE)
    BY <1>0, <2>1, <2>2, AnswerInherits
  <2>3. CASE \E pc : req' = [req EXCEPT ![r].own = ByToken(req[r].tok), ![r].pc = pc]
    <3>1. /\ \A q \in Req : q # r => req'[q] = req[q]
          /\ req'[r].kind = req[r].kind /\ req'[r].tok = req[r].tok /\ req'[r].b = req[r].b
          /\ req'[r].own = ByToken(req[r].tok)
      BY <2>3 DEF TypeOK, Request
    <3>2. QED
      BY <2>1, <3>1, FoundNamed, MoveInherits
  <2>4. QED
    BY <1>5, <2>2, <2>3 DEF ValidateRefreshToken, FindCurrent
<1>6. CASE FindPrevious(r)
  <2> DEFINE found == ByPreviousToken(req[r].tok, RevocationWindow)
  <2>1. UNCHANGED <<sess, jar>> /\ req[r].kind # "signin"
    BY <1>6, <1>c DEF FindPrevious, KindAt, At
  <2>2. CASE \E ok : Answer(r, "clear", ok)
    BY <1>0, <2>1, <2>2, AnswerInherits
  <2>3. CASE req' = [req EXCEPT ![r].own = found, ![r].pc = "end"]
    <3>1. \A s \in found : Names(req[r].tok, s)
      BY FoundNamed
    <3> HIDE DEF found
    <3>2. /\ \A q \in Req : q # r => req'[q] = req[q]
          /\ req'[r].kind = req[r].kind /\ req'[r].tok = req[r].tok /\ req'[r].b = req[r].b
          /\ req'[r].own = found
      BY <2>3 DEF TypeOK, Request
    <3>3. QED
      BY <2>1, <3>1, <3>2, MoveInherits
  <2>4. QED
    BY <1>6, <2>2, <2>3 DEF FindPrevious
<1>7. CASE RefreshReadsUser(r)
  <2>1. CASE Goto(r, "rotate") /\ UNCHANGED sess
    <3>1. /\ \A q \in Req : q # r => req'[q] = req[q]
          /\ req'[r].kind = req[r].kind /\ req'[r].tok = req[r].tok /\ req'[r].b = req[r].b
          /\ req'[r].own = req[r].own
      BY <2>1 DEF Goto, TypeOK, Request
    <3>2. QED
      BY <1>7, <2>1, <3>1, MoveInherits DEF RefreshReadsUser
  <2>2. CASE Answer(r, "clear", FALSE) /\ (sess' = Ended(req[r].own) \/ UNCHANGED sess)
    <3>1. Unrotated
      BY <1>0, <2>2, EndedUnrotated
    <3>2. QED
      BY <1>7, <2>2, <3>1, AnswerInherits DEF RefreshReadsUser
  <2>3. QED
    BY <1>7, <2>1, <2>2 DEF RefreshReadsUser
<1>8. CASE RotateRefreshToken(r)
  <2>1. CASE Goto(r, "refuse") /\ UNCHANGED sess
    <3>1. /\ \A q \in Req : q # r => req'[q] = req[q]
          /\ req'[r].kind = req[r].kind /\ req'[r].tok = req[r].tok /\ req'[r].b = req[r].b
          /\ req'[r].own = req[r].own
      BY <2>1 DEF Goto, TypeOK, Request
    <3>2. QED
      BY <1>8, <2>1, <3>1, MoveInherits DEF RotateRefreshToken
  <2>2. ASSUME NEW s \in Rotatable(r), sess' = Rotated(s) \/ UNCHANGED sess,
               \E c, ok : Answer(r, c, ok)
        PROVE  Inherits
    <3>1. s \in Sess /\ <<s, sess[s].gen>> \in req[r].tok
      BY DEF Rotatable, TypeOK, Request
    <3>2. Names(req[r].tok, s)
      BY <3>1 DEF Names
    <3>3. QED
      BY <1>0, <2>2, <3>1, <3>2, AnswerInherits
  <2>3. QED
    BY <1>8, <2>1, <2>2 DEF RotateRefreshToken
<1>9. CASE refuseStaleRefresh(r)
  <2>1. PICK c : Answer(r, c, FALSE)
    BY <1>9 DEF refuseStaleRefresh
  <2>2. QED
    BY <1>0, <1>9, <2>1, AnswerInherits DEF refuseStaleRefresh
<1>10. CASE LogoutRevokes(r) \/ ChangePassword(r)
  <2>1. PICK c, ok : Answer(r, c, ok)
    BY <1>10 DEF LogoutRevokes, ChangePassword
  <2>2. Unrotated /\ UNCHANGED jar
    BY <1>0, <1>10, EndedUnrotated DEF LogoutRevokes, ChangePassword
  <2>3. QED
    BY <2>1, <2>2, AnswerInherits
<1>11. CASE LogoutAll(r)
  <2>1. CASE UNCHANGED sess /\ req' = [req EXCEPT ![r].pc = "sweep", ![r].epoch = user.epoch + 1]
    <3>1. /\ \A q \in Req : q # r => req'[q] = req[q]
          /\ req'[r].kind = req[r].kind /\ req'[r].tok = req[r].tok /\ req'[r].b = req[r].b
          /\ req'[r].own = req[r].own
      BY <2>1 DEF TypeOK, Request
    <3>2. QED
      BY <1>11, <2>1, <3>1, MoveInherits DEF LogoutAll
  <2>2. CASE (sess' = Ended(Sess) \/ UNCHANGED sess) /\ \E c, ok : Answer(r, c, ok)
    <3>1. Unrotated
      BY <1>0, <2>2, EndedUnrotated
    <3>2. QED
      BY <1>11, <2>2, <3>1, AnswerInherits DEF LogoutAll
  <2>3. QED
    BY <1>11, <2>1, <2>2 DEF LogoutAll
<1>12. CASE LoseAnswer(r)
  BY <1>12, IdleInherits DEF LoseAnswer
<1>13. QED
  BY <1>1, <1>2, <1>3, <1>4, <1>5, <1>6, <1>7, <1>8, <1>9, <1>10, <1>11, <1>12

\* A session that does not exist is nobody's.
LEMMA UnbornUnknown ==
  ASSUME TypeOK, Tokens, NEW s \in Sess, sess[s].state = "none"
  PROVE  /\ \A b \in Browser : ~Names(jar[b], s)
         /\ \A q \in Req : ~Names(req[q].tok, s) /\ s \notin req[q].own
BY DEF Tokens, Carries, Holds, Known, Names

\* The insert gives a session nobody has to the browser that signs in.
LEMMA CreatePrivate ==
  ASSUME TypeOK, TypeOK', Tokens, Private, Unseen, NEW r \in Req, CreateSessionAtEpoch(r)
  PROVE  Private' /\ Unseen'
<1>1. CASE Answer(r, "keep", FALSE) /\ UNCHANGED <<user, sess, jar, swept, home, spent>>
  <2>1. Inherits
    BY <1>1, AnswerInherits DEF Unrotated
  <2>2. QED
    BY <1>1, <2>1, InheritsPrivate
<1>2. ASSUME NEW new \in Sess,
             sess[new].state = "none", sess'[new].gen = 0,
             \A u \in Sess : u # new => sess'[u] = sess[u],
             \A q \in Req : q # r => req'[q] = req[q],
             req'[r].own = {new}, req'[r].tok = req[r].tok, req'[r].kind = req[r].kind,
             req'[r].b = req[r].b, UNCHANGED jar
      PROVE  Private' /\ Unseen'
  <2>1. /\ \A b \in Browser : ~Names(jar[b], new)
        /\ \A q \in Req : ~Names(req[q].tok, new) /\ new \notin req[q].own
    BY <1>2, UnbornUnknown
  <2>2. ASSUME NEW b \in Browser, NEW s \in Sess, Has(b, s)'
        PROVE  (s # new /\ Has(b, s)) \/ (s = new /\ b = req[r].b)
    <3>1. CASE Names(jar'[b], s)
      BY <1>2, <2>1, <3>1 DEF Has
    <3>2. ASSUME NEW q \in Req, req'[q].b = b, Names(req'[q].tok, s) \/ s \in req'[q].own
          PROVE  (s # new /\ Has(b, s)) \/ (s = new /\ b = req[r].b)
      BY <1>2, <2>1, <3>2 DEF Has
    <3>3. QED
      BY <2>2, <3>1, <3>2 DEF Has
  <2>3. Private'
    BY <2>2 DEF Private
  <2>4. ASSUME NEW p \in Req, req'[p].kind = "signin", NEW s \in req'[p].own
        PROVE  /\ sess'[s].state = "live" => sess'[s].gen = 0
               /\ \A b \in Browser : ~Names(jar'[b], s)
               /\ \A q \in Req : ~Names(req'[q].tok, s) /\ (q # p => s \notin req'[q].own)
    <3>1. CASE p = r
      BY <1>2, <2>1, <2>4, <3>1
    <3>2. CASE p # r
      <4>1. s \in Sess /\ req[p].kind = "signin" /\ s \in req[p].own /\ s # new
        BY <1>2, <2>1, <2>4, <3>2 DEF TypeOK, Request
      <4>2. QED
        BY <1>2, <3>2, <4>1 DEF Unseen, Live
    <3>3. QED
      BY <3>1, <3>2
  <2>5. Unseen'
    BY <2>4 DEF Unseen, Live
  <2>6. QED
    BY <2>3, <2>5
<1>3. QED
  BY <1>1, <1>2, CreateIs

\* An answer gives its browser a token of a session it already has, and takes
\* the session of a sign-in from the request.
LEMMA DeliverPrivate ==
  ASSUME TypeOK, TypeOK', Tokens, Private, Unseen, NEW r \in Req, Deliver(r)
  PROVE  Private' /\ Unseen'
<1>0. /\ \A q \in Req : q # r => req'[q] = req[q]
      /\ req'[r].own = {} /\ req'[r].tok = {}
      /\ UNCHANGED sess
  <2>1. Idle.own = {} /\ Idle.tok = {}
    BY DEF Idle
  <2>2. req' = [req EXCEPT ![r] = Idle] /\ UNCHANGED sess
    BY DEF Deliver
  <2>3. QED
    BY <2>1, <2>2, GivenUp
<1>1. req[r].b \in Browser /\ \A c \in Browser : c # req[r].b => jar'[c] = jar[c]
  BY DeliverIs
<1>2. ASSUME NEW s \in Sess, Names(jar'[req[r].b], s)
      PROVE  \/ Names(jar[req[r].b], s) \/ Names(req[r].tok, s)
             \/ req[r].kind = "signin" /\ s \in req[r].own
  <2>1. CASE req[r].cookie = "set"
    <3>1. Names(NewToken(r), s)
      BY <1>2, <2>1, DeliverIs
    <3>2. CASE req[r].kind = "signin"
      BY <3>1, <3>2 DEF NewToken, Names
    <3>3. CASE req[r].kind # "signin"
      BY <3>1, <3>3 DEF NewToken, Names
    <3>4. QED
      BY <3>2, <3>3
  <2>2. CASE req[r].cookie # "set"
    BY <1>2, <2>2, DeliverIs DEF Names
  <2>3. QED
    BY <2>1, <2>2
<1>3. ASSUME NEW b \in Browser, NEW s \in Sess, Has(b, s)'
      PROVE  Has(b, s)
  <2>1. CASE Names(jar'[b], s)
    BY <1>1, <1>2, <2>1 DEF Has
  <2>2. ASSUME NEW q \in Req, req'[q].b = b, Names(req'[q].tok, s) \/ s \in req'[q].own
        PROVE  Has(b, s)
    BY <1>0, <2>2 DEF Has, Names
  <2>3. QED
    BY <1>3, <2>1, <2>2 DEF Has
<1>4. Private'
  BY <1>3 DEF Private
<1>5. ASSUME NEW p \in Req, req'[p].kind = "signin", NEW s \in req'[p].own
      PROVE  /\ sess'[s].state = "live" => sess'[s].gen = 0
             /\ \A b \in Browser : ~Names(jar'[b], s)
             /\ \A q \in Req : ~Names(req'[q].tok, s) /\ (q # p => s \notin req'[q].own)
  <2>1. p # r /\ req[p].kind = "signin" /\ s \in req[p].own /\ s \in Sess
    BY <1>0, <1>5 DEF TypeOK, Request
  <2>2. /\ sess[s].state = "live" => sess[s].gen = 0
        /\ \A b \in Browser : ~Names(jar[b], s)
        /\ \A q \in Req : ~Names(req[q].tok, s) /\ (q # p => s \notin req[q].own)
    BY <2>1 DEF Unseen, Live
  <2>3. ASSUME NEW b \in Browser PROVE ~Names(jar'[b], s)
    BY <1>1, <1>2, <2>1, <2>2
  <2>4. \A q \in Req : ~Names(req'[q].tok, s) /\ (q # p => s \notin req'[q].own)
    BY <1>0, <2>1, <2>2 DEF Names
  <2>5. QED
    BY <1>0, <2>2, <2>3, <2>4
<1>6. Unseen'
  BY <1>5 DEF Unseen, Live
<1>7. QED
  BY <1>4, <1>6

\* Every step keeps sessions private.
LEMMA PrivateInv ==
  ASSUME TypeOK, TypeOK', Tokens, Private, Unseen, [Next]_vars
  PROVE  Private' /\ Unseen'
<1>1. ASSUME NEW r \in Req, CreateSessionAtEpoch(r) \/ Deliver(r)
      PROVE  Private' /\ Unseen'
  BY <1>1, CreatePrivate, DeliverPrivate
<1>2. ASSUME NEW r \in Req,
             \/ \E b \in Browser : \/ Login(r, b) \/ SendRefresh(r, b) \/ SendLogout(r, b)
                                   \/ SendLogoutAll(r, b) \/ SendChangePassword(r, b)
                                   \/ \E s \in Sess : RevokeSessionByID(r, b, s)
             \/ Redeem(r) \/ endReplacedSession(r)
             \/ ValidateRefreshToken(r) \/ RefreshReadsUser(r) \/ RotateRefreshToken(r)
             \/ refuseStaleRefresh(r) \/ FindCurrent(r) \/ FindPrevious(r) \/ LogoutRevokes(r)
             \/ LogoutAll(r) \/ ChangePassword(r) \/ LoseAnswer(r)
      PROVE  Private' /\ Unseen'
  <2>1. Inherits /\ UNCHANGED jar
    BY <1>2, RequestInherits
  <2>2. QED
    BY <2>1, InheritsPrivate
<1>3. CASE deactivate \/ LdapDeactivates \/ UpdateUser \/ UNCHANGED vars
           \/ \E s \in Sess : RotationAges(s) \/ Expires(s)
  <2>1. UNCHANGED <<req, jar>>
    BY <1>3 DEF deactivate, LdapDeactivates, UpdateUser, vars, RotationAges, Expires
  <2>2. \A s \in Sess : sess'[s].state = "live" =>
          sess[s].state = "live" /\ sess'[s].gen = sess[s].gen
    <3>1. CASE \E S : sess' = Ended(S)
      BY <3>1, EndedUnrotated DEF Unrotated
    <3>2. CASE UNCHANGED sess
      BY <3>2
    <3>3. CASE \E s \in Sess : RotationAges(s)
      BY <3>3, AgesIs
    <3>4. QED
      BY <1>3, <3>1, <3>2, <3>3 DEF deactivate, LdapDeactivates, UpdateUser, vars, Expires
  <2>3. Inherits
    BY <2>1, <2>2 DEF Inherits
  <2>4. QED
    BY <2>1, <2>3, InheritsPrivate
<1>4. QED
  BY <1>1, <1>2, <1>3 DEF Next

-----------------------------------------------------------------------------
(* A browser keeps up with its session.                                     *)

\* What a request of a browser on session s does it no harm: none of them signs
\* out or clears the cookie, and a refresh that came too late is within the tolerance.
Steady(q, s, x) ==
    q.pc # "idle" =>
      /\ q.kind \in {"refresh", "password"} /\ q.cookie # "clear"
      /\ q.kind = "refresh" /\ q.pc # "answered" =>
           \E g \in 0 .. x.gen :
             /\ q.tok = {<<s, g>>}
             /\ g < x.gen => x.rotated = "tolerance"
             /\ q.pc = "refuse" => g < x.gen
             /\ q.pc \in {"user", "rotate"} => s \in q.own

SetsFor(r, b) == req[r].b = b /\ req[r].cookie = "set"

\* The browser has the current token.
Current(b, s) == jar[b] = {<<s, sess[s].gen>>} /\ \A r \in Req : ~SetsFor(r, b)

\* The one answer with a cookie under way brings it; nobody else has it.
Coming(b, s) ==
    \E r \in Req, g \in Nat :
      /\ sess[s].gen = g + 1 /\ sess[s].rotated = "tolerance"
      /\ SetsFor(r, b) /\ req[r].tok = {<<s, g>>} /\ jar[b] = {<<s, g>>}
      /\ \A q \in Req : SetsFor(q, b) => q = r
      /\ \A q \in Req : req[q].b = b => <<s, g + 1>> \notin req[q].tok

OnSession(b, s) ==
    /\ \A r \in Req : req[r].b = b => Steady(req[r], s, sess[s])
    /\ Current(b, s) \/ Coming(b, s)

AtHome ==
    \A b \in Browser : \A s \in home[b] :
      sess[s].state # "none" /\ (Live(s) => OnSession(b, s))

\* A step that rotates nothing, and in which requests of the browser do it no harm.
LEMMA StaysOn ==
  ASSUME TypeOK, TypeOK', NEW b \in Browser, NEW s \in Sess, OnSession(b, s),
         jar'[b] = jar[b], sess'[s] = sess[s],
         \A q \in Req :
           \/ req'[q] = req[q]
           \/ /\ req[q].b = b => req[q].cookie # "set"
              /\ req'[q].b = b =>
                   /\ Steady(req'[q], s, sess[s]) /\ req'[q].cookie # "set"
                   /\ req'[q].tok \subseteq jar[b] \/ (req[q].b = b /\ req'[q].tok \subseteq req[q].tok)
  PROVE  OnSession(b, s)'
<1>1. \A q \in Req : req'[q].b = b => Steady(req'[q], s, sess'[s])
  BY DEF OnSession
<1>2. \A q \in Req : req'[q].b = b /\ req'[q].cookie = "set" => req'[q] = req[q]
  OBVIOUS
<1>3. CASE Current(b, s)
  <2>1. Current(b, s)'
    BY <1>2, <1>3 DEF Current, SetsFor
  <2>2. QED
    BY <1>1, <2>1 DEF OnSession
<1>4. CASE Coming(b, s)
  <2>1. PICK r \in Req, g \in Nat :
          /\ sess[s].gen = g + 1 /\ sess[s].rotated = "tolerance"
          /\ SetsFor(r, b) /\ req[r].tok = {<<s, g>>} /\ jar[b] = {<<s, g>>}
          /\ \A q \in Req : SetsFor(q, b) => q = r
          /\ \A q \in Req : req[q].b = b => <<s, g + 1>> \notin req[q].tok
    BY <1>4 DEF Coming
  <2>2. req'[r] = req[r]
    BY <2>1 DEF SetsFor
  <2>3. \A q \in Req : req'[q].b = b /\ req'[q].cookie = "set" => q = r
    BY <1>2, <2>1 DEF SetsFor
  <2>4. <<s, g + 1>> \notin jar[b]
    BY <2>1
  <2>5. \A q \in Req : req'[q].b = b => <<s, g + 1>> \notin req'[q].tok
    BY <2>1, <2>4
  <2>6. /\ sess'[s].gen = g + 1 /\ sess'[s].rotated = "tolerance"
        /\ SetsFor(r, b)' /\ req'[r].tok = {<<s, g>>} /\ jar'[b] = {<<s, g>>}
        /\ \A q \in Req : SetsFor(q, b)' => q = r
    BY <2>1, <2>2, <2>3 DEF SetsFor
  <2>7. Coming(b, s)'
    BY <2>5, <2>6 DEF Coming
  <2>8. QED
    BY <1>1, <2>7 DEF OnSession
<1>5. QED
  BY <1>3, <1>4 DEF OnSession

\* A step of a request that is not the browser's.
LEMMA OthersRequest ==
  ASSUME TypeOK, TypeOK', Tokens, NEW b \in Browser, NEW s \in Sess, OnSession(b, s),
         jar'[b] = jar[b], sess'[s] = sess[s], NEW r \in Req,
         \A q \in Req : q # r => req'[q] = req[q],
         req[r].b # b \/ req[r].pc = "idle", req'[r].b # b
  PROVE  OnSession(b, s)'
<1>1. req[r].b = b => req[r].cookie # "set"
  BY DEF Tokens, Carries, KindAt
<1>2. QED
  BY <1>1, StaysOn

\* A browser on its session refreshes, or changes the password.
LEMMA OwnKinds ==
  ASSUME NEW b \in Browser, NEW s, OnSession(b, s), NEW r \in Req, req[r].pc # "idle",
         req[r].kind \notin {"refresh", "password"}
  PROVE  req[r].b # b
BY DEF OnSession, Steady

\* The answer to a request of the browser leaves the cookie, or to one of another.
LEMMA AnswerStaysOn ==
  ASSUME TypeOK, TypeOK', Tokens, NEW b \in Browser, NEW s \in Sess, OnSession(b, s),
         UNCHANGED jar, sess'[s] = sess[s], NEW r \in Req, req[r].pc \notin {"idle", "answered"},
         NEW c, NEW ok, Answer(r, c, ok), req[r].b = b => c = "keep"
  PROVE  OnSession(b, s)'
<1>1. /\ \A q \in Req : q # r => req'[q] = req[q]
      /\ req'[r].kind = req[r].kind /\ req'[r].b = req[r].b /\ req'[r].pc = "answered"
      /\ req'[r].cookie = c
      /\ req'[r].tok = req[r].tok \/ req'[r].tok = {}
  BY AnswerIs
<1>2. CASE req[r].b # b
  BY <1>1, <1>2, OthersRequest
<1>3. CASE req[r].b = b
  <2>1. req[r].cookie # "set" /\ req'[r].cookie = "keep"
    BY <1>1, <1>3 DEF Tokens, Carries, KindAt
  <2>2. Steady(req[r], s, sess[s])
    BY <1>3 DEF OnSession
  <2>3. Steady(req'[r], s, sess[s])
    BY <1>1, <2>1, <2>2 DEF Steady
  <2>4. QED
    BY <1>1, <1>3, <2>1, <2>3, StaysOn
<1>4. QED
  BY <1>2, <1>3

\* A request of the browser goes on, or one of another.
LEMMA MoveStaysOn ==
  ASSUME TypeOK, TypeOK', Tokens, NEW b \in Browser, NEW s \in Sess, OnSession(b, s),
         UNCHANGED jar, sess'[s] = sess[s], NEW r \in Req, req[r].pc \notin {"idle", "answered"},
         \A q \in Req : q # r => req'[q] = req[q],
         req'[r].b = req[r].b, req'[r].tok = req[r].tok, req'[r].cookie = req[r].cookie,
         req[r].b = b => Steady(req'[r], s, sess[s])
  PROVE  OnSession(b, s)'
<1>1. CASE req[r].b # b
  BY <1>1, OthersRequest
<1>2. CASE req[r].b = b
  <2>1. req[r].cookie # "set"
    BY DEF Tokens, Carries, KindAt
  <2>2. QED
    BY <1>2, <2>1, StaysOn
<1>3. QED
  BY <1>1, <1>2

\* A request that holds a token of the browser's session is the browser's.
LEMMA OwnToken ==
  ASSUME TypeOK, Private, NEW b \in Browser, NEW s \in Sess, OnSession(b, s),
         NEW r \in Req, Names(req[r].tok, s)
  PROVE  req[r].b = b
<1>1. req[r].b \in Browser /\ Has(req[r].b, s)
  BY DEF TypeOK, Request, Has
<1>2. \E g : <<s, g>> \in jar[b]
  BY DEF OnSession, Current, Coming
<1>3. Has(b, s)
  BY <1>2 DEF Has, Names
<1>4. QED
  BY <1>1, <1>3 DEF Private

\* Requests sent: by another browser, or a refresh with the token the browser has,
\* or a password change.
LEMMA SendStaysOn ==
  ASSUME TypeOK, TypeOK', Tokens, NEW b \in Browser, NEW s \in Sess, OnSession(b, s),
         NEW r \in Req, NEW c \in Browser,
         \/ (Login(r, c) \/ SendLogout(r, c) \/ SendLogoutAll(r, c)) /\ c # b
         \/ SendRefresh(r, c) \/ SendChangePassword(r, c)
  PROVE  OnSession(b, s)'
<1>0. UNCHANGED <<sess, jar>>
  BY DEF Login, SendLogout, SendLogoutAll, SendRefresh, SendChangePassword
<1>1. PICK kind, pc : /\ Send(r, c, kind, pc)
                      /\ \/ c # b
                         \/ kind = "refresh" /\ pc = "validate"
                         \/ kind = "password" /\ pc = "change"
  BY DEF Login, SendLogout, SendLogoutAll, SendRefresh, SendChangePassword
<1>2. /\ \A q \in Req : q # r => req'[q] = req[q]
      /\ req[r].pc = "idle"
      /\ req'[r].kind = kind /\ req'[r].b = c /\ req'[r].pc = pc
      /\ req'[r].cookie = "keep" /\ req'[r].own = {}
      /\ req'[r].tok = (IF kind \in {"signin", "refresh", "logout"} THEN jar[c] ELSE {})
  BY <1>1, SendIs
<1>3. CASE c # b
  BY <1>0, <1>2, <1>3, OthersRequest
<1>4. CASE c = b
  <2>1. req[r].cookie # "set"
    BY <1>2 DEF Tokens, Carries, KindAt
  <2>2. sess[s].gen \in Nat
    BY DEF TypeOK, Session
  <2>3. \E g \in 0 .. sess[s].gen : jar[b] = {<<s, g>>} /\ (g < sess[s].gen => sess[s].rotated = "tolerance")
    <3>1. CASE Current(b, s)
      BY <2>2, <3>1 DEF Current
    <3>2. CASE Coming(b, s)
      BY <2>2, <3>2 DEF Coming
    <3>3. QED
      BY <3>1, <3>2 DEF OnSession
  <2>4. Steady(req'[r], s, sess[s])
    BY <1>1, <1>2, <1>4, <2>3 DEF Steady
  <2>5. req'[r].tok \subseteq jar[b]
    BY <1>2, <1>4
  <2>6. QED
    BY <1>0, <1>2, <2>1, <2>4, <2>5, StaysOn
<1>5. QED
  BY <1>3, <1>4

\* Sign-ins and sign-outs under way are another browser's.
LEMMA SignStaysOn ==
  ASSUME TypeOK, TypeOK', Tokens, NEW b \in Browser, NEW s \in Sess, OnSession(b, s),
         Live(s), sess'[s].state = "live", NEW r \in Req,
         \/ Redeem(r) \/ CreateSessionAtEpoch(r) \/ endReplacedSession(r)
         \/ FindCurrent(r) \/ FindPrevious(r) \/ LogoutRevokes(r) \/ LogoutAll(r)
  PROVE  OnSession(b, s)'
<1>1. KindAt(req[r])
  BY DEF Tokens, Carries
<1>2. req[r].pc \notin {"idle", "answered"} /\ req[r].kind \in {"signin", "logout", "logoutall"}
  BY <1>1 DEF KindAt, At, Redeem, CreateSessionAtEpoch, endReplacedSession, FindCurrent,
              FindPrevious, LogoutRevokes, LogoutAll
<1>3. req[r].b # b
  BY <1>2, OwnKinds
<1>4. UNCHANGED jar
  BY DEF Redeem, CreateSessionAtEpoch, endReplacedSession, FindCurrent, FindPrevious,
         LogoutRevokes, LogoutAll
<1>5. CASE CreateSessionAtEpoch(r)
  <2>1. CASE Answer(r, "keep", FALSE) /\ UNCHANGED sess
    BY <1>2, <1>3, <1>4, <2>1, AnswerStaysOn
  <2>2. ASSUME NEW new \in Sess, sess[new].state = "none",
               \A u \in Sess : u # new => sess'[u] = sess[u],
               \A q \in Req : q # r => req'[q] = req[q], req'[r].b = req[r].b
        PROVE  OnSession(b, s)'
    BY <1>3, <1>4, <2>2, OthersRequest DEF Live
  <2>3. QED
    BY <1>5, <2>1, <2>2, CreateIs
<1>6. CASE ~CreateSessionAtEpoch(r)
  <2>1. sess'[s] = sess[s]
    <3>1. UNCHANGED sess \/ \E S : sess' = Ended(S)
      BY <1>6 DEF Redeem, endReplacedSession, FindCurrent, FindPrevious, LogoutRevokes, LogoutAll
    <3>2. QED
      BY <3>1, EndedKept
  <2>2. CASE \E c, ok : Answer(r, c, ok)
    BY <1>2, <1>3, <1>4, <2>1, <2>2, AnswerStaysOn
  <2>3. CASE /\ \A q \in Req : q # r => req'[q] = req[q]
             /\ req'[r].b = req[r].b
    BY <1>3, <1>4, <2>1, <2>3, OthersRequest
  <2>4. (\E c, ok : Answer(r, c, ok)) \/ (req'[r].b = req[r].b /\ \A q \in Req : q # r => req'[q] = req[q])
    <3>1. CASE Redeem(r)
      BY <3>1 DEF Redeem, TypeOK, Request
    <3>2. CASE endReplacedSession(r) \/ LogoutRevokes(r)
      BY <3>2 DEF endReplacedSession, LogoutRevokes
    <3>3. CASE FindCurrent(r)
      BY <3>3 DEF FindCurrent, TypeOK, Request
    <3>4. CASE FindPrevious(r)
      BY <3>4 DEF FindPrevious, TypeOK, Request
    <3>5. CASE LogoutAll(r)
      BY <3>5 DEF LogoutAll, TypeOK, Request
    <3>6. QED
      BY <1>6, <3>1, <3>2, <3>3, <3>4, <3>5
  <2>5. QED
    BY <2>2, <2>3, <2>4
<1>7. QED
  BY <1>5, <1>6

\* A revocation from the list of sessions by another browser.
LEMMA RevokeStaysOn ==
  ASSUME TypeOK, TypeOK', Tokens, NEW b \in Browser, NEW s \in Sess, OnSession(b, s),
         sess'[s].state = "live", NEW r \in Req, NEW c \in Browser, c # b, NEW u \in Sess,
         RevokeSessionByID(r, c, u)
  PROVE  OnSession(b, s)'
<1>1. /\ \A q \in Req : q # r => req'[q] = req[q]
      /\ req[r].pc = "idle" /\ req'[r].b = c
  BY RevokeByIDIs
<1>2. sess'[s] = sess[s] /\ UNCHANGED jar
  BY EndedKept DEF RevokeSessionByID
<1>3. QED
  BY <1>1, <1>2, OthersRequest

\* A refresh of the browser finds the session, or finds that another was faster.
LEMMA ValidateStaysOn ==
  ASSUME TypeOK, TypeOK', Tokens, NEW b \in Browser, NEW s \in Sess, OnSession(b, s),
         Live(s), NEW r \in Req, ValidateRefreshToken(r)
  PROVE  OnSession(b, s)'
<1>0. /\ UNCHANGED <<sess, jar>> /\ req[r].pc = "validate" /\ req[r].kind = "refresh"
      /\ sess[s].gen \in Nat
  BY DEF ValidateRefreshToken, At, Tokens, Carries, KindAt, TypeOK, Session
<1>1. CASE Answer(r, "keep", FALSE)
  BY <1>0, <1>1, AnswerStaysOn
<1>2. ASSUME NEW pc, pc = IF ByToken(req[r].tok) = {} THEN "refuse" ELSE "user",
             req' = [req EXCEPT ![r].own = ByToken(req[r].tok), ![r].pc = pc]
      PROVE  OnSession(b, s)'
  <2>1. /\ \A q \in Req : q # r => req'[q] = req[q]
        /\ req'[r].kind = req[r].kind /\ req'[r].b = req[r].b /\ req'[r].tok = req[r].tok
        /\ req'[r].cookie = req[r].cookie
        /\ req'[r].own = ByToken(req[r].tok) /\ req'[r].pc = pc
    BY <1>2 DEF TypeOK, Request
  <2>2. ASSUME req[r].b = b PROVE Steady(req'[r], s, sess[s])
    <3>1. Steady(req[r], s, sess[s])
      BY <2>2 DEF OnSession
    <3>2. PICK g \in 0 .. sess[s].gen :
            req[r].tok = {<<s, g>>} /\ (g < sess[s].gen => sess[s].rotated = "tolerance")
      BY <1>0, <3>1 DEF Steady
    <3>3. ByToken(req[r].tok) = {} => g < sess[s].gen
      BY <1>0, <3>2 DEF ByToken
    <3>4. ByToken(req[r].tok) # {} => s \in ByToken(req[r].tok)
      <4>1. ASSUME NEW u \in ByToken(req[r].tok) PROVE u = s
        BY <3>2 DEF ByToken
      <4>2. QED
        BY <4>1
    <3>5. pc = "refuse" => g < sess[s].gen
      BY <1>2, <3>3
    <3>6. pc = "user" => s \in req'[r].own
      BY <1>2, <2>1, <3>4
    <3>7. pc # "rotate" /\ req'[r].cookie # "clear"
      BY <1>0, <1>2, <2>1, <3>1 DEF Steady
    <3>8. QED
      BY <1>0, <2>1, <3>2, <3>5, <3>6, <3>7 DEF Steady
  <2>3. QED
    BY <1>0, <2>1, <2>2, MoveStaysOn
<1>3. QED
  BY <1>1, <1>2 DEF ValidateRefreshToken

\* A refresh of the browser that the user's row refuses ends the session.
LEMMA ReadUserStaysOn ==
  ASSUME TypeOK, TypeOK', Tokens, NEW b \in Browser, NEW s \in Sess, OnSession(b, s),
         sess'[s].state = "live", s \in home'[b], NEW r \in Req, RefreshReadsUser(r)
  PROVE  OnSession(b, s)'
<1>0. UNCHANGED jar /\ req[r].pc = "user" /\ req[r].kind = "refresh"
  BY DEF RefreshReadsUser, At, Tokens, Carries, KindAt
<1>1. ASSUME req[r].b = b
      PROVE  s \in req[r].own /\ Steady(req[r], s, sess[s])
  BY <1>0, <1>1 DEF OnSession, Steady
<1>2. CASE Goto(r, "rotate") /\ UNCHANGED sess
  <2>1. /\ \A q \in Req : q # r => req'[q] = req[q]
        /\ req'[r].kind = req[r].kind /\ req'[r].b = req[r].b /\ req'[r].tok = req[r].tok
        /\ req'[r].cookie = req[r].cookie /\ req'[r].own = req[r].own /\ req'[r].pc = "rotate"
    BY <1>2 DEF Goto, TypeOK, Request
  <2>2. req[r].b = b => Steady(req'[r], s, sess[s])
    BY <1>0, <1>1, <2>1 DEF Steady
  <2>3. QED
    BY <1>0, <1>2, <2>1, <2>2, MoveStaysOn
<1>3. CASE Answer(r, "clear", FALSE) /\ sess' = Ended(req[r].own)
  <2>1. sess'[s] = sess[s] /\ s \notin req[r].own
    BY <1>3, EndedKept
  <2>2. QED
    BY <1>0, <1>1, <1>3, <2>1, AnswerStaysOn
<1>4. CASE Answer(r, "clear", FALSE) /\ Leaves(req[r].b) /\ UNCHANGED sess
  <2>1. req[r].b # b
    BY <1>4 DEF Leaves, TypeOK
  <2>2. QED
    BY <1>0, <1>4, <2>1, AnswerStaysOn
<1>5. QED
  BY <1>2, <1>3, <1>4 DEF RefreshReadsUser

\* A refused refresh of the browser came within the tolerance of the other one.
LEMMA RefuseStaysOn ==
  ASSUME TypeOK, TypeOK', Tokens, NEW b \in Browser, NEW s \in Sess, OnSession(b, s),
         Live(s), s \in home'[b], NEW r \in Req, refuseStaleRefresh(r)
  PROVE  OnSession(b, s)'
<1>0. /\ UNCHANGED <<sess, jar>> /\ req[r].pc = "refuse" /\ req[r].kind = "refresh"
      /\ sess[s].gen \in 0 .. MaxGen /\ MaxGen \in Nat
  BY SessionAssumption DEF refuseStaleRefresh, At, Tokens, Carries, KindAt, TypeOK, Session
<1>1. CASE req[r].b # b
  <2>1. PICK c : Answer(r, c, FALSE)
    BY DEF refuseStaleRefresh
  <2>2. QED
    BY <1>0, <1>1, <2>1, AnswerStaysOn
<1>2. CASE req[r].b = b
  <2>1. ~Leaves(req[r].b)
    BY <1>2 DEF Leaves, TypeOK
  <2>2. PICK g \in 0 .. sess[s].gen :
          req[r].tok = {<<s, g>>} /\ g < sess[s].gen /\ sess[s].rotated = "tolerance"
    BY <1>0, <1>2 DEF OnSession, Steady
  <2>3. ~(sess[s].gen > g + 1)
    <3>1. g \in 0 .. MaxGen /\ <<s, g>> \in req[r].tok
      BY <1>0, <2>2
    <3>2. QED
      BY <2>1, <3>1 DEF refuseStaleRefresh
  <2>4. sess[s].gen = g + 1 /\ sess[s].gen > 0 /\ sess[s].gen - 1 = g
    BY <1>0, <2>2, <2>3
  <2>5. s \in ByPreviousToken(req[r].tok, Tolerance)
    <3>1. <<s, sess[s].gen - 1>> \in req[r].tok
      BY <2>2, <2>4
    <3>2. QED
      BY <2>2, <2>4, <3>1 DEF ByPreviousToken, Tolerance
  <2>6. RefusalSparesCookie(r)
    BY <2>5 DEF RefusalSparesCookie
  <2>7. Answer(r, "keep", FALSE)
    BY <2>1, <2>6 DEF refuseStaleRefresh
  <2>8. QED
    BY <1>0, <2>7, AnswerStaysOn
<1>3. QED
  BY <1>1, <1>2

\* The browser's own rotation: until now it had the current token, and the answer
\* under way brings the new one.
LEMMA OwnRotation ==
  ASSUME TypeOK, TypeOK', Tokens, NEW b \in Browser, NEW s \in Sess, OnSession(b, s),
         Live(s), NEW r \in Req, req[r].pc = "rotate", req[r].b = b, <<s, sess[s].gen>> \in req[r].tok,
         sess' = Rotated(s), Answer(r, "set", TRUE), UNCHANGED jar
  PROVE  OnSession(b, s)'
<1>1. /\ \A q \in Req : q # r => req'[q] = req[q]
      /\ req'[r].kind = req[r].kind /\ req'[r].b = b /\ req'[r].pc = "answered"
      /\ req'[r].cookie = "set" /\ req'[r].tok = req[r].tok
  BY AnswerIs
<1>2. /\ sess[s].gen \in Nat /\ sess'[s].gen = sess[s].gen + 1 /\ sess'[s].rotated = "tolerance"
  BY RotatedGrows DEF TypeOK, Session
<1>3. req[r].tok = {<<s, sess[s].gen>>}
  BY DEF Tokens, Carries, AtMostOne
<1>4. ~Coming(b, s)
  BY <1>2 DEF Coming
<1>5. Current(b, s)
  BY <1>4 DEF OnSession
<1>6. ASSUME NEW q \in Req, req'[q].b = b
      PROVE  Steady(req'[q], s, sess'[s]) /\ <<s, sess[s].gen + 1>> \notin req'[q].tok
             /\ (req'[q].cookie = "set" => q = r)
  <2>1. CASE q = r
    <3>1. req[r].kind = "refresh"
      BY DEF Tokens, Carries, KindAt
    <3>2. QED
      BY <1>1, <1>2, <1>3, <2>1, <3>1 DEF Steady
  <2>2. CASE q # r
    <3>1. req'[q] = req[q] /\ Steady(req[q], s, sess[s]) /\ req[q].cookie # "set"
      BY <1>1, <1>5, <1>6, <2>2 DEF OnSession, Current, SetsFor
    <3>2. <<s, sess[s].gen + 1>> \notin req[q].tok
      <4>1. Carries(req[q], sess)
        BY DEF Tokens
      <4>2. ASSUME NEW t \in req[q].tok, t = <<s, sess[s].gen + 1>> PROVE FALSE
        <5>1. sess[s].state = "live" => sess[s].gen + 1 <= sess[s].gen
          BY <4>1, <4>2 DEF Carries, Known
        <5>2. QED
          BY <1>2, <5>1 DEF Live
      <4>3. QED
        BY <4>2
    <3>3. Steady(req[q], s, sess'[s])
      <4>1. ASSUME NEW g \in 0 .. sess[s].gen PROVE g \in 0 .. sess'[s].gen /\ g < sess'[s].gen
        BY <1>2
      <4>2. QED
        BY <1>2, <3>1, <4>1 DEF Steady
    <3>4. QED
      BY <2>2, <3>1, <3>2, <3>3
  <2>3. QED
    BY <2>1, <2>2
<1>7. Coming(b, s)'
  <2>1. /\ SetsFor(r, b)' /\ req'[r].tok = {<<s, sess[s].gen>>} /\ jar'[b] = {<<s, sess[s].gen>>}
        /\ \A q \in Req : SetsFor(q, b)' => q = r
    BY <1>1, <1>3, <1>5, <1>6 DEF SetsFor, Current
  <2>2. PICK g \in Nat : g = sess[s].gen
    BY <1>2
  <2>3. QED
    BY <1>2, <1>6, <2>1, <2>2 DEF Coming
<1>8. QED
  BY <1>6, <1>7 DEF OnSession

\* A rotation, the browser's own or of another session.
LEMMA RotateStaysOn ==
  ASSUME TypeOK, TypeOK', Tokens, Private, NEW b \in Browser, NEW s \in Sess, OnSession(b, s),
         Live(s), s \in home'[b], NEW r \in Req, RotateRefreshToken(r)
  PROVE  OnSession(b, s)'
<1>0. UNCHANGED jar /\ req[r].pc = "rotate" /\ req[r].kind = "refresh"
  BY DEF RotateRefreshToken, At, Tokens, Carries, KindAt
<1>1. CASE Rotatable(r) = {} /\ Goto(r, "refuse") /\ UNCHANGED sess
  <2>1. /\ \A q \in Req : q # r => req'[q] = req[q]
        /\ req'[r].kind = req[r].kind /\ req'[r].b = req[r].b /\ req'[r].tok = req[r].tok
        /\ req'[r].cookie = req[r].cookie /\ req'[r].own = req[r].own /\ req'[r].pc = "refuse"
    BY <1>1 DEF Goto, TypeOK, Request
  <2>2. ASSUME req[r].b = b PROVE Steady(req'[r], s, sess[s])
    <3>1. Steady(req[r], s, sess[s])
      BY <2>2 DEF OnSession
    <3>2. PICK g \in 0 .. sess[s].gen :
            /\ req[r].tok = {<<s, g>>} /\ (g < sess[s].gen => sess[s].rotated = "tolerance")
            /\ s \in req[r].own
      BY <1>0, <3>1 DEF Steady
    <3>3. g < sess[s].gen
      <4>1. sess[s].gen \in Nat
        BY DEF TypeOK, Session
      <4>2. g # sess[s].gen
        BY <1>1, <3>2 DEF Rotatable
      <4>3. QED
        BY <4>1, <4>2
    <3>4. QED
      BY <1>0, <2>1, <3>1, <3>2, <3>3 DEF Steady
  <2>3. QED
    BY <1>0, <1>1, <2>1, <2>2, MoveStaysOn
<1>2. ASSUME NEW u \in Rotatable(r),
             \/ sess' = Rotated(u) /\ Answer(r, "set", TRUE)
             \/ Answer(r, "keep", FALSE) /\ sess' \in {sess, Rotated(u)} /\ Leaves(req[r].b)
      PROVE  OnSession(b, s)'
  <2>1. u \in Sess /\ <<u, sess[u].gen>> \in req[r].tok
    BY DEF Rotatable, TypeOK, Request
  <2>2. Names(req[r].tok, u)
    BY <2>1 DEF Names
  <2>3. CASE req[r].b = b
    <3>1. sess' = Rotated(u) /\ Answer(r, "set", TRUE)
      BY <1>2, <2>3 DEF Leaves, TypeOK
    <3>2. u = s
      BY <1>0, <2>1, <2>3 DEF OnSession, Steady
    <3>3. QED
      BY <1>0, <2>1, <2>3, <3>1, <3>2, OwnRotation
  <2>4. CASE req[r].b # b
    <3>1. u # s
      BY <2>2, <2>4, OwnToken
    <3>2. sess'[s] = sess[s]
      BY <1>2, <2>1, <3>1, RotatedGrows
    <3>3. QED
      BY <1>0, <1>2, <2>4, <3>2, AnswerStaysOn
  <2>5. QED
    BY <2>3, <2>4
<1>3. QED
  BY <1>1, <1>2 DEF RotateRefreshToken

\* A password change keeps the cookie, and ends the session if it succeeds.
LEMMA ChangePasswordStaysOn ==
  ASSUME TypeOK, TypeOK', Tokens, NEW b \in Browser, NEW s \in Sess, OnSession(b, s),
         sess'[s].state = "live", NEW r \in Req, ChangePassword(r)
  PROVE  OnSession(b, s)'
<1>1. PICK ok : Answer(r, "keep", ok)
  BY DEF ChangePassword
<1>2. UNCHANGED jar /\ req[r].pc = "change"
  BY DEF ChangePassword, At
<1>3. sess'[s] = sess[s]
  BY EndedKept DEF ChangePassword
<1>4. QED
  BY <1>1, <1>2, <1>3, AnswerStaysOn

\* A browser that is on its session gets an answer: the one with the new token, or
\* one that leaves the cookie.
LEMMA DeliverStaysOn ==
  ASSUME TypeOK, TypeOK', Tokens, NEW b \in Browser, NEW s \in Sess, OnSession(b, s),
         NEW r \in Req, Deliver(r)
  PROVE  OnSession(b, s)'
<1>0. /\ \A q \in Req : q # r => req'[q] = req[q]
      /\ req'[r].pc = "idle" /\ req'[r].cookie = "keep" /\ req'[r].tok = {}
      /\ UNCHANGED sess /\ req[r].pc = "answered"
  <2>1. Idle.pc = "idle" /\ Idle.cookie = "keep" /\ Idle.tok = {}
    BY DEF Idle
  <2>2. req' = [req EXCEPT ![r] = Idle] /\ UNCHANGED sess /\ req[r].pc = "answered"
    BY DEF Deliver, At
  <2>3. QED
    BY <2>1, <2>2, GivenUp
<1>1. Steady(req'[r], s, sess[s])
  BY <1>0 DEF Steady
<1>2. CASE req[r].b # b
  <2>1. jar'[b] = jar[b]
    BY <1>2, DeliverIs
  <2>2. QED
    BY <1>0, <1>1, <1>2, <2>1, StaysOn
<1>3. CASE req[r].b = b
  <2>1. Steady(req[r], s, sess[s])
    BY <1>3 DEF OnSession
  <2>2. req[r].kind \in {"refresh", "password"} /\ req[r].cookie # "clear"
    BY <1>0, <2>1 DEF Steady
  <2>3. CASE req[r].cookie # "set"
    <3>1. jar'[b] = jar[b]
      BY <1>3, <2>2, <2>3, DeliverIs
    <3>2. QED
      BY <1>0, <1>1, <2>3, <3>1, StaysOn
  <2>4. CASE req[r].cookie = "set"
    <3>1. PICK p \in Req, g \in Nat :
            /\ sess[s].gen = g + 1 /\ sess[s].rotated = "tolerance"
            /\ SetsFor(p, b) /\ req[p].tok = {<<s, g>>}
            /\ \A q \in Req : SetsFor(q, b) => q = p
      BY <1>3, <2>4 DEF OnSession, Current, Coming, SetsFor
    <3>2. p = r
      BY <1>3, <2>4, <3>1 DEF SetsFor
    <3>3. NewToken(r) = {<<s, g + 1>>}
      <4>1. NewToken(r) = {<<t[1], t[2] + 1>> : t \in {<<s, g>>}}
        BY <2>2, <3>1, <3>2 DEF NewToken
      <4>2. QED
        BY <4>1
    <3>4. jar'[b] = {<<s, sess'[s].gen>>}
      BY <1>0, <1>3, <2>4, <3>1, <3>3, DeliverIs
    <3>5. \A q \in Req : ~SetsFor(q, b)'
      BY <1>0, <3>1, <3>2 DEF SetsFor
    <3>6. Current(b, s)'
      BY <3>4, <3>5 DEF Current
    <3>7. \A q \in Req : req'[q].b = b => Steady(req'[q], s, sess'[s])
      BY <1>0, <1>1 DEF OnSession
    <3>8. QED
      BY <3>6, <3>7 DEF OnSession
  <2>5. QED
    BY <2>3, <2>4
<1>4. QED
  BY <1>2, <1>3

\* A sign-in's answer puts its browser on the new session, when none of the
\* browser's requests is under way any more.
LEMMA DeliverSignIn ==
  ASSUME TypeOK, TypeOK', Tokens, Unseen, NEW r \in Req, Deliver(r),
         req[r].kind = "signin", req[r].cookie = "set",
         NEW b \in Browser, b = req[r].b, \A q \in Req \ {r} : req[q].b = b => At(q, "idle"),
         NEW s \in req[r].own, Live(s)
  PROVE  OnSession(b, s)'
<1>0. /\ \A q \in Req : q # r => req'[q] = req[q]
      /\ req'[r].pc = "idle" /\ req'[r].cookie = "keep"
      /\ UNCHANGED sess
  <2>1. Idle.pc = "idle" /\ Idle.cookie = "keep"
    BY DEF Idle
  <2>2. req' = [req EXCEPT ![r] = Idle] /\ UNCHANGED sess
    BY DEF Deliver
  <2>3. QED
    BY <2>1, <2>2, GivenUp
<1>1. sess[s].gen = 0
  BY DEF Unseen
<1>2. req[r].own = {s}
  BY DEF Tokens, Carries, AtMostOne
<1>3. NewToken(r) = {<<s, 0>>}
  <2>1. NewToken(r) = {<<u, 0>> : u \in {s}}
    BY <1>2 DEF NewToken
  <2>2. QED
    BY <2>1
<1>4. jar'[b] = {<<s, sess'[s].gen>>}
  BY <1>0, <1>1, <1>3, DeliverIs
<1>5. ASSUME NEW q \in Req, req'[q].b = b
      PROVE  req'[q].pc = "idle" /\ req'[q].cookie # "set"
  <2>1. CASE q = r
    BY <1>0, <2>1
  <2>2. CASE q # r
    BY <1>0, <1>5, <2>2 DEF At, Tokens, Carries, KindAt
  <2>3. QED
    BY <2>1, <2>2
<1>6. Current(b, s)'
  BY <1>4, <1>5 DEF Current, SetsFor
<1>7. \A q \in Req : req'[q].b = b => Steady(req'[q], s, sess'[s])
  BY <1>5 DEF Steady
<1>8. QED
  BY <1>6, <1>7 DEF OnSession

\* An answer of another browser is lost.
LEMMA LoseStaysOn ==
  ASSUME TypeOK, TypeOK', Tokens, NEW b \in Browser, NEW s \in Sess, OnSession(b, s),
         s \in home'[b], NEW r \in Req, LoseAnswer(r)
  PROVE  OnSession(b, s)'
<1>1. req[r].b # b
  BY DEF LoseAnswer, Leaves, TypeOK
<1>2. Idle.pc = "idle" /\ Idle.cookie = "keep" /\ Idle.tok = {}
  BY DEF Idle
<1>3. req' = [req EXCEPT ![r] = Idle] /\ UNCHANGED <<sess, jar>>
  BY DEF LoseAnswer
<1>4. (\A q \in Req : q # r => req'[q] = req[q]) /\ req'[r] = Idle
  BY <1>3, GivenUp
<1>5. Steady(req'[r], s, sess[s])
  BY <1>2, <1>4 DEF Steady
<1>6. QED
  BY <1>1, <1>2, <1>3, <1>4, <1>5, StaysOn

\* Time passes over the rotation of a browser that has no refresh under way.
LEMMA AgesStaysOn ==
  ASSUME TypeOK, TypeOK', Tokens, NEW b \in Browser, NEW s \in Sess, OnSession(b, s),
         s \in home'[b], NEW u \in Sess, RotationAges(u)
  PROVE  OnSession(b, s)'
<1>0. UNCHANGED <<req, jar>>
  BY DEF RotationAges
<1>1. CASE u # s
  <2>1. sess'[s] = sess[s]
    BY <1>1, AgesIs
  <2>2. QED
    BY <1>0, <2>1, StaysOn
<1>2. CASE u = s
  <2>1. \A q \in Req : req[q].b = b => req[q].kind # "refresh"
    BY DEF RotationAges
  <2>2. sess'[s].gen = sess[s].gen
    BY <1>2, AgesIs
  <2>3. ASSUME NEW q \in Req PROVE ~SetsFor(q, b)
    <3>1. req[q].cookie = "set" => req[q].pc # "idle" /\ req[q].kind \in {"signin", "refresh"}
      BY DEF Tokens, Carries, KindAt
    <3>2. QED
      BY <2>1, <3>1 DEF OnSession, Steady, SetsFor
  <2>4. Current(b, s)
    BY <2>3 DEF OnSession, Coming
  <2>5. Current(b, s)'
    BY <1>0, <2>2, <2>4 DEF Current, SetsFor
  <2>6. \A q \in Req : req'[q].b = b => Steady(req'[q], s, sess'[s])
    BY <1>0, <2>1 DEF OnSession, Steady
  <2>7. QED
    BY <2>5, <2>6 DEF OnSession
<1>3. QED
  BY <1>1, <1>2

\* No session that exists is born again or goes back.
LEMMA NextGrows ==
  ASSUME TypeOK, TypeOK', Tokens, [Next]_vars
  PROVE  Grows(sess, sess')
<1>1. CASE UNCHANGED sess
  BY <1>1, SameGrows
<1>2. CASE \E S : sess' = Ended(S)
  BY <1>2, EndedGrows
<1>3. CASE \E s \in Sess : sess' = Rotated(s)
  BY <1>3, RotatedGrows
<1>4. ASSUME NEW s \in Sess, RotationAges(s)
      PROVE  Grows(sess, sess')
  <2>1. \A u \in Sess : sess[u].gen \in Nat
    BY DEF TypeOK, Session
  <2>2. QED
    BY <1>4, <2>1, AgesIs DEF Grows
<1>5. ASSUME NEW r \in Req, CreateSessionAtEpoch(r)
      PROVE  Grows(sess, sess')
  <2>1. \A u \in Sess : sess[u].gen \in Nat
    BY DEF TypeOK, Session
  <2>2. UNCHANGED sess \/ \E new \in Sess : /\ sess[new].state = "none"
                                            /\ \A u \in Sess : u # new => sess'[u] = sess[u]
    BY <1>5, CreateIs
  <2>3. QED
    BY <2>1, <2>2, SameGrows DEF Grows
<1>6. ASSUME NEW r \in Req, RotateRefreshToken(r)
      PROVE  Grows(sess, sess')
  <2>1. \A s \in Rotatable(r) : s \in Sess
    BY DEF Rotatable, TypeOK, Request
  <2>2. QED
    BY <1>1, <1>3, <1>6, <2>1 DEF RotateRefreshToken
<1>7. ASSUME NEW r \in Req,
             \/ \E b \in Browser : \/ Login(r, b) \/ SendRefresh(r, b) \/ SendLogout(r, b)
                                   \/ SendLogoutAll(r, b) \/ SendChangePassword(r, b)
                                   \/ \E s \in Sess : RevokeSessionByID(r, b, s)
             \/ Redeem(r) \/ endReplacedSession(r) \/ ValidateRefreshToken(r) \/ RefreshReadsUser(r)
             \/ refuseStaleRefresh(r) \/ FindCurrent(r) \/ FindPrevious(r) \/ LogoutRevokes(r)
             \/ LogoutAll(r) \/ ChangePassword(r) \/ Deliver(r) \/ LoseAnswer(r)
      PROVE  Grows(sess, sess')
  <2>1. UNCHANGED sess \/ \E S : sess' = Ended(S)
    BY <1>7 DEF Login, SendRefresh, SendLogout, SendLogoutAll, SendChangePassword, RevokeSessionByID,
         Redeem, endReplacedSession, ValidateRefreshToken, RefreshReadsUser, refuseStaleRefresh,
         FindCurrent, FindPrevious, LogoutRevokes, LogoutAll, ChangePassword, Deliver, LoseAnswer
  <2>2. QED
    BY <1>1, <1>2, <2>1
<1>8. CASE deactivate \/ LdapDeactivates \/ UpdateUser \/ UNCHANGED vars \/ \E s \in Sess : Expires(s)
  BY <1>1, <1>2, <1>8 DEF deactivate, LdapDeactivates, UpdateUser, vars, Expires
<1>9. QED
  BY <1>4, <1>5, <1>6, <1>7, <1>8 DEF Next

\* Whoever is on a session after a step was on it before, but for a sign-in.
LEMMA HomeIs ==
  ASSUME TypeOK, TypeOK', [Next]_vars, NEW b \in Browser, NEW s \in home'[b]
  PROVE  \/ s \in home[b]
         \/ \E r \in Req : /\ Deliver(r) /\ req[r].kind = "signin" /\ req[r].cookie = "set"
                           /\ b = req[r].b /\ s \in req[r].own
                           /\ \A q \in Req \ {r} : req[q].b = b => At(q, "idle")
<1>1. CASE UNCHANGED home
  BY <1>1
<1>2. ASSUME NEW c \in Browser, Leaves(c)
      PROVE  s \in home[b]
  BY <1>2 DEF Leaves, TypeOK
<1>3. ASSUME NEW r \in Req, Deliver(r)
      PROVE  s \in home[b] \/ /\ req[r].kind = "signin" /\ req[r].cookie = "set"
                              /\ b = req[r].b /\ s \in req[r].own
                              /\ \A q \in Req \ {r} : req[q].b = b => At(q, "idle")
  <2>1. req[r].b \in Browser
    BY DEF TypeOK, Request
  <2>2. CASE UNCHANGED home
    BY <2>2
  <2>3. CASE /\ home' = [home EXCEPT ![req[r].b] = req[r].own]
             /\ req[r].kind = "signin" /\ req[r].cookie = "set"
             /\ \A q \in Req \ {r} : req[q].b = req[r].b => At(q, "idle")
    BY <2>1, <2>3 DEF TypeOK
  <2>4. QED
    BY <1>3, <2>2, <2>3 DEF Deliver
<1>4. ASSUME NEW u \in Sess, RotationAges(u)
      PROVE  s \in home[b]
  BY <1>4 DEF RotationAges
<1>5. ASSUME NEW r \in Req,
             \/ \E c \in Browser : \/ Login(r, c) \/ SendRefresh(r, c) \/ SendLogout(r, c)
                                   \/ SendLogoutAll(r, c) \/ SendChangePassword(r, c)
                                   \/ \E u \in Sess : RevokeSessionByID(r, c, u)
             \/ Redeem(r) \/ CreateSessionAtEpoch(r) \/ endReplacedSession(r)
             \/ ValidateRefreshToken(r) \/ RefreshReadsUser(r) \/ RotateRefreshToken(r)
             \/ refuseStaleRefresh(r) \/ FindCurrent(r) \/ FindPrevious(r) \/ LogoutRevokes(r)
             \/ LogoutAll(r) \/ ChangePassword(r) \/ LoseAnswer(r)
      PROVE  s \in home[b]
  <2>1. req[r].b \in Browser
    BY DEF TypeOK, Request
  <2>2. UNCHANGED home \/ \E c \in Browser : Leaves(c)
    BY <1>5, <2>1 DEF Login, SendRefresh, SendLogout, SendLogoutAll, SendChangePassword, RevokeSessionByID,
         Redeem, CreateSessionAtEpoch, endReplacedSession, ValidateRefreshToken, RefreshReadsUser,
         RotateRefreshToken, refuseStaleRefresh,
         FindCurrent, FindPrevious, LogoutRevokes, LogoutAll, ChangePassword, LoseAnswer
  <2>3. QED
    BY <1>2, <2>2
<1>6. CASE deactivate \/ LdapDeactivates \/ UpdateUser \/ UNCHANGED vars \/ \E u \in Sess : Expires(u)
  BY <1>1, <1>6 DEF deactivate, LdapDeactivates, UpdateUser, vars, Expires
<1>7. QED
  BY <1>3, <1>4, <1>5, <1>6 DEF Next

\* A browser that stays on its session stays up with it.
LEMMA OnSessionInv ==
  ASSUME TypeOK, TypeOK', Tokens, Private, [Next]_vars,
         NEW b \in Browser, NEW s \in Sess, OnSession(b, s), Live(s),
         sess'[s].state = "live", s \in home'[b]
  PROVE  OnSession(b, s)'
<1>0. ASSUME NEW c \in Browser, Leaves(c) PROVE c # b
  BY <1>0 DEF Leaves, TypeOK
<1>1. ASSUME NEW r \in Req, NEW c \in Browser,
             \/ Login(r, c) \/ SendRefresh(r, c) \/ SendLogout(r, c)
             \/ SendLogoutAll(r, c) \/ SendChangePassword(r, c)
      PROVE  OnSession(b, s)'
  <2>1. Login(r, c) \/ SendLogout(r, c) \/ SendLogoutAll(r, c) => c # b
    BY <1>0 DEF Login, SendLogout, SendLogoutAll
  <2>2. QED
    BY <1>1, <2>1, SendStaysOn
<1>2. ASSUME NEW r \in Req, NEW c \in Browser, NEW u \in Sess, RevokeSessionByID(r, c, u)
      PROVE  OnSession(b, s)'
  <2>1. c # b
    BY <1>0, <1>2 DEF RevokeSessionByID
  <2>2. QED
    BY <1>2, <2>1, RevokeStaysOn
<1>3. ASSUME NEW r \in Req,
             \/ Redeem(r) \/ CreateSessionAtEpoch(r) \/ endReplacedSession(r)
             \/ FindCurrent(r) \/ FindPrevious(r) \/ LogoutRevokes(r) \/ LogoutAll(r)
      PROVE  OnSession(b, s)'
  BY <1>3, SignStaysOn
<1>4. ASSUME NEW r \in Req,
             \/ ValidateRefreshToken(r) \/ RefreshReadsUser(r) \/ RotateRefreshToken(r)
             \/ refuseStaleRefresh(r) \/ ChangePassword(r) \/ Deliver(r) \/ LoseAnswer(r)
      PROVE  OnSession(b, s)'
  BY <1>4, ValidateStaysOn, ReadUserStaysOn, RotateStaysOn, RefuseStaysOn, ChangePasswordStaysOn,
     DeliverStaysOn, LoseStaysOn
<1>5. ASSUME NEW u \in Sess, RotationAges(u)
      PROVE  OnSession(b, s)'
  BY <1>5, AgesStaysOn
<1>6. CASE deactivate \/ LdapDeactivates \/ UpdateUser \/ UNCHANGED vars \/ \E u \in Sess : Expires(u)
  <2>1. UNCHANGED <<req, jar>> /\ (UNCHANGED sess \/ \E S : sess' = Ended(S))
    BY <1>6 DEF deactivate, LdapDeactivates, UpdateUser, vars, Expires
  <2>2. sess'[s] = sess[s]
    BY <2>1, EndedKept
  <2>3. QED
    BY <2>1, <2>2, StaysOn
<1>7. QED
  BY <1>1, <1>2, <1>3, <1>4, <1>5, <1>6 DEF Next

\* Every step keeps the browsers up with their sessions.
LEMMA AtHomeInv ==
  ASSUME TypeOK, TypeOK', Tokens, Private, Unseen, AtHome, [Next]_vars
  PROVE  AtHome'
<1> SUFFICES ASSUME NEW b \in Browser, NEW s \in home'[b]
             PROVE  sess'[s].state # "none" /\ (sess'[s].state = "live" => OnSession(b, s)')
  BY DEF AtHome, Live
<1>1. s \in Sess /\ Grows(sess, sess')
  BY NextGrows DEF TypeOK
<1>2. CASE s \in home[b]
  <2>1. sess[s].state # "none" /\ (Live(s) => OnSession(b, s))
    BY <1>2 DEF AtHome
  <2>2. sess'[s].state # "none" /\ (sess'[s].state = "live" => Live(s))
    BY <1>1, <2>1 DEF Grows, Live
  <2>3. QED
    BY <1>1, <2>1, <2>2, OnSessionInv
<1>3. ASSUME NEW r \in Req, Deliver(r), req[r].kind = "signin", req[r].cookie = "set",
             b = req[r].b, s \in req[r].own,
             \A q \in Req \ {r} : req[q].b = b => At(q, "idle")
      PROVE  sess'[s].state # "none" /\ (sess'[s].state = "live" => OnSession(b, s)')
  <2>1. sess' = sess
    BY <1>3 DEF Deliver
  <2>2. sess[s].state # "none"
    BY <1>3 DEF Tokens, Carries
  <2>3. QED
    BY <1>3, <2>1, <2>2, DeliverSignIn DEF Live
<1>4. QED
  BY <1>2, <1>3, HomeIs

-----------------------------------------------------------------------------
(* The theorems about tokens.                                               *)

\* The inductive invariant.  SignOutWins speaks of answered sign-outs, and
\* BrowserKeepsUp of the jar: what they need is about the tokens under way.
TokenInv == Inv /\ Tokens /\ Private /\ Unseen /\ AtHome

\* Nobody has a token at first.
LEMMA InitTokens == Init => TokenInv
<1> SUFFICES ASSUME Init PROVE TokenInv
  OBVIOUS
<1>1. NoSession.state = "none"
  BY DEF NoSession
<1>2. Idle.own = {} /\ Idle.tok = {}
  BY DEF Idle
<1>3. Tokens
  BY <1>1, IdleCarries DEF Init, Tokens, Holds, AtMostOne, RotationTimed
<1>4. Private /\ Unseen
  BY <1>2 DEF Init, Private, Has, Names, Unseen
<1>5. AtHome
  BY DEF Init, AtHome
<1>6. QED
  BY <1>3, <1>4, <1>5, InitInv DEF TokenInv

\* Every step keeps the invariant.
LEMMA NextTokens == TokenInv /\ [Next]_vars => TokenInv'
<1> SUFFICES ASSUME TokenInv, [Next]_vars PROVE TokenInv'
  OBVIOUS
<1>1. Inv' /\ TypeOK /\ TypeOK'
  BY NextInv DEF TokenInv, Inv
<1>2. QED
  BY <1>1, TokensInv, PrivateInv, AtHomeInv DEF TokenInv

\* A sign-out that was confirmed ended the session of its cookie, whatever refreshes
\* raced it, or the session had rotated twice, or once and long ago.
THEOREM SignOutEndsSession == Spec => []SignOutWins
<1>1. TokenInv => SignOutWins
  <2> SUFFICES ASSUME TokenInv, NEW r \in Req, At(r, "answered"), req[r].kind = "logout", req[r].ok,
                      NEW s \in Sess, NEW g \in 0 .. MaxGen, <<s, g>> \in req[r].tok, Live(s)
               PROVE  sess[s].gen >= g + 2 \/ sess[s].rotated = "long"
    BY DEF SignOutWins
  <2>1. Behind(req[r], <<s, g>>, sess)
    BY DEF TokenInv, Tokens, Carries
  <2>2. Overtaken(<<s, g>>, sess)
    BY <2>1 DEF Behind, Live, At
  <2>3. QED
    BY <2>2 DEF Overtaken
<1>2. QED
  BY <1>1, InitTokens, NextTokens, PTL DEF Spec

\* A browser that lost nothing and did not sign out has the current token of its
\* live session, or an answer brings it: refreshes of its tabs never sign it out.
THEOREM TabsKeepSession == Spec => []BrowserKeepsUp
<1>1. TokenInv => BrowserKeepsUp
  <2> SUFFICES ASSUME TokenInv, NEW b \in Browser, NEW s \in home[b], Live(s)
               PROVE  \/ jar[b] = {<<s, sess[s].gen>>}
                      \/ \E r \in Req : /\ At(r, "answered") /\ req[r].b = b /\ req[r].cookie = "set"
                                        /\ NewToken(r) = {<<s, sess[s].gen>>}
    BY DEF BrowserKeepsUp
  <2>1. OnSession(b, s)
    BY DEF TokenInv, AtHome
  <2>2. CASE Current(b, s)
    BY <2>2 DEF Current
  <2>3. ASSUME NEW r \in Req, NEW g \in Nat, sess[s].gen = g + 1, SetsFor(r, b), req[r].tok = {<<s, g>>}
        PROVE  /\ At(r, "answered") /\ req[r].b = b /\ req[r].cookie = "set"
               /\ NewToken(r) = {<<s, sess[s].gen>>}
    <3>1. req[r].pc = "answered"
      BY <2>3 DEF TokenInv, Tokens, Carries, KindAt, SetsFor
    <3>2. req[r].kind \in {"refresh", "password"}
      BY <2>1, <2>3, <3>1 DEF OnSession, Steady, SetsFor
    <3>3. NewToken(r) = {<<t[1], t[2] + 1>> : t \in {<<s, g>>}}
      BY <2>3, <3>2 DEF NewToken
    <3>4. NewToken(r) = {<<s, g + 1>>}
      BY <3>3
    <3>5. QED
      BY <2>3, <3>1, <3>4 DEF At, SetsFor
  <2>4. QED
    BY <2>1, <2>2, <2>3 DEF OnSession, Coming
<1>2. QED
  BY <1>1, InitTokens, NextTokens, PTL DEF Spec
=============================================================================

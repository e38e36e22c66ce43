------------------------------ MODULE Sessions ------------------------------
(***************************************************************************)
(* The sessions of one user: sign-in, refresh, sign-out, sign-out of all   *)
(* devices, password change, deactivation (internal/auth/session.go,       *)
(* internal/api/handlers/auth.go, totp.go, users.go, auth_sessions.go).    *)
(*                                                                         *)
(* A request is a sequence of statements with anything in between; the     *)
(* transactions that hold the users row's lock (a password change, a       *)
(* deactivation) are one step, because the insert of a session waits for   *)
(* that lock.  A refresh token is <<session, generation>>.  A browser has  *)
(* one cookie jar for all its tabs; answers reach it in any order.         *)
(* rotated tells how long ago the last rotation was: within the tolerance  *)
(* of concurrent refreshes, within the revocation window, or longer.       *)
(***************************************************************************)
EXTENDS Naturals

CONSTANTS
    Browser,     \* browsers of the user
    Req,         \* requests under way at a time
    MaxSess,     \* bound: sessions ever created
    MaxGen,      \* bound: rotations of a session
    MaxEpoch,    \* bound: revoke-alls
    MaxTroubles  \* bound: lost answers, database failures, administrator's changes

ASSUME SessionAssumption ==
    Browser # {} /\ {MaxSess, MaxGen, MaxEpoch, MaxTroubles} \subseteq Nat

VARIABLES
    user,     \* the users row
    sess,     \* the sessions table
    req,      \* the requests
    jar,      \* the refresh cookie of a browser, {} or {token}
    swept,    \* history: the epoch of the last confirmed sign-out of all devices
    home,     \* history: the session a browser is on, {} once it gave it up or met a delay
    spent

vars == <<user, sess, req, jar, swept, home, spent>>

Sess == 1 .. MaxSess
Token == Sess \X Nat
User == [active : BOOLEAN, ldap : BOOLEAN, epoch : Nat, pw : Nat, role : 0 .. 1]

\* epoch, pw: those the credential check of the sign-in read.
Session == [state : {"none", "live", "ended"}, gen : 0 .. MaxGen,
            rotated : {"never", "tolerance", "window", "long"},
            epoch : Nat, pw : Nat, role : 0 .. 1]

NoSession == [state |-> "none", gen |-> 0, rotated |-> "never", epoch |-> 0, pw |-> 0, role |-> 0]

Kinds == {"none", "signin", "refresh", "logout", "logoutall", "password", "revoke"}
Pcs == {"idle", "totp", "oidc", "insert", "replace", "validate", "user", "rotate", "refuse",
        "find", "findprev", "end", "bump", "sweep", "change", "answered"}
Cookies == {"keep", "clear", "set"}

\* pc: the next statement; tok: the cookie the request carries; epoch, pw: what its
\* credential check read, role of the row it holds; own: the session it works on;
\* cookie, ok: its answer.
Request == [kind : Kinds, b : Browser, pc : Pcs, tok : SUBSET Token, epoch : Nat, pw : Nat,
            role : 0 .. 1, own : SUBSET Sess, cookie : Cookies, ok : BOOLEAN]

Idle == [kind |-> "none", b |-> CHOOSE b \in Browser : TRUE, pc |-> "idle", tok |-> {},
         epoch |-> 0, pw |-> 0, role |-> 0, own |-> {}, cookie |-> "keep", ok |-> FALSE]

TypeOK ==
    /\ user \in User /\ sess \in [Sess -> Session] /\ req \in [Req -> Request]
    /\ jar \in [Browser -> SUBSET Token] /\ home \in [Browser -> SUBSET Sess]
    /\ swept \in Nat /\ spent \in 0 .. MaxTroubles

Init ==
    /\ user = [active |-> TRUE, ldap |-> FALSE, epoch |-> 0, pw |-> 0, role |-> 0]
    /\ sess = [s \in Sess |-> NoSession]
    /\ req = [r \in Req |-> Idle]
    /\ jar = [b \in Browser |-> {}]
    /\ swept = 0 /\ home = [b \in Browser |-> {}] /\ spent = 0

Trouble == spent < MaxTroubles /\ spent' = spent + 1

Live(s) == sess[s].state = "live"
At(r, pc) == req[r].pc = pc
Goto(r, pc) == req' = [req EXCEPT ![r].pc = pc]
\* What a request held is dropped with its answer, but for what tells the cookie.
Answer(r, cookie, ok) ==
    req' = [req EXCEPT ![r] = [Idle EXCEPT !.kind = req[r].kind, !.b = req[r].b, !.pc = "answered",
                                           !.cookie = cookie, !.ok = ok,
                                           !.tok = IF ok THEN req[r].tok ELSE {},
                                           !.own = IF cookie = "set" THEN req[r].own ELSE {}]]

\* The live session whose current token is tok (GetSessionByTokenHash).
ByToken(tok) == {s \in Sess : Live(s) /\ <<s, sess[s].gen>> \in tok}

\* The live session whose token before the last rotation is tok, if that was
\* within the window (GetSessionByPreviousTokenHash).
ByPreviousToken(tok, window) ==
    {s \in Sess : /\ Live(s) /\ sess[s].gen > 0
                  /\ <<s, sess[s].gen - 1>> \in tok
                  /\ sess[s].rotated \in window}

Tolerance == {"tolerance"}
RevocationWindow == {"tolerance", "window"}

\* is_revoked: no query returns the row any more, what else it held is dropped.
Ended(S) ==
    [s \in Sess |-> IF s \in S /\ Live(s) THEN [NoSession EXCEPT !.state = "ended"] ELSE sess[s]]

Leaves(b) == home' = [home EXCEPT ![b] = {}]

Send(r, b, kind, pc) ==
    /\ At(r, "idle")
    /\ req' = [req EXCEPT ![r] =
         [Idle EXCEPT !.kind = kind, !.b = b, !.pc = pc,
                      !.tok = IF kind \in {"signin", "refresh", "logout"} THEN jar[b] ELSE {},
                      !.epoch = IF kind = "signin" THEN user.epoch ELSE 0,
                      !.pw = IF kind \in {"signin", "password"} THEN user.pw ELSE 0,
                      !.role = IF kind = "signin" THEN user.role ELSE 0]]

-----------------------------------------------------------------------------
(* Sign-in.                                                                 *)

\* Login, the OIDC callback: the row read beside the check of the credential
\* gives the epoch.  A second factor or an exchange code puts time in between.
Login(r, b) ==
    /\ user.active
    /\ \E pc \in {"insert", "totp", "oidc"} : Send(r, b, "signin", pc)
    /\ Leaves(b)
    /\ UNCHANGED <<user, sess, jar, swept, spent>>

\* VerifyLogin with a right code, OIDCTokenExchange: the row read now only
\* refuses, the epoch stays the recorded one.
Redeem(r) ==
    /\ At(r, "totp") \/ At(r, "oidc")
    /\ IF user.active /\ (At(r, "totp") => req[r].epoch = user.epoch)
       THEN req' = [req EXCEPT ![r].pc = "insert", ![r].role = user.role]
       ELSE Answer(r, "keep", FALSE)
    /\ UNCHANGED <<user, sess, jar, swept, home, spent>>

\* Mutant: the insert takes the epoch of the row as it is now.
CreateSessionAtAnyEpoch(r) ==
    /\ At(r, "insert")
    /\ LET free == {s \in Sess : sess[s].state = "none"}
           new == CHOOSE s \in free : TRUE
       IN  /\ free # {} /\ user.active
           /\ sess' = [sess EXCEPT ![new] = [NoSession EXCEPT !.state = "live", !.epoch = user.epoch,
                                                              !.pw = req[r].pw, !.role = req[r].role]]
           /\ req' = [req EXCEPT ![r].pc = "replace", ![r].own = {new}]
    /\ UNCHANGED <<user, jar, swept, home, spent>>

\* CreateSession; the role is the user's of the row the handler holds.
CreateSessionAtEpoch(r) ==
    /\ At(r, "insert")
    /\ LET free == {s \in Sess : sess[s].state = "none"}
           new == CHOOSE s \in free : TRUE
       IN  IF user.active /\ user.epoch = req[r].epoch
           THEN /\ free # {}
                /\ sess' = [sess EXCEPT ![new] = [NoSession EXCEPT !.state = "live", !.epoch = user.epoch,
                                                                   !.pw = req[r].pw, !.role = req[r].role]]
                /\ req' = [req EXCEPT ![r].pc = "replace", ![r].own = {new}]
           ELSE Answer(r, "keep", FALSE) /\ UNCHANGED sess
    /\ UNCHANGED <<user, jar, swept, home, spent>>

\* endReplacedSession: the session whose current token the request's cookie is.
endReplacedSession(r) ==
    /\ At(r, "replace")
    /\ Answer(r, "set", TRUE)
    /\ \/ sess' = Ended(ByToken(req[r].tok) \ req[r].own) /\ UNCHANGED spent
       \/ Trouble /\ UNCHANGED sess
    /\ UNCHANGED <<user, jar, swept, home>>

-----------------------------------------------------------------------------
(* Refresh.                                                                 *)

SendRefresh(r, b) ==
    /\ jar[b] # {}
    /\ Send(r, b, "refresh", "validate")
    /\ UNCHANGED <<user, sess, jar, swept, home, spent>>

\* A failed statement answers without touching the cookie.
ValidateRefreshToken(r) ==
    /\ At(r, "validate")
    /\ \/ /\ req' = [req EXCEPT ![r].own = ByToken(req[r].tok),
                                ![r].pc = IF ByToken(req[r].tok) = {} THEN "refuse" ELSE "user"]
          /\ UNCHANGED spent
       \/ Trouble /\ Answer(r, "keep", FALSE)
    /\ UNCHANGED <<user, sess, jar, swept, home>>

\* The user row read in the refresh's transaction; a refusal ends the session
\* (revokeRefusedSession, which may fail) and clears the cookie.
RefreshReadsUser(r) ==
    /\ At(r, "user")
    /\ IF user.active /\ \A s \in req[r].own : sess[s].role = user.role
       THEN Goto(r, "rotate") /\ UNCHANGED <<sess, home, spent>>
       ELSE /\ Answer(r, "clear", FALSE)
            /\ \/ sess' = Ended(req[r].own) /\ UNCHANGED <<home, spent>>
               \/ Trouble /\ Leaves(req[r].b) /\ UNCHANGED sess
    /\ UNCHANGED <<user, jar, swept>>

Rotated(s) == [sess EXCEPT ![s].gen = @ + 1, ![s].rotated = "tolerance"]

\* Mutant: the rotation is not conditional on the token the refresh presented.
RotatableAnyway(r) == {s \in req[r].own : Live(s)}

\* The WHERE clause of RotateSessionToken.
Rotatable(r) == {s \in req[r].own : Live(s) /\ <<s, sess[s].gen>> \in req[r].tok}

\* RotateRefreshToken and the commit, whose outcome may stay unknown.
RotateRefreshToken(r) ==
    /\ At(r, "rotate")
    /\ IF Rotatable(r) = {}
       THEN Goto(r, "refuse") /\ UNCHANGED <<sess, home, spent>>
       ELSE \E s \in Rotatable(r) :
              /\ sess[s].gen < MaxGen
              /\ \/ /\ sess' = Rotated(s)
                    /\ Answer(r, "set", TRUE)
                    /\ UNCHANGED <<home, spent>>
                 \/ /\ Trouble /\ Answer(r, "keep", FALSE)
                    /\ sess' \in {sess, Rotated(s)}
                    /\ Leaves(req[r].b)
    /\ UNCHANGED <<user, jar, swept>>

\* Mutant: every refused refresh clears the cookie.
RefusalSparesNoCookie(r) == FALSE

RefusalSparesCookie(r) == ByPreviousToken(req[r].tok, Tolerance) # {}

\* refuseStaleRefresh: 409 and the cookie stays, or 401 and it is cleared; a
\* token two rotations behind, or a lookup that fails, is no excuse for the server.
refuseStaleRefresh(r) ==
    /\ At(r, "refuse")
    /\ \/ /\ Answer(r, IF RefusalSparesCookie(r) THEN "keep" ELSE "clear", FALSE)
          /\ IF \E s \in Sess : \E g \in 0 .. MaxGen : <<s, g>> \in req[r].tok /\ sess[s].gen > g + 1
             THEN Leaves(req[r].b) ELSE UNCHANGED home
          /\ UNCHANGED spent
       \/ Trouble /\ Answer(r, "clear", FALSE) /\ Leaves(req[r].b)
    /\ UNCHANGED <<user, sess, jar, swept>>

-----------------------------------------------------------------------------
(* Sign-out.                                                                *)

SendLogout(r, b) ==
    /\ jar[b] # {}
    /\ Send(r, b, "logout", "find")
    /\ Leaves(b)
    /\ UNCHANGED <<user, sess, jar, swept, spent>>

\* FindSessionForLogout's first lookup, then its second.
FindCurrent(r) ==
    /\ At(r, "find")
    /\ \/ /\ req' = [req EXCEPT ![r].own = ByToken(req[r].tok),
                                ![r].pc = IF ByToken(req[r].tok) = {} THEN "findprev" ELSE "end"]
          /\ UNCHANGED spent
       \/ Trouble /\ Answer(r, "clear", FALSE)
    /\ UNCHANGED <<user, sess, jar, swept, home>>

\* Mutant: a sign-out knows the current token only.
FindNoPrevious(r) ==
    /\ At(r, "findprev")
    /\ Answer(r, "clear", TRUE)
    /\ UNCHANGED <<user, sess, jar, swept, home, spent>>

FindPrevious(r) ==
    /\ At(r, "findprev")
    /\ LET found == ByPreviousToken(req[r].tok, RevocationWindow) IN
       \/ /\ IF found = {} THEN Answer(r, "clear", TRUE)
             ELSE req' = [req EXCEPT ![r].own = found, ![r].pc = "end"]
          /\ UNCHANGED spent
       \/ Trouble /\ Answer(r, "clear", FALSE)
    /\ UNCHANGED <<user, sess, jar, swept, home>>

\* RevokeSession, of Logout; the cookie is cleared whatever happens.
LogoutRevokes(r) ==
    /\ At(r, "end")
    /\ \/ sess' = Ended(req[r].own) /\ Answer(r, "clear", TRUE) /\ UNCHANGED spent
       \/ Trouble /\ Answer(r, "clear", FALSE) /\ UNCHANGED sess
    /\ UNCHANGED <<user, jar, swept, home>>

\* DELETE /auth/sessions/:id; a session that is the caller's own clears the cookie.
RevokeSessionByID(r, b, s) ==
    /\ At(r, "idle") /\ Live(s)
    /\ sess' = Ended({s})
    /\ req' = [req EXCEPT ![r] = [Idle EXCEPT !.kind = "revoke", !.b = b, !.pc = "answered", !.ok = TRUE,
                                    !.cookie = IF s \in ByToken(jar[b]) THEN "clear" ELSE "keep"]]
    /\ Leaves(b)
    /\ UNCHANGED <<user, jar, swept, spent>>

-----------------------------------------------------------------------------
(* Revoke-alls: RevokeAllUserSessionsIn bumps the epoch, then revokes.      *)

SendLogoutAll(r, b) ==
    /\ Send(r, b, "logoutall", "bump")
    /\ Leaves(b)
    /\ UNCHANGED <<user, sess, jar, swept, spent>>

\* Mutant: the sessions are revoked first, the epoch is bumped afterwards.
LogoutAllRevokesFirst(r) ==
    \/ /\ At(r, "bump") /\ user.epoch < MaxEpoch
       /\ sess' = Ended(Sess) /\ Goto(r, "sweep")
       /\ UNCHANGED <<user, jar, swept, home, spent>>
    \/ /\ At(r, "sweep") /\ user.epoch < MaxEpoch
       /\ user' = [user EXCEPT !.epoch = @ + 1] /\ swept' = user.epoch + 1
       /\ Answer(r, "clear", TRUE)
       /\ UNCHANGED <<sess, jar, home, spent>>

\* On the pool: separate statements.  A failure leaves the bump alone behind.
LogoutAll(r) ==
    \/ /\ At(r, "bump") /\ user.epoch < MaxEpoch
       /\ user' = [user EXCEPT !.epoch = @ + 1]
       /\ req' = [req EXCEPT ![r].pc = "sweep", ![r].epoch = user.epoch + 1]
       /\ UNCHANGED <<sess, jar, swept, home, spent>>
    \/ /\ At(r, "sweep")
       /\ sess' = Ended(Sess)
       /\ swept' = IF req[r].epoch > swept THEN req[r].epoch ELSE swept
       /\ Answer(r, "clear", TRUE)
       /\ UNCHANGED <<user, jar, home, spent>>
    \/ /\ At(r, "bump") \/ At(r, "sweep")
       /\ Trouble /\ Answer(r, "keep", FALSE)
       /\ UNCHANGED <<user, sess, jar, swept, home>>

SendChangePassword(r, b) ==
    /\ user.active
    /\ Send(r, b, "password", "change")
    /\ UNCHANGED <<user, sess, jar, swept, home, spent>>

\* The transaction of ChangePassword: UpdatePassword is conditional on the hash
\* that was checked, and ends the sessions in the same commit.  A commit whose
\* outcome is unknown is either of the two.
ChangePassword(r) ==
    /\ At(r, "change")
    /\ \/ /\ user.pw = req[r].pw /\ user.epoch < MaxEpoch
          /\ user' = [user EXCEPT !.pw = @ + 1, !.epoch = @ + 1]
          /\ sess' = Ended(Sess)
          /\ Answer(r, "keep", TRUE) /\ UNCHANGED spent
       \/ /\ user.pw # req[r].pw
          /\ Answer(r, "keep", FALSE) /\ UNCHANGED <<user, sess, spent>>
       \/ Trouble /\ Answer(r, "keep", FALSE) /\ UNCHANGED <<user, sess>>
    /\ UNCHANGED <<jar, swept, home>>

\* Mutant: the account is switched off and its sessions are left to expire.
deactivateOnly ==
    /\ Trouble /\ user.active /\ user.epoch < MaxEpoch
    /\ user' = [user EXCEPT !.active = FALSE, !.epoch = @ + 1]
    /\ UNCHANGED <<sess, req, jar, swept, home>>

deactivate ==
    /\ Trouble /\ user.active /\ user.epoch < MaxEpoch
    /\ user' = [user EXCEPT !.active = FALSE, !.epoch = @ + 1]
    /\ sess' = Ended(Sess)
    /\ UNCHANGED <<req, jar, swept, home>>

\* An LDAP sync switches the account off and revokes nothing.
LdapDeactivates ==
    /\ Trouble /\ user.active
    /\ user' = [user EXCEPT !.active = FALSE, !.ldap = TRUE]
    /\ UNCHANGED <<sess, req, jar, swept, home>>

\* UpdateUserProfile: the account is switched on again, or its role changes.
UpdateUser ==
    /\ Trouble
    /\ \/ ~user.active /\ user' = [user EXCEPT !.active = TRUE, !.ldap = FALSE]
       \/ user' = [user EXCEPT !.role = 1 - @]
    /\ UNCHANGED <<sess, req, jar, swept, home>>

-----------------------------------------------------------------------------
(* Answers and clocks.                                                      *)

NewToken(r) ==
    IF req[r].kind = "signin" THEN {<<s, 0>> : s \in req[r].own}
    ELSE {<<t[1], t[2] + 1>> : t \in req[r].tok}

\* A new sign-in starts with a clean slate once nothing older is under way.
Deliver(r) ==
    LET b == req[r].b IN
    /\ At(r, "answered")
    /\ jar' = [jar EXCEPT ![b] = CASE req[r].cookie = "set" -> NewToken(r)
                                   [] req[r].cookie = "clear" -> {}
                                   [] OTHER -> @]
    /\ IF /\ req[r].kind = "signin" /\ req[r].cookie = "set"
          /\ \A q \in Req \ {r} : req[q].b = b => At(q, "idle")
       THEN home' = [home EXCEPT ![b] = req[r].own] ELSE UNCHANGED home
    /\ req' = [req EXCEPT ![r] = Idle]
    /\ UNCHANGED <<user, sess, swept, spent>>

\* An answer that never arrives, a pending sign-in nobody finishes.
LoseAnswer(r) ==
    /\ Trouble
    /\ At(r, "answered") \/ At(r, "totp") \/ At(r, "oidc")
    /\ Leaves(req[r].b)
    /\ req' = [req EXCEPT ![r] = Idle]
    /\ UNCHANGED <<user, sess, jar, swept>>

\* A refresh still under way was not prompt.
RotationAges(s) ==
    /\ sess[s].rotated \in RevocationWindow
    /\ sess' = [sess EXCEPT ![s].rotated = IF @ = "tolerance" THEN "window" ELSE "long"]
    /\ home' = [b \in Browser |-> IF \E r \in Req : req[r].b = b /\ req[r].kind = "refresh"
                                THEN {} ELSE home[b]]
    /\ UNCHANGED <<user, req, jar, swept, spent>>

Expires(s) ==
    /\ Live(s) /\ Trouble
    /\ sess' = Ended({s})
    /\ UNCHANGED <<user, req, jar, swept, home>>

Next ==
    \/ \E r \in Req :
         \/ \E b \in Browser : \/ Login(r, b) \/ SendRefresh(r, b) \/ SendLogout(r, b)
                               \/ SendLogoutAll(r, b) \/ SendChangePassword(r, b)
                               \/ \E s \in Sess : RevokeSessionByID(r, b, s)
         \/ Redeem(r) \/ CreateSessionAtEpoch(r) \/ endReplacedSession(r)
         \/ ValidateRefreshToken(r) \/ RefreshReadsUser(r) \/ RotateRefreshToken(r)
         \/ refuseStaleRefresh(r) \/ FindCurrent(r) \/ FindPrevious(r) \/ LogoutRevokes(r)
         \/ LogoutAll(r) \/ ChangePassword(r) \/ Deliver(r) \/ LoseAnswer(r)
    \/ deactivate \/ LdapDeactivates \/ UpdateUser
    \/ \E s \in Sess : RotationAges(s) \/ Expires(s)

Spec == Init /\ [][Next]_vars

-----------------------------------------------------------------------------
(* Properties.                                                              *)

\* No live session rests on a password that has been replaced, also not one
\* whose sign-in checked the old password before the change and was inserted after.
NoSessionOnReplacedPassword == \A s \in Sess : Live(s) => sess[s].pw = user.pw

\* After a sign-out of all devices that was confirmed, no session of a sign-in
\* checked before it is live, however the two interleaved.
SignOutEverywhereHolds == \A s \in Sess : Live(s) => sess[s].epoch >= swept

\* A deactivated account has no live session (an LDAP sync revokes nothing).
DeactivatedHasNoSession == ~user.active /\ ~user.ldap => \A s \in Sess : ~Live(s)

\* A sign-out that answered "done" ended the session its cookie named, also when
\* a refresh rotated the token first; the documented limits are a second
\* rotation and the revocation window.
SignOutWins ==
    \A r \in Req : At(r, "answered") /\ req[r].kind = "logout" /\ req[r].ok =>
        \A s \in Sess, g \in 0 .. MaxGen :
            <<s, g>> \in req[r].tok /\ Live(s) => sess[s].gen >= g + 2 \/ sess[s].rotated = "long"

\* As long as nothing was lost or late, a browser that did not sign out keeps the
\* current token of its live session, or an answer brings it: tabs that refresh
\* at once never sign each other out.
BrowserKeepsUp ==
    \A b \in Browser : \A s \in home[b] : Live(s) =>
        \/ jar[b] = {<<s, sess[s].gen>>}
        \/ \E r \in Req : /\ At(r, "answered") /\ req[r].b = b /\ req[r].cookie = "set"
                          /\ NewToken(r) = {<<s, sess[s].gen>>}
=============================================================================

--------------------------- MODULE PasswordLockout ---------------------------
(***************************************************************************)
(* The lockout of the routes that check the current password               *)
(* (internal/api/handlers/password_lockout.go): change-password and the    *)
(* setup of a second factor share one budget per user.  The two scripts    *)
(* are atomic; a request is counted, checked and then gives its attempt    *)
(* back, clears the count or leaves it.  count is the counter's value (0   *)
(* without a key), lock the attempt that armed the lock.                   *)
(***************************************************************************)
EXTENDS Integers, FiniteSets

CONSTANTS
    Req,         \* requests under way at a time
    Threshold,   \* passwordLockoutThreshold
    MaxTroubles  \* bound: lost answers of Redis

ASSUME LockoutAssumption == Threshold \in Nat \ {0} /\ MaxTroubles \in Nat

VARIABLES
    count,    \* pwchange:user:fail
    lock,     \* pwchange:user:lock: armed, by which request, was that a guess
    req,      \* the requests
    guesses,  \* history: wrong passwords admitted in this cycle
    given,    \* history: attempts of this cycle given back that were not taken in it
    spent

vars == <<count, lock, req, guesses, given, spent>>

\* right: the password verifies; last: it armed the lock; old: it was counted in
\* a cycle that is over.
Request == [pc : {"idle", "counted", "verified", "committed"},
            right : BOOLEAN, last : BOOLEAN, old : BOOLEAN]
Idle == [pc |-> "idle", right |-> FALSE, last |-> FALSE, old |-> FALSE]

\* A lock that a count without a request armed has no by.
Lock == [armed : BOOLEAN, by : SUBSET Req, guess : BOOLEAN]
NoLock == [armed |-> FALSE, by |-> {}, guess |-> FALSE]

TypeOK ==
    /\ count \in 0 .. Threshold - 1
    /\ lock \in Lock
    /\ req \in [Req -> Request]
    /\ guesses \in Nat /\ given \in Nat
    /\ spent \in 0 .. MaxTroubles

Init ==
    /\ count = 0 /\ lock = NoLock
    /\ req = [r \in Req |-> Idle]
    /\ guesses = 0 /\ given = 0 /\ spent = 0

Trouble == spent < MaxTroubles /\ spent' = spent + 1

\* The counter and the lock after one more attempt, of the request in by.
Counted(by, guess) ==
    IF count + 1 >= Threshold
    THEN count' = 0 /\ lock' = [armed |-> TRUE, by |-> by, guess |-> guess]
    ELSE count' = count + 1 /\ UNCHANGED lock

\* Mutant: the password is checked first, and a wrong one counted afterwards.
reserveLater(r, right) ==
    /\ req[r].pc = "idle" /\ ~lock.armed
    /\ req' = [req EXCEPT ![r] = [pc |-> "counted", right |-> right, last |-> FALSE, old |-> FALSE]]
    /\ guesses' = IF right THEN guesses ELSE guesses + 1
    /\ UNCHANGED <<count, lock, given, spent>>

\* admitPasswordAttempt with reservePasswordAttempt; a locked account refuses
\* and nothing changes.
reserve(r, right) ==
    /\ req[r].pc = "idle" /\ ~lock.armed
    /\ Counted({r}, ~right)
    /\ req' = [req EXCEPT ![r] = [pc |-> "counted", right |-> right,
                                  last |-> count + 1 >= Threshold, old |-> FALSE]]
    /\ guesses' = IF right THEN guesses ELSE guesses + 1
    /\ UNCHANGED <<given, spent>>

\* A count whose request was answered 503 lands, or is sent twice.
AbandonedCount ==
    /\ Trouble /\ ~lock.armed
    /\ Counted({}, TRUE)
    /\ UNCHANGED <<req, guesses, given>>

\* checkCurrentPassword; a wrong one ends the request (refuseWrongPassword).
checkCurrentPassword(r) ==
    /\ req[r].pc = "counted"
    /\ req' = [req EXCEPT ![r] = IF @.right THEN [@ EXCEPT !.pc = "verified"] ELSE Idle]
    /\ UNCHANGED <<count, lock, guesses, given, spent>>

\* The password change commits.
Commit(r) ==
    /\ req[r].pc = "verified"
    /\ req' = [req EXCEPT ![r].pc = "committed"]
    /\ UNCHANGED <<count, lock, guesses, given, spent>>

\* Whoever is under way was counted in a cycle that is over now.
Outdated(R) == [r \in R |-> IF req[r].pc = "idle" THEN req[r] ELSE [req[r] EXCEPT !.old = TRUE]]

\* forgetPasswordFailures.
clear(r) ==
    /\ req[r].pc = "committed"
    /\ \/ /\ count' = 0 /\ lock' = NoLock /\ guesses' = 0 /\ given' = 0
          /\ req' = [Outdated(Req) EXCEPT ![r] = Idle]
          /\ UNCHANGED spent
       \/ /\ Trouble /\ req' = [req EXCEPT ![r] = Idle]
          /\ UNCHANGED <<count, lock, guesses, given>>

\* Mutant: an attempt that armed a lock lifts whatever lock there is.
LiftsAny(r) == lock.armed

Lifts(r) == lock.armed /\ r \in lock.by

\* releasePasswordAttempt: the lock it armed itself, or one off the counter.
Released(r) ==
    IF req[r].last
    THEN /\ IF Lifts(r) THEN lock' = NoLock /\ count' = Threshold - 1 ELSE UNCHANGED <<lock, count>>
         /\ UNCHANGED given
    ELSE /\ count' = IF count <= 1 THEN 0 ELSE count - 1
         /\ given' = IF req[r].old /\ count > 0 THEN given + 1 ELSE given
         /\ UNCHANGED lock

\* handBackAttempt: a change that did not commit, a proof for the second factor.
\* A lost answer: not given back, or sent again.
release(r) ==
    /\ req[r].pc = "verified"
    /\ \/ Released(r) /\ req' = [req EXCEPT ![r] = Idle] /\ UNCHANGED spent
       \/ Trouble /\ Released(r) /\ req' = [req EXCEPT ![r].old = TRUE]
       \/ Trouble /\ req' = [req EXCEPT ![r] = Idle] /\ UNCHANGED <<count, lock, given>>
    /\ UNCHANGED guesses

WindowEnds ==
    /\ count > 0
    /\ count' = 0 /\ guesses' = 0 /\ given' = 0
    /\ req' = Outdated(Req)
    /\ UNCHANGED <<lock, spent>>

LockEnds ==
    /\ lock.armed
    /\ lock' = NoLock /\ guesses' = 0 /\ given' = 0
    /\ req' = Outdated(Req)
    /\ UNCHANGED <<count, spent>>

Next ==
    \/ \E r \in Req : \/ \E right \in BOOLEAN : reserve(r, right)
                      \/ checkCurrentPassword(r) \/ Commit(r) \/ clear(r) \/ release(r)
    \/ AbandonedCount \/ WindowEnds \/ LockEnds

Spec == Init /\ [][Next]_vars

-----------------------------------------------------------------------------
(* Properties.                                                              *)

\* However requests, releases and expiries interleave, a cycle checks no more
\* wrong passwords than the threshold: plus one for every attempt that a request
\* counted in an earlier cycle (or a release sent twice) gives back in this one.
GuessesBounded == guesses <= Threshold + given

\* A lock that a wrong password armed goes only when it expires or when a change
\* of the password commits; no release of another attempt lifts it.
LockHolds ==
    [][lock.guess /\ ~lock'.armed => LockEnds \/ \E r \in Req : clear(r)]_vars
=============================================================================

------------------------ MODULE PasswordLockoutProof ------------------------
(***************************************************************************)
(* Proofs about PasswordLockout, for any number of requests at a time and  *)
(* any threshold: types, the budget of guesses, and that a lock armed by a *)
(* guess is lifted by nobody.                                              *)
(***************************************************************************)
EXTENDS PasswordLockout, FiniteSetTheorems, TLAPS

\* The requests of this cycle that may still give their attempt back.
IsLive(x) == x.pc \in {"counted", "verified"} /\ x.right /\ ~x.old
Live == {r \in Req : IsLive(req[r])}

\* The attempts the store has on record.
Taken == IF lock.armed THEN Threshold ELSE count

-----------------------------------------------------------------------------
(* The invariant.                                                           *)

\* A request passes the check with the right password only.
RightIsVerified == \A r \in Req : req[r].pc = "verified" => req[r].right

\* A lock starts a new count; the request that armed it is of this cycle, and the
\* lock remembers whether it was a guess.
ArmedBy ==
    /\ lock.armed => count = 0
    /\ lock.guess => lock.armed
    /\ \A r \in Req : lock.armed /\ r \in lock.by /\ req[r].pc # "idle" =>
          req[r].last /\ ~req[r].old /\ lock.guess = ~req[r].right

\* Every guess, and every attempt that may still be given back, is on record,
\* but for what an earlier cycle's requests gave back.
OnRecord ==
    /\ IsFiniteSet(Live)
    /\ guesses + Cardinality(Live) <= Taken + given

Inv == TypeOK /\ RightIsVerified /\ ArmedBy /\ OnRecord

-----------------------------------------------------------------------------
(* Lemmas on requests.                                                      *)

\* The idle request is a request, and not a live one.
LEMMA IdleType == Idle \in Request /\ Idle.pc = "idle" /\ ~IsLive(Idle)
BY DEF Idle, Request, IsLive

\* What one changed request does to the live ones.
LEMMA LiveChange ==
  ASSUME TypeOK, NEW r \in Req, NEW x \in Request, req' = [req EXCEPT ![r] = x]
  PROVE  /\ req' \in [Req -> Request]
         /\ req'[r] = x /\ \A q \in Req \ {r} : req'[q] = req[q]
         /\ IsLive(x) => Live' = Live \cup {r}
         /\ ~IsLive(x) => Live' = Live \ {r}
<1>1. req' \in [Req -> Request] /\ req'[r] = x /\ \A q \in Req \ {r} : req'[q] = req[q]
  BY DEF TypeOK
<1>2. Live' = {q \in Req : IsLive(req'[q])}
  BY DEF Live, IsLive
<1>3. QED
  BY <1>1, <1>2 DEF Live

\* When a cycle ends, nobody under way belongs to the new one.
LEMMA OutdatedLive ==
  ASSUME TypeOK, NEW f \in [Req -> Request], req' = f,
         \A q \in Req : f[q] = Idle \/ f[q] = Outdated(Req)[q]
  PROVE  Live' = {}
<1>1. \A q \in Req : ~IsLive(Outdated(Req)[q])
  BY DEF Outdated, IsLive, TypeOK, Request
<1>2. \A q \in Req : ~IsLive(f[q])
  BY <1>1, IdleType
<1>3. QED
  BY <1>2 DEF Live, IsLive

\* The end of a cycle leaves every request where it is.
LEMMA OutdatedType ==
  ASSUME TypeOK
  PROVE  /\ Outdated(Req) \in [Req -> Request]
         /\ \A q \in Req : /\ Outdated(Req)[q].pc = req[q].pc
                           /\ Outdated(Req)[q].right = req[q].right
BY DEF Outdated, TypeOK, Request

-----------------------------------------------------------------------------
(* One lemma per action.                                                    *)

\* Nothing is on record, and nothing owed, before the first request.
LEMMA InitInv == Init => Inv
<1> SUFFICES ASSUME Init PROVE Inv
  OBVIOUS
<1>1. \A r \in Req : req[r] = Idle
  BY DEF Init
<1>2. NoLock \in Lock /\ NoLock.armed = FALSE /\ NoLock.guess = FALSE
  BY DEF NoLock, Lock
<1>3. TypeOK
  BY <1>2, IdleType, LockoutAssumption DEF Init, TypeOK
<1>4. Live = {}
  BY <1>1, IdleType DEF Live
<1>5. OnRecord
  BY <1>2, <1>4, FS_EmptySet DEF OnRecord, Taken, Init
<1>6. RightIsVerified /\ ArmedBy
  BY <1>1, <1>2, IdleType DEF RightIsVerified, ArmedBy, Init
<1>7. QED
  BY <1>3, <1>5, <1>6 DEF Inv

\* The count and the lock after an attempt of the requests in by.
LEMMA CountedTaken ==
  ASSUME TypeOK, ~lock.armed, NEW by \in SUBSET Req, NEW guess \in BOOLEAN, Counted(by, guess)
  PROVE  /\ count' \in 0 .. Threshold - 1 /\ lock' \in Lock
         /\ Taken' = Taken + 1
         /\ lock'.armed => /\ count + 1 >= Threshold /\ count' = 0
                           /\ lock'.by = by /\ lock'.guess = guess
         /\ ~lock'.armed => lock' = lock
<1>1. CASE count + 1 >= Threshold
  <2>1. count' = 0 /\ lock' = [armed |-> TRUE, by |-> by, guess |-> guess]
    BY <1>1 DEF Counted
  <2>2. count + 1 = Threshold
    BY <1>1, LockoutAssumption DEF TypeOK
  <2>3. QED
    BY <2>1, <2>2, LockoutAssumption DEF Taken, Lock
<1>2. CASE ~(count + 1 >= Threshold)
  <2>1. count' = count + 1 /\ lock' = lock
    BY <1>2 DEF Counted
  <2>2. count' \in 0 .. Threshold - 1
    BY <1>2, <2>1, LockoutAssumption DEF TypeOK
  <2>3. QED
    BY <2>1, <2>2 DEF Taken, TypeOK
<1>3. QED
  BY <1>1, <1>2

\* An attempt is counted before it is checked: as a guess, or as one that may be
\* given back.
LEMMA ReserveInv ==
  ASSUME Inv, NEW r \in Req, NEW right \in BOOLEAN, reserve(r, right)
  PROVE  Inv'
<1> DEFINE x == [pc |-> "counted", right |-> right, last |-> count + 1 >= Threshold, old |-> FALSE]
<1>0. TypeOK
  BY DEF Inv
<1>1. /\ x \in Request /\ x.pc = "counted" /\ x.right = right /\ x.old = FALSE
      /\ x.last = (count + 1 >= Threshold)
  BY DEF Request
<1>2. req' = [req EXCEPT ![r] = x] /\ req[r].pc = "idle" /\ ~lock.armed
      /\ guesses' = (IF right THEN guesses ELSE guesses + 1) /\ UNCHANGED <<given, spent>>
  BY DEF reserve
<1>3. IsLive(x) <=> right
  BY <1>1 DEF IsLive
<1> HIDE DEF x
<1>4. /\ count' \in 0 .. Threshold - 1 /\ lock' \in Lock
      /\ Taken' = Taken + 1
      /\ lock'.armed => count + 1 >= Threshold /\ count' = 0 /\ lock'.by = {r} /\ lock'.guess = ~right
      /\ ~lock'.armed => lock' = lock
  <2>1. Counted({r}, ~right)
    BY DEF reserve
  <2>2. (~right) \in BOOLEAN
    OBVIOUS
  <2>3. QED
    BY <1>0, <1>2, <2>1, <2>2, CountedTaken
<1>5. /\ req' \in [Req -> Request]
      /\ req'[r] = x /\ \A q \in Req \ {r} : req'[q] = req[q]
      /\ right => Live' = Live \cup {r}
      /\ ~right => Live' = Live \ {r}
  BY <1>0, <1>1, <1>2, <1>3, LiveChange
<1>6. TypeOK'
  BY <1>0, <1>2, <1>4, <1>5 DEF TypeOK
<1>7. RightIsVerified'
  BY <1>1, <1>5 DEF Inv, RightIsVerified
<1>8. ArmedBy'
  <2>1. CASE lock'.armed
    BY <1>1, <1>4, <1>5, <2>1 DEF ArmedBy
  <2>2. CASE ~lock'.armed
    BY <1>4, <2>2 DEF Inv, ArmedBy
  <2>3. QED
    BY <2>1, <2>2
<1>9. OnRecord'
  <2>1. /\ IsFiniteSet(Live) /\ r \notin Live
        /\ guesses + Cardinality(Live) <= Taken + given
    BY <1>2 DEF Inv, OnRecord, Live, IsLive
  <2>2. Cardinality(Live) \in Nat /\ Taken \in Int /\ guesses \in Nat /\ given \in Nat
    BY <1>0, <2>1, FS_CardinalityType, LockoutAssumption DEF TypeOK, Taken
  <2>3. CASE right
    <3>1. IsFiniteSet(Live') /\ Cardinality(Live') = Cardinality(Live) + 1
      BY <1>5, <2>1, <2>3, FS_AddElement
    <3>2. QED
      BY <1>2, <1>4, <2>1, <2>2, <2>3, <3>1 DEF OnRecord
  <2>4. CASE ~right
    <3>1. Live' = Live
      BY <1>5, <2>1, <2>4
    <3>2. QED
      BY <1>2, <1>4, <2>1, <2>2, <2>4, <3>1 DEF OnRecord
  <2>5. QED
    BY <2>3, <2>4
<1>10. QED
  BY <1>6, <1>7, <1>8, <1>9 DEF Inv

\* An attempt whose request is gone only adds to the record.
LEMMA AbandonedInv ==
  ASSUME Inv, AbandonedCount
  PROVE  Inv'
<1>0. TypeOK /\ ~lock.armed /\ UNCHANGED <<req, guesses, given>>
  BY DEF Inv, AbandonedCount
<1>1. /\ count' \in 0 .. Threshold - 1 /\ lock' \in Lock
      /\ Taken' = Taken + 1
      /\ lock'.armed => count' = 0 /\ lock'.by = {} /\ lock'.guess = TRUE
      /\ ~lock'.armed => lock' = lock
  <2>1. Counted({}, TRUE)
    BY DEF AbandonedCount
  <2>2. QED
    BY <1>0, <2>1, CountedTaken
<1>2. TypeOK'
  BY <1>0, <1>1, LockoutAssumption DEF TypeOK, AbandonedCount, Trouble
<1>3. RightIsVerified'
  BY <1>0 DEF Inv, RightIsVerified
<1>4. ArmedBy'
  BY <1>0, <1>1 DEF Inv, ArmedBy
<1>5. Live' = Live
  BY <1>0 DEF Live, IsLive
<1>6. OnRecord'
  <2>1. IsFiniteSet(Live) /\ guesses + Cardinality(Live) <= Taken + given
    BY DEF Inv, OnRecord
  <2>2. Cardinality(Live) \in Nat /\ Taken \in Int /\ guesses \in Nat /\ given \in Nat
    BY <1>0, <2>1, FS_CardinalityType, LockoutAssumption DEF TypeOK, Taken
  <2>3. QED
    BY <1>0, <1>1, <1>5, <2>1, <2>2 DEF OnRecord
<1>7. QED
  BY <1>2, <1>3, <1>4, <1>6 DEF Inv

\* A request that goes on, or ends, without a word to the store.
LEMMA SilentInv ==
  ASSUME Inv, NEW r \in Req, NEW x \in Request, req' = [req EXCEPT ![r] = x],
         IsLive(x) => IsLive(req[r]),
         x.pc = "idle" \/ (x.right = req[r].right /\ x.last = req[r].last
                          /\ x.old = req[r].old /\ req[r].pc # "idle"),
         x.pc = "verified" => x.right,
         UNCHANGED <<count, lock, guesses, given>>, spent' \in 0 .. MaxTroubles
  PROVE  Inv'
<1>0. TypeOK
  BY DEF Inv
<1>1. /\ req' \in [Req -> Request]
      /\ req'[r] = x /\ \A q \in Req \ {r} : req'[q] = req[q]
      /\ IsLive(x) => Live' = Live \cup {r}
      /\ ~IsLive(x) => Live' = Live \ {r}
  BY <1>0, LiveChange
<1>2. TypeOK'
  BY <1>0, <1>1 DEF TypeOK
<1>3. RightIsVerified'
  BY <1>1 DEF Inv, RightIsVerified
<1>4. ArmedBy'
  BY <1>1 DEF Inv, ArmedBy
<1>5. IsFiniteSet(Live) /\ guesses + Cardinality(Live) <= Taken + given
  BY DEF Inv, OnRecord
<1>6. Live' \in SUBSET Live
  BY <1>1 DEF Live
<1>7. IsFiniteSet(Live') /\ Cardinality(Live') <= Cardinality(Live)
  BY <1>5, <1>6, FS_Subset
<1>8. /\ Cardinality(Live) \in Nat /\ Cardinality(Live') \in Nat
      /\ Taken \in Int /\ guesses \in Nat /\ given \in Nat /\ Taken' = Taken
  BY <1>0, <1>5, <1>7, FS_CardinalityType, LockoutAssumption DEF TypeOK, Taken
<1>9. OnRecord'
  BY <1>5, <1>7, <1>8 DEF OnRecord
<1>10. QED
  BY <1>2, <1>3, <1>4, <1>9 DEF Inv

\* A request that ends so.
LEMMA EndsInv ==
  ASSUME Inv, NEW r \in Req, req' = [req EXCEPT ![r] = Idle],
         UNCHANGED <<count, lock, guesses, given>>, spent' \in 0 .. MaxTroubles
  PROVE  Inv'
<1>1. Idle \in Request /\ Idle.pc = "idle" /\ ~IsLive(Idle) /\ (Idle.pc = "verified" => Idle.right)
  BY IdleType
<1>2. QED
  BY <1>1, SilentInv

\* The password is checked; a wrong one ends the request.
LEMMA CheckInv ==
  ASSUME Inv, NEW r \in Req, checkCurrentPassword(r)
  PROVE  Inv'
<1> DEFINE x == IF req[r].right THEN [req[r] EXCEPT !.pc = "verified"] ELSE Idle
<1>0. TypeOK /\ req[r] \in Request /\ req[r].pc = "counted"
  BY DEF Inv, TypeOK, checkCurrentPassword
<1>1. /\ req' = [req EXCEPT ![r] = x]
      /\ UNCHANGED <<count, lock, guesses, given>> /\ spent' \in 0 .. MaxTroubles
  BY <1>0 DEF checkCurrentPassword, TypeOK
<1>2. CASE req[r].right
  <2>1. /\ x \in Request /\ x.pc = "verified" /\ x.right = req[r].right /\ x.last = req[r].last
        /\ x.old = req[r].old
    BY <1>0, <1>2 DEF Request
  <2>2. IsLive(x) => IsLive(req[r])
    BY <1>0, <2>1 DEF IsLive
  <2> HIDE DEF x
  <2>3. QED
    BY <1>0, <1>1, <1>2, <2>1, <2>2, SilentInv
<1>3. CASE ~req[r].right
  <2>1. req' = [req EXCEPT ![r] = Idle]
    BY <1>1, <1>3
  <2>2. QED
    BY <1>1, <2>1, EndsInv
<1>4. QED
  BY <1>2, <1>3

\* A change of the password commits.
LEMMA CommitInv ==
  ASSUME Inv, NEW r \in Req, Commit(r)
  PROVE  Inv'
<1> DEFINE x == [req[r] EXCEPT !.pc = "committed"]
<1>0. TypeOK /\ req[r] \in Request /\ req[r].pc = "verified"
  BY DEF Inv, TypeOK, Commit
<1>1. /\ req' = [req EXCEPT ![r] = x]
      /\ UNCHANGED <<count, lock, guesses, given>> /\ spent' \in 0 .. MaxTroubles
  BY <1>0 DEF Commit, TypeOK
<1>2. /\ x \in Request /\ x.pc = "committed" /\ x.right = req[r].right
      /\ x.last = req[r].last /\ x.old = req[r].old
  BY <1>0 DEF Request
<1>3. ~IsLive(x)
  BY <1>2 DEF IsLive
<1> HIDE DEF x
<1>4. QED
  BY <1>0, <1>1, <1>2, <1>3, SilentInv

\* The end of a cycle: the record is empty, the lock as given, nobody under way live.
LEMMA CycleInv ==
  ASSUME Inv, NEW f \in [Req -> Request], req' = f,
         \A q \in Req : f[q] = Idle \/ f[q] = Outdated(Req)[q],
         count' = 0, guesses' = 0, given' = 0, spent' = spent,
         lock' = NoLock \/ (lock' = lock /\ ~lock.armed)
  PROVE  Inv'
<1>0. TypeOK
  BY DEF Inv
<1>1. NoLock \in Lock /\ NoLock.armed = FALSE /\ NoLock.guess = FALSE
  BY DEF NoLock, Lock
<1>2. TypeOK'
  BY <1>0, <1>1, LockoutAssumption DEF TypeOK
<1>3. RightIsVerified'
  <2>1. \A q \in Req : req'[q].pc = "verified" => req[q].pc = "verified" /\ req'[q].right = req[q].right
    BY <1>0, IdleType, OutdatedType
  <2>2. QED
    BY <2>1 DEF Inv, RightIsVerified
<1>4. ~lock'.armed /\ ~lock'.guess
  BY <1>1 DEF Inv, ArmedBy
<1>5. ArmedBy'
  BY <1>4 DEF ArmedBy
<1>6. Live' = {}
  BY <1>0, OutdatedLive
<1>7. Taken' = 0
  BY <1>4 DEF Taken
<1>8. OnRecord'
  BY <1>6, <1>7, FS_EmptySet DEF OnRecord
<1>9. QED
  BY <1>2, <1>3, <1>5, <1>8 DEF Inv

\* A committed change clears the record, or its call is lost.
LEMMA ClearInv ==
  ASSUME Inv, NEW r \in Req, clear(r)
  PROVE  Inv'
<1>0. TypeOK
  BY DEF Inv
<1>1. CASE /\ count' = 0 /\ lock' = NoLock /\ guesses' = 0 /\ given' = 0
           /\ req' = [Outdated(Req) EXCEPT ![r] = Idle]
           /\ UNCHANGED spent
  <2> DEFINE f == [Outdated(Req) EXCEPT ![r] = Idle]
  <2>1. f \in [Req -> Request] /\ \A q \in Req : f[q] = Idle \/ f[q] = Outdated(Req)[q]
    BY <1>0, IdleType, OutdatedType
  <2>2. req' = f /\ count' = 0 /\ lock' = NoLock /\ guesses' = 0 /\ given' = 0 /\ spent' = spent
    BY <1>1
  <2> HIDE DEF f
  <2>3. QED
    BY <2>1, <2>2, CycleInv
<1>2. CASE /\ Trouble /\ req' = [req EXCEPT ![r] = Idle]
           /\ UNCHANGED <<count, lock, guesses, given>>
  <2>1. spent' \in 0 .. MaxTroubles
    BY <1>0, <1>2, LockoutAssumption DEF TypeOK, Trouble
  <2>2. QED
    BY <1>2, <2>1, EndsInv
<1>3. QED
  BY <1>1, <1>2 DEF clear

\* The window of the count expires.
LEMMA WindowInv ==
  ASSUME Inv, WindowEnds
  PROVE  Inv'
<1>1. ~lock.armed
  BY DEF Inv, ArmedBy, WindowEnds
<1>2. Outdated(Req) \in [Req -> Request]
  BY OutdatedType DEF Inv
<1>3. QED
  BY <1>1, <1>2, CycleInv DEF WindowEnds

\* The lock expires.
LEMMA LockEndsInv ==
  ASSUME Inv, LockEnds
  PROVE  Inv'
<1>1. count = 0
  BY DEF Inv, ArmedBy, LockEnds
<1>2. Outdated(Req) \in [Req -> Request]
  BY OutdatedType DEF Inv
<1>3. /\ req' = Outdated(Req) /\ count' = 0 /\ guesses' = 0 /\ given' = 0 /\ spent' = spent
      /\ lock' = NoLock
  BY <1>1 DEF LockEnds
<1>4. QED
  BY <1>2, <1>3, CycleInv

\* What a release takes off the record is the attempt of its request, or counted as given.
LEMMA ReleasedTaken ==
  ASSUME Inv, NEW r \in Req, req[r].pc = "verified", Released(r)
  PROVE  /\ count' \in 0 .. Threshold - 1 /\ lock' \in Lock /\ given' \in Nat
         /\ lock' = NoLock \/ (lock' = lock /\ (lock.armed => count' = 0))
         /\ r \in lock.by => ~lock'.armed
         /\ IsLive(req[r]) => Taken + given <= Taken' + given' + 1
         /\ ~IsLive(req[r]) => Taken + given <= Taken' + given'
<1>0. /\ TypeOK /\ req[r] \in Request /\ count \in Nat /\ given \in Nat /\ Threshold \in Nat \ {0}
      /\ lock \in Lock /\ count <= Threshold - 1
  BY LockoutAssumption DEF Inv, TypeOK
<1>1. NoLock \in Lock /\ NoLock.armed = FALSE
  BY DEF NoLock, Lock
<1>2. /\ lock.armed => count = 0
      /\ lock.armed /\ r \in lock.by => req[r].last /\ ~req[r].old
  BY DEF Inv, ArmedBy
<1>3. IsLive(req[r]) <=> ~req[r].old
  BY DEF Inv, RightIsVerified, IsLive
<1>4. CASE req[r].last /\ Lifts(r)
  <2>1. lock' = NoLock /\ count' = Threshold - 1 /\ given' = given
    BY <1>4 DEF Released
  <2>2. Taken = Threshold /\ Taken' = Threshold - 1
    BY <1>1, <1>4, <2>1 DEF Taken, Lifts
  <2>3. IsLive(req[r])
    BY <1>2, <1>3, <1>4 DEF Lifts
  <2>4. QED
    BY <1>0, <1>1, <2>1, <2>2, <2>3
<1>5. CASE req[r].last /\ ~Lifts(r)
  <2>1. lock' = lock /\ count' = count /\ given' = given
    BY <1>5 DEF Released
  <2>2. Taken' = Taken /\ Taken \in Int
    BY <1>0, <2>1 DEF Taken
  <2>3. r \in lock.by => ~lock.armed
    BY <1>5 DEF Lifts
  <2>4. QED
    BY <1>0, <1>2, <2>1, <2>2, <2>3 DEF TypeOK
<1>6. CASE ~req[r].last
  <2>1. /\ lock' = lock /\ count' = (IF count <= 1 THEN 0 ELSE count - 1)
        /\ given' = IF req[r].old /\ count > 0 THEN given + 1 ELSE given
    BY <1>6 DEF Released
  <2>2. count' \in 0 .. Threshold - 1 /\ (lock.armed => count' = 0) /\ given' \in Nat
    BY <1>0, <1>2, <2>1
  <2>3. r \in lock.by => ~lock'.armed
    BY <1>2, <1>6, <2>1
  <2>4. /\ IsLive(req[r]) => Taken + given <= Taken' + given' + 1
        /\ ~IsLive(req[r]) => Taken + given <= Taken' + given'
    <3>1. CASE lock.armed
      BY <1>0, <1>2, <2>1, <3>1 DEF Taken
    <3>2. CASE ~lock.armed
      <4>1. Taken = count /\ Taken' = count'
        BY <2>1, <3>2 DEF Taken
      <4>2. CASE req[r].old
        BY <1>0, <1>3, <2>1, <4>1, <4>2
      <4>3. CASE ~req[r].old
        BY <1>0, <1>3, <2>1, <4>1, <4>3
      <4>4. QED
        BY <4>2, <4>3
    <3>3. QED
      BY <3>1, <3>2
  <2>5. QED
    BY <1>0, <2>1, <2>2, <2>3, <2>4
<1>7. QED
  BY <1>4, <1>5, <1>6

\* What g guesses and c live requests owe stays on record when c shrinks as much
\* as the record.
LEMMA Balance ==
  ASSUME NEW g \in Int, NEW c \in Int, NEW t \in Int, NEW t1 \in Int, g + c <= t
  PROVE  /\ t <= t1 + 1 => g + (c - 1) <= t1
         /\ t <= t1 => g + c <= t1
OBVIOUS

\* A release that reached the store, its request over or about to send it again.
LEMMA ReleasedInv ==
  ASSUME Inv, NEW r \in Req, req[r].pc = "verified", Released(r), NEW x \in Request,
         req' = [req EXCEPT ![r] = x],
         x.pc = "idle" \/ (x.pc = "verified" /\ x.right /\ x.old),
         guesses' = guesses, spent' \in 0 .. MaxTroubles
  PROVE  Inv'
<1>0. TypeOK
  BY DEF Inv
<1>1. /\ count' \in 0 .. Threshold - 1 /\ lock' \in Lock /\ given' \in Nat
      /\ lock' = NoLock \/ (lock' = lock /\ (lock.armed => count' = 0))
      /\ r \in lock.by => ~lock'.armed
      /\ IsLive(req[r]) => Taken + given <= Taken' + given' + 1
      /\ ~IsLive(req[r]) => Taken + given <= Taken' + given'
  BY ReleasedTaken
<1>2. ~IsLive(x)
  BY DEF IsLive
<1>3. /\ req' \in [Req -> Request] /\ Live' = Live \ {r}
      /\ req'[r] = x /\ \A q \in Req \ {r} : req'[q] = req[q]
  BY <1>0, <1>2, LiveChange
<1>4. TypeOK'
  BY <1>0, <1>1, <1>3 DEF TypeOK
<1>5. RightIsVerified'
  BY <1>3 DEF Inv, RightIsVerified
<1>6. ArmedBy'
  <2>1. CASE lock' = NoLock
    <3>1. lock'.armed = FALSE /\ lock'.guess = FALSE
      BY <2>1 DEF NoLock
    <3>2. QED
      BY <3>1 DEF ArmedBy
  <2>2. CASE lock' = lock /\ (lock.armed => count' = 0)
    <3>1. /\ lock.guess => lock.armed
          /\ \A q \in Req : lock.armed /\ q \in lock.by /\ req[q].pc # "idle" =>
                req[q].last /\ ~req[q].old /\ lock.guess = ~req[q].right
      BY DEF Inv, ArmedBy
    <3>2. \A q \in Req : lock'.armed /\ q \in lock'.by /\ req'[q].pc # "idle" =>
            req'[q].last /\ ~req'[q].old /\ lock'.guess = ~req'[q].right
      BY <1>1, <1>3, <2>2, <3>1
    <3>3. QED
      BY <2>2, <3>1, <3>2 DEF ArmedBy
  <2>3. QED
    BY <1>1, <2>1, <2>2
<1>7. OnRecord'
  <2>1. IsFiniteSet(Live) /\ guesses + Cardinality(Live) <= Taken + given
    BY DEF Inv, OnRecord
  <2>2. /\ IsFiniteSet(Live')
        /\ Cardinality(Live') = IF r \in Live THEN Cardinality(Live) - 1 ELSE Cardinality(Live)
    BY <1>3, <2>1, FS_RemoveElement
  <2>3. /\ Cardinality(Live) \in Int /\ guesses \in Int /\ guesses' = guesses
        /\ Taken + given \in Int /\ Taken' + given' \in Int
    BY <1>0, <1>4, <2>1, FS_CardinalityType, LockoutAssumption DEF TypeOK, Taken
  <2>4. /\ Taken + given <= (Taken' + given') + 1 =>
             guesses + (Cardinality(Live) - 1) <= Taken' + given'
        /\ Taken + given <= Taken' + given' => guesses + Cardinality(Live) <= Taken' + given'
    BY <2>1, <2>3, Balance, Zenon
  <2>5. CASE IsLive(req[r])
    <3>1. Cardinality(Live') = Cardinality(Live) - 1
      BY <2>2, <2>5 DEF Live
    <3>2. guesses' + Cardinality(Live') <= Taken' + given'
      BY <1>1, <2>3, <2>4, <2>5, <3>1
    <3>3. QED
      BY <2>2, <3>2 DEF OnRecord
  <2>6. CASE ~IsLive(req[r])
    <3>1. Cardinality(Live') = Cardinality(Live)
      BY <2>2, <2>6 DEF Live
    <3>2. guesses' + Cardinality(Live') <= Taken' + given'
      BY <1>1, <2>3, <2>4, <2>6, <3>1
    <3>3. QED
      BY <2>2, <3>2 DEF OnRecord
  <2>7. QED
    BY <2>5, <2>6
<1>8. QED
  BY <1>4, <1>5, <1>6, <1>7 DEF Inv

\* An attempt is given back: once, twice or not at all.
LEMMA ReleaseInv ==
  ASSUME Inv, NEW r \in Req, release(r)
  PROVE  Inv'
<1>0. TypeOK /\ req[r] \in Request /\ req[r].pc = "verified" /\ guesses' = guesses /\ req[r].right
  BY DEF Inv, TypeOK, release, RightIsVerified
<1>1. spent' = spent \/ Trouble => spent' \in 0 .. MaxTroubles
  BY <1>0, LockoutAssumption DEF TypeOK, Trouble
<1>2. CASE Released(r) /\ req' = [req EXCEPT ![r] = Idle] /\ UNCHANGED spent
  BY <1>0, <1>1, <1>2, IdleType, ReleasedInv
<1>3. CASE Trouble /\ Released(r) /\ req' = [req EXCEPT ![r].old = TRUE]
  <2> DEFINE x == [req[r] EXCEPT !.old = TRUE]
  <2>1. x \in Request /\ x.pc = "verified" /\ x.right = req[r].right /\ x.old = TRUE
    BY <1>0 DEF Request
  <2>2. req' = [req EXCEPT ![r] = x]
    BY <1>0, <1>3 DEF TypeOK
  <2> HIDE DEF x
  <2>3. QED
    BY <1>0, <1>1, <1>3, <2>1, <2>2, ReleasedInv
<1>4. CASE Trouble /\ req' = [req EXCEPT ![r] = Idle] /\ UNCHANGED <<count, lock, given>>
  BY <1>0, <1>1, <1>4, EndsInv
<1>5. QED
  BY <1>2, <1>3, <1>4 DEF release

\* Every step keeps the invariant.
LEMMA NextInv == Inv /\ [Next]_vars => Inv'
<1> SUFFICES ASSUME Inv, [Next]_vars PROVE Inv'
  OBVIOUS
<1>1. CASE UNCHANGED vars
  BY <1>1 DEF vars, Inv, TypeOK, RightIsVerified, ArmedBy, OnRecord, Live, IsLive, Taken
<1>2. QED
  BY <1>1, ReserveInv, CheckInv, CommitInv, ClearInv, ReleaseInv, AbandonedInv, WindowInv, LockEndsInv
     DEF Next

-----------------------------------------------------------------------------
(* Theorems.                                                                *)

\* The invariant holds throughout.
LEMMA Invariance == Spec => []Inv
BY InitInv, NextInv, PTL DEF Spec

\* The counter, the lock and the requests keep their types, for any number of
\* requests and any threshold.
THEOREM TypeCorrect == Spec => []TypeOK
<1>1. Inv => TypeOK
  BY DEF Inv
<1>2. QED
  BY <1>1, Invariance, PTL

\* However many requests interleave, a cycle admits no more wrong passwords than
\* the threshold and what earlier cycles gave back (reservePasswordAttempt counts
\* before the password is checked).
THEOREM BudgetOfGuesses == Spec => []GuessesBounded
<1>1. Inv => GuessesBounded
  <2> SUFFICES ASSUME Inv PROVE GuessesBounded
    OBVIOUS
  <2>1. /\ IsFiniteSet(Live) /\ guesses + Cardinality(Live) <= Taken + given
        /\ guesses \in Nat /\ given \in Nat
    BY DEF Inv, OnRecord, TypeOK
  <2>2. Cardinality(Live) \in Nat
    BY <2>1, FS_CardinalityType
  <2>3. Taken \in Int /\ Taken <= Threshold /\ Threshold \in Nat
    BY LockoutAssumption DEF Inv, TypeOK, Taken
  <2>4. QED
    BY <2>1, <2>2, <2>3 DEF GuessesBounded
<1>2. QED
  BY <1>1, Invariance, PTL

\* A lock armed by a guess is lifted by its expiry or a committed change only: a
\* release lifts the lock of its own request, and that one was no guess.
THEOREM GuessKeepsLock == Spec => LockHolds
<1> DEFINE A == lock.guess /\ ~lock'.armed => LockEnds \/ \E r \in Req : clear(r)
<1>1. Inv /\ [Next]_vars => [A]_vars
  <2> SUFFICES ASSUME Inv, Next, lock.guess, ~lock'.armed
               PROVE  LockEnds \/ \E r \in Req : clear(r)
    BY DEF vars
  <2>1. lock.armed
    BY DEF Inv, ArmedBy
  <2>2. ASSUME NEW r \in Req, release(r) PROVE FALSE
    <3>1. ~Lifts(r)
      BY <2>1, <2>2 DEF Inv, ArmedBy, RightIsVerified, release, Lifts
    <3>2. lock' = lock
      BY <2>2, <3>1 DEF release, Released
    <3>3. QED
      BY <2>1, <3>2
  <2>3. ASSUME NEW r \in Req, checkCurrentPassword(r) \/ Commit(r) PROVE FALSE
    BY <2>1, <2>3 DEF checkCurrentPassword, Commit
  <2>4. ~WindowEnds /\ ~AbandonedCount /\ \A r \in Req, right \in BOOLEAN : ~reserve(r, right)
    BY <2>1 DEF WindowEnds, AbandonedCount, reserve
  <2>5. QED
    BY <2>2, <2>3, <2>4 DEF Next
<1>2. QED
  BY <1>1, Invariance, PTL DEF Spec, LockHolds
=============================================================================

------------------------ MODULE LeaderElectionProof ------------------------
(***************************************************************************)
(* Mutual exclusion of the heartbeat-row leader election, for any number   *)
(* of processes and any intervals that satisfy Timely.                     *)
(*                                                                         *)
(* OneLeader is not inductive: it says nothing of the row.  The inductive  *)
(* invariant is TypeOK /\ AgeBound: a process that holds the role owns the *)
(* row, and the row is no older than the failed heartbeats since the last  *)
(* good one, plus the time since the last outcome.                         *)
(***************************************************************************)
EXTENDS LeaderElection, TLAPS

\* Multiplying by a period: one more failed heartbeat adds one period.
LEMMA OneMorePeriod ==
    ASSUME NEW k \in Nat, NEW d \in Nat
    PROVE  /\ k * d \in Nat
           /\ (k + 1) * d = k * d + d
  OBVIOUS

\* Fewer failed heartbeats than the grace stay within the grace's periods.
LEMMA PeriodsMonotone ==
    ASSUME NEW k \in Nat, NEW m \in Nat, NEW d \in Nat, k <= m
    PROVE  k * d <= m * d
  <1>1. PICK e \in Nat : m = k + e
    BY SMT
  <1>2. m * d = k * d + e * d /\ e * d \in Nat /\ k * d \in Nat
    BY <1>1, SMT
  <1> QED BY <1>2, SMT

\* Every variable keeps its type, whatever the timing.
THEOREM TypeCorrect == Spec => []TypeOK
  <1>1. Init => TypeOK
    BY TimingAssumption, BoundAssumption DEF Init, TypeOK, Phases
  <1>2. TypeOK /\ [Next]_vars => TypeOK'
    <2> SUFFICES ASSUME TypeOK, [Next]_vars PROVE TypeOK'
      OBVIOUS
    <2> USE TimingAssumption, BoundAssumption DEF TypeOK, Phases
    <2>1. CASE Advance
      BY <2>1 DEF Advance
    <2>2. ASSUME NEW p \in Process, Step(p) PROVE TypeOK'
      <3>1. CASE Start(p) BY <3>1 DEF Start
      <3>2. CASE TryBecomeLeader(p) BY <3>2 DEF TryBecomeLeader
      <3>3. CASE AcquireRefused(p) BY <3>3 DEF AcquireRefused
      <3>4. CASE AcquireError(p) BY <3>4 DEF AcquireError
      <3>5. CASE HeartbeatOk(p) BY <3>5 DEF HeartbeatOk
      <3>6. CASE HeartbeatLost(p) BY <3>6 DEF HeartbeatLost
      <3>7. CASE HeartbeatError(p) BY <3>7 DEF HeartbeatError, HeartbeatTick
      <3>8. CASE Shutdown(p) BY <3>8 DEF Shutdown
      <3>9. CASE ReleaseLeader(p) BY <3>9 DEF ReleaseLeader
      <3>10. CASE Crash(p) BY <3>10 DEF Crash
      <3>11. CASE PassStart(p) BY <3>11 DEF PassStart
      <3>12. CASE PassEnd(p) BY <3>12 DEF PassEnd
      <3>13. CASE OrphanEnd(p) BY <3>13 DEF OrphanEnd
      <3> QED BY <2>2, <3>1, <3>2, <3>3, <3>4, <3>5, <3>6, <3>7, <3>8, <3>9,
                 <3>10, <3>11, <3>12, <3>13 DEF Step
    <2>3. CASE UNCHANGED vars
      BY <2>3 DEF vars
    <2> QED BY <2>1, <2>2, <2>3 DEF Next
  <1> QED BY <1>1, <1>2, PTL DEF Spec

-----------------------------------------------------------------------------
\* The inductive invariant.
IInv == TypeOK /\ AgeBound

\* Under Timely nobody can take the row of a process that holds the role.
LEMMA HeldRowIsSafe ==
    ASSUME Timely, IInv, NEW p \in Process, NEW q \in Process,
           Holds(q), CanTake(p)
    PROVE  p = q
  <1> USE TimingAssumption, HolderAssumption DEF IInv, TypeOK, Holds
  <1>1. holder = q
    BY DEF AgeBound
  <1>2. age <= TakeoverAfter
    <2>0. Period \in Nat /\ HeartbeatGrace * Period \in Nat
      BY SMT DEF Period
    <2>1. CASE phase[q] = "leading"
      <3>1. failures[q] \in Nat /\ failures[q] + 1 <= HeartbeatGrace
        BY <2>1 DEF AgeBound
      <3>2. (failures[q] + 1) * Period <= HeartbeatGrace * Period
        BY <2>0, <3>1, PeriodsMonotone
      <3>3. (failures[q] + 1) * Period = failures[q] * Period + Period
            /\ failures[q] * Period \in Nat
        BY <2>0, <3>1, OneMorePeriod
      <3>4. age <= failures[q] * Period + timer[q] /\ timer[q] <= Period
        BY <2>1 DEF AgeBound
      <3>5. HeartbeatGrace * Period + StopDelay <= TakeoverAfter
        BY DEF Timely, Period
      <3> QED BY <2>0, <3>2, <3>3, <3>4, <3>5
    <2>2. CASE phase[q] = "stopping"
      <3>1. age <= HeartbeatGrace * Period + timer[q] /\ timer[q] <= StopDelay
        BY <2>2 DEF AgeBound
      <3>2. HeartbeatGrace * Period + StopDelay <= TakeoverAfter
        BY DEF Timely, Period
      <3> QED BY <2>0, <3>1, <3>2
    <2> QED BY <2>1, <2>2
  <1>3. holder \in {NoHolder, p}
    BY <1>2 DEF CanTake
  <1> QED BY <1>1, <1>3

\* A leader that stops now has used up no more than its grace.
LEMMA LeaderWithinGrace ==
    ASSUME IInv, NEW p \in Process, phase[p] = "leading"
    PROVE  /\ failures[p] * Period \in Nat
           /\ (failures[p] + 1) * Period = failures[p] * Period + Period
           /\ failures[p] * Period + Period <= HeartbeatGrace * Period
           /\ age <= failures[p] * Period + Period
  <1> USE TimingAssumption DEF IInv, TypeOK
  <1>1. Period \in Nat /\ HeartbeatGrace * Period \in Nat
    BY SMT DEF Period
  <1>2. failures[p] \in Nat /\ failures[p] + 1 <= HeartbeatGrace
    BY DEF AgeBound
  <1>3. (failures[p] + 1) * Period <= HeartbeatGrace * Period
    BY <1>1, <1>2, PeriodsMonotone
  <1>4. (failures[p] + 1) * Period = failures[p] * Period + Period
        /\ failures[p] * Period \in Nat
    BY <1>1, <1>2, OneMorePeriod
  <1>5. age <= failures[p] * Period + timer[p] /\ timer[p] <= Period
    BY DEF AgeBound
  <1> QED BY <1>1, <1>3, <1>4, <1>5

\* No step breaks AgeBound while the intervals are Timely.
LEMMA AgeBoundStep ==
    ASSUME Timely, IInv, TypeOK', [Next]_vars
    PROVE  AgeBound'
  <1> USE TimingAssumption, HolderAssumption DEF IInv
  <1>0. Period \in Nat /\ Period' = Period /\ HeartbeatGrace * Period \in Nat
        /\ 0 * Period = 0
    BY SMT DEF Period
  <1>1. CASE Advance
    <2> SUFFICES ASSUME NEW q \in Process,
                        phase'[q] = "leading" \/ phase'[q] = "stopping"
                 PROVE  /\ phase'[q] = "leading" =>
                              /\ holder' = q
                              /\ failures'[q] < HeartbeatGrace
                              /\ timer'[q] <= Period
                              /\ age' <= failures'[q] * Period + timer'[q]
                        /\ phase'[q] = "stopping" =>
                              /\ holder' = q
                              /\ timer'[q] <= StopDelay
                              /\ age' <= HeartbeatGrace * Period + timer'[q]
      BY <1>0 DEF AgeBound
    <2>1. age \in Nat /\ age' \in Nat /\ age' <= age + 1
      BY <1>1 DEF Advance, TypeOK
    <2>2. phase' = phase /\ holder' = holder /\ failures' = failures /\ ~Due(q)
      BY <1>1 DEF Advance
    <2>3. CASE phase[q] = "leading"
      <3>1. timer[q] \in Nat /\ timer[q] < Period /\ timer'[q] = timer[q] + 1
        BY <1>1, <2>2, <2>3 DEF Advance, Due, TimerLimit, TypeOK, Period
      <3>2. failures[q] * Period \in Nat
        BY <2>3, LeaderWithinGrace
      <3>3. /\ holder = q /\ failures[q] < HeartbeatGrace
            /\ age <= failures[q] * Period + timer[q]
        BY <2>3 DEF AgeBound
      <3> QED BY <1>0, <2>1, <2>2, <2>3, <3>1, <3>2, <3>3
    <2>4. CASE phase[q] = "stopping"
      <3>1. timer[q] \in Nat /\ timer[q] < StopDelay /\ timer'[q] = timer[q] + 1
        BY <1>1, <2>2, <2>4 DEF Advance, Due, TimerLimit, TypeOK
      <3>2. holder = q /\ age <= HeartbeatGrace * Period + timer[q]
        BY <2>4 DEF AgeBound
      <3> QED BY <1>0, <2>1, <2>2, <2>4, <3>1, <3>2
    <2> QED BY <2>2, <2>3, <2>4
  <1>2. ASSUME NEW p \in Process, Step(p) PROVE AgeBound'
    <2>1. CASE Start(p)
      BY <2>1, <1>0 DEF Start, AgeBound, TypeOK
    <2>2. CASE TryBecomeLeader(p)
      <3>1. \A q \in Process : Holds(q) => q = p
        BY <2>2, HeldRowIsSafe DEF TryBecomeLeader
      <3> QED BY <2>2, <3>1, <1>0 DEF TryBecomeLeader, AgeBound, TypeOK, Holds
    <2>3. CASE AcquireRefused(p)
      BY <2>3, <1>0 DEF AcquireRefused, Attempting, AgeBound, TypeOK
    <2>4. CASE AcquireError(p)
      <3>1. CanTake(p) => \A q \in Process : ~Holds(q)
        BY <2>4, HeldRowIsSafe DEF AcquireError, Attempting, Holds
      <3> QED BY <2>4, <3>1, <1>0 DEF AcquireError, Attempting, AgeBound, TypeOK, Holds
    <2>5. CASE HeartbeatOk(p)
      BY <2>5, <1>0 DEF HeartbeatOk, HeartbeatTick, AgeBound, TypeOK
    <2>6. CASE HeartbeatLost(p)
      BY <2>6 DEF HeartbeatLost, HeartbeatTick, AgeBound
    <2>7. CASE HeartbeatError(p)
      <3>1. phase[p] = "leading" /\ holder = p /\ failures[p] < HeartbeatGrace
        BY <2>7 DEF HeartbeatError, HeartbeatTick, AgeBound
      <3>2. \A q \in Process : Holds(q) => q = p
        BY <3>1 DEF AgeBound, Holds
      <3>3. /\ failures[p] * Period \in Nat
            /\ (failures[p] + 1) * Period = failures[p] * Period + Period
            /\ failures[p] * Period + Period <= HeartbeatGrace * Period
            /\ age <= failures[p] * Period + Period
        BY <3>1, LeaderWithinGrace
      <3>4. /\ holder' = p /\ age' <= age /\ timer'[p] = 0
            /\ failures'[p] = failures[p] + 1
            /\ age \in Nat /\ failures[p] \in Nat /\ age' \in Nat
        BY <2>7, <3>1 DEF HeartbeatError, TypeOK
      <3>5. phase'[p] = "leading" => failures'[p] < HeartbeatGrace
        BY <2>7, <3>4 DEF HeartbeatError, TypeOK
      <3>6. \A q \in Process : q # p => phase'[q] \notin {"leading", "stopping"}
        BY <2>7, <3>2 DEF HeartbeatError, Holds, TypeOK
      <3>7. age' <= failures'[p] * Period + timer'[p]
            /\ age' <= HeartbeatGrace * Period + timer'[p]
        BY <1>0, <3>3, <3>4
      <3>8. timer'[p] <= Period /\ timer'[p] <= StopDelay
        BY <1>0, <3>4
      <3> QED BY <1>0, <3>4, <3>5, <3>6, <3>7, <3>8 DEF AgeBound
    <2>8. CASE Shutdown(p)
      <3>1. CASE phase[p] = "leading"
        <4>1. /\ failures[p] * Period \in Nat
              /\ failures[p] * Period + Period <= HeartbeatGrace * Period
              /\ age <= failures[p] * Period + Period
          BY <3>1, LeaderWithinGrace
        <4>2. age \in Nat /\ age <= HeartbeatGrace * Period
          BY <1>0, <4>1 DEF TypeOK
        <4>3. /\ holder' = p /\ age' = age /\ timer'[p] = 0 /\ phase'[p] = "stopping"
              /\ \A q \in Process : q # p => phase'[q] \notin {"leading", "stopping"}
          BY <2>8, <3>1 DEF Shutdown, AgeBound, TypeOK
        <4> QED BY <1>0, <4>2, <4>3 DEF AgeBound
      <3>2. CASE phase[p] # "leading"
        BY <2>8, <3>2, <1>0 DEF Shutdown, AgeBound, TypeOK
      <3> QED BY <3>1, <3>2
    <2>9. CASE ReleaseLeader(p)
      <3>1. \A q \in Process : q # p => phase'[q] \notin {"leading", "stopping"}
        BY <2>9 DEF ReleaseLeader, AgeBound, TypeOK
      <3>2. phase'[p] \notin {"leading", "stopping"}
        BY <2>9 DEF ReleaseLeader, TypeOK
      <3> QED BY <3>1, <3>2 DEF AgeBound
    <2>10. CASE Crash(p)
      BY <2>10, <1>0 DEF Crash, AgeBound, TypeOK
    <2>11. CASE PassStart(p) BY <2>11, <1>0 DEF PassStart, AgeBound
    <2>12. CASE PassEnd(p) BY <2>12, <1>0 DEF PassEnd, AgeBound
    <2>13. CASE OrphanEnd(p) BY <2>13, <1>0 DEF OrphanEnd, AgeBound
    <2> QED BY <1>2, <2>1, <2>2, <2>3, <2>4, <2>5, <2>6, <2>7, <2>8, <2>9,
               <2>10, <2>11, <2>12, <2>13 DEF Step
  <1>3. CASE UNCHANGED vars
    BY <1>3, <1>0 DEF vars, AgeBound
  <1> QED BY <1>1, <1>2, <1>3 DEF Next

\* A process that holds the role owns a row whose age is bounded by its
\* failed heartbeats (heartbeatLeader's grace against leaderTakeoverAfter).
THEOREM HeldRowAge == Timely => (Spec => []AgeBound)
  <1> SUFFICES ASSUME Timely PROVE Spec => []AgeBound
    OBVIOUS
  <1>1. Init => AgeBound
    BY DEF Init, AgeBound
  <1>2. TypeOK /\ TypeOK' /\ AgeBound /\ [Next]_vars => AgeBound'
    BY AgeBoundStep DEF IInv
  <1>3. Spec => []TypeOK
    BY TypeCorrect
  <1> QED BY <1>1, <1>2, <1>3, PTL DEF Spec

\* Mutual exclusion: with intervals like the code's, at most one process is
\* between winning the row and having released it.
THEOREM MutualExclusion == Timely => (Spec => []OneLeader)
  <1> SUFFICES ASSUME Timely PROVE Spec => []OneLeader
    OBVIOUS
  <1>1. AgeBound => OneLeader
    BY DEF AgeBound, OneLeader, Holds
  <1>2. Spec => []AgeBound
    BY HeldRowAge
  <1> QED BY <1>1, <1>2, PTL
=============================================================================

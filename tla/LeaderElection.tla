--------------------------- MODULE LeaderElection ---------------------------
(***************************************************************************)
(* Heartbeat-row leader election between Nexara processes                  *)
(* (cmd/nexara/main.go, migrations/000047).  One row of the table          *)
(* leader_election, keyed by the role, names the holder and the database   *)
(* time of its last heartbeat.  A process that wins the row runs the       *)
(* role's engines until its heartbeat goroutine gives up or the process is *)
(* told to stop.                                                           *)
(*                                                                         *)
(* Time is discrete.  The row keeps its AGE on the database clock (the     *)
(* only clock the takeover test uses), saturating once it is old enough to *)
(* be stolen.  Each process keeps one timer, whose meaning depends on its  *)
(* phase: time since the last refused attempt (follower), since the        *)
(* outcome of the last heartbeat (leading), since runCtx was cancelled     *)
(* (stopping).  ExecDelay and StopDelay bound what the code leaves to the  *)
(* database driver and the Go scheduler: how long after its tick a         *)
(* heartbeat statement is answered, and how long after the cancel the      *)
(* release has run.                                                        *)
(*                                                                         *)
(* holderID is drawn afresh by every process, so a restarted process is a  *)
(* new member of Process; one that crashed or stopped never comes back.    *)
(***************************************************************************)
EXTENDS Integers

CONSTANTS
    Process,            \* processes, one holder id each
    NoHolder,           \* the row does not exist
    HeartbeatInterval,  \* leaderHeartbeatInterval
    TakeoverAfter,      \* leaderTakeoverAfter
    RetryInterval,      \* leaderRetryInterval
    HeartbeatGrace,     \* leaderHeartbeatGrace
    ExecDelay,          \* longest time from a tick to the statement's answer
    StopDelay,          \* longest time from the cancel to the release
    MaxErrors,          \* bound: database errors in one behaviour
    MaxOrphans          \* bound: passes of ended leaderships, per process

ASSUME HolderAssumption == NoHolder \notin Process
ASSUME TimingAssumption ==
    /\ HeartbeatInterval \in Nat \ {0}
    /\ TakeoverAfter \in Nat
    /\ RetryInterval \in Nat
    /\ HeartbeatGrace \in Nat \ {0}
    /\ ExecDelay \in Nat
    /\ StopDelay \in Nat
ASSUME BoundAssumption == MaxErrors \in Nat /\ MaxOrphans \in Nat

VARIABLES
    holder,     \* leader_election.holder_id, or NoHolder
    age,        \* database time since leader_election.last_heartbeat
    phase,      \* where each process stands in runWithLeaderRetry
    timer,      \* see above
    failures,   \* consecutiveFailures of heartbeatLeader
    stopAsked,  \* the process context was cancelled (SIGTERM)
    inFlight,   \* the engine's in-flight guard: a pass of this leadership runs
    orphans,    \* passes still running that an earlier leadership started
    errors      \* database errors so far (bounded by MaxErrors)

vars == <<holder, age, phase, timer, failures, stopAsked, inFlight, orphans, errors>>

Phases == {"new", "follower", "leading", "stopping", "down"}

\* run() and heartbeatLeader() are both alive, or being waited for.
Holds(p) == phase[p] \in {"leading", "stopping"}

(* The row, the loops of runWithLeaderRetry and the guards of the engines   *)
(* keep to their values; a pass is never ended twice.                       *)
TypeOK ==
    /\ holder \in Process \cup {NoHolder}
    /\ age \in 0 .. TakeoverAfter + 1
    /\ phase \in [Process -> Phases]
    /\ timer \in [Process -> Nat]
    /\ failures \in [Process -> Nat]
    /\ stopAsked \in [Process -> BOOLEAN]
    /\ inFlight \in [Process -> BOOLEAN]
    /\ orphans \in [Process -> 0 .. MaxOrphans]
    /\ errors \in 0 .. MaxErrors

Init ==
    /\ holder = NoHolder
    /\ age = 0
    /\ phase = [p \in Process |-> "new"]
    /\ timer = [p \in Process |-> 0]
    /\ failures = [p \in Process |-> 0]
    /\ stopAsked = [p \in Process |-> FALSE]
    /\ inFlight = [p \in Process |-> FALSE]
    /\ orphans = [p \in Process |-> 0]
    /\ errors = 0

-----------------------------------------------------------------------------
(* Time.  A due heartbeat and a due release come before the clock moves on. *)

Due(p) ==
    \/ phase[p] = "leading"  /\ timer[p] >= HeartbeatInterval + ExecDelay
    \/ phase[p] = "stopping" /\ timer[p] >= StopDelay

\* A timer stops at the largest value its phase can tell apart.
TimerLimit(p) ==
    CASE phase[p] = "leading"  -> HeartbeatInterval + ExecDelay
      [] phase[p] = "stopping" -> StopDelay
      [] OTHER                 -> RetryInterval

Advance ==
    /\ \A p \in Process : ~Due(p)
    /\ age' = IF age <= TakeoverAfter THEN age + 1 ELSE age
    /\ timer' = [p \in Process |->
                    IF timer[p] < TimerLimit(p) THEN timer[p] + 1 ELSE timer[p]]
    /\ UNCHANGED <<holder, phase, failures, stopAsked, inFlight, orphans, errors>>

-----------------------------------------------------------------------------
(* Acquiring the role.                                                      *)

\* A process starts; its first attempt is immediate.
Start(p) ==
    /\ phase[p] = "new"
    /\ phase' = [phase EXCEPT ![p] = "follower"]
    /\ timer' = [timer EXCEPT ![p] = RetryInterval]
    /\ UNCHANGED <<holder, age, failures, stopAsked, inFlight, orphans, errors>>

\* Mutants: a row may be taken one unit of time too early, or only when it
\* was released.
CanTakeEarly(p) == holder \in {NoHolder, p} \/ age >= TakeoverAfter
CanTakeReleased(p) == holder \in {NoHolder, p}

\* The WHERE of the upsert: no row yet, our own row, or a stale one.
CanTake(p) == holder \in {NoHolder, p} \/ age > TakeoverAfter

Attempting(p) ==
    /\ phase[p] = "follower"
    /\ ~stopAsked[p]
    /\ timer[p] >= RetryInterval

TryBecomeLeader(p) ==
    /\ Attempting(p)
    /\ CanTake(p)
    /\ holder' = p
    /\ age' = 0
    /\ phase' = [phase EXCEPT ![p] = "leading"]
    /\ timer' = [timer EXCEPT ![p] = 0]
    /\ failures' = [failures EXCEPT ![p] = 0]
    /\ UNCHANGED <<stopAsked, inFlight, orphans, errors>>

\* pgx.ErrNoRows: a fresh row of another process.
AcquireRefused(p) ==
    /\ Attempting(p)
    /\ ~CanTake(p)
    /\ timer' = [timer EXCEPT ![p] = 0]
    /\ UNCHANGED <<holder, age, phase, failures, stopAsked, inFlight, orphans, errors>>

\* The statement failed, before or after the database applied it.
AcquireError(p) ==
    /\ Attempting(p)
    /\ errors < MaxErrors
    /\ errors' = errors + 1
    /\ \/ CanTake(p) /\ holder' = p /\ age' = 0
       \/ UNCHANGED <<holder, age>>
    /\ timer' = [timer EXCEPT ![p] = 0]
    /\ UNCHANGED <<phase, failures, stopAsked, inFlight, orphans>>

-----------------------------------------------------------------------------
(* Keeping the role: heartbeatLeader.                                       *)

\* Ticks come every HeartbeatInterval; an answer that was late by up to
\* ExecDelay leaves the next tick that much sooner.
HeartbeatTick(p) ==
    /\ phase[p] = "leading"
    /\ timer[p] + ExecDelay >= HeartbeatInterval

HeartbeatOk(p) ==
    /\ HeartbeatTick(p)
    /\ holder = p
    /\ age' = 0
    /\ timer' = [timer EXCEPT ![p] = 0]
    /\ failures' = [failures EXCEPT ![p] = 0]
    /\ UNCHANGED <<holder, phase, stopAsked, inFlight, orphans, errors>>

\* Mutant: the number of updated rows is not looked at.
HeartbeatLostIgnored(p) ==
    /\ HeartbeatTick(p)
    /\ holder # p
    /\ timer' = [timer EXCEPT ![p] = 0]
    /\ failures' = [failures EXCEPT ![p] = 0]
    /\ UNCHANGED <<holder, age, phase, stopAsked, inFlight, orphans, errors>>

\* Zero rows updated: another process took the role over.
HeartbeatLost(p) ==
    /\ HeartbeatTick(p)
    /\ holder # p
    /\ phase' = [phase EXCEPT ![p] = "stopping"]
    /\ timer' = [timer EXCEPT ![p] = 0]
    /\ failures' = [failures EXCEPT ![p] = 0]
    /\ UNCHANGED <<holder, age, stopAsked, inFlight, orphans, errors>>

\* Mutant: the grace is one error too long.
HeartbeatErrorLenient(p) ==
    /\ HeartbeatTick(p)
    /\ errors < MaxErrors
    /\ errors' = errors + 1
    /\ \/ holder = p /\ age' = 0
       \/ UNCHANGED age
    /\ failures' = [failures EXCEPT ![p] = failures[p] + 1]
    /\ phase' = [phase EXCEPT ![p] =
                    IF failures[p] + 1 > HeartbeatGrace THEN "stopping" ELSE "leading"]
    /\ timer' = [timer EXCEPT ![p] = 0]
    /\ UNCHANGED <<holder, stopAsked, inFlight, orphans>>

\* An error; the row may have been touched all the same.  The third error
\* in a row ends the leadership.
HeartbeatError(p) ==
    /\ HeartbeatTick(p)
    /\ errors < MaxErrors
    /\ errors' = errors + 1
    /\ \/ holder = p /\ age' = 0
       \/ UNCHANGED age
    /\ failures' = [failures EXCEPT ![p] = failures[p] + 1]
    /\ phase' = [phase EXCEPT ![p] =
                    IF failures[p] + 1 >= HeartbeatGrace THEN "stopping" ELSE "leading"]
    /\ timer' = [timer EXCEPT ![p] = 0]
    /\ UNCHANGED <<holder, stopAsked, inFlight, orphans>>

-----------------------------------------------------------------------------
(* Giving the role up.                                                      *)

\* SIGTERM.  A follower leaves the loop, a leader's runCtx is cancelled.
Shutdown(p) ==
    /\ phase[p] \in {"follower", "leading", "stopping"}
    /\ ~stopAsked[p]
    /\ stopAsked' = [stopAsked EXCEPT ![p] = TRUE]
    /\ phase' = [phase EXCEPT ![p] =
                    CASE phase[p] = "follower" -> "down"
                      [] phase[p] = "leading"  -> "stopping"
                      [] OTHER                 -> phase[p]]
    /\ timer' = [timer EXCEPT ![p] = IF phase[p] = "stopping" THEN timer[p] ELSE 0]
    /\ UNCHANGED <<holder, age, failures, inFlight, orphans, errors>>

\* wg.Wait returned: run() does not wait for the engine goroutines, so a pass
\* in flight outlives the leadership.  Then the row is deleted, if it is ours
\* and the statement goes through, and the loop tries again at once.
ReleaseLeader(p) ==
    /\ phase[p] = "stopping"
    /\ \/ holder' = (IF holder = p THEN NoHolder ELSE holder) /\ UNCHANGED errors
       \/ errors < MaxErrors /\ errors' = errors + 1 /\ UNCHANGED holder
    /\ ~inFlight[p] \/ orphans[p] < MaxOrphans
    /\ orphans' = [orphans EXCEPT ![p] = IF inFlight[p] THEN orphans[p] + 1 ELSE orphans[p]]
    /\ inFlight' = [inFlight EXCEPT ![p] = FALSE]
    /\ phase' = [phase EXCEPT ![p] = IF stopAsked[p] THEN "down" ELSE "follower"]
    /\ timer' = [timer EXCEPT ![p] = RetryInterval]
    /\ failures' = [failures EXCEPT ![p] = 0]
    /\ UNCHANGED <<age, stopAsked>>

\* A hard kill: everything of the process is gone, its row is not.
Crash(p) ==
    /\ phase[p] \in {"follower", "leading", "stopping"}
    /\ phase' = [phase EXCEPT ![p] = "down"]
    /\ timer' = [timer EXCEPT ![p] = 0]
    /\ inFlight' = [inFlight EXCEPT ![p] = FALSE]
    /\ orphans' = [orphans EXCEPT ![p] = 0]
    /\ UNCHANGED <<holder, age, failures, stopAsked, errors>>

-----------------------------------------------------------------------------
(* One engine of the leader.                                                *)

\* The engine's goroutine selects between its ticker and ctx.Done(), so a
\* tick that is ready may still win after the cancel.
PassStart(p) ==
    /\ Holds(p)
    /\ ~inFlight[p]
    /\ inFlight' = [inFlight EXCEPT ![p] = TRUE]
    /\ UNCHANGED <<holder, age, phase, timer, failures, stopAsked, orphans, errors>>

PassEnd(p) ==
    /\ inFlight[p]
    /\ inFlight' = [inFlight EXCEPT ![p] = FALSE]
    /\ UNCHANGED <<holder, age, phase, timer, failures, stopAsked, orphans, errors>>

\* Mutant: the end of a pass is counted twice.
OrphanEndTwice(p) ==
    /\ orphans[p] > 0
    /\ orphans' = [orphans EXCEPT ![p] = orphans[p] - 2]
    /\ UNCHANGED <<holder, age, phase, timer, failures, stopAsked, inFlight, errors>>

OrphanEnd(p) ==
    /\ orphans[p] > 0
    /\ orphans' = [orphans EXCEPT ![p] = orphans[p] - 1]
    /\ UNCHANGED <<holder, age, phase, timer, failures, stopAsked, inFlight, errors>>

-----------------------------------------------------------------------------
Step(p) ==
    \/ Start(p) \/ TryBecomeLeader(p) \/ AcquireRefused(p) \/ AcquireError(p)
    \/ HeartbeatOk(p) \/ HeartbeatLost(p) \/ HeartbeatError(p)
    \/ Shutdown(p) \/ ReleaseLeader(p) \/ Crash(p)
    \/ PassStart(p) \/ PassEnd(p) \/ OrphanEnd(p)

Next == Advance \/ \E p \in Process : Step(p)

(* The clock runs, and a live process keeps looping: it answers its ticks,  *)
(* retries and releases.  Nothing obliges an operator to stop or start one. *)
Fairness ==
    /\ WF_vars(Advance)
    /\ \A p \in Process :
        /\ WF_vars(TryBecomeLeader(p) \/ AcquireRefused(p) \/ AcquireError(p))
        /\ WF_vars(HeartbeatOk(p) \/ HeartbeatLost(p) \/ HeartbeatError(p))
        /\ WF_vars(ReleaseLeader(p))
        /\ WF_vars(PassEnd(p))
        /\ WF_vars(OrphanEnd(p))

Spec == Init /\ [][Next]_vars
FairSpec == Spec /\ Fairness

-----------------------------------------------------------------------------
(* The timing the constants of the code are chosen for: a leader whose      *)
(* every heartbeat fails has given up before its row may be stolen.         *)
Timely == HeartbeatGrace * (HeartbeatInterval + ExecDelay) + StopDelay <= TakeoverAfter

(* "Only one instance across the cluster runs the collector or scheduler at *)
(* any given time" (main.go:321), read as: at most one process is between   *)
(* winning the row and having released it.                                  *)
OneLeader == \A p, q \in Process : Holds(p) /\ Holds(q) => p = q

(* The same sentence, read of the engines' passes: no pass of one process   *)
(* runs beside a pass of another.  run() returns without waiting for the    *)
(* pass in flight.                                                          *)
Running(p) == inFlight[p] \/ orphans[p] > 0
OnePassRuns == \A p, q \in Process : Running(p) /\ Running(q) => p = q

(* What keeps the row fresh: it ages only between heartbeats that failed.   *)
Period == HeartbeatInterval + ExecDelay
AgeBound ==
    \A p \in Process :
        /\ phase[p] = "leading" =>
              /\ holder = p
              /\ failures[p] < HeartbeatGrace
              /\ timer[p] <= Period
              /\ age <= failures[p] * Period + timer[p]
        /\ phase[p] = "stopping" =>
              /\ holder = p
              /\ timer[p] <= StopDelay
              /\ age <= HeartbeatGrace * Period + timer[p]

(* A process that lost its row gives the role up.                           *)
LostRoleIsGivenUp ==
    \A p \in Process : (Holds(p) /\ holder # p) ~> ~Holds(p)

(* While some process is up and asked for the role, the role does not stay  *)
(* vacant: takeover does not depend on what became of the last leader.      *)
RoleIsTakenUp ==
    \A p \in Process :
        phase[p] = "follower" ~> (phase[p] = "down" \/ \E q \in Process : Holds(q))
=============================================================================

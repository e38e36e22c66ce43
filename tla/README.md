# Formal models of Nexara

Nexara manages Proxmox clusters. Several identical processes share one
PostgreSQL database; all of them serve the API, and by leader election one of
them runs the *collector* (reads clusters into tables) and one the *scheduler*
(a table of engines, each a periodic pass over database rows). The engines act
on clusters over HTTP and SSH, both of which fail, and a process may be killed
at any time. What has to survive is in the rows.

This directory holds TLA+ models of the parts where that is hardest to get
right, TLC configurations that check them on small instances, and TLAPS proofs.

    tlc -workers 2 -config RollingFaults.cfg MCRollingUpdate   # one run
    tlapm RollingUpdateProof.tla                               # one proof

`PROJECT.json` lists the runs, the lines each definition models, the mutants
that show each property can fail, the findings and the hazards.

## Inventory

| Component | State | Operations | What is hard | Correct means | Status |
| --- | --- | --- | --- | --- | --- |
| Leader election (`cmd/nexara/main.go`) | the `leader_election` row; per process a retry loop, a heartbeat goroutine, engine passes in flight | acquire or steal, heartbeat, step down, release | clocks, statements that hang or fail after they were applied, hard kills, passes that outlive the leadership | one leader; a dead leader is replaced | modelled, proved |
| Rolling-update engine (`internal/rolling/orchestrator.go`) | job and node rows; what the job holds: DRS and CRS paused, HA rules off, passthrough guests shut down | tick: pause balancers, advance each node, start the next; SSH goroutine; fail, release, sweep | a tick of minutes works on copies while requests, SSH goroutines and other releases write the same rows; crash between acting on a cluster and recording it | nothing held is forgotten; no reboot under a guest; the job ends | modelled; life cycle, parallelism and completion proved, and under stated hypotheses what is given back and what reboots spare |
| Its statements (`queries/rolling_updates.sql`) | the two tables | guarded and unguarded updates | which transitions are guarded | one outcome, never taken back | modelled, proved |
| Its handlers (`internal/api/handlers/rolling_update.go`) | as above | create, start, pause, resume, cancel, skip, confirm | run beside the tick; cancel releases in a goroutine | as above | partly: no second job |
| Pre-flight (`rolling/ha_check.go`, `capacity_check.go`) | none | analyse rules and capacity per batch | arithmetic over batches | agrees with a plain definition | planned |
| Migration (`internal/migration`, `handlers/migrations.go`) | `migration_jobs` row, a goroutine per execution, slots, task rows | check, execute, poll, move disks, cancel, stop | no statement but the cancel looks at the status it replaces; lost task records; two writers of a task row | a completed job moved everything; rows settle | modelled, safety proved |
| Scheduled tasks (`internal/scheduler`, `handlers/schedules.go`) | `scheduled_tasks` rows, passes | claim, dispatch, record, finish, park, reconcile, edit | a claim that goes stale under a live pass; a run settled from another engine's rows | a row is run by one pass; the outcome is its own | one task modelled, safety proved; the scheduler's other passes not |
| Alerts (`internal/notifications`, `handlers/alerts.go`) | `alert_history` rows | evaluate, fire, escalate, acknowledge, resolve | a pass of many statements beside operators and stops | one open alert per rule and object; every step told | one rule modelled, safety proved |
| Notification dispatch (`notifications`, `handlers/notification_dlq.go`) | token bucket, send goroutines, `notification_dlq` | dispatch, retry, write, replay, dismiss | contexts that end while the retries run | a notice arrives or is in the queue | modelled |
| Sessions (`internal/auth/session.go`, `handlers/auth.go`, `totp.go`, `users.go`, `auth_sessions.go`) | `users` epoch, `sessions` rows, cookies | sign in, refresh, sign out, sign out everywhere, change password, deactivate | sign-ins that checked a credential before a revocation and insert after it; tabs that refresh at once | what ends sessions ends all of them; nothing else does | modelled for one user, proved |
| Password lockout (`handlers/password_lockout.go`) | counter and lock in Redis | reserve, release, clear | attempts counted before they are checked, given back after expiry | a bounded number of guesses | modelled, proved |
| Collector (`internal/collector`) | tables of cluster state | read, reconcile task rows | second writer of rows others own | settles each row once | only its writers of `task_history` |
| DRS (`internal/drs`) | history rows, cooldowns | score, plan, migrate | rules, partial execution | never worse, never against a rule | planned |
| Event bus, WebSockets (`internal/events`, `internal/ws`) | subscriptions | publish, fan out | slow consumers | delivery per subscription | candidate |
| Guest tools, virtio-win | staged installs, downloads | pass, reconcile | long external work | each install settles | candidate |
| Proxmox client, reports, CVE scan, syslog, UPS, Veeam, crypto, API registry, generated `db`, frontend | - | - | - | - | not modelled: see the end |

Interaction: a handler and an engine share nothing but rows and the cluster.
The scheduler's leader runs every engine's pass, at most one at a time per
engine and leadership: rolling updates every 15 seconds, alerts and scheduled
tasks every minute. The rolling-update tick launches one SSH goroutine per node
of an automatic job; `failNode`, `CancelJob`, `CreateJob` and the sweep all
reach `releaseJobState`, each in its own goroutine. A migration runs in a
goroutine of the process that took the request, whoever leads. Migrations and
scheduled tasks name Proxmox tasks whose `task_history` rows the collector
settles too.

## Modules

| Module | What it is |
| --- | --- |
| `LeaderElection` | the election with its timing; `MCLeaderElection` for TLC; `LeaderElectionProof` |
| `JobLifecycle` | abstract: what a job row promises to whoever watches it |
| `RollingUpdate` | the engine, its handlers, its rows and the cluster, on one job; instantiates `JobLifecycle`; `MCRollingUpdate` for TLC |
| `RollingUpdateProof` | type correctness of `RollingUpdate`; it implements `JobLifecycle`; `RulesStayOff`; `RebootSparesGuests` of in-place jobs |
| `RollingTickProof` | `ParallelismKept`, `CompletedMeansDone`, `BalancersReleased`, `RulesReleased`, `GuestsRestarted` and `OneByOneSparesGuests` for one tick at a time, each under the hypotheses it needs; `RebootSparesGuests` of one node until three calls have failed |
| `MigrationJobs` | one migration job with its executions, tasks and the collector; `MCMigrationJobs`; `MigrationJobsProof` |
| `ScheduledTasks` | schedules, two scheduler processes, tasks and the collector; `MCScheduledTasks`; `ScheduledTasksProof` |
| `Sessions` | one user's sessions and browsers; `MCSessions`; `SessionsProof` |
| `PasswordLockout` | the budget of password guesses; `MCPasswordLockout`; `PasswordLockoutProof` |
| `AlertEngine` | one rule on one resource; `MCAlertEngine`; `AlertEngineProof` |
| `NotificationDispatch` | one channel, from dispatch to dead-letter queue |

### LeaderElection

`holder` and `age` are the row, aged on the database clock (the only clock the
takeover test uses). Each process has a phase in `runWithLeaderRetry` and one
timer. One action per outcome of each statement: `TryBecomeLeader`,
`AcquireRefused`, `AcquireError`, `HeartbeatOk`, `HeartbeatLost`,
`HeartbeatError`, `ReleaseLeader` (which may fail), and the two ways to stop,
`Shutdown` and `Crash`. An error may come before or after the database applied
the statement. `PassStart`, `PassEnd` and `OrphanEnd` are one engine of the
leader: `run()` returns without waiting for the pass in flight, which then is an
orphan. `ExecDelay` and `StopDelay` bound what the code leaves to the driver
and to the Go scheduler; `Advance` lets time pass only while no heartbeat and no
release is overdue by them. `Timely` relates them to the code's constants:
`grace * (interval + ExecDelay) + StopDelay <= takeover`, in the code
3 * (5 s + ExecDelay) + StopDelay <= 30 s.

### RollingUpdate

`job` and `node` are the rows; `drsOn`, `crsOn`, `rulesOff`, `at`, `up` and
`host` the cluster; `pc`, `eng` and `rel` the threads: an engine tick with its
copy of the rows, one worker per node (the SSH goroutine, or the ConfirmUpgrade
request) and one request goroutine that releases. A step makes at most one
change that other threads can see, so every window between two statements, or
between a statement and a call to the cluster, is a state.

Times are kept as the answers the code asks of them: `stale` (no write for
longer than the stall limit), `late` (the step's timeout passed), `due` (the
sweep's backoff passed), `old` (an hour after the end). Guests, rules and hosts
are model values; a rule names guests, a passthrough guest is never migrated.
Legacy per-node rule records, notifications, audit entries and the choice among
allowed targets (any is allowed here) are left out. A failed call is a step
that uses up one of `MaxFaults`; a failed database write is modelled where the
code compensates for it, or goes on to a step that counts on it (`DisableDRS`).
A call that answers with an error may have been applied (`PauseCRS`, the moves
and the reboot). A migration that `waitForGuestUnlocked` takes for completed
though the guest never reached its target is left out: the checks before the
reboot meet it as a guest still there. A graceful shutdown is a crash:
`failNode` writes nothing then.

`killed`, `moved` and `unmarked` are history: guests that were running when
their host went down, guests somebody other than the engine moved, and balancers
whose pause a failed call or a crash kept off the record.

### MigrationJobs

`status` and `upid` are the job row, `row` the `task_history` rows, `pve` what
Proxmox says of a task, `at` and `moved` where the guest and its disks are.
`Execute` is the request (status read, slot taken, goroutine started); `Dispatch` to `GracePasses` are
`executeIntraCluster`, `executeCrossCluster` and the polling, with
`pollTaskStatus`'s grace of a day for a task that no longer answers;
`Plan` to `MoveEnded` the disk moves one after the other. A task is named by
its goroutine and step. Proxmox (external) runs one task per guest and answers
only where the guest is. `CollectorReconcile` and `CollectorIngest` are
`task_reconcile.go` and the sync of cluster tasks. The report of a pre-flight
check is abstracted to `Facts`, what the checks ask; its warnings, which stop
nothing, are left out.

A goroutine learns an outcome (`TaskEnded`, `MoveEnded`), settles the task row
(`SettleTask`) and writes the job row (`Conclude`, and `Halfway` between the two
phases) in statements of their own, and may be stopped between any two. These
run under the goroutine's context and drop their errors: each is an `Attempt`,
without effect once `Shutdown` has cancelled that context, or when it fails.
`failJob` and `abandonTaskRow` take a context of their own and can only fail.
`MainReturns` is the end of `main`, which does not wait for the goroutines
(`main.go:244-251`), so it may come at any point after `Shutdown`; `Kill` comes
without one. `missed` is history: the outcomes whose statement had no effect.

### ScheduledTasks

A row's times are the answers of the claim's WHERE clause, `due` and `stale`.
A pass claims all due rows with the cron it read, and runs them one at a time:
the call, then `trackTask` (row and audit entry), then `finishTask` (next run or
parking, guarded by the claim or not as in the code). `RunScheduledTaskReconcile`
settles a dispatched run from `task_history`; `RunTaskRetention` and
`RecordLost` take the record away.

### Sessions

`user` holds what `users` tells apart: active, `session_epoch`, the password (a
number), the role. A session is a row with its generation (the rotations of its
token) and how long ago the last rotation was: within the tolerance for
concurrent refreshes, within the window a sign-out may still use, or longer.
`req` is a request between two statements, with what its credential check read.
A transaction that takes the lock of the users row is one step. `jar` is the
cookie of a browser, shared by its tabs; `Deliver` and `LoseAnswer` let answers
arrive in any order. The end of the session a sign-in replaces (validation of
its token, then the revocation) is one step. `swept` and `home` are history.

### PasswordLockout

The scripts of the Redis store are the steps `reserve`, `release` and `clear`;
the store in memory takes the same decisions under a mutex. `WindowEnds` and
`LockEnds` are the two expiries; `AbandonedCount` is an attempt counted for a
request whose answer was lost. `guesses` and `given` are history, of one cycle
(from one lock or expiry to the next).

### AlertEngine and NotificationDispatch

`AlertEngine` splits a pass at each statement: the reading, the lookup of the
newest row, the write, the dispatch, then the list for escalation, the second
read of the rule, the step. `cond` is "met", "clear" or "held" (in between, or
in a maintenance window). `ripe` stands for the clock. `Stop` ends the process
between two statements, and a write may fail or be applied without its answer
arriving. A notice handed to a channel is "dispatched" here. Edits of a rule's
chain and of its duration are left out, and with them the clamp of a step beyond
the chain. `NotificationDispatch` takes over where a notice is dispatched: the
bucket, the goroutine with three attempts under `sendCtx`, `writeDLQ` under that
same context, and `ReplayDLQ`, `Dismiss` by operators.

## Runs

Bounds are named constants of the modules, given in the configurations.

| Run | Asks | Answer |
| --- | --- | --- |
| `leader_timely` | 2 processes, the code's times in units of 2.5 s, 4 errors: `OneLeader`, `AgeBound` | holds |
| `leader_takeover` | a statement may hang longer than the takeover time: `LostRoleIsGivenUp`, `RoleIsTakenUp` | holds under fairness |
| `rolling_faults` | one node, two guests, one rule; a failed call or statement, a crash or a guest moved from outside, and for a job that passes through every step two failed calls or one and a crash: `TypeOK`, `RulesReleased`, `GuestsRestarted`, `CompletedMeansDone`, `BalancersReleased`, `RebootSparesGuests` | holds |
| `rolling_retry` | drained (automatic) or in place with one failed call, or manual with a cancel or another request, with fairness: `LifecycleSpec`, `CleanupEnds`, `JobSettles` | holds |
| `rolling_nodes` | two nodes, in turn or at once, one request: `OneByOneSparesGuests`, `ParallelismKept`, `RulesStayOff` | holds |
| `migration_jobs` | every kind of job, two executions, a check, a cancel, a failed call or statement, and a graceful stop or a kill between any two statements: `CompletedMeansMoved`, `MigratingHasWorker`, `SettledRowStays`, `TaskRowsSettle`, `WorkersEnd` | holds |
| `scheduled_tasks` | one schedule, two processes, two troubles: `OverlapOnlyAfterStale`, `OutcomeIsOwn`, `RunsSettle`, `BadScheduleStops` | holds |
| `sessions` | two requests at a time of one browser, two sessions, one revoke-all: `NoSessionOnReplacedPassword`, `SignOutEverywhereHolds`, `DeactivatedHasNoSession`, `SignOutWins`, `BrowserKeepsUp` | holds |
| `password_lockout` | four requests, threshold three: `GuessesBounded`, `LockHolds` | holds |
| `alert_engine` | two alerts, a chain of three steps, an edit, a fault: `OneActiveAlert`, `EveryStepTold`, `ResolutionFollowsFiring`, `LateStepIsLast`, `WindowedAlertFires`, `PersistentConditionFires`, `ClearedConditionResolves` | holds |
| `cancel_loses_guest` | a cancel anywhere: `GuestsRestarted` | violated |
| `dispatch_cut` | a shutdown or the end of a send's context: `NotificationNotLost` | violated |

Why the bounds are enough to be interesting.

- *Rolling update.* One node with one passthrough and one migratable guest takes
  every branch of a drain, a restore and a release; two faults reach a failure
  of the compensation for a failure; two nodes are the least for parallelism,
  for a rule two nodes need and for a guest drained onto a node of the same job;
  a third host gives a drain somewhere else to go. A crash is bounded to one
  because every later one meets the rows the first left. The constraints
  `Budget` and `OneOrTheOther` choose which bounded events occur together; they
  mention only the options of the job and counters that never decrease, so no
  behaviour is cut after its last fault or request, and the liveness
  properties are not weakened.
- *Migration.* Two executions are the least that race; two disks the least for a
  failure between moves; one stop suffices since nothing resumes a job (`MainReturns` follows it).
- *Scheduled tasks.* Two processes are what a change of leadership gives. A task
  name is reused once no row and no task bears it, so two names are no bound on
  the number of runs.
- *Sessions.* Every race of the code is of two requests; two rotations pass the
  limit of one remembered previous token; the second session is the one a
  sign-in inserts while the first is revoked, and one revoke-all is enough for it
  to come between the check and the insert. `SessionsProof` has no such bounds.
- *Lockout.* Four requests are one more than the threshold, so attempts pile up
  beyond it while checks are under way.
- *Alerts.* The second alert is the one a pass would raise beside the first; a
  chain of three has a step that is neither first nor last.

Deadlock is checked except where every client may rest for good: a bounded
number of executions, sessions or attempts.

Fairness. The leader's ticker, the goroutines it started, clocks and a host
that was asked to reboot go on (`WF` on each thread's step as a whole, since a
thread has one program counter). Requests, faults, crashes and moves are never
owed. A node that waits for its operator is excluded from `JobSettles`.
In `LeaderElection` a live process keeps answering its ticks, retries and
releases; nobody owes a start or a stop. `MigrationJobs` and `ScheduledTasks`
assume in addition that a Proxmox task ends, that the collector passes again and
that ages are reached; `AlertEngine` that the minutely pass comes again and each
of its statements returns. `Sessions`, `PasswordLockout` and
`NotificationDispatch` promise no progress and have no fairness.

## Findings

- **A cancel can lose what the tick is about to hold** (`cancel_loses_guest`). A
  passthrough guest recorded after the cleanup retired is shut down and stays
  down. The same configuration with `RulesReleased` or `BalancersReleased` in
  place of `GuestsRestarted` shows the two siblings: rules whose second record
  the cleanup overwrites from its copy, and balancers marked on a job already
  released. Of these records only that of the rules re-arms the cleanup.
- **A notice cut off by a shutdown is lost** (`dispatch_cut`). `sendWithRetry`
  gives up when `sendCtx` ends and then writes the dead-letter row under that
  context, so the insert fails too. `docs/admin-guide.md:1332`: "A notification
  that cannot be delivered is not lost."

## Known divergences

These are stated in the modules but no run of the project keeps them; the
constants given reproduce them.

- `LeaderElection!OnePassRuns` (`main.go:321` promises one instance): `run()`
  returns while a pass is in flight, and the next leader starts its own. Check
  `INVARIANT OnePassRuns` with `LeaderTimely.cfg`.
- `RollingUpdate!RebootSparesGuests` with two nodes at once: a drain may choose a
  node of the same batch that is about to reboot. `RollingNodes.cfg` with
  `Options <- TwoAtOnce` and `MaxRequests = 0`.
- `RollingUpdate!FinishedNodesStay`: a node skipped between the engine's choice
  and `SetNodeDrainStarted` is updated all the same, since that statement asks
  nothing of the step it replaces. `RollingNodes.cfg` with `Options <- OneByOne`.

- `RollingUpdate!RulesReleased` and `GuestsRestarted` with two nodes, without any
  cancel: the SSH session of node 1 fails it between the tick's check for failed
  nodes and its start of node 2. The release of the failed job reads the records;
  the tick switches off and records rules for node 2, or shuts down and records
  a passthrough guest; then the release writes the record from its copy, or
  clears the flag. `RollingFaults.cfg` with two nodes, three hosts,
  one job with `drain` and `auto`, and `MaxFaults = 1`, no crash and no move.

- `RollingUpdate!RebootSparesGuests` with three failed calls, one node: a forced
  stop of a passthrough guest whose outcome is not looked at, then the two
  checks that proceed when they cannot tell what runs (`verifyNodeDrained`,
  `decideReboot` of a drained job). `RollingFaults.cfg` with `MaxFaults = 3`,
  without `Budget`. `RollingTickProof!ThreeFailuresSpare` shows that fewer never
  suffice.

- `RollingUpdate!OneByOneSparesGuests` with two nodes and one crash, or one
  failed call. Crash: the tick fails a node whose reboot took too long, on a host
  that was asked to reboot and has not gone down; the process dies before
  `failJob`; the next tick looks for failed nodes only among those it advances,
  finds none, and drains the next node onto that host. Failed call: the answer to
  the reboot call of a goroutine is lost, which fails the node between the tick's
  check for failed nodes and its start of the next one, whose drain picks the
  same host. `RollingNodes.cfg` with `MaxCrashes = 1` or
  `MaxFaults = 1`; so the theorem below has neither.

- `RollingUpdate!BalancersAsFound` (`queries/rolling_updates.sql:27`: "until every
  held resource is confirmed released"): one failed statement, or one crash,
  leaves a balancer off for good. `disableDRSIfEnabled` drops the error of
  `SetJobDRSWasEnabled` (`orchestrator.go:1659`, under the comment "Record that DRS
  was enabled so we can restore it later") and disables DRS all the same; the
  next tick finds it off and records nothing. `pauseNativeCRSIfActive` pauses
  before it records: a pause that was applied but answered with an error
  (`orchestrator.go:1884`) is neither recorded nor rolled back, although the
  comment at 1865 says that "any error leaves the cluster's CRS untouched", and a
  crash before the record does the same. `RollingFaults.cfg` with
  `INVARIANT BalancersAsFound`. `BalancersReleased` is that claim but for these
  pauses (`unmarked`): everything that was recorded is given back.

- `MigrationJobs!GracefulStopSettles`: a SIGTERM between Proxmox's answer and the
  statement that writes the outcome strands the job at "migrating", and a
  cross-cluster task row at "running". The statements are at
  `internal/migration/orchestrator.go:523`, 633, 677, 1234, 1244 and 1258, under
  the cancelled context and with their errors dropped; the comments say that the
  row is finalized "on EVERY exit" (1082) and that "a SIGTERM mid-migration leaves
  the JOB row correct on its own" (1100). Besides, `main` returns without
  waiting for the statements that do have a context of their own
  (`main.go:244-251`). `MigrationJobs.cfg` with `MaxFaults = 0` and
  `INVARIANT GracefulStopSettles`.

- `AlertEngine!EscalatesOnlyWhileFiring` (`docs/admin-guide.md:1303`: "Escalation
  only advances while the alert is still firing **and** unacknowledged", and
  acknowledging "stops the chain where it is"): a pass lists the alert, an
  operator acknowledges or resolves it, and the pass escalates it, since
  `UpdateAlertEscalation` (`queries/alerts.sql:179-182`, called at
  `alert_engine.go:848`) asks nothing of the state it finds. `AlertEngine.cfg` with
  `MaxFaults = 0`, `MaxEdits = 0` and that `INVARIANT`. `LateStepIsLast` is
  what remains: one such step, never a second.

Seen while modelling, and part of the models as the code has them:

- `docs/admin-guide.md:1479` says a pause comes after the current node completes,
  but `Tick` lists running jobs only, so the node stops where it is.
- `waitForTask` (disk moves and two-phase jobs) has no grace for a task whose
  record is gone, so such an execution polls for ever and keeps its slot:
  the exception in `WorkersEnd`.
- A kill, an exit of `main` that does not wait, or an outcome statement without
  effect strands a row at "migrating" (the first is documented at
  `queries/tasks.sql:165`): the exceptions in `MigratingHasWorker`, and of a
  cross-cluster task row in `TaskRowsSettle`.
- The end of a replay writes its outcome over a row dismissed meanwhile.
- The LDAP sync deactivates an account without revoking its sessions: the `ldap`
  flag in `DeactivatedHasNoSession`.
- A release or a count that arrives after its window expired belongs to the next
  one: `given` in `GuessesBounded`.
- The refused refresh of a session that a sign-in in the same browser just
  replaced may clear the new cookie; `home` excludes it from `BrowserKeepsUp`.

## Proofs

Proved for every value of the constants, from the named assumptions of the
modules (nodes are hosts and positive numbers, thread names are distinct, times
and bounds are natural numbers).

- `LeaderElectionProof!TypeCorrect`, `HeldRowAge`, `MutualExclusion`. Mutual
  exclusion is not inductive by itself. `AgeBound` says why it holds: a leader's
  row is its own, and no older than the failed heartbeats since the last good
  one plus the current timer; a stopping process's is at most a full grace plus
  its timer. Under `Timely` this is below the takeover age, so `CanTake` is
  false for every other process. The conjunction with `TypeOK` is inductive.
  The proof does not bound errors, processes or crashes.
- `RollingUpdateProof!TypeCorrect`. `TypeOK` is not inductive by itself either:
  a thread that restarts guests or restores a node works on `eng[e].n`, which
  has to be a node, and one that releases guests works on the least node with a
  record, which has to exist. `Working` says so, and `IInv == TypeOK /\ Working`
  is inductive: one lemma per group of actions.
- `RollingUpdateProof!ImplementsLifecycle`: every step of the engine is a step of
  `JobLifecycle` or a stutter. `LInv` adds `Flagged`: an active job's cleanup is
  not armed, and a release that means to retire read an armed flag of an ended
  job.
- `RollingUpdateProof!RulesOffWhileActive`. Rules are switched on again only in
  `releaseJobState`. `Ending` says that a thread in a release belongs to a job that has its outcome
  already, and no outcome is taken back, so no release touches the rules of a job
  that stays active.
- `RollingUpdateProof!InPlaceSpares`: `RebootSparesGuests` of a job without drain,
  without any hypothesis: several nodes at once and several ticks included.
  Such a job reboots a host only after it has seen no guest running there, and
  `decideReboot` refuses when it cannot tell. `PlaceInv`: no row, copy or thread
  lists a guest (`Bare`), so no step of the job moves or starts one; and a host
  that is about to go down runs only guests somebody else moved.
- `RollingTickProof!ParallelismHolds`, `CompletedIsDone`, with one hypothesis,
  `Engine = {e}`: one tick on the job at a time, which is what one leadership
  guarantees (`main.go:944` skips a pass while the last one runs). Two ticks, each
  with its own copies, are the hazard at `orchestrator.go:88`. Nodes, hosts,
  guests, options, faults, crashes, moves, cancels and requests are unbounded.
  Neither property is near inductive: the tick decides on copies of the rows
  that are minutes old, and the statements of SSH goroutines do not ask which
  step they replace, so a node the tick has failed can come back. `TickInv` says
  what can still be written: `Workers`, the steps a goroutine's node may be on;
  `Copies`, how far a row may be from the tick's copy of it, and that the row of
  a node in the tick's hands is as the tick believes; `Overtaken`, that while a
  session goes on for a failed node, the tick will meet that failure before it
  starts another node, or has ended the job. `Room` then bounds not the active
  nodes but the pool of those that are active or can still become so (overtaken
  sessions, failed nodes the tick still has copies of as rebooting, the node
  being started), and `Done` says that nobody is left to write the nodes of a
  completed job.
- `RollingTickProof!BalancersComeBack`: `BalancersReleased` under `Engine = {e}`,
  `MaxCancels = 0` and, of every option, `~crs`. The last two are what the code
  needs: a cancel between the tick's read and its record leaves a record on a
  job already released (see Findings), and Proxmox's balancer is paused before
  that is recorded, so a crash or a failed call loses it. Failed calls, crashes,
  moves, nodes and other requests are unbounded; the property itself excepts a
  pause of DRS whose own record, or the read before it, failed (`Missed`), and
  the invariant is `Missed \/ (Held /\ FirstTick)`. `Held`: a balancer that
  is off is on record, a record keeps the cleanup armed, and it is struck out
  only while the balancer is on. That needs the record to be made before anybody
  else can end the job, which is `FirstTick`: as long as there is none, no node
  has been started, no goroutine runs and the tick has not got past it. `Found`
  says, without any hypothesis, that no balancer is switched on that the job did
  not find on.
- `RollingTickProof!CompletedGivesBack`: a completed job has given back the rules
  and the guests, with `Engine = {e}` alone; nodes, failed calls, crashes, cancels
  and requests are unbounded. A rule is recorded before it is disabled and a guest
  before it is shut down, but every release, and the tick when it restores a
  node, writes these records back from a copy it read earlier. So `HoldInv` says
  that what is off is on record and also in every copy that may still replace the
  record: `RulesHeld`, `GuestsHeld` of the rows, `Listed` of the releases and
  `Copied` of the tick. It is invariant while the job is active or completed.
- `RollingTickProof!RulesComeBack`, `GuestsComeBack`: `RulesReleased` and
  `GuestsRestarted` of every job, under `Engine = {e}`, `Node = {n}` and
  `MaxCancels = 0`. All three hypotheses are what the code needs.
  `isJobCancelled` asks for a cancelled job, which a failed one is not, so with a
  second node the tick goes on after another thread has failed the job, and
  switches off rules or shuts down guests beside its release (see Known
  divergences); a cancel does the same to one node. With one node and no cancel,
  `Alone` says that a job that has ended, or is about to fail, has its node
  neither waiting nor draining, and no drain of it is to come. That gives
  `Calm` (no tick takes anything away from an ended job), with which `HoldInv`
  is invariant of jobs that fail as well. Failed calls, crashes, moves, guests,
  rules and other requests are unbounded.
- `RollingTickProof!OneByOneSpares`: `OneByOneSparesGuests` under `Engine = {e}`,
  `MaxFaults = 0` and `MaxCrashes = 0` (the divergences above show what one of
  either does). Nodes, hosts, guests, moves, cancels, requests and timeouts are
  unbounded. The danger is a drain that puts guests on a host that somebody has
  asked, or is about to ask, to reboot. `SpareInv` adds to `TickInv`: `Asks`, the
  node of a host that was asked to reboot is marked so, is about to be, or has
  been given up; `Met`, the tick that gave up such a node meets it before it
  starts another, or the job ends; `Solo`, the tick advances one node and works
  on that one; `Spared`, what runs on a host about to go down was moved there by
  somebody else, or is a passthrough guest of an ended job. `Room` of `TickInv`
  is what leaves no second node under way.
- `RollingTickProof!ThreeFailuresSpare`: `RebootSparesGuests` of a job of one node
  as long as fewer than three calls have failed, under `Engine = {e}` and
  `Node = {n}`. Crashes, moves, cancels, requests, timeouts, hosts and guests are
  unbounded; with a second node one failed call or one crash can be enough (see
  Known divergences). A job without drain is `PlaceInv` again. For a drained one
  the invariant is what each check costs (`Toll`): before the drain, what runs on
  the node and has no excuse to is in the snapshot that the drain works off
  (`Snapshots`, which also follows the tick's copy of the row, from which a stale
  drain is taken up again); while it drains, a guest off the list has left or one
  call has failed; once `verifyNodeDrained` let the node through, the guests have
  left or two have; once the reboot is decided, three. `Asked` says where a node
  may be whose host was asked to reboot, also when the process died in between.
- `SessionsProof!TypeCorrect`, `PasswordChangeEndsSessions`, `SignOutEverywhere`,
  `DeactivationEndsSessions`, for any number of browsers, requests, sessions and
  rotations. The three properties are about a sign-in that read the row before a
  revocation and inserts after it, so what they need is about requests:
  `CarriedEpoch` says that no request carries an epoch above the row's, and that
  one which carries the row's own epoch also carries its current password;
  `SweepsReached` says that the last confirmed sign-out is no later than the
  row's epoch. The insert is conditional on equal epochs, so a session is born
  with the current password, at or after the last sweep, and of an active
  account. `Inv`, the conjunction of these with `TypeOK` and the three
  properties, is inductive: one lemma per action and conjunct.
- `SessionsProof!SignOutEndsSession`, `TabsKeepSession`. Both are about tokens
  on their way, which the rows do not show. `Tokens` says what each request and
  each cookie may hold at each statement: at most one token, never newer than
  its session, and how many rotations it can be behind (a refresh holds the row's
  lock, so it is overtaken only within the tolerance). `Private`: a session
  is known to one browser only. `Unseen`: nobody knows the session of a sign-in
  before its answer. `AtHome`: in a browser that stays with its session, every
  request works on that session and the cookie is current, or the answer that
  makes it so is on its way. `TokenInv` is `Inv` with these four.
- `PasswordLockoutProof!TypeCorrect`, `BudgetOfGuesses`, `GuessKeepsLock`. The
  bound on guesses follows from where each of them is accounted for:
  `OnRecord` says that the guesses so far and the attempts that may still become
  one (or be given back) are together no more than those counted plus what was
  given back, and `ArmedBy` that a lock starts a new count, and which
  request of the cycle armed it. Cardinalities of the sets of attempts are the
  arithmetic of the proof.
- `AlertEngineProof!TypeCorrect`, `OneActive`, `StepsTold`, `ResolutionTold`,
  `LateStepLast`, `WindowedFires`. The pass is the only inserter, and
  its lookup is still right when it writes (`LookupFresh`), since operators
  only close rows and only the newest is open (`OnlyLatest`). A notice is
  written into the history before it is dispatched (`NoticeRecorded`,
  `AboutToFire`), and the list for escalation holds open alerts only (`Listed`).
- `MigrationJobsProof!TypeCorrect`, `CompletedIsMoved`, `MigratingIsRun`,
  `SettledStays`. No statement looks at the status it replaces, so what is proved
  is that the goroutine's place on its path tells what Proxmox has done:
  `OnPaths` (which kind of job is at which point, and with which slot) and
  `Effects` (a task that answered "OK" has had its effect, a disk off the
  list is moved, and a goroutine about to report success has all of that behind
  it). `MigratingIsRun` holds for any number of failed statements and at any point
  of a shutdown: what leaves a row at "migrating" is one of the named exceptions.
- `ScheduledTasksProof!TypeCorrect`, `OverlapIsStale`, `OutcomeOwn`.
  `ClaimStands` and `EntriesApart` say what a pass still owns when it comes to an
  entry: the row names its claim unless a later one was taken after it went
  stale. For the outcome, `NamesKept` and `RowsTrue` say that a name is reused
  only when nothing bears it, and that a task row tells of the task it names.

Only model-checked: the liveness properties (fairness is out of the prover's
reach) and `NotificationDispatch`, whose one property is violated. Every invariant
and every safety property of every passing run is stated by a theorem. Five
invariants of the rolling update (`BalancersReleased`, `RulesReleased`,
`GuestsRestarted`, `RebootSparesGuests`, `OneByOneSparesGuests`) do not hold for
every value of the constants: the findings and the divergences above show what a
cancel, a second node, a crash or failed calls do to them, and the hypotheses of
their theorems say which of these are absent. The theorems about the tick assume
one engine (`Engine = {e}`).

## Not modelled

The repository is mostly not protocol: of its lines of Go and TypeScript the
larger part is generated statements and types, clients of the Proxmox, PBS and
Veeam APIs, handlers that validate a request and pass it on, collectors that copy
answers into tables, and the user interface. These keep no state across steps of
their own, and a model would restate them line by line. What they contribute to
the modelled parts is there as a step that may fail, or as the guarded statement
itself. So the models cover a small share of the lines, and the share of the
code in which interleavings, crashes and lost answers decide what happens is
what they aim at. `PROJECT.json` names each part left out with its reason.

Left out inside the modelled parts: a second rolling-update job for a cluster,
two engine ticks at once after a change of leadership, per-node fan-out of alert
rules and their deletion, access tokens and console credentials, creation and
deletion of users, the database's connection pool, and the scheduler's
maintenance passes.

## Plan

1. *More of the rolling update.* Two engine ticks (`Engine` with two members:
   which properties survive); a second job; an abstract module of held resources
   (record, act, confirm, forget) that balancers, rules and guests implement.
2. *Pre-flight.* Batches of `AnalyzeCapacity` and the HA rule checks as
   operators, against a reference over bounded inputs.
3. *DRS execution*, then guest tools and the event bus.

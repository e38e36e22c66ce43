--------------------------- MODULE MigrationJobs ---------------------------
(***************************************************************************)
(* One migration job (internal/migration): the requests that check,        *)
(* execute and cancel it (internal/api/handlers/migrations.go), the        *)
(* goroutine each execution runs in, the Proxmox tasks it starts, and the  *)
(* collector pass that settles task_history rows                           *)
(* (internal/collector/task_reconcile.go).                                 *)
(*                                                                         *)
(* No statement on the job row looks at the status it replaces except      *)
(* CancelMigrationJob, and Execute reads the status long before the row    *)
(* says "migrating": two executions, a check and a cancel may interleave.  *)
(*                                                                         *)
(* A task is named by its worker and its step: step 0 is the live          *)
(* migration, a disk the move of that disk.  Proxmox runs one task per     *)
(* guest at a time (it locks the guest) and takes a call only on the node  *)
(* that holds the guest.  A task's record may vanish (node reboot, log     *)
(* rotation): then no status is ever returned for it again.                *)
(*                                                                         *)
(* Every statement of a goroutine may fail, and its error is dropped.  Most *)
(* are lost once the process shuts down, since they run under its context;  *)
(* failJob and abandonTaskRow have a context of their own, but nobody waits *)
(* for the goroutines: main returns when the server has closed.             *)
(***************************************************************************)
EXTENDS Naturals, FiniteSets

CONSTANTS
    Worker,      \* goroutines that may execute the job
    Disk,        \* the guest's movable disks
    Kinds,       \* kinds of job to consider
    Placed,      \* per kind, sets of disks that may be on their target beforehand
    SlotLimit,   \* MigrationConcurrencyLimit
    MaxFaults,   \* bound: failed lookups, statements, calls and tasks
    MaxChecks,   \* bound: pre-flight requests
    MaxStops     \* bound: shutdowns and kills of the process

AllKinds == {"live", "cross", "storage", "both"}

ASSUME KindAssumption == Kinds \subseteq AllKinds /\ Placed \in [AllKinds -> SUBSET SUBSET Disk]
ASSUME LiveAssumption == "live" \notin Disk /\ IsFiniteSet(Disk)
ASSUME MigrationBounds == {SlotLimit, MaxFaults, MaxChecks, MaxStops} \subseteq Nat

VARIABLES
    kind,    \* migration_type and migration_mode, fixed at creation
    status,  \* migration_jobs.status
    upid,    \* the tasks the job row names: {} or one task
    work,    \* the executing goroutines
    check,   \* the pre-flight request: "idle" or "running"
    pve,     \* Proxmox's tasks
    row,     \* task_history.status per task, "none" without a row
    aged,    \* tasks whose row is older than staleTaskGrace
    at,      \* "source" or "target": where the guest is
    moved,   \* disks on their target storage
    stop,    \* "no", "shutdown" (context cancelled) or "down" (the process is gone)
    missed,  \* history: outcomes written to no effect, of the job and of tasks
    spent    \* uses of the bounded events

vars == <<kind, status, upid, work, check, pve, row, aged, at, moved, stop, missed, spent>>

Step == {"live"} \cup Disk
Task == Worker \X Step
NoTask == {}

Terminal == {"completed", "failed", "cancelled"}
Statuses == {"pending", "checking", "migrating"} \cup Terminal

\* pc of a worker: idle; begun (status read, nothing asked of Proxmox yet);
\* live, posted, started, poll, ended (answered), half (the live phase); plan,
\* disk, diskPosted, diskNamed, diskWait (one disk after the other); done and
\* failing, with the outcome of the job still to be written.
Points == {"idle", "begun", "live", "posted", "started", "poll", "ended", "half",
           "plan", "disk", "diskPosted", "diskNamed", "diskWait", "done", "failing"}

\* end: the outcome the goroutine has learnt and is about to write.
NoWork == [pc |-> "idle", todo |-> {}, step |-> "live", lost |-> FALSE, stale |-> FALSE,
           end |-> "failed"]

TypeOK ==
    /\ kind \in AllKinds /\ status \in Statuses
    /\ upid \in SUBSET Task /\ Cardinality(upid) <= 1
    /\ work \in [Worker -> [pc : Points, todo : SUBSET Disk, step : Step,
                            lost : BOOLEAN, stale : BOOLEAN, end : {"completed", "failed"}]]
    /\ check \in {"idle", "running"}
    /\ pve \in [Task -> {"none", "running", "ok", "err", "gone"}]
    /\ row \in [Task -> {"none", "running", "completed", "failed"}]
    /\ aged \in SUBSET Task
    /\ at \in {"source", "target"} /\ moved \in SUBSET Disk
    /\ stop \in {"no", "shutdown", "down"}
    /\ missed \in [job : BOOLEAN, rows : SUBSET Task]
    /\ spent \in [faults : 0 .. MaxFaults, checks : 0 .. MaxChecks, stops : 0 .. MaxStops]

Init ==
    /\ kind \in Kinds
    /\ status = "pending" /\ upid = NoTask
    /\ work = [w \in Worker |-> NoWork]
    /\ check = "idle"
    /\ pve = [t \in Task |-> "none"]
    /\ row = [t \in Task |-> "none"]
    /\ aged = {}
    /\ at = "source"
    /\ moved \in Placed[kind]
    /\ stop = "no"
    /\ missed = [job |-> FALSE, rows |-> {}]
    /\ spent = [faults |-> 0, checks |-> 0, stops |-> 0]

-----------------------------------------------------------------------------
(* Statements and helpers.                                                  *)

Fault == spent.faults < MaxFaults /\ spent' = [spent EXCEPT !.faults = @ + 1]

SetMigrationJobStarted(t) == status' = "migrating" /\ upid' = {t}
CompleteMigrationJob(outcome) == status' = outcome

\* Mutant: the tasks named before are kept.
UpdateProgressKeeps(t) == upid' = upid \cup {t}

UpdateMigrationJobProgress(t) == upid' = {t}

\* Mutant: a settled row is settled again.
ReconcileUnguarded(t, outcome) == row' = [row EXCEPT ![t] = outcome]

\* First write wins: only a running row is settled.
ReconcileTaskHistory(t, outcome) ==
    row' = IF row[t] = "running" THEN [row EXCEPT ![t] = outcome] ELSE row

\* INSERT ... ON CONFLICT DO NOTHING.
InsertTaskHistory(t) ==
    row' = IF row[t] = "none" THEN [row EXCEPT ![t] = "running"] ELSE row

\* resolveDiskTargets: disks that are on their target storage are left out.
resolveDiskTargets == Disk \ moved

\* Mutant: how the task ended is not looked at.
VerdictBlind(t) == "completed"

Verdict(t) == IF pve[t] = "ok" THEN "completed" ELSE "failed"

\* Proxmox takes a call for a guest that is not locked, on the node that holds
\* it, and for a disk that is not on its target already.
Locked == \E t \in Task : pve[t] = "running"
Accepts(t) ==
    /\ ~Locked
    /\ pve[t] = "none"
    /\ IF t[2] = "live" THEN at = "source"
       ELSE /\ at = IF kind = "both" THEN "target" ELSE "source"
            /\ t[2] \notin moved

Goto(w, p) == work' = [work EXCEPT ![w].pc = p]
Current(w) == <<w, work[w].step>>
Leave(w) == work' = [work EXCEPT ![w] = NoWork]

MissJob == missed' = [missed EXCEPT !.job = TRUE]
MissRow(t) == missed' = [missed EXCEPT !.rows = @ \cup {t}]

\* A statement that runs under the goroutine's context and whose error is dropped:
\* without effect once the context is cancelled, or when it fails.
Attempt(write, without) ==
    \/ stop = "no" /\ write /\ UNCHANGED spent
    \/ stop # "no" /\ without /\ UNCHANGED spent
    \/ stop = "no" /\ without /\ Fault

\* abandonTaskRow has a context of its own (cleanupCtxFor), so it writes also
\* after a shutdown; its error is dropped.
abandonTaskRow(t) ==
    \/ ReconcileTaskHistory(t, "failed") /\ UNCHANGED <<missed, spent>>
    \/ Fault /\ MissRow(t) /\ UNCHANGED row

jobVars == <<status, upid>>
stopVars == <<stop, missed>>
outVars == <<pve, at, moved>>
rowVars == <<row, aged>>

-----------------------------------------------------------------------------
(* Requests.                                                                *)

\* Execute: the status is read, a slot is taken, the goroutine starts.
Execute(w) ==
    /\ stop = "no"
    /\ status \in {"pending", "checking"}
    /\ work[w].pc = "idle" /\ \A s \in Step : pve[<<w, s>>] = "none"
    /\ Cardinality({v \in Worker : work[v].pc # "idle"}) < SlotLimit
    /\ Goto(w, "begun")
    /\ UNCHANGED <<kind, jobVars, check, outVars, rowVars, stopVars, spent>>

\* RunPreFlight marks the job as checking, whatever its status is.
RunCheck ==
    /\ stop = "no" /\ check = "idle" /\ spent.checks < MaxChecks
    /\ check' = "running"
    /\ status' = "checking"
    /\ spent' = [spent EXCEPT !.checks = @ + 1]
    /\ UNCHANGED <<kind, upid, work, outVars, rowVars, stopVars>>

\* What the checks found out: "yes", "no", "error" where a read failed, or
\* "unknown" where Proxmox names no version, or one that does not parse.
Facts == [member : {"yes", "no"}, version : {"yes", "no", "error", "unknown"},
          online : {"yes", "no", "error"}, vmid : {"yes", "no", "error"},
          maps : {"yes", "no", "error"}]

checkPVEVersion(f) ==
    CASE f.version = "yes" -> "pass" [] f.version = "unknown" -> "warn" [] OTHER -> "fail"
checkTargetNodeOnline(f) == IF f.online = "yes" THEN "pass" ELSE "fail"
checkTargetVMIDAvailable(f) ==
    CASE f.vmid = "yes" -> "pass" [] f.vmid = "no" -> "fail" [] OTHER -> "warn"
checkMappings(f) ==
    CASE f.maps = "yes" -> "pass" [] f.maps = "no" -> "fail" [] OTHER -> "warn"

RunPreFlightChecks(k, f) ==
    {checkTargetNodeOnline(f), checkTargetVMIDAvailable(f)}
        \cup IF k = "cross" THEN {checkPVEVersion(f), checkMappings(f)} ELSE {}

Passed(k, f) == f.member = "yes" /\ "fail" \notin RunPreFlightChecks(k, f)

\* The statuses a report can leave the job of a kind in.
Reported == [k \in AllKinds |->
                {IF Passed(k, f) THEN "pending" ELSE "failed" : f \in Facts}]

\* saveCheckResults writes pending or failed over whatever happened meanwhile;
\* a client that cannot be built returns early and leaves "checking".
SaveCheckResults ==
    /\ check = "running"
    /\ check' = "idle"
    /\ \/ status' \in Reported[kind] /\ UNCHANGED spent
       \/ Fault /\ UNCHANGED status
    /\ UNCHANGED <<kind, upid, work, outVars, rowVars, stopVars>>

CancelMigrationJob ==
    /\ stop = "no"
    /\ status \in {"pending", "checking"}
    /\ status' = "cancelled"
    /\ UNCHANGED <<kind, upid, work, check, outVars, rowVars, stopVars, spent>>

-----------------------------------------------------------------------------
(* The goroutine.                                                           *)

\* requireJobNodes and clientForCluster, then the path of the job's kind.
Dispatch(w) ==
    /\ work[w].pc = "begun"
    /\ \/ Goto(w, IF kind = "storage" THEN "plan" ELSE "live") /\ UNCHANGED spent
       \/ Fault /\ Goto(w, "failing")
    /\ UNCHANGED <<kind, jobVars, check, outVars, rowVars, stopVars>>

\* executeIntraCluster, executeCrossCluster: the call that starts the task.
\* A call that is not accepted, or fails, fails the job.
PostMigrate(w) ==
    LET t == <<w, "live">> IN
    /\ work[w].pc = "live"
    /\ \/ /\ Accepts(t) /\ stop = "no"
          /\ pve' = [pve EXCEPT ![t] = "running"]
          /\ work' = [work EXCEPT ![w].pc = "posted", ![w].step = "live"]
          /\ UNCHANGED spent
       \/ /\ ~Accepts(t) \/ stop # "no"
          /\ Goto(w, "failing") /\ UNCHANGED <<pve, spent>>
       \/ Accepts(t) /\ Fault /\ Goto(w, "failing") /\ UNCHANGED pve
    /\ UNCHANGED <<kind, jobVars, check, at, moved, rowVars, stopVars>>

\* startAndPollMigration, executeBothMigration: the row names the task first.
MarkStarted(w) ==
    /\ work[w].pc = "posted"
    /\ Attempt(SetMigrationJobStarted(<<w, "live">>), UNCHANGED jobVars)
    /\ Goto(w, "started")
    /\ UNCHANGED <<kind, check, outVars, rowVars, stopVars>>

RecordTask(w) ==
    /\ work[w].pc = "started"
    /\ Attempt(InsertTaskHistory(<<w, "live">>), UNCHANGED row)
    /\ Goto(w, "poll")
    /\ UNCHANGED <<kind, jobVars, check, outVars, aged, stopVars>>

\* A tick of pollTaskStatus (live, cross) or waitForTask (both) learns that the
\* task ended, and how.  Nothing is written yet.
TaskEnded(w) ==
    LET t == <<w, "live">> IN
    /\ work[w].pc = "poll" /\ stop = "no"
    /\ pve[t] \in {"ok", "err"}
    /\ work' = [work EXCEPT ![w].pc = "ended", ![w].end = Verdict(t)]
    /\ UNCHANGED <<kind, jobVars, check, outVars, rowVars, stopVars, spent>>

\* The task row first.  A two-phase job goes on to its disks, or fails.
SettleTask(w) ==
    LET t == <<w, "live">> IN
    /\ work[w].pc = "ended"
    /\ Attempt(ReconcileTaskHistory(t, work[w].end) /\ UNCHANGED missed,
               MissRow(t) /\ UNCHANGED row)
    /\ Goto(w, IF kind # "both" THEN "done"
               ELSE IF work[w].end = "completed" THEN "half" ELSE "failing")
    /\ UNCHANGED <<kind, jobVars, check, outVars, aged, stop>>

\* executeBothMigration between its phases.
Halfway(w) ==
    /\ work[w].pc = "half"
    /\ Attempt(UpdateMigrationJobProgress(<<w, "live">>), UNCHANGED upid)
    /\ Goto(w, "plan")
    /\ UNCHANGED <<kind, status, check, outVars, rowVars, stopVars>>

\* The last statement of pollTaskStatus, executeStorageMigration and
\* executeBothMigration: the outcome, under the goroutine's context.
Conclude(w) ==
    /\ work[w].pc = "done"
    /\ Attempt(CompleteMigrationJob(work[w].end) /\ UNCHANGED missed,
               MissJob /\ UNCHANGED status)
    /\ Leave(w)
    /\ UNCHANGED <<kind, upid, check, outVars, rowVars, stop>>

\* failJob writes under a context of its own, so also after a shutdown.
failJob(w) ==
    /\ work[w].pc = "failing"
    /\ \/ CompleteMigrationJob("failed") /\ UNCHANGED <<missed, spent>>
       \/ Fault /\ MissJob /\ UNCHANGED status
    /\ Leave(w)
    /\ UNCHANGED <<kind, upid, check, outVars, rowVars, stop>>

\* A tick that finds the task running rewrites the progress, with the UPID.
TaskRuns(w) ==
    LET t == <<w, "live">> IN
    /\ work[w].pc = "poll" /\ stop = "no" /\ kind # "both"
    /\ pve[t] = "running"
    /\ work' = [work EXCEPT ![w].lost = FALSE, ![w].stale = FALSE]
    /\ Attempt(UpdateMigrationJobProgress(t), UNCHANGED upid)
    /\ UNCHANGED <<kind, status, check, outVars, rowVars, stopVars>>

\* Mutants: giving up without settling the task row; never giving up.
GiveUpQuietly(w) ==
    /\ work[w].pc = "poll" /\ stop = "no" /\ kind # "both" /\ pve[<<w, "live">>] = "gone"
    /\ \/ ~work[w].lost /\ work' = [work EXCEPT ![w].lost = TRUE]
       \/ work[w].stale /\ Goto(w, "failing")
    /\ UNCHANGED <<kind, jobVars, check, outVars, rowVars, stopVars, spent>>

NeverGiveUp(w) ==
    /\ work[w].pc = "poll" /\ stop = "no" /\ kind # "both" /\ pve[<<w, "live">>] = "gone"
    /\ ~work[w].lost /\ work' = [work EXCEPT ![w].lost = TRUE]
    /\ UNCHANGED <<kind, jobVars, check, outVars, rowVars, stopVars, spent>>

\* No answer: pollTaskStatus remembers since when and gives up after the grace;
\* waitForTask only polls on.
PollUnanswered(w) ==
    LET t == <<w, "live">> IN
    /\ work[w].pc = "poll" /\ stop = "no" /\ kind # "both"
    /\ \/ /\ pve[t] = "gone" /\ ~work[w].lost
          /\ work' = [work EXCEPT ![w].lost = TRUE]
          /\ UNCHANGED <<row, missed, spent>>
       \/ /\ pve[t] = "running" /\ ~work[w].lost /\ Fault
          /\ work' = [work EXCEPT ![w].lost = TRUE]
          /\ UNCHANGED <<row, missed>>
       \/ /\ pve[t] = "gone" /\ work[w].stale
          /\ abandonTaskRow(t) /\ Goto(w, "failing")
    /\ UNCHANGED <<kind, jobVars, check, outVars, aged, stop>>

\* pollStaleGrace passes while every poll fails.
GracePasses(w) ==
    /\ work[w].pc = "poll" /\ work[w].lost /\ ~work[w].stale
    /\ pve[<<w, "live">>] = "gone"
    /\ work' = [work EXCEPT ![w].stale = TRUE]
    /\ UNCHANGED <<kind, jobVars, check, outVars, rowVars, stopVars, spent>>

\* Mutant: the loop returns without a word.
InterruptedQuietly(w) ==
    /\ stop = "shutdown"
    /\ work[w].pc \in {"poll", "diskWait"}
    /\ Leave(w)
    /\ UNCHANGED <<kind, jobVars, check, outVars, rowVars, stopVars, spent>>

\* The context is done while the worker waits: pollTaskStatus abandons the task row
\* and fails the job; waitForTask returns an error, for which "both" settles its row.
Interrupted(w) ==
    /\ stop = "shutdown"
    /\ \/ /\ work[w].pc = "poll" /\ kind # "both"
          /\ abandonTaskRow(<<w, "live">>) /\ Goto(w, "failing")
       \/ /\ work[w].pc = "poll" /\ kind = "both"
          /\ work' = [work EXCEPT ![w].pc = "ended", ![w].end = "failed"]
          /\ UNCHANGED <<row, missed, spent>>
       \/ /\ work[w].pc = "diskWait"
          /\ Goto(w, "failing") /\ UNCHANGED <<row, missed, spent>>
    /\ UNCHANGED <<kind, jobVars, check, outVars, aged, stop>>

\* discoverDisks and resolveDiskTargets.  Nothing to move ends a storage job as
\* failed and a "both" job as completed.
Plan(w) ==
    /\ work[w].pc = "plan"
    /\ \/ /\ resolveDiskTargets # {} /\ stop = "no"
          /\ work' = [work EXCEPT ![w].pc = "disk", ![w].todo = resolveDiskTargets]
          /\ UNCHANGED spent
       \/ /\ resolveDiskTargets = {} /\ stop = "no" /\ kind = "both"
          /\ work' = [work EXCEPT ![w].pc = "done", ![w].end = "completed"]
          /\ UNCHANGED spent
       \/ /\ stop # "no" \/ (resolveDiskTargets = {} /\ kind = "storage")
          /\ Goto(w, "failing") /\ UNCHANGED spent
       \/ Fault /\ Goto(w, "failing")
    /\ UNCHANGED <<kind, jobVars, check, outVars, rowVars, stopVars>>

\* The next disk, in the order the map was walked: any.
PostMove(w) ==
    /\ work[w].pc = "disk"
    /\ \E d \in work[w].todo : LET t == <<w, d>> IN
         \/ /\ Accepts(t) /\ stop = "no"
            /\ pve' = [pve EXCEPT ![t] = "running"]
            /\ work' = [work EXCEPT ![w].pc = "diskPosted", ![w].step = d,
                                    ![w].todo = @ \ {d}]
            /\ UNCHANGED spent
         \/ /\ ~Accepts(t) \/ stop # "no"
            /\ Goto(w, "failing") /\ UNCHANGED <<pve, spent>>
         \/ Accepts(t) /\ Fault /\ Goto(w, "failing") /\ UNCHANGED pve
    /\ UNCHANGED <<kind, jobVars, check, at, moved, rowVars, stopVars>>

\* recordDiskMove.
RecordMove(w) ==
    /\ work[w].pc = "diskPosted"
    /\ Attempt(InsertTaskHistory(Current(w)), UNCHANGED row)
    /\ Goto(w, "diskNamed")
    /\ UNCHANGED <<kind, jobVars, check, outVars, aged, stopVars>>

\* The job row names the move; a storage job is marked started by its first.
FirstMove(w) == \A d \in Disk : pve[<<w, d>>] # "none" => d = work[w].step
NameMove(w) ==
    /\ work[w].pc = "diskNamed"
    /\ Attempt(IF kind = "storage" /\ FirstMove(w)
               THEN SetMigrationJobStarted(Current(w))
               ELSE UpdateMigrationJobProgress(Current(w)) /\ UNCHANGED status,
               UNCHANGED jobVars)
    /\ Goto(w, "diskWait")
    /\ UNCHANGED <<kind, check, outVars, rowVars, stopVars>>

\* waitForTask on a move has its answer: the next disk, or the end.
MoveEnded(w) ==
    LET t == Current(w) IN
    /\ work[w].pc = "diskWait" /\ stop = "no"
    /\ \/ pve[t] = "ok" /\ work[w].todo # {} /\ Goto(w, "disk")
       \/ /\ pve[t] = "ok" /\ work[w].todo = {}
          /\ work' = [work EXCEPT ![w].pc = "done", ![w].end = "completed"]
       \/ pve[t] = "err" /\ Goto(w, "failing")
    /\ UNCHANGED <<kind, jobVars, check, outVars, rowVars, stopVars, spent>>

-----------------------------------------------------------------------------
(* Proxmox, the collector, the process.                                     *)

\* Proxmox ends a task, well or not; its effect comes with the end.
TaskFinishes(t) ==
    /\ pve[t] = "running"
    /\ \/ /\ pve' = [pve EXCEPT ![t] = "ok"]
          /\ at' = IF t[2] = "live" THEN "target" ELSE at
          /\ moved' = moved \cup ({t[2]} \cap Disk)
          /\ UNCHANGED spent
       \/ pve' = [pve EXCEPT ![t] = "err"] /\ Fault /\ UNCHANGED <<at, moved>>
    /\ UNCHANGED <<kind, jobVars, work, check, rowVars, stopVars>>

\* The record of a task is lost: a node that rebooted, a log that rotated.
TaskVanishes(t) ==
    /\ pve[t] \in {"running", "ok", "err"}
    /\ Fault
    /\ pve' = [pve EXCEPT ![t] = "gone"]
    /\ UNCHANGED <<kind, jobVars, work, check, at, moved, rowVars, stopVars>>

\* ListRunningTaskHistoryByCluster: not the rows a cross-cluster job names.
Listed(t) == row[t] = "running" /\ ~(kind = "cross" /\ t \in upid)

\* reconcileRunningTasks settles what Proxmox reports, and what it has not
\* reported for staleTaskGrace.
CollectorReconcile(t) ==
    /\ Listed(t)
    /\ \/ pve[t] \in {"ok", "err"} /\ ReconcileTaskHistory(t, Verdict(t))
       \/ pve[t] = "gone" /\ t \in aged /\ ReconcileTaskHistory(t, "failed")
    /\ UNCHANGED <<kind, jobVars, work, check, outVars, aged, stopVars, spent>>

\* ingestTask: a task no row, and no cross-cluster job, names yet.
CollectorIngest(t) ==
    /\ pve[t] \in {"running", "ok", "err"}
    /\ row[t] = "none" /\ ~(kind = "cross" /\ t \in upid)
    /\ row' = [row EXCEPT ![t] = IF pve[t] = "running" THEN "running" ELSE Verdict(t)]
    /\ UNCHANGED <<kind, jobVars, work, check, outVars, aged, stopVars, spent>>

RowAges(t) ==
    /\ row[t] = "running" /\ pve[t] = "gone" /\ t \notin aged
    /\ aged' = aged \cup {t}
    /\ UNCHANGED <<kind, jobVars, work, check, outVars, row, stopVars, spent>>

\* SIGTERM cancels the context of every worker; main returns without waiting for
\* them, and a kill asks nobody.
Shutdown ==
    /\ stop = "no" /\ spent.stops < MaxStops
    /\ stop' = "shutdown"
    /\ check' = "idle"
    /\ spent' = [spent EXCEPT !.stops = @ + 1]
    /\ UNCHANGED <<kind, jobVars, work, outVars, rowVars, missed>>

ProcessGone ==
    /\ stop' = "down"
    /\ check' = "idle"
    /\ work' = [w \in Worker |-> NoWork]
    /\ UNCHANGED <<kind, jobVars, outVars, rowVars, missed>>

MainReturns == stop = "shutdown" /\ ProcessGone /\ UNCHANGED spent

Kill ==
    /\ stop = "no" /\ spent.stops < MaxStops
    /\ ProcessGone
    /\ spent' = [spent EXCEPT !.stops = @ + 1]

WorkerStep(w) ==
    \/ Dispatch(w) \/ PostMigrate(w) \/ MarkStarted(w) \/ RecordTask(w)
    \/ TaskEnded(w) \/ TaskRuns(w) \/ PollUnanswered(w) \/ GracePasses(w) \/ Interrupted(w)
    \/ SettleTask(w) \/ Halfway(w) \/ Conclude(w) \/ failJob(w)
    \/ Plan(w) \/ PostMove(w) \/ RecordMove(w) \/ NameMove(w) \/ MoveEnded(w)

Next ==
    \/ \E w \in Worker : Execute(w) \/ WorkerStep(w)
    \/ RunCheck \/ SaveCheckResults \/ CancelMigrationJob
    \/ \E t \in Task : TaskFinishes(t) \/ TaskVanishes(t) \/ RowAges(t)
                       \/ CollectorReconcile(t) \/ CollectorIngest(t)
    \/ Shutdown \/ MainReturns \/ Kill

Spec == Init /\ [][Next]_vars

\* Tickers tick, tasks end, the collector runs and clocks go on.
FairSpec ==
    /\ Spec
    /\ \A w \in Worker : WF_vars(WorkerStep(w))
    /\ \A t \in Task : /\ WF_vars(TaskFinishes(t)) /\ WF_vars(RowAges(t))
                       /\ WF_vars(CollectorReconcile(t))
    /\ WF_vars(SaveCheckResults)

-----------------------------------------------------------------------------
(* Properties.                                                              *)

\* A job reported as completed has its guest on the target, and every disk on
\* its target storage, however executions, checks and cancels interleave.
CompletedMeansMoved ==
    status = "completed" =>
        /\ kind # "storage" => at = "target"
        /\ kind \in {"storage", "both"} => moved = Disk

\* A row that says "migrating" has a goroutine behind it, or the process is gone,
\* or the statement with an outcome had no effect: no way out of a goroutine leaves
\* without trying to write one.
MigratingHasWorker ==
    status = "migrating" =>
        stop = "down" \/ missed.job \/ \E w \in Worker : work[w].pc # "idle"

\* What the comments at orchestrator.go:1100 and 1284 say of a SIGTERM, for a job
\* whose statements all succeed while the process lives.  Not so: an outcome learnt
\* before it is written after it, under the cancelled context.
GracefulStopSettles ==
    stop = "shutdown" /\ spent.faults = 0 /\ (\A w \in Worker : work[w].pc = "idle")
        => status # "migrating"

\* A settled task_history row is never settled again: the orchestrator and the
\* collector both finalize, and whoever is first decides.
SettledRowStays ==
    [][\A t \in Task : row[t] \in {"completed", "failed"} => row'[t] = row[t]]_vars

\* Every task row leaves "running", whatever fails or stops in between: only the
\* row of a cross-cluster migration, which the collector is not shown, may be left
\* behind, by a process that is gone or by a settling statement without effect.
TaskRowsSettle ==
    []<>(\A t \in Task : row[t] = "running" =>
            kind = "cross" /\ (stop = "down" \/ t \in missed.rows))

\* An execution ends and frees its slot; a disk move or a two-phase job whose
\* task record is lost is polled for ever (waitForTask has no grace).
WorkersEnd ==
    []<>(\A w \in Worker :
            \/ work[w].pc = "idle"
            \/ kind \in {"storage", "both"} /\ pve[Current(w)] = "gone")
=============================================================================

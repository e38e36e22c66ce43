--------------------------- MODULE ScheduledTasks ---------------------------
(***************************************************************************)
(* Scheduled snapshots and reboots: the rows of scheduled_tasks, the       *)
(* minutely pass that claims and dispatches due rows                       *)
(* (internal/scheduler), the reconcile tick that settles dispatched runs   *)
(* from task_history, the requests that edit a schedule                    *)
(* (internal/api/handlers/schedules.go) and the collector's share.         *)
(*                                                                         *)
(* Clocks appear as the comparisons the statements make: "due" is          *)
(* next_run_at <= now() (or NULL), "stale" is last_run_at older than       *)
(* taskClaimStaleSeconds.  A pass claims every due row at once and works   *)
(* through them one after the other, so a claim may go stale while its     *)
(* holder is alive; two processes run passes while leadership changes.     *)
(***************************************************************************)
EXTENDS Naturals, FiniteSets

CONSTANTS
    Sched,       \* rows of scheduled_tasks
    Proc,        \* processes that run the scheduler
    Upid,        \* Proxmox tasks alive at a time
    MaxTroubles  \* bound: failures, crashes and edits, counted together

ASSUME ScheduleBounds == MaxTroubles \in Nat

VARIABLES
    row,     \* scheduled_tasks
    pass,    \* the passes under way
    pve,     \* Proxmox's tasks
    gone,    \* tasks of which Proxmox keeps no record any more
    th,      \* task_history.status per task, "none" without a row
    audit,   \* tasks an audit_log entry names
    late,    \* history: rows one of whose live holders let the claim go stale
    spent    \* uses of the bounded events

vars == <<row, pass, pve, gone, th, audit, late, spent>>
rowVars == <<row, late>>
taskVars == <<pve, gone, th, audit>>

Statuses == {"never", "running", "dispatched", "success", "failed"}
Crons == {"good", "bad"}

\* err: the parts of last_error, "run" and "disabled"; upid: {} or one task.
Row == [exists : BOOLEAN, cron : Crons, enabled : BOOLEAN, due : BOOLEAN, stale : BOOLEAN,
        status : Statuses, err : SUBSET {"run", "disabled"}, upid : SUBSET Upid]

NoRow == [exists |-> FALSE, cron |-> "good", enabled |-> FALSE, due |-> FALSE,
          stale |-> FALSE, status |-> "never", err |-> {}, upid |-> {}]

\* todo: the claimed rows, each with the cron it was read with; cur: the row
\* being executed; task: the UPID the call returned.
Pass == [pc : {"idle", "posted", "finish"}, todo : SUBSET (Sched \X Crons),
         cur : SUBSET (Sched \X Crons), task : SUBSET Upid]

IdlePass == [pc |-> "idle", todo |-> {}, cur |-> {}, task |-> {}]

TypeOK ==
    /\ row \in [Sched -> Row] /\ \A s \in Sched : Cardinality(row[s].upid) <= 1
    /\ pass \in [Proc -> Pass]
    /\ pve \in [Upid -> {"none", "running", "ok", "err"}]
    /\ gone \subseteq Upid /\ audit \subseteq Upid /\ late \subseteq Sched
    /\ th \in [Upid -> {"none", "running", "completed", "failed"}]
    /\ spent \in 0 .. MaxTroubles

\* Create accepts only a cron that fires; a row of before that check may hold
\* one that does not.
Init ==
    /\ row \in [Sched -> {[NoRow EXCEPT !.exists = TRUE, !.cron = c, !.enabled = TRUE] : c \in Crons}]
    /\ pass = [p \in Proc |-> IdlePass]
    /\ pve = [u \in Upid |-> "none"] /\ th = [u \in Upid |-> "none"]
    /\ gone = {} /\ audit = {} /\ late = {}
    /\ spent = 0

Trouble == spent < MaxTroubles /\ spent' = spent + 1

\* The name of a new task: one that no task and no row bears.
NewUpid == LET free == {u \in Upid : pve[u] = "none" /\ th[u] = "none"}
           IN  IF free = {} THEN {} ELSE {CHOOSE u \in free : TRUE}

Holds(p, s) == \E c \in Crons : <<s, c>> \in pass[p].todo \cup pass[p].cur
Held(s) == \E p \in Proc : Holds(p, s)

-----------------------------------------------------------------------------
(* The pass.                                                                *)

\* Mutant: a row in flight is claimed again as soon as it is due.
ClaimableAnyway(r) == r.exists /\ r.enabled /\ r.due

Claimable(r) ==
    /\ r.exists /\ r.enabled /\ r.due
    /\ r.status # "running" \/ r.stale

\* ClaimDueTasks: all due rows in one statement; the guard puts the next run
\* ahead, and what the row said of the run before is cleared.
ClaimDueTasks(p) ==
    LET due == {s \in Sched : Claimable(row[s])} IN
    /\ pass[p] = IdlePass
    /\ due # {}
    /\ pass' = [pass EXCEPT ![p].todo = {<<s, row[s].cron>> : s \in due}]
    /\ row' = [s \in Sched |->
                 IF s \in due
                 THEN [row[s] EXCEPT !.status = "running", !.err = {}, !.upid = {},
                                     !.due = FALSE, !.stale = FALSE]
                 ELSE row[s]]
    /\ UNCHANGED <<taskVars, late, spent>>

\* executeTask up to the call: a client, the node's membership, the call.
\* What fails on the way is the run's error, a call that names no task included.
Dispatch(p) ==
    /\ pass[p].pc = "idle"
    /\ \E e \in pass[p].todo :
         \/ \E u \in NewUpid :
              /\ pve' = [pve EXCEPT ![u] = "running"]
              /\ pass' = [pass EXCEPT ![p] = [pc |-> "posted", todo |-> @.todo \ {e},
                                              cur |-> {e}, task |-> {u}]]
              /\ UNCHANGED spent
         \/ /\ Trouble
            /\ pass' = [pass EXCEPT ![p] = [pc |-> "finish", todo |-> @.todo \ {e},
                                            cur |-> {e}, task |-> {}]]
            /\ UNCHANGED pve
    /\ UNCHANGED <<rowVars, gone, th, audit>>

\* Mutant: the audit entry is written although the task row was not.
trackTaskAuditsAlways(p) ==
    /\ pass[p].pc = "posted"
    /\ \/ th' = [u \in Upid |-> IF u \in pass[p].task /\ th[u] = "none" THEN "running" ELSE th[u]]
          /\ UNCHANGED spent
       \/ Trouble /\ UNCHANGED th
    /\ audit' = audit \cup pass[p].task
    /\ pass' = [pass EXCEPT ![p].pc = "finish"]
    /\ UNCHANGED <<rowVars, pve, gone>>

\* trackTask: the task row, then the audit entry; without the first (a failed
\* insert, a row the collector wrote already) not the second either.
trackTask(p) ==
    /\ pass[p].pc = "posted"
    /\ \/ /\ \A u \in pass[p].task : th[u] = "none"
          /\ th' = [u \in Upid |-> IF u \in pass[p].task THEN "running" ELSE th[u]]
          /\ audit' = audit \cup pass[p].task
          /\ UNCHANGED spent
       \/ /\ \E u \in pass[p].task : th[u] # "none"
          /\ UNCHANGED <<th, audit, spent>>
       \/ Trouble /\ UNCHANGED <<th, audit>>
    /\ pass' = [pass EXCEPT ![p].pc = "finish"]
    /\ UNCHANGED <<rowVars, pve, gone>>

RunStatus(task) == IF task = {} THEN "failed" ELSE "dispatched"
RunError(task) == IF task = {} THEN {"run"} ELSE {}

\* UpdateTaskLastRun and DisableScheduledTaskForBadSchedule: neither looks at
\* the claim it replaces.
UpdateTaskLastRun(r, task) ==
    [r EXCEPT !.status = RunStatus(task), !.err = RunError(task), !.upid = task,
              !.due = FALSE, !.stale = FALSE]

\* Mutant: a cron that never fires again leaves next_run_at NULL, which is due.
parkAsDue(r, task) ==
    [r EXCEPT !.status = RunStatus(task), !.err = RunError(task) \cup {"disabled"},
              !.upid = task, !.due = TRUE, !.stale = FALSE]

parkUnschedulableTask(r, task) ==
    [r EXCEPT !.enabled = FALSE, !.status = RunStatus(task),
              !.err = RunError(task) \cup {"disabled"}, !.upid = task,
              !.due = TRUE, !.stale = FALSE]

\* finishTaskRun, with the cron the row had when it was claimed.  The write may
\* fail, and the row may be gone.
finishTaskRun(p) ==
    /\ pass[p].pc = "finish"
    /\ LET e == CHOOSE x \in pass[p].cur : TRUE
           s == e[1]
           done == IF e[2] = "good" THEN UpdateTaskLastRun(row[s], pass[p].task)
                                    ELSE parkUnschedulableTask(row[s], pass[p].task)
       IN  \/ row' = [row EXCEPT ![s] = IF @.exists THEN done ELSE @] /\ UNCHANGED spent
           \/ Trouble /\ UNCHANGED row
    /\ pass' = [pass EXCEPT ![p] = [IdlePass EXCEPT !.todo = pass[p].todo]]
    /\ late' = late \cap {s \in Sched : Held(s)'}
    /\ UNCHANGED taskVars

\* The process dies in the middle of a pass; nothing of the pass is stored.
Crash(p) ==
    /\ Trouble
    /\ pass[p] # IdlePass
    /\ pass' = [pass EXCEPT ![p] = IdlePass]
    /\ late' = late \cap {s \in Sched : Held(s)'}
    /\ UNCHANGED <<row, taskVars>>

-----------------------------------------------------------------------------
(* Settling.                                                                *)

\* Mutant: any finished task settles the run.
SettlesAny(s, u) == row[s].status = "dispatched" /\ th[u] \in {"completed", "failed"}

Settles(s, u) ==
    /\ row[s].exists /\ row[s].status = "dispatched"
    /\ u \in row[s].upid
    /\ th[u] \in {"completed", "failed"}

\* ReconcileDispatchedScheduledTasks: the message goes in front of last_error.
RunScheduledTaskReconcile(s, u) ==
    /\ Settles(s, u)
    /\ row' = [row EXCEPT ![s].status = IF th[u] = "completed" THEN "success" ELSE "failed",
                          ![s].err = IF th[u] = "failed" THEN @ \cup {"run"} ELSE @]
    /\ UNCHANGED <<pass, taskVars, late, spent>>

-----------------------------------------------------------------------------
(* Requests.                                                                *)

\* Update: a cron that fires, and the enabled flag; next_run_at stays.
Update(s, enabled) ==
    /\ Trouble /\ row[s].exists
    /\ row' = [row EXCEPT ![s].cron = "good", ![s].enabled = enabled]
    /\ UNCHANGED <<pass, taskVars, late>>

Delete(s) ==
    /\ Trouble /\ row[s].exists
    /\ row' = [row EXCEPT ![s] = NoRow]
    /\ UNCHANGED <<pass, taskVars, late>>

-----------------------------------------------------------------------------
(* Clocks, Proxmox, the collector.                                          *)

\* The clock passes next_run_at.
BecomesDue(s) ==
    /\ row[s].exists /\ ~row[s].due
    /\ row' = [row EXCEPT ![s].due = TRUE]
    /\ UNCHANGED <<pass, taskVars, late, spent>>

\* taskClaimStaleSeconds pass after the claim, its holder alive or not.
ClaimGoesStale(s) ==
    /\ row[s].status = "running" /\ ~row[s].stale
    /\ row' = [row EXCEPT ![s].stale = TRUE]
    /\ late' = IF Held(s) THEN late \cup {s} ELSE late
    /\ UNCHANGED <<pass, taskVars, spent>>

TaskEnds(u) ==
    /\ pve[u] = "running"
    /\ \/ pve' = [pve EXCEPT ![u] = "ok"] /\ UNCHANGED spent
       \/ pve' = [pve EXCEPT ![u] = "err"] /\ Trouble
    /\ UNCHANGED <<row, pass, gone, th, audit, late>>

\* A reboot of the node, a rotated log: no status is returned any more.
RecordLost(u) ==
    /\ pve[u] # "none" /\ u \notin gone /\ Trouble
    /\ gone' = gone \cup {u}
    /\ pve' = [pve EXCEPT ![u] = IF @ = "running" THEN "err" ELSE @]
    /\ UNCHANGED <<row, pass, th, audit, late>>

Verdict(u) ==
    CASE pve[u] = "running" -> "running"
      [] pve[u] = "ok" /\ u \notin gone -> "completed"
      [] OTHER -> "failed"

\* ingestTask: a listed task that neither a row nor an audit entry names.
CollectorIngest(u) ==
    /\ pve[u] # "none" /\ u \notin gone
    /\ th[u] = "none" /\ u \notin audit
    /\ th' = [th EXCEPT ![u] = Verdict(u)]
    /\ UNCHANGED <<row, pass, pve, gone, audit, late, spent>>

\* reconcileRunningTasks, "vanished" after staleTaskGrace included.
CollectorReconcile(u) ==
    /\ th[u] = "running" /\ pve[u] # "running"
    /\ th' = [th EXCEPT ![u] = Verdict(u)]
    /\ UNCHANGED <<row, pass, pve, gone, audit, late, spent>>

\* RunTaskRetention: a finished task nobody refers to is dropped, and its name
\* may stand for a later task.
RunTaskRetention(u) ==
    /\ pve[u] \in {"ok", "err"} /\ th[u] # "running"
    /\ th[u] # "none" \/ u \in gone
    /\ \A s \in Sched : row[s].exists => u \notin row[s].upid
    /\ \A p \in Proc : u \notin pass[p].task
    /\ pve' = [pve EXCEPT ![u] = "none"] /\ th' = [th EXCEPT ![u] = "none"]
    /\ gone' = gone \ {u} /\ audit' = audit \ {u}
    /\ UNCHANGED <<row, pass, late, spent>>

ProcStep(p) == ClaimDueTasks(p) \/ Dispatch(p) \/ trackTask(p) \/ finishTaskRun(p)
TaskStep(u) == TaskEnds(u) \/ CollectorIngest(u) \/ CollectorReconcile(u) \/ RunTaskRetention(u)

Next ==
    \/ \E p \in Proc : ProcStep(p) \/ Crash(p)
    \/ \E s \in Sched : \/ BecomesDue(s) \/ ClaimGoesStale(s) \/ Delete(s)
                        \/ \E enabled \in BOOLEAN : Update(s, enabled)
                        \/ \E u \in Upid : RunScheduledTaskReconcile(s, u)
    \/ \E u \in Upid : TaskStep(u) \/ RecordLost(u)

Spec == Init /\ [][Next]_vars

\* The ticks of the leader go on, clocks too, tasks end, the collector runs.
FairSpec ==
    /\ Spec
    /\ \A p \in Proc : WF_vars(ProcStep(p))
    /\ \A u \in Upid : WF_vars(TaskStep(u))
    /\ \A s \in Sched : /\ WF_vars(BecomesDue(s)) /\ WF_vars(ClaimGoesStale(s))
                        /\ \A u \in Upid : WF_vars(RunScheduledTaskReconcile(s, u))

-----------------------------------------------------------------------------
(* Properties.                                                              *)

\* Two passes hold the same row only if the claim of one of them outlived
\* taskClaimStaleSeconds: overlapping leaders alone never run a row twice.
OverlapOnlyAfterStale ==
    \A s \in Sched : \A p, q \in Proc :
        p # q /\ Holds(p, s) /\ Holds(q, s) => s \in late

\* A run's recorded outcome is that of the task the row itself names, however
\* claims, late writes and the tasks of earlier runs interleave.
OutcomeIsOwn ==
    \A s \in Sched : row[s].exists =>
        /\ row[s].status = "success" => \E u \in row[s].upid : pve[u] = "ok"
        /\ row[s].status = "failed" =>
             \A u \in row[s].upid : pve[u] = "err" \/ u \in gone

\* A dispatched run does not stay dispatched, and a claimed one not claimed,
\* whoever crashed: unless the task's record was lost before anyone stored it,
\* or the schedule was disabled or deleted under its claim.
RunsSettle ==
    \A s \in Sched :
        /\ []<>(row[s].status # "dispatched" \/ \E u \in row[s].upid \cap gone : th[u] = "none")
        /\ []<>(row[s].status # "running" \/ ~row[s].enabled)

\* A cron that can never fire again does not keep its row running.
BadScheduleStops ==
    \A s \in Sched : <>[](row[s].cron = "bad" /\ row[s].exists => ~row[s].enabled)
=============================================================================

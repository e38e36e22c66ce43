-------------------------- MODULE MigrationJobsProof --------------------------
(***************************************************************************)
(* Proofs about MigrationJobs, for any number of executions and disks and  *)
(* any bounds: types, what a completed job has moved, who is behind a row  *)
(* that says "migrating", and that a settled task row stays as it is.      *)
(***************************************************************************)
EXTENDS MigrationJobs, FiniteSetTheorems, TLAPS

Goroutine == [pc : Points, todo : SUBSET Disk, step : Step, lost : BOOLEAN, stale : BOOLEAN,
              end : {"completed", "failed"}]
TaskRows == [Task -> {"none", "running", "completed", "failed"}]
Missing == [job : BOOLEAN, rows : SUBSET Task]

LivePhase == {"live", "posted", "started", "poll", "ended", "half"}
Moving == {"diskPosted", "diskNamed", "diskWait"}
DiskPhase == {"plan", "disk"} \cup Moving

-----------------------------------------------------------------------------
(* The invariant.                                                           *)

\* A task that ended well had its effect, and nothing undoes it.
Effect(t, a, m) == IF t[2] = "live" THEN a = "target" ELSE t[2] \in m
Effects == \A t \in Task : pve[t] = "ok" => Effect(t, at, moved)

\* What CompletedMeansMoved says of a completed job.
Done(k, a, m) == (k # "storage" => a = "target") /\ (k \in {"storage", "both"} => m = Disk)

\* Where a goroutine x of a job of kind k can be while the guest is at a and the
\* disks in m are moved: every disk is moved, planned or being moved, and what the
\* goroutine is about to report is so.
OnPath(x, k, a, m) ==
    /\ x.pc \in LivePhase => k # "storage"
    /\ x.pc = "ended" /\ x.end = "completed" => a = "target"
    /\ x.pc = "half" => k = "both" /\ a = "target"
    /\ x.pc = "done" /\ x.end = "completed" => Done(k, a, m)
    /\ x.pc \in DiskPhase => k = "storage" \/ (k = "both" /\ a = "target")
    /\ x.pc = "disk" => Disk \subseteq m \cup x.todo
    /\ x.pc \in Moving => x.step \in Disk /\ Disk \subseteq m \cup x.todo \cup {x.step}

OnPaths == \A w \in Worker : OnPath(work[w], kind, at, moved)

Inv == TypeOK /\ Effects /\ OnPaths /\ CompletedMeansMoved /\ MigratingHasWorker

-----------------------------------------------------------------------------
(* Lemmas on the statements.                                                *)

\* The tasks of a worker.
LEMMA Tasks ==
  ASSUME NEW w \in Worker, NEW s \in Step
  PROVE  <<w, s>> \in Task /\ <<w, s>>[2] = s
BY DEF Task

\* A step is the live migration or a disk.
LEMMA Steps == /\ "live" \in Step /\ Disk \subseteq Step
               /\ \A t \in Task : t[2] \in Step /\ (t[2] = "live" \/ t[2] \in Disk)
BY DEF Step, Task

\* A bounded event.
LEMMA FaultType ==
  ASSUME TypeOK, Fault \/ UNCHANGED spent
  PROVE  spent' \in [faults : 0 .. MaxFaults, checks : 0 .. MaxChecks, stops : 0 .. MaxStops]
BY MigrationBounds DEF TypeOK, Fault

\* The idle goroutine.
LEMMA NoWorkType == NoWork \in Goroutine /\ NoWork.pc = "idle"
BY DEF NoWork, Goroutine, Points, Step

\* A verdict is an outcome of a task row, and a good one says what the task did.
LEMMA VerdictType ==
  ASSUME NEW t
  PROVE  Verdict(t) \in {"completed", "failed"} /\ (Verdict(t) = "completed" => pve[t] = "ok")
BY DEF Verdict

\* The statements on a task row keep its type and settle it once.
LEMMA RowType ==
  ASSUME TypeOK, NEW t \in Task, NEW outcome \in {"completed", "failed"},
         InsertTaskHistory(t) \/ ReconcileTaskHistory(t, outcome) \/ UNCHANGED row
  PROVE  /\ row' \in TaskRows
         /\ \A u \in Task : row[u] \in {"completed", "failed"} => row'[u] = row[u]
BY DEF TypeOK, InsertTaskHistory, ReconcileTaskHistory, TaskRows

\* What is missed stays missed.
LEMMA MissedType ==
  ASSUME TypeOK, NEW t \in Task, MissJob \/ MissRow(t) \/ UNCHANGED missed
  PROVE  missed' \in Missing /\ (missed.job => missed'.job)
<1>0. missed \in Missing
  BY DEF TypeOK, Missing
<1>1. CASE MissJob
  BY <1>0, <1>1 DEF MissJob, Missing
<1>2. CASE MissRow(t)
  <2>1. missed' = [missed EXCEPT !.rows = missed.rows \cup {t}] /\ missed.rows \cup {t} \in SUBSET Task
    BY <1>0, <1>2 DEF MissRow, Missing
  <2>2. missed' \in Missing
    BY <1>0, <2>1 DEF Missing
  <2>3. missed'.job = missed.job
    BY <1>0, <2>1 DEF Missing
  <2>4. QED
    BY <2>2, <2>3
<1>3. QED
  BY <1>0, <1>1, <1>2

\* abandonTaskRow settles the row, or fails to.
LEMMA Abandoned ==
  ASSUME TypeOK, NEW t \in Task, abandonTaskRow(t)
  PROVE  /\ ReconcileTaskHistory(t, "failed") \/ UNCHANGED row
         /\ row' \in TaskRows /\ missed' \in Missing /\ (missed.job => missed'.job)
         /\ Fault \/ UNCHANGED spent
<1>1. /\ ReconcileTaskHistory(t, "failed") \/ UNCHANGED row
      /\ MissRow(t) \/ UNCHANGED missed
      /\ Fault \/ UNCHANGED spent
  BY DEF abandonTaskRow
<1>2. QED
  BY <1>1, RowType, MissedType

\* At most one task is named.
LEMMA OneNamed ==
  ASSUME NEW t \in Task
  PROVE  {t} \in SUBSET Task /\ Cardinality({t}) <= 1
<1>1. Cardinality({t}) = 1
  BY FS_Singleton
<1>2. QED
  BY <1>1

\* A goroutine goes on.
LEMMA Goes ==
  ASSUME TypeOK, NEW w \in Worker, NEW p \in Points, Goto(w, p)
  PROVE  \E x \in Goroutine : /\ work' = [work EXCEPT ![w] = x] /\ x.pc = p
                              /\ x.todo = work[w].todo /\ x.step = work[w].step /\ x.end = work[w].end
<1> DEFINE x == [work[w] EXCEPT !.pc = p]
<1>1. work' = [work EXCEPT ![w] = x]
  BY DEF Goto
<1>2. x \in Goroutine /\ x.pc = p /\ x.todo = work[w].todo /\ x.step = work[w].step /\ x.end = work[w].end
  BY DEF TypeOK, Goroutine
<1>3. QED
  BY <1>1, <1>2

\* A goroutine goes on with an outcome learnt.
LEMMA Learns ==
  ASSUME TypeOK, NEW w \in Worker, NEW p \in Points, NEW end \in {"completed", "failed"},
         work' = [work EXCEPT ![w].pc = p, ![w].end = end]
  PROVE  \E x \in Goroutine : work' = [work EXCEPT ![w] = x] /\ x.pc = p /\ x.end = end
<1> DEFINE x == [work[w] EXCEPT !.pc = p, !.end = end]
<1>1. work' = [work EXCEPT ![w] = x]
  BY DEF TypeOK
<1>2. x \in Goroutine /\ x.pc = p /\ x.end = end
  BY DEF TypeOK, Goroutine
<1>3. QED
  BY <1>1, <1>2

\* A path stays one while tasks have their effects.
LEMMA PathKeeps ==
  ASSUME NEW x, NEW k, NEW a, NEW m, NEW b, NEW n, OnPath(x, k, a, m),
         a = "target" => b = "target", m \subseteq n, n \subseteq Disk
  PROVE  OnPath(x, k, b, n)
BY DEF OnPath, Done

\* A step of a goroutine.  It leaves with an outcome written, or written to no
\* effect, and reports the job completed only when it is done.
LEMMA WorkerInv ==
  ASSUME Inv, NEW w \in Worker, NEW x \in Goroutine, work' = [work EXCEPT ![w] = x],
         OnPath(x, kind, at, moved), x.pc = "idle" => status' # "migrating" \/ missed'.job,
         status' = "completed" /\ status # "completed" => Done(kind, at, moved),
         status' \in Statuses, upid' \in SUBSET Task, Cardinality(upid') <= 1,
         pve' \in [Task -> {"none", "running", "ok", "err", "gone"}],
         \A t \in Task : pve'[t] = "ok" => pve[t] = "ok",
         row' \in TaskRows, missed' \in Missing, missed.job => missed'.job,
         UNCHANGED <<kind, check, aged, at, moved, stop>>, Fault \/ UNCHANGED spent
  PROVE  Inv'
<1>0. /\ TypeOK /\ work \in [Worker -> Goroutine]
      /\ work'[w] = x /\ \A v \in Worker \ {w} : work'[v] = work[v]
  BY DEF Inv, TypeOK, Goroutine
<1>1. work' \in [Worker -> Goroutine]
  BY <1>0
<1>2. TypeOK'
  BY <1>0, <1>1, FaultType DEF TypeOK, Goroutine, TaskRows, Missing
<1>3. Effects'
  BY DEF Inv, Effects, Effect
<1>4. OnPaths'
  BY <1>0 DEF Inv, OnPaths
<1>5. CompletedMeansMoved'
  BY DEF Inv, CompletedMeansMoved, Done
<1>6. MigratingHasWorker'
  <2> SUFFICES ASSUME status' = "migrating", ~missed'.job
               PROVE  \E v \in Worker : work'[v].pc # "idle"
    BY DEF MigratingHasWorker
  <2>1. QED
    BY <1>0
<1>7. QED
  BY <1>2, <1>3, <1>4, <1>5, <1>6 DEF Inv

\* The goroutine is gone.
LEMMA LeaveInv ==
  ASSUME Inv, NEW w \in Worker, Leave(w), UNCHANGED <<kind, upid, check, outVars, rowVars, stop>>,
         status' \in {"completed", "failed"} \/ (status' = status /\ missed'.job),
         status' = "completed" /\ status # "completed" => Done(kind, at, moved),
         missed' \in Missing, missed.job => missed'.job, Fault \/ UNCHANGED spent
  PROVE  Inv'
<1>1. work' = [work EXCEPT ![w] = NoWork]
  BY DEF Leave
<1>2. OnPath(NoWork, kind, at, moved)
  BY NoWorkType DEF OnPath, LivePhase, DiskPhase, Moving
<1>3. /\ status' \in Statuses /\ upid' \in SUBSET Task /\ Cardinality(upid') <= 1
      /\ pve' = pve /\ pve \in [Task -> {"none", "running", "ok", "err", "gone"}]
      /\ row' \in TaskRows /\ UNCHANGED <<aged, at, moved>>
      /\ (status' # "migrating" \/ missed'.job)
  BY DEF Inv, TypeOK, Statuses, Terminal, outVars, rowVars, TaskRows
<1>4. QED
  BY <1>1, <1>2, <1>3, NoWorkType, WorkerInv

\* The goroutine goes on to another point, the job row as it is or named anew.
LEMMA GotoInv ==
  ASSUME Inv, NEW w \in Worker, NEW x \in Goroutine, work' = [work EXCEPT ![w] = x], x.pc # "idle",
         OnPath(x, kind, at, moved), status' \in {status, "migrating"},
         upid' = upid \/ \E t \in Task : upid' = {t},
         UNCHANGED <<kind, check, outVars, aged, stop>>, Fault \/ UNCHANGED spent,
         row' \in TaskRows, missed' \in Missing, missed.job => missed'.job
  PROVE  Inv'
<1>1. status' \in Statuses /\ pve' = pve /\ pve \in [Task -> {"none", "running", "ok", "err", "gone"}]
      /\ UNCHANGED <<at, moved>>
  BY DEF Inv, TypeOK, Statuses, outVars
<1>2. upid' \in SUBSET Task /\ Cardinality(upid') <= 1
  BY OneNamed DEF Inv, TypeOK
<1>3. QED
  BY <1>1, <1>2, WorkerInv

\* Rows that nobody writes keep their types.
LEMMA Untouched ==
  ASSUME TypeOK
  PROVE  /\ row \in TaskRows /\ (UNCHANGED rowVars => row' \in TaskRows /\ UNCHANGED <<row, aged>>)
         /\ UNCHANGED missed => missed' \in Missing /\ (missed.job => missed'.job)
         /\ UNCHANGED stopVars => stop' = stop /\ missed' \in Missing /\ (missed.job => missed'.job)
         /\ UNCHANGED jobVars => status' = status /\ upid' = upid
BY DEF TypeOK, TaskRows, Missing, rowVars, stopVars, jobVars

\* The goroutine goes on to fail the job.
LEMMA FailingInv ==
  ASSUME Inv, NEW w \in Worker, Goto(w, "failing"),
         UNCHANGED <<kind, jobVars, check, outVars, aged, stop>>, Fault \/ UNCHANGED spent,
         row' \in TaskRows, missed' \in Missing, missed.job => missed'.job
  PROVE  Inv'
<1>1. PICK x \in Goroutine : work' = [work EXCEPT ![w] = x] /\ x.pc = "failing"
  BY Goes DEF Inv, Points
<1>2. OnPath(x, kind, at, moved)
  BY <1>1 DEF OnPath, LivePhase, DiskPhase, Moving
<1>3. QED
  BY <1>1, <1>2, GotoInv DEF jobVars

\* A step of a request, of the collector or of Proxmox that has no effect on the guest.
LEMMA AsideInv ==
  ASSUME Inv, TypeOK', UNCHANGED <<kind, work, at, moved, missed>>,
         status' = status \/ status' \notin {"migrating", "completed"},
         stop' = stop \/ stop = "no",
         \A t \in Task : pve'[t] = "ok" => pve[t] = "ok"
  PROVE  Inv'
<1>1. Effects' /\ OnPaths'
  BY DEF Inv, Effects, Effect, OnPaths
<1>2. CompletedMeansMoved' /\ MigratingHasWorker'
  BY DEF Inv, CompletedMeansMoved, MigratingHasWorker
<1>3. QED
  BY <1>1, <1>2 DEF Inv

-----------------------------------------------------------------------------
(* One lemma per action.                                                    *)

\* A job starts as pending, with nothing done.
LEMMA InitInv == Init => Inv
<1> SUFFICES ASSUME Init PROVE Inv
  OBVIOUS
<1>0. work = [w \in Worker |-> NoWork]
  BY DEF Init
<1>1. TypeOK
  <2>1. kind \in AllKinds /\ moved \in SUBSET Disk
    BY KindAssumption DEF Init
  <2>2. work \in [Worker -> Goroutine]
    BY <1>0, NoWorkType
  <2>3. upid \in SUBSET Task /\ Cardinality(upid) <= 1
    BY FS_EmptySet DEF Init, NoTask
  <2>4. spent \in [faults : 0 .. MaxFaults, checks : 0 .. MaxChecks, stops : 0 .. MaxStops]
    BY MigrationBounds DEF Init
  <2>5. QED
    BY <2>1, <2>2, <2>3, <2>4 DEF Init, TypeOK, Goroutine, Statuses, TaskRows
<1>2. Effects
  BY DEF Init, Effects
<1>3. OnPaths
  BY <1>0, NoWorkType DEF OnPaths, OnPath, LivePhase, DiskPhase, Moving
<1>4. QED
  BY <1>1, <1>2, <1>3 DEF Inv, Init, CompletedMeansMoved, MigratingHasWorker

\* An execution begins.
LEMMA ExecuteInv ==
  ASSUME Inv, NEW w \in Worker, Execute(w)
  PROVE  Inv'
<1>1. PICK x \in Goroutine : work' = [work EXCEPT ![w] = x] /\ x.pc = "begun"
  BY Goes DEF Inv, Execute, Points
<1>2. OnPath(x, kind, at, moved)
  BY <1>1 DEF OnPath, LivePhase, DiskPhase, Moving
<1>3. QED
  BY <1>1, <1>2, GotoInv, Untouched DEF Execute, jobVars, rowVars, stopVars, Inv

\* A check starts, reports, or a request cancels the job.
LEMMA RequestInv ==
  ASSUME Inv, RunCheck \/ SaveCheckResults \/ CancelMigrationJob
  PROVE  Inv'
<1>0. TypeOK
  BY DEF Inv
<1>1. CASE RunCheck
  <2>1. TypeOK'
    BY <1>0, <1>1, MigrationBounds DEF TypeOK, RunCheck, outVars, rowVars, stopVars, Statuses
  <2>2. QED
    BY <1>1, <2>1, AsideInv DEF RunCheck, outVars, stopVars
<1>2. CASE SaveCheckResults
  <2>1. Reported[kind] \subseteq {"pending", "failed"}
    BY <1>0 DEF Reported, TypeOK
  <2>2. status' = status \/ status' \in {"pending", "failed"}
    BY <1>2, <2>1 DEF SaveCheckResults
  <2>3. TypeOK'
    BY <1>0, <1>2, <2>2, FaultType DEF TypeOK, SaveCheckResults, outVars, rowVars, stopVars, Statuses, Terminal
  <2>4. QED
    BY <1>2, <2>2, <2>3, AsideInv DEF SaveCheckResults, outVars, stopVars
<1>3. CASE CancelMigrationJob
  <2>1. TypeOK'
    BY <1>0, <1>3 DEF TypeOK, CancelMigrationJob, outVars, rowVars, stopVars, Statuses, Terminal
  <2>2. QED
    BY <1>3, <2>1, AsideInv DEF CancelMigrationJob, outVars, stopVars
<1>4. QED
  BY <1>1, <1>2, <1>3

\* The path of the job's kind.
LEMMA DispatchInv ==
  ASSUME Inv, NEW w \in Worker, Dispatch(w)
  PROVE  Inv'
<1>0. /\ TypeOK /\ row' \in TaskRows /\ missed' \in Missing /\ (missed.job => missed'.job)
      /\ UNCHANGED <<kind, jobVars, status, upid, check, outVars, aged, stop>>
  BY Untouched DEF Inv, Dispatch
<1>1. CASE Fault /\ Goto(w, "failing")
  BY <1>0, <1>1, FailingInv
<1>2. CASE Goto(w, IF kind = "storage" THEN "plan" ELSE "live") /\ UNCHANGED spent
  <2>1. PICK p \in Points : p = (IF kind = "storage" THEN "plan" ELSE "live")
    BY DEF Points
  <2>2. PICK x \in Goroutine : work' = [work EXCEPT ![w] = x] /\ x.pc = p
    BY <1>0, <1>2, <2>1, Goes
  <2>3. OnPath(x, kind, at, moved) /\ x.pc # "idle"
    BY <2>1, <2>2 DEF OnPath, LivePhase, DiskPhase, Moving
  <2>4. QED
    BY <1>0, <1>2, <2>2, <2>3, GotoInv
<1>3. QED
  BY <1>1, <1>2 DEF Dispatch

\* A call starts the task t of a goroutine.
LEMMA PostedInv ==
  ASSUME Inv, NEW w \in Worker, NEW t \in Task, pve' = [pve EXCEPT ![t] = "running"],
         NEW x \in Goroutine, work' = [work EXCEPT ![w] = x], x.pc # "idle", OnPath(x, kind, at, moved),
         UNCHANGED <<kind, jobVars, check, at, moved, rowVars, stopVars, spent>>
  PROVE  Inv'
<1>1. /\ pve' \in [Task -> {"none", "running", "ok", "err", "gone"}]
      /\ \A u \in Task : pve'[u] = "ok" => pve[u] = "ok"
      /\ row' \in TaskRows /\ missed' \in Missing /\ (missed.job => missed'.job)
      /\ status' = status /\ status' \in Statuses /\ upid' \in SUBSET Task /\ Cardinality(upid') <= 1
      /\ UNCHANGED <<row, aged, stop>>
  BY Untouched DEF Inv, TypeOK, jobVars
<1>2. QED
  BY <1>1, WorkerInv

\* The live migration is asked for.
LEMMA PostMigrateInv ==
  ASSUME Inv, NEW w \in Worker, PostMigrate(w)
  PROVE  Inv'
<1>0. /\ TypeOK /\ work[w] \in Goroutine /\ work[w].pc = "live" /\ OnPath(work[w], kind, at, moved)
      /\ UNCHANGED <<kind, jobVars, check, at, moved, rowVars, stopVars>> /\ <<w, "live">> \in Task
  BY Tasks, Steps DEF Inv, TypeOK, Goroutine, PostMigrate, OnPaths
<1>1. CASE Goto(w, "failing") /\ UNCHANGED pve /\ (Fault \/ UNCHANGED spent)
  <2>1. /\ row' \in TaskRows /\ UNCHANGED <<outVars, aged, stop>>
        /\ missed' \in Missing /\ (missed.job => missed'.job)
    BY <1>0, <1>1, Untouched DEF outVars
  <2>2. QED
    BY <1>0, <1>1, <2>1, FailingInv
<1>2. CASE /\ pve' = [pve EXCEPT ![<<w, "live">>] = "running"]
           /\ work' = [work EXCEPT ![w].pc = "posted", ![w].step = "live"]
           /\ UNCHANGED spent
  <2> DEFINE x == [work[w] EXCEPT !.pc = "posted", !.step = "live"]
  <2>1. x \in Goroutine /\ x.pc = "posted"
    BY <1>0, Steps DEF Goroutine, Points
  <2>2. work' = [work EXCEPT ![w] = x]
    BY <1>0, <1>2 DEF TypeOK
  <2> HIDE DEF x
  <2>3. OnPath(x, kind, at, moved)
    BY <1>0, <2>1 DEF OnPath, LivePhase, DiskPhase, Moving
  <2>4. QED
    BY <1>0, <1>2, <2>1, <2>2, <2>3, PostedInv
<1>3. QED
  BY <1>1, <1>2 DEF PostMigrate

\* The rows name the live migration, or fail to.
LEMMA StartedInv ==
  ASSUME Inv, NEW w \in Worker, MarkStarted(w) \/ RecordTask(w)
  PROVE  Inv'
<1>0. /\ TypeOK /\ work[w].pc \in {"posted", "started"} /\ OnPath(work[w], kind, at, moved)
      /\ <<w, "live">> \in Task
  BY Tasks, Steps DEF Inv, MarkStarted, RecordTask, OnPaths
<1>1. PICK p \in {"started", "poll"} : Goto(w, p)
  BY DEF MarkStarted, RecordTask
<1>2. PICK x \in Goroutine : work' = [work EXCEPT ![w] = x] /\ x.pc = p
  BY <1>0, <1>1, Goes DEF Points
<1>3. OnPath(x, kind, at, moved) /\ x.pc # "idle"
  BY <1>0, <1>2 DEF OnPath, LivePhase, DiskPhase, Moving
<1>4. CASE MarkStarted(w)
  <2>1. /\ status' \in {status, "migrating"} /\ (upid' = upid \/ upid' = {<<w, "live">>})
        /\ Fault \/ UNCHANGED spent
    BY <1>4 DEF Attempt, MarkStarted, SetMigrationJobStarted, jobVars
  <2>2. /\ UNCHANGED <<kind, check, outVars, aged, stop>>
        /\ row' \in TaskRows /\ missed' \in Missing /\ (missed.job => missed'.job)
    BY <1>0, <1>4, Untouched DEF MarkStarted
  <2>3. QED
    BY <1>0, <1>2, <1>3, <2>1, <2>2, GotoInv
<1>5. CASE RecordTask(w)
  <2>1. (InsertTaskHistory(<<w, "live">>) \/ UNCHANGED row) /\ (Fault \/ UNCHANGED spent)
    BY <1>5 DEF Attempt, RecordTask
  <2>2. /\ status' = status /\ upid' = upid /\ UNCHANGED <<kind, check, outVars, aged, stop>>
        /\ missed' \in Missing /\ (missed.job => missed'.job)
    BY <1>0, <1>5, Untouched DEF RecordTask
  <2>3. row' \in TaskRows
    BY <1>0, <2>1, RowType
  <2>4. QED
    BY <1>2, <1>3, <2>1, <2>2, <2>3, GotoInv
<1>6. QED
  BY <1>4, <1>5

\* The goroutine learns that the live migration has ended.
LEMMA TaskEndedInv ==
  ASSUME Inv, NEW w \in Worker, TaskEnded(w)
  PROVE  Inv'
<1> DEFINE t == <<w, "live">>
<1>0. /\ TypeOK /\ work[w].pc = "poll" /\ OnPath(work[w], kind, at, moved) /\ t \in Task
      /\ t[2] = "live" /\ UNCHANGED <<kind, status, upid, check, outVars, aged, stop, spent>>
      /\ row' \in TaskRows /\ missed' \in Missing /\ (missed.job => missed'.job)
  BY Tasks, Steps, Untouched DEF Inv, TaskEnded, OnPaths
<1>1. PICK end \in {"completed", "failed"} : end = Verdict(t) /\ (end = "completed" => pve[t] = "ok")
  BY VerdictType
<1>2. end = "completed" => at = "target"
  BY <1>0, <1>1 DEF Inv, Effects, Effect
<1>3. PICK x \in Goroutine : work' = [work EXCEPT ![w] = x] /\ x.pc = "ended" /\ x.end = end
  <2> DEFINE x == [work[w] EXCEPT !.pc = "ended", !.end = end]
  <2>1. work' = [work EXCEPT ![w] = x]
    BY <1>0, <1>1 DEF TaskEnded, TypeOK
  <2>2. x \in Goroutine /\ x.pc = "ended" /\ x.end = end
    <3>1. work[w] \in Goroutine /\ "ended" \in Points
      BY <1>0 DEF TypeOK, Goroutine, Points
    <3>2. QED
      BY <1>1, <3>1 DEF Goroutine
  <2>3. QED
    BY <2>1, <2>2
<1>4. OnPath(x, kind, at, moved)
  BY <1>0, <1>2, <1>3 DEF OnPath, LivePhase, DiskPhase, Moving
<1>5. QED
  BY <1>0, <1>3, <1>4, GotoInv

\* The task row is settled, or is not, and the goroutine goes on.
LEMMA SettleTaskInv ==
  ASSUME Inv, NEW w \in Worker, SettleTask(w)
  PROVE  Inv'
<1> DEFINE t == <<w, "live">>
<1>0. /\ TypeOK /\ work[w].pc = "ended" /\ OnPath(work[w], kind, at, moved) /\ t \in Task
      /\ work[w].end \in {"completed", "failed"}
      /\ UNCHANGED <<kind, status, upid, check, outVars, aged, stop>>
  BY Tasks, Steps, Untouched DEF Inv, SettleTask, OnPaths, TypeOK
<1>1. /\ \/ ReconcileTaskHistory(t, work[w].end) /\ UNCHANGED missed
         \/ MissRow(t) /\ UNCHANGED row
      /\ Fault \/ UNCHANGED spent
  BY DEF Attempt, SettleTask
<1>2. row' \in TaskRows /\ missed' \in Missing /\ (missed.job => missed'.job)
  BY <1>0, <1>1, RowType, MissedType
<1>3. PICK p \in {"done", "half", "failing"} :
         /\ Goto(w, p) /\ (p = "done" => kind # "both")
         /\ p = "half" => kind = "both" /\ work[w].end = "completed"
  BY DEF SettleTask
<1>4. PICK x \in Goroutine : work' = [work EXCEPT ![w] = x] /\ x.pc = p /\ x.end = work[w].end
  BY <1>0, <1>3, Goes DEF Points
<1>5. OnPath(x, kind, at, moved) /\ x.pc # "idle"
  BY <1>0, <1>3, <1>4 DEF OnPath, Done, LivePhase, DiskPhase, Moving
<1>6. QED
  BY <1>0, <1>1, <1>2, <1>4, <1>5, GotoInv

\* A two-phase job is between its phases.
LEMMA HalfwayInv ==
  ASSUME Inv, NEW w \in Worker, Halfway(w)
  PROVE  Inv'
<1>0. /\ TypeOK /\ work[w].pc = "half" /\ OnPath(work[w], kind, at, moved) /\ <<w, "live">> \in Task
      /\ UNCHANGED <<kind, status, check, outVars, aged, stop>>
      /\ row' \in TaskRows /\ missed' \in Missing /\ (missed.job => missed'.job)
  BY Tasks, Steps, Untouched DEF Inv, Halfway, OnPaths
<1>1. (upid' = {<<w, "live">>} \/ upid' = upid) /\ (Fault \/ UNCHANGED spent)
  BY DEF Attempt, Halfway, UpdateMigrationJobProgress
<1>2. PICK x \in Goroutine : work' = [work EXCEPT ![w] = x] /\ x.pc = "plan"
  BY <1>0, Goes DEF Halfway, Points
<1>3. OnPath(x, kind, at, moved)
  BY <1>0, <1>2 DEF OnPath, LivePhase, DiskPhase, Moving
<1>4. QED
  BY <1>0, <1>1, <1>2, <1>3, GotoInv

\* The outcome is written, or is not, and the goroutine is gone.
LEMMA ConcludeInv ==
  ASSUME Inv, NEW w \in Worker, Conclude(w) \/ failJob(w)
  PROVE  Inv'
<1>0. /\ TypeOK /\ OnPath(work[w], kind, at, moved) /\ Leave(w)
      /\ work[w].end \in {"completed", "failed"} /\ <<w, "live">> \in Task
      /\ UNCHANGED <<kind, upid, check, outVars, rowVars, stop>>
  BY Tasks, Steps DEF Inv, Conclude, failJob, OnPaths, TypeOK
<1>1. CASE Conclude(w)
  <2>1. /\ \/ status' = work[w].end /\ UNCHANGED missed
           \/ MissJob /\ UNCHANGED status
        /\ Fault \/ UNCHANGED spent
    BY <1>1 DEF Attempt, Conclude, CompleteMigrationJob
  <2>2. missed' \in Missing /\ (missed.job => missed'.job) /\ (MissJob => missed'.job)
    BY <1>0, <2>1, MissedType DEF MissJob, TypeOK
  <2>3. work[w].end = "completed" => Done(kind, at, moved)
    BY <1>0, <1>1 DEF OnPath, Conclude
  <2>4. QED
    BY <1>0, <2>1, <2>2, <2>3, LeaveInv
<1>2. CASE failJob(w)
  <2>1. /\ \/ status' = "failed" /\ UNCHANGED missed
           \/ MissJob /\ UNCHANGED status
        /\ Fault \/ UNCHANGED spent
    BY <1>2 DEF failJob, CompleteMigrationJob
  <2>2. missed' \in Missing /\ (missed.job => missed'.job) /\ (MissJob => missed'.job)
    BY <1>0, <2>1, MissedType DEF MissJob, TypeOK
  <2>3. QED
    BY <1>0, <2>1, <2>2, LeaveInv
<1>3. QED
  BY <1>1, <1>2

\* A goroutine that polls on: its step and its disks stay.
LEMMA PollsOn ==
  ASSUME Inv, NEW w \in Worker, work[w].pc = "poll",
         NEW lost \in BOOLEAN, NEW stale \in BOOLEAN,
         work' = [work EXCEPT ![w] = [@ EXCEPT !.lost = lost, !.stale = stale]],
         upid' = upid \/ upid' = {<<w, "live">>},
         UNCHANGED <<kind, status, check, outVars, rowVars, stopVars>>, Fault \/ UNCHANGED spent
  PROVE  Inv'
<1> DEFINE x == [work[w] EXCEPT !.lost = lost, !.stale = stale]
<1>0. TypeOK /\ work[w] \in Goroutine /\ OnPath(work[w], kind, at, moved) /\ <<w, "live">> \in Task
  BY Tasks, Steps DEF Inv, TypeOK, Goroutine, OnPaths
<1>1. x \in Goroutine /\ x.pc = "poll" /\ work' = [work EXCEPT ![w] = x]
  BY <1>0 DEF Goroutine
<1> HIDE DEF x
<1>2. OnPath(x, kind, at, moved)
  BY <1>0, <1>1 DEF OnPath, LivePhase, DiskPhase, Moving
<1>3. row' \in TaskRows /\ missed' \in Missing /\ (missed.job => missed'.job) /\ UNCHANGED <<aged, stop>>
  BY <1>0, Untouched
<1>4. QED
  BY <1>0, <1>1, <1>2, <1>3, GotoInv

\* A poll that finds the task running, is not answered, or gives up.
LEMMA PollInv ==
  ASSUME Inv, NEW w \in Worker, TaskRuns(w) \/ PollUnanswered(w) \/ GracePasses(w)
  PROVE  Inv'
<1>0. /\ TypeOK /\ work[w].pc = "poll" /\ work[w] \in Goroutine /\ <<w, "live">> \in Task
      /\ work[w].lost \in BOOLEAN /\ work[w].stale \in BOOLEAN
  BY Tasks, Steps DEF Inv, TypeOK, Goroutine, TaskRuns, PollUnanswered, GracePasses
<1>1. CASE TaskRuns(w)
  <2>1. work' = [work EXCEPT ![w] = [@ EXCEPT !.lost = FALSE, !.stale = FALSE]]
    BY <1>0, <1>1 DEF TaskRuns, TypeOK
  <2>2. (upid' = upid \/ upid' = {<<w, "live">>}) /\ (Fault \/ UNCHANGED spent)
    BY <1>1 DEF TaskRuns, Attempt, UpdateMigrationJobProgress
  <2>3. QED
    BY <1>0, <1>1, <2>1, <2>2, PollsOn DEF TaskRuns
<1>2. CASE GracePasses(w)
  <2>1. work' = [work EXCEPT ![w] = [@ EXCEPT !.lost = work[w].lost, !.stale = TRUE]]
    BY <1>0, <1>2 DEF GracePasses, TypeOK, Goroutine
  <2>2. QED
    BY <1>0, <1>2, <2>1, PollsOn DEF GracePasses, jobVars
<1>3. CASE PollUnanswered(w)
  <2>0. UNCHANGED <<kind, jobVars, check, outVars, aged, stop>>
    BY <1>3 DEF PollUnanswered
  <2>1. CASE work' = [work EXCEPT ![w].lost = TRUE] /\ UNCHANGED <<row, missed>> /\ (Fault \/ UNCHANGED spent)
    <3>1. work' = [work EXCEPT ![w] = [@ EXCEPT !.lost = TRUE, !.stale = work[w].stale]]
      BY <1>0, <2>1 DEF TypeOK, Goroutine
    <3>2. QED
      BY <1>0, <2>0, <2>1, <3>1, PollsOn DEF rowVars, stopVars, jobVars
  <2>2. CASE abandonTaskRow(<<w, "live">>) /\ Goto(w, "failing")
    BY <1>0, <2>0, <2>2, Abandoned, FailingInv
  <2>3. QED
    BY <1>3, <2>1, <2>2 DEF PollUnanswered
<1>4. QED
  BY <1>1, <1>2, <1>3

\* The context is done while the goroutine waits.
LEMMA InterruptedInv ==
  ASSUME Inv, NEW w \in Worker, Interrupted(w)
  PROVE  Inv'
<1>0. /\ <<w, "live">> \in Task /\ TypeOK /\ OnPath(work[w], kind, at, moved)
      /\ UNCHANGED <<kind, jobVars, status, upid, check, outVars, aged, stop>>
  BY Tasks, Steps DEF Inv, Interrupted, OnPaths, jobVars
<1>1. CASE abandonTaskRow(<<w, "live">>) /\ Goto(w, "failing")
  BY <1>0, <1>1, Abandoned, FailingInv
<1>2. CASE Goto(w, "failing") /\ UNCHANGED <<row, missed, spent>>
  BY <1>0, <1>2, Untouched, FailingInv
<1>3. CASE /\ work[w].pc = "poll" /\ work' = [work EXCEPT ![w].pc = "ended", ![w].end = "failed"]
           /\ UNCHANGED <<row, missed, spent>>
  <2>1. PICK x \in Goroutine : work' = [work EXCEPT ![w] = x] /\ x.pc = "ended" /\ x.end = "failed"
    BY <1>0, <1>3, Learns DEF Points
  <2>2. OnPath(x, kind, at, moved)
    BY <1>0, <1>3, <2>1 DEF OnPath, LivePhase, DiskPhase, Moving
  <2>3. row' \in TaskRows /\ missed' \in Missing /\ (missed.job => missed'.job)
    BY <1>0, <1>3, Untouched
  <2>4. QED
    BY <1>0, <1>3, <2>1, <2>2, <2>3, GotoInv
<1>4. QED
  BY <1>1, <1>2, <1>3 DEF Interrupted

\* The disks to move are resolved.
LEMMA PlanInv ==
  ASSUME Inv, NEW w \in Worker, Plan(w)
  PROVE  Inv'
<1>0. /\ TypeOK /\ work[w] \in Goroutine /\ work[w].pc = "plan" /\ OnPath(work[w], kind, at, moved)
      /\ UNCHANGED <<kind, jobVars, status, upid, check, outVars, aged, stop>>
      /\ row' \in TaskRows /\ missed' \in Missing /\ (missed.job => missed'.job)
  BY Untouched DEF Inv, TypeOK, Goroutine, Plan, OnPaths
<1>1. kind = "storage" \/ (kind = "both" /\ at = "target")
  BY <1>0 DEF OnPath, DiskPhase
<1>2. CASE Goto(w, "failing") /\ (Fault \/ UNCHANGED spent)
  BY <1>0, <1>2, FailingInv
<1>3. CASE /\ work' = [work EXCEPT ![w].pc = "disk", ![w].todo = resolveDiskTargets]
           /\ UNCHANGED spent
  <2> DEFINE x == [work[w] EXCEPT !.pc = "disk", !.todo = Disk \ moved]
  <2>1. x \in Goroutine /\ x.pc = "disk" /\ x.todo = Disk \ moved
    BY <1>0 DEF Goroutine, Points
  <2>2. work' = [work EXCEPT ![w] = x]
    BY <1>0, <1>3 DEF TypeOK, resolveDiskTargets
  <2> HIDE DEF x
  <2>3. OnPath(x, kind, at, moved)
    BY <1>1, <2>1 DEF OnPath, LivePhase, DiskPhase, Moving
  <2>4. QED
    BY <1>0, <1>3, <2>1, <2>2, <2>3, GotoInv
<1>4. CASE /\ resolveDiskTargets = {} /\ kind = "both"
           /\ work' = [work EXCEPT ![w].pc = "done", ![w].end = "completed"] /\ UNCHANGED spent
  <2>1. moved = Disk
    BY <1>0, <1>4 DEF TypeOK, resolveDiskTargets
  <2>2. PICK x \in Goroutine : work' = [work EXCEPT ![w] = x] /\ x.pc = "done" /\ x.end = "completed"
    BY <1>0, <1>4, Learns DEF Points
  <2>3. OnPath(x, kind, at, moved)
    BY <1>1, <1>4, <2>1, <2>2 DEF OnPath, Done, LivePhase, DiskPhase, Moving
  <2>4. QED
    BY <1>0, <1>4, <2>2, <2>3, GotoInv
<1>5. QED
  BY <1>2, <1>3, <1>4 DEF Plan

\* The next disk's move is asked for.
LEMMA PostMoveInv ==
  ASSUME Inv, NEW w \in Worker, PostMove(w)
  PROVE  Inv'
<1>0. /\ TypeOK /\ work[w] \in Goroutine /\ work[w].pc = "disk" /\ OnPath(work[w], kind, at, moved)
      /\ UNCHANGED <<kind, jobVars, check, at, moved, rowVars, stopVars>>
  BY DEF Inv, TypeOK, Goroutine, PostMove, OnPaths
<1>1. CASE Goto(w, "failing") /\ UNCHANGED pve /\ (Fault \/ UNCHANGED spent)
  <2>1. /\ row' \in TaskRows /\ UNCHANGED <<outVars, aged, stop>>
        /\ missed' \in Missing /\ (missed.job => missed'.job)
    BY <1>0, <1>1, Untouched DEF outVars
  <2>2. QED
    BY <1>0, <1>1, <2>1, FailingInv
<1>2. ASSUME NEW d \in work[w].todo,
             pve' = [pve EXCEPT ![<<w, d>>] = "running"],
             work' = [work EXCEPT ![w].pc = "diskPosted", ![w].step = d, ![w].todo = @ \ {d}],
             UNCHANGED spent
      PROVE  Inv'
  <2> DEFINE x == [work[w] EXCEPT !.pc = "diskPosted", !.step = d, !.todo = @ \ {d}]
  <2>0. d \in Disk /\ d \in Step /\ <<w, d>> \in Task
    BY <1>0, Steps, Tasks DEF Goroutine
  <2>1. x \in Goroutine /\ x.pc = "diskPosted" /\ x.step = d /\ x.todo = work[w].todo \ {d}
    BY <1>0, <2>0 DEF Goroutine, Points
  <2>2. work' = [work EXCEPT ![w] = x]
    BY <1>0, <1>2 DEF TypeOK
  <2> HIDE DEF x
  <2>3. OnPath(x, kind, at, moved)
    BY <1>0, <2>0, <2>1 DEF OnPath, LivePhase, DiskPhase, Moving
  <2>4. QED
    BY <1>0, <1>2, <2>0, <2>1, <2>2, <2>3, PostedInv
<1>3. QED
  BY <1>1, <1>2 DEF PostMove

\* The rows name the move.
LEMMA NamedInv ==
  ASSUME Inv, NEW w \in Worker, RecordMove(w) \/ NameMove(w)
  PROVE  Inv'
<1>0. /\ TypeOK /\ work[w] \in Goroutine /\ work[w].pc \in Moving /\ OnPath(work[w], kind, at, moved)
      /\ Current(w) \in Task
  BY Tasks DEF Inv, TypeOK, Goroutine, RecordMove, NameMove, OnPaths, Moving, Current
<1>1. PICK p \in {"diskNamed", "diskWait"} : Goto(w, p)
  BY DEF RecordMove, NameMove
<1>2. PICK x \in Goroutine : /\ work' = [work EXCEPT ![w] = x] /\ x.pc = p
                             /\ x.todo = work[w].todo /\ x.step = work[w].step
  BY <1>0, <1>1, Goes DEF Points
<1>3. OnPath(x, kind, at, moved) /\ x.pc # "idle"
  BY <1>0, <1>2 DEF OnPath, LivePhase, DiskPhase, Moving
<1>4. CASE RecordMove(w)
  <2>1. (InsertTaskHistory(Current(w)) \/ UNCHANGED row) /\ (Fault \/ UNCHANGED spent)
    BY <1>4 DEF RecordMove, Attempt
  <2>2. /\ status' = status /\ upid' = upid /\ UNCHANGED <<kind, check, outVars, aged, stop>>
        /\ missed' \in Missing /\ (missed.job => missed'.job)
    BY <1>0, <1>4, Untouched DEF RecordMove
  <2>3. row' \in TaskRows
    BY <1>0, <2>1, RowType
  <2>4. QED
    BY <1>2, <1>3, <2>1, <2>2, <2>3, GotoInv
<1>5. CASE NameMove(w)
  <2>1. /\ status' \in {status, "migrating"} /\ (upid' = upid \/ upid' = {Current(w)})
        /\ Fault \/ UNCHANGED spent
    BY <1>5 DEF NameMove, Attempt, SetMigrationJobStarted, UpdateMigrationJobProgress, jobVars
  <2>2. /\ UNCHANGED <<kind, check, outVars, aged, stop>>
        /\ row' \in TaskRows /\ missed' \in Missing /\ (missed.job => missed'.job)
    BY <1>0, <1>5, Untouched DEF NameMove
  <2>3. QED
    BY <1>0, <1>2, <1>3, <2>1, <2>2, GotoInv
<1>6. QED
  BY <1>4, <1>5

\* A move has ended: the next disk, or the job is done.
LEMMA MoveEndedInv ==
  ASSUME Inv, NEW w \in Worker, MoveEnded(w)
  PROVE  Inv'
<1>0. /\ TypeOK /\ work[w] \in Goroutine /\ work[w].pc = "diskWait" /\ OnPath(work[w], kind, at, moved)
      /\ work[w].step \in Disk /\ Disk \subseteq moved \cup work[w].todo \cup {work[w].step}
      /\ UNCHANGED <<kind, jobVars, status, upid, check, outVars, aged, stop, spent>>
      /\ row' \in TaskRows /\ missed' \in Missing /\ (missed.job => missed'.job)
  BY Untouched DEF Inv, TypeOK, Goroutine, MoveEnded, OnPaths, OnPath, Moving
<1>1. pve[Current(w)] = "ok" => work[w].step \in moved
  <2>1. Current(w) \in Task /\ Current(w)[2] = work[w].step /\ work[w].step # "live"
    BY <1>0, Tasks, Steps, LiveAssumption DEF Current
  <2>2. QED
    BY <2>1 DEF Inv, Effects, Effect
<1>2. CASE pve[Current(w)] = "ok" /\ Goto(w, "disk")
  <2>1. PICK x \in Goroutine : work' = [work EXCEPT ![w] = x] /\ x.pc = "disk" /\ x.todo = work[w].todo
    BY <1>0, <1>2, Goes DEF Points
  <2>2. OnPath(x, kind, at, moved)
    BY <1>0, <1>1, <1>2, <2>1 DEF OnPath, LivePhase, DiskPhase, Moving
  <2>3. QED
    BY <1>0, <1>2, <2>1, <2>2, GotoInv
<1>3. CASE /\ pve[Current(w)] = "ok" /\ work[w].todo = {}
           /\ work' = [work EXCEPT ![w].pc = "done", ![w].end = "completed"]
  <2>1. moved = Disk
    <3>1. Disk \subseteq moved
      BY <1>0, <1>1, <1>3
    <3>2. moved \subseteq Disk
      BY <1>0 DEF TypeOK
    <3>3. QED
      BY <3>1, <3>2
  <2>2. Done(kind, at, moved)
    BY <1>0, <2>1 DEF Done, OnPath, DiskPhase, Moving
  <2>3. PICK x \in Goroutine : work' = [work EXCEPT ![w] = x] /\ x.pc = "done" /\ x.end = "completed"
    BY <1>0, <1>3, Learns DEF Points
  <2>4. OnPath(x, kind, at, moved)
    BY <2>2, <2>3 DEF OnPath, LivePhase, DiskPhase, Moving
  <2>5. QED
    BY <1>0, <2>3, <2>4, GotoInv
<1>4. CASE Goto(w, "failing")
  BY <1>0, <1>4, FailingInv
<1>5. QED
  BY <1>2, <1>3, <1>4 DEF MoveEnded

\* A task ends, and its effect comes with a good end.
LEMMA FinishesInv ==
  ASSUME Inv, NEW t \in Task, TaskFinishes(t)
  PROVE  Inv'
<1>0. TypeOK /\ UNCHANGED <<kind, status, upid, work, check, row, aged, stop, missed>>
  BY DEF Inv, TaskFinishes, jobVars, rowVars, stopVars
<1>1. CASE /\ pve' = [pve EXCEPT ![t] = "ok"]
           /\ at' = IF t[2] = "live" THEN "target" ELSE at
           /\ moved' = moved \cup ({t[2]} \cap Disk)
           /\ UNCHANGED spent
  <2>1. TypeOK'
    BY <1>0, <1>1 DEF TypeOK
  <2>2. (at = "target" => at' = "target") /\ moved \subseteq moved' /\ moved' \subseteq Disk
    BY <1>0, <1>1 DEF TypeOK
  <2>3. Effects'
    <3>1. \A u \in Task : pve'[u] = "ok" => u = t \/ pve[u] = "ok"
      BY <1>0, <1>1 DEF TypeOK
    <3>2. Effect(t, at', moved')
      BY <1>1, Steps DEF Effect
    <3>3. \A u \in Task : pve[u] = "ok" => Effect(u, at', moved')
      BY <2>2 DEF Inv, Effects, Effect
    <3>4. QED
      BY <3>1, <3>2, <3>3 DEF Effects
  <2>4. OnPaths'
    <3>1. \A w \in Worker : OnPath(work[w], kind, at', moved')
      BY <2>2, PathKeeps DEF Inv, OnPaths
    <3>2. QED
      BY <1>0, <3>1 DEF OnPaths
  <2>5. CompletedMeansMoved' /\ MigratingHasWorker'
    BY <1>0, <2>2 DEF Inv, CompletedMeansMoved, MigratingHasWorker
  <2>6. QED
    BY <2>1, <2>3, <2>4, <2>5 DEF Inv
<1>2. CASE pve' = [pve EXCEPT ![t] = "err"] /\ Fault /\ UNCHANGED <<at, moved>>
  <2>1. TypeOK' /\ \A u \in Task : pve'[u] = "ok" => pve[u] = "ok"
    BY <1>0, <1>2, FaultType DEF TypeOK
  <2>2. QED
    BY <1>0, <1>2, <2>1, AsideInv
<1>3. QED
  BY <1>1, <1>2 DEF TaskFinishes

\* A task's record is lost.
LEMMA VanishesInv ==
  ASSUME Inv, NEW t \in Task, TaskVanishes(t)
  PROVE  Inv'
<1>1. TypeOK' /\ \A u \in Task : pve'[u] = "ok" => pve[u] = "ok"
  BY FaultType DEF Inv, TypeOK, TaskVanishes, jobVars, rowVars, stopVars
<1>2. QED
  BY <1>1, AsideInv DEF TaskVanishes, jobVars, stopVars

\* The collector settles a row, writes one, or a row ages.
LEMMA CollectorInv ==
  ASSUME Inv, NEW t \in Task, CollectorReconcile(t) \/ CollectorIngest(t) \/ RowAges(t)
  PROVE  Inv'
<1>0. /\ TypeOK
      /\ UNCHANGED <<kind, status, upid, work, check, pve, at, moved, stop, missed, spent>>
  BY DEF Inv, CollectorReconcile, CollectorIngest, RowAges, jobVars, outVars, stopVars
<1>1. row' \in TaskRows /\ aged' \in SUBSET Task
  <2>1. CASE CollectorReconcile(t)
    BY <1>0, <2>1, VerdictType, RowType DEF CollectorReconcile, TypeOK
  <2>2. CASE CollectorIngest(t)
    BY <1>0, <2>2, VerdictType DEF CollectorIngest, TypeOK, TaskRows
  <2>3. CASE RowAges(t)
    BY <1>0, <2>3 DEF RowAges, TypeOK, TaskRows
  <2>4. QED
    BY <2>1, <2>2, <2>3
<1>2. TypeOK'
  BY <1>0, <1>1 DEF TypeOK, TaskRows
<1>3. QED
  BY <1>0, <1>2, AsideInv

\* The process is told to stop.
LEMMA ShutdownInv ==
  ASSUME Inv, Shutdown
  PROVE  Inv'
<1>1. TypeOK'
  BY MigrationBounds DEF Inv, TypeOK, Shutdown, jobVars, outVars, rowVars
<1>2. QED
  BY <1>1, AsideInv DEF Shutdown, jobVars, outVars

\* The process is gone, and the goroutines with it.
LEMMA GoneInv ==
  ASSUME Inv, MainReturns \/ Kill
  PROVE  Inv'
<1>0. /\ TypeOK /\ work' = [w \in Worker |-> NoWork] /\ stop' = "down" /\ check' = "idle"
      /\ UNCHANGED <<kind, status, upid, pve, at, moved, row, aged, missed>>
  BY DEF Inv, Kill, MainReturns, ProcessGone, jobVars, outVars, rowVars
<1>1. work' \in [Worker -> Goroutine]
  BY <1>0, NoWorkType
<1>2. TypeOK'
  BY <1>0, <1>1, MigrationBounds DEF TypeOK, Kill, MainReturns, Goroutine
<1>3. OnPaths'
  BY <1>0, NoWorkType DEF OnPaths, OnPath, LivePhase, DiskPhase, Moving
<1>4. QED
  BY <1>0, <1>2, <1>3 DEF Inv, Effects, Effect, CompletedMeansMoved, MigratingHasWorker

\* Every step keeps the invariant.
LEMMA NextInv == Inv /\ [Next]_vars => Inv'
<1> SUFFICES ASSUME Inv, [Next]_vars PROVE Inv'
  OBVIOUS
<1>1. CASE UNCHANGED vars
  <2>1. TypeOK'
    BY <1>1 DEF Inv, TypeOK, vars
  <2>2. QED
    BY <1>1, <2>1, AsideInv DEF vars
<1>2. ASSUME NEW w \in Worker, WorkerStep(w) PROVE Inv'
  BY <1>2, DispatchInv, PostMigrateInv, StartedInv, TaskEndedInv, PollInv, InterruptedInv, PlanInv,
     PostMoveInv, NamedInv, MoveEndedInv, SettleTaskInv, HalfwayInv, ConcludeInv DEF WorkerStep
<1>3. QED
  BY <1>1, <1>2, ExecuteInv, RequestInv, FinishesInv, VanishesInv, CollectorInv, ShutdownInv, GoneInv
     DEF Next

\* The invariant holds throughout.
LEMMA Invariance == Spec => []Inv
BY InitInv, NextInv, PTL DEF Spec

-----------------------------------------------------------------------------
(* Theorems.                                                                *)

\* The job, its goroutines and its tasks keep their types, for any number of each.
THEOREM TypeCorrect == Spec => []TypeOK
<1>1. Inv => TypeOK
  BY DEF Inv
<1>2. QED
  BY <1>1, Invariance, PTL

\* However executions, checks and cancels interleave, a job the orchestrator
\* reports as completed has moved its guest and every disk.
THEOREM CompletedIsMoved == Spec => []CompletedMeansMoved
<1>1. Inv => CompletedMeansMoved
  BY DEF Inv
<1>2. QED
  BY <1>1, Invariance, PTL

\* Every way out of an execution's goroutine tries to write an outcome: a row that
\* says "migrating" has one behind it, unless the process is gone or that statement
\* had no effect.
THEOREM MigratingIsRun == Spec => []MigratingHasWorker
<1>1. Inv => MigratingHasWorker
  BY DEF Inv
<1>2. QED
  BY <1>1, Invariance, PTL

\* The orchestrator and the collector finalize a task row once between them.
THEOREM SettledStays == Spec => SettledRowStays
<1> DEFINE A == \A t \in Task : row[t] \in {"completed", "failed"} => row'[t] = row[t]
<1>1. Inv /\ [Next]_vars => [A]_vars
  <2> SUFFICES ASSUME Inv, Next PROVE A
    BY DEF vars
  <2>0. TypeOK /\ "failed" \in {"completed", "failed"}
    BY DEF Inv
  <2>1. ASSUME NEW w \in Worker, Execute(w) \/ WorkerStep(w) PROVE A
    <3>0. /\ <<w, "live">> \in Task
          /\ work[w].step \in Step
          /\ Current(w) \in Task
      BY <2>0, Tasks, Steps DEF TypeOK, Current
    <3>1. CASE RecordTask(w) \/ SettleTask(w)
      <4>1. PICK outcome \in {"completed", "failed"} :
               \/ InsertTaskHistory(<<w, "live">>)
               \/ ReconcileTaskHistory(<<w, "live">>, outcome)
               \/ UNCHANGED row
        BY <2>0, <3>1 DEF RecordTask, SettleTask, Attempt, TypeOK
      <4>2. QED
        BY <2>0, <3>0, <4>1, RowType
    <3>2. CASE PollUnanswered(w) \/ Interrupted(w)
      <4>1. abandonTaskRow(<<w, "live">>) \/ UNCHANGED row
        BY <3>2 DEF PollUnanswered, Interrupted
      <4>2. QED
        BY <2>0, <3>0, <4>1, Abandoned, RowType
    <3>3. CASE RecordMove(w)
      <4>1. InsertTaskHistory(Current(w)) \/ UNCHANGED row
        BY <3>3 DEF RecordMove, Attempt
      <4>2. QED
        BY <2>0, <3>0, <4>1, RowType
    <3>4. CASE ~(RecordTask(w) \/ SettleTask(w) \/ PollUnanswered(w) \/ Interrupted(w) \/ RecordMove(w))
      <4>1. row' = row
        BY <2>1, <3>4 DEF WorkerStep, Execute, Dispatch, PostMigrate, MarkStarted, TaskEnded, TaskRuns,
           GracePasses, Halfway, Conclude, failJob, Plan, PostMove, NameMove, MoveEnded, rowVars
      <4>2. QED
        BY <4>1
    <3>5. QED
      BY <3>1, <3>2, <3>3, <3>4
  <2>2. ASSUME NEW t \in Task, CollectorReconcile(t) PROVE A
    <3>1. PICK outcome \in {"completed", "failed"} : ReconcileTaskHistory(t, outcome)
      BY <2>2, VerdictType DEF CollectorReconcile
    <3>2. QED
      BY <2>0, <3>1, RowType
  <2>3. ASSUME NEW t \in Task, CollectorIngest(t) PROVE A
    BY <2>0, <2>3 DEF CollectorIngest, TypeOK
  <2>4. CASE \/ RunCheck \/ SaveCheckResults \/ CancelMigrationJob \/ Shutdown \/ MainReturns \/ Kill
             \/ \E t \in Task : TaskFinishes(t) \/ TaskVanishes(t) \/ RowAges(t)
    <3>1. row' = row
      BY <2>4 DEF RunCheck, SaveCheckResults, CancelMigrationJob, Shutdown, MainReturns, Kill, ProcessGone, TaskFinishes,
         TaskVanishes, RowAges, rowVars
    <3>2. QED
      BY <3>1
  <2>5. QED
    BY <2>1, <2>2, <2>3, <2>4 DEF Next
<1>2. QED
  BY <1>1, Invariance, PTL DEF Spec, SettledRowStays
=============================================================================

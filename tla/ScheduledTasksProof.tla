------------------------- MODULE ScheduledTasksProof -------------------------
(***************************************************************************)
(* Proofs about ScheduledTasks, for any schedules, processes and tasks and *)
(* any number of failures, crashes and edits: types, that overlapping      *)
(* passes share a row only after its claim went stale, and that a recorded *)
(* outcome is that of the row's own task.                                  *)
(***************************************************************************)
EXTENDS ScheduledTasks, FiniteSetTheorems, TLAPS

-----------------------------------------------------------------------------
(* The invariant.                                                           *)

\* A row, or a pass, names one task or none.
Name == {{}} \cup {{u} : u \in Upid}
Names == (\A s \in Sched : row[s].upid \in Name) /\ (\A p \in Proc : pass[p].task \in Name)

\* The entries of a pass x are of different rows, and it executes one of them at
\* a time.
Entries(x) ==
    /\ \A e, f \in x.todo \cup x.cur : e[1] = f[1] => e = f
    /\ x.todo \cap x.cur = {}
    /\ x.pc = "idle" => x.cur = {}
    /\ x.pc # "idle" => \E e \in Sched \X Crons : x.cur = {e}
EntriesApart == \A p \in Proc : Entries(pass[p])

\* A row that a pass holds is still claimed, unless its claim went stale under a
\* holder or the row was deleted.
Claimed(r) == ~r.exists \/ (r.status = "running" /\ ~r.stale)
ClaimStands == \A s \in Sched : \A p \in Proc : Holds(p, s) => s \in late \/ Claimed(row[s])

\* The name of a task that anything refers to is not given to another.
NamesKept ==
    /\ \A s \in Sched : row[s].exists => \A u \in row[s].upid : pve[u] # "none"
    /\ \A p \in Proc : \A u \in pass[p].task : pve[u] # "none"
    /\ \A u \in Upid : th[u] # "none" => pve[u] # "none"
    /\ \A u \in gone : pve[u] \in {"ok", "err"}

\* A settled task row says how the task ended, or that its record is gone.
RowsTrue ==
    \A u \in Upid : /\ th[u] = "completed" => pve[u] = "ok"
                    /\ th[u] = "failed" => pve[u] = "err" \/ u \in gone

Claims == EntriesApart /\ ClaimStands /\ OverlapOnlyAfterStale
Outcomes == NamesKept /\ RowsTrue /\ OutcomeIsOwn

Inv == TypeOK /\ Names /\ Claims /\ Outcomes

-----------------------------------------------------------------------------
(* Lemmas on rows and passes.                                               *)

\* A pass x holds the row s.
Has(x, s) == \E c \in Crons : <<s, c>> \in x.todo \cup x.cur

\* That is what Holds says, before and after a step.
LEMMA HoldsIs == \A p, s : (Holds(p, s) <=> Has(pass[p], s)) /\ (Holds(p, s)' <=> Has(pass'[p], s))
BY DEF Holds, Has

\* A bounded event.
LEMMA TroubleType ==
  ASSUME TypeOK, Trouble \/ UNCHANGED spent
  PROVE  spent' \in 0 .. MaxTroubles
BY ScheduleBounds DEF TypeOK, Trouble

\* A name is of at most one task.
LEMMA NameCard ==
  ASSUME NEW n \in Name
  PROVE  n \in SUBSET Upid /\ Cardinality(n) <= 1 /\ \A u, v \in n : u = v
<1>1. CASE n = {}
  BY <1>1, FS_EmptySet
<1>2. ASSUME NEW u \in Upid, n = {u} PROVE n \in SUBSET Upid /\ Cardinality(n) <= 1 /\ \A v, w \in n : v = w
  <2>1. Cardinality({u}) = 1
    BY FS_Singleton
  <2>2. QED
    BY <1>2, <2>1
<1>3. QED
  BY <1>1, <1>2 DEF Name

\* The pass that is not under way.
LEMMA IdleType == /\ IdlePass \in Pass /\ IdlePass.pc = "idle" /\ IdlePass.todo = {}
                  /\ IdlePass.cur = {} /\ IdlePass.task = {} /\ Entries(IdlePass)
                  /\ {} \in Name /\ \A s : ~Has(IdlePass, s)
BY DEF IdlePass, Pass, Entries, Name, Has

\* One pass changes.
LEMMA PassChange ==
  ASSUME TypeOK, NEW p \in Proc, NEW x \in Pass, pass' = [pass EXCEPT ![p] = x]
  PROVE  pass' \in [Proc -> Pass] /\ pass'[p] = x /\ \A q \in Proc \ {p} : pass'[q] = pass[q]
BY DEF TypeOK

\* One row changes.
LEMMA RowChange ==
  ASSUME TypeOK, Names, NEW s \in Sched, NEW r \in Row, r.upid \in Name, row' = [row EXCEPT ![s] = r]
  PROVE  /\ row' \in [Sched -> Row] /\ row'[s] = r /\ \A z \in Sched \ {s} : row'[z] = row[z]
         /\ \A z \in Sched : row'[z].upid \in Name
<1>1. row' \in [Sched -> Row] /\ row'[s] = r /\ \A z \in Sched \ {s} : row'[z] = row[z]
  BY DEF TypeOK
<1>2. QED
  BY <1>1 DEF Names

\* The types follow from those of what a step changes.
LEMMA TypeKeeps ==
  ASSUME TypeOK, row' \in [Sched -> Row], \A s \in Sched : row'[s].upid \in Name,
         pass' \in [Proc -> Pass], \A p \in Proc : pass'[p].task \in Name,
         pve' \in [Upid -> {"none", "running", "ok", "err"}],
         gone' \subseteq Upid, audit' \subseteq Upid, late' \subseteq Sched,
         th' \in [Upid -> {"none", "running", "completed", "failed"}],
         Trouble \/ UNCHANGED spent
  PROVE  TypeOK' /\ Names'
<1>1. spent' \in 0 .. MaxTroubles
  BY TroubleType
<1>2. \A s \in Sched : Cardinality(row'[s].upid) <= 1
  BY NameCard
<1>3. QED
  BY <1>1, <1>2 DEF TypeOK, Names

\* Claims when one row changes: its claim stands, or went stale under a holder.
LEMMA RowClaims ==
  ASSUME TypeOK, Claims, NEW s \in Sched, \A z \in Sched \ {s} : row'[z] = row[z],
         UNCHANGED pass, late \subseteq late',
         Claimed(row[s]) => Claimed(row'[s]) \/ (Held(s) => s \in late')
  PROVE  Claims'
<1>1. EntriesApart'
  BY DEF Claims, EntriesApart, Entries
<1>2. OverlapOnlyAfterStale'
  BY DEF Claims, OverlapOnlyAfterStale, Holds
<1>3. \A p \in Proc : Holds(p, s) => Held(s)
  BY DEF Held
<1>4. \A p \in Proc, z \in Sched : Has(pass'[p], z) <=> Holds(p, z)
  BY HoldsIs
<1>5. \A z \in Sched : \A p \in Proc : Has(pass'[p], z) => z \in late' \/ Claimed(row'[z])
  <2>1. ASSUME NEW z \in Sched, NEW p \in Proc, Holds(p, z) PROVE z \in late' \/ Claimed(row'[z])
    <3>1. z \in late \/ Claimed(row[z])
      BY <2>1 DEF Claims, ClaimStands
    <3>2. CASE z = s
      BY <1>3, <2>1, <3>1, <3>2
    <3>3. CASE z # s
      BY <3>1, <3>3
    <3>4. QED
      BY <3>2, <3>3
  <2>2. QED
    BY <1>4, <2>1
<1>6. ClaimStands'
  BY <1>5, HoldsIs DEF ClaimStands, Claimed
<1>7. QED
  BY <1>1, <1>2, <1>6 DEF Claims

\* Claims when one pass goes on and holds no more than before.
LEMMA PassClaims ==
  ASSUME TypeOK, Claims, NEW p \in Proc, NEW x \in Pass, pass' = [pass EXCEPT ![p] = x],
         Entries(x), \A s \in Sched : Has(x, s) => Has(pass[p], s),
         UNCHANGED row, \A s \in late : Held(s)' => s \in late'
  PROVE  Claims'
<1>1. pass'[p] = x /\ \A q \in Proc \ {p} : pass'[q] = pass[q]
  BY PassChange
<1>2. EntriesApart'
  <2>1. \A q \in Proc : Entries(pass'[q])
    BY <1>1 DEF Claims, EntriesApart
  <2>2. QED
    BY <2>1 DEF EntriesApart, Entries
<1>3. \A q \in Proc : \A s \in Sched : Has(pass'[q], s) => Holds(q, s)
  BY <1>1, HoldsIs
<1>4. \A q \in Proc : \A s \in late : Has(pass'[q], s) => s \in late'
  <2>1. \A q \in Proc : \A s \in late : Has(pass'[q], s) => Held(s)'
    BY HoldsIs DEF Held
  <2>2. QED
    BY <2>1
<1>5. ClaimStands'
  <2>1. \A s \in Sched : \A q \in Proc : Has(pass'[q], s) => s \in late' \/ Claimed(row[s])
    BY <1>3, <1>4 DEF Claims, ClaimStands
  <2>2. QED
    BY <2>1, HoldsIs DEF ClaimStands, Claimed
<1>6. OverlapOnlyAfterStale'
  <2>1. \A s \in Sched : \A q, o \in Proc :
          q # o /\ Has(pass'[q], s) /\ Has(pass'[o], s) => s \in late'
    BY <1>3, <1>4 DEF Claims, OverlapOnlyAfterStale
  <2>2. QED
    BY <2>1, HoldsIs DEF OverlapOnlyAfterStale
<1>7. QED
  BY <1>2, <1>5, <1>6 DEF Claims

\* Outcomes when only a row changes: its task is one that exists, and a verdict on
\* it is that of the task.
RowTrue(r) ==
    r.exists => /\ \A u \in r.upid : pve[u] # "none"
                /\ r.status = "success" => \E u \in r.upid : pve[u] = "ok"
                /\ r.status = "failed" => \A u \in r.upid : pve[u] = "err" \/ u \in gone

\* Every row is so, and stays so when the changed one is.
LEMMA RowOutcomes ==
  ASSUME Outcomes, NEW s \in Sched, \A z \in Sched \ {s} : row'[z] = row[z], RowTrue(row'[s]),
         \A p \in Proc : \A u \in pass'[p].task : pve[u] # "none",
         UNCHANGED <<pve, gone, th>>
  PROVE  Outcomes'
<1>1. \A z \in Sched : RowTrue(row'[z])
  BY DEF Outcomes, NamesKept, OutcomeIsOwn, RowTrue
<1>2. QED
  BY <1>1 DEF Outcomes, NamesKept, OutcomeIsOwn, RowTrue, RowsTrue

-----------------------------------------------------------------------------
(* One lemma per action.                                                    *)

\* Nothing is claimed and nothing has run.
LEMMA InitInv == Init => Inv
<1> SUFFICES ASSUME Init PROVE Inv
  OBVIOUS
<1>1. \A s \in Sched : \E c \in Crons : row[s] = [NoRow EXCEPT !.exists = TRUE, !.cron = c, !.enabled = TRUE]
  BY DEF Init
<1>2. \A s \in Sched : row[s] \in Row /\ row[s].upid = {} /\ row[s].status = "never"
  BY <1>1 DEF NoRow, Row, Statuses
<1>3. row \in [Sched -> Row]
  <2>1. row \in [Sched -> {[NoRow EXCEPT !.exists = TRUE, !.cron = c, !.enabled = TRUE] : c \in Crons}]
    BY DEF Init
  <2>2. QED
    BY <1>2, <2>1
<1>4. pass = [p \in Proc |-> IdlePass]
  BY DEF Init
<1>5. TypeOK /\ Names
  <2>1. Names
    BY <1>2, <1>4, IdleType DEF Names
  <2>2. \A s \in Sched : Cardinality(row[s].upid) <= 1
    BY <2>1, NameCard DEF Names
  <2>3. pass \in [Proc -> Pass]
    BY <1>4, IdleType
  <2>4. /\ pve = [u \in Upid |-> "none"] /\ th = [u \in Upid |-> "none"]
        /\ gone = {} /\ audit = {} /\ late = {} /\ spent = 0
    BY DEF Init
  <2>5. spent \in 0 .. MaxTroubles
    BY <2>4, ScheduleBounds
  <2>6. QED
    BY <1>3, <2>1, <2>2, <2>3, <2>4, <2>5 DEF TypeOK
<1>6. \A p \in Proc, s \in Sched : ~Holds(p, s)
  BY <1>4, IdleType, HoldsIs
<1>7. Claims
  BY <1>4, <1>6, IdleType DEF Claims, EntriesApart, ClaimStands, OverlapOnlyAfterStale
<1>8. Outcomes
  BY <1>2, <1>4, IdleType DEF Init, Outcomes, NamesKept, RowsTrue, OutcomeIsOwn
<1>9. QED
  BY <1>5, <1>7, <1>8 DEF Inv

\* A step that changes one row only.
LEMMA RowInv ==
  ASSUME Inv, NEW s \in Sched, NEW r \in Row, r.upid \in Name, row' = [row EXCEPT ![s] = r],
         RowTrue(r), UNCHANGED <<pass, taskVars>>, late \subseteq late', late' \subseteq Sched,
         Trouble \/ UNCHANGED spent,
         Claimed(row[s]) => Claimed(r) \/ (Held(s) => s \in late')
  PROVE  Inv'
<1>0. TypeOK /\ Names /\ Claims /\ Outcomes /\ UNCHANGED <<pve, gone, th, audit>>
  BY DEF Inv, taskVars
<1>1. /\ row' \in [Sched -> Row] /\ row'[s] = r /\ \A z \in Sched \ {s} : row'[z] = row[z]
      /\ \A z \in Sched : row'[z].upid \in Name
  BY <1>0, RowChange
<1>2. TypeOK' /\ Names'
  BY <1>0, <1>1, TypeKeeps DEF TypeOK, Names
<1>3. Claims'
  BY <1>0, <1>1, RowClaims
<1>4. Outcomes'
  BY <1>0, <1>1, RowOutcomes DEF Outcomes, NamesKept
<1>5. QED
  BY <1>2, <1>3, <1>4 DEF Inv

\* What a row says before a step.
LEMMA RowFacts ==
  ASSUME Inv, NEW s \in Sched
  PROVE  row[s] \in Row /\ row[s].upid \in Name /\ RowTrue(row[s])
BY DEF Inv, TypeOK, Names, Outcomes, NamesKept, OutcomeIsOwn, RowTrue

\* The reconcile tick settles a run from the row of its task.
LEMMA ReconcileInv ==
  ASSUME Inv, NEW s \in Sched, NEW u \in Upid, RunScheduledTaskReconcile(s, u)
  PROVE  Inv'
<1>0. /\ row[s] \in Row /\ row[s].upid \in Name /\ RowTrue(row[s]) /\ row \in [Sched -> Row]
      /\ row[s].exists /\ row[s].status = "dispatched" /\ u \in row[s].upid
      /\ th[u] \in {"completed", "failed"}
  BY RowFacts DEF Inv, TypeOK, RunScheduledTaskReconcile, Settles
<1>1. PICK r : r = [row[s] EXCEPT !.status = IF th[u] = "completed" THEN "success" ELSE "failed",
                                  !.err = IF th[u] = "failed" THEN @ \cup {"run"} ELSE @]
  OBVIOUS
<1>2. /\ r \in Row /\ r.upid = row[s].upid /\ r.exists = row[s].exists
      /\ r.status = IF th[u] = "completed" THEN "success" ELSE "failed"
  BY <1>0, <1>1 DEF Row, Statuses
<1>3. row' = [row EXCEPT ![s] = r]
  BY <1>0, <1>1 DEF RunScheduledTaskReconcile, Row
<1>4. RowTrue(r)
  <2>1. \A v \in row[s].upid : v = u
    BY <1>0, NameCard
  <2>2. /\ th[u] = "completed" => pve[u] = "ok"
        /\ th[u] = "failed" => pve[u] = "err" \/ u \in gone
    BY DEF Inv, Outcomes, RowsTrue
  <2>3. QED
    BY <1>0, <1>2, <2>1, <2>2 DEF RowTrue
<1>5. ~Claimed(row[s])
  BY <1>0 DEF Claimed
<1>6. QED
  BY <1>0, <1>2, <1>3, <1>4, <1>5, RowInv DEF RunScheduledTaskReconcile, Inv, TypeOK

\* A schedule is edited.
LEMMA UpdateInv ==
  ASSUME Inv, NEW s \in Sched, NEW enabled \in BOOLEAN, Update(s, enabled)
  PROVE  Inv'
<1>0. row[s] \in Row /\ row[s].upid \in Name /\ RowTrue(row[s]) /\ row \in [Sched -> Row]
  BY RowFacts DEF Inv, TypeOK
<1>1. PICK r : r = [row[s] EXCEPT !.cron = "good", !.enabled = enabled]
  OBVIOUS
<1>2. /\ r \in Row /\ r.upid = row[s].upid /\ r.exists = row[s].exists
      /\ r.status = row[s].status /\ r.stale = row[s].stale
  BY <1>0, <1>1 DEF Row, Crons
<1>3. row' = [row EXCEPT ![s] = r]
  BY <1>0, <1>1 DEF Update, Row
<1>4. RowTrue(r) /\ (Claimed(row[s]) => Claimed(r))
  BY <1>0, <1>2 DEF RowTrue, Claimed
<1>5. QED
  BY <1>0, <1>2, <1>3, <1>4, RowInv DEF Update, Inv, TypeOK

\* A schedule is deleted.
LEMMA DeleteInv ==
  ASSUME Inv, NEW s \in Sched, Delete(s)
  PROVE  Inv'
<1>1. NoRow \in Row /\ NoRow.upid = {} /\ NoRow.exists = FALSE
  BY DEF NoRow, Row, Statuses, Crons
<1>2. RowTrue(NoRow) /\ Claimed(NoRow)
  BY <1>1 DEF RowTrue, Claimed
<1>3. QED
  BY <1>1, <1>2, IdleType, RowInv DEF Delete, Inv, TypeOK

\* The clock passes the next run.
LEMMA DueInv ==
  ASSUME Inv, NEW s \in Sched, BecomesDue(s)
  PROVE  Inv'
<1>0. row[s] \in Row /\ row[s].upid \in Name /\ RowTrue(row[s]) /\ row \in [Sched -> Row]
  BY RowFacts DEF Inv, TypeOK
<1>1. PICK r : r = [row[s] EXCEPT !.due = TRUE]
  OBVIOUS
<1>2. /\ r \in Row /\ r.upid = row[s].upid /\ r.exists = row[s].exists
      /\ r.status = row[s].status /\ r.stale = row[s].stale
  BY <1>0, <1>1 DEF Row
<1>3. row' = [row EXCEPT ![s] = r]
  BY <1>0, <1>1 DEF BecomesDue, Row
<1>4. RowTrue(r) /\ (Claimed(row[s]) => Claimed(r))
  BY <1>0, <1>2 DEF RowTrue, Claimed
<1>5. QED
  BY <1>0, <1>2, <1>3, <1>4, RowInv DEF BecomesDue, Inv, TypeOK

\* A claim goes stale, and its living holders are late.
LEMMA StaleInv ==
  ASSUME Inv, NEW s \in Sched, ClaimGoesStale(s)
  PROVE  Inv'
<1>0. row[s] \in Row /\ row[s].upid \in Name /\ RowTrue(row[s]) /\ row \in [Sched -> Row]
  BY RowFacts DEF Inv, TypeOK
<1>1. PICK r : r = [row[s] EXCEPT !.stale = TRUE]
  OBVIOUS
<1>2. /\ r \in Row /\ r.upid = row[s].upid /\ r.exists = row[s].exists
      /\ r.status = row[s].status
  BY <1>0, <1>1 DEF Row
<1>3. row' = [row EXCEPT ![s] = r]
  BY <1>0, <1>1 DEF ClaimGoesStale, Row
<1>4. RowTrue(r)
  BY <1>0, <1>2 DEF RowTrue
<1>5. (Held(s) => s \in late') /\ late \subseteq late' /\ late' \subseteq Sched
  BY DEF ClaimGoesStale, Inv, TypeOK
<1>6. QED
  BY <1>0, <1>2, <1>3, <1>4, <1>5, RowInv DEF ClaimGoesStale

\* A step that changes tasks only.
LEMMA TaskInv ==
  ASSUME Inv, UNCHANGED <<row, pass, late>>, Trouble \/ UNCHANGED spent, Outcomes',
         pve' \in [Upid -> {"none", "running", "ok", "err"}], gone' \subseteq Upid, audit' \subseteq Upid,
         th' \in [Upid -> {"none", "running", "completed", "failed"}]
  PROVE  Inv'
<1>1. TypeOK' /\ Names'
  BY TypeKeeps DEF Inv, TypeOK, Names
<1>2. Claims'
  BY DEF Inv, Claims, EntriesApart, Entries, ClaimStands, Claimed, OverlapOnlyAfterStale, Holds
<1>3. QED
  BY <1>1, <1>2 DEF Inv

\* A task ends.
LEMMA EndsInv ==
  ASSUME Inv, NEW u \in Upid, TaskEnds(u)
  PROVE  Inv'
<1>0. pve \in [Upid -> {"none", "running", "ok", "err"}] /\ pve[u] = "running" /\ u \notin gone
      /\ th \in [Upid -> {"none", "running", "completed", "failed"}]
  BY DEF Inv, TypeOK, Outcomes, NamesKept, TaskEnds
<1>1. PICK end \in {"ok", "err"} : pve' = [pve EXCEPT ![u] = end]
  BY DEF TaskEnds
<1>2. /\ pve' \in [Upid -> {"none", "running", "ok", "err"}] /\ pve'[u] = end
      /\ \A v \in Upid \ {u} : pve'[v] = pve[v]
  BY <1>0, <1>1
<1>3. UNCHANGED <<row, pass, gone, th, audit, late>> /\ (Trouble \/ UNCHANGED spent)
  BY DEF TaskEnds
<1>4. Names /\ \A s \in Sched : row[s].upid \subseteq Upid
  BY NameCard DEF Inv, Names
<1>5. (\A p \in Proc : pass[p].task \subseteq Upid) /\ gone \subseteq Upid
  BY NameCard DEF Inv, Names, TypeOK
<1>6. NamesKept'
  BY <1>2, <1>3, <1>4, <1>5 DEF Inv, Outcomes, NamesKept
<1>7. RowsTrue'
  BY <1>0, <1>2, <1>3 DEF Inv, Outcomes, RowsTrue
<1>8. OutcomeIsOwn'
  BY <1>0, <1>2, <1>3, <1>4 DEF Inv, Outcomes, OutcomeIsOwn
<1>9. QED
  BY <1>0, <1>2, <1>3, <1>6, <1>7, <1>8, TaskInv DEF Outcomes, Inv, TypeOK

\* A task's record is lost.
LEMMA LostInv ==
  ASSUME Inv, NEW u \in Upid, RecordLost(u)
  PROVE  Inv'
<1>0. /\ pve \in [Upid -> {"none", "running", "ok", "err"}] /\ pve[u] # "none"
      /\ th \in [Upid -> {"none", "running", "completed", "failed"}]
      /\ gone \subseteq Upid /\ gone' = gone \cup {u}
  BY DEF Inv, TypeOK, RecordLost
<1>1. /\ pve' \in [Upid -> {"none", "running", "ok", "err"}]
      /\ pve'[u] = (IF pve[u] = "running" THEN "err" ELSE pve[u])
      /\ \A v \in Upid \ {u} : pve'[v] = pve[v]
  BY <1>0 DEF RecordLost
<1>2. UNCHANGED <<row, pass, th, audit, late>> /\ Trouble
  BY DEF RecordLost
<1>3. \A s \in Sched : row[s].upid \subseteq Upid
  BY NameCard DEF Inv, Names
<1>4. \A p \in Proc : pass[p].task \subseteq Upid
  BY NameCard DEF Inv, Names
<1>5. NamesKept'
  BY <1>0, <1>1, <1>2, <1>3, <1>4 DEF Inv, Outcomes, NamesKept
<1>6. RowsTrue'
  BY <1>0, <1>1, <1>2 DEF Inv, Outcomes, RowsTrue
<1>7. OutcomeIsOwn'
  BY <1>0, <1>1, <1>2, <1>3 DEF Inv, Outcomes, OutcomeIsOwn
<1>8. QED
  BY <1>0, <1>1, <1>2, <1>5, <1>6, <1>7, TaskInv DEF Outcomes, Inv, TypeOK

\* The collector writes or settles a task row.
LEMMA CollectorInv ==
  ASSUME Inv, NEW u \in Upid, CollectorIngest(u) \/ CollectorReconcile(u)
  PROVE  Inv'
<1>0. /\ pve \in [Upid -> {"none", "running", "ok", "err"}] /\ pve[u] # "none"
      /\ th \in [Upid -> {"none", "running", "completed", "failed"}]
      /\ th' = [th EXCEPT ![u] = Verdict(u)]
      /\ UNCHANGED <<row, pass, pve, gone, audit, late, spent>>
  BY DEF Inv, TypeOK, CollectorIngest, CollectorReconcile, Outcomes, NamesKept
<1>1. /\ Verdict(u) \in {"running", "completed", "failed"}
      /\ Verdict(u) = "completed" => pve[u] = "ok"
      /\ Verdict(u) = "failed" => pve[u] = "err" \/ u \in gone
  BY <1>0 DEF Verdict
<1>2. NamesKept'
  BY <1>0 DEF Inv, Outcomes, NamesKept
<1>3. RowsTrue'
  BY <1>0, <1>1 DEF Inv, Outcomes, RowsTrue
<1>4. OutcomeIsOwn'
  BY <1>0 DEF Inv, Outcomes, OutcomeIsOwn
<1>5. th' \in [Upid -> {"none", "running", "completed", "failed"}]
  BY <1>0, <1>1
<1>6. QED
  BY <1>0, <1>2, <1>3, <1>4, <1>5, TaskInv DEF Outcomes, Inv, TypeOK

\* A name nobody refers to becomes free.
LEMMA RetentionInv ==
  ASSUME Inv, NEW u \in Upid, RunTaskRetention(u)
  PROVE  Inv'
<1>0. /\ pve \in [Upid -> {"none", "running", "ok", "err"}]
      /\ th \in [Upid -> {"none", "running", "completed", "failed"}]
      /\ pve' = [pve EXCEPT ![u] = "none"] /\ th' = [th EXCEPT ![u] = "none"]
      /\ gone' = gone \ {u} /\ audit' = audit \ {u} /\ gone \subseteq Upid
      /\ UNCHANGED <<row, pass, late, spent>>
      /\ \A s \in Sched : row[s].exists => u \notin row[s].upid
      /\ \A p \in Proc : u \notin pass[p].task
  BY DEF Inv, TypeOK, RunTaskRetention
<1>1. \A s \in Sched : row[s].upid \subseteq Upid
  BY NameCard DEF Inv, Names
<1>2. \A p \in Proc : pass[p].task \subseteq Upid
  BY NameCard DEF Inv, Names
<1>3. NamesKept'
  BY <1>0, <1>1, <1>2 DEF Inv, Outcomes, NamesKept
<1>4. RowsTrue'
  BY <1>0 DEF Inv, Outcomes, RowsTrue
<1>5. OutcomeIsOwn'
  BY <1>0, <1>1 DEF Inv, Outcomes, OutcomeIsOwn
<1>6. /\ pve' \in [Upid -> {"none", "running", "ok", "err"}]
      /\ th' \in [Upid -> {"none", "running", "completed", "failed"}]
  BY <1>0
<1>7. QED
  BY <1>0, <1>3, <1>4, <1>5, <1>6, TaskInv DEF Outcomes, Inv, TypeOK

\* A step of one pass that writes no row and holds no more.
LEMMA PassInv ==
  ASSUME Inv, NEW p \in Proc, NEW x \in Pass, pass' = [pass EXCEPT ![p] = x], x.task \in Name,
         Entries(x), \A s \in Sched : Has(x, s) => Has(pass[p], s),
         UNCHANGED row, late' \subseteq Sched, \A s \in late : Held(s)' => s \in late',
         pve' \in [Upid -> {"none", "running", "ok", "err"}], UNCHANGED gone, audit' \subseteq Upid,
         th' \in [Upid -> {"none", "running", "completed", "failed"}],
         Trouble \/ UNCHANGED spent, Outcomes'
  PROVE  Inv'
<1>0. TypeOK /\ Names /\ Claims
  BY DEF Inv
<1>1. pass' \in [Proc -> Pass] /\ pass'[p] = x /\ \A q \in Proc \ {p} : pass'[q] = pass[q]
  BY <1>0, PassChange
<1>2. TypeOK' /\ Names'
  BY <1>0, <1>1, TypeKeeps DEF TypeOK, Names
<1>3. Claims'
  BY <1>0, PassClaims
<1>4. QED
  BY <1>2, <1>3 DEF Inv

\* Outcomes while the tasks are as they were and no pass names a new one.
LEMMA SameOutcomes ==
  ASSUME Outcomes, UNCHANGED <<row, pve, gone, th>>,
         \A p \in Proc : pass'[p].task \subseteq pass[p].task
  PROVE  Outcomes'
<1>1. NamesKept'
  BY DEF Outcomes, NamesKept
<1>2. RowsTrue' /\ OutcomeIsOwn'
  BY DEF Outcomes, RowsTrue, OutcomeIsOwn
<1>3. QED
  BY <1>1, <1>2 DEF Outcomes

\* The process dies.
LEMMA CrashInv ==
  ASSUME Inv, NEW p \in Proc, Crash(p)
  PROVE  Inv'
<1>0. /\ TypeOK /\ pass' = [pass EXCEPT ![p] = IdlePass] /\ UNCHANGED <<row, pve, gone, th, audit>>
      /\ late' = late \cap {s \in Sched : Held(s)'} /\ Trouble /\ late \subseteq Sched
  BY DEF Inv, TypeOK, Crash, taskVars
<1>1. \A q \in Proc : pass'[q].task \subseteq pass[q].task
  BY <1>0, IdleType, PassChange
<1>2. Outcomes'
  BY <1>0, <1>1, SameOutcomes DEF Inv
<1>3. late' \subseteq Sched /\ \A s \in late : Held(s)' => s \in late'
  BY <1>0
<1>4. QED
  BY <1>0, <1>2, <1>3, IdleType, PassInv DEF TypeOK

\* The entry being executed moves from the list to its place.
LEMMA Moves ==
  ASSUME NEW x \in Pass, NEW y \in Pass, Entries(x), x.pc = "idle", NEW e \in x.todo,
         y.pc # "idle", y.todo = x.todo \ {e}, y.cur = {e}
  PROVE  Entries(y) /\ \A s \in Sched : Has(y, s) => Has(x, s)
<1>1. e \in Sched \X Crons /\ y.todo \cup y.cur = x.todo \cup x.cur
  BY DEF Pass, Entries
<1>2. QED
  BY <1>1 DEF Entries, Has

\* A run is asked of Proxmox.
LEMMA DispatchInv ==
  ASSUME Inv, NEW p \in Proc, Dispatch(p)
  PROVE  Inv'
<1>0. /\ TypeOK /\ pass[p] \in Pass /\ pass[p].pc = "idle" /\ Entries(pass[p])
      /\ UNCHANGED <<row, late, gone, th, audit>>
  BY DEF Inv, TypeOK, Dispatch, rowVars, Claims, EntriesApart
<1>1. ASSUME NEW e \in pass[p].todo, NEW u \in NewUpid,
             pve' = [pve EXCEPT ![u] = "running"],
             pass' = [pass EXCEPT ![p] = [pc |-> "posted", todo |-> @.todo \ {e}, cur |-> {e}, task |-> {u}]],
             UNCHANGED spent
      PROVE  Inv'
  <2> DEFINE y == [pc |-> "posted", todo |-> pass[p].todo \ {e}, cur |-> {e}, task |-> {u}]
  <2>0. u \in Upid /\ pve[u] = "none" /\ th[u] = "none"
    <3> DEFINE free == {v \in Upid : pve[v] = "none" /\ th[v] = "none"}
    <3>1. free # {} /\ u = CHOOSE v \in free : TRUE
      BY <1>1 DEF NewUpid
    <3>2. u \in free
      BY <3>1
    <3>3. QED
      BY <3>2
  <2>1. y \in Pass /\ y.pc = "posted" /\ y.todo = pass[p].todo \ {e} /\ y.cur = {e} /\ y.task = {u}
    BY <1>0, <2>0 DEF Pass
  <2>2. pass' = [pass EXCEPT ![p] = y] /\ {u} \in Name
    BY <1>1, <2>0 DEF Name
  <2> HIDE DEF y
  <2>3. Entries(y) /\ \A s \in Sched : Has(y, s) => Has(pass[p], s)
    BY <1>0, <2>1, Moves
  <2>4. /\ pve' \in [Upid -> {"none", "running", "ok", "err"}] /\ pve'[u] = "running"
        /\ \A v \in Upid \ {u} : pve'[v] = pve[v]
    BY <1>0, <1>1, <2>0 DEF TypeOK
  <2>5. u \notin gone /\ gone \subseteq Upid /\ \A s \in Sched : row[s].upid \subseteq Upid
    BY <1>0, <2>0, NameCard DEF Inv, Outcomes, NamesKept, Names, TypeOK
  <2>6. \A q \in Proc : \A v \in pass'[q].task : pve'[v] # "none"
    <3>1. pass'[p] = y /\ \A q \in Proc \ {p} : pass'[q] = pass[q]
      BY <1>0, <2>1, <2>2, PassChange
    <3>2. \A q \in Proc : pass[q].task \subseteq Upid
      BY NameCard DEF Inv, Names
    <3>3. QED
      BY <2>1, <2>4, <3>1, <3>2 DEF Inv, Outcomes, NamesKept
  <2>7. NamesKept'
    BY <1>0, <2>4, <2>5, <2>6 DEF Inv, Outcomes, NamesKept
  <2>8. RowsTrue'
    BY <1>0, <2>0, <2>4 DEF Inv, Outcomes, RowsTrue
  <2>9. OutcomeIsOwn'
    BY <1>0, <2>0, <2>4, <2>5 DEF Inv, Outcomes, NamesKept, OutcomeIsOwn
  <2>10. QED
    BY <1>0, <1>1, <2>1, <2>2, <2>3, <2>4, <2>7, <2>8, <2>9, PassInv DEF TypeOK, Outcomes
<1>2. ASSUME NEW e \in pass[p].todo, Trouble, UNCHANGED pve,
             pass' = [pass EXCEPT ![p] = [pc |-> "finish", todo |-> @.todo \ {e}, cur |-> {e}, task |-> {}]]
      PROVE  Inv'
  <2> DEFINE y == [pc |-> "finish", todo |-> pass[p].todo \ {e}, cur |-> {e}, task |-> {}]
  <2>1. y \in Pass /\ y.pc = "finish" /\ y.todo = pass[p].todo \ {e} /\ y.cur = {e} /\ y.task = {}
    BY <1>0 DEF Pass
  <2>2. pass' = [pass EXCEPT ![p] = y]
    BY <1>2
  <2> HIDE DEF y
  <2>3. Entries(y) /\ \A s \in Sched : Has(y, s) => Has(pass[p], s)
    BY <1>0, <2>1, Moves
  <2>4. \A q \in Proc : pass'[q].task \subseteq pass[q].task
    BY <1>0, <2>1, <2>2, PassChange
  <2>5. Outcomes'
    BY <1>0, <1>2, <2>4, SameOutcomes DEF Inv
  <2>6. QED
    BY <1>0, <1>2, <2>1, <2>2, <2>3, <2>5, IdleType, PassInv DEF TypeOK
<1>3. QED
  BY <1>1, <1>2 DEF Dispatch

\* The task row and the audit entry of a run.
LEMMA TrackInv ==
  ASSUME Inv, NEW p \in Proc, trackTask(p)
  PROVE  Inv'
<1>0. /\ TypeOK /\ pass[p] \in Pass /\ pass[p].pc = "posted" /\ Entries(pass[p])
      /\ UNCHANGED <<row, late, pve, gone>> /\ (Trouble \/ UNCHANGED spent)
      /\ pass[p].task \in Name /\ pass[p].task \in SUBSET Upid
  BY NameCard DEF Inv, TypeOK, trackTask, rowVars, Claims, EntriesApart, Names
<1> DEFINE y == [pass[p] EXCEPT !.pc = "finish"]
<1>1. /\ y \in Pass /\ y.pc = "finish" /\ y.todo = pass[p].todo /\ y.cur = pass[p].cur
      /\ y.task = pass[p].task
  BY <1>0 DEF Pass
<1>2. pass' = [pass EXCEPT ![p] = y]
  BY DEF trackTask
<1> HIDE DEF y
<1>3. Entries(y) /\ \A s \in Sched : Has(y, s) => Has(pass[p], s)
  BY <1>0, <1>1 DEF Entries, Has
<1>4. \A q \in Proc : pass'[q].task = pass[q].task
  BY <1>0, <1>1, <1>2, PassChange
<1>5. CASE UNCHANGED <<th, audit>>
  <2>1. Outcomes'
    BY <1>0, <1>4, <1>5, SameOutcomes DEF Inv
  <2>2. QED
    BY <1>0, <1>1, <1>2, <1>3, <1>5, <2>1, PassInv DEF TypeOK
<1>6. CASE /\ \A u \in pass[p].task : th[u] = "none"
           /\ th' = [u \in Upid |-> IF u \in pass[p].task THEN "running" ELSE th[u]]
           /\ audit' = audit \cup pass[p].task
  <2>1. th' \in [Upid -> {"none", "running", "completed", "failed"}] /\ audit' \subseteq Upid
    BY <1>0, <1>6 DEF TypeOK
  <2>2. NamesKept'
    BY <1>0, <1>4, <1>6 DEF Inv, Outcomes, NamesKept
  <2>3. RowsTrue'
    BY <1>0, <1>6 DEF Inv, Outcomes, RowsTrue
  <2>4. OutcomeIsOwn'
    BY <1>0 DEF Inv, Outcomes, OutcomeIsOwn
  <2>5. QED
    BY <1>0, <1>1, <1>2, <1>3, <2>1, <2>2, <2>3, <2>4, PassInv DEF TypeOK, Outcomes
<1>7. QED
  BY <1>5, <1>6 DEF trackTask

\* All due rows are claimed.
LEMMA ClaimInv ==
  ASSUME Inv, NEW p \in Proc, ClaimDueTasks(p)
  PROVE  Inv'
<1>0. /\ TypeOK /\ Names /\ Claims /\ Outcomes /\ pass[p] = IdlePass
      /\ UNCHANGED <<pve, gone, th, audit, late, spent>>
  BY DEF Inv, ClaimDueTasks, taskVars
<1>1. PICK due \in SUBSET Sched : due = {s \in Sched : Claimable(row[s])}
  OBVIOUS
<1>2. PICK new \in SUBSET (Sched \X Crons) : new = {<<s, row[s].cron>> : s \in due}
  <2>1. \A s \in Sched : row[s].cron \in Crons
    BY <1>0 DEF TypeOK, Row
  <2>2. {<<s, row[s].cron>> : s \in due} \in SUBSET (Sched \X Crons)
    BY <1>1, <2>1
  <2>3. QED
    BY <2>2
<1> DEFINE r(s) == [row[s] EXCEPT !.status = "running", !.err = {}, !.upid = {}, !.due = FALSE, !.stale = FALSE]
           x == [IdlePass EXCEPT !.todo = new]
<1>3. /\ pass' = [pass EXCEPT ![p] = x]
      /\ row' = [s \in Sched |-> IF s \in due THEN r(s) ELSE row[s]]
  BY <1>0, <1>1, <1>2 DEF ClaimDueTasks, TypeOK
<1>4. x \in Pass /\ x.pc = "idle" /\ x.todo = new /\ x.cur = {} /\ x.task = {}
  BY IdleType DEF Pass
<1>5. ASSUME NEW s \in Sched
      PROVE  /\ r(s) \in Row /\ r(s).exists = row[s].exists /\ r(s).status = "running"
             /\ r(s).stale = FALSE /\ r(s).upid = {}
  <2>1. row[s] \in Row
    BY <1>0 DEF TypeOK
  <2>2. QED
    BY <2>1 DEF Row, Statuses
<1> HIDE DEF r, x
<1>6. row' \in [Sched -> Row] /\ \A s \in Sched : row'[s] = IF s \in due THEN r(s) ELSE row[s]
  BY <1>0, <1>3, <1>5 DEF TypeOK
<1>7. pass' \in [Proc -> Pass] /\ pass'[p] = x /\ \A q \in Proc \ {p} : pass'[q] = pass[q]
  BY <1>0, <1>3, <1>4, PassChange
<1>8. TypeOK' /\ Names'
  <2>1. \A s \in Sched : row'[s].upid \in Name
    BY <1>0, <1>5, <1>6, IdleType DEF Names
  <2>2. \A q \in Proc : pass'[q].task \in Name
    BY <1>0, <1>4, <1>7, IdleType DEF Names
  <2>3. QED
    BY <1>0, <1>6, <1>7, <2>1, <2>2, TypeKeeps DEF TypeOK
<1>9. Entries(x) /\ \A s \in Sched : Has(x, s) => s \in due
  BY <1>2, <1>4 DEF Entries, Has
<1>10. \A s \in due : \A q \in Proc : Holds(q, s) => s \in late
  <2>1. \A s \in due : ~Claimed(row[s])
    BY <1>1 DEF Claimable, Claimed
  <2>2. QED
    BY <1>0, <2>1 DEF Claims, ClaimStands
<1>11. Claims'
  <2>1. \A q \in Proc : Entries(pass'[q])
    BY <1>0, <1>7, <1>9 DEF Claims, EntriesApart
  <2>2. EntriesApart'
    BY <2>1 DEF EntriesApart, Entries
  <2>3. \A q \in Proc \ {p} : \A s \in Sched : Has(pass'[q], s) => Holds(q, s)
    BY <1>7, HoldsIs
  <2>4. \A s \in Sched : \A q \in Proc : Has(pass'[q], s) => s \in late \/ Claimed(row'[s])
    <3>1. \A s \in due : Claimed(row'[s])
      BY <1>5, <1>6 DEF Claimed
    <3>2. \A s \in Sched \ due : \A q \in Proc : Has(pass'[q], s) => s \in late \/ Claimed(row'[s])
      BY <1>0, <1>6, <1>7, <1>9, <2>3 DEF Claims, ClaimStands
    <3>3. QED
      BY <3>1, <3>2
  <2>5. ClaimStands'
    BY <1>0, <2>4, HoldsIs DEF ClaimStands, Claimed
  <2>6. \A s \in Sched : \A q, o \in Proc : q # o /\ Has(pass'[q], s) /\ Has(pass'[o], s) => s \in late
    BY <1>0, <1>7, <1>9, <1>10, <2>3 DEF Claims, OverlapOnlyAfterStale
  <2>7. OverlapOnlyAfterStale'
    BY <1>0, <2>6, HoldsIs DEF OverlapOnlyAfterStale
  <2>8. QED
    BY <2>2, <2>5, <2>7 DEF Claims
<1>12. Outcomes'
  <2>1. \A s \in Sched : RowTrue(row'[s])
    <3>1. \A s \in Sched : RowTrue(row[s])
      BY RowFacts
    <3>2. \A s \in Sched : RowTrue(r(s))
      BY <1>5 DEF RowTrue
    <3>3. QED
      BY <1>6, <3>1, <3>2
  <2>2. \A q \in Proc : \A u \in pass'[q].task : pve[u] # "none"
    BY <1>0, <1>4, <1>7 DEF Outcomes, NamesKept
  <2>3. NamesKept'
    BY <1>0, <2>1, <2>2 DEF Outcomes, NamesKept, RowTrue
  <2>4. RowsTrue' /\ OutcomeIsOwn'
    BY <1>0, <2>1 DEF Outcomes, RowsTrue, OutcomeIsOwn, RowTrue
  <2>5. QED
    BY <2>3, <2>4 DEF Outcomes
<1>13. QED
  BY <1>8, <1>11, <1>12 DEF Inv

\* The outcome of a run is written over whatever the row says by then.
LEMMA FinishInv ==
  ASSUME Inv, NEW p \in Proc, finishTaskRun(p)
  PROVE  Inv'
<1>0. /\ TypeOK /\ Names /\ Claims /\ Outcomes /\ pass[p] \in Pass /\ Entries(pass[p])
      /\ pass[p].pc = "finish" /\ UNCHANGED <<pve, gone, th, audit>>
      /\ late' = late \cap {s \in Sched : Held(s)'}
      /\ row \in [Sched -> Row] /\ pass[p].task \in Name /\ pass[p].task \subseteq Upid
  BY NameCard DEF Inv, TypeOK, finishTaskRun, taskVars, Claims, EntriesApart, Names
<1>1. PICK e \in Sched \X Crons : pass[p].cur = {e}
  BY <1>0 DEF Entries
<1>2. e = CHOOSE y \in pass[p].cur : TRUE
  BY <1>1
<1>3. PICK s \in Sched : s = e[1]
  BY <1>1
<1>4. PICK task : task = pass[p].task
  OBVIOUS
<1>5. PICK done : done = IF e[2] = "good" THEN UpdateTaskLastRun(row[s], task)
                                         ELSE parkUnschedulableTask(row[s], task)
  OBVIOUS
<1>6. /\ done \in Row /\ done.upid = task
      /\ done.status = IF task = {} THEN "failed" ELSE "dispatched"
  <2>0. /\ row[s] \in Row /\ task \in SUBSET Upid /\ RunStatus(task) \in Statuses
        /\ RunError(task) \subseteq {"run"} /\ RunStatus(task) = IF task = {} THEN "failed" ELSE "dispatched"
    BY <1>0, <1>4 DEF RunStatus, RunError, Statuses
  <2>1. CASE e[2] = "good"
    BY <1>5, <2>0, <2>1 DEF UpdateTaskLastRun, Row
  <2>2. CASE e[2] # "good"
    BY <1>5, <2>0, <2>2 DEF parkUnschedulableTask, Row
  <2>3. QED
    BY <2>1, <2>2
<1>7. \/ row' = [row EXCEPT ![s] = IF row[s].exists THEN done ELSE row[s]] /\ UNCHANGED spent
      \/ UNCHANGED row /\ Trouble
  <2>1. LET f == CHOOSE y \in pass[p].cur : TRUE
            z == f[1]
            d == IF f[2] = "good" THEN UpdateTaskLastRun(row[z], pass[p].task)
                                  ELSE parkUnschedulableTask(row[z], pass[p].task)
        IN  \/ row' = [row EXCEPT ![z] = IF row[z].exists THEN d ELSE row[z]] /\ UNCHANGED spent
            \/ Trouble /\ UNCHANGED row
    BY <1>0 DEF finishTaskRun
  <2>2. QED
    BY <1>2, <1>3, <1>4, <1>5, <2>1
<1>8. PICK r \in Row : /\ row' = [row EXCEPT ![s] = r] /\ r \in {row[s], done}
                       /\ Trouble \/ UNCHANGED spent
  BY <1>0, <1>6, <1>7
<1>9. r.upid \in Name /\ RowTrue(r)
  <2>1. row[s].upid \in Name /\ RowTrue(row[s])
    BY RowFacts
  <2>2. \A u \in task : pve[u] # "none"
    BY <1>0, <1>4 DEF Outcomes, NamesKept
  <2>3. done.upid \in Name /\ RowTrue(done)
    BY <1>0, <1>4, <1>6, <2>2 DEF RowTrue
  <2>4. QED
    BY <1>8, <2>1, <2>3
<1> DEFINE x == [IdlePass EXCEPT !.todo = pass[p].todo]
<1>10. /\ x \in Pass /\ x.pc = "idle" /\ x.todo = pass[p].todo /\ x.cur = {} /\ x.task = {}
       /\ pass' = [pass EXCEPT ![p] = x]
  BY <1>0, IdleType DEF finishTaskRun, Pass
<1> HIDE DEF x
<1>11. pass' \in [Proc -> Pass] /\ pass'[p] = x /\ \A q \in Proc \ {p} : pass'[q] = pass[q]
  BY <1>0, <1>10, PassChange
<1>12. /\ row' \in [Sched -> Row] /\ row'[s] = r /\ \A z \in Sched \ {s} : row'[z] = row[z]
       /\ \A z \in Sched : row'[z].upid \in Name
  BY <1>0, <1>8, <1>9, RowChange
<1>13. TypeOK' /\ Names'
  <2>1. \A q \in Proc : pass'[q].task \in Name
    BY <1>0, <1>10, <1>11, IdleType DEF Names
  <2>2. QED
    BY <1>0, <1>8, <1>11, <1>12, <2>1, TypeKeeps DEF TypeOK
<1>14. Entries(x) /\ \A z \in Sched : Has(x, z) => Has(pass[p], z) /\ z # s
  <2>1. Entries(x)
    BY <1>0, <1>10 DEF Entries
  <2>2. ASSUME NEW z \in Sched, Has(x, z) PROVE Has(pass[p], z) /\ z # s
    <3>1. PICK c \in Crons : <<z, c>> \in pass[p].todo
      BY <1>10, <2>2 DEF Has
    <3>2. z = s => <<z, c>> = e
      <4>1. e \in pass[p].cur /\ \A f, g \in pass[p].todo \cup pass[p].cur : f[1] = g[1] => f = g
        BY <1>0, <1>1 DEF Entries
      <4>2. <<z, c>>[1] = z
        OBVIOUS
      <4>3. QED
        BY <1>3, <3>1, <4>1, <4>2
    <3>3. e \notin pass[p].todo
      BY <1>0, <1>1 DEF Entries
    <3>4. QED
      BY <3>1, <3>2, <3>3 DEF Has
  <2>3. QED
    BY <2>1, <2>2
<1>15. /\ \A q \in Proc : \A z \in Sched : Has(pass'[q], z) => Holds(q, z)
       /\ \A q \in Proc : \A z \in late : Has(pass'[q], z) => z \in late'
  <2>1. \A q \in Proc : \A z \in Sched : Has(pass'[q], z) => Holds(q, z)
    BY <1>11, <1>14, HoldsIs
  <2>2. \A q \in Proc : \A z \in Sched : Has(pass'[q], z) => Held(z)'
    BY HoldsIs DEF Held
  <2>3. late \subseteq Sched
    BY <1>0 DEF TypeOK
  <2>4. QED
    BY <1>0, <2>1, <2>2, <2>3
<1>16. \A q \in Proc : Has(pass'[q], s) => s \in late
  <2>1. Holds(p, s)
    <3>1. PICK z \in Sched, c \in Crons : e = <<z, c>>
      BY <1>1
    <3>2. z = s
      BY <1>3, <3>1
    <3>3. QED
      BY <1>1, <3>1, <3>2 DEF Holds
  <2>2. \A q \in Proc : Has(pass'[q], s) => q # p /\ Holds(q, s)
    BY <1>11, <1>14, <1>15
  <2>3. QED
    BY <1>0, <2>1, <2>2 DEF Claims, OverlapOnlyAfterStale
<1>17. Claims'
  <2>1. \A q \in Proc : Entries(pass'[q])
    BY <1>0, <1>11, <1>14 DEF Claims, EntriesApart
  <2>2. EntriesApart'
    BY <2>1 DEF EntriesApart, Entries
  <2>3. \A z \in Sched : \A q \in Proc : Has(pass'[q], z) => z \in late' \/ Claimed(row'[z])
    BY <1>0, <1>12, <1>15, <1>16 DEF Claims, ClaimStands
  <2>4. ClaimStands'
    BY <2>3, HoldsIs DEF ClaimStands, Claimed
  <2>5. \A z \in Sched : \A q, o \in Proc : q # o /\ Has(pass'[q], z) /\ Has(pass'[o], z) => z \in late'
    BY <1>0, <1>15 DEF Claims, OverlapOnlyAfterStale
  <2>6. OverlapOnlyAfterStale'
    BY <2>5, HoldsIs DEF OverlapOnlyAfterStale
  <2>7. QED
    BY <2>2, <2>4, <2>6 DEF Claims
<1>18. Outcomes'
  <2>1. \A q \in Proc : \A u \in pass'[q].task : pve[u] # "none"
    BY <1>0, <1>10, <1>11 DEF Outcomes, NamesKept
  <2>2. QED
    BY <1>0, <1>9, <1>12, <2>1, RowOutcomes
<1>19. QED
  BY <1>13, <1>17, <1>18 DEF Inv

\* Every step keeps the invariant.
LEMMA NextInv == Inv /\ [Next]_vars => Inv'
<1> SUFFICES ASSUME Inv, [Next]_vars PROVE Inv'
  OBVIOUS
<1>1. CASE UNCHANGED vars
  <2>1. UNCHANGED <<row, pass, pve, gone, th, audit, late, spent>>
    BY <1>1 DEF vars
  <2>2. Outcomes'
    BY <2>1, SameOutcomes DEF Inv
  <2>3. QED
    BY <2>1, <2>2, TaskInv DEF Inv, TypeOK
<1>2. ASSUME NEW p \in Proc, ProcStep(p) \/ Crash(p) PROVE Inv'
  BY <1>2, ClaimInv, DispatchInv, TrackInv, FinishInv, CrashInv DEF ProcStep
<1>3. ASSUME NEW u \in Upid, TaskStep(u) \/ RecordLost(u) PROVE Inv'
  BY <1>3, EndsInv, CollectorInv, RetentionInv, LostInv DEF TaskStep
<1>4. QED
  BY <1>1, <1>2, <1>3, DueInv, StaleInv, DeleteInv, UpdateInv, ReconcileInv DEF Next

\* The invariant holds throughout.
LEMMA Invariance == Spec => []Inv
BY InitInv, NextInv, PTL DEF Spec

-----------------------------------------------------------------------------
(* Theorems.                                                                *)

\* The rows, the passes and the tasks keep their types, for any number of each.
THEOREM TypeCorrect == Spec => []TypeOK
<1>1. Inv => TypeOK
  BY DEF Inv
<1>2. QED
  BY <1>1, Invariance, PTL

\* ClaimDueTasks gives a row to a second pass only after the first one's claim
\* went stale: overlapping leaders alone never run a schedule twice.
THEOREM OverlapIsStale == Spec => []OverlapOnlyAfterStale
<1>1. Inv => OverlapOnlyAfterStale
  BY DEF Inv, Claims
<1>2. QED
  BY <1>1, Invariance, PTL

\* ReconcileDispatchedScheduledTasks records the outcome of the task the row
\* names, whoever wrote the row and however names are used again.
THEOREM OutcomeOwn == Spec => []OutcomeIsOwn
<1>1. Inv => OutcomeIsOwn
  BY DEF Inv, Outcomes
<1>2. QED
  BY <1>1, Invariance, PTL
=============================================================================

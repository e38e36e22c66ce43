-------------------------- MODULE RollingTickProof --------------------------
(***************************************************************************)
(* What RollingUpdate keeps of a job's nodes when one tick works on the    *)
(* job at a time, as one leadership guarantees: at most opt.parallel nodes *)
(* are under way, and a completed job has no node that is not done.  Then  *)
(* what the job gives back: the balancers the first tick pauses, the HA    *)
(* rules and the passthrough guests of its drains.  Then what its reboots  *)
(* spare: those of a job that drains one node after the other, and that of *)
(* a job of one node until three calls have failed.                        *)
(*                                                                         *)
(* The tick works on copies of the rows while SSH goroutines and requests  *)
(* write them, and no statement asks which step it replaces.  So the       *)
(* invariant says what each of them may still write: Workers, of the       *)
(* goroutine of a node; Copies, of the tick; Overtaken, of a goroutine     *)
(* whose node the tick has failed; and Room counts whatever can come back. *)
(***************************************************************************)
EXTENDS RollingUpdateProof, FiniteSetTheorems

-----------------------------------------------------------------------------
(* Where the threads are.                                                   *)

SSHPoints   == {"apt", "rebootCheck", "rebootMark", "reboot"}
ConfPoints  == {"confReboot", "confMark", "confHealth"}
Live(n)     == pc[n] \in SSHPoints \cup ConfPoints

ChoosePoints  == {"begin", "check", "ruleOff", "ruleRec", "ruleChk", "drainStart"}
DrainPoints   == {"drain", "guest", "ptStop", "verify"}
RestorePoints == {"restart", "restore"}

(* The part of the tick a thread is in, or goes back to.                    *)
Phase(e) ==
    IF pc[e] \in RelPoints \cup {"failJob"} THEN rel[e].back
    ELSE IF pc[e] \in RestorePoints THEN "advance"
    ELSE IF pc[e] \in DrainPoints THEN eng[e].back
    ELSE pc[e]

(* A session that goes on although the tick has failed its node.            *)
LiveFailed(n) == pc[n] \in SSHPoints /\ node[n].step = "failed"

(* A node the tick will look at, failed since, that may have come back.     *)
Lost(e, n) ==
    /\ Phase(e) = "advance" /\ n \in eng[e].todo
    /\ eng[e].rows[n].step = "rebooting" /\ node[n].step = "failed"

-----------------------------------------------------------------------------
(* The invariant.                                                           *)

(* What the goroutine of a node knows of its row and its host.              *)
Worker(n) ==
    /\ node[n].step \in {"pending", "skipped", "draining"} => pc[n] = "idle"
    /\ pc[n] \in SSHPoints \ {"reboot"} => node[n].step \in {"upgrading", "failed"}
    /\ pc[n] = "reboot" => node[n].step \in {"rebooting", "failed"}
    /\ pc[n] \in ConfPoints => node[n].step = "awaiting_upgrade"
    /\ pc[n] \in SSHPoints => host[n] = "up" /\ opt.auto
    /\ node[n].step \in {"pending", "skipped", "draining", "upgrading"} /\ opt.auto => host[n] = "up"
    /\ node[n].step = "upgrading" => opt.auto
    /\ Waiting(node[n]) => pc[n] = "idle"

Workers == \A n \in Node : Worker(n)

(* What a row may have become since the tick copied it.                     *)
Copy(e, n) ==
    /\ eng[e].rows[n].step \in Advancing
    /\ eng[e].rows[n].step \in {"draining", "health_check", "restoring"} =>
            node[n].step = eng[e].rows[n].step
    /\ eng[e].rows[n].step = "upgrading" =>
            node[n].step \in {"upgrading", "rebooting", "health_check", "failed"}
    /\ Waiting(eng[e].rows[n]) => node[n].step = "upgrading" /\ pc[n] = "idle"
    /\ eng[e].rows[n].step = "rebooting" =>
            node[n].step \in {"rebooting", "failed"} /\ pc[n] \notin SSHPoints \ {"reboot"}

Copies(e) ==
    /\ pc[e] \in ChoosePoints =>
            /\ eng[e].n \in Node /\ node[eng[e].n].step \in {"pending", "skipped"}
            /\ eng[e].back = "done"
    /\ pc[e] \in DrainPoints =>
            /\ eng[e].n \in Node /\ node[eng[e].n].step = "draining"
            /\ eng[e].back \in {"advance", "done"}
            /\ eng[e].back = "advance" => eng[e].n \notin eng[e].todo
    /\ pc[e] \in RestorePoints =>
            eng[e].n \in Node /\ node[eng[e].n].step = "restoring" /\ eng[e].n \notin eng[e].todo
    /\ Phase(e) = "advance" => \A n \in eng[e].todo : Copy(e, n)

(* Where the tick is while such a session goes on: it will see the failed   *)
(* node before it starts another, or it has ended the job.                  *)
Overtaken(e) ==
    \A n \in Node : LiveFailed(n) =>
        \/ Phase(e) = "advance" /\ eng[e].rows[n].step \in Advancing
        \/ Phase(e) \in {"sweep", "idle"} /\ (Terminal \/ pc[e] = "failJob")

(* The nodes under way, those that may be again, and the one being started. *)
InPool(e, n) ==
    \/ node[n].step \in ActiveSteps
    \/ LiveFailed(n)
    \/ Lost(e, n)
    \/ pc[e] \in ChoosePoints /\ n = eng[e].n

Pool(e) == {n \in Node : InPool(e, n)}

Room(e) == Cardinality(Pool(e)) <= opt.parallel

(* Nobody will write the nodes of a completed job.                          *)
Done(e) ==
    job.status = "completed" =>
        /\ \A n \in Node : node[n].step \in {"completed", "skipped"}
        /\ Phase(e) \in {"sweep", "idle"}

TickInv(e) == Workers /\ Copies(e) /\ Overtaken(e) /\ Room(e) /\ Done(e)

-----------------------------------------------------------------------------
(* Rows.                                                                    *)

(* A node and its goroutine are left as they are, but for marks and lists.  *)
Still(m) ==
    /\ node'[m].step = node[m].step /\ pc'[m] = pc[m] /\ host'[m] = host[m]
    /\ Waiting(node'[m]) => Waiting(node[m])

(* A row that is moved is where it was moved to.                            *)
LEMMA SetStepRow ==
    ASSUME node \in [Node -> NodeRow], NEW n \in Node, NEW s, SetStep(n, s)
    PROVE  /\ node'[n].step = s
           /\ \A m \in Node \ {n} : node'[m] = node[m]
BY DEF SetStep, Moved, NodeRow

(* A pool that does not grow stays within the limit.                        *)
LEMMA PoolShrinks ==
    ASSUME NEW e, Room(e), opt \in OptionSet, opt' = opt,
           \A n \in Node : InPool(e, n)' => InPool(e, n)
    PROVE  Room(e)'
<1>1. Pool(e)' \subseteq Pool(e) /\ Pool(e) \subseteq Node
    BY DEF Pool
<1>2. IsFiniteSet(Pool(e))
    BY <1>1, NodeAssumption, FS_Subset
<1>3. IsFiniteSet(Pool(e)') /\ Cardinality(Pool(e)') <= Cardinality(Pool(e))
    BY <1>1, <1>2, FS_Subset
<1>4. Cardinality(Pool(e)') \in Nat /\ Cardinality(Pool(e)) \in Nat /\ opt.parallel \in Nat
    BY <1>2, <1>3, FS_CardinalityType DEF OptionSet
<1> QED
    BY <1>3, <1>4 DEF Room

(* The phase of a thread that does not move.                                *)
LEMMA PhaseKept ==
    ASSUME NEW e, pc'[e] = pc[e], rel'[e] = rel[e], eng'[e] = eng[e]
    PROVE  Phase(e)' = Phase(e)
BY DEF Phase

(* What a node's own thread can do to its row, its host and itself.         *)
WorkerEffect(n) ==
    \/ /\ pc[n] \in RelPoints \cup {"failJob"} /\ pc'[n] \in RelPoints \cup Backs
       /\ node'[n].step = node[n].step /\ host'[n] = host[n]
    \/ /\ pc[n] = "apt" /\ pc'[n] \in {"idle", "rebootCheck"}
       /\ node'[n].step = node[n].step /\ host'[n] = host[n]
    \/ /\ pc[n] = "rebootCheck" /\ host'[n] = host[n]
       /\ \/ node'[n].step = node[n].step /\ pc'[n] = "rebootMark"
          \/ node'[n].step = "health_check" /\ pc'[n] = "idle"
    \/ /\ pc[n] = "rebootMark" /\ pc'[n] = "reboot"
       /\ node'[n].step = "rebooting" /\ host'[n] = host[n]
    \/ /\ pc[n] = "reboot" /\ pc'[n] = "idle" /\ node'[n].step = node[n].step
    \/ /\ pc[n] = "idle" /\ node[n].step = "awaiting_upgrade" /\ host'[n] = host[n]
       /\ \/ node'[n].step = node[n].step /\ pc'[n] \in {"confHealth", "confReboot"}
          \/ node'[n].step = "health_check" /\ pc'[n] = "idle"
    \/ pc[n] = "confReboot" /\ pc'[n] = "confMark" /\ node'[n].step = node[n].step
    \/ pc[n] \in ConfPoints /\ pc'[n] = "idle" /\ node'[n].step \in {"rebooting", "health_check"}
    \/ /\ Live(n) \/ (pc[n] = "idle" /\ node[n].step = "awaiting_upgrade")
       /\ \/ /\ node[n].step \notin FinalSteps /\ node'[n].step = "failed" /\ pc'[n] = "failJob"
          \/ /\ node[n].step \in FinalSteps /\ node'[n].step = node[n].step /\ pc'[n] = "idle"

(* What else is the same after a step of that thread.                       *)
WorkerFrame(e, n) ==
    /\ opt' = opt /\ eng' = eng /\ pc'[e] = pc[e] /\ rel'[e] = rel[e]
    /\ \A m \in Node \ {n} : Still(m)
    /\ Waiting(node'[n]) => Waiting(node[n])
    /\ job'.status = "completed" => job.status = "completed"
    /\ Terminal => Terminal'

(* Such a step keeps the invariant.                                         *)
LEMMA WorkerKeeps ==
    ASSUME NEW e \in Engine, NEW n \in Node, TypeOK, TickInv(e), WorkerEffect(n), WorkerFrame(e, n)
    PROVE  TickInv(e)'
<1>0. /\ Worker(n) /\ Copies(e) /\ Overtaken(e) /\ Room(e) /\ Done(e) /\ Workers
      /\ opt' = opt /\ eng' = eng /\ pc'[e] = pc[e] /\ Phase(e)' = Phase(e)
      /\ \A m \in Node \ {n} : Still(m)
    BY PhaseKept DEF TickInv, Workers, WorkerFrame
<1>1. \A m \in Node \ {n} : Worker(m)'
    BY <1>0 DEF Workers, Worker, Still
<1>2. Worker(n)'
  <2> USE DEF Worker, SSHPoints, ConfPoints, Live, FinalSteps, Waiting
  <2>1. CASE pc[n] \in RelPoints \cup {"failJob"}
    BY <1>0, <2>1 DEF WorkerEffect, WorkerFrame, RelPoints, Backs
  <2>2. CASE pc[n] \notin RelPoints \cup {"failJob"}
    BY <1>0, <2>2 DEF WorkerEffect, WorkerFrame
  <2> QED
    BY <2>1, <2>2
<1>3. ASSUME NEW m \in eng[e].todo, Copy(e, m), m \in Node PROVE Copy(e, m)'
  <2>1. CASE m # n
    BY <1>0, <1>3, <2>1 DEF Copy, Still
  <2>2. CASE m = n
    <3>1. CASE pc[n] \in RelPoints \cup {"failJob"}
      BY <1>0, <1>3, <2>2, <3>1
         DEF Copy, WorkerEffect, RelPoints, Backs, SSHPoints, ConfPoints, Live
    <3>2. CASE pc[n] \notin RelPoints \cup {"failJob"}
      BY <1>0, <1>3, <2>2, <3>2
         DEF Copy, WorkerEffect, Worker, SSHPoints, ConfPoints, Live, FinalSteps, Advancing, Waiting
    <3> QED
      BY <3>1, <3>2
  <2> QED
    BY <2>1, <2>2
<1>4. node[n].step \in {"pending", "skipped", "draining", "restoring"} =>
            node'[n].step = node[n].step
  <2>1. CASE pc[n] \in RelPoints \cup {"failJob"}
    BY <1>0, <2>1
       DEF WorkerEffect, RelPoints, SSHPoints, ConfPoints, Live
  <2>2. CASE pc[n] \notin RelPoints \cup {"failJob"}
    BY <1>0, <2>2 DEF WorkerEffect, Worker, SSHPoints, ConfPoints, Live, FinalSteps
  <2> QED
    BY <2>1, <2>2
<1>5. \A m \in Node : node[m].step \in {"pending", "skipped", "draining", "restoring"} =>
            node'[m].step = node[m].step
    BY <1>0, <1>4 DEF Still
<1>6. Copies(e)'
  <2>1. eng[e].todo \subseteq Node
    BY DEF TypeOK, EngineLocals
  <2>2. Phase(e)' = "advance" => \A m \in eng'[e].todo : Copy(e, m)'
    BY <1>0, <1>3, <2>1 DEF Copies
  <2> QED
    BY <1>0, <1>5, <2>2 DEF Copies
<1>7. \A m \in Node : LiveFailed(m)' => LiveFailed(m)
  <2>1. ASSUME LiveFailed(n)' PROVE LiveFailed(n)
    BY <1>0, <2>1
       DEF WorkerEffect, LiveFailed, Worker, SSHPoints, ConfPoints, Live, FinalSteps, RelPoints, Backs
  <2> QED
    BY <1>0, <2>1 DEF LiveFailed, Still
<1>8. Overtaken(e)'
    BY <1>0, <1>7 DEF Overtaken, WorkerFrame
<1>9. \A m \in Node : InPool(e, m)' => InPool(e, m)
  <2>1. node'[n].step \in ActiveSteps => node[n].step \in ActiveSteps \/ LiveFailed(n)
    BY <1>0
       DEF WorkerEffect, LiveFailed, Worker, SSHPoints, ConfPoints, Live, FinalSteps, ActiveSteps,
           Advancing
  <2>2. node'[n].step = "failed" => node[n].step = "failed" \/ node[n].step \in ActiveSteps
    BY <1>0
       DEF WorkerEffect, LiveFailed, Worker, SSHPoints, ConfPoints, Live, FinalSteps, ActiveSteps,
           Advancing
  <2> QED
    BY <1>0, <1>7, <2>1, <2>2 DEF InPool, Lost, Still
<1>10. Room(e)'
    BY <1>0, <1>9, PoolShrinks DEF TypeOK
<1>11. Done(e)'
  <2>1. node[n].step \in {"completed", "skipped"} => node'[n].step = node[n].step
    BY <1>0 DEF WorkerEffect, Worker, SSHPoints, ConfPoints, Live, FinalSteps
  <2> QED
    BY <1>0, <2>1 DEF Done, Still, WorkerFrame
<1> QED
    BY <1>1, <1>2, <1>6, <1>8, <1>10, <1>11 DEF TickInv, Workers

-----------------------------------------------------------------------------
(* What the steps of each thread do, as far as the invariant tells.         *)

(* The goroutine of a node fails it.                                        *)
LEMMA WorkerFails ==
    ASSUME TypeOK, NEW e \in Engine, NEW n \in Node, NEW rows \in [Node -> NodeRow],
           FailNodeIn(rows, n, n, "idle"),
           \A m \in Node \ {n} : rows[m] = node[m],
           rows[n] = node[n] \/ (rows[n].step \notin FinalSteps /\ node[n].step \notin FinalSteps),
           host' = host \/ host' = RebootAsked(n),
           opt' = opt, eng' = eng, job' = job,
           Live(n) \/ (pc[n] = "idle" /\ node[n].step = "awaiting_upgrade")
    PROVE  WorkerEffect(n) /\ WorkerFrame(e, n)
<1>1. n \in Thread /\ e \in Thread /\ e # n /\ Node \subseteq Thread
    BY ThreadAssumption DEF Thread
<1>2. /\ \A m \in Node \ {n} : node'[m] = rows[m]
      /\ \A u \in Thread \ {n} : pc'[u] = pc[u] /\ rel'[u] = rel[u]
      /\ \/ /\ rows[n].step \in FinalSteps /\ node'[n] = rows[n] /\ pc'[n] = "idle"
         \/ /\ rows[n].step \notin FinalSteps /\ node'[n].step = "failed" /\ pc'[n] = "failJob"
    BY <1>1, FailNodeRow
<1>3. \A m \in Node \ {n} : host'[m] = host[m]
    BY NodeAssumption DEF RebootAsked, TypeOK
<1>4. "upgrading" \notin FinalSteps
    BY DEF FinalSteps
<1>5. Waiting(node'[n]) => Waiting(node[n])
    BY <1>2, <1>4 DEF Waiting
<1>6. WorkerEffect(n)
    BY <1>2 DEF WorkerEffect
<1>7. WorkerFrame(e, n)
    BY <1>1, <1>2, <1>3, <1>5 DEF WorkerFrame, Still, Terminal
<1> QED
    BY <1>6, <1>7

(* It moves on, with at most its row's step changed.                        *)
LEMMA WorkerMoves ==
    ASSUME TypeOK, NEW e \in Engine, NEW n \in Node, NEW p, pc' = [pc EXCEPT ![n] = p],
           node'[n].step # "upgrading" \/ node' = node,
           \A m \in Node \ {n} : node'[m] = node[m],
           host' = host \/ host' = RebootAsked(n),
           opt' = opt, eng' = eng, job' = job, rel' = rel
    PROVE  WorkerFrame(e, n) /\ pc'[n] = p
<1>1. n \in Thread /\ e \in Thread /\ e # n /\ Node \subseteq Thread
    BY ThreadAssumption DEF Thread
<1>2. \A m \in Node \ {n} : host'[m] = host[m]
    BY NodeAssumption DEF RebootAsked, TypeOK
<1>3. pc'[n] = p /\ \A u \in Thread \ {n} : pc'[u] = pc[u]
    BY <1>1 DEF TypeOK
<1> QED
    BY <1>1, <1>2, <1>3 DEF WorkerFrame, Still, Waiting, Terminal

(* runSSHUpgrade, ConfirmUpgrade and what they fail into.                   *)
LEMMA WorkerEffects ==
    ASSUME IInv, NEW e \in Engine, NEW n \in Node, WorkerStep(n) \/ ConfirmUpgrade(n),
           Worker(n), Terminal => Terminal'
    PROVE  WorkerEffect(n) /\ WorkerFrame(e, n)
<1> USE DEF clusterVars, Goto
<1>0. /\ TypeOK /\ n \in Thread /\ e \in Thread /\ e # n /\ Node \subseteq Thread
      /\ node \in [Node -> NodeRow] /\ pc \in [Thread -> Points]
    BY ThreadAssumption DEF IInv, TypeOK, Thread
<1>1. ASSUME FailNode(n, n, "idle"), host' = host \/ host' = RebootAsked(n),
             opt' = opt, eng' = eng, job' = job,
             Live(n) \/ (pc[n] = "idle" /\ node[n].step = "awaiting_upgrade")
      PROVE  WorkerEffect(n) /\ WorkerFrame(e, n)
    BY <1>0, <1>1, WorkerFails DEF FailNode
<1>2. ASSUME NEW p, pc' = [pc EXCEPT ![n] = p], node' = node,
             host' = host \/ host' = RebootAsked(n),
             opt' = opt, eng' = eng, job' = job, rel' = rel
      PROVE  WorkerFrame(e, n) /\ pc'[n] = p
    BY <1>0, <1>2, WorkerMoves
<1>3. ASSUME NEW p, pc' = [pc EXCEPT ![n] = p], NEW s \in {"rebooting", "health_check"},
             SetStep(n, s), host' = host, opt' = opt, eng' = eng, job' = job, rel' = rel
      PROVE  WorkerFrame(e, n) /\ pc'[n] = p /\ node'[n].step = s
  <2>1. node'[n].step = s /\ \A m \in Node \ {n} : node'[m] = node[m]
    BY <1>0, <1>3, SetStepRow
  <2> QED
    BY <1>0, <1>3, <2>1, WorkerMoves
<1>4. ASSUME NEW p, pc' = [pc EXCEPT ![n] = p],
             node' = [node EXCEPT ![n] = [Moved(@, "health_check") EXCEPT !.owed = TRUE]],
             host' = host, opt' = opt, eng' = eng, job' = job, rel' = rel
      PROVE  WorkerFrame(e, n) /\ pc'[n] = p /\ node'[n].step = "health_check"
  <2>1. node'[n].step = "health_check" /\ \A m \in Node \ {n} : node'[m] = node[m]
    BY <1>0, <1>4 DEF Moved, NodeRow
  <2> QED
    BY <1>0, <1>4, <2>1, WorkerMoves
<1>5. CASE SSHUpgrade(n)
  <2>1. CASE Fault /\ FailNode(n, n, "idle")
    BY <1>1, <1>5, <2>1 DEF SSHUpgrade, Live, SSHPoints
  <2>2. CASE node' = node /\ rel' = rel
             /\ Goto(n, IF IsJobCancelled THEN "idle" ELSE "rebootCheck")
    BY <1>2, <1>5, <2>2 DEF SSHUpgrade, WorkerEffect
  <2> QED
    BY <1>5, <2>1, <2>2 DEF SSHUpgrade
<1>6. CASE SSHDecide(n)
  <2>1. /\ pc[n] = "rebootCheck" /\ opt' = opt /\ eng' = eng /\ job' = job /\ host' = host
        /\ \/ SetStep(n, "health_check") /\ Goto(n, "idle") /\ rel' = rel
           \/ /\ node' = [node EXCEPT ![n] = [Moved(@, "health_check") EXCEPT !.owed = TRUE]]
              /\ Goto(n, "idle") /\ rel' = rel
           \/ FailNode(n, n, "idle")
           \/ Goto(n, "rebootMark") /\ node' = node /\ rel' = rel
    BY <1>6, Zenon DEF SSHDecide
  <2>2. CASE FailNode(n, n, "idle")
    BY <1>1, <2>1, <2>2 DEF Live, SSHPoints
  <2>3. CASE SetStep(n, "health_check") /\ Goto(n, "idle") /\ rel' = rel
    BY <1>3, <2>1, <2>3 DEF WorkerEffect
  <2>4. CASE /\ node' = [node EXCEPT ![n] = [Moved(@, "health_check") EXCEPT !.owed = TRUE]]
             /\ Goto(n, "idle") /\ rel' = rel
    BY <1>4, <2>1, <2>4 DEF WorkerEffect
  <2>5. CASE Goto(n, "rebootMark") /\ node' = node /\ rel' = rel
    BY <1>2, <2>1, <2>5 DEF WorkerEffect
  <2> QED
    BY <2>1, <2>2, <2>3, <2>4, <2>5
<1>7. CASE SSHMarkReboot(n)
    BY <1>3, <1>7 DEF SSHMarkReboot, WorkerEffect
<1>8. CASE SSHReboot(n)
  <2>1. CASE FailNode(n, n, "idle") /\ host' \in {host, RebootAsked(n)}
    BY <1>1, <1>8, <2>1 DEF SSHReboot, Live, SSHPoints
  <2>2. CASE host' = RebootAsked(n) /\ Goto(n, "idle") /\ node' = node /\ rel' = rel
    BY <1>2, <1>8, <2>2 DEF SSHReboot, WorkerEffect
  <2> QED
    BY <1>8, <2>1, <2>2 DEF SSHReboot
<1>9. CASE ConfirmReboot(n)
  <2> DEFINE rows == [node EXCEPT ![n] = Moved(@, "rebooting")]
  <2>1. CASE FailNodeIn(rows, n, n, "idle") /\ host' \in {host, RebootAsked(n)}
    <3>1. "rebooting" \in Steps
      BY DEF Steps, ActiveSteps, Advancing
    <3>2. /\ rows \in [Node -> NodeRow] /\ (\A m \in Node \ {n} : rows[m] = node[m])
          /\ rows[n] = Moved(node[n], "rebooting")
      BY <1>0, <3>1, MovedIsRow
    <3>3. rows[n].step \notin FinalSteps
      BY <1>0, <3>2 DEF FinalSteps, Moved, NodeRow
    <3>4. pc[n] = "confReboot" /\ opt' = opt /\ eng' = eng /\ job' = job
      BY <1>9 DEF ConfirmReboot
    <3>5. Live(n) /\ node[n].step \notin FinalSteps
      BY <3>4 DEF Live, ConfPoints, Worker, FinalSteps
    <3> HIDE DEF rows
    <3> QED
      BY <1>0, <2>1, <3>2, <3>3, <3>4, <3>5, WorkerFails
  <2>2. CASE host' = RebootAsked(n) /\ Goto(n, "confMark") /\ node' = node /\ rel' = rel
    BY <1>2, <1>9, <2>2 DEF ConfirmReboot, WorkerEffect
  <2> QED
    BY <1>9, <2>1, <2>2 DEF ConfirmReboot
<1>10. CASE ConfirmMark(n)
  <2>1. \E s \in {"rebooting", "health_check"} : SetStep(n, s)
    BY <1>10 DEF ConfirmMark
  <2> QED
    BY <1>3, <1>10, <2>1 DEF ConfirmMark, WorkerEffect, ConfPoints
<1>11. CASE ConfirmUpgrade(n)
  <2>1. /\ pc[n] = "idle" /\ node[n].step = "awaiting_upgrade"
        /\ opt' = opt /\ eng' = eng /\ job' = job /\ host' = host
        /\ \/ FailNode(n, n, "idle")
           \/ Goto(n, "confHealth") /\ node' = node /\ rel' = rel
           \/ /\ node' = [node EXCEPT ![n] = [Moved(@, "health_check") EXCEPT !.owed = TRUE]]
              /\ pc' = pc /\ rel' = rel
           \/ node' = node /\ Goto(n, "confReboot") /\ rel' = rel
    BY <1>11, Zenon DEF ConfirmUpgrade
  <2>2. CASE FailNode(n, n, "idle")
    BY <1>1, <2>1, <2>2
  <2>3. CASE \E p \in {"confHealth", "confReboot"} : Goto(n, p) /\ node' = node /\ rel' = rel
    BY <1>2, <2>1, <2>3 DEF WorkerEffect
  <2>4. CASE /\ node' = [node EXCEPT ![n] = [Moved(@, "health_check") EXCEPT !.owed = TRUE]]
             /\ pc' = pc /\ rel' = rel
    <3>1. pc' = [pc EXCEPT ![n] = "idle"]
      BY <1>0, <2>1, <2>4
    <3> QED
      BY <1>4, <2>1, <2>4, <3>1 DEF WorkerEffect
  <2> QED
    BY <2>1, <2>2, <2>3, <2>4
<1>12. CASE Release(n)
  <2>1. ReleaseEffect(n)
    BY <1>0, <1>12, ReleaseEffects
  <2>2. rel[n].back \in Backs
    BY <1>0 DEF TypeOK, ReleaseLocals
  <2>3. WorkerEffect(n)
    BY <2>1, <2>2 DEF WorkerEffect, ReleaseEffect
  <2>4. WorkerFrame(e, n)
    BY <1>0, <2>1 DEF WorkerFrame, ReleaseEffect, Still
  <2> QED
    BY <2>3, <2>4
<1> QED
    BY <1>5, <1>6, <1>7, <1>8, <1>9, <1>10, <1>11, <1>12 DEF WorkerStep

(* A step of neither the tick nor a goroutine keeps the invariant: the      *)
(* nodes of N may be skipped, or see their clock or their host change.      *)
LEMMA OutsideKeeps ==
    ASSUME NEW e \in Engine, TypeOK, TickInv(e), NEW N \in SUBSET Node,
           opt' = opt, eng' = eng, pc'[e] = pc[e], rel'[e] = rel[e],
           \A m \in Node \ N : Still(m),
           \A m \in N : /\ Worker(m)' /\ pc'[m] = pc[m]
                        /\ \/ node'[m].step = node[m].step
                           \/ node[m].step = "pending" /\ node'[m].step = "skipped",
           job'.status = "completed" => job.status = "completed",
           Terminal => Terminal'
    PROVE  TickInv(e)'
<1>0. /\ Copies(e) /\ Overtaken(e) /\ Room(e) /\ Done(e) /\ Workers
      /\ Phase(e)' = Phase(e) /\ eng[e].todo \subseteq Node
    BY PhaseKept DEF TickInv, TypeOK, EngineLocals
<1>1. \A m \in Node : /\ pc'[m] = pc[m]
                      /\ \/ node'[m].step = node[m].step
                         \/ node[m].step = "pending" /\ node'[m].step = "skipped"
    BY DEF Still
<1>2. Workers'
    BY <1>0 DEF Workers, Worker, Still
<1>3. Copies(e)'
  <2>1. ASSUME NEW m \in Node, Copy(e, m) PROVE Copy(e, m)'
    BY <1>1, <2>1 DEF Copy, Advancing, Waiting
  <2> QED
    BY <1>0, <1>1, <2>1 DEF Copies
<1>4. \A m \in Node : LiveFailed(m)' => LiveFailed(m)
    BY <1>1 DEF LiveFailed
<1>5. Overtaken(e)'
    BY <1>0, <1>4 DEF Overtaken
<1>6. \A m \in Node : InPool(e, m)' => InPool(e, m)
    BY <1>0, <1>1, <1>4 DEF InPool, Lost, ActiveSteps, Advancing
<1>7. Room(e)'
    BY <1>0, <1>6, PoolShrinks DEF TypeOK
<1>8. Done(e)'
    BY <1>0, <1>1 DEF Done
<1> QED
    BY <1>2, <1>3, <1>5, <1>7, <1>8 DEF TickInv

(* No node is touched.                                                      *)
LEMMA QuietKeeps ==
    ASSUME NEW e \in Engine, TypeOK, TickInv(e),
           opt' = opt, eng' = eng, pc'[e] = pc[e], rel'[e] = rel[e],
           \A m \in Node : Still(m),
           job'.status = "completed" => job.status = "completed",
           Terminal => Terminal'
    PROVE  TickInv(e)'
<1> DEFINE N == {}
<1>1. N \in SUBSET Node /\ N = {} /\ \A m \in Node \ N : Still(m)
    OBVIOUS
<1> HIDE DEF N
<1> QED
    BY <1>1, OutsideKeeps

(* One is.                                                                  *)
LEMMA NodeKeeps ==
    ASSUME NEW e \in Engine, TypeOK, TickInv(e), NEW n \in Node,
           opt' = opt, eng' = eng, pc' = pc, rel' = rel, job' = job,
           \A m \in Node \ {n} : Still(m),
           Worker(n)',
           \/ node'[n].step = node[n].step
           \/ node[n].step = "pending" /\ node'[n].step = "skipped"
    PROVE  TickInv(e)'
<1> DEFINE N == {n}
<1>1. N \in SUBSET Node /\ (\A m \in N : m = n) /\ \A m \in Node \ N : Still(m)
    OBVIOUS
<1>2. Terminal => Terminal'
    BY DEF Terminal
<1> HIDE DEF N
<1> QED
    BY <1>1, <1>2, OutsideKeeps

(* The requests and the goroutine behind them.                              *)
LEMMA RequestKeeps ==
    ASSUME NEW e \in Engine, IInv, TickInv(e), Terminal => Terminal',
           \/ StartJob \/ PauseJob \/ ResumeJob \/ CancelJob \/ CreateAnother \/ Release(Api)
           \/ \E n \in Node : SkipNode(n)
    PROVE  TickInv(e)'
<1> USE DEF clusterVars, Goto
<1>0. /\ TypeOK /\ job \in JobRow /\ node \in [Node -> NodeRow] /\ rel \in [Thread -> ReleaseLocals]
      /\ pc \in [Thread -> Points] /\ Api \in Thread /\ Node \subseteq Thread /\ e \in Thread
      /\ Api \notin Node /\ e # Api
    BY ThreadAssumption DEF IInv, TypeOK, Thread
<1>1. CASE StartJob \/ PauseJob \/ ResumeJob \/ CancelJob \/ CreateAnother
  <2>1. opt' = opt /\ eng' = eng /\ node' = node /\ host' = host
        /\ \A u \in Thread \ {Api} : pc'[u] = pc[u] /\ rel'[u] = rel[u]
    BY <1>0, <1>1 DEF StartJob, PauseJob, ResumeJob, CancelJob, CreateAnother
  <2>2. job'.status = "completed" => job.status = "completed"
    BY <1>0, <1>1 DEF StartJob, PauseJob, ResumeJob, CancelJob, CreateAnother, Ended, JobRow
  <2>3. \A m \in Node : Still(m)
    BY <1>0, <2>1 DEF Still
  <2> QED
    BY <1>0, <2>1, <2>2, <2>3, QuietKeeps
<1>2. CASE Release(Api)
  <2>1. ReleaseEffect(Api)
    BY <1>0, <1>2, ReleaseEffects
  <2>2. \A m \in Node : Still(m)
    BY <1>0, <2>1 DEF Still, ReleaseEffect
  <2>3. /\ job'.status = "completed" => job.status = "completed"
        /\ opt' = opt /\ eng' = eng /\ pc'[e] = pc[e] /\ rel'[e] = rel[e]
    BY <1>0, <2>1 DEF ReleaseEffect
  <2> QED
    BY <1>0, <2>2, <2>3, QuietKeeps
<1>3. ASSUME NEW n \in Node, SkipNode(n) PROVE TickInv(e)'
  <2>1. /\ opt' = opt /\ eng' = eng /\ pc' = pc /\ rel' = rel /\ job' = job /\ host' = host
        /\ node[n].step = "pending"
    BY <1>3 DEF SkipNode
  <2>2. node'[n].step = "skipped" /\ \A m \in Node \ {n} : node'[m] = node[m]
    BY <1>0, <1>3, SetStepRow DEF SkipNode
  <2>3. \A m \in Node \ {n} : Still(m)
    BY <2>1, <2>2 DEF Still
  <2>4. Worker(n)'
    BY <2>1, <2>2 DEF TickInv, Workers, Worker, SSHPoints, ConfPoints, Waiting
  <2> QED
    BY <1>0, <2>1, <2>2, <2>3, <2>4, NodeKeeps
<1> QED
    BY <1>1, <1>2, <1>3

(* Time, the cluster and crashes.                                           *)
LEMMA WorldKeeps ==
    ASSUME NEW e \in Engine, IInv, TickInv(e), Terminal => Terminal',
           \/ \E n \in Node : GoStale(n) \/ GoLate(n) \/ HostGoesDown(n) \/ HostBoots(n)
           \/ BackoffPasses \/ HourPasses \/ (\E g \in Guest : GuestMoves(g)) \/ Crash
    PROVE  TickInv(e)'
<1> USE DEF clusterVars
<1>0. /\ TypeOK /\ job \in JobRow /\ node \in [Node -> NodeRow] /\ Node \subseteq Thread
      /\ e \in Thread /\ host \in [Host -> {"up", "asked", "down", "fresh"}] /\ Node \subseteq Host
      /\ Workers
    BY NodeAssumption DEF IInv, TypeOK, Thread, TickInv
<1>1. ASSUME NEW n \in Node, GoStale(n) \/ GoLate(n) PROVE TickInv(e)'
  <2>1. opt' = opt /\ eng' = eng /\ pc' = pc /\ rel' = rel /\ job' = job /\ host' = host
    BY <1>1 DEF GoStale, GoLate
  <2>2. /\ \A m \in Node \ {n} : node'[m] = node[m]
        /\ node'[n].step = node[n].step /\ node'[n].runs = node[n].runs
        /\ node'[n].stale = node[n].stale \/ pc[n] = "idle"
    BY <1>0, <1>1 DEF GoStale, GoLate, NodeRow
  <2>3. \A m \in Node \ {n} : Still(m)
    BY <2>1, <2>2 DEF Still
  <2>4. Worker(n)'
    BY <1>0, <2>1, <2>2 DEF Workers, Worker, Waiting
  <2> QED
    BY <1>0, <2>1, <2>2, <2>3, <2>4, NodeKeeps
<1>2. ASSUME NEW n \in Node, HostGoesDown(n) \/ HostBoots(n) PROVE TickInv(e)'
  <2>1. opt' = opt /\ eng' = eng /\ pc' = pc /\ rel' = rel /\ job' = job /\ node' = node
    BY <1>2 DEF HostGoesDown, HostBoots
  <2>2. host[n] # "up" /\ \A m \in Node \ {n} : host'[m] = host[m]
    BY <1>0, <1>2 DEF HostGoesDown, HostBoots
  <2>3. \A m \in Node \ {n} : Still(m)
    BY <2>1, <2>2 DEF Still
  <2>4. Worker(n)'
    BY <1>0, <2>1, <2>2 DEF Workers, Worker
  <2> QED
    BY <1>0, <2>1, <2>3, <2>4, NodeKeeps
<1>3. CASE BackoffPasses \/ HourPasses \/ \E g \in Guest : GuestMoves(g)
  <2>1. opt' = opt /\ eng' = eng /\ pc' = pc /\ rel' = rel /\ node' = node /\ host' = host
    BY <1>3 DEF BackoffPasses, HourPasses, GuestMoves
  <2>2. job'.status = job.status
    BY <1>0, <1>3 DEF BackoffPasses, HourPasses, GuestMoves, JobRow
  <2>3. \A m \in Node : Still(m)
    BY <2>1 DEF Still
  <2> QED
    BY <1>0, <2>1, <2>2, <2>3, QuietKeeps
<1>4. CASE Crash
  <2>1. /\ opt' = opt /\ node' = node /\ host' = host /\ job' = job
        /\ \A t \in Thread : pc'[t] = "idle"
    BY <1>4 DEF Crash
  <2>2. Phase(e)' = "idle"
    BY <1>0, <2>1 DEF Phase, RelPoints, RestorePoints, DrainPoints
  <2>3. \A m \in Node : ~LiveFailed(m)'
    BY <1>0, <2>1 DEF LiveFailed, SSHPoints
  <2>4. Workers'
    BY <1>0, <2>1 DEF Workers, Worker, SSHPoints, ConfPoints
  <2>5. Copies(e)'
    BY <1>0, <2>1, <2>2 DEF Copies, ChoosePoints, DrainPoints, RestorePoints
  <2>6. Overtaken(e)'
    BY <2>3 DEF Overtaken
  <2>7. \A m \in Node : InPool(e, m)' => InPool(e, m)
    BY <1>0, <2>1, <2>2, <2>3 DEF InPool, Lost, ChoosePoints
  <2>8. Room(e)'
    BY <1>0, <2>1, <2>7, PoolShrinks DEF TickInv, TypeOK
  <2>9. Done(e)'
    BY <2>1, <2>2 DEF TickInv, Done
  <2> QED
    BY <2>4, <2>5, <2>6, <2>8, <2>9 DEF TickInv
<1> QED
    BY <1>1, <1>2, <1>3, <1>4

-----------------------------------------------------------------------------
(* The tick.                                                                *)

(* Where an overtaken session stays excused.                                *)
PhaseStep(e) ==
    \/ Phase(e) \notin {"advance", "sweep", "idle"}
    \/ Phase(e) = "advance" /\ Phase(e)' = "advance" /\ eng'[e].rows = eng[e].rows
    \/ /\ Phase(e) \in {"sweep", "idle"} /\ Phase(e)' \in {"sweep", "idle"}
       /\ Terminal \/ pc[e] = "failJob" => Terminal' \/ pc'[e] = "failJob"

(* Sessions are overtaken only while the tick looks at its nodes.           *)
LEMMA OvertakenKept ==
    ASSUME NEW e, Overtaken(e), PhaseStep(e),
           \A m \in Node : LiveFailed(m)' =>
               LiveFailed(m) \/ (Phase(e)' = "advance" /\ eng'[e].rows[m].step \in Advancing)
    PROVE  Overtaken(e)'
BY DEF Overtaken, PhaseStep

(* What a step of the tick has to see to, the nodes of N being those it     *)
(* writes.                                                                  *)
LEMMA EngineMoves ==
    ASSUME NEW e \in Engine, TypeOK, TickInv(e), NEW N \in SUBSET Node, opt' = opt,
           \A m \in Node \ N : Still(m),
           \A m \in N : Worker(m)' /\ InPool(e, m),
           N # {} => job.status # "completed",
           Copies(e)', Overtaken(e)',
           pc'[e] \in ChoosePoints => pc[e] \in ChoosePoints /\ eng'[e].n = eng[e].n,
           Phase(e)' = "advance" =>
               \/ /\ Phase(e) = "advance" /\ eng'[e].rows = eng[e].rows
                  /\ eng'[e].todo \subseteq eng[e].todo
               \/ \A m \in eng'[e].todo : eng'[e].rows[m].step = node'[m].step,
           job'.status = "completed" => job.status = "completed" /\ Phase(e)' \in {"sweep", "idle"}
    PROVE  TickInv(e)'
<1>0. Workers /\ Room(e) /\ Done(e)
    BY DEF TickInv
<1>1. Workers'
    BY <1>0 DEF Workers, Worker, Still
<1>2. \A m \in Node \ N : InPool(e, m)' => InPool(e, m)
    BY DEF InPool, LiveFailed, Lost, Still
<1>3. Room(e)'
    BY <1>0, <1>2, PoolShrinks DEF TypeOK
<1>4. Done(e)'
    BY <1>0 DEF Done, Still
<1> QED
    BY <1>1, <1>3, <1>4 DEF TickInv

(* It writes no node.                                                       *)
LEMMA EngineStill ==
    ASSUME NEW e \in Engine, TypeOK, TickInv(e), opt' = opt,
           \A m \in Node : Still(m),
           Copies(e)', Overtaken(e)',
           pc'[e] \in ChoosePoints => pc[e] \in ChoosePoints /\ eng'[e].n = eng[e].n,
           Phase(e)' = "advance" =>
               \/ /\ Phase(e) = "advance" /\ eng'[e].rows = eng[e].rows
                  /\ eng'[e].todo \subseteq eng[e].todo
               \/ \A m \in eng'[e].todo : eng'[e].rows[m].step = node'[m].step,
           job'.status = "completed" => job.status = "completed" /\ Phase(e)' \in {"sweep", "idle"}
    PROVE  TickInv(e)'
<1> DEFINE N == {}
<1>1. N \in SUBSET Node /\ N = {} /\ \A m \in Node \ N : Still(m)
    OBVIOUS
<1> HIDE DEF N
<1> QED
    BY <1>1, EngineMoves

(* It writes one.                                                           *)
LEMMA EngineWrites ==
    ASSUME NEW e \in Engine, TypeOK, TickInv(e), NEW n \in Node, opt' = opt,
           \A m \in Node \ {n} : Still(m),
           Still(n) \/ (Worker(n)' /\ InPool(e, n) /\ job.status # "completed"),
           Copies(e)', Overtaken(e)',
           pc'[e] \in ChoosePoints => pc[e] \in ChoosePoints /\ eng'[e].n = eng[e].n,
           Phase(e)' = "advance" =>
               \/ /\ Phase(e) = "advance" /\ eng'[e].rows = eng[e].rows
                  /\ eng'[e].todo \subseteq eng[e].todo
               \/ \A m \in eng'[e].todo : eng'[e].rows[m].step = node'[m].step,
           job'.status = "completed" => job.status = "completed" /\ Phase(e)' \in {"sweep", "idle"}
    PROVE  TickInv(e)'
<1>1. CASE Still(n)
  <2>1. \A m \in Node : Still(m)
    BY <1>1
  <2> QED
    BY <2>1, EngineStill
<1>2. CASE Worker(n)' /\ InPool(e, n) /\ job.status # "completed"
  <2> DEFINE N == {n}
  <2>1. N \in SUBSET Node /\ (\A m \in N : m = n) /\ \A m \in Node \ N : Still(m)
    OBVIOUS
  <2> HIDE DEF N
  <2> QED
    BY <1>2, <2>1, EngineMoves
<1> QED
    BY <1>1, <1>2

(* What advanceNode knows of the node it is called for.                     *)
LEMMA AdvancesFacts ==
    ASSUME NEW e \in Engine, TypeOK, TickInv(e), NEW n \in Node, NEW S, Advances(e, n, S)
    PROVE  /\ pc[e] = "advance" /\ Phase(e) = "advance" /\ n \in eng[e].todo /\ Copy(e, n)
           /\ eng[e].rows[n].step \in S /\ job.status # "completed"
           /\ eng[e].todo \subseteq Node
           /\ Workers /\ Worker(n)
<1>1. eng[e].todo \subseteq Node /\ eng[e].todo # {} /\ n = First(eng[e].todo) /\ pc[e] = "advance"
      /\ eng[e].rows[n].step \in S
    BY DEF Advances, TypeOK, EngineLocals
<1>2. n \in eng[e].todo
    BY <1>1, FirstIsMember
<1>3. Phase(e) = "advance"
    BY <1>1 DEF Phase, RelPoints, RestorePoints, DrainPoints
<1> QED
    BY <1>1, <1>2, <1>3 DEF TickInv, Copies, Done, Workers

(* advanceNode: the tick goes on with the next node, fails this one, or     *)
(* works on it, and the row is where Copy lets it be.                       *)
LEMMA AdvanceKeeps ==
    ASSUME NEW e \in Engine, TypeOK, TickInv(e), NEW n \in Node, NEW S, Advances(e, n, S),
           opt' = opt, job' = job, eng'[e].rows = eng[e].rows, eng'[e].todo = eng[e].todo \ {n},
           \A m \in Node \ {n} : Still(m),
           Still(n) \/ (Worker(n)' /\ InPool(e, n)),
           \/ pc'[e] = "advance"
           \/ pc'[e] = "failJob" /\ rel'[e].back = "advance"
           \/ /\ pc'[e] \in DrainPoints /\ eng'[e].n = n /\ eng'[e].back = "advance"
              /\ node'[n].step = "draining"
           \/ pc'[e] = "restart" /\ eng'[e].n = n /\ node'[n].step = "restoring"
    PROVE  TickInv(e)'
<1>0. /\ pc[e] = "advance" /\ Phase(e) = "advance" /\ Copy(e, n)
      /\ job.status # "completed" /\ eng[e].todo \subseteq Node
    BY AdvancesFacts
<1>1. Phase(e)' = "advance"
    BY DEF Phase, RelPoints, RestorePoints, DrainPoints
<1>2. \A m \in eng'[e].todo : Copy(e, m)'
    BY <1>0 DEF TickInv, Copies, Copy, Still
<1>3. Copies(e)'
    BY <1>2 DEF Copies, DrainPoints, RestorePoints, ChoosePoints
<1>4. Overtaken(e)'
  <2>1. PhaseStep(e)
    BY <1>0, <1>1 DEF PhaseStep
  <2>2. \A m \in Node \ {n} : LiveFailed(m)' => LiveFailed(m)
    BY DEF LiveFailed, Still
  <2>3. eng'[e].rows[n].step \in Advancing
    BY <1>0 DEF Copy
  <2> QED
    BY <1>1, <2>1, <2>2, <2>3, OvertakenKept DEF TickInv
<1>5. pc'[e] \notin ChoosePoints
    BY DEF ChoosePoints, DrainPoints
<1> QED
    BY <1>0, <1>1, <1>3, <1>4, <1>5, EngineWrites

(* The tick's locals after a node is done with, or begun.                   *)
LEMMA OffRows ==
    ASSUME NEW e \in Engine, TypeOK, NEW n,
           \/ eng' = Off(e, n)
           \/ \E left, back : eng' = WorkOn(e, n, left, back)
    PROVE  eng'[e].rows = eng[e].rows /\ eng'[e].todo = eng[e].todo \ {n}
<1>0. eng \in [Engine -> EngineLocals] /\ eng[e] \in EngineLocals
    BY DEF TypeOK
<1>1. CASE eng' = Off(e, n)
    BY <1>0, <1>1 DEF Off, EngineLocals
<1>2. ASSUME NEW left, NEW back, eng' = WorkOn(e, n, left, back)
      PROVE  eng'[e].rows = eng[e].rows /\ eng'[e].todo = eng[e].todo \ {n}
    BY <1>0, <1>2 DEF WorkOn, EngineLocals
<1> QED
    BY <1>1, <1>2

(* The node the tick works on, and where it goes from there.                *)
LEMMA WorkOnNode ==
    ASSUME NEW e \in Engine, TypeOK, NEW n, NEW left, NEW back, eng' = WorkOn(e, n, left, back)
    PROVE  eng'[e].n = n /\ eng'[e].back = back
BY DEF WorkOn, EngineLocals, TypeOK

(* advanceNode fails the node.                                              *)
LEMMA AdvanceFails ==
    ASSUME NEW e \in Engine, TypeOK, TickInv(e), NEW n \in Node, NEW S, Advances(e, n, S),
           NEW rows \in [Node -> NodeRow], FailNodeIn(rows, e, n, "advance"),
           \A m \in Node \ {n} : rows[m] = node[m],
           \/ rows[n].step = node[n].step /\ (Waiting(rows[n]) => Waiting(node[n]))
           \/ rows[n].step \notin FinalSteps /\ node[n].step \notin FinalSteps,
           opt' = opt, job' = job, host' = host,
           eng'[e].rows = eng[e].rows, eng'[e].todo = eng[e].todo \ {n}
    PROVE  TickInv(e)'
<1>0. /\ Copy(e, n) /\ Worker(n)
      /\ e \in Thread /\ Node \subseteq Thread \ {e}
    BY AdvancesFacts, ThreadAssumption DEF Thread
<1>1. /\ \A m \in Node \ {n} : node'[m] = rows[m]
      /\ \A u \in Thread \ {e} : pc'[u] = pc[u] /\ rel'[u] = rel[u]
      /\ \/ /\ rows[n].step \in FinalSteps /\ node'[n] = rows[n] /\ pc'[e] = "advance"
         \/ /\ rows[n].step \notin FinalSteps /\ node'[n].step = "failed"
            /\ pc'[e] = "failJob" /\ rel'[e].back = "advance"
    BY <1>0, FailNodeRow
<1>2. \A m \in Node \ {n} : Still(m)
    BY <1>0, <1>1 DEF Still
<1>3. CASE rows[n].step \in FinalSteps
  <2>1. Still(n)
    BY <1>0, <1>1, <1>3 DEF Still
  <2> QED
    BY <1>1, <1>2, <1>3, <2>1, AdvanceKeeps
<1>4. CASE rows[n].step \notin FinalSteps
  <2>1. node[n].step \notin FinalSteps /\ node'[n].step = "failed" /\ pc'[n] = pc[n]
    BY <1>0, <1>1, <1>4
  <2>2. node[n].step \in Advancing
    BY <1>0, <2>1 DEF Copy, Advancing, FinalSteps
  <2>3. InPool(e, n)
    BY <2>2 DEF InPool, ActiveSteps
  <2>4. Worker(n)'
    BY <1>0, <2>1, <2>2 DEF Worker, Advancing, Waiting, SSHPoints, ConfPoints
  <2> QED
    BY <1>1, <1>2, <1>4, <2>3, <2>4, AdvanceKeeps
<1> QED
    BY <1>3, <1>4

(* A look at a node that changes nothing, or fails it.                      *)
LEMMA AdvancePasses ==
    ASSUME NEW e \in Engine, IInv, TickInv(e), NEW n \in Node,
           \/ AdvanceRefused(e, n) \/ AdvanceWaits(e, n) \/ AdvanceTimedOut(e, n)
    PROVE  TickInv(e)'
<1> USE DEF clusterVars
<1>0. TypeOK /\ node \in [Node -> NodeRow]
    BY DEF IInv, TypeOK
<1>1. PICK S : Advances(e, n, S)
    BY DEF AdvanceRefused, AdvanceWaits, AdvanceTimedOut
<1>2. eng' = Off(e, n) /\ opt' = opt /\ job' = job /\ host' = host
    BY DEF AdvanceRefused, AdvanceWaits, AdvanceTimedOut
<1>3. (node' = node /\ pc' = pc) \/ FailNode(e, n, "advance")
    BY DEF AdvanceRefused, AdvanceWaits, AdvanceTimedOut
<1>4. eng'[e].rows = eng[e].rows /\ eng'[e].todo = eng[e].todo \ {n}
    BY <1>0, <1>2, OffRows
<1>5. CASE node' = node /\ pc' = pc
  <2>1. (\A m \in Node : Still(m)) /\ pc'[e] = "advance"
    BY <1>0, <1>1, <1>2, <1>5, AdvancesFacts DEF Still
  <2> QED
    BY <1>0, <1>1, <1>2, <1>4, <2>1, AdvanceKeeps
<1>6. CASE FailNode(e, n, "advance")
    BY <1>0, <1>1, <1>2, <1>4, <1>6, AdvanceFails DEF FailNode
<1> QED
    BY <1>3, <1>5, <1>6

(* A drain that stalled is finished, resumed, or failed.                    *)
LEMMA AdvanceDrainingKeeps ==
    ASSUME NEW e \in Engine, IInv, TickInv(e), NEW n \in Node, AdvanceDraining(e, n)
    PROVE  TickInv(e)'
<1> USE DEF clusterVars, Goto
<1>0. /\ TypeOK /\ node \in [Node -> NodeRow] /\ pc \in [Thread -> Points]
      /\ e \in Thread /\ Node \subseteq Thread \ {e}
    BY ThreadAssumption DEF IInv, TypeOK, Thread
<1> DEFINE rows == [node EXCEPT ![n] = Touched(@)]
           S == {"draining"}
<1>1. Advances(e, n, S) /\ opt' = opt /\ job' = job /\ host' = host
    BY DEF AdvanceDraining
<1>2. \/ eng' = Off(e, n) /\ FailNodeIn(rows, e, n, "advance")
      \/ \E left : eng' = WorkOn(e, n, left, "advance") /\ FailNodeIn(rows, e, n, "advance")
      \/ \E left : /\ eng' = WorkOn(e, n, left, "advance") /\ (node' = node \/ node' = rows)
                   /\ (pc' = [pc EXCEPT ![e] = "verify"] \/ pc' = [pc EXCEPT ![e] = "drain"])
    BY Zenon DEF AdvanceDraining
<1>3. /\ rows \in [Node -> NodeRow] /\ \A m \in Node \ {n} : rows[m] = node[m]
      /\ rows[n] = Touched(node[n])
  <2>1. \A r \in NodeRow : Touched(r) \in NodeRow
    BY DEF Touched, NodeRow
  <2> QED
    BY <1>0, <2>1
<1>4. rows[n].step = node[n].step /\ (Waiting(rows[n]) => Waiting(node[n]))
    BY <1>0, <1>3, TouchedStill
<1> HIDE DEF rows, S
<1>5. eng'[e].rows = eng[e].rows /\ eng'[e].todo = eng[e].todo \ {n}
  <2>1. eng' = Off(e, n) \/ \E left, back : eng' = WorkOn(e, n, left, back)
    BY <1>2, Zenon
  <2> QED
    BY <1>0, <2>1, OffRows
<1>6. CASE FailNodeIn(rows, e, n, "advance")
    BY <1>0, <1>1, <1>3, <1>4, <1>5, <1>6, AdvanceFails
<1>7. ASSUME NEW left, eng' = WorkOn(e, n, left, "advance"), node' = node \/ node' = rows,
             pc' = [pc EXCEPT ![e] = "verify"] \/ pc' = [pc EXCEPT ![e] = "drain"]
      PROVE  TickInv(e)'
  <2>1. \A m \in Node : Still(m)
    BY <1>0, <1>1, <1>3, <1>4, <1>7 DEF Still
  <2>2. node[n].step = "draining"
    BY <1>0, <1>1, AdvancesFacts DEF Copy, S
  <2>3. node'[n].step = "draining"
    BY <2>1, <2>2 DEF Still
  <2>4. pc'[e] \in DrainPoints
    BY <1>0, <1>7 DEF DrainPoints
  <2>5. eng'[e].n = n /\ eng'[e].back = "advance"
    BY <1>0, <1>7, WorkOnNode
  <2> QED
    BY <1>0, <1>1, <1>5, <2>1, <2>3, <2>4, <2>5, AdvanceKeeps
<1> QED
    BY <1>2, <1>6, <1>7

(* A session is launched: the node's goroutine is idle, as the copy says.   *)
LEMMA AdvanceUpgradingKeeps ==
    ASSUME NEW e \in Engine, IInv, TickInv(e), NEW n \in Node, AdvanceUpgrading(e, n)
    PROVE  TickInv(e)'
<1> USE DEF clusterVars
<1>0. /\ TypeOK /\ node \in [Node -> NodeRow] /\ pc \in [Thread -> Points]
      /\ e \in Thread /\ Node \subseteq Thread \ {e}
    BY ThreadAssumption DEF IInv, TypeOK, Thread
<1> DEFINE S == {"upgrading"}
<1>1. /\ Advances(e, n, S) /\ opt' = opt /\ job' = job /\ host' = host /\ eng' = Off(e, n)
      /\ eng[e].rows[n].runs = 0 \/ eng[e].rows[n].stale
    BY DEF AdvanceUpgrading
<1>2. eng'[e].rows = eng[e].rows /\ eng'[e].todo = eng[e].todo \ {n}
    BY <1>0, <1>1, OffRows
<1>3. Copy(e, n) /\ Worker(n) /\ pc[e] = "advance" /\ eng[e].rows[n].step \in S
    BY <1>0, <1>1, AdvancesFacts
<1>4. Waiting(eng[e].rows[n])
    BY <1>1, <1>3 DEF Waiting
<1>5. node[n].step = "upgrading" /\ pc[n] = "idle"
    BY <1>3, <1>4 DEF Copy
<1> HIDE DEF S
<1>6. CASE FailNode(e, n, "advance")
    BY <1>0, <1>1, <1>2, <1>6, AdvanceFails DEF FailNode
<1>7. CASE /\ node' = [node EXCEPT ![n] = Launched(@)]
           /\ pc' = [pc EXCEPT ![n] = IF @ = "idle" THEN "apt" ELSE @]
  <2>1. /\ pc'[n] = "apt" /\ pc'[e] = "advance"
        /\ \A m \in Node \ {n} : pc'[m] = pc[m] /\ node'[m] = node[m]
    BY <1>0, <1>3, <1>5, <1>7
  <2>2. node'[n].step = "upgrading" /\ ~Waiting(node'[n])
    BY <1>0, <1>5, <1>7 DEF Launched, Touched, NodeRow, Waiting
  <2>3. \A m \in Node \ {n} : Still(m)
    BY <1>1, <2>1 DEF Still
  <2>4. Worker(n)'
    BY <1>1, <1>3, <1>5, <2>1, <2>2 DEF Worker, SSHPoints, ConfPoints
  <2>5. InPool(e, n)
    BY <1>5 DEF InPool, ActiveSteps, Advancing
  <2> QED
    BY <1>0, <1>1, <1>2, <2>1, <2>3, <2>4, <2>5, AdvanceKeeps
<1> QED
    BY <1>6, <1>7 DEF AdvanceUpgrading

(* The node is back: no session is left on it.                              *)
LEMMA AdvanceRebootedKeeps ==
    ASSUME NEW e \in Engine, IInv, TickInv(e), NEW n \in Node, AdvanceRebooted(e, n)
    PROVE  TickInv(e)'
<1> USE DEF clusterVars
<1>0. /\ TypeOK /\ node \in [Node -> NodeRow]
    BY DEF IInv, TypeOK
<1> DEFINE S == {"rebooting"}
<1>1. /\ Advances(e, n, S) /\ opt' = opt /\ job' = job /\ host' = host /\ eng' = Off(e, n)
      /\ pc' = pc /\ host[n] = "fresh" /\ SetStep(n, "health_check")
    BY DEF AdvanceRebooted
<1>2. eng'[e].rows = eng[e].rows /\ eng'[e].todo = eng[e].todo \ {n}
    BY <1>0, <1>1, OffRows
<1>3. /\ Copy(e, n) /\ Worker(n) /\ pc[e] = "advance" /\ Phase(e) = "advance" /\ n \in eng[e].todo
      /\ eng[e].rows[n].step = "rebooting"
    BY <1>0, <1>1, AdvancesFacts
<1>4. node'[n].step = "health_check" /\ \A m \in Node \ {n} : node'[m] = node[m]
    BY <1>0, <1>1, SetStepRow
<1>5. node[n].step \in {"rebooting", "failed"} /\ ~Live(n)
    BY <1>1, <1>3 DEF Copy, Worker, Live, SSHPoints, ConfPoints
<1>6. InPool(e, n)
    BY <1>3, <1>5 DEF InPool, Lost, ActiveSteps, Advancing
<1>7. Worker(n)'
    BY <1>1, <1>4, <1>5 DEF Worker, Live, Waiting, SSHPoints, ConfPoints
<1>8. \A m \in Node \ {n} : Still(m)
    BY <1>1, <1>4 DEF Still
<1> HIDE DEF S
<1> QED
    BY <1>0, <1>1, <1>2, <1>3, <1>6, <1>7, <1>8, AdvanceKeeps

(* The node is done, or its guests are put back, or that fails it.          *)
LEMMA AdvanceRestoringKeeps ==
    ASSUME NEW e \in Engine, IInv, TickInv(e), NEW n \in Node,
           AdvanceHealthCheck(e, n) \/ AdvanceRestoreTimedOut(e, n)
    PROVE  TickInv(e)'
<1> USE DEF clusterVars, Goto
<1>0. /\ TypeOK /\ node \in [Node -> NodeRow] /\ pc \in [Thread -> Points]
      /\ e \in Thread /\ Node \subseteq Thread \ {e}
    BY ThreadAssumption DEF IInv, TypeOK, Thread
<1> DEFINE S == {"health_check", "restoring"}
           restoring == [node EXCEPT ![n] = Moved(@, "restoring")]
<1>1. Advances(e, n, S) /\ opt' = opt /\ job' = job /\ host' = host
    BY DEF AdvanceHealthCheck, AdvanceRestoreTimedOut, Advances
<1>2. /\ Copy(e, n) /\ Worker(n) /\ pc[e] = "advance" /\ eng[e].rows[n].step \in S
    BY <1>0, <1>1, AdvancesFacts
<1>3. /\ node[n].step = eng[e].rows[n].step /\ node[n].step \in S
      /\ node[n].step \notin FinalSteps /\ ~Live(n)
    BY <1>2 DEF Copy, Worker, Live, SSHPoints, ConfPoints, FinalSteps
<1>4. PICK rows \in {node, restoring} :
         \/ SetStep(n, "completed") /\ eng' = Off(e, n) /\ pc' = pc
         \/ eng' = Off(e, n) /\ FailNodeIn(rows, e, n, "advance")
         \/ /\ node' = rows /\ pc' = [pc EXCEPT ![e] = "restart"]
            /\ (rows = node => eng[e].rows[n].step = "restoring")
            /\ \E left : eng' = WorkOn(e, n, left, "advance")
  <2>1. CASE AdvanceRestoreTimedOut(e, n)
    BY <2>1 DEF AdvanceRestoreTimedOut
  <2>2. CASE AdvanceHealthCheck(e, n) /\ NothingToRestore(eng[e].rows[n])
    BY <2>2, Zenon DEF AdvanceHealthCheck
  <2>3. CASE AdvanceHealthCheck(e, n) /\ ~NothingToRestore(eng[e].rows[n])
    <3>1. CASE opt.restore \/ eng[e].rows[n].step # "restoring"
      <4> DEFINE left == IF opt.restore THEN eng[e].rows[n].guests \ Passthrough ELSE {}
      <4>1. \/ eng' = Off(e, n) /\ FailNodeIn(restoring, e, n, "advance")
            \/ /\ node' = restoring /\ pc' = [pc EXCEPT ![e] = "restart"]
               /\ eng' = WorkOn(e, n, left, "advance")
        BY <2>3, <3>1, Zenon DEF AdvanceHealthCheck
      <4>2. restoring = node => eng[e].rows[n].step = "restoring"
        <5>1. restoring[n].step = "restoring"
          BY <1>0 DEF Moved, NodeRow
        <5> QED
          BY <1>3, <5>1
      <4> HIDE DEF restoring, left
      <4> QED
        BY <4>1, <4>2, Zenon
    <3>2. CASE ~(opt.restore \/ eng[e].rows[n].step # "restoring")
      <4> DEFINE left == IF opt.restore THEN eng[e].rows[n].guests \ Passthrough ELSE {}
      <4>1. \/ eng' = Off(e, n) /\ FailNodeIn(node, e, n, "advance")
            \/ /\ node' = node /\ pc' = [pc EXCEPT ![e] = "restart"]
               /\ eng' = WorkOn(e, n, left, "advance")
        BY <2>3, <3>2, Zenon DEF AdvanceHealthCheck
      <4> HIDE DEF left
      <4> QED
        BY <3>2, <4>1, Zenon
    <3> QED
      BY <3>1, <3>2
  <2> QED
    BY <2>1, <2>2, <2>3
<1>5. /\ restoring \in [Node -> NodeRow] /\ (\A m \in Node \ {n} : restoring[m] = node[m])
      /\ restoring[n] = Moved(node[n], "restoring")
  <2>1. "restoring" \in Steps
    BY DEF Steps, ActiveSteps, Advancing
  <2> QED
    BY <1>0, <2>1, MovedIsRow
<1>6. restoring[n].step = "restoring" /\ restoring[n].step \notin FinalSteps
    BY <1>0, <1>5 DEF Moved, NodeRow, FinalSteps
<1>7. /\ rows \in [Node -> NodeRow] /\ (\A m \in Node \ {n} : rows[m] = node[m])
      /\ rows[n].step \in S /\ rows[n].step \notin FinalSteps
    BY <1>0, <1>3, <1>5, <1>6
<1>8. InPool(e, n)
    BY <1>3 DEF InPool, ActiveSteps, Advancing
<1> HIDE DEF S, restoring
<1>9. CASE SetStep(n, "completed") /\ eng' = Off(e, n) /\ pc' = pc
  <2>1. node'[n].step = "completed" /\ \A m \in Node \ {n} : node'[m] = node[m]
    BY <1>0, <1>9, SetStepRow
  <2>2. Worker(n)'
    BY <1>3, <1>9, <2>1 DEF Worker, Live, Waiting, SSHPoints, ConfPoints
  <2>3. \A m \in Node \ {n} : Still(m)
    BY <1>1, <1>9, <2>1 DEF Still
  <2>4. eng'[e].rows = eng[e].rows /\ eng'[e].todo = eng[e].todo \ {n}
    BY <1>0, <1>9, OffRows
  <2> QED
    BY <1>0, <1>1, <1>2, <1>8, <1>9, <2>2, <2>3, <2>4, AdvanceKeeps
<1>10. CASE eng' = Off(e, n) /\ FailNodeIn(rows, e, n, "advance")
  <2>1. eng'[e].rows = eng[e].rows /\ eng'[e].todo = eng[e].todo \ {n}
    BY <1>0, <1>10, OffRows
  <2> QED
    BY <1>0, <1>1, <1>3, <1>7, <1>10, <2>1, AdvanceFails
<1>11. ASSUME NEW left, eng' = WorkOn(e, n, left, "advance"), node' = rows,
              pc' = [pc EXCEPT ![e] = "restart"], rows = node => eng[e].rows[n].step = "restoring"
       PROVE  TickInv(e)'
  <2>1. eng'[e].rows = eng[e].rows /\ eng'[e].todo = eng[e].todo \ {n} /\ eng'[e].n = n
    BY <1>0, <1>11, OffRows, WorkOnNode
  <2>2. node'[n].step = "restoring"
    BY <1>3, <1>4, <1>6, <1>11
  <2>3. pc'[e] = "restart" /\ \A m \in Node : pc'[m] = pc[m]
    BY <1>0, <1>11
  <2>4. \A m \in Node \ {n} : Still(m)
    BY <1>1, <1>7, <1>11, <2>3 DEF Still
  <2>5. Worker(n)'
    BY <1>3, <2>2, <2>3 DEF Worker, Live, Waiting, SSHPoints, ConfPoints
  <2> QED
    BY <1>0, <1>1, <1>8, <2>1, <2>2, <2>3, <2>4, <2>5, AdvanceKeeps
<1> QED
    BY <1>4, <1>9, <1>10, <1>11

(* The guests of a node are put back: it stays in its step, then is done.   *)
LEMMA RestoreMoves ==
    ASSUME NEW e \in Engine, TypeOK, TickInv(e), NEW n \in Node, eng[e].n = n,
           pc[e] \in RestorePoints, opt' = opt, job' = job,
           eng'[e].rows = eng[e].rows, eng'[e].todo = eng[e].todo, eng'[e].n = n,
           \A m \in Node \ {n} : Still(m),
           \/ Still(n) /\ pc'[e] = "restore"
           \/ node'[n].step = "completed" /\ pc'[n] = pc[n] /\ host'[n] = host[n] /\ pc'[e] = "advance"
    PROVE  TickInv(e)'
<1>0. /\ node[n].step = "restoring" /\ n \notin eng[e].todo /\ eng[e].todo \subseteq Node /\ Worker(n)
    BY DEF TickInv, Copies, Workers, TypeOK, EngineLocals
<1>1. Phase(e) = "advance" /\ Phase(e)' = "advance"
    BY DEF Phase, RestorePoints, RelPoints, DrainPoints
<1>2. job.status # "completed"
    BY <1>1 DEF TickInv, Done
<1>3. ~Live(n)
    BY <1>0 DEF Worker, Live, SSHPoints, ConfPoints
<1>4. Worker(n)'
    BY <1>0, <1>3 DEF Worker, Live, SSHPoints, ConfPoints, Waiting, Still
<1>5. InPool(e, n)
    BY <1>0 DEF InPool, ActiveSteps, Advancing
<1>6. \A m \in eng'[e].todo : Copy(e, m)'
    BY <1>0, <1>1 DEF TickInv, Copies, Copy, Still
<1>7. Copies(e)'
    BY <1>0, <1>6 DEF Copies, DrainPoints, RestorePoints, ChoosePoints, Still
<1>8. Overtaken(e)'
  <2>1. PhaseStep(e)
    BY <1>1 DEF PhaseStep
  <2>2. \A m \in Node : LiveFailed(m)' => LiveFailed(m)
    BY <1>0 DEF LiveFailed, Still
  <2> QED
    BY <2>1, <2>2, OvertakenKept DEF TickInv
<1>9. pc'[e] \notin ChoosePoints
    BY DEF ChoosePoints
<1> QED
    BY <1>1, <1>2, <1>4, <1>5, <1>7, <1>8, <1>9, EngineWrites

(* restartStoppedPassthrough, the migrations back, and the end of them.     *)
LEMMA RestoreKeeps ==
    ASSUME NEW e \in Engine, IInv, TickInv(e), RestartGuests(e) \/ RestoreGuest(e) \/ RestoreDone(e)
    PROVE  TickInv(e)'
<1> USE DEF clusterVars, Goto
<1>0. /\ TypeOK /\ node \in [Node -> NodeRow] /\ pc \in [Thread -> Points]
      /\ e \in Thread /\ Node \subseteq Thread \ {e}
      /\ eng \in [Engine -> EngineLocals] /\ eng[e] \in EngineLocals
    BY ThreadAssumption DEF IInv, TypeOK, Thread
<1>1. pc[e] \in RestorePoints /\ opt' = opt /\ job' = job /\ host' = host
    BY DEF RestartGuests, RestoreGuest, RestoreDone, RestorePoints
<1>2. PICK n \in Node : eng[e].n = n
    BY <1>1 DEF TickInv, Copies
<1>3. eng'[e].rows = eng[e].rows /\ eng'[e].todo = eng[e].todo /\ eng'[e].n = n
    BY <1>0, <1>2 DEF RestartGuests, RestoreGuest, RestoreDone, EngineLocals
<1>4. CASE RestartGuests(e)
  <2>1. PICK keep :
            /\ pc' = [pc EXCEPT ![e] = "restore"]
            /\ \/ node' = node
               \/ node' = [node EXCEPT ![n] = [Touched(node[n]) EXCEPT !.stopped = keep]]
    BY <1>2, <1>4 DEF RestartGuests
  <2>2. pc'[e] = "restore" /\ \A m \in Node : pc'[m] = pc[m]
    BY <1>0, <2>1
  <2>3. \A m \in Node : node'[m].step = node[m].step /\ (Waiting(node'[m]) => Waiting(node[m]))
    <3>1. CASE node' = [node EXCEPT ![n] = [Touched(node[n]) EXCEPT !.stopped = keep]]
      BY <1>0, <3>1, TouchedStill
    <3> QED
      BY <2>1, <3>1
  <2>4. \A m \in Node : Still(m)
    BY <1>1, <2>2, <2>3 DEF Still
  <2> QED
    BY <1>0, <1>1, <1>2, <1>3, <2>2, <2>4, RestoreMoves
<1>5. CASE RestoreGuest(e)
  <2>1. node' = node /\ pc' = pc /\ pc[e] = "restore"
    BY <1>5 DEF RestoreGuest
  <2>2. \A m \in Node : Still(m)
    BY <1>1, <2>1 DEF Still
  <2> QED
    BY <1>0, <1>1, <1>2, <1>3, <2>1, <2>2, RestoreMoves
<1>6. CASE RestoreDone(e)
  <2>1. SetStep(n, "completed") /\ pc' = [pc EXCEPT ![e] = "advance"]
    BY <1>2, <1>6 DEF RestoreDone
  <2>2. node'[n].step = "completed" /\ \A m \in Node \ {n} : node'[m] = node[m]
    BY <1>0, <2>1, SetStepRow
  <2>3. pc'[e] = "advance" /\ \A m \in Node : pc'[m] = pc[m]
    BY <1>0, <2>1
  <2>4. \A m \in Node \ {n} : Still(m)
    BY <1>1, <2>2, <2>3 DEF Still
  <2> QED
    BY <1>0, <1>1, <1>2, <1>3, <2>2, <2>3, <2>4, RestoreMoves
<1> QED
    BY <1>4, <1>5, <1>6

-----------------------------------------------------------------------------
(* The node being started, and the drain loop.                              *)

(* Such a node has no goroutine, so the tick may write its row: it goes on  *)
(* with it, or leaves it, failed or not.                                    *)
LEMMA StartMoves ==
    ASSUME NEW e \in Engine, TypeOK, TickInv(e), NEW n \in Node, eng[e].n = n, eng'[e].n = n,
           eng'[e].back = eng[e].back, eng'[e].rows = eng[e].rows, eng'[e].todo = eng[e].todo,
           pc[e] \in ChoosePoints \cup DrainPoints,
           opt' = opt, host' = host, job'.status = job.status,
           \A m \in Node : pc'[m] = pc[m],
           \A m \in Node \ {n} : node'[m] = node[m],
           node'[n].step = "upgrading" => opt.auto,
           \/ /\ pc'[e] \in ChoosePoints /\ pc[e] \in ChoosePoints
              /\ node'[n].step = node[n].step
           \/ pc'[e] \in DrainPoints /\ node'[n].step = "draining"
           \/ pc'[e] = eng[e].back
           \/ pc'[e] \in RelPoints \cup {"failJob"} /\ rel'[e].back = eng[e].back
    PROVE  TickInv(e)'
<1>0. /\ Copies(e) /\ Workers /\ Worker(n) /\ Overtaken(e) /\ eng[e].todo \subseteq Node
      /\ eng[e].back \in {"advance", "done"} /\ (pc[e] \in ChoosePoints => eng[e].back = "done")
      /\ node[n].step \in {"pending", "skipped", "draining"} /\ pc[n] = "idle"
      /\ eng[e].back = "advance" => n \notin eng[e].todo
    BY DEF TickInv, Copies, Workers, Worker, TypeOK, EngineLocals
<1>1. /\ pc[e] \in ChoosePoints => Phase(e) \in ChoosePoints
      /\ pc[e] \in DrainPoints => Phase(e) = eng[e].back
    BY DEF Phase, ChoosePoints, DrainPoints, RestorePoints, RelPoints
<1>2. \/ pc'[e] \in ChoosePoints /\ Phase(e)' \in ChoosePoints
      \/ pc'[e] \notin ChoosePoints /\ Phase(e)' = eng[e].back
    BY <1>0 DEF Phase, ChoosePoints, DrainPoints, RestorePoints, RelPoints
<1>3. job.status # "completed"
    BY <1>0, <1>1 DEF TickInv, Done, ChoosePoints
<1>4. Phase(e)' = "advance" => Phase(e) = "advance"
    BY <1>0, <1>1, <1>2 DEF ChoosePoints
<1>5. \A m \in Node \ {n} : Still(m)
    BY DEF Still
<1>6. Worker(n)'
    BY <1>0 DEF Worker, SSHPoints, ConfPoints
<1>7. InPool(e, n)
    BY <1>0 DEF InPool, ActiveSteps, Advancing, Copies
<1>8. Copies(e)'
  <2>1. Phase(e)' = "advance" => \A m \in eng'[e].todo : Copy(e, m)'
    BY <1>0, <1>1, <1>2, <1>4, <1>5 DEF Copies, Copy, Still, ChoosePoints
  <2>2. pc'[e] \in ChoosePoints =>
            node'[n].step \in {"pending", "skipped"} /\ eng'[e].back = "done"
    BY <1>0 DEF Copies, ChoosePoints, DrainPoints, RelPoints
  <2>3. pc'[e] \in DrainPoints => node'[n].step = "draining"
    BY <1>0 DEF ChoosePoints, DrainPoints, RelPoints
  <2>4. pc'[e] \notin RestorePoints
    BY <1>0 DEF RestorePoints, ChoosePoints, DrainPoints, RelPoints
  <2> QED
    BY <1>0, <2>1, <2>2, <2>3, <2>4 DEF Copies
<1>9. Overtaken(e)'
  <2>1. PhaseStep(e)
    BY <1>0, <1>1, <1>2 DEF PhaseStep, ChoosePoints, DrainPoints, RelPoints
  <2>2. \A m \in Node : LiveFailed(m)' => LiveFailed(m)
    BY <1>0 DEF LiveFailed, SSHPoints
  <2> QED
    BY <1>0, <2>1, <2>2, OvertakenKept
<1>10. pc'[e] \in ChoosePoints => pc[e] \in ChoosePoints
    BY <1>0 DEF ChoosePoints, DrainPoints, RelPoints
<1> QED
    BY <1>0, <1>3, <1>4, <1>5, <1>6, <1>7, <1>8, <1>9, <1>10, EngineWrites

(* The tick fails the node it starts or drains.                             *)
LEMMA StartFails ==
    ASSUME NEW e \in Engine, TypeOK, TickInv(e), NEW n \in Node, eng[e].n = n, eng'[e].n = n,
           eng'[e].back = eng[e].back, eng'[e].rows = eng[e].rows, eng'[e].todo = eng[e].todo,
           pc[e] \in ChoosePoints \cup DrainPoints,
           opt' = opt, host' = host, job'.status = job.status,
           NEW rows \in [Node -> NodeRow], FailNodeIn(rows, e, n, eng[e].back),
           \A m \in Node \ {n} : rows[m] = node[m]
    PROVE  TickInv(e)'
<1>1. e \in Thread /\ Node \subseteq Thread \ {e}
    BY ThreadAssumption DEF Thread
<1> DEFINE back == eng[e].back
<1>2. FailNodeIn(rows, e, n, back)
    OBVIOUS
<1> HIDE DEF back
<1>3. /\ \A m \in Node \ {n} : node'[m] = rows[m]
      /\ \A u \in Thread \ {e} : pc'[u] = pc[u]
      /\ \/ rows[n].step \in FinalSteps /\ node'[n] = rows[n] /\ pc'[e] = back
         \/ node'[n].step = "failed" /\ pc'[e] = "failJob" /\ rel'[e].back = back
    BY <1>1, <1>2, FailNodeRow
<1>4. \A m \in Node : pc'[m] = pc[m]
    BY <1>1, <1>3
<1>5. node'[n].step # "upgrading"
    BY <1>3 DEF FinalSteps
<1> QED
    BY <1>3, <1>4, <1>5, StartMoves DEF back

(* startNode, from the choice of the node to the start of its drain.        *)
LEMMA StartKeeps ==
    ASSUME NEW e \in Engine, IInv, TickInv(e),
           \/ StartNode(e) \/ StartCheck(e) \/ DisableRules(e) \/ RerecordRules(e)
           \/ CheckAfterRules(e) \/ DrainStart(e)
    PROVE  TickInv(e)'
<1> USE DEF clusterVars, Goto
<1>0. /\ TypeOK /\ node \in [Node -> NodeRow] /\ pc \in [Thread -> Points] /\ job \in JobRow
      /\ e \in Thread /\ Node \subseteq Thread \ {e} /\ rel \in [Thread -> ReleaseLocals]
      /\ eng \in [Engine -> EngineLocals] /\ eng[e] \in EngineLocals
    BY ThreadAssumption DEF IInv, TypeOK, Thread
<1>1. pc[e] \in ChoosePoints /\ opt' = opt /\ host' = host
    BY DEF StartNode, StartCheck, DisableRules, RerecordRules, CheckAfterRules, DrainStart,
           ChoosePoints
<1>2. PICK n \in Node : eng[e].n = n /\ eng[e].back = "done" /\ node[n].step \in {"pending", "skipped"}
    BY <1>1 DEF TickInv, Copies
<1>3. eng'[e].n = n /\ eng'[e].back = eng[e].back /\ eng'[e].rows = eng[e].rows
      /\ eng'[e].todo = eng[e].todo
    BY <1>0, <1>2 DEF StartNode, StartCheck, DisableRules, RerecordRules, CheckAfterRules,
                      DrainStart, EngineLocals
<1>4. job'.status = job.status
    BY <1>0 DEF StartNode, StartCheck, DisableRules, RerecordRules, CheckAfterRules, DrainStart,
                WithRules, JobRow
<1>5. ASSUME NEW rows \in [Node -> NodeRow], FailNodeIn(rows, e, n, "done"),
             \A m \in Node \ {n} : rows[m] = node[m]
      PROVE  TickInv(e)'
    BY <1>0, <1>1, <1>2, <1>3, <1>4, <1>5, StartFails
<1>6. ASSUME NEW p, pc' = [pc EXCEPT ![e] = p], p = "done" \/ p \in ChoosePoints \/ p \in DrainPoints,
             \A m \in Node \ {n} : node'[m] = node[m],
             p \in ChoosePoints => node'[n].step = node[n].step,
             p \in DrainPoints => node'[n].step = "draining",
             node'[n].step = "upgrading" => opt.auto
      PROVE  TickInv(e)'
  <2>1. pc'[e] = p /\ \A m \in Node : pc'[m] = pc[m]
    BY <1>0, <1>6
  <2> QED
    BY <1>0, <1>1, <1>2, <1>3, <1>4, <1>6, <2>1, StartMoves
<1>7. CASE StartNode(e)
  <2>1. \/ SetStep(n, "skipped") /\ pc' = [pc EXCEPT ![e] = "done"]
        \/ SetStep(n, UpgradeStep) /\ pc' = [pc EXCEPT ![e] = "done"]
        \/ node' = node /\ pc' = [pc EXCEPT ![e] = "check"]
        \/ node' = node /\ pc' = [pc EXCEPT ![e] = "done"]
        \/ FailNode(e, n, "done")
    BY <1>2, <1>7 DEF StartNode
  <2>2. CASE SetStep(n, "skipped") /\ pc' = [pc EXCEPT ![e] = "done"]
    <3>1. node'[n].step = "skipped" /\ \A m \in Node \ {n} : node'[m] = node[m]
      BY <1>0, <2>2, SetStepRow
    <3> QED
      BY <1>6, <2>2, <3>1 DEF ChoosePoints, DrainPoints
  <2>3. CASE SetStep(n, UpgradeStep) /\ pc' = [pc EXCEPT ![e] = "done"]
    <3>1. node'[n].step = UpgradeStep /\ \A m \in Node \ {n} : node'[m] = node[m]
      BY <1>0, <2>3, SetStepRow
    <3> QED
      BY <1>6, <2>3, <3>1 DEF UpgradeStep, ChoosePoints, DrainPoints
  <2>4. CASE node' = node /\ (pc' = [pc EXCEPT ![e] = "check"] \/ pc' = [pc EXCEPT ![e] = "done"])
    BY <1>2, <1>6, <2>4 DEF ChoosePoints, DrainPoints
  <2>5. CASE FailNode(e, n, "done")
    BY <1>0, <1>5, <2>5 DEF FailNode
  <2> QED
    BY <2>1, <2>2, <2>3, <2>4, <2>5
<1>8. CASE StartCheck(e)
  <2> DEFINE left == eng[e].left
             rows == [node EXCEPT ![n] = [Touched(@) EXCEPT !.guests = left]]
  <2>1. \/ node' = node /\ pc' = [pc EXCEPT ![e] = "done"]
        \/ node' = rows /\ pc' = [pc EXCEPT ![e] = "drainStart"]
        \/ node' = rows /\ pc' = [pc EXCEPT ![e] = "ruleOff"]
        \/ FailNodeIn(rows, e, n, "done")
    BY <1>2, <1>8 DEF StartCheck
  <2>2. left \in SUBSET Guest
    BY <1>0 DEF EngineLocals
  <2> HIDE DEF left
  <2>3. /\ rows \in [Node -> NodeRow] /\ (\A m \in Node \ {n} : rows[m] = node[m])
        /\ rows[n].step = node[n].step
    <3>1. [Touched(node[n]) EXCEPT !.guests = left] \in NodeRow
      BY <1>0, <2>2 DEF Touched, NodeRow
    <3> QED
      BY <1>0, <3>1, TouchedStill
  <2> HIDE DEF rows
  <2>4. CASE FailNodeIn(rows, e, n, "done")
    BY <1>5, <2>3, <2>4
  <2>5. CASE node' = node /\ pc' = [pc EXCEPT ![e] = "done"]
    BY <1>2, <1>6, <2>5 DEF ChoosePoints, DrainPoints
  <2>6. CASE node' = rows /\ pc' = [pc EXCEPT ![e] = "drainStart"]
    BY <1>2, <1>6, <2>3, <2>6 DEF ChoosePoints, DrainPoints
  <2>7. CASE node' = rows /\ pc' = [pc EXCEPT ![e] = "ruleOff"]
    BY <1>2, <1>6, <2>3, <2>7 DEF ChoosePoints, DrainPoints
  <2> QED
    BY <2>1, <2>4, <2>5, <2>6, <2>7
<1>9. CASE DisableRules(e) \/ RerecordRules(e)
  <2>1. node' = node /\ (pc' = [pc EXCEPT ![e] = "ruleRec"] \/ pc' = [pc EXCEPT ![e] = "ruleChk"])
    BY <1>9 DEF DisableRules, RerecordRules
  <2> QED
    BY <1>2, <1>6, <2>1 DEF ChoosePoints, DrainPoints
<1>10. CASE CheckAfterRules(e)
  <2>1. /\ node' = node
        /\ \/ pc' = [pc EXCEPT ![e] = "drainStart"] \/ pc' = [pc EXCEPT ![e] = "done"]
           \/ pc' = [pc EXCEPT ![e] = "release"] /\ rel' = [rel EXCEPT ![e].back = "done"]
    BY <1>10, Zenon DEF CheckAfterRules
  <2>2. CASE pc' = [pc EXCEPT ![e] = "drainStart"] \/ pc' = [pc EXCEPT ![e] = "done"]
    BY <1>2, <1>6, <2>1, <2>2 DEF ChoosePoints, DrainPoints
  <2>3. CASE pc' = [pc EXCEPT ![e] = "release"] /\ rel' = [rel EXCEPT ![e].back = "done"]
    <3>1. pc'[e] \in RelPoints /\ \A m \in Node : pc'[m] = pc[m]
      BY <1>0, <2>3 DEF RelPoints
    <3>2. rel'[e].back = eng[e].back
      BY <1>0, <1>2, <2>3 DEF ReleaseLocals
    <3> QED
      BY <1>0, <1>1, <1>2, <1>3, <1>4, <2>1, <3>1, <3>2, StartMoves
  <2> QED
    BY <2>1, <2>2, <2>3
<1>11. CASE DrainStart(e)
  <2> DEFINE rows == [node EXCEPT ![n] = Moved(@, "draining")]
  <2>1. \/ node' = rows /\ pc' = [pc EXCEPT ![e] = "verify"]
        \/ node' = rows /\ pc' = [pc EXCEPT ![e] = "drain"]
        \/ FailNodeIn(rows, e, n, "done")
    BY <1>2, <1>11 DEF DrainStart
  <2>2. /\ rows \in [Node -> NodeRow] /\ (\A m \in Node \ {n} : rows[m] = node[m])
        /\ rows[n] = Moved(node[n], "draining")
    <3>1. "draining" \in Steps
      BY DEF Steps, ActiveSteps, Advancing
    <3> QED
      BY <1>0, <3>1, MovedIsRow
  <2>3. rows[n].step = "draining"
    BY <1>0, <2>2 DEF Moved, NodeRow
  <2> HIDE DEF rows
  <2>4. CASE FailNodeIn(rows, e, n, "done")
    BY <1>5, <2>2, <2>4
  <2>5. CASE node' = rows /\ pc' = [pc EXCEPT ![e] = "verify"]
    BY <1>6, <2>2, <2>3, <2>5 DEF ChoosePoints, DrainPoints
  <2>6. CASE node' = rows /\ pc' = [pc EXCEPT ![e] = "drain"]
    BY <1>6, <2>2, <2>3, <2>6 DEF ChoosePoints, DrainPoints
  <2> QED
    BY <2>1, <2>4, <2>5, <2>6
<1> QED
    BY <1>7, <1>8, <1>9, <1>10, <1>11

(* The drain loop, and what it ends in.                                     *)
LEMMA DrainKeeps ==
    ASSUME NEW e \in Engine, IInv, TickInv(e),
           \/ DrainCheck(e) \/ DrainGuest(e) \/ RecordStopped(e) \/ StopPassthrough(e)
           \/ VerifyDrained(e)
    PROVE  TickInv(e)'
<1> USE DEF clusterVars, Goto
<1>0. /\ TypeOK /\ node \in [Node -> NodeRow] /\ pc \in [Thread -> Points] /\ job \in JobRow
      /\ e \in Thread /\ Node \subseteq Thread \ {e}
      /\ eng \in [Engine -> EngineLocals] /\ eng[e] \in EngineLocals
    BY ThreadAssumption DEF IInv, TypeOK, Thread
<1>1. pc[e] \in DrainPoints /\ opt' = opt /\ host' = host /\ job' = job
    BY DEF DrainCheck, DrainGuest, RecordStopped, StopPassthrough, VerifyDrained, DrainPoints
<1>2. PICK n \in Node : eng[e].n = n /\ node[n].step = "draining"
    BY <1>1 DEF TickInv, Copies
<1>3. eng'[e].n = n /\ eng'[e].back = eng[e].back /\ eng'[e].rows = eng[e].rows
      /\ eng'[e].todo = eng[e].todo
    BY <1>0, <1>2 DEF DrainCheck, DrainGuest, RecordStopped, StopPassthrough, VerifyDrained,
                      EngineLocals
<1>4. CASE FailNode(e, n, eng[e].back)
    BY <1>0, <1>1, <1>2, <1>3, <1>4, StartFails DEF FailNode
<1>5. ASSUME pc'[e] \in DrainPoints, \A m \in Node : pc'[m] = pc[m], node' = node
      PROVE  TickInv(e)'
    BY <1>0, <1>1, <1>2, <1>3, <1>5, StartMoves
<1>6. CASE DrainCheck(e)
  <2>1. /\ node' = node
        /\ \/ pc' = [pc EXCEPT ![e] = "verify"] \/ pc' = [pc EXCEPT ![e] = "guest"]
           \/ pc' = [pc EXCEPT ![e] = eng[e].back]
    BY <1>6, Zenon DEF DrainCheck
  <2>2. /\ pc'[e] \in DrainPoints \/ pc'[e] = eng[e].back
        /\ \A m \in Node : pc'[m] = pc[m]
    BY <1>0, <2>1 DEF DrainPoints
  <2> QED
    BY <1>0, <1>1, <1>2, <1>3, <2>1, <2>2, StartMoves
<1>7. CASE DrainGuest(e)
  <2>1. FailNode(e, n, eng[e].back) \/ (node' = node /\ pc' = [pc EXCEPT ![e] = "drain"])
    BY <1>2, <1>7 DEF DrainGuest
  <2> QED
    BY <1>0, <1>4, <1>5, <2>1 DEF DrainPoints
<1>8. CASE RecordStopped(e)
  <2>1. PICK g : node' = [node EXCEPT ![n] = Recorded(@, g)] /\ pc' = [pc EXCEPT ![e] = "ptStop"]
    BY <1>2, <1>8 DEF RecordStopped
  <2>2. pc'[e] \in DrainPoints /\ \A m \in Node : pc'[m] = pc[m]
    BY <1>0, <2>1 DEF DrainPoints
  <2>3. node'[n].step = "draining" /\ \A m \in Node \ {n} : node'[m] = node[m]
    BY <1>0, <1>2, <2>1 DEF Recorded, Touched, NodeRow
  <2> QED
    BY <1>0, <1>1, <1>2, <1>3, <2>2, <2>3, StartMoves
<1>9. CASE StopPassthrough(e)
  <2>1. FailNode(e, n, eng[e].back) \/ (node' = node /\ pc' = [pc EXCEPT ![e] = "drain"])
    BY <1>2, <1>9 DEF StopPassthrough
  <2> QED
    BY <1>0, <1>4, <1>5, <2>1 DEF DrainPoints
<1>10. CASE VerifyDrained(e)
  <2>1. \/ FailNode(e, n, eng[e].back)
        \/ SetStep(n, UpgradeStep) /\ pc' = [pc EXCEPT ![e] = eng[e].back]
    BY <1>2, <1>10 DEF VerifyDrained
  <2>2. CASE SetStep(n, UpgradeStep) /\ pc' = [pc EXCEPT ![e] = eng[e].back]
    <3>1. node'[n].step = UpgradeStep /\ \A m \in Node \ {n} : node'[m] = node[m]
      BY <1>0, <2>2, SetStepRow
    <3>2. pc'[e] = eng[e].back /\ \A m \in Node : pc'[m] = pc[m]
      BY <1>0, <2>2
    <3>3. node'[n].step = "upgrading" => opt.auto
      BY <3>1 DEF UpgradeStep
    <3> QED
      BY <1>0, <1>1, <1>2, <1>3, <3>1, <3>2, <3>3, StartMoves
  <2> QED
    BY <1>4, <2>1, <2>2
<1> QED
    BY <1>6, <1>7, <1>8, <1>9, <1>10

-----------------------------------------------------------------------------
(* The rest of the tick writes no node.                                     *)

(* Such a step, when it neither chooses a node nor lists them.              *)
LEMMA PlainMoves ==
    ASSUME NEW e \in Engine, TypeOK, TickInv(e), opt' = opt, node' = node, host' = host,
           \A m \in Node : pc'[m] = pc[m],
           Phase(e)' # "advance",
           pc'[e] \notin ChoosePoints \cup DrainPoints \cup RestorePoints,
           Overtaken(e)',
           job'.status = "completed" => job.status = "completed" /\ Phase(e)' \in {"sweep", "idle"}
    PROVE  TickInv(e)'
<1>1. \A m \in Node : Still(m)
    BY DEF Still
<1>2. Copies(e)'
    BY DEF Copies
<1> QED
    BY <1>1, <1>2, EngineStill

(* Such a step finds the same sessions overtaken.                           *)
LEMMA OvertakenPlain ==
    ASSUME NEW e, TickInv(e), node' = node, \A m \in Node : pc'[m] = pc[m], PhaseStep(e)
    PROVE  Overtaken(e)'
<1>1. \A m \in Node : LiveFailed(m)' => LiveFailed(m)
    BY DEF LiveFailed
<1> QED
    BY <1>1, OvertakenKept DEF TickInv

(* From the look at the job to the list of its nodes: the balancers.        *)
LEMMA BalancersKeep ==
    ASSUME NEW e \in Engine, IInv, TickInv(e),
           \/ DisableDRS(e) \/ DisableDRSOff(e) \/ CreateClient(e) \/ PauseCRS(e) \/ RecordCRS(e)
    PROVE  TickInv(e)'
<1> USE DEF clusterVars, Goto
<1>0. /\ TypeOK /\ pc \in [Thread -> Points] /\ job \in JobRow
      /\ e \in Thread /\ Node \subseteq Thread \ {e}
    BY ThreadAssumption DEF IInv, TypeOK, Thread
<1>1. opt' = opt /\ node' = node /\ host' = host /\ job'.status = job.status
    BY <1>0 DEF DisableDRS, DisableDRSOff, CreateClient, PauseCRS, RecordCRS, JobRow
<1>2. /\ pc[e] \in {"drs", "drsOff", "client", "crs", "crsMark"}
      /\ \E p \in {"drsOff", "client", "crs", "sweep", "crsMark", "nodes"} : pc' = [pc EXCEPT ![e] = p]
    BY DEF DisableDRS, DisableDRSOff, CreateClient, PauseCRS, RecordCRS
<1>3. /\ pc'[e] \in {"drsOff", "client", "crs", "sweep", "crsMark", "nodes"}
      /\ \A m \in Node : pc'[m] = pc[m]
    BY <1>0, <1>2
<1>4. Phase(e) = pc[e] /\ Phase(e)' = pc'[e]
    BY <1>2, <1>3 DEF Phase, RelPoints, RestorePoints, DrainPoints
<1>5. job.status # "completed"
    BY <1>2, <1>4 DEF TickInv, Done
<1>6. PhaseStep(e)
    BY <1>2, <1>4 DEF PhaseStep
<1>7. pc'[e] \notin ChoosePoints \cup DrainPoints \cup RestorePoints
    BY <1>3 DEF ChoosePoints, DrainPoints, RestorePoints
<1>8. Phase(e)' # "advance"
    BY <1>3, <1>4
<1> QED
    BY <1>0, <1>1, <1>3, <1>5, <1>6, <1>7, <1>8, PlainMoves, OvertakenPlain

(* The tick takes up a running job, which has no overtaken session.         *)
LEMMA TickKeeps ==
    ASSUME NEW e \in Engine, IInv, TickInv(e), Tick(e)
    PROVE  TickInv(e)'
<1> USE DEF clusterVars, Goto
<1>0. /\ TypeOK /\ pc \in [Thread -> Points] /\ e \in Thread /\ Node \subseteq Thread \ {e}
    BY ThreadAssumption DEF IInv, TypeOK, Thread
<1>1. /\ opt' = opt /\ node' = node /\ host' = host /\ job' = job /\ pc[e] = "idle"
      /\ \/ job.status = "running" /\ pc' = [pc EXCEPT ![e] = "drs"]
         \/ pc' = [pc EXCEPT ![e] = "sweep"]
    BY DEF Tick
<1>2. /\ \A m \in Node : pc'[m] = pc[m]
      /\ \/ job.status = "running" /\ pc'[e] = "drs"
         \/ pc'[e] = "sweep"
    BY <1>0, <1>1
<1>3. Phase(e) = "idle" /\ Phase(e)' = pc'[e]
    BY <1>1, <1>2 DEF Phase, RelPoints, RestorePoints, DrainPoints
<1>4. Overtaken(e)'
  <2>1. CASE job.status = "running"
    <3>1. \A m \in Node : ~LiveFailed(m)
      BY <1>1, <1>3, <2>1 DEF TickInv, Overtaken, Terminal, Outcomes
    <3>2. \A m \in Node : ~LiveFailed(m)'
      BY <1>1, <1>2, <3>1 DEF LiveFailed
    <3> QED
      BY <3>2 DEF Overtaken
  <2>2. CASE pc'[e] = "sweep"
    <3>1. PhaseStep(e)
      BY <1>1, <1>3, <2>2 DEF PhaseStep, Terminal
    <3> QED
      BY <1>1, <1>2, <3>1, OvertakenPlain
  <2> QED
    BY <1>2, <2>1, <2>2
<1>5. pc'[e] \notin ChoosePoints \cup DrainPoints \cup RestorePoints /\ Phase(e)' # "advance"
    BY <1>2, <1>3 DEF ChoosePoints, DrainPoints, RestorePoints
<1> QED
    BY <1>0, <1>1, <1>2, <1>3, <1>4, <1>5, PlainMoves

(* The copies are the rows.                                                 *)
LEMMA ListNodesKeeps ==
    ASSUME NEW e \in Engine, IInv, TickInv(e), ListNodes(e)
    PROVE  TickInv(e)'
<1> USE DEF clusterVars, Goto
<1>0. /\ TypeOK /\ pc \in [Thread -> Points] /\ e \in Thread /\ Node \subseteq Thread \ {e}
      /\ eng \in [Engine -> EngineLocals] /\ eng[e] \in EngineLocals
    BY ThreadAssumption DEF IInv, TypeOK, Thread
<1>1. /\ opt' = opt /\ node' = node /\ host' = host /\ job' = job /\ pc[e] = "nodes"
      /\ pc' = [pc EXCEPT ![e] = "advance"]
    BY DEF ListNodes
<1>2. eng'[e].rows = node /\ eng'[e].todo = {n \in Node : node[n].step \in Advancing}
    BY <1>0 DEF ListNodes, EngineLocals
<1>3. pc'[e] = "advance" /\ \A m \in Node : pc'[m] = pc[m]
    BY <1>0, <1>1
<1>4. Phase(e) = "nodes" /\ Phase(e)' = "advance"
    BY <1>1, <1>3 DEF Phase, RelPoints, RestorePoints, DrainPoints
<1>5. job.status # "completed"
    BY <1>4 DEF TickInv, Done
<1>6. Overtaken(e)'
  <2>1. PhaseStep(e)
    BY <1>4 DEF PhaseStep
  <2> QED
    BY <1>1, <1>3, <2>1, OvertakenPlain
<1>7. ASSUME NEW m \in eng'[e].todo PROVE Copy(e, m)'
  <2>1. Worker(m) /\ node[m].step \in Advancing /\ m \in Node
    BY <1>2, <1>7 DEF TickInv, Workers
  <2>2. eng'[e].rows[m] = node[m] /\ node'[m] = node[m] /\ pc'[m] = pc[m]
    BY <1>1, <1>2, <1>3, <2>1
  <2>3. Waiting(node[m]) => node[m].step = "upgrading" /\ pc[m] = "idle"
    BY <2>1 DEF Worker, Waiting
  <2>4. node[m].step = "rebooting" => pc[m] \notin SSHPoints \ {"reboot"}
    BY <2>1 DEF Worker
  <2> QED
    BY <2>1, <2>2, <2>3, <2>4 DEF Copy
<1>8. Copies(e)'
    BY <1>3, <1>7 DEF Copies, ChoosePoints, DrainPoints, RestorePoints
<1>9. \A m \in Node : Still(m)
    BY <1>1, <1>3 DEF Still
<1>10. pc'[e] \notin ChoosePoints
    BY <1>3 DEF ChoosePoints
<1>11. \A m \in eng'[e].todo : eng'[e].rows[m].step = node'[m].step
    BY <1>1, <1>2
<1> QED
    BY <1>0, <1>1, <1>5, <1>6, <1>8, <1>9, <1>10, <1>11, EngineStill

(* A node this tick advanced has failed, and perhaps its session goes on:   *)
(* the tick ends the job before it starts another node.                     *)
LEMMA FailCheckKeeps ==
    ASSUME NEW e \in Engine, IInv, TickInv(e), FailCheck(e)
    PROVE  TickInv(e)'
<1> USE DEF clusterVars, Goto
<1>0. /\ TypeOK /\ pc \in [Thread -> Points] /\ e \in Thread /\ Node \subseteq Thread \ {e}
      /\ rel \in [Thread -> ReleaseLocals] /\ rel[e] \in ReleaseLocals
    BY ThreadAssumption DEF IInv, TypeOK, Thread
<1> DEFINE F == \E n \in Node : eng[e].rows[n].step \in Advancing /\ node[n].step = "failed"
<1>1. /\ opt' = opt /\ node' = node /\ host' = host /\ job' = job /\ pc[e] = "advance"
      /\ \/ pc' = [pc EXCEPT ![e] = "failJob"] /\ rel' = [rel EXCEPT ![e].back = "sweep"]
         \/ ~F /\ pc' = [pc EXCEPT ![e] = "start"]
    BY DEF FailCheck
<1>2. /\ \A m \in Node : pc'[m] = pc[m]
      /\ \/ pc'[e] = "failJob" /\ rel'[e].back = "sweep"
         \/ ~F /\ pc'[e] = "start"
  <2> HIDE DEF F
  <2> QED
    BY <1>0, <1>1 DEF ReleaseLocals
<1>3. Phase(e) = "advance"
    BY <1>1 DEF Phase, RelPoints, RestorePoints, DrainPoints
<1>4. job.status # "completed"
    BY <1>3 DEF TickInv, Done
<1>5. CASE pc'[e] = "failJob" /\ rel'[e].back = "sweep"
  <2>1. Phase(e)' = "sweep"
    BY <1>5 DEF Phase
  <2>2. Overtaken(e)'
    BY <1>5, <2>1 DEF Overtaken
  <2>3. pc'[e] \notin ChoosePoints \cup DrainPoints \cup RestorePoints
    BY <1>5 DEF ChoosePoints, DrainPoints, RestorePoints
  <2> QED
    BY <1>0, <1>1, <1>2, <1>4, <2>1, <2>2, <2>3, PlainMoves
<1>6. CASE ~F /\ pc'[e] = "start"
  <2>1. Phase(e)' = "start"
    BY <1>6 DEF Phase, RelPoints, RestorePoints, DrainPoints
  <2>2. \A m \in Node : ~LiveFailed(m)
    BY <1>3, <1>6 DEF TickInv, Overtaken, LiveFailed
  <2>3. Overtaken(e)'
    BY <1>1, <1>2, <2>2 DEF Overtaken, LiveFailed
  <2>4. pc'[e] \notin ChoosePoints \cup DrainPoints \cup RestorePoints
    BY <1>6 DEF ChoosePoints, DrainPoints, RestorePoints
  <2> QED
    BY <1>0, <1>1, <1>2, <1>4, <2>1, <2>3, <2>4, PlainMoves
<1> QED
    BY <1>2, <1>5, <1>6

(* The parallelism is compared with the nodes under way, and no session is  *)
(* overtaken at that point: there is room for the node that is chosen.      *)
LEMMA StartNextKeeps ==
    ASSUME NEW e \in Engine, IInv, TickInv(e), StartNext(e)
    PROVE  TickInv(e)'
<1> USE DEF clusterVars, Goto
<1>0. /\ TypeOK /\ pc \in [Thread -> Points] /\ e \in Thread /\ Node \subseteq Thread \ {e}
      /\ eng \in [Engine -> EngineLocals] /\ eng[e] \in EngineLocals /\ opt.parallel \in Nat
    BY ThreadAssumption DEF IInv, TypeOK, Thread, OptionSet
<1> DEFINE waiting == {n \in Node : node[n].step = "pending"}
<1>1. /\ opt' = opt /\ node' = node /\ host' = host /\ job' = job /\ pc[e] = "start"
      /\ \/ /\ Cardinality(ActiveNodes) < opt.parallel /\ waiting # {}
            /\ eng' = [eng EXCEPT ![e].n = First(waiting), ![e].back = "done"]
            /\ pc' = [pc EXCEPT ![e] = "begin"]
         \/ pc' = [pc EXCEPT ![e] = "done"]
    BY DEF StartNext
<1>2. \A m \in Node : pc'[m] = pc[m]
    BY <1>0, <1>1
<1>3. Phase(e) = "start"
    BY <1>1 DEF Phase, RelPoints, RestorePoints, DrainPoints
<1>4. job.status # "completed"
    BY <1>3 DEF TickInv, Done
<1>5. Overtaken(e)'
  <2>1. PhaseStep(e)
    BY <1>3 DEF PhaseStep
  <2> QED
    BY <1>1, <1>2, <2>1, OvertakenPlain
<1>6. CASE pc' = [pc EXCEPT ![e] = "done"]
  <2>1. pc'[e] = "done"
    BY <1>0, <1>6
  <2>2. Phase(e)' = "done" /\ pc'[e] \notin ChoosePoints \cup DrainPoints \cup RestorePoints
    BY <2>1 DEF Phase, RelPoints, RestorePoints, DrainPoints, ChoosePoints
  <2> QED
    BY <1>0, <1>1, <1>2, <1>4, <1>5, <2>2, PlainMoves
<1>7. CASE /\ Cardinality(ActiveNodes) < opt.parallel /\ waiting # {}
           /\ eng' = [eng EXCEPT ![e].n = First(waiting), ![e].back = "done"]
           /\ pc' = [pc EXCEPT ![e] = "begin"]
  <2>1. PICK n \in Node : n = First(waiting) /\ node[n].step = "pending"
    <3>1. waiting \in SUBSET Node /\ \A n \in waiting : n \in Node /\ node[n].step = "pending"
      OBVIOUS
    <3> HIDE DEF waiting
    <3>2. First(waiting) \in waiting
      BY <1>7, <3>1, FirstIsMember
    <3> QED
      BY <3>1, <3>2
  <2> HIDE DEF waiting
  <2>2. pc'[e] = "begin" /\ eng'[e].n = n /\ eng'[e].back = "done"
    BY <1>0, <1>7, <2>1 DEF EngineLocals
  <2>3. Phase(e)' = "begin"
    BY <2>2 DEF Phase, RelPoints, RestorePoints, DrainPoints
  <2>4. Copies(e)'
    BY <1>1, <2>1, <2>2, <2>3 DEF Copies, ChoosePoints, DrainPoints, RestorePoints
  <2>5. \A m \in Node : ~LiveFailed(m)
    BY <1>3 DEF TickInv, Overtaken
  <2>6. Pool(e)' \subseteq ActiveNodes \cup {n}
    BY <1>1, <1>2, <2>2, <2>3, <2>5 DEF Pool, InPool, LiveFailed, Lost, ActiveNodes
  <2>7. IsFiniteSet(ActiveNodes)
    <3>1. ActiveNodes \subseteq Node
      BY DEF ActiveNodes
    <3> QED
      BY <3>1, NodeAssumption, FS_Subset
  <2>8. /\ IsFiniteSet(ActiveNodes \cup {n})
        /\ Cardinality(ActiveNodes \cup {n}) <= Cardinality(ActiveNodes) + 1
        /\ Cardinality(ActiveNodes) \in Nat
    <3>1. Cardinality(ActiveNodes) \in Nat
      BY <2>7, FS_CardinalityType
    <3>2. /\ IsFiniteSet(ActiveNodes \cup {n})
          /\ Cardinality(ActiveNodes \cup {n}) =
                IF n \in ActiveNodes THEN Cardinality(ActiveNodes) ELSE Cardinality(ActiveNodes) + 1
      BY <2>7, FS_AddElement, Zenon
    <3> QED
      BY <3>1, <3>2
  <2>9. IsFiniteSet(Pool(e)') /\ Cardinality(Pool(e)') <= Cardinality(ActiveNodes \cup {n})
    BY <2>6, <2>8, FS_Subset
  <2>10. Cardinality(Pool(e)') \in Nat /\ Cardinality(ActiveNodes \cup {n}) \in Nat
    BY <2>8, <2>9, FS_CardinalityType
  <2>11. Room(e)'
    BY <1>0, <1>1, <1>7, <2>8, <2>9, <2>10 DEF Room
  <2>12. Workers'
    BY <1>1, <1>2 DEF TickInv, Workers, Worker
  <2>13. Done(e)'
    BY <1>1, <1>4 DEF Done
  <2> QED
    BY <1>5, <2>4, <2>11, <2>12, <2>13 DEF TickInv
<1> QED
    BY <1>1, <1>6, <1>7

(* The job is completed only when every node is done or skipped, and the    *)
(* tick is past every write by then.                                        *)
LEMMA FinishJobKeeps ==
    ASSUME NEW e \in Engine, IInv, TickInv(e), FinishJob(e)
    PROVE  TickInv(e)'
<1> USE DEF clusterVars, Goto
<1>0. /\ TypeOK /\ pc \in [Thread -> Points] /\ e \in Thread /\ Node \subseteq Thread \ {e}
      /\ rel \in [Thread -> ReleaseLocals] /\ rel[e] \in ReleaseLocals
    BY ThreadAssumption DEF IInv, TypeOK, Thread
<1>1. /\ opt' = opt /\ node' = node /\ host' = host /\ pc[e] = "done"
      /\ \/ job' = job /\ pc' = [pc EXCEPT ![e] = "sweep"]
         \/ /\ job' = job /\ pc' = [pc EXCEPT ![e] = "failJob"]
            /\ rel' = [rel EXCEPT ![e].back = "sweep"]
         \/ /\ AllFinished /\ ~(\E n \in Node : node[n].step = "failed")
            /\ pc' = [pc EXCEPT ![e] = "release"] /\ rel' = [rel EXCEPT ![e].back = "sweep"]
    BY Zenon DEF FinishJob
<1>2. /\ \A m \in Node : pc'[m] = pc[m]
      /\ pc'[e] \in {"sweep", "failJob", "release"}
      /\ Phase(e)' = "sweep"
  <2>1. CASE pc' = [pc EXCEPT ![e] = "sweep"]
    BY <1>0, <2>1 DEF Phase, RelPoints, RestorePoints, DrainPoints
  <2>2. CASE /\ pc' = [pc EXCEPT ![e] = "failJob"] \/ pc' = [pc EXCEPT ![e] = "release"]
             /\ rel' = [rel EXCEPT ![e].back = "sweep"]
    <3>1. rel'[e].back = "sweep" /\ (pc'[e] = "failJob" \/ pc'[e] = "release")
      BY <1>0, <2>2 DEF ReleaseLocals
    <3> QED
      BY <1>0, <2>2, <3>1 DEF Phase, RelPoints
  <2> QED
    BY <1>1, <2>1, <2>2
<1>3. Phase(e) = "done"
    BY <1>1 DEF Phase, RelPoints, RestorePoints, DrainPoints
<1>4. job.status # "completed"
    BY <1>3 DEF TickInv, Done
<1>5. Overtaken(e)'
  <2>1. PhaseStep(e)
    BY <1>3 DEF PhaseStep
  <2> QED
    BY <1>1, <1>2, <2>1, OvertakenPlain
<1>6. pc'[e] \notin ChoosePoints \cup DrainPoints \cup RestorePoints
    BY <1>2 DEF ChoosePoints, DrainPoints, RestorePoints
<1>7. CASE job' = job
    BY <1>0, <1>1, <1>2, <1>4, <1>5, <1>6, <1>7, PlainMoves
<1>8. CASE AllFinished /\ ~(\E n \in Node : node[n].step = "failed")
  <2>1. \A n \in Node : node'[n].step \in {"completed", "skipped"}
    BY <1>1, <1>8 DEF AllFinished, FinalSteps
  <2>2. Done(e)'
    BY <1>2, <2>1 DEF Done
  <2>3. Workers'
    BY <1>1, <1>2 DEF TickInv, Workers, Worker
  <2>4. Copies(e)'
    BY <1>2, <1>6 DEF Copies
  <2>5. \A m \in Node : InPool(e, m)' => InPool(e, m)
    BY <1>1, <1>2, <1>6 DEF InPool, LiveFailed, Lost
  <2>6. Room(e)'
    BY <1>0, <1>1, <2>5, PoolShrinks DEF TickInv, TypeOK
  <2> QED
    BY <1>5, <2>2, <2>3, <2>4, <2>6 DEF TickInv
<1> QED
    BY <1>1, <1>7, <1>8

(* The end of a tick.                                                       *)
LEMMA SweepKeeps ==
    ASSUME NEW e \in Engine, IInv, TickInv(e), Sweep(e)
    PROVE  TickInv(e)'
<1> USE DEF clusterVars, Goto
<1>0. /\ TypeOK /\ pc \in [Thread -> Points] /\ e \in Thread /\ Node \subseteq Thread \ {e}
      /\ rel \in [Thread -> ReleaseLocals] /\ rel[e] \in ReleaseLocals /\ job \in JobRow
    BY ThreadAssumption DEF IInv, TypeOK, Thread
<1>1. /\ opt' = opt /\ node' = node /\ host' = host /\ pc[e] = "sweep"
      /\ \/ pc' = [pc EXCEPT ![e] = "idle"]
         \/ pc' = [pc EXCEPT ![e] = "release"] /\ rel' = [rel EXCEPT ![e].back = "idle"]
    BY DEF Sweep
<1>2. job'.status = job.status
    BY <1>0 DEF Sweep, JobRow
<1>3. /\ \A m \in Node : pc'[m] = pc[m]
      /\ pc'[e] \in {"idle", "release"}
      /\ Phase(e)' = "idle"
  <2>1. CASE pc' = [pc EXCEPT ![e] = "idle"]
    BY <1>0, <2>1 DEF Phase, RelPoints, RestorePoints, DrainPoints
  <2>2. CASE pc' = [pc EXCEPT ![e] = "release"] /\ rel' = [rel EXCEPT ![e].back = "idle"]
    <3>1. rel'[e].back = "idle" /\ pc'[e] = "release"
      BY <1>0, <2>2 DEF ReleaseLocals
    <3> QED
      BY <1>0, <2>2, <3>1 DEF Phase, RelPoints
  <2> QED
    BY <1>1, <2>1, <2>2
<1>4. Phase(e) = "sweep"
    BY <1>1 DEF Phase, RelPoints, RestorePoints, DrainPoints
<1>5. Overtaken(e)'
  <2>1. PhaseStep(e)
    BY <1>1, <1>2, <1>3, <1>4 DEF PhaseStep, Terminal
  <2> QED
    BY <1>1, <1>3, <2>1, OvertakenPlain
<1>6. pc'[e] \notin ChoosePoints \cup DrainPoints \cup RestorePoints
    BY <1>3 DEF ChoosePoints, DrainPoints, RestorePoints
<1> QED
    BY <1>0, <1>1, <1>2, <1>3, <1>5, <1>6, PlainMoves

(* failJob and releaseJobState, run by the tick.                            *)
LEMMA ReleaseKeeps ==
    ASSUME NEW e \in Engine, IInv, TickInv(e), Release(e)
    PROVE  TickInv(e)'
<1>0. /\ TypeOK /\ e \in Thread /\ Node \subseteq Thread \ {e} /\ rel[e].back \in Backs
    BY ThreadAssumption DEF IInv, TypeOK, Thread, ReleaseLocals
<1>1. ReleaseEffect(e)
    BY <1>0, ReleaseEffects
<1>2. Phase(e) = rel[e].back /\ Phase(e)' = rel[e].back
    BY <1>0, <1>1 DEF ReleaseEffect, Phase, Backs, RelPoints, RestorePoints, DrainPoints
<1>3. pc'[e] \notin ChoosePoints \cup DrainPoints \cup RestorePoints
    BY <1>0, <1>1 DEF ReleaseEffect, Backs, RelPoints, ChoosePoints, RestorePoints, DrainPoints
<1>4. (\A m \in Node : Still(m)) /\ opt' = opt /\ eng' = eng
    BY <1>0, <1>1 DEF ReleaseEffect, Still
<1>5. /\ job'.status = "completed" => job.status = "completed"
      /\ Terminal \/ pc[e] = "failJob" => Terminal'
    BY <1>1 DEF ReleaseEffect, Terminal, Outcomes
<1>6. Copies(e)'
    BY <1>0, <1>2, <1>3, <1>4 DEF TickInv, Copies, Copy, Still, TypeOK, EngineLocals
<1>7. Overtaken(e)'
  <2>1. PhaseStep(e)
    BY <1>2, <1>4, <1>5 DEF PhaseStep
  <2>2. \A m \in Node : LiveFailed(m)' => LiveFailed(m)
    BY <1>4 DEF LiveFailed, Still
  <2> QED
    BY <2>1, <2>2, OvertakenKept DEF TickInv
<1>8. job'.status = "completed" => job.status = "completed" /\ Phase(e)' \in {"sweep", "idle"}
    BY <1>2, <1>5 DEF TickInv, Done
<1> QED
    BY <1>0, <1>2, <1>3, <1>4, <1>6, <1>7, <1>8, EngineStill

-----------------------------------------------------------------------------
(* The invariant holds.                                                     *)

(* A new job has no node under way.                                         *)
LEMMA InitTick ==
    ASSUME NEW e \in Engine, Init
    PROVE  TickInv(e)
<1>0. /\ opt \in OptionSet /\ Node \subseteq Host /\ Node \subseteq Thread /\ e \in Thread
      /\ \A n \in Node : node[n].step = "pending" /\ pc[n] = "idle" /\ host[n] = "up"
      /\ pc[e] = "idle" /\ job.status = "pending"
    BY OptionAssumption, NodeAssumption DEF Init, NewRow, Thread
<1>1. Workers
    BY <1>0 DEF Workers, Worker, SSHPoints, ConfPoints
<1>2. Phase(e) = "idle"
    BY <1>0 DEF Phase, RelPoints, RestorePoints, DrainPoints
<1>3. Copies(e)
    BY <1>0, <1>2 DEF Copies, ChoosePoints, RestorePoints, DrainPoints
<1>4. \A n \in Node : ~LiveFailed(n)
    BY <1>0 DEF LiveFailed
<1>5. Overtaken(e)
    BY <1>4 DEF Overtaken
<1>6. Pool(e) = {}
    BY <1>0, <1>2, <1>4 DEF Pool, InPool, Lost, ChoosePoints, ActiveSteps, Advancing
<1>7. Room(e)
    BY <1>0, <1>6, FS_EmptySet DEF Room, OptionSet
<1>8. Done(e)
    BY <1>0 DEF Done
<1> QED
    BY <1>1, <1>3, <1>5, <1>7, <1>8 DEF TickInv

(* A step of the tick keeps it.                                             *)
LEMMA EngineKeeps ==
    ASSUME NEW e \in Engine, IInv, TickInv(e), EngineStep(e)
    PROVE  TickInv(e)'
BY AdvancePasses, AdvanceDrainingKeeps, AdvanceUpgradingKeeps, AdvanceRebootedKeeps,
   AdvanceRestoringKeeps, RestoreKeeps, StartKeeps, DrainKeeps, BalancersKeep, TickKeeps,
   ListNodesKeeps, FailCheckKeeps, StartNextKeeps, FinishJobKeeps, SweepKeeps, ReleaseKeeps
   DEF EngineStep

(* With one tick at a time, every step does.                                *)
LEMMA StepTick ==
    ASSUME NEW e, Engine = {e}, LInv, Ending, TickInv(e), [Next]_vars
    PROVE  TickInv(e)'
<1>0. IInv /\ TypeOK /\ e \in Engine /\ (Terminal => Terminal') /\ Workers
    BY StepEnding DEF LInv, IInv, TickInv
<1>1. ASSUME NEW f \in Engine, EngineStep(f) PROVE TickInv(e)'
    BY <1>0, <1>1, EngineKeeps
<1>2. ASSUME NEW n \in Node, WorkerStep(n) \/ ConfirmUpgrade(n) PROVE TickInv(e)'
  <2>1. Worker(n)
    BY <1>0 DEF Workers
  <2> QED
    BY <1>0, <1>2, <2>1, WorkerEffects, WorkerKeeps
<1>3. CASE UNCHANGED vars
  <2>1. opt' = opt /\ eng' = eng /\ pc' = pc /\ rel' = rel /\ node' = node /\ host' = host /\ job' = job
    BY <1>3 DEF vars, clusterVars
  <2>2. \A m \in Node : Still(m)
    BY <2>1 DEF Still
  <2> QED
    BY <1>0, <2>1, <2>2, QuietKeeps
<1>4. CASE Next
    BY <1>0, <1>1, <1>2, <1>4, RequestKeeps, WorldKeeps DEF Next
<1> QED
    BY <1>3, <1>4

(* So it holds of every state, for any nodes, options and bounds.           *)
LEMMA TickInvariant ==
    ASSUME NEW e, Engine = {e}
    PROVE  Spec => []TickInv(e)
<1>1. Init => LInv /\ Ending /\ TickInv(e)
  <2>1. Init => Flagged
    BY DEF Init, Flagged, NoRelease
  <2>2. Init => Ending
    BY DEF Init, Ending, RelPoints
  <2> QED
    BY <2>1, <2>2, InitInv, InitTick DEF LInv
<1>2. LInv /\ Ending /\ TickInv(e) /\ [Next]_vars => LInv' /\ Ending' /\ TickInv(e)'
    BY StepFlagged, StepEnding, StepTick
<1> QED
    BY <1>1, <1>2, PTL DEF Spec

(* The nodes under way never exceed the parallelism of the job, when one    *)
(* tick works on it at a time: neither an SSH session that outlives the     *)
(* failure of its node, nor a failed node that is found rebooted, nor the   *)
(* node being started, is missed by the comparison in processJob.           *)
THEOREM ParallelismHolds ==
    ASSUME NEW e, Engine = {e}
    PROVE  Spec => []ParallelismKept
<1>1. TypeOK /\ TickInv(e) => ParallelismKept
  <2> SUFFICES ASSUME TypeOK, TickInv(e) PROVE ParallelismKept
    OBVIOUS
  <2>1. ActiveNodes \subseteq Pool(e) /\ Pool(e) \subseteq Node
    BY DEF ActiveNodes, Pool, InPool
  <2>2. IsFiniteSet(Pool(e))
    BY <2>1, NodeAssumption, FS_Subset
  <2>3. IsFiniteSet(ActiveNodes) /\ Cardinality(ActiveNodes) <= Cardinality(Pool(e))
    BY <2>1, <2>2, FS_Subset
  <2>4. /\ Cardinality(ActiveNodes) \in Nat /\ Cardinality(Pool(e)) \in Nat
        /\ opt.parallel \in Nat
    BY <2>2, <2>3, FS_CardinalityType DEF TypeOK, OptionSet
  <2> QED
    BY <2>3, <2>4 DEF ParallelismKept, TickInv, Room
<1> QED
    BY <1>1, TypeCorrect, TickInvariant, PTL

(* A job that is completed has no node that failed or is not finished, when *)
(* one tick works on it at a time: the step the sessions and requests write *)
(* after the tick last looked at a row cannot undo what it concluded.       *)
THEOREM CompletedIsDone ==
    ASSUME NEW e, Engine = {e}
    PROVE  Spec => []CompletedMeansDone
<1>1. TickInv(e) => CompletedMeansDone
    BY DEF TickInv, Done, CompletedMeansDone
<1> QED
    BY <1>1, TickInvariant, PTL

-----------------------------------------------------------------------------
(* The balancers: what the job found on is on again once it is let go,      *)
(* whatever becomes of nodes, sessions and processes on the way.            *)

(* Nothing is switched on, recorded or remembered that was not on.          *)
Found ==
    /\ drsOn \/ job.drs => opt.drs
    /\ crsOn \/ job.crs => opt.crs
    /\ \A t \in Thread :
        /\ rel[t].drs \/ pc[t] \in {"relDrs", "relDrsMark", "drsOff"} => opt.drs
        /\ rel[t].crs \/ pc[t] \in {"relCrs", "relCrsMark", "crsMark"} => opt.crs

(* A balancer that is off is on record, a record keeps the cleanup armed,   *)
(* and the record goes only when the balancer is on.                        *)
Held ==
    /\ opt.drs /\ ~drsOn => job.drs
    /\ Terminal /\ job.drs => job.cleanup
    /\ \A t \in Thread : pc[t] = "relDrsMark" => drsOn

(* No node was started, so nobody but the tick can end the job.             *)
Untouched(e) ==
    /\ \A t \in Thread \ {e} : pc[t] = "idle"
    /\ \A n \in Node : node[n].step \in {"pending", "skipped"}

EarlyPoints == {"idle", "drs", "sweep", "drsOff"}

(* The record is made by the first tick, before anything else happens to    *)
(* the job; a tick that would make it later never finds it missing.         *)
FirstTick(e) ==
    /\ opt.drs /\ ~Terminal /\ ~job.drs =>
            drsOn /\ Untouched(e) /\ pc[e] \in {"idle", "drs", "sweep"}
    /\ pc[e] = "drs" /\ (eng[e].drs \/ ~opt.drs) => Terminal \/ eng[e].drs = job.drs
    /\ pc[e] = "drs" /\ ~eng[e].drs /\ opt.drs => ~Terminal /\ ~job.drs
    /\ pc[e] = "drsOff" => ~Terminal /\ job.drs /\ Untouched(e)

(* A call of disableDRSIfEnabled failed, so that a pause may lack its record. *)
Missed == "drs" \in unmarked

BalInv(e) == opt \in Options /\ Found /\ (Missed \/ (Held /\ FirstTick(e)))

(* The steps that switch a balancer or its record.                          *)
PauseStep(e)  == Tick(e) \/ DisableDRS(e) \/ DisableDRSOff(e) \/ PauseCRS(e) \/ RecordCRS(e)
ResumeStep(t) == ReleaseDRS(t) \/ ReleaseDRSMark(t) \/ ReleaseCRS(t) \/ ReleaseCRSMark(t)

(* What every other step leaves alone.                                      *)
MarkPoints == {"relDrs", "relDrsMark", "relCrs", "relCrsMark", "crsMark", "drs", "drsOff"}

FarRow ==
    /\ opt' = opt /\ drsOn' = drsOn /\ crsOn' = crsOn
    /\ job'.drs = job.drs /\ job'.crs = job.crs
    /\ job.cleanup => job'.cleanup \/ ~job.drs

FarPc ==
    \A t \in Thread :
        pc'[t] \in MarkPoints =>
            \/ pc'[t] = pc[t]
            \/ pc'[t] = "relDrs" /\ rel[t].drs
            \/ pc'[t] = "relCrs" /\ rel[t].crs

(* A thread that goes elsewhere.                                            *)
LEMMA GotoFar ==
    ASSUME TypeOK, NEW t \in Thread, NEW p, pc' = [pc EXCEPT ![t] = p],
           \/ p \notin MarkPoints
           \/ p = "relDrs" /\ rel[t].drs
           \/ p = "relCrs" /\ rel[t].crs
    PROVE  FarPc
BY DEF FarPc, TypeOK

(* What a thread goes back to switches no balancer.                         *)
LEMMA BacksFar ==
    /\ Backs \cap MarkPoints = {}
    /\ TypeOK => /\ \A e \in Engine : eng[e].back \notin MarkPoints
                 /\ \A t \in Thread : rel[t].back \notin MarkPoints
<1>1. Backs \cap MarkPoints = {}
    BY DEF Backs, MarkPoints
<1> QED
    BY <1>1 DEF TypeOK, EngineLocals, ReleaseLocals

(* failNode goes there, or to failJob.                                      *)
LEMMA FailNodeFar ==
    ASSUME TypeOK, NEW rows, NEW t \in Thread, NEW n, NEW back, back \notin MarkPoints,
           FailNodeIn(rows, t, n, back)
    PROVE  FarPc
<1>1. pc' = [pc EXCEPT ![t] = back] \/ pc' = [pc EXCEPT ![t] = "failJob"]
    BY DEF FailNodeIn, Goto
<1>2. "failJob" \notin MarkPoints
    BY DEF MarkPoints
<1> QED
    BY <1>1, <1>2, GotoFar

(* Where a release goes, from what it remembers.                            *)
LEMMA AfterFar ==
    ASSUME NEW r
    PROVE  /\ AfterRules(r) \notin MarkPoints
           /\ AfterCRS(r) \notin MarkPoints
           /\ AfterDRS(r) \notin MarkPoints
           /\ AfterClient(r) \notin MarkPoints \/ (AfterClient(r) = "relCrs" /\ r.crs)
           /\ AfterRead(r) \notin MarkPoints \/ (AfterRead(r) = "relDrs" /\ r.drs)
BY DEF AfterRules, AfterCRS, AfterDRS, AfterClient, AfterRead, MarkPoints

(* failJob and the rest of releaseJobState.                                 *)
LEMMA ReleaseFar ==
    ASSUME TypeOK, NEW t \in Thread, Release(t), ~ResumeStep(t)
    PROVE  FarRow /\ FarPc
<1> USE DEF clusterVars
<1>0. /\ job \in JobRow /\ rel[t] \in ReleaseLocals /\ rel[t].back \notin MarkPoints
      /\ {"release", "relNodes", "relRulesMark", "relGuestsMark"} \cap MarkPoints = {}
    BY BacksFar DEF TypeOK, MarkPoints
<1>1. ASSUME NEW p, Goto(t, p),
             p \notin MarkPoints \/ (p = "relDrs" /\ rel[t].drs) \/ (p = "relCrs" /\ rel[t].crs)
      PROVE  FarPc
    BY <1>1, GotoFar DEF Goto
<1>2. CASE FailJob(t)
  <2>1. job' = job \/ job' = Ended("failed")
    BY <1>2 DEF FailJob
  <2>2. FarRow
    BY <1>0, <1>2, <2>1 DEF FailJob, FarRow, Ended, JobRow
  <2> QED
    BY <1>0, <1>1, <1>2, <2>2 DEF FailJob
<1>3. CASE ReleaseRead(t)
    BY <1>0, <1>1, <1>3 DEF ReleaseRead, FarRow
<1>4. CASE ReleaseNodes(t)
  <2>1. rel'[t].drs = rel[t].drs /\ Goto(t, AfterRead(rel'[t]))
    BY <1>0, <1>4 DEF ReleaseNodes, TypeOK, ReleaseLocals
  <2>2. FarPc
    BY <1>1, <2>1, AfterFar
  <2> QED
    BY <1>4, <2>2 DEF ReleaseNodes, FarRow
<1>5. CASE ReleaseClient(t)
  <2>1. Goto(t, AfterClient(rel[t])) \/ Goto(t, rel[t].back)
    BY <1>5 DEF ReleaseClient
  <2>2. FarPc
    BY <1>0, <1>1, <2>1, AfterFar
  <2> QED
    BY <1>5, <2>2 DEF ReleaseClient, FarRow
<1>6. CASE ReleaseRules(t)
    BY <1>0, <1>1, <1>6 DEF ReleaseRules, FarRow
<1>7. CASE ReleaseRulesMark(t)
  <2>1. FarPc
    BY <1>1, <1>7, AfterFar DEF ReleaseRulesMark
  <2> QED
    BY <1>0, <1>7, <2>1 DEF ReleaseRulesMark, FarRow, JobRow
<1>8. CASE ReleaseGuests(t)
  <2>1. Goto(t, AfterRules(rel'[t])) \/ Goto(t, "relGuestsMark")
    BY <1>8, Zenon DEF ReleaseGuests
  <2>2. FarPc
    BY <1>0, <1>1, <2>1, AfterFar
  <2> QED
    BY <1>8, <2>2 DEF ReleaseGuests, FarRow
<1>9. CASE ReleaseGuestsUnseen(t) \/ ReleaseGuestsMark(t)
  <2>1. Goto(t, AfterRules(rel'[t]))
    BY <1>9, Zenon DEF ReleaseGuestsUnseen, ReleaseGuestsMark
  <2>2. FarPc
    BY <1>1, <2>1, AfterFar
  <2> QED
    BY <1>9, <2>2 DEF ReleaseGuestsUnseen, ReleaseGuestsMark, FarRow
<1>10. CASE ReleaseClear(t)
  <2>1. \/ job' = job
        \/ ~job.drs /\ job' = [job EXCEPT !.cleanup = FALSE, !.due = FALSE]
    BY <1>10 DEF ReleaseClear, NothingRecorded
  <2>2. FarRow
    BY <1>0, <1>10, <2>1 DEF ReleaseClear, FarRow, JobRow
  <2> QED
    BY <1>0, <1>1, <1>10, <2>2 DEF ReleaseClear
<1> QED
    BY <1>2, <1>3, <1>4, <1>5, <1>6, <1>7, <1>8, <1>9, <1>10 DEF Release, ResumeStep

(* The rest of a tick.                                                      *)
LEMMA EngineFar ==
    ASSUME TypeOK, NEW e \in Engine, EngineStep(e), ~PauseStep(e), ~ResumeStep(e)
    PROVE  FarRow /\ FarPc
<1> USE DEF clusterVars
<1>0. /\ e \in Thread /\ job \in JobRow /\ pc \in [Thread -> Points] /\ Node \subseteq Thread
      /\ eng[e].back \notin MarkPoints
      /\ {"idle", "advance", "done", "sweep", "apt", "release"} \cap MarkPoints = {}
    BY BacksFar DEF TypeOK, Thread, MarkPoints
<1>1. ASSUME NEW p, Goto(e, p), p \notin MarkPoints PROVE FarPc
    BY <1>0, <1>1, GotoFar DEF Goto
<1>2. ASSUME pc' = pc PROVE FarPc
    BY <1>2 DEF FarPc
<1>3. ASSUME opt' = opt, drsOn' = drsOn, crsOn' = crsOn,
             \/ job' = job \/ \E rules : job' = WithRules(rules)
             \/ job' = Ended("completed") \/ job' = [job EXCEPT !.due = FALSE]
      PROVE  FarRow
    BY <1>0, <1>3 DEF FarRow, WithRules, Ended, JobRow
<1>4. CASE \/ CreateClient(e) \/ ListNodes(e) \/ RestartGuests(e) \/ RestoreDone(e)
           \/ FailCheck(e) \/ StartNext(e) \/ DisableRules(e) \/ RerecordRules(e)
           \/ RecordStopped(e)
  <2>1. \E p \in {"crs", "sweep", "advance", "restore", "failJob", "start", "begin", "done",
                  "ruleRec", "ruleChk", "ptStop"} : Goto(e, p)
    BY <1>4, Zenon DEF CreateClient, ListNodes, RestartGuests, RestoreDone, FailCheck, StartNext,
       DisableRules, RerecordRules, RecordStopped
  <2>2. FarPc
    BY <1>1, <2>1 DEF MarkPoints
  <2>3. FarRow
    BY <1>3, <1>4 DEF CreateClient, ListNodes, RestartGuests, RestoreDone, FailCheck, StartNext,
       DisableRules, RerecordRules, RecordStopped
  <2> QED
    BY <2>2, <2>3
<1>5. ASSUME NEW n \in Node,
             \/ AdvanceRefused(e, n) \/ AdvanceWaits(e, n) \/ AdvanceTimedOut(e, n)
             \/ AdvanceDraining(e, n) \/ AdvanceUpgrading(e, n) \/ AdvanceRebooted(e, n)
             \/ AdvanceHealthCheck(e, n) \/ AdvanceRestoreTimedOut(e, n)
      PROVE  FarRow /\ FarPc
  <2>1. \/ pc' = pc \/ Goto(e, "verify") \/ Goto(e, "drain") \/ Goto(e, "restart")
        \/ pc' = [pc EXCEPT ![n] = IF pc[n] = "idle" THEN "apt" ELSE pc[n]]
        \/ \E rows : FailNodeIn(rows, e, n, "advance")
    <3>1. CASE AdvanceRefused(e, n) \/ AdvanceWaits(e, n) \/ AdvanceTimedOut(e, n)
               \/ AdvanceUpgrading(e, n) \/ AdvanceRebooted(e, n) \/ AdvanceRestoreTimedOut(e, n)
      BY <3>1, Zenon DEF AdvanceRefused, AdvanceWaits, AdvanceTimedOut, AdvanceUpgrading,
                  AdvanceRebooted, AdvanceRestoreTimedOut, FailNode
    <3>2. CASE AdvanceDraining(e, n)
      BY <3>2, Zenon DEF AdvanceDraining
    <3>3. CASE AdvanceHealthCheck(e, n)
      BY <3>3, Zenon DEF AdvanceHealthCheck
    <3> QED
      BY <1>5, <3>1, <3>2, <3>3
  <2>2. ASSUME pc' = [pc EXCEPT ![n] = IF pc[n] = "idle" THEN "apt" ELSE pc[n]] PROVE FarPc
    BY <1>0, <2>2 DEF FarPc
  <2>3. ASSUME Goto(e, "verify") \/ Goto(e, "drain") \/ Goto(e, "restart") PROVE FarPc
    BY <1>1, <2>3 DEF MarkPoints
  <2>4. ASSUME \E rows : FailNodeIn(rows, e, n, "advance") PROVE FarPc
    BY <1>0, <2>4, FailNodeFar
  <2>5. FarPc
    BY <1>2, <2>1, <2>2, <2>3, <2>4
  <2>6. FarRow
    BY <1>3, <1>5 DEF AdvanceRefused, AdvanceWaits, AdvanceTimedOut, AdvanceDraining,
       AdvanceUpgrading, AdvanceRebooted, AdvanceHealthCheck, AdvanceRestoreTimedOut
  <2> QED
    BY <2>5, <2>6
<1>6. CASE StartNode(e) \/ StartCheck(e) \/ DrainStart(e)
  <2>1. /\ \/ \E p \in {"done", "check", "drainStart", "ruleOff", "verify", "drain"} : Goto(e, p)
           \/ \E rows : FailNodeIn(rows, e, eng[e].n, "done")
        /\ job' = job \/ \E rules : job' = WithRules(rules)
    <3>1. CASE StartNode(e)
      BY <3>1, Zenon DEF StartNode, FailNode
    <3>2. CASE StartCheck(e)
      <4>1. \/ \E p \in {"done", "check", "drainStart", "ruleOff", "verify", "drain"} : Goto(e, p)
            \/ \E rows : FailNodeIn(rows, e, eng[e].n, "done")
        BY <3>2, Zenon DEF StartCheck
      <4>2. job' = job \/ \E rules : job' = WithRules(rules)
        BY <3>2, Zenon DEF StartCheck
      <4> QED
        BY <4>1, <4>2
    <3>3. CASE DrainStart(e)
      BY <3>3, Zenon DEF DrainStart
    <3> QED
      BY <1>6, <3>1, <3>2, <3>3
  <2>2. ASSUME \E p \in {"done", "check", "drainStart", "ruleOff", "verify", "drain"} : Goto(e, p)
        PROVE  FarPc
    BY <1>1, <2>2 DEF MarkPoints
  <2>3. FarPc
    BY <1>0, <2>1, <2>2, FailNodeFar
  <2>4. opt' = opt /\ drsOn' = drsOn /\ crsOn' = crsOn
    BY <1>6 DEF StartNode, StartCheck, DrainStart
  <2> QED
    BY <1>3, <2>1, <2>3, <2>4
<1>7. CASE DrainCheck(e) \/ DrainGuest(e) \/ StopPassthrough(e) \/ VerifyDrained(e)
  <2>1. \/ \E p \in {"verify", "guest", "drain", eng[e].back} : Goto(e, p)
        \/ FailNodeIn(node, e, eng[e].n, eng[e].back)
    BY <1>7, Zenon DEF DrainCheck, DrainGuest, StopPassthrough, VerifyDrained, FailNode
  <2>2. ASSUME \E p \in {"verify", "guest", "drain", eng[e].back} : Goto(e, p)
        PROVE  FarPc
    BY <1>0, <1>1, <2>2 DEF MarkPoints
  <2>3. FarPc
    BY <1>0, <2>1, <2>2, FailNodeFar
  <2>4. FarRow
    BY <1>3, <1>7 DEF DrainCheck, DrainGuest, StopPassthrough, VerifyDrained
  <2> QED
    BY <2>3, <2>4
<1>8. CASE CheckAfterRules(e)
  <2>1. \E p \in {"drainStart", "done", "release"} : Goto(e, p)
    BY <1>8, Zenon DEF CheckAfterRules
  <2>2. FarPc
    BY <1>1, <2>1 DEF MarkPoints
  <2> QED
    BY <1>3, <1>8, <2>2 DEF CheckAfterRules
<1>9. CASE FinishJob(e)
  <2>1. \E p \in {"sweep", "failJob", "release"} : Goto(e, p)
    BY <1>9, Zenon DEF FinishJob
  <2>2. job' = job \/ job' = Ended("completed")
    BY <1>9, Zenon DEF FinishJob
  <2>3. FarPc
    BY <1>1, <2>1 DEF MarkPoints
  <2>4. opt' = opt /\ drsOn' = drsOn /\ crsOn' = crsOn
    BY <1>9 DEF FinishJob
  <2> QED
    BY <1>3, <2>2, <2>3, <2>4
<1>10. CASE Sweep(e)
  <2>1. \E p \in {"idle", "release"} : Goto(e, p)
    BY <1>10, Zenon DEF Sweep
  <2>2. job' = job \/ job' = [job EXCEPT !.due = FALSE]
    BY <1>10, Zenon DEF Sweep
  <2>3. FarPc
    BY <1>1, <2>1 DEF MarkPoints
  <2>4. opt' = opt /\ drsOn' = drsOn /\ crsOn' = crsOn
    BY <1>10 DEF Sweep
  <2> QED
    BY <1>3, <2>2, <2>3, <2>4
<1>11. CASE RestoreGuest(e)
    BY <1>2, <1>3, <1>11 DEF RestoreGuest
<1> QED
    BY <1>0, <1>4, <1>5, <1>6, <1>7, <1>8, <1>9, <1>10, <1>11, ReleaseFar
       DEF EngineStep, PauseStep

(* The goroutines, the requests, time, the cluster and crashes.             *)
LEMMA OutsideFar ==
    ASSUME TypeOK, OutsideStep
    PROVE  FarRow /\ FarPc
<1> USE DEF clusterVars
<1>0. /\ job \in JobRow /\ Api \in Thread /\ Node \subseteq Thread
      /\ "idle" \notin MarkPoints /\ "release" \notin MarkPoints
    BY DEF TypeOK, Thread, MarkPoints
<1>1. ASSUME pc' = pc PROVE FarPc
    BY <1>1 DEF FarPc
<1>2. ASSUME NEW n \in Node,
             \/ SSHUpgrade(n) \/ SSHDecide(n) \/ SSHMarkReboot(n) \/ SSHReboot(n)
             \/ ConfirmReboot(n) \/ ConfirmMark(n) \/ ConfirmUpgrade(n) \/ SkipNode(n)
      PROVE  FarRow /\ FarPc
  <2>1. \/ \E p \in {"idle", "rebootCheck", "rebootMark", "reboot", "confHealth", "confReboot",
                     "confMark"} : Goto(n, p)
        \/ \E rows : FailNodeIn(rows, n, n, "idle")
        \/ pc' = pc
    <3>1. CASE SSHUpgrade(n) \/ SSHMarkReboot(n) \/ SSHReboot(n) \/ ConfirmReboot(n)
               \/ ConfirmMark(n) \/ SkipNode(n)
      BY <3>1, Zenon DEF SSHUpgrade, SSHMarkReboot, SSHReboot, ConfirmReboot, ConfirmMark,
                  SkipNode, FailNode
    <3>2. CASE SSHDecide(n)
      BY <3>2, Zenon DEF SSHDecide, FailNode
    <3>3. CASE ConfirmUpgrade(n)
      BY <3>3, Zenon DEF ConfirmUpgrade, FailNode
    <3> QED
      BY <1>2, <3>1, <3>2, <3>3
  <2>2. ASSUME \E p \in {"idle", "rebootCheck", "rebootMark", "reboot", "confHealth", "confReboot",
                       "confMark"} : Goto(n, p)
        PROVE  FarPc
    <3>1. PICK p \in {"idle", "rebootCheck", "rebootMark", "reboot", "confHealth", "confReboot",
                      "confMark"} : pc' = [pc EXCEPT ![n] = p]
      BY <2>2 DEF Goto
    <3>2. p \notin MarkPoints
      BY DEF MarkPoints
    <3> QED
      BY <1>0, <3>1, <3>2, GotoFar
  <2>3. FarPc
    BY <1>0, <1>1, <2>1, <2>2, FailNodeFar
  <2>4. FarRow
    BY <1>2 DEF SSHUpgrade, SSHDecide, SSHMarkReboot, SSHReboot, ConfirmReboot,
                ConfirmMark, ConfirmUpgrade, SkipNode, FarRow
  <2> QED
    BY <2>3, <2>4
<1>3. CASE CancelJob \/ CreateAnother
  <2>1. pc' = [pc EXCEPT ![Api] = "release"]
    BY <1>3 DEF CancelJob, CreateAnother, Goto
  <2>2. FarPc
    BY <1>0, <2>1, GotoFar
  <2>3. FarRow
    BY <1>0, <1>3 DEF CancelJob, CreateAnother, FarRow, Ended, JobRow
  <2> QED
    BY <2>2, <2>3
<1>4. CASE \/ StartJob \/ PauseJob \/ ResumeJob
           \/ \E n \in Node : GoStale(n) \/ GoLate(n) \/ HostGoesDown(n) \/ HostBoots(n)
           \/ BackoffPasses \/ HourPasses
           \/ \E g \in Guest : GuestMoves(g)
  <2>1. pc' = pc
    BY <1>4 DEF StartJob, PauseJob, ResumeJob, GoStale, GoLate, HostGoesDown, HostBoots,
                BackoffPasses, HourPasses, GuestMoves
  <2>2. FarRow
    BY <1>0, <1>4 DEF StartJob, PauseJob, ResumeJob, GoStale, GoLate, HostGoesDown, HostBoots,
                BackoffPasses, HourPasses, GuestMoves, FarRow, JobRow
  <2> QED
    BY <1>1, <2>1, <2>2
<1>5. CASE Crash
    BY <1>0, <1>5 DEF Crash, FarRow, FarPc
<1> QED
    BY <1>2, <1>3, <1>4, <1>5 DEF OutsideStep

(* No node started and the job active: a step may pause or skip, and only   *)
(* the tick goes on.                                                        *)
LEMMA FreshStep ==
    ASSUME TypeOK, NEW e \in Engine, Engine = {e}, MaxCancels = 0, Next, Untouched(e), ~Terminal,
           pc[e] \in EarlyPoints
    PROVE  /\ Untouched(e)' /\ ~Terminal'
           /\ Tick(e) \/ DisableDRS(e) \/ DisableDRSOff(e) \/ pc'[e] \in {pc[e], "idle"}
<1>0. /\ job \in JobRow /\ node \in [Node -> NodeRow] /\ pc \in [Thread -> Points]
      /\ e \in Thread /\ Node \subseteq Thread /\ Api \in Thread /\ Api # e /\ e \notin Node
      /\ \A n \in Node : pc[n] = "idle" /\ node[n].step \in {"pending", "skipped"}
      /\ pc[Api] = "idle" /\ spent.cancel \in Nat
      /\ {"pending", "running", "paused"} \cap Outcomes = {}
    BY ThreadAssumption DEF TypeOK, Thread, Untouched, Outcomes
<1>1. ASSUME NEW t \in Thread PROVE ~Release(t)
  <2>1. pc[t] \in EarlyPoints
    BY DEF Untouched, EarlyPoints
  <2> QED
    BY <2>1 DEF EarlyPoints, Release, FailJob, ReleaseRead, ReleaseNodes, ReleaseDRS,
       ReleaseDRSMark, ReleaseClient, ReleaseCRS, ReleaseCRSMark, ReleaseRules, ReleaseRulesMark,
       ReleaseGuests, ReleaseGuestsUnseen, ReleaseGuestsMark, ReleaseClear
<1>2. ASSUME node' = node, job' = job \/ job' = [job EXCEPT !.drs = TRUE, !.due = FALSE],
             NEW p, Goto(e, p)
      PROVE  Untouched(e)' /\ ~Terminal' /\ pc'[e] = p
  <2>1. pc'[e] = p /\ \A t \in Thread \ {e} : pc'[t] = pc[t]
    BY <1>0, <1>2 DEF Goto
  <2>2. job'.status = job.status
    BY <1>0, <1>2 DEF JobRow
  <2> QED
    BY <1>2, <2>1, <2>2 DEF Untouched, Terminal
<1>3. ASSUME pc' = pc, job'.status \in {job.status, "running", "paused"},
             \A n \in Node : node'[n].step \in {node[n].step, "skipped"}
      PROVE  Untouched(e)' /\ ~Terminal' /\ pc'[e] = pc[e]
    BY <1>0, <1>3 DEF Untouched, Terminal
<1>4. CASE EngineStep(e)
  <2>1. \/ Tick(e) \/ DisableDRS(e) \/ DisableDRSOff(e) \/ Sweep(e)
    <3>1. \A n, S : ~Advances(e, n, S)
      BY DEF Advances, EarlyPoints
    <3> QED
      BY <1>0, <1>1, <1>4, <3>1
         DEF EngineStep, EarlyPoints, CreateClient, PauseCRS, RecordCRS, ListNodes,
             AdvanceRefused, AdvanceWaits, AdvanceTimedOut, AdvanceDraining, AdvanceUpgrading,
             AdvanceRebooted, AdvanceHealthCheck, AdvanceRestoreTimedOut, RestartGuests,
             RestoreGuest, RestoreDone, FailCheck, StartNext, StartNode, StartCheck, DisableRules,
             RerecordRules, CheckAfterRules, DrainStart, DrainCheck, DrainGuest, RecordStopped,
             StopPassthrough, VerifyDrained, FinishJob
  <2>2. node' = node /\ (job' = job \/ job' = [job EXCEPT !.drs = TRUE, !.due = FALSE])
    BY <2>1, Zenon DEF Tick, DisableDRS, DisableDRSOff, Sweep
  <2>3. \E p : Goto(e, p)
    BY <2>1, Zenon DEF Tick, DisableDRS, DisableDRSOff, Sweep
  <2>4. Sweep(e) => Goto(e, "idle")
    BY DEF Sweep
  <2> QED
    BY <1>2, <2>1, <2>2, <2>3, <2>4
<1>5. CASE OutsideStep
  <2>1. ASSUME NEW n \in Node
        PROVE  /\ ~SSHUpgrade(n) /\ ~SSHDecide(n) /\ ~SSHMarkReboot(n) /\ ~SSHReboot(n)
               /\ ~ConfirmReboot(n) /\ ~ConfirmMark(n) /\ ~ConfirmUpgrade(n)
               /\ ~GoStale(n) /\ ~GoLate(n)
    BY <1>0 DEF SSHUpgrade, SSHDecide, SSHMarkReboot, SSHReboot, ConfirmReboot, ConfirmMark,
       ConfirmUpgrade, GoStale, GoLate
  <2>2. ~CancelJob /\ ~CreateAnother /\ ~BackoffPasses /\ ~HourPasses
    BY <1>0 DEF CancelJob, CreateAnother, BackoffPasses, HourPasses
  <2>3. ASSUME NEW n \in Node, SkipNode(n)
        PROVE  pc' = pc /\ job' = job /\ \A m \in Node : node'[m].step \in {node[m].step, "skipped"}
    BY <1>0, <2>3 DEF SkipNode, SetStep, Moved, NodeRow
  <2>4. CASE StartJob \/ PauseJob \/ ResumeJob
    <3>1. pc' = pc /\ node' = node /\ job'.status \in {"running", "paused"}
      BY <1>0, <2>4 DEF StartJob, PauseJob, ResumeJob, JobRow
    <3> QED
      BY <1>3, <3>1
  <2>5. CASE \/ \E n \in Node : HostGoesDown(n) \/ HostBoots(n)
             \/ \E g \in Guest : GuestMoves(g)
    <3>1. pc' = pc /\ node' = node /\ job' = job
      BY <2>5 DEF HostGoesDown, HostBoots, GuestMoves
    <3> QED
      BY <1>3, <3>1
  <2>6. CASE Crash
    BY <1>0, <2>6 DEF Crash, Untouched, Terminal
  <2>7. CASE \E n \in Node : SkipNode(n)
    BY <1>3, <2>3, <2>7
  <2> QED
    BY <1>5, <2>1, <2>2, <2>4, <2>5, <2>6, <2>7 DEF OutsideStep
<1> QED
    BY <1>1, <1>4, <1>5, StepKinds

(* A tick that is about to record the pause keeps its copy of the job.      *)
LEMMA CopyKept ==
    ASSUME TypeOK, NEW e \in Engine, Engine = {e}, Next, pc[e] = "drs", pc'[e] = "drs"
    PROVE  eng' = eng
<1>0. e \in Thread /\ pc \in [Thread -> Points]
    BY DEF TypeOK, Thread
<1>1. CASE EngineStep(e)
  <2>1. ~Release(e)
    BY DEF Release, FailJob, ReleaseRead, ReleaseNodes, ReleaseDRS,
       ReleaseDRSMark, ReleaseClient, ReleaseCRS, ReleaseCRSMark, ReleaseRules, ReleaseRulesMark,
       ReleaseGuests, ReleaseGuestsUnseen, ReleaseGuestsMark, ReleaseClear
  <2>2. \A n, S : ~Advances(e, n, S)
    BY DEF Advances
  <2>3. DisableDRS(e)
    BY <1>1, <2>1, <2>2
       DEF EngineStep, Tick, DisableDRSOff, CreateClient, PauseCRS, RecordCRS, ListNodes,
           AdvanceRefused, AdvanceWaits, AdvanceTimedOut, AdvanceDraining, AdvanceUpgrading,
           AdvanceRebooted, AdvanceHealthCheck, AdvanceRestoreTimedOut, RestartGuests,
           RestoreGuest, RestoreDone, FailCheck, StartNext, StartNode, StartCheck, DisableRules,
           RerecordRules, CheckAfterRules, DrainStart, DrainCheck, DrainGuest, RecordStopped,
           StopPassthrough, VerifyDrained, FinishJob, Sweep
  <2> QED
    BY <2>3 DEF DisableDRS
<1>2. ASSUME NEW t \in Thread, Release(t) PROVE eng' = eng
    BY <1>2 DEF Release, FailJob, ReleaseRead, ReleaseNodes, ReleaseDRS,
       ReleaseDRSMark, ReleaseClient, ReleaseCRS, ReleaseCRSMark, ReleaseRules, ReleaseRulesMark,
       ReleaseGuests, ReleaseGuestsUnseen, ReleaseGuestsMark, ReleaseClear
<1>3. CASE OutsideStep
  <2>1. ~Crash
    BY <1>0 DEF Crash
  <2> QED
    BY <1>3, <2>1 DEF OutsideStep, SSHUpgrade, SSHDecide, SSHMarkReboot, SSHReboot, ConfirmReboot,
       ConfirmMark, ConfirmUpgrade, SkipNode, StartJob, PauseJob, ResumeJob, CancelJob,
       CreateAnother, GoStale, GoLate, HostGoesDown, HostBoots, BackoffPasses, HourPasses,
       GuestMoves
<1> QED
    BY <1>1, <1>2, <1>3, StepKinds

(* What was missed stays so.                                                *)
LEMMA MissedStays ==
    ASSUME Next, Missed
    PROVE  Missed'
<1> USE DEF clusterVars
<1>1. ASSUME NEW e \in Engine, EngineStep(e), ~Release(e) PROVE Missed'
  <2>1. CASE DisableDRS(e) \/ PauseCRS(e) \/ RecordCRS(e)
    BY <2>1 DEF DisableDRS, PauseCRS, RecordCRS, Missed
  <2>2. CASE ~DisableDRS(e) /\ ~PauseCRS(e) /\ ~RecordCRS(e)
    <3>1. unmarked' = unmarked
      BY <1>1, <2>2
         DEF EngineStep, Tick, DisableDRSOff, CreateClient, ListNodes, Advances,
             AdvanceRefused, AdvanceWaits, AdvanceTimedOut, AdvanceDraining, AdvanceUpgrading,
             AdvanceRebooted, AdvanceHealthCheck, AdvanceRestoreTimedOut, RestartGuests,
             RestoreGuest, RestoreDone, FailCheck, StartNext, StartNode, StartCheck, DisableRules,
             RerecordRules, CheckAfterRules, DrainStart, DrainCheck, DrainGuest, RecordStopped,
             StopPassthrough, VerifyDrained, FinishJob, Sweep
    <3> QED
      BY <3>1 DEF Missed
  <2> QED
    BY <2>1, <2>2
<1>2. ASSUME NEW t \in Thread, Release(t) PROVE unmarked' = unmarked
    BY <1>2 DEF Release, FailJob, ReleaseRead, ReleaseNodes, ReleaseDRS,
       ReleaseDRSMark, ReleaseClient, ReleaseCRS, ReleaseCRSMark, ReleaseRules, ReleaseRulesMark,
       ReleaseGuests, ReleaseGuestsUnseen, ReleaseGuestsMark, ReleaseClear
<1>3. CASE Crash
    BY <1>3 DEF Crash, Missed
<1>4. CASE OutsideStep /\ ~Crash
  <2>1. unmarked' = unmarked
    BY <1>4 DEF OutsideStep, SSHUpgrade, SSHDecide, SSHMarkReboot, SSHReboot, ConfirmReboot,
       ConfirmMark, ConfirmUpgrade, SkipNode, StartJob, PauseJob, ResumeJob, CancelJob,
       CreateAnother, GoStale, GoLate, HostGoesDown, HostBoots, BackoffPasses, HourPasses,
       GuestMoves
  <2> QED
    BY <2>1 DEF Missed
<1>5. \A e \in Engine : e \in Thread
    BY DEF Thread
<1> QED
    BY <1>1, <1>2, <1>3, <1>4, <1>5, StepKinds DEF Missed

(* A step that switches no balancer keeps the invariant.                    *)
LEMMA FarKeeps ==
    ASSUME LInv, NEW e \in Engine, Engine = {e}, MaxCancels = 0, BalInv(e), Next,
           FarRow, FarPc, RowStep, PendingStep, Terminal => Terminal',
           ~Tick(e), ~DisableDRS(e), ~DisableDRSOff(e)
    PROVE  BalInv(e)'
<1>a. TypeOK /\ Found /\ opt \in Options /\ e \in Thread
    BY DEF LInv, IInv, BalInv, Thread
<1>1. Found'
  <2>1. (drsOn' \/ job'.drs => opt'.drs) /\ (crsOn' \/ job'.crs => opt'.crs)
    BY <1>a DEF Found, FarRow
  <2>2. ASSUME NEW t \in Thread
        PROVE  /\ rel'[t].drs \/ pc'[t] \in {"relDrs", "relDrsMark", "drsOff"} => opt'.drs
               /\ rel'[t].crs \/ pc'[t] \in {"relCrs", "relCrsMark", "crsMark"} => opt'.crs
    <3>1. (rel'[t].drs => opt'.drs) /\ (rel'[t].crs => opt'.crs)
      BY <1>a DEF Found, FarRow, PendingStep
    <3>2. pc'[t] \in {"relDrs", "relDrsMark", "drsOff"} => pc'[t] = pc[t] \/ rel[t].drs
      BY DEF FarPc, MarkPoints
    <3>3. pc'[t] \in {"relCrs", "relCrsMark", "crsMark"} => pc'[t] = pc[t] \/ rel[t].crs
      BY DEF FarPc, MarkPoints
    <3> QED
      BY <1>a, <3>1, <3>2, <3>3 DEF Found, FarRow
  <2> QED
    BY <2>1, <2>2 DEF Found
<1>b. CASE Missed'
    BY <1>a, <1>1, <1>b DEF BalInv, FarRow
<1>c. SUFFICES ASSUME ~Missed' PROVE BalInv(e)'
    BY <1>b
<1>0. TypeOK /\ Found /\ Held /\ FirstTick(e) /\ opt \in Options /\ e \in Thread
    BY <1>a, <1>c, MissedStays DEF BalInv
<1>2. Held'
  <2>1. opt'.drs /\ ~drsOn' => job'.drs
    BY <1>0 DEF Held, FarRow
  <2>2. ASSUME Terminal', job'.drs PROVE job'.cleanup
    <3>1. CASE Terminal
      BY <1>0, <2>2, <3>1 DEF Held, FarRow
    <3>2. CASE ~Terminal
      <4>1. job.status \in Active \cup Outcomes /\ Active \cap Outcomes = {}
            /\ {"running", "paused"} \subseteq Active
        BY <1>0 DEF TypeOK, JobRow, Active, Outcomes
      <4> QED
        BY <2>2, <3>2, <4>1 DEF RowStep, RowKept, RowEnds, RowArmed, RowMoves, RowRetired, Terminal
    <3> QED
      BY <3>1, <3>2
  <2>3. ASSUME NEW t \in Thread, pc'[t] = "relDrsMark" PROVE drsOn'
    <3>1. pc[t] = "relDrsMark"
      BY <2>3 DEF FarPc, MarkPoints
    <3> QED
      BY <1>0, <3>1 DEF Held, FarRow
  <2> QED
    BY <2>1, <2>2, <2>3 DEF Held
<1>3. ASSUME Untouched(e), ~Terminal, pc[e] \in EarlyPoints
      PROVE  Untouched(e)' /\ ~Terminal' /\ pc'[e] \in {pc[e], "idle"}
    BY <1>0, <1>3, FreshStep
<1>4. FirstTick(e)'
  <2>1. ASSUME opt'.drs, ~Terminal', ~job'.drs
        PROVE  drsOn' /\ Untouched(e)' /\ pc'[e] \in {"idle", "drs", "sweep"}
    <3>1. drsOn /\ Untouched(e) /\ ~Terminal /\ pc[e] \in {"idle", "drs", "sweep"}
      BY <1>0, <2>1 DEF FirstTick, FarRow
    <3> QED
      BY <1>3, <3>1 DEF EarlyPoints, FarRow
  <2>2. ASSUME pc'[e] = "drs"
        PROVE  /\ eng'[e].drs \/ ~opt'.drs => Terminal' \/ eng'[e].drs = job'.drs
               /\ ~eng'[e].drs /\ opt'.drs => ~Terminal' /\ ~job'.drs
    <3>1. pc[e] = "drs"
      BY <1>0, <2>2 DEF FarPc, MarkPoints
    <3>2. eng' = eng
      BY <1>0, <2>2, <3>1, CopyKept
    <3>3. eng[e].drs \/ ~opt.drs => Terminal' \/ eng[e].drs = job'.drs
      BY <1>0, <3>1 DEF FirstTick, FarRow
    <3>4. ASSUME ~eng[e].drs, opt.drs PROVE ~Terminal' /\ ~job'.drs
      <4>1. ~Terminal /\ ~job.drs /\ Untouched(e)
        BY <1>0, <3>1, <3>4 DEF FirstTick
      <4> QED
        BY <1>3, <3>1, <4>1 DEF EarlyPoints, FarRow
    <3> QED
      BY <3>2, <3>3, <3>4 DEF FarRow
  <2>3. ASSUME pc'[e] = "drsOff" PROVE ~Terminal' /\ job'.drs /\ Untouched(e)'
    <3>1. pc[e] = "drsOff"
      BY <1>0, <2>3 DEF FarPc, MarkPoints
    <3>2. ~Terminal /\ job.drs /\ Untouched(e)
      BY <1>0, <3>1 DEF FirstTick
    <3> QED
      BY <1>3, <3>1, <3>2 DEF EarlyPoints, FarRow
  <2> QED
    BY <2>1, <2>2, <2>3 DEF FirstTick
<1> QED
    BY <1>0, <1>1, <1>2, <1>4 DEF BalInv, FarRow

(* The pauses of a tick, and what it records of them.                       *)
LEMMA PauseKeeps ==
    ASSUME LInv, Ending, NEW e \in Engine, BalInv(e), PauseStep(e)
    PROVE  BalInv(e)'
<1> USE DEF clusterVars
<1>0. /\ TypeOK /\ Found /\ opt \in Options /\ e \in Thread
      /\ job \in JobRow /\ pc \in [Thread -> Points] /\ eng \in [Engine -> EngineLocals]
      /\ opt.drs \in BOOLEAN
    BY DEF LInv, IInv, BalInv, TypeOK, Thread, OptionSet
<1>1. rel' = rel /\ node' = node /\ opt' = opt
    BY DEF PauseStep, Tick, DisableDRS, DisableDRSOff, PauseCRS, RecordCRS
<1>m. ~Missed' => Held /\ FirstTick(e)
  <2>1. Missed => Missed'
    BY DEF PauseStep, Tick, DisableDRS, DisableDRSOff, PauseCRS, RecordCRS, Missed
  <2> QED
    BY <2>1 DEF BalInv
<1>2. ASSUME NEW p, Goto(e, p)
      PROVE  pc'[e] = p /\ \A t \in Thread \ {e} : pc'[t] = pc[t]
    BY <1>0, <1>2 DEF Goto
<1>3. CASE Tick(e)
  <2>1. /\ job' = job /\ drsOn' = drsOn /\ crsOn' = crsOn /\ pc[e] = "idle"
        /\ \/ Goto(e, "drs") /\ job.status = "running" /\ eng'[e].drs = job.drs
           \/ Goto(e, "sweep")
    BY <1>0, <1>3 DEF Tick, EngineLocals
  <2>2. pc'[e] \in {"drs", "sweep"} /\ \A t \in Thread \ {e} : pc'[t] = pc[t]
    BY <1>2, <2>1
  <2>3. pc'[e] = "drs" => ~Terminal /\ eng'[e].drs = job.drs
    BY <1>2, <2>1 DEF Terminal, Outcomes
  <2>4. Found'
    BY <1>0, <1>1, <2>1, <2>2 DEF Found
  <2>5. ~Missed' => Held'
    BY <1>0, <1>1, <1>m, <2>1, <2>2 DEF Held, Terminal
  <2>6. ~Missed' => FirstTick(e)'
    BY <1>0, <1>1, <1>m, <2>1, <2>2, <2>3 DEF FirstTick, Untouched, Terminal
  <2> QED
    BY <1>0, <1>1, <2>4, <2>5, <2>6 DEF BalInv
<1>4. CASE DisableDRS(e)
  <2>1. pc[e] = "drs" /\ drsOn' = drsOn /\ crsOn' = crsOn /\ eng' = eng
    BY <1>4 DEF DisableDRS
  <2>2. CASE /\ ~eng[e].drs /\ drsOn
             /\ job' = [job EXCEPT !.drs = TRUE, !.due = FALSE] /\ Goto(e, "drsOff")
    <3>2. /\ job'.status = job.status /\ job'.cleanup = job.cleanup /\ job'.drs = TRUE
          /\ job'.crs = job.crs /\ pc'[e] = "drsOff" /\ \A t \in Thread \ {e} : pc'[t] = pc[t]
      BY <1>0, <1>2, <2>2 DEF JobRow
    <3>3. opt.drs /\ (~Missed' => ~Terminal /\ Untouched(e))
      BY <1>0, <1>m, <2>1, <2>2 DEF Found, FirstTick
    <3>4. Found'
      BY <1>0, <1>1, <2>1, <3>2, <3>3 DEF Found
    <3>5. ~Missed' => Held'
      BY <1>0, <1>1, <1>m, <2>1, <3>2, <3>3 DEF Held, Terminal
    <3>6. ~Missed' => FirstTick(e)'
      BY <1>0, <1>1, <1>m, <2>1, <3>2, <3>3 DEF FirstTick, Untouched, Terminal
    <3> QED
      BY <1>0, <1>1, <3>4, <3>5, <3>6 DEF BalInv
  <2>3. CASE (eng[e].drs \/ ~drsOn) /\ job' = job /\ Goto(e, "client")
    <3>2. pc'[e] = "client" /\ \A t \in Thread \ {e} : pc'[t] = pc[t]
      BY <1>2, <2>3
    <3>3. ~Missed' => (opt.drs => Terminal \/ job.drs)
      BY <1>0, <1>m, <2>1, <2>3 DEF FirstTick
    <3>4. Found'
      BY <1>0, <1>1, <2>1, <2>3, <3>2 DEF Found
    <3>5. ~Missed' => Held'
      BY <1>0, <1>1, <1>m, <2>1, <2>3, <3>2 DEF Held, Terminal
    <3>6. ~Missed' => FirstTick(e)'
      BY <1>1, <2>3, <3>2, <3>3 DEF FirstTick, Terminal
    <3> QED
      BY <1>0, <1>1, <3>4, <3>5, <3>6 DEF BalInv
  <2>4. CASE /\ drsOn /\ Missed' /\ job' = job
             /\ \E p \in {"client", "drsOff"} : Goto(e, p)
    <3>1. /\ pc'[e] \in {"client", "drsOff"} /\ \A t \in Thread \ {e} : pc'[t] = pc[t]
          /\ opt.drs
      BY <1>0, <1>2, <2>4 DEF Found
    <3>2. Found'
      BY <1>0, <1>1, <2>1, <2>4, <3>1 DEF Found
    <3> QED
      BY <1>0, <1>1, <2>4, <3>2 DEF BalInv
  <2>5. \/ (eng[e].drs \/ ~drsOn) /\ job' = job /\ Goto(e, "client")
        \/ /\ ~eng[e].drs /\ drsOn
           /\ job' = [job EXCEPT !.drs = TRUE, !.due = FALSE] /\ Goto(e, "drsOff")
        \/ /\ drsOn /\ unmarked' = unmarked \cup {"drs"} /\ job' = job
           /\ \E p \in {"client", "drsOff"} : Goto(e, p)
    BY <1>4, Zenon DEF DisableDRS
  <2>6. unmarked' = unmarked \cup {"drs"} => Missed'
    BY DEF Missed
  <2> QED
    BY <2>2, <2>3, <2>4, <2>5, <2>6
<1>5. CASE DisableDRSOff(e)
  <2>1. /\ pc[e] = "drsOff" /\ crsOn' = crsOn /\ job' = job
        /\ Goto(e, "client")
    BY <1>5 DEF DisableDRSOff
  <2>0. drsOn' = FALSE \/ drsOn' = drsOn
    BY <1>5, Zenon DEF DisableDRSOff
  <2>2. pc'[e] = "client" /\ \A t \in Thread \ {e} : pc'[t] = pc[t]
    BY <1>2, <2>1
  <2>3. ~Missed' => ~Terminal /\ job.drs
    BY <1>0, <1>m, <2>1 DEF FirstTick
  <2>4. ~Missed' => \A t \in Thread : pc'[t] # "relDrsMark"
    <3>1. ~Terminal => \A t \in Thread : pc[t] # "relDrsMark"
      BY DEF Ending, RelPoints
    <3> QED
      BY <2>2, <2>3, <3>1
  <2>5. Found'
    BY <1>0, <1>1, <2>0, <2>1, <2>2 DEF Found
  <2>6. ~Missed' => Held'
    BY <1>1, <2>1, <2>3, <2>4 DEF Held, Terminal
  <2>7. ~Missed' => FirstTick(e)'
    BY <1>1, <2>1, <2>2, <2>3 DEF FirstTick, Terminal
  <2> QED
    BY <1>0, <1>1, <2>5, <2>6, <2>7 DEF BalInv
<1>6. CASE PauseCRS(e) \/ RecordCRS(e)
  <2>1. /\ pc[e] \in {"crs", "crsMark"} /\ drsOn' = drsOn /\ eng' = eng
        /\ \E p \in {"crsMark", "nodes"} : Goto(e, p) /\ (p = "crsMark" => crsOn)
        /\ crsOn' => crsOn \/ pc[e] = "crsMark"
        /\ job' = job \/ (pc[e] = "crsMark" /\ job' = [job EXCEPT !.crs = TRUE, !.due = FALSE])
    <3>1. CASE PauseCRS(e)
      <4>1. \/ crsOn /\ crsOn' = FALSE /\ Goto(e, "crsMark")
            \/ crsOn' = crsOn /\ Goto(e, "nodes")
            \/ crsOn' = FALSE /\ Goto(e, "nodes")
        BY <3>1, Zenon DEF PauseCRS
      <4>2. pc[e] = "crs" /\ drsOn' = drsOn /\ eng' = eng /\ job' = job
        BY <3>1 DEF PauseCRS
      <4> QED
        BY <4>1, <4>2
    <3>2. CASE RecordCRS(e)
      <4>1. pc[e] = "crsMark" /\ drsOn' = drsOn /\ eng' = eng /\ Goto(e, "nodes")
        BY <3>2 DEF RecordCRS
      <4>2. job' = job \/ job' = [job EXCEPT !.crs = TRUE, !.due = FALSE]
        BY <3>2 DEF RecordCRS
      <4> QED
        BY <4>1, <4>2
    <3> QED
      BY <1>6, <3>1, <3>2
  <2>2. /\ pc'[e] \in {"crsMark", "nodes"} /\ (pc'[e] = "crsMark" => crsOn)
        /\ \A t \in Thread \ {e} : pc'[t] = pc[t]
    BY <1>2, <2>1
  <2>3. /\ job'.status = job.status /\ job'.cleanup = job.cleanup /\ job'.drs = job.drs
        /\ job'.crs => job.crs \/ pc[e] = "crsMark"
    BY <1>0, <2>1 DEF JobRow
  <2>4. ~Missed' => (opt.drs => Terminal \/ job.drs)
    BY <1>0, <1>m, <2>1 DEF FirstTick
  <2>5. Found'
    BY <1>0, <1>1, <2>1, <2>2, <2>3 DEF Found
  <2>6. ~Missed' => Held'
    BY <1>0, <1>1, <1>m, <2>1, <2>2, <2>3 DEF Held, Terminal
  <2>7. ~Missed' => FirstTick(e)'
    BY <1>1, <2>1, <2>2, <2>3, <2>4 DEF FirstTick, Terminal
  <2> QED
    BY <1>0, <1>1, <2>5, <2>6, <2>7 DEF BalInv
<1> QED
    BY <1>3, <1>4, <1>5, <1>6 DEF PauseStep

(* releaseJobState switches a balancer on, or strikes its record out.       *)
LEMMA ResumeKeeps ==
    ASSUME LInv, Ending, NEW e \in Engine, BalInv(e), NEW t \in Thread, ResumeStep(t), PendingStep,
           Terminal'
    PROVE  BalInv(e)'
<1> USE DEF clusterVars
<1>0. /\ TypeOK /\ Found /\ opt \in Options /\ e \in Thread
      /\ job \in JobRow /\ pc \in [Thread -> Points]
    BY DEF LInv, IInv, BalInv, TypeOK, Thread
<1>1. /\ opt' = opt /\ eng' = eng
      /\ pc[t] \in {"relDrs", "relDrsMark", "relCrs", "relCrsMark"}
    BY DEF ResumeStep, ReleaseDRS, ReleaseDRSMark, ReleaseCRS, ReleaseCRSMark
<1>m. ~Missed' => Held /\ FirstTick(e)
  <2>1. unmarked' = unmarked
    BY DEF ResumeStep, ReleaseDRS, ReleaseDRSMark, ReleaseCRS, ReleaseCRSMark
  <2> QED
    BY <2>1 DEF BalInv, Missed
<1>2. Terminal
    BY <1>1 DEF Ending, RelPoints
<1>3. /\ {"relDrsMark", "relCrsMark"} \cap {"drs", "drsOff"} = {}
      /\ AfterDRS(rel[t]) \notin MarkPoints /\ AfterCRS(rel[t]) \notin MarkPoints
    BY AfterFar
<1>4. ASSUME NEW p, Goto(t, p), p \notin {"drs", "drsOff"}
      PROVE  /\ pc'[t] = p /\ \A u \in Thread \ {t} : pc'[u] = pc[u]
             /\ ~Missed' => FirstTick(e)'
  <2>1. pc'[t] = p /\ \A u \in Thread \ {t} : pc'[u] = pc[u]
    BY <1>0, <1>4 DEF Goto
  <2>2. pc'[e] \in {"drs", "drsOff"} => pc'[e] = pc[e]
    BY <1>0, <1>4, <2>1
  <2>3. ~Missed' => pc'[e] # "drsOff"
    BY <1>m, <1>2, <2>2 DEF FirstTick
  <2>4. ~Missed' => (pc'[e] = "drs" => eng[e].drs \/ ~opt.drs)
    BY <1>m, <1>2, <2>2 DEF FirstTick
  <2> QED
    BY <1>1, <2>1, <2>3, <2>4 DEF FirstTick
<1>5. CASE ReleaseDRS(t)
  <2>1. /\ pc[t] = "relDrs" /\ drsOn' = TRUE /\ crsOn' = crsOn /\ job' = job /\ rel' = rel
        /\ Goto(t, "relDrsMark")
    BY <1>5 DEF ReleaseDRS
  <2>2. pc'[t] = "relDrsMark" /\ (\A u \in Thread \ {t} : pc'[u] = pc[u]) /\ (~Missed' => FirstTick(e)')
    BY <1>4, <2>1
  <2>3. Found'
    BY <1>0, <1>1, <2>1, <2>2 DEF Found
  <2>4. ~Missed' => Held'
    BY <1>0, <1>m, <1>1, <1>2, <2>1 DEF Held
  <2> QED
    BY <1>0, <1>1, <2>2, <2>3, <2>4 DEF BalInv
<1>6. CASE ReleaseDRSMark(t)
  <2>1. /\ pc[t] = "relDrsMark" /\ drsOn' = drsOn /\ crsOn' = crsOn /\ rel' = rel
        /\ job' = [job EXCEPT !.drs = FALSE, !.due = FALSE] /\ Goto(t, AfterDRS(rel[t]))
    BY <1>6 DEF ReleaseDRSMark
  <2>2. pc'[t] \notin MarkPoints /\ (\A u \in Thread \ {t} : pc'[u] = pc[u]) /\ (~Missed' => FirstTick(e)')
    BY <1>3, <1>4, <2>1 DEF MarkPoints
  <2>3. job'.drs = FALSE /\ job'.crs = job.crs
    BY <1>0, <2>1 DEF JobRow
  <2>4. Found'
    BY <1>0, <1>1, <2>1, <2>2, <2>3 DEF Found, MarkPoints
  <2>5. ~Missed' => Held'
    BY <1>0, <1>m, <2>1, <2>3 DEF Held
  <2> QED
    BY <1>0, <1>1, <2>2, <2>4, <2>5 DEF BalInv
<1>7. CASE ReleaseCRS(t)
  <2>1. /\ pc[t] = "relCrs" /\ drsOn' = drsOn /\ job' = job
        /\ \E p \in {"relCrsMark", AfterCRS(rel[t])} : Goto(t, p)
    BY <1>7, Zenon DEF ReleaseCRS
  <2>2. /\ pc'[t] \notin MarkPoints \ {"relCrsMark"} /\ (\A u \in Thread \ {t} : pc'[u] = pc[u])
        /\ (~Missed' => FirstTick(e)')
    BY <1>3, <1>4, <2>1 DEF MarkPoints
  <2>3. opt.crs /\ (drsOn \/ job.drs => opt.drs)
    BY <1>0, <2>1 DEF Found
  <2>4. \A u \in Thread : /\ rel'[u].drs => opt.drs
                          /\ pc'[u] \in {"relDrs", "relDrsMark", "drsOff"} => opt.drs
    BY <1>0, <2>2 DEF Found, PendingStep, MarkPoints
  <2>5. Found'
    BY <1>1, <2>1, <2>3, <2>4 DEF Found
  <2>6. ~Missed' => Held'
    BY <1>0, <1>m, <1>1, <1>2, <2>1, <2>2 DEF Held, MarkPoints
  <2> QED
    BY <1>0, <1>1, <2>2, <2>5, <2>6 DEF BalInv
<1>8. CASE ReleaseCRSMark(t)
  <2>1. /\ pc[t] = "relCrsMark" /\ drsOn' = drsOn /\ crsOn' = crsOn /\ rel' = rel
        /\ job' = [job EXCEPT !.crs = FALSE, !.due = FALSE] /\ Goto(t, AfterCRS(rel[t]))
    BY <1>8 DEF ReleaseCRSMark
  <2>2. pc'[t] \notin MarkPoints /\ (\A u \in Thread \ {t} : pc'[u] = pc[u]) /\ (~Missed' => FirstTick(e)')
    BY <1>3, <1>4, <2>1 DEF MarkPoints
  <2>3. job'.drs = job.drs /\ job'.crs = FALSE /\ job'.cleanup = job.cleanup
    BY <1>0, <2>1 DEF JobRow
  <2>4. Found'
    BY <1>0, <1>1, <2>1, <2>2, <2>3 DEF Found, MarkPoints
  <2>5. ~Missed' => Held'
    BY <1>0, <1>m, <1>1, <1>2, <2>1, <2>2, <2>3 DEF Held, MarkPoints
  <2> QED
    BY <1>0, <1>1, <2>2, <2>4, <2>5 DEF BalInv
<1> QED
    BY <1>5, <1>6, <1>7, <1>8 DEF ResumeStep

(* Every step keeps the invariant.                                          *)
LEMMA BalanceStep ==
    ASSUME LInv, Ending, NEW e \in Engine, Engine = {e}, MaxCancels = 0, BalInv(e), [Next]_vars
    PROVE  BalInv(e)'
<1>0. TypeOK /\ RowStep /\ PendingStep /\ (Terminal => Terminal') /\ e \in Thread
    BY StepsTheRow, StepEnding DEF LInv, IInv, Thread
<1>1. CASE UNCHANGED vars
    BY <1>1 DEF vars, clusterVars, BalInv, Found, Missed, Held, FirstTick, Untouched, Terminal
<1>2. CASE PauseStep(e)
    BY <1>2, PauseKeeps
<1>3. ASSUME NEW t \in Thread, ResumeStep(t) PROVE BalInv(e)'
  <2>1. pc[t] \in RelPoints
    BY <1>3 DEF ResumeStep, ReleaseDRS, ReleaseDRSMark, ReleaseCRS, ReleaseCRSMark, RelPoints
  <2>2. Terminal'
    BY <1>0, <2>1 DEF Ending
  <2> QED
    BY <1>0, <1>3, <2>2, ResumeKeeps
<1>4. CASE Next /\ ~PauseStep(e) /\ \A t \in Thread : ~ResumeStep(t)
  <2>1. FarRow /\ FarPc
    BY <1>0, <1>4, StepKinds, EngineFar, ReleaseFar, OutsideFar
  <2> QED
    BY <1>0, <1>4, <2>1, FarKeeps DEF PauseStep
<1> QED
    BY <1>1, <1>2, <1>3, <1>4

(* Nexara's balancer is as the job found it once the sweep has let go of    *)
(* the job, for any number of nodes, crashes, failed calls other than those *)
(* of disableDRSIfEnabled itself (which goes on when it could not record    *)
(* the pause) and requests other than a cancel (CancelJob racing the first  *)
(* tick loses the record), for jobs of clusters whose own rebalancer is     *)
(* off: that one is paused before it is recorded (pauseNativeCRSIfActive).  *)
THEOREM BalancersComeBack ==
    ASSUME NEW e, Engine = {e}, MaxCancels = 0, \A o \in Options : ~o.crs
    PROVE  Spec => []BalancersReleased
<1>0. e \in Engine
    OBVIOUS
<1>1. Init => LInv /\ Ending /\ BalInv(e)
  <2>1. Init => Flagged /\ Ending
    BY DEF Init, Flagged, NoRelease, Ending, RelPoints
  <2>2. Init => BalInv(e)
    <3> SUFFICES ASSUME Init PROVE BalInv(e)
      OBVIOUS
    <3>1. /\ opt \in Options /\ drsOn = opt.drs /\ crsOn = opt.crs /\ ~job.drs /\ ~job.crs
          /\ job.status = "pending" /\ pc[e] = "idle"
          /\ \A t \in Thread : pc[t] = "idle" /\ ~rel[t].drs /\ ~rel[t].crs
          /\ \A n \in Node : node[n].step = "pending"
      BY <1>0 DEF Init, Thread, NoRelease, NewRow
    <3> QED
      BY <3>1 DEF BalInv, Found, Held, FirstTick, Untouched
  <2> QED
    BY <2>1, <2>2, InitInv DEF LInv
<1>2. LInv /\ Ending /\ BalInv(e) /\ [Next]_vars => (LInv /\ Ending /\ BalInv(e))'
    BY <1>0, StepFlagged, StepEnding, BalanceStep
<1>3. LInv /\ BalInv(e) => BalancersReleased
  <2> SUFFICES ASSUME LInv, BalInv(e), Terminal, ~job.cleanup
               PROVE  (drsOn = opt.drs \/ Missed) /\ crsOn = opt.crs
    BY DEF BalancersReleased, Retired, Missed
  <2>1. {drsOn, crsOn, opt.drs, opt.crs} \subseteq BOOLEAN /\ ~opt.crs
    BY DEF LInv, IInv, TypeOK, OptionSet, BalInv
  <2>2. Missed \/ ~job.drs
    BY DEF BalInv, Held
  <2>3. (drsOn => opt.drs) /\ (opt.drs => drsOn \/ Missed) /\ ~crsOn
    BY <2>1, <2>2 DEF BalInv, Held, Found
  <2> QED
    BY <2>1, <2>3
<1> QED
    BY <1>1, <1>2, <1>3, PTL DEF Spec

-----------------------------------------------------------------------------
(* What the drain takes away, HA rules and passthrough guests, is given     *)
(* back before the job is let go.                                           *)

(* The passthrough guests that are shut down (a reboot takes down others).  *)
Down == Passthrough \ (up \cup killed)

(* A rule that is off is on record, in the row and in the copy of every     *)
(* release that has read it; the rules about to be disabled are, too.       *)
RulesHeld(e) ==
    /\ rulesOff \subseteq job.rules
    /\ \A t \in Thread : pc[t] \in RelPoints \ {"release"} => rulesOff \subseteq rel[t].rules
    /\ pc[e] = "ruleOff" => eng[e].rules \subseteq job.rules
    /\ Terminal /\ ~job.cleanup => rulesOff = {}

(* A guest that is down is on record with the node it stays on.             *)
GuestsHeld ==
    /\ \A g \in Passthrough : at[g] \in Node
    /\ \A g \in Down : g \in node[at[g]].stopped
    /\ Terminal /\ ~job.cleanup => Down = {}

(* It is in the copy a release has of a node it is not done with, and among *)
(* those the release leaves on record.                                      *)
Listed(t) ==
    /\ pc[t] \in RelPoints \ {"release", "relNodes"} =>
            \A g \in Down : rel[t].stopped[at[g]] # {} => g \in rel[t].stopped[at[g]]
    /\ pc[t] = "relGuestsMark" => \A g \in Down : at[g] = HeldNode(t) => g \in rel[t].keep

(* It is in the copy of the tick, which writes the record from it; what the *)
(* tick shuts down is on record, and what it moves back was not shut down.  *)
Copied(e) ==
    /\ pc[e] = "ptStop" =>
            \A g \in eng[e].g :
                g \in Passthrough /\ at[g] = eng[e].n /\ g \in node[at[g]].stopped
    /\ Phase(e) = "advance" =>
            \A m \in eng[e].todo, g \in Down : at[g] = m => g \in eng[e].rows[m].stopped
    /\ pc[e] = "restart" =>
            \A g \in Down : at[g] = eng[e].n => g \in eng[e].rows[eng[e].n].stopped
    /\ pc[e] \in RestorePoints => eng[e].left \cap Passthrough = {}

HoldInv(e) == RulesHeld(e) /\ GuestsHeld /\ (\A t \in Thread : Listed(t)) /\ Copied(e)

(* No tick takes anything away once the job has ended: what the invariant   *)
(* rests on, and what two nodes, or a cancel, can break.                    *)
Calm(e) == Terminal => pc[e] \notin {"ruleOff", "ptStop"}

(* What a step leaves alone that neither takes nor gives back.              *)
NotRetired == Terminal' /\ ~job'.cleanup => Terminal /\ ~job.cleanup

NoneBegun ==
    \A t \in Thread :
        pc'[t] \in RelPoints \ {"release"} => pc'[t] = pc[t] /\ rel'[t] = rel[t]

RulesFrame(e) ==
    /\ rulesOff' \subseteq rulesOff /\ job.rules \subseteq job'.rules
    /\ pc'[e] = "ruleOff" => pc[e] = "ruleOff" /\ eng'[e].rules = eng[e].rules

StoppedKept == \A m \in Node : node[m].stopped \subseteq node'[m].stopped
GuestsStay  == Down' \subseteq Down /\ \A g \in Passthrough : at'[g] = at[g]

CopiesKept(e) ==
    /\ Phase(e)' = "advance" =>
            /\ Phase(e) = "advance"
            /\ eng'[e].rows = eng[e].rows /\ eng'[e].todo \subseteq eng[e].todo
    /\ pc'[e] \in {"ptStop", "restart"} => pc'[e] = pc[e] /\ eng'[e] = eng[e]
    /\ pc'[e] = "restore" => pc[e] \in RestorePoints /\ eng'[e].left \subseteq eng[e].left

(* Such a step keeps what is known of the rules, ...                        *)
LEMMA RulesFramed ==
    ASSUME NEW e, RulesHeld(e), RulesFrame(e), NotRetired, NoneBegun
    PROVE  RulesHeld(e)'
BY DEF RulesHeld, RulesFrame, NotRetired, NoneBegun

(* ... and of the guests, ...                                               *)
LEMMA GuestsFramed ==
    ASSUME GuestsHeld, \A t \in Thread : Listed(t), StoppedKept, GuestsStay, NotRetired, NoneBegun
    PROVE  GuestsHeld' /\ \A t \in Thread : Listed(t)'
<1>1. Down \subseteq Passthrough /\ Down' \subseteq Passthrough
    BY DEF Down
<1>2. GuestsHeld'
    BY <1>1 DEF GuestsHeld, StoppedKept, GuestsStay, NotRetired
<1>3. ASSUME NEW t \in Thread PROVE Listed(t)'
  <2>1. rel'[t] = rel[t] => HeldNode(t)' = HeldNode(t)
    BY DEF HeldNode
  <2>2. /\ RelPoints \ {"release", "relNodes"} \subseteq RelPoints \ {"release"}
        /\ "relGuestsMark" \in RelPoints \ {"release"}
    BY DEF RelPoints
  <2> QED
    BY <1>1, <1>3, <2>1, <2>2 DEF Listed, NoneBegun, GuestsStay
<1> QED
    BY <1>2, <1>3

(* ... and of the copies of the tick.                                       *)
LEMMA CopiedFramed ==
    ASSUME NEW e, GuestsHeld, Copied(e), StoppedKept \/ pc'[e] # "ptStop", GuestsStay,
           CopiesKept(e)
    PROVE  Copied(e)'
<1>1. Down \subseteq Passthrough /\ Down' \subseteq Passthrough
    BY DEF Down
<1> QED
    BY <1>1 DEF Copied, CopiesKept, GuestsStay, StoppedKept, GuestsHeld, RestorePoints

(* Only the lists change the record of what was shut down.                  *)
LEMMA RowsStopped ==
    ASSUME NEW r \in NodeRow, NEW s, NEW S
    PROVE  /\ Touched(r).stopped = r.stopped /\ Moved(r, s).stopped = r.stopped
           /\ Launched(r).stopped = r.stopped
           /\ [Touched(r) EXCEPT !.guests = S].stopped = r.stopped
           /\ [Moved(r, s) EXCEPT !.owed = TRUE].stopped = r.stopped
           /\ [r EXCEPT !.stale = TRUE].stopped = r.stopped
           /\ [r EXCEPT !.late = TRUE].stopped = r.stopped
BY DEF Touched, Moved, Launched, NodeRow

(* A table with one row written whose record is the same or longer.         *)
LEMMA WrittenKept ==
    ASSUME node \in [Node -> NodeRow], NEW n, NEW r, node' = [node EXCEPT ![n] = r],
           n \in Node => node[n].stopped \subseteq r.stopped
    PROVE  StoppedKept
BY DEF StoppedKept

(* failNode writes a step.                                                  *)
LEMMA FailNodeKept ==
    ASSUME TypeOK, NEW rows \in [Node -> NodeRow], NEW t \in Thread, NEW n, NEW back \in Backs,
           FailNodeIn(rows, t, n, back), \A m \in Node : node[m].stopped \subseteq rows[m].stopped
    PROVE  /\ StoppedKept /\ NoneBegun
           /\ \A u \in Thread \ {t} : pc'[u] = pc[u] /\ rel'[u] = rel[u]
           /\ pc'[t] = back \/ (pc'[t] = "failJob" /\ rel'[t].back = back)
<1>0. /\ Backs \cap RelPoints = {} /\ "failJob" \notin RelPoints
      /\ pc \in [Thread -> Points] /\ rel \in [Thread -> ReleaseLocals]
    BY BacksNoRelease DEF TypeOK
<1>1. CASE rows[n].step \in FinalSteps
  <2>1. node' = rows /\ pc' = [pc EXCEPT ![t] = back] /\ rel' = rel
    BY <1>1 DEF FailNodeIn, Goto
  <2> QED
    BY <1>0, <2>1 DEF StoppedKept, NoneBegun
<1>2. CASE rows[n].step \notin FinalSteps
  <2>1. /\ node' = [rows EXCEPT ![n] = Moved(rows[n], "failed")]
        /\ pc' = [pc EXCEPT ![t] = "failJob"] /\ rel' = [rel EXCEPT ![t].back = back]
    BY <1>2 DEF FailNodeIn, Goto
  <2>2. \A m \in Node : node'[m].stopped = rows[m].stopped
    <3>1. ASSUME NEW m \in Node PROVE Moved(rows[m], "failed").stopped = rows[m].stopped
      BY RowsStopped
    <3> QED
      BY <2>1, <3>1
  <2>3. rel'[t].back = back /\ \A u \in Thread \ {t} : rel'[u] = rel[u]
    BY <1>0, <2>1 DEF ReleaseLocals
  <2> QED
    BY <1>0, <2>1, <2>2, <2>3 DEF StoppedKept, NoneBegun
<1> QED
    BY <1>1, <1>2

(* A thread that goes elsewhere begins no release.                          *)
LEMMA GotoNone ==
    ASSUME TypeOK, NEW t \in Thread, NEW p, p \notin RelPoints \ {"release"},
           pc' = [pc EXCEPT ![t] = p], \A u \in Thread \ {t} : rel'[u] = rel[u]
    PROVE  NoneBegun /\ pc'[t] = p
BY DEF NoneBegun, TypeOK

(* What a tick may write to the job adds rules, and lets go of nothing.     *)
LEMMA JobFrame ==
    ASSUME job \in JobRow,
           \/ job' = job \/ \E rules : job' = WithRules(rules)
           \/ job' = Ended("completed") \/ job' = [job EXCEPT !.due = FALSE]
           \/ job' = [job EXCEPT !.drs = TRUE, !.due = FALSE]
           \/ job' = [job EXCEPT !.crs = TRUE, !.due = FALSE]
    PROVE  job.rules \subseteq job'.rules /\ NotRetired
BY DEF NotRetired, WithRules, Ended, JobRow, Terminal

(* Steps of the tick that take nothing away and give nothing back.          *)
TakeStep(e) ==
    \/ StartCheck(e) \/ DisableRules(e) \/ ListNodes(e) \/ RestartGuests(e)
    \/ RecordStopped(e) \/ StopPassthrough(e)
    \/ \E n \in Node : AdvanceHealthCheck(e, n)

(* advanceNode.                                                             *)
LEMMA AdvanceFrame ==
    ASSUME NEW e \in Engine, TypeOK, TickInv(e), NEW n \in Node,
           \/ AdvanceRefused(e, n) \/ AdvanceWaits(e, n) \/ AdvanceTimedOut(e, n)
           \/ AdvanceDraining(e, n) \/ AdvanceUpgrading(e, n) \/ AdvanceRebooted(e, n)
           \/ AdvanceRestoreTimedOut(e, n)
    PROVE  /\ NotRetired /\ NoneBegun /\ RulesFrame(e)
           /\ StoppedKept /\ GuestsStay /\ CopiesKept(e)
<1> USE DEF clusterVars
<1>0. /\ node \in [Node -> NodeRow] /\ node[n] \in NodeRow /\ pc \in [Thread -> Points]
      /\ e \in Thread /\ n \in Thread /\ n # e /\ "advance" \in Backs
      /\ Node \subseteq Thread \ {e}
    BY ThreadAssumption DEF TypeOK, Thread, Backs
<1>1. /\ job' = job /\ rulesOff' = rulesOff /\ at' = at /\ up' = up /\ killed' = killed
    BY DEF AdvanceRefused, AdvanceWaits, AdvanceTimedOut, AdvanceDraining, AdvanceUpgrading,
           AdvanceRebooted, AdvanceRestoreTimedOut
<1>2. eng' = Off(e, n) \/ \E left, back : eng' = WorkOn(e, n, left, back)
    BY DEF AdvanceRefused, AdvanceWaits, AdvanceTimedOut, AdvanceDraining, AdvanceUpgrading,
           AdvanceRebooted, AdvanceRestoreTimedOut
<1>3. PICK S : Advances(e, n, S)
    BY Zenon DEF AdvanceRefused, AdvanceWaits, AdvanceTimedOut, AdvanceDraining, AdvanceUpgrading,
           AdvanceRebooted, AdvanceRestoreTimedOut
<1>4. pc[e] = "advance" /\ Phase(e) = "advance"
    BY <1>3, AdvancesFacts
<1>5. eng'[e].rows = eng[e].rows /\ eng'[e].todo \subseteq eng[e].todo
    BY <1>2, OffRows
<1>6. \/ node' = node /\ pc' = pc /\ rel' = rel
      \/ /\ node' \in {node, [node EXCEPT ![n] = Touched(node[n])]} /\ rel' = rel
         /\ Goto(e, "verify") \/ Goto(e, "drain")
      \/ \E s : SetStep(n, s) /\ pc' = pc /\ rel' = rel
      \/ /\ node' = [node EXCEPT ![n] = Launched(node[n])] /\ rel' = rel
         /\ pc' = [pc EXCEPT ![n] = IF pc[n] = "idle" THEN "apt" ELSE pc[n]]
      \/ FailNodeIn(node, e, n, "advance")
      \/ FailNodeIn([node EXCEPT ![n] = Touched(node[n])], e, n, "advance")
  <2>1. CASE AdvanceRefused(e, n) \/ AdvanceWaits(e, n) \/ AdvanceTimedOut(e, n)
             \/ AdvanceUpgrading(e, n) \/ AdvanceRebooted(e, n) \/ AdvanceRestoreTimedOut(e, n)
    BY <2>1, Zenon DEF AdvanceRefused, AdvanceWaits, AdvanceTimedOut, AdvanceUpgrading,
                AdvanceRebooted, AdvanceRestoreTimedOut, FailNode
  <2>2. CASE AdvanceDraining(e, n)
    BY <2>2, Zenon DEF AdvanceDraining
  <2> QED
    BY <2>1, <2>2
<1>7. StoppedKept /\ NoneBegun /\ pc'[e] \notin {"ruleOff", "ptStop", "restart", "restore"}
  <2>1. CASE node' = node /\ pc' = pc /\ rel' = rel
    BY <1>4, <2>1 DEF StoppedKept, NoneBegun
  <2>2. CASE /\ node' \in {node, [node EXCEPT ![n] = Touched(node[n])]} /\ rel' = rel
             /\ Goto(e, "verify") \/ Goto(e, "drain")
    <3>1. StoppedKept
      <4>1. CASE node' = node
        BY <4>1 DEF StoppedKept
      <4> QED
        BY <1>0, <2>2, <4>1, RowsStopped, WrittenKept
    <3>2. PICK p \in {"verify", "drain"} : pc' = [pc EXCEPT ![e] = p]
      BY <2>2 DEF Goto
    <3>3. p \notin RelPoints \ {"release"}
      BY DEF RelPoints
    <3> QED
      BY <1>0, <2>2, <3>1, <3>2, <3>3, GotoNone
  <2>3. ASSUME NEW s, SetStep(n, s), pc' = pc, rel' = rel
        PROVE  StoppedKept /\ NoneBegun /\ pc'[e] \notin {"ruleOff", "ptStop", "restart", "restore"}
    BY <1>0, <1>4, <2>3, RowsStopped, WrittenKept DEF SetStep, NoneBegun
  <2>4. CASE /\ node' = [node EXCEPT ![n] = Launched(node[n])] /\ rel' = rel
             /\ pc' = [pc EXCEPT ![n] = IF pc[n] = "idle" THEN "apt" ELSE pc[n]]
    <3>1. StoppedKept
      BY <1>0, <2>4, RowsStopped, WrittenKept
    <3>2. pc'[e] = pc[e] /\ NoneBegun
      BY <1>0, <2>4 DEF NoneBegun, RelPoints
    <3> QED
      BY <1>4, <3>1, <3>2
  <2>5. ASSUME NEW rows \in [Node -> NodeRow], FailNodeIn(rows, e, n, "advance"),
               \A m \in Node : node[m].stopped \subseteq rows[m].stopped
        PROVE  StoppedKept /\ NoneBegun /\ pc'[e] \notin {"ruleOff", "ptStop", "restart", "restore"}
    BY <1>0, <2>5, FailNodeKept
  <2>6. /\ [node EXCEPT ![n] = Touched(node[n])] \in [Node -> NodeRow]
        /\ \A m \in Node : node[m].stopped \subseteq [node EXCEPT ![n] = Touched(node[n])][m].stopped
    <3>1. Touched(node[n]) \in NodeRow /\ Touched(node[n]).stopped = node[n].stopped
      BY <1>0, RowsStopped, MovedIsRow DEF Touched, NodeRow
    <3> QED
      BY <1>0, <3>1
  <2> QED
    BY <1>0, <1>6, <2>1, <2>2, <2>3, <2>4, <2>5, <2>6
<1>8. GuestsStay /\ NotRetired
    BY <1>1 DEF GuestsStay, Down, NotRetired, Terminal
<1> QED
    BY <1>1, <1>4, <1>5, <1>7, <1>8 DEF RulesFrame, CopiesKept

(* The steps of a tick that touch neither nodes nor guests.                 *)
LEMMA PlainFrame ==
    ASSUME NEW e \in Engine, TypeOK,
           \/ Tick(e) \/ DisableDRS(e) \/ DisableDRSOff(e) \/ CreateClient(e) \/ PauseCRS(e)
           \/ RecordCRS(e) \/ FailCheck(e) \/ StartNext(e) \/ FinishJob(e) \/ Sweep(e)
           \/ CheckAfterRules(e) \/ RerecordRules(e)
    PROVE  /\ NotRetired /\ NoneBegun /\ RulesFrame(e)
           /\ StoppedKept /\ GuestsStay /\ CopiesKept(e)
<1> USE DEF clusterVars
<1> DEFINE Plain == {"drs", "drsOff", "client", "crs", "crsMark", "nodes", "start", "begin", "done",
                     "sweep", "idle", "ruleChk", "drainStart"}
<1>0. /\ job \in JobRow /\ pc \in [Thread -> Points] /\ rel \in [Thread -> ReleaseLocals]
      /\ e \in Thread
    BY DEF TypeOK, Thread
<1>1. node' = node /\ rulesOff' = rulesOff /\ at' = at /\ up' = up /\ killed' = killed
    BY DEF Tick, DisableDRS, DisableDRSOff, CreateClient, PauseCRS, RecordCRS, FailCheck, StartNext,
           FinishJob, Sweep, CheckAfterRules, RerecordRules
<1>2. /\ \/ \E p \in Plain : pc' = [pc EXCEPT ![e] = p]
         \/ pc' = [pc EXCEPT ![e] = "failJob"]
         \/ pc' = [pc EXCEPT ![e] = "release"]
      /\ pc' \in {[pc EXCEPT ![e] = "failJob"], [pc EXCEPT ![e] = "release"]} =>
            \E b \in {"sweep", "done", "idle"} : rel' = [rel EXCEPT ![e].back = b]
      /\ rel' = rel \/ \E b \in {"sweep", "done", "idle"} : rel' = [rel EXCEPT ![e].back = b]
  <2>1. CASE Tick(e) \/ DisableDRS(e) \/ DisableDRSOff(e) \/ CreateClient(e) \/ PauseCRS(e)
             \/ RecordCRS(e) \/ StartNext(e) \/ RerecordRules(e)
    <3>1. rel' = rel /\ \E p \in Plain : pc' = [pc EXCEPT ![e] = p]
      BY <2>1 DEF Tick, DisableDRS, DisableDRSOff, CreateClient, PauseCRS, RecordCRS, StartNext,
           RerecordRules, Goto
    <3>2. pc'[e] \in Plain
      BY <1>0, <3>1
    <3>3. pc' \notin {[pc EXCEPT ![e] = "failJob"], [pc EXCEPT ![e] = "release"]}
      BY <1>0, <3>2
    <3> QED
      BY <3>1, <3>3
  <2>2. CASE FailCheck(e) \/ CheckAfterRules(e) \/ FinishJob(e) \/ Sweep(e)
    <3>1. \/ rel' = rel /\ \E p \in Plain : pc' = [pc EXCEPT ![e] = p]
          \/ /\ pc' \in {[pc EXCEPT ![e] = "failJob"], [pc EXCEPT ![e] = "release"]}
             /\ \E b \in {"sweep", "done", "idle"} : rel' = [rel EXCEPT ![e].back = b]
      <4>1. CASE FailCheck(e)
        BY <4>1 DEF FailCheck, Goto
      <4>2. CASE CheckAfterRules(e)
        BY <4>2, Zenon DEF CheckAfterRules, Goto
      <4>3. CASE FinishJob(e)
        BY <4>3, Zenon DEF FinishJob, Goto
      <4>4. CASE Sweep(e)
        BY <4>4, Zenon DEF Sweep, Goto
      <4> QED
        BY <2>2, <4>1, <4>2, <4>3, <4>4
    <3>2. (\E p \in Plain : pc' = [pc EXCEPT ![e] = p]) => pc'[e] \in Plain
      BY <1>0
    <3>3. (\E p \in Plain : pc' = [pc EXCEPT ![e] = p]) =>
            pc' \notin {[pc EXCEPT ![e] = "failJob"], [pc EXCEPT ![e] = "release"]}
      BY <1>0, <3>2
    <3> QED
      BY <3>1, <3>3
  <2> QED
    BY <2>1, <2>2
<1>3. \A u \in Thread \ {e} : rel'[u] = rel[u]
    BY <1>0, <1>2
<1>4. /\ pc'[e] \in Plain \cup {"failJob", "release"}
      /\ pc'[e] \in {"failJob", "release"} => rel'[e].back \in {"sweep", "done", "idle"}
    BY <1>0, <1>2 DEF ReleaseLocals
<1>5. NoneBegun
  <2>1. PICK p \in Plain \cup {"failJob", "release"} : pc' = [pc EXCEPT ![e] = p]
    BY <1>2
  <2>2. p \notin RelPoints \ {"release"}
    BY DEF RelPoints
  <2> QED
    BY <1>0, <1>3, <2>1, <2>2, GotoNone
<1>6. Phase(e)' # "advance"
    BY <1>4 DEF Phase, RelPoints, RestorePoints, DrainPoints
<1>7. \/ job' = job \/ \E rules : job' = WithRules(rules)
      \/ job' = Ended("completed") \/ job' = [job EXCEPT !.due = FALSE]
      \/ job' = [job EXCEPT !.drs = TRUE, !.due = FALSE]
      \/ job' = [job EXCEPT !.crs = TRUE, !.due = FALSE]
  <2>1. CASE FinishJob(e)
    BY <2>1, Zenon DEF FinishJob
  <2>2. CASE Sweep(e)
    BY <2>2, Zenon DEF Sweep
  <2>3. CASE ~FinishJob(e) /\ ~Sweep(e)
    BY <2>3 DEF Tick, DisableDRS, DisableDRSOff, CreateClient, PauseCRS, RecordCRS, FailCheck,
           StartNext, CheckAfterRules, RerecordRules
  <2> QED
    BY <2>1, <2>2, <2>3
<1>8. job.rules \subseteq job'.rules /\ NotRetired
    BY <1>0, <1>7, JobFrame
<1>9. StoppedKept /\ GuestsStay
    BY <1>1 DEF StoppedKept, GuestsStay, Down
<1> QED
    BY <1>1, <1>4, <1>5, <1>6, <1>8, <1>9 DEF RulesFrame, CopiesKept

(* startNode but for the rules.                                             *)
LEMMA StartFrame ==
    ASSUME NEW e \in Engine, TypeOK, TickInv(e), StartNode(e) \/ StartCheck(e) \/ DrainStart(e)
    PROVE  /\ NoneBegun /\ StoppedKept /\ GuestsStay /\ CopiesKept(e)
           /\ ~StartCheck(e) => NotRetired /\ RulesFrame(e)
<1> USE DEF clusterVars
<1> DEFINE n == eng[e].n
           rows1 == [node EXCEPT ![n] = [Touched(node[n]) EXCEPT !.guests = eng[e].left]]
           rows2 == [node EXCEPT ![n] = Moved(node[n], "draining")]
           Next1 == {"done", "check", "drainStart", "ruleOff", "verify", "drain"}
<1>0. /\ node \in [Node -> NodeRow] /\ pc \in [Thread -> Points] /\ e \in Thread
      /\ eng \in [Engine -> EngineLocals] /\ eng[e] \in EngineLocals
      /\ eng[e].left \in SUBSET Guest
    BY DEF TypeOK, Thread, EngineLocals
<1>1. n \in Node /\ eng[e].back = "done" /\ node[n] \in NodeRow
  <2>1. pc[e] \in ChoosePoints
    BY DEF StartNode, StartCheck, DrainStart, ChoosePoints
  <2> QED
    BY <1>0, <2>1 DEF TickInv, Copies
<1>2. rulesOff' = rulesOff /\ at' = at /\ up' = up /\ killed' = killed
    BY DEF StartNode, StartCheck, DrainStart
<1>3. ~StartCheck(e) => job' = job
    BY DEF StartNode, DrainStart
<1>4. eng'[e].back = "done"
  <2>1. \/ eng' = eng \/ (\E S : eng' = [eng EXCEPT ![e].left = S])
        \/ \E S : eng' = [eng EXCEPT ![e].rules = S]
    <3>1. CASE StartNode(e)
      BY <3>1, Zenon DEF StartNode
    <3>2. CASE StartCheck(e)
      BY <3>2, Zenon DEF StartCheck
    <3>3. CASE DrainStart(e)
      BY <3>3, Zenon DEF DrainStart
    <3> QED
      BY <3>1, <3>2, <3>3
  <2> QED
    BY <1>0, <1>1, <2>1 DEF EngineLocals
<1>5. \/ /\ (\E p \in Next1 : Goto(e, p)) /\ rel' = rel
         /\ node' = node \/ node' = rows1 \/ node' = rows2 \/ \E s : SetStep(n, s)
      \/ FailNodeIn(node, e, n, "done")
      \/ FailNodeIn(rows1, e, n, "done")
      \/ FailNodeIn(rows2, e, n, "done")
  <2>1. CASE StartNode(e)
    BY <2>1, Zenon DEF StartNode, FailNode
  <2>2. CASE StartCheck(e)
    <3>1. \/ node' = node /\ rel' = rel /\ Goto(e, "done")
          \/ node' = rows1 /\ rel' = rel /\ (Goto(e, "drainStart") \/ Goto(e, "ruleOff"))
          \/ FailNodeIn(rows1, e, n, "done")
      BY <2>2, Zenon DEF StartCheck
    <3> QED
      BY <3>1
  <2>3. CASE DrainStart(e)
    BY <2>3, Zenon DEF DrainStart
  <2> QED
    BY <2>1, <2>2, <2>3
<1>6. /\ rows1 \in [Node -> NodeRow] /\ rows2 \in [Node -> NodeRow]
      /\ \A m \in Node : node[m].stopped = rows1[m].stopped /\ node[m].stopped = rows2[m].stopped
  <2>1. /\ [Touched(node[n]) EXCEPT !.guests = eng[e].left] \in NodeRow
        /\ Moved(node[n], "draining") \in NodeRow
        /\ [Touched(node[n]) EXCEPT !.guests = eng[e].left].stopped = node[n].stopped
        /\ Moved(node[n], "draining").stopped = node[n].stopped
    <3>1. "draining" \in Steps
      BY DEF Steps, ActiveSteps, Advancing
    <3> QED
      BY <1>0, <1>1, <3>1, RowUpdates, MovedIsRow, RowsStopped
  <2> QED
    BY <1>0, <1>1, <2>1
<1>7. "done" \in Backs /\ "done" \notin {"advance", "ptStop", "restart", "restore", "ruleOff"}
    BY DEF Backs
<1> HIDE DEF n, rows1, rows2
<1>8. CASE /\ (\E p \in Next1 : Goto(e, p)) /\ rel' = rel
           /\ node' = node \/ node' = rows1 \/ node' = rows2 \/ \E s : SetStep(n, s)
  <2>1. StoppedKept
    <3>1. ASSUME NEW s, SetStep(n, s) PROVE StoppedKept
      BY <1>0, <1>1, <3>1, RowsStopped, WrittenKept DEF SetStep
    <3>2. CASE node' = node \/ node' = rows1 \/ node' = rows2
      BY <1>6, <3>2 DEF StoppedKept
    <3> QED
      BY <1>8, <3>1, <3>2
  <2>2. PICK p \in Next1 : pc' = [pc EXCEPT ![e] = p]
    BY <1>8 DEF Goto
  <2>3. p \notin RelPoints
    BY DEF RelPoints
  <2>4. NoneBegun /\ pc'[e] = p
    BY <1>0, <1>8, <2>2, <2>3, GotoNone
  <2>5. Phase(e)' # "advance"
    BY <1>4, <2>3, <2>4 DEF Phase, RestorePoints
  <2>6. ~StartCheck(e) => p # "ruleOff"
    <3>1. ~StartCheck(e) => \/ \E q \in Next1 \ {"ruleOff"} : Goto(e, q)
                            \/ \E rows : FailNodeIn(rows, e, n, "done")
      <4>1. CASE StartNode(e)
        BY <4>1, Zenon DEF StartNode, FailNode, n
      <4>2. CASE DrainStart(e)
        BY <4>2, Zenon DEF DrainStart, n
      <4> QED
        BY <4>1, <4>2
    <3>2. (\E rows : FailNodeIn(rows, e, n, "done")) => pc'[e] \in {"done", "failJob"}
      BY <1>0 DEF FailNodeIn, Goto
    <3>3. (\E q \in Next1 \ {"ruleOff"} : Goto(e, q)) => pc'[e] # "ruleOff"
      BY <1>0 DEF Goto
    <3> QED
      BY <2>4, <3>1, <3>2, <3>3
  <2>7. pc'[e] \notin {"ptStop", "restart", "restore"}
    BY <2>4
  <2> QED
    BY <1>2, <1>3, <2>1, <2>4, <2>5, <2>6, <2>7
       DEF GuestsStay, Down, CopiesKept, NotRetired, RulesFrame, Terminal
<1>9. ASSUME NEW rows \in [Node -> NodeRow], FailNodeIn(rows, e, n, "done"),
             \A m \in Node : node[m].stopped = rows[m].stopped
      PROVE  /\ NoneBegun /\ StoppedKept /\ GuestsStay /\ CopiesKept(e)
             /\ ~StartCheck(e) => NotRetired /\ RulesFrame(e)
  <2>1. /\ StoppedKept /\ NoneBegun
        /\ pc'[e] = "done" \/ (pc'[e] = "failJob" /\ rel'[e].back = "done")
    BY <1>0, <1>7, <1>9, FailNodeKept
  <2>2. Phase(e)' # "advance"
    BY <2>1 DEF Phase, RestorePoints, RelPoints, DrainPoints
  <2> QED
    BY <1>2, <1>3, <2>1, <2>2
       DEF GuestsStay, Down, CopiesKept, NotRetired, RulesFrame, Terminal
<1> QED
    BY <1>0, <1>5, <1>6, <1>8, <1>9

(* A guest that can be migrated is none of those that are shut down.        *)
LEMMA OthersMove ==
    ASSUME at \in [Guest -> Host], up' = up, killed' = killed,
           at' = at \/ \E g, h : g \notin Passthrough /\ at' = [at EXCEPT ![g] = h]
    PROVE  GuestsStay
<1>1. Passthrough \subseteq Guest
    BY GuestAssumption
<1> QED
    BY <1>1 DEF GuestsStay, Down

(* The drain loop, but for the shutdown of a guest.                         *)
LEMMA DrainFrame ==
    ASSUME NEW e \in Engine, TypeOK, TickInv(e), DrainCheck(e) \/ DrainGuest(e) \/ VerifyDrained(e)
    PROVE  /\ NotRetired /\ NoneBegun /\ RulesFrame(e)
           /\ StoppedKept /\ GuestsStay /\ CopiesKept(e)
<1> USE DEF clusterVars
<1> DEFINE n == eng[e].n
           Next1 == {"verify", "guest", "drain", eng[e].back}
<1>0. /\ node \in [Node -> NodeRow] /\ pc \in [Thread -> Points] /\ e \in Thread
      /\ eng \in [Engine -> EngineLocals] /\ eng[e] \in EngineLocals /\ at \in [Guest -> Host]
    BY DEF TypeOK, Thread, EngineLocals
<1>1. pc[e] \in DrainPoints
    BY DEF DrainCheck, DrainGuest, VerifyDrained, DrainPoints
<1>2. n \in Node /\ eng[e].back \in {"advance", "done"} /\ node[n] \in NodeRow
    BY <1>0, <1>1 DEF TickInv, Copies
<1>3. Phase(e) = eng[e].back
    BY <1>1 DEF Phase, RelPoints, RestorePoints, DrainPoints
<1>4. rulesOff' = rulesOff /\ up' = up /\ killed' = killed /\ job' = job
    BY DEF DrainCheck, DrainGuest, VerifyDrained
<1>5. at' = at \/ \E g \in Guest \ Passthrough, h \in Host : at' = [at EXCEPT ![g] = h]
  <2>1. CASE DrainGuest(e)
    <3>1. at' = at \/ \E g \in eng[e].left, h \in Targets(n) :
                            g \notin Passthrough /\ at' = [at EXCEPT ![g] = h]
      BY <2>1 DEF DrainGuest
    <3>2. eng[e].left \subseteq Guest /\ Targets(n) \subseteq Host
      BY <1>0 DEF EngineLocals, Targets
    <3> QED
      BY <3>1, <3>2
  <2> QED
    BY <2>1 DEF DrainCheck, VerifyDrained
<1>6. eng'[e].back = eng[e].back /\ eng'[e].rows = eng[e].rows /\ eng'[e].todo = eng[e].todo
  <2>1. eng' = eng \/ \E S : eng' = [eng EXCEPT ![e].left = S]
    BY Zenon DEF DrainCheck, DrainGuest, VerifyDrained
  <2> QED
    BY <1>0, <2>1 DEF EngineLocals
<1>7. \/ /\ (\E p \in Next1 : Goto(e, p)) /\ rel' = rel
         /\ node' = node \/ \E s : SetStep(n, s)
      \/ FailNodeIn(node, e, n, eng[e].back)
    BY Zenon DEF DrainCheck, DrainGuest, VerifyDrained, FailNode
<1>8. GuestsStay
    BY <1>0, <1>4, <1>5, OthersMove
<1>9. NotRetired
    BY <1>4 DEF NotRetired, Terminal
<1> HIDE DEF n
<1>10. CASE /\ (\E p \in Next1 : Goto(e, p)) /\ rel' = rel
            /\ node' = node \/ \E s : SetStep(n, s)
  <2>1. StoppedKept
    <3>1. ASSUME NEW s, SetStep(n, s) PROVE StoppedKept
      BY <1>0, <1>2, <3>1, RowsStopped, WrittenKept DEF SetStep
    <3> QED
      BY <1>10, <3>1 DEF StoppedKept
  <2>2. PICK p \in Next1 : pc' = [pc EXCEPT ![e] = p]
    BY <1>10 DEF Goto
  <2>3. p \notin RelPoints /\ p \notin {"ruleOff", "ptStop", "restart", "restore"}
    BY <1>2 DEF RelPoints
  <2>4. NoneBegun /\ pc'[e] = p
    BY <1>0, <1>10, <2>2, <2>3, GotoNone
  <2>5. Phase(e)' = Phase(e)
    BY <1>2, <1>3, <1>6, <2>4 DEF Phase, RestorePoints, RelPoints, DrainPoints
  <2> QED
    BY <1>4, <1>6, <1>8, <1>9, <2>1, <2>3, <2>4, <2>5 DEF RulesFrame, CopiesKept
<1>11. CASE FailNodeIn(node, e, n, eng[e].back)
  <2>1. "advance" \in Backs /\ "done" \in Backs
    BY DEF Backs
  <2>2. /\ StoppedKept /\ NoneBegun
        /\ pc'[e] = eng[e].back \/ (pc'[e] = "failJob" /\ rel'[e].back = eng[e].back)
    BY <1>0, <1>2, <1>11, <2>1, FailNodeKept
  <2>3. Phase(e)' = Phase(e)
    BY <1>2, <1>3, <2>2 DEF Phase, RestorePoints, RelPoints, DrainPoints
  <2> QED
    BY <1>2, <1>4, <1>6, <1>8, <1>9, <2>2, <2>3 DEF RulesFrame, CopiesKept
<1> QED
    BY <1>7, <1>10, <1>11

(* Guests are moved back, and the node is done.                             *)
LEMMA RestoreFrame ==
    ASSUME NEW e \in Engine, TypeOK, TickInv(e), Copied(e), RestoreGuest(e) \/ RestoreDone(e)
    PROVE  /\ NotRetired /\ NoneBegun /\ RulesFrame(e)
           /\ StoppedKept /\ GuestsStay /\ CopiesKept(e)
<1> USE DEF clusterVars
<1>0. /\ node \in [Node -> NodeRow] /\ pc \in [Thread -> Points] /\ e \in Thread
      /\ eng \in [Engine -> EngineLocals] /\ eng[e] \in EngineLocals /\ at \in [Guest -> Host]
    BY DEF TypeOK, Thread, EngineLocals
<1>1. pc[e] = "restore" /\ Phase(e) = "advance" /\ eng[e].left \cap Passthrough = {}
      /\ eng[e].n \in Node
  <2>1. pc[e] = "restore"
    BY DEF RestoreGuest, RestoreDone
  <2> QED
    BY <2>1 DEF Phase, RelPoints, RestorePoints, Copied, TickInv, Copies
<1>2. rulesOff' = rulesOff /\ up' = up /\ killed' = killed /\ job' = job /\ rel' = rel
    BY DEF RestoreGuest, RestoreDone
<1>3. NotRetired
    BY <1>2 DEF NotRetired, Terminal
<1>4. CASE RestoreGuest(e)
  <2>1. PICK g \in eng[e].left : /\ at' = [at EXCEPT ![g] = eng[e].n] \/ at' = at
                                 /\ eng' = [eng EXCEPT ![e].left = eng[e].left \ {g}]
    BY <1>4 DEF RestoreGuest
  <2>2. pc' = pc /\ node' = node
    BY <1>4 DEF RestoreGuest
  <2>3. /\ eng'[e].rows = eng[e].rows /\ eng'[e].todo = eng[e].todo
        /\ eng'[e].left \subseteq eng[e].left
    BY <1>0, <2>1 DEF EngineLocals
  <2>4. GuestsStay
    BY <1>0, <1>1, <1>2, <2>1, OthersMove
  <2> QED
    BY <1>1, <1>2, <1>3, <2>2, <2>3, <2>4
       DEF NoneBegun, RulesFrame, StoppedKept, CopiesKept, RestorePoints
<1>5. CASE RestoreDone(e)
  <2>1. eng' = eng /\ at' = at /\ SetStep(eng[e].n, "completed") /\ pc' = [pc EXCEPT ![e] = "advance"]
    BY <1>5 DEF RestoreDone, Goto
  <2>2. StoppedKept
    BY <1>0, <1>1, <2>1, RowsStopped, WrittenKept DEF SetStep
  <2>3. NoneBegun /\ pc'[e] = "advance"
    BY <1>0, <1>2, <2>1, GotoNone DEF RelPoints
  <2>4. GuestsStay
    BY <1>2, <2>1 DEF GuestsStay, Down
  <2> QED
    BY <1>1, <1>2, <1>3, <2>1, <2>2, <2>3, <2>4 DEF RulesFrame, CopiesKept
<1> QED
    BY <1>4, <1>5

(* The rules in the way are recorded before they are disabled.              *)
LEMMA StartCheckHolds ==
    ASSUME NEW e \in Engine, LInv, TickInv(e), HoldInv(e), StartCheck(e)
    PROVE  HoldInv(e)'
<1> USE DEF clusterVars
<1>0. /\ TypeOK /\ job \in JobRow /\ e \in Thread /\ eng \in [Engine -> EngineLocals]
      /\ pc \in [Thread -> Points]
    BY DEF LInv, IInv, TypeOK, Thread
<1>1. NoneBegun /\ StoppedKept /\ GuestsStay /\ CopiesKept(e) /\ rulesOff' = rulesOff
    BY <1>0, StartFrame DEF StartCheck
<1>2. PICK toDisable :
        \/ job' = WithRules(toDisable) /\ eng' = [eng EXCEPT ![e].rules = toDisable]
        \/ job' = job /\ pc'[e] # "ruleOff"
  <2>1. \/ job' = job /\ (Goto(e, "done") \/ Goto(e, "drainStart"))
        \/ job' = job /\ \E rows : FailNodeIn(rows, e, eng[e].n, "done")
        \/ \E S : job' = WithRules(S) /\ eng' = [eng EXCEPT ![e].rules = S]
    BY Zenon DEF StartCheck
  <2>2. (Goto(e, "done") \/ Goto(e, "drainStart")) => pc'[e] # "ruleOff"
    BY <1>0 DEF Goto
  <2>3. (\E rows : FailNodeIn(rows, e, eng[e].n, "done")) => pc'[e] # "ruleOff"
    BY <1>0 DEF Goto, FailNodeIn
  <2> QED
    BY <2>1, <2>2, <2>3
<1>3. job.rules \subseteq job'.rules /\ NotRetired
    BY <1>0, <1>2, JobFrame
<1>4. pc'[e] = "ruleOff" => eng'[e].rules \subseteq job'.rules
  <2>1. CASE job' = WithRules(toDisable) /\ eng' = [eng EXCEPT ![e].rules = toDisable]
    <3>1. eng'[e].rules = toDisable
      BY <1>0, <2>1 DEF EngineLocals
    <3>2. job'.rules = job.rules \cup toDisable
      BY <1>0, <2>1 DEF WithRules, JobRow
    <3> QED
      BY <3>1, <3>2
  <2> QED
    BY <1>2, <2>1
<1>5. RulesHeld(e)'
    BY <1>1, <1>3, <1>4 DEF HoldInv, RulesHeld, NotRetired, NoneBegun
<1> QED
    BY <1>1, <1>3, <1>5, GuestsFramed, CopiedFramed DEF HoldInv

(* Rules are disabled while no release is under way.                        *)
LEMMA DisableRulesHolds ==
    ASSUME NEW e \in Engine, LInv, Ending, Calm(e), HoldInv(e), DisableRules(e)
    PROVE  HoldInv(e)'
<1> USE DEF clusterVars
<1>0. /\ TypeOK /\ e \in Thread /\ pc \in [Thread -> Points]
    BY DEF LInv, IInv, TypeOK, Thread
<1>1. pc[e] = "ruleOff" /\ job' = job /\ node' = node /\ at' = at /\ up' = up /\ killed' = killed
      /\ eng' = eng /\ rel' = rel /\ pc' = [pc EXCEPT ![e] = "ruleRec"]
    BY DEF DisableRules, Goto
<1>2. ~Terminal /\ ~Terminal'
    BY <1>1 DEF Calm, Terminal
<1>3. rulesOff' \subseteq rulesOff \cup eng[e].rules
    BY DEF DisableRules
<1>4. "ruleRec" \notin RelPoints
    BY DEF RelPoints
<1>5. NoneBegun /\ pc'[e] = "ruleRec" /\ \A t \in Thread : pc'[t] \notin RelPoints
    BY <1>0, <1>1, <1>2, <1>4, GotoNone DEF Ending
<1>6. RulesHeld(e)'
    BY <1>1, <1>2, <1>3, <1>5 DEF HoldInv, RulesHeld
<1>7. Phase(e)' = "ruleRec"
    BY <1>5 DEF Phase, RelPoints, RestorePoints, DrainPoints
<1>8. StoppedKept /\ GuestsStay /\ CopiesKept(e) /\ NotRetired
    BY <1>1, <1>2, <1>5, <1>7 DEF StoppedKept, GuestsStay, CopiesKept, NotRetired, Down
<1> QED
    BY <1>5, <1>6, <1>8, GuestsFramed, CopiedFramed DEF HoldInv

(* The tick copies the rows.                                                *)
LEMMA ListNodesHolds ==
    ASSUME NEW e \in Engine, LInv, HoldInv(e), ListNodes(e)
    PROVE  HoldInv(e)'
<1> USE DEF clusterVars
<1>0. /\ TypeOK /\ e \in Thread /\ pc \in [Thread -> Points] /\ eng \in [Engine -> EngineLocals]
    BY DEF LInv, IInv, TypeOK, Thread
<1>1. /\ job' = job /\ node' = node /\ at' = at /\ up' = up /\ killed' = killed
      /\ rulesOff' = rulesOff /\ rel' = rel /\ pc' = [pc EXCEPT ![e] = "advance"]
    BY DEF ListNodes, Goto
<1>2. eng'[e].rows = node /\ eng'[e].todo \subseteq Node
    BY <1>0 DEF ListNodes, EngineLocals
<1>3. NoneBegun /\ pc'[e] = "advance"
    BY <1>0, <1>1, GotoNone DEF RelPoints
<1>4. NotRetired /\ RulesFrame(e) /\ StoppedKept /\ GuestsStay
    BY <1>1, <1>3 DEF NotRetired, Terminal, RulesFrame, StoppedKept, GuestsStay, Down
<1>5. GuestsHeld'
    BY <1>3, <1>4, GuestsFramed DEF HoldInv
<1>6. Copied(e)'
    BY <1>1, <1>2, <1>3, <1>5 DEF Copied, RestorePoints, GuestsHeld
<1> QED
    BY <1>3, <1>4, <1>6, RulesFramed, GuestsFramed DEF HoldInv

(* A node that is up again: its guests come back, or there are none.        *)
LEMMA HealthCheckHolds ==
    ASSUME NEW e \in Engine, LInv, TickInv(e), HoldInv(e), NEW n \in Node, AdvanceHealthCheck(e, n)
    PROVE  HoldInv(e)'
<1> USE DEF clusterVars
<1> DEFINE rows == [node EXCEPT ![n] = Moved(node[n], "restoring")]
           r == eng[e].rows[n]
           back == IF opt.restore THEN r.guests \ Passthrough ELSE {}
<1>0. /\ TypeOK /\ e \in Thread /\ pc \in [Thread -> Points] /\ eng \in [Engine -> EngineLocals]
      /\ node \in [Node -> NodeRow] /\ node[n] \in NodeRow
    BY DEF LInv, IInv, TypeOK, Thread
<1>1. PICK S : Advances(e, n, S)
    BY Zenon DEF AdvanceHealthCheck
<1>2. pc[e] = "advance" /\ Phase(e) = "advance" /\ n \in eng[e].todo
    BY <1>0, <1>1, AdvancesFacts
<1>3. /\ job' = job /\ at' = at /\ up' = up /\ killed' = killed /\ rulesOff' = rulesOff
    BY DEF AdvanceHealthCheck
<1>4. NotRetired /\ GuestsStay
    BY <1>3 DEF NotRetired, Terminal, GuestsStay, Down
<1>5. eng' = Off(e, n) \/ \E left, b : eng' = WorkOn(e, n, left, b)
    BY Zenon DEF AdvanceHealthCheck
<1>6. eng'[e].rows = eng[e].rows /\ eng'[e].todo \subseteq eng[e].todo
    BY <1>0, <1>5, OffRows
<1>7. \/ SetStep(n, "completed") /\ pc' = pc /\ rel' = rel
      \/ /\ node' \in {node, rows} /\ rel' = rel /\ Goto(e, "restart")
         /\ eng' = WorkOn(e, n, back, "advance")
      \/ FailNodeIn(node, e, n, "advance")
      \/ FailNodeIn(rows, e, n, "advance")
    BY Zenon DEF AdvanceHealthCheck
<1>8. /\ rows \in [Node -> NodeRow]
      /\ \A m \in Node : node[m].stopped = rows[m].stopped
  <2>1. Moved(node[n], "restoring") \in NodeRow /\ Moved(node[n], "restoring").stopped = node[n].stopped
    <3>1. "restoring" \in Steps
      BY DEF Steps, ActiveSteps, Advancing
    <3> QED
      BY <1>0, <3>1, MovedIsRow, RowsStopped
  <2> QED
    BY <1>0, <2>1
<1>9. back \cap Passthrough = {}
    OBVIOUS
<1>10. "advance" \in Backs
    BY DEF Backs
<1> HIDE DEF rows, r, back
<1>11. ASSUME NoneBegun, StoppedKept, pc'[e] \notin {"ruleOff", "ptStop", "restart", "restore"}
       PROVE  HoldInv(e)'
  <2>1. RulesFrame(e) /\ CopiesKept(e)
    BY <1>2, <1>3, <1>6, <1>11 DEF RulesFrame, CopiesKept
  <2> QED
    BY <1>4, <1>11, <2>1, RulesFramed, GuestsFramed, CopiedFramed DEF HoldInv
<1>12. CASE SetStep(n, "completed") /\ pc' = pc /\ rel' = rel
  <2>1. NoneBegun /\ StoppedKept
    BY <1>0, <1>12, RowsStopped, WrittenKept DEF SetStep, NoneBegun
  <2> QED
    BY <1>2, <1>11, <1>12, <2>1
<1>13. ASSUME NEW f \in [Node -> NodeRow], FailNodeIn(f, e, n, "advance"),
              \A m \in Node : node[m].stopped = f[m].stopped
       PROVE  HoldInv(e)'
  <2>1. StoppedKept /\ NoneBegun /\ pc'[e] \in {"advance", "failJob"}
    BY <1>0, <1>10, <1>13, FailNodeKept
  <2> QED
    BY <1>11, <2>1
<1>14. CASE /\ node' \in {node, rows} /\ rel' = rel /\ Goto(e, "restart")
            /\ eng' = WorkOn(e, n, back, "advance")
  <2>1. StoppedKept
    BY <1>8, <1>14 DEF StoppedKept
  <2>2. pc'[e] = "restart" /\ NoneBegun
    BY <1>0, <1>14, GotoNone DEF Goto, RelPoints
  <2>3. eng'[e].n = n /\ eng'[e].left = back
    BY <1>0, <1>14 DEF WorkOn, EngineLocals
  <2>4. RulesFrame(e)
    BY <1>3, <2>2 DEF RulesFrame
  <2>5. Copied(e)'
    BY <1>2, <1>3, <1>4, <1>6, <1>9, <2>2, <2>3 DEF HoldInv, Copied, GuestsStay
  <2> QED
    BY <1>4, <2>1, <2>2, <2>4, <2>5, RulesFramed, GuestsFramed DEF HoldInv
<1> QED
    BY <1>0, <1>7, <1>8, <1>12, <1>13, <1>14

(* The guests of the tick's copy are started; what does not start stays on  *)
(* record.                                                                  *)
LEMMA RestartGuestsHolds ==
    ASSUME NEW e \in Engine, LInv, TickInv(e), HoldInv(e), RestartGuests(e)
    PROVE  HoldInv(e)'
<1> USE DEF clusterVars
<1> DEFINE n == eng[e].n
           list == eng[e].rows[n].stopped
<1>0. /\ TypeOK /\ e \in Thread /\ pc \in [Thread -> Points] /\ eng \in [Engine -> EngineLocals]
      /\ node \in [Node -> NodeRow]
    BY DEF LInv, IInv, TypeOK, Thread
<1>1. pc[e] = "restart" /\ n \in Node /\ Phase(e) = "advance"
    BY DEF RestartGuests, TickInv, Copies, RestorePoints, Phase, RelPoints
<1>2. /\ job' = job /\ at' = at /\ killed' = killed /\ rulesOff' = rulesOff /\ eng' = eng
      /\ rel' = rel /\ pc' = [pc EXCEPT ![e] = "restore"]
    BY DEF RestartGuests, Goto
<1>3. PICK keep \in SUBSET list :
        /\ up' = up \cup (list \ keep)
        /\ node' = IF keep = list THEN node
                   ELSE [node EXCEPT ![n] = [Touched(node[n]) EXCEPT !.stopped = keep]]
    BY Zenon DEF RestartGuests
<1> HIDE DEF n, list
<1>4. /\ \A m \in Node \ {n} : node'[m] = node[m]
      /\ node'[n].stopped = keep \/ (node' = node /\ keep = list)
    BY <1>0, <1>1, <1>3 DEF Touched, NodeRow
<1>5. NoneBegun /\ pc'[e] = "restore"
    BY <1>0, <1>2, GotoNone DEF RelPoints
<1>6. NotRetired /\ RulesFrame(e)
    BY <1>2, <1>5 DEF NotRetired, Terminal, RulesFrame
<1>7. GuestsStay
    BY <1>2, <1>3 DEF GuestsStay, Down
<1>8. \A g \in Down' : at[g] = n => g \in keep
  <2>1. \A g \in Down : at[g] = n => g \in list
    BY <1>1 DEF HoldInv, Copied, n, list
  <2> QED
    BY <1>3, <1>7, <2>1 DEF GuestsStay, Down
<1>9. GuestsHeld'
  <2>1. ASSUME NEW g \in Down' PROVE g \in node'[at[g]].stopped
    <3>1. g \in Down /\ at[g] \in Node /\ g \in node[at[g]].stopped
      BY <1>7, <2>1 DEF HoldInv, GuestsHeld, GuestsStay, Down
    <3> QED
      BY <1>4, <1>8, <2>1, <3>1
  <2> QED
    BY <1>2, <1>6, <1>7, <2>1 DEF HoldInv, GuestsHeld, GuestsStay, NotRetired
<1>10. \A t \in Thread : Listed(t)'
  <2>1. ASSUME NEW t \in Thread PROVE Listed(t)'
    <3>1. HeldNode(t)' = HeldNode(t)
      BY <1>2 DEF HeldNode
    <3>2. Listed(t) /\ (pc'[t] \in RelPoints => pc'[t] = pc[t]) /\ "relGuestsMark" \in RelPoints
      BY <1>0, <1>2 DEF HoldInv, RelPoints
    <3> QED
      BY <1>2, <1>7, <3>1, <3>2 DEF Listed, GuestsStay
  <2> QED
    BY <2>1
<1>11. Copied(e)'
    BY <1>1, <1>2, <1>5, <1>7 DEF HoldInv, Copied, GuestsStay, RestorePoints
<1> QED
    BY <1>5, <1>6, <1>9, <1>10, <1>11, RulesFramed DEF HoldInv

(* A guest is recorded before it is shut down.                              *)
LEMMA RecordStoppedHolds ==
    ASSUME NEW e \in Engine, LInv, TickInv(e), HoldInv(e), RecordStopped(e)
    PROVE  HoldInv(e)'
<1> USE DEF clusterVars
<1> DEFINE n == eng[e].n
<1>0. /\ TypeOK /\ e \in Thread /\ pc \in [Thread -> Points] /\ eng \in [Engine -> EngineLocals]
      /\ node \in [Node -> NodeRow]
    BY DEF LInv, IInv, TypeOK, Thread
<1>1. pc[e] = "guest" /\ n \in Node /\ node[n] \in NodeRow /\ eng[e].back \in {"advance", "done"}
    BY <1>0 DEF RecordStopped, TickInv, Copies, DrainPoints
<1>2. /\ job' = job /\ at' = at /\ up' = up /\ killed' = killed /\ rulesOff' = rulesOff
      /\ rel' = rel /\ pc' = [pc EXCEPT ![e] = "ptStop"]
    BY DEF RecordStopped, Goto
<1>3. PICK g \in eng[e].left \cap Passthrough :
        /\ at[g] = n
        /\ node' = [node EXCEPT ![n] = Recorded(node[n], g)]
        /\ eng' = [eng EXCEPT ![e].g = {g}]
    BY Zenon DEF RecordStopped
<1>4. Recorded(node[n], g).stopped = node[n].stopped \cup {g}
    BY <1>1 DEF Recorded, Touched, NodeRow
<1>5. StoppedKept /\ g \in node'[n].stopped
  <2>1. node'[n] = Recorded(node[n], g)
    BY <1>0, <1>1, <1>3
  <2> QED
    BY <1>0, <1>3, <1>4, <2>1, WrittenKept
<1>6. /\ eng'[e].g = {g} /\ eng'[e].n = n /\ eng'[e].rows = eng[e].rows
      /\ eng'[e].todo = eng[e].todo /\ eng'[e].back = eng[e].back
    BY <1>0, <1>3 DEF EngineLocals
<1> HIDE DEF n
<1>7. NoneBegun /\ pc'[e] = "ptStop"
    BY <1>0, <1>2, GotoNone DEF RelPoints
<1>8. Phase(e)' = Phase(e)
    BY <1>1, <1>6, <1>7 DEF Phase, RelPoints, RestorePoints, DrainPoints
<1>9. NotRetired /\ RulesFrame(e) /\ GuestsStay
    BY <1>2, <1>7 DEF NotRetired, Terminal, RulesFrame, GuestsStay, Down
<1>10. Copied(e)'
    BY <1>2, <1>3, <1>5, <1>6, <1>7, <1>8, <1>9 DEF HoldInv, Copied, GuestsStay, RestorePoints
<1> QED
    BY <1>5, <1>7, <1>9, <1>10, RulesFramed, GuestsFramed DEF HoldInv

(* A guest is shut down while no release is under way.                      *)
LEMMA StopPassthroughHolds ==
    ASSUME NEW e \in Engine, LInv, Ending, TickInv(e), Calm(e), HoldInv(e), StopPassthrough(e)
    PROVE  HoldInv(e)'
<1> USE DEF clusterVars
<1>0. /\ TypeOK /\ e \in Thread /\ pc \in [Thread -> Points] /\ eng \in [Engine -> EngineLocals]
      /\ node \in [Node -> NodeRow]
    BY DEF LInv, IInv, TypeOK, Thread
<1>1. /\ pc[e] = "ptStop" /\ eng[e].n \in Node /\ eng[e].back \in {"advance", "done"}
      /\ eng[e].back = "advance" => eng[e].n \notin eng[e].todo
    BY DEF StopPassthrough, TickInv, Copies, DrainPoints
<1>2. job' = job /\ at' = at /\ killed' = killed /\ rulesOff' = rulesOff
    BY DEF StopPassthrough
<1>3. ~Terminal /\ ~Terminal'
    BY <1>1, <1>2 DEF Calm, Terminal
<1>4. Down' \subseteq Down \cup eng[e].g
  <2>1. up' \in {up, up \ eng[e].g}
    BY DEF StopPassthrough
  <2> QED
    BY <1>2, <2>1 DEF Down
<1>5. eng'[e].rows = eng[e].rows /\ eng'[e].todo = eng[e].todo /\ eng'[e].back = eng[e].back
  <2>1. eng' = eng \/ \E S : eng' = [eng EXCEPT ![e].left = S, ![e].g = {}]
    BY Zenon DEF StopPassthrough
  <2>2. eng[e] \in EngineLocals
    BY <1>0
  <2>3. ASSUME NEW S, eng' = [eng EXCEPT ![e].left = S, ![e].g = {}]
        PROVE  eng'[e] = [eng[e] EXCEPT !.left = S, !.g = {}]
    BY <1>0, <2>3
  <2> QED
    BY <2>1, <2>2, <2>3 DEF EngineLocals
<1>6. StoppedKept /\ NoneBegun /\ pc'[e] \notin {"ruleOff", "ptStop", "restart", "restore"}
      /\ Phase(e)' = Phase(e)
  <2>1. \/ pc' = [pc EXCEPT ![e] = "drain"] /\ node' = node /\ rel' = rel
        \/ FailNodeIn(node, e, eng[e].n, eng[e].back)
    BY DEF StopPassthrough, Goto, FailNode
  <2>2. CASE pc' = [pc EXCEPT ![e] = "drain"] /\ node' = node /\ rel' = rel
    <3>1. NoneBegun /\ pc'[e] = "drain"
      BY <1>0, <2>2, GotoNone DEF RelPoints
    <3>2. Phase(e)' = Phase(e)
      BY <1>1, <1>5, <3>1 DEF Phase, RelPoints, RestorePoints, DrainPoints
    <3> QED
      BY <2>2, <3>1, <3>2 DEF StoppedKept
  <2>3. CASE FailNodeIn(node, e, eng[e].n, eng[e].back)
    <3>1. {"advance", "done"} \subseteq Backs
      BY DEF Backs
    <3>2. /\ StoppedKept /\ NoneBegun
          /\ pc'[e] = eng[e].back \/ (pc'[e] = "failJob" /\ rel'[e].back = eng[e].back)
      BY <1>0, <1>1, <2>3, <3>1, FailNodeKept
    <3>3. Phase(e)' = Phase(e)
      BY <1>1, <1>5, <3>2 DEF Phase, RelPoints, RestorePoints, DrainPoints
    <3> QED
      BY <1>1, <3>2, <3>3
  <2> QED
    BY <2>1, <2>2, <2>3
<1>7. \A t \in Thread : pc'[t] \notin RelPoints \ {"release"}
    BY <1>3, <1>6 DEF NoneBegun, Ending
<1>8. NotRetired /\ RulesFrame(e)
    BY <1>2, <1>3, <1>6 DEF NotRetired, RulesFrame
<1>9. GuestsHeld'
  <2>1. \A g \in Down' : g \in Passthrough /\ g \in node[at[g]].stopped
    BY <1>1, <1>4 DEF HoldInv, GuestsHeld, Copied, Down
  <2> QED
    BY <1>2, <1>3, <1>6, <2>1 DEF HoldInv, GuestsHeld, StoppedKept
<1>10. \A t \in Thread : Listed(t)'
    BY <1>7 DEF Listed, RelPoints
<1>11. Copied(e)'
  <2>1. Phase(e) = eng[e].back
    BY <1>1 DEF Phase, RelPoints, RestorePoints, DrainPoints
  <2>2. \A g \in eng[e].g : at[g] = eng[e].n
    BY <1>1 DEF HoldInv, Copied
  <2> QED
    BY <1>1, <1>2, <1>4, <1>5, <1>6, <2>1, <2>2 DEF HoldInv, Copied, RestorePoints
<1> QED
    BY <1>6, <1>8, <1>9, <1>10, <1>11, RulesFramed DEF HoldInv

(* Goroutines, requests, time, the cluster and crashes.                     *)
LEMMA OutsideFrame ==
    ASSUME NEW e, Engine = {e}, TypeOK, OutsideStep
    PROVE  /\ NotRetired /\ NoneBegun /\ RulesFrame(e)
           /\ StoppedKept /\ GuestsStay /\ CopiesKept(e)
<1> USE DEF clusterVars
<1>0. /\ e \in Thread /\ e \notin Node /\ e # Api /\ Api \in Thread /\ Node \subseteq Thread
      /\ job \in JobRow /\ node \in [Node -> NodeRow] /\ pc \in [Thread -> Points]
      /\ rel \in [Thread -> ReleaseLocals] /\ at \in [Guest -> Host] /\ "idle" \in Backs
    BY ThreadAssumption DEF TypeOK, Thread, Backs
<1>1. ASSUME pc'[e] = pc[e], rel'[e] = rel[e], eng' = eng
      PROVE  CopiesKept(e) /\ (pc'[e] = "ruleOff" => pc[e] = "ruleOff" /\ eng'[e].rules = eng[e].rules)
    BY <1>1, PhaseKept DEF CopiesKept, RestorePoints
<1>2. ASSUME NEW n \in Node,
             \/ SSHUpgrade(n) \/ SSHDecide(n) \/ SSHMarkReboot(n) \/ SSHReboot(n)
             \/ ConfirmReboot(n) \/ ConfirmMark(n) \/ ConfirmUpgrade(n) \/ SkipNode(n)
      PROVE  /\ NotRetired /\ NoneBegun /\ RulesFrame(e)
             /\ StoppedKept /\ GuestsStay /\ CopiesKept(e)
  <2> DEFINE P == {"idle", "rebootCheck", "rebootMark", "reboot", "confHealth", "confReboot",
                   "confMark"}
             rows == [node EXCEPT ![n] = Moved(node[n], "rebooting")]
             owed == [node EXCEPT ![n] = [Moved(node[n], "health_check") EXCEPT !.owed = TRUE]]
  <2>1. /\ job' = job /\ rulesOff' = rulesOff /\ at' = at /\ up' = up /\ killed' = killed /\ eng' = eng
    BY <1>2 DEF SSHUpgrade, SSHDecide, SSHMarkReboot, SSHReboot, ConfirmReboot,
                ConfirmMark, ConfirmUpgrade, SkipNode
  <2>2. \/ /\ pc' = pc \/ (\E p \in P : Goto(n, p))
           /\ rel' = rel
           /\ node' = node \/ node' = owed \/ \E s : SetStep(n, s)
        \/ FailNodeIn(node, n, n, "idle")
        \/ FailNodeIn(rows, n, n, "idle")
    <3>1. CASE SSHUpgrade(n) \/ SSHMarkReboot(n) \/ SSHReboot(n) \/ ConfirmReboot(n)
               \/ ConfirmMark(n) \/ SkipNode(n)
      BY <3>1, Zenon DEF SSHUpgrade, SSHMarkReboot, SSHReboot, ConfirmReboot, ConfirmMark,
                  SkipNode, FailNode
    <3>2. CASE SSHDecide(n)
      BY <3>2, Zenon DEF SSHDecide, FailNode
    <3>3. CASE ConfirmUpgrade(n)
      <4>1. \/ FailNode(n, n, "idle")
            \/ Goto(n, "confHealth") /\ node' = node /\ rel' = rel
            \/ rel' = rel /\ node' = owed /\ pc' = pc
            \/ rel' = rel /\ node' = node /\ Goto(n, "confReboot")
        BY <3>3, Zenon DEF ConfirmUpgrade
      <4> QED
        BY <4>1 DEF FailNode
    <3> QED
      BY <1>2, <3>1, <3>2, <3>3
  <2>3. /\ rows \in [Node -> NodeRow]
        /\ \A m \in Node : node[m].stopped = rows[m].stopped /\ node[m].stopped = owed[m].stopped
    <3>1. "rebooting" \in Steps /\ node[n] \in NodeRow
      BY <1>0 DEF Steps, ActiveSteps, Advancing
    <3>2. /\ Moved(node[n], "rebooting") \in NodeRow
          /\ Moved(node[n], "rebooting").stopped = node[n].stopped
          /\ [Moved(node[n], "health_check") EXCEPT !.owed = TRUE].stopped = node[n].stopped
      BY <3>1, MovedIsRow, RowsStopped
    <3> QED
      BY <1>0, <3>2
  <2> HIDE DEF rows, owed
  <2>4. StoppedKept /\ NoneBegun /\ pc'[e] = pc[e] /\ rel'[e] = rel[e]
    <3>1. CASE /\ pc' = pc \/ (\E p \in P : Goto(n, p))
               /\ rel' = rel
               /\ node' = node \/ node' = owed \/ \E s : SetStep(n, s)
      <4>1. StoppedKept
        <5>1. ASSUME NEW s, SetStep(n, s) PROVE StoppedKept
          BY <1>0, <5>1, RowsStopped, WrittenKept DEF SetStep
        <5> QED
          BY <2>3, <3>1, <5>1 DEF StoppedKept
      <4>2. CASE pc' = pc
        BY <3>1, <4>1, <4>2 DEF NoneBegun
      <4>3. CASE \E p \in P : Goto(n, p)
        <5>1. PICK p \in P : pc' = [pc EXCEPT ![n] = p]
          BY <4>3 DEF Goto
        <5>2. p \notin RelPoints
          BY DEF RelPoints
        <5> QED
          BY <1>0, <3>1, <4>1, <5>1, <5>2, GotoNone
      <4> QED
        BY <3>1, <4>2, <4>3
    <3>2. ASSUME NEW f \in [Node -> NodeRow], FailNodeIn(f, n, n, "idle"),
                 \A m \in Node : node[m].stopped = f[m].stopped
          PROVE  StoppedKept /\ NoneBegun /\ pc'[e] = pc[e] /\ rel'[e] = rel[e]
      BY <1>0, <3>2, FailNodeKept
    <3> QED
      BY <1>0, <2>2, <2>3, <3>1, <3>2
  <2> QED
    BY <1>1, <2>1, <2>4 DEF NotRetired, Terminal, RulesFrame, GuestsStay, Down
<1>3. CASE CancelJob \/ CreateAnother
  <2>1. /\ pc' = [pc EXCEPT ![Api] = "release"] /\ rel' = [rel EXCEPT ![Api].back = "idle"]
        /\ rulesOff' = rulesOff /\ at' = at /\ up' = up /\ killed' = killed /\ eng' = eng
        /\ node' = node /\ (job' = job \/ job' = Ended("cancelled"))
    BY <1>3 DEF CancelJob, CreateAnother, Goto
  <2>2. pc'[e] = pc[e] /\ rel'[e] = rel[e] /\ \A u \in Thread \ {Api} : rel'[u] = rel[u]
    BY <1>0, <2>1
  <2>3. NoneBegun
    BY <1>0, <2>1, <2>2, GotoNone
  <2>4. job.rules \subseteq job'.rules /\ NotRetired
    BY <1>0, <2>1 DEF NotRetired, Ended, JobRow, Terminal
  <2> QED
    BY <1>1, <2>1, <2>2, <2>3, <2>4 DEF RulesFrame, StoppedKept, GuestsStay, Down
<1>4. CASE \/ StartJob \/ PauseJob \/ ResumeJob \/ BackoffPasses \/ HourPasses
  <2>1. /\ pc' = pc /\ rel' = rel /\ eng' = eng /\ node' = node
        /\ rulesOff' = rulesOff /\ at' = at /\ up' = up /\ killed' = killed
    BY <1>4 DEF StartJob, PauseJob, ResumeJob, BackoffPasses, HourPasses
  <2>2. job'.rules = job.rules /\ NotRetired
    BY <1>0, <1>4 DEF StartJob, PauseJob, ResumeJob, BackoffPasses, HourPasses, NotRetired, JobRow,
                Terminal, Outcomes
  <2> QED
    BY <1>1, <2>1, <2>2 DEF RulesFrame, StoppedKept, GuestsStay, Down, NoneBegun
<1>5. ASSUME NEW n \in Node, GoStale(n) \/ GoLate(n)
      PROVE  /\ NotRetired /\ NoneBegun /\ RulesFrame(e)
             /\ StoppedKept /\ GuestsStay /\ CopiesKept(e)
  <2>1. /\ pc' = pc /\ rel' = rel /\ eng' = eng /\ job' = job
        /\ rulesOff' = rulesOff /\ at' = at /\ up' = up /\ killed' = killed
    BY <1>5 DEF GoStale, GoLate
  <2>2. node' = [node EXCEPT ![n] = [node[n] EXCEPT !.stale = TRUE]]
        \/ node' = [node EXCEPT ![n] = [node[n] EXCEPT !.late = TRUE]]
    BY <1>5 DEF GoStale, GoLate
  <2>3. StoppedKept
    BY <1>0, <2>2, RowsStopped, WrittenKept
  <2> QED
    BY <1>1, <2>1, <2>3 DEF RulesFrame, GuestsStay, Down, NoneBegun, NotRetired, Terminal
<1>6. CASE \/ \E n \in Node : HostGoesDown(n) \/ HostBoots(n)
           \/ \E g \in Guest : GuestMoves(g)
  <2>1. pc' = pc /\ rel' = rel /\ eng' = eng /\ job' = job /\ node' = node /\ rulesOff' = rulesOff
    BY <1>6 DEF HostGoesDown, HostBoots, GuestMoves
  <2>2. GuestsStay
    <3>1. ASSUME NEW n \in Node, HostGoesDown(n) \/ HostBoots(n) PROVE GuestsStay
      BY <3>1 DEF HostGoesDown, HostBoots, GuestsStay, Down
    <3>2. ASSUME NEW g \in Guest, GuestMoves(g) PROVE GuestsStay
      BY <1>0, <3>2, OthersMove DEF GuestMoves
    <3> QED
      BY <1>6, <3>1, <3>2
  <2> QED
    BY <1>1, <2>1, <2>2 DEF RulesFrame, StoppedKept, NoneBegun, NotRetired, Terminal
<1>7. CASE Crash
  <2>1. /\ pc' = [t \in Thread |-> "idle"] /\ job' = job /\ node' = node
        /\ rulesOff' = rulesOff /\ at' = at /\ up' = up /\ killed' = killed
    BY <1>7 DEF Crash
  <2>2. \A t \in Thread : pc'[t] = "idle"
    BY <2>1
  <2>3. Phase(e)' = "idle"
    BY <1>0, <2>2 DEF Phase, RelPoints, RestorePoints, DrainPoints
  <2> QED
    BY <1>0, <2>1, <2>2, <2>3
       DEF RulesFrame, StoppedKept, GuestsStay, Down, NoneBegun, NotRetired, Terminal, CopiesKept,
           RelPoints
<1> QED
    BY <1>2, <1>3, <1>4, <1>5, <1>6, <1>7 DEF OutsideStep

(* What a step of a release has to see to.                                  *)
LEMMA ReleaseMoves ==
    ASSUME NEW e \in Engine, TypeOK, Ending, Calm(e), HoldInv(e), NEW t \in Thread, ReleaseEffect(t),
           rulesOff' \subseteq rulesOff, rulesOff' \subseteq job'.rules,
           at' = at, Down' \subseteq Down, \A g \in Down' : g \in node'[at[g]].stopped,
           pc[t] = "failJob" => StoppedKept /\ job.rules \subseteq job'.rules,
           Terminal' /\ ~job'.cleanup => rulesOff' = {} /\ Down' = {},
           pc'[t] \in RelPoints \ {"release"} => rulesOff' \subseteq rel'[t].rules,
           Listed(t)'
    PROVE  HoldInv(e)'
<1>0. /\ eng' = eng /\ (\A u \in Thread \ {t} : pc'[u] = pc[u] /\ rel'[u] = rel[u])
      /\ \/ pc'[t] \in RelPoints /\ rel'[t].back = rel[t].back
         \/ pc'[t] = rel[t].back
      /\ pc[t] \in RelPoints \cup {"failJob"} /\ rel[t].back \in Backs /\ e \in Thread
    BY DEF ReleaseEffect, TypeOK, ReleaseLocals, Thread
<1>1. /\ (RelPoints \cup {"failJob"}) \cap {"ruleOff", "ptStop", "restart", "restore"} = {}
      /\ Backs \cap {"ruleOff", "ptStop", "restart", "restore"} = {}
    BY DEF RelPoints, Backs
<1>2. pc'[e] \in {"ruleOff", "ptStop", "restart", "restore"} => pc'[e] = pc[e] /\ e # t
    BY <1>0, <1>1
<1>3. Phase(e)' = Phase(e)
  <2>1. CASE e # t
    BY <1>0, <2>1, PhaseKept
  <2>2. CASE e = t
    <3>1. Backs \cap (RelPoints \cup {"failJob"} \cup RestorePoints \cup DrainPoints) = {}
      BY DEF Backs, RelPoints, RestorePoints, DrainPoints
    <3>2. Phase(e) = rel[e].back
      BY <1>0, <2>2 DEF Phase
    <3> QED
      BY <1>0, <2>2, <3>1, <3>2 DEF Phase
  <2> QED
    BY <2>1, <2>2
<1>4. pc[t] # "failJob" => pc[e] \notin {"ruleOff", "ptStop"}
    BY <1>0 DEF Ending, Calm
<1>5. RulesHeld(e)'
  <2>1. pc'[e] = "ruleOff" => eng'[e].rules \subseteq job'.rules
    BY <1>0, <1>2, <1>4 DEF HoldInv, RulesHeld
  <2>2. ASSUME NEW u \in Thread, pc'[u] \in RelPoints \ {"release"}
        PROVE  rulesOff' \subseteq rel'[u].rules
    BY <1>0, <2>2 DEF HoldInv, RulesHeld
  <2> QED
    BY <2>1, <2>2 DEF RulesHeld
<1>6. GuestsHeld'
    BY DEF HoldInv, GuestsHeld
<1>7. ASSUME NEW u \in Thread PROVE Listed(u)'
  <2>1. CASE u = t
    BY <2>1
  <2>2. CASE u # t
    <3>1. pc'[u] = pc[u] /\ rel'[u] = rel[u] /\ HeldNode(u)' = HeldNode(u) /\ Listed(u)
      BY <1>0, <1>7, <2>2 DEF HeldNode, HoldInv
    <3> QED
      BY <3>1 DEF Listed
  <2> QED
    BY <2>1, <2>2
<1>8. Copied(e)'
  <2>1. StoppedKept \/ pc'[e] # "ptStop"
    BY <1>2, <1>4
  <2>2. GuestsStay
    BY DEF GuestsStay
  <2>3. CopiesKept(e)
    BY <1>0, <1>2, <1>3 DEF CopiesKept, RestorePoints
  <2> QED
    BY <2>1, <2>2, <2>3, CopiedFramed DEF HoldInv
<1> QED
    BY <1>5, <1>6, <1>7, <1>8 DEF HoldInv

(* A step that works neither on rules nor on guests.                        *)
LEMMA ReleasePasses ==
    ASSUME NEW e \in Engine, TypeOK, Ending, Calm(e), HoldInv(e), NEW t \in Thread, ReleaseEffect(t),
           rulesOff' = rulesOff, at' = at, up' = up, killed' = killed, node' = node,
           job'.rules = job.rules, Terminal' /\ ~job'.cleanup => rulesOff = {} /\ Down = {},
           pc'[t] \in RelPoints \ {"release"} =>
                /\ pc[t] \in RelPoints \ {"release"}
                /\ rel'[t].rules = rel[t].rules /\ pc'[t] # "relGuestsMark",
           pc'[t] \in RelPoints \ {"release", "relNodes"} =>
                pc[t] \in RelPoints \ {"release", "relNodes"} /\ rel'[t].stopped = rel[t].stopped
    PROVE  HoldInv(e)'
<1>1. Down' = Down /\ StoppedKept
    BY DEF Down, StoppedKept
<1>2. Listed(t)'
    BY <1>1 DEF HoldInv, Listed, RelPoints
<1>3. /\ \A g \in Down' : g \in node'[at[g]].stopped
      /\ rulesOff' \subseteq job'.rules
      /\ pc'[t] \in RelPoints \ {"release"} => rulesOff' \subseteq rel'[t].rules
    BY <1>1 DEF HoldInv, GuestsHeld, RulesHeld
<1> QED
    BY <1>1, <1>2, <1>3, ReleaseMoves

(* failJob and releaseJobState up to the rules, and its last step.          *)
LEMMA ReleaseOtherHolds ==
    ASSUME NEW e \in Engine, LInv, Ending, Calm(e), HoldInv(e), NEW t \in Thread,
           \/ FailJob(t) \/ ReleaseDRS(t) \/ ReleaseDRSMark(t) \/ ReleaseClient(t)
           \/ ReleaseCRS(t) \/ ReleaseCRSMark(t) \/ ReleaseClear(t)
    PROVE  HoldInv(e)'
<1> USE DEF clusterVars
<1>0. /\ TypeOK /\ job \in JobRow /\ rel \in [Thread -> ReleaseLocals] /\ rel[t] \in ReleaseLocals
      /\ pc \in [Thread -> Points] /\ rel[t].back \in Backs
    BY DEF LInv, IInv, TypeOK, ReleaseLocals
<1>1. ReleaseEffect(t)
    BY ReleaseEffects DEF LInv, Release
<1>2. /\ rulesOff' = rulesOff /\ at' = at /\ up' = up /\ killed' = killed /\ node' = node
    BY DEF FailJob, ReleaseDRS, ReleaseDRSMark, ReleaseClient, ReleaseCRS, ReleaseCRSMark,
           ReleaseClear
<1>3. job'.rules = job.rules
    BY <1>0 DEF FailJob, ReleaseDRS, ReleaseDRSMark, ReleaseClient, ReleaseCRS, ReleaseCRSMark,
           ReleaseClear, Ended, JobRow
<1>4. Terminal' /\ ~job'.cleanup => rulesOff = {} /\ Down = {}
  <2>1. CASE NotRetired
    BY <2>1 DEF NotRetired, HoldInv, RulesHeld, GuestsHeld
  <2>2. CASE ReleaseClear(t)
    <3>1. CASE NothingRecorded
      <4>1. rulesOff = {}
        BY <3>1 DEF NothingRecorded, HoldInv, RulesHeld
      <4>2. Down = {}
        BY <3>1 DEF NothingRecorded, HoldInv, GuestsHeld, Down
      <4> QED
        BY <4>1, <4>2
    <3>2. CASE ~NothingRecorded
      BY <2>1, <2>2, <3>2 DEF ReleaseClear, NotRetired, Terminal
    <3> QED
      BY <3>1, <3>2
  <2>3. CASE ~ReleaseClear(t)
    <3>1. NotRetired
      BY <1>0, <2>3 DEF FailJob, ReleaseDRS, ReleaseDRSMark, ReleaseClient, ReleaseCRS,
           ReleaseCRSMark, NotRetired, Ended, JobRow, Terminal
    <3> QED
      BY <2>1, <3>1
  <2> QED
    BY <2>2, <2>3
<1>5. CASE FailJob(t)
  <2>1. pc'[t] = "release"
    BY <1>0, <1>5 DEF FailJob, Goto
  <2> QED
    BY <1>0, <1>1, <1>2, <1>3, <1>4, <2>1, ReleasePasses
<1>6. CASE ~FailJob(t)
  <2>1. pc[t] \in RelPoints \ {"release", "relNodes"}
    BY <1>6 DEF ReleaseDRS, ReleaseDRSMark, ReleaseClient, ReleaseCRS, ReleaseCRSMark, ReleaseClear,
           RelPoints
  <2>2. \/ /\ rel'[t].rules = rel[t].rules /\ rel'[t].stopped = rel[t].stopped
           /\ pc'[t] # "relGuestsMark"
        \/ pc'[t] \in Backs
    <3>1. CASE ReleaseDRS(t) \/ ReleaseDRSMark(t) \/ ReleaseCRSMark(t)
      BY <1>0, <3>1, AfterHolds DEF ReleaseDRS, ReleaseDRSMark, ReleaseCRSMark, Goto
    <3>2. CASE ReleaseClient(t) \/ ReleaseClear(t)
      BY <1>0, <3>2, AfterHolds DEF ReleaseClient, ReleaseClear, Goto
    <3>3. CASE ReleaseCRS(t)
      <4>1. rel' = rel \/ rel' = [rel EXCEPT ![t].ok = FALSE]
        BY <3>3 DEF ReleaseCRS
      <4>2. rel'[t].rules = rel[t].rules /\ rel'[t].stopped = rel[t].stopped
        BY <1>0, <4>1 DEF ReleaseLocals
      <4>3. pc'[t] # "relGuestsMark"
        BY <1>0, <3>3, AfterHolds DEF ReleaseCRS, Goto
      <4> QED
        BY <4>2, <4>3
    <3> QED
      BY <1>6, <3>1, <3>2, <3>3
  <2>3. Backs \cap RelPoints = {}
    BY BacksNoRelease
  <2> QED
    BY <1>0, <1>1, <1>2, <1>3, <1>4, <2>1, <2>2, <2>3, ReleasePasses
<1> QED
    BY <1>5, <1>6

(* The release reads what is on record, and that is all that is off or down. *)
LEMMA ReleaseReadHolds ==
    ASSUME NEW e \in Engine, LInv, Ending, Calm(e), HoldInv(e), NEW t \in Thread,
           ReleaseRead(t) \/ ReleaseNodes(t)
    PROVE  HoldInv(e)'
<1> USE DEF clusterVars
<1>0. /\ TypeOK /\ rel \in [Thread -> ReleaseLocals] /\ pc \in [Thread -> Points]
    BY DEF LInv, IInv, TypeOK
<1>1. ReleaseEffect(t)
    BY ReleaseEffects DEF LInv, Release
<1>2. /\ rulesOff' = rulesOff /\ at' = at /\ up' = up /\ killed' = killed /\ node' = node
      /\ job' = job /\ pc[t] \in RelPoints
    BY DEF ReleaseRead, ReleaseNodes, RelPoints
<1>3. Down' = Down
    BY <1>2 DEF Down
<1>4. /\ \A g \in Down' : g \in node'[at[g]].stopped
      /\ rulesOff' \subseteq job'.rules
      /\ Terminal' /\ ~job'.cleanup => rulesOff' = {} /\ Down' = {}
    BY <1>2, <1>3 DEF HoldInv, GuestsHeld, RulesHeld, Terminal
<1>5. rulesOff' \subseteq rel'[t].rules /\ Listed(t)'
  <2>1. CASE ReleaseRead(t)
    <3>1. rel'[t].rules = job.rules /\ pc'[t] = "relNodes"
      BY <1>0, <2>1 DEF ReleaseRead, Goto
    <3> QED
      BY <1>2, <1>4, <3>1 DEF Listed
  <2>2. CASE ReleaseNodes(t)
    <3>1. /\ rel'[t].rules = rel[t].rules /\ rel'[t].stopped = [n \in Node |-> node[n].stopped]
          /\ pc'[t] = AfterRead(rel'[t]) /\ pc[t] = "relNodes"
      BY <1>0, <2>2 DEF ReleaseNodes, ReleaseLocals, Goto
    <3>2. pc'[t] # "relGuestsMark"
      BY <3>1, AfterHolds
    <3>3. \A g \in Down : at[g] \in Node /\ g \in node[at[g]].stopped
      BY DEF HoldInv, GuestsHeld, Down
    <3>4. rulesOff \subseteq rel[t].rules
      BY <3>1 DEF HoldInv, RulesHeld, RelPoints
    <3> QED
      BY <1>2, <1>3, <3>1, <3>2, <3>3, <3>4 DEF Listed
  <2> QED
    BY <2>1, <2>2
<1>6. pc[t] # "failJob"
    BY <1>2 DEF RelPoints
<1> QED
    BY <1>0, <1>1, <1>2, <1>3, <1>4, <1>5, <1>6, ReleaseMoves

(* Rules that are enabled, or not, and the record of those that are not.    *)
LEMMA ReleaseRulesHolds ==
    ASSUME NEW e \in Engine, LInv, Ending, Calm(e), HoldInv(e), NEW t \in Thread,
           ReleaseRules(t) \/ ReleaseRulesMark(t)
    PROVE  HoldInv(e)'
<1> USE DEF clusterVars
<1>0. /\ TypeOK /\ job \in JobRow /\ rel \in [Thread -> ReleaseLocals] /\ pc \in [Thread -> Points]
      /\ rel[t] \in ReleaseLocals
    BY DEF LInv, IInv, TypeOK
<1>1. ReleaseEffect(t)
    BY ReleaseEffects DEF LInv, Release
<1>2. /\ at' = at /\ up' = up /\ killed' = killed /\ node' = node
      /\ pc[t] \in RelPoints \ {"release", "relNodes"} /\ pc[t] # "failJob"
    BY DEF ReleaseRules, ReleaseRulesMark, RelPoints
<1>3. Down' = Down
    BY <1>2 DEF Down
<1>4. rulesOff \subseteq rel[t].rules /\ rulesOff \subseteq job.rules
    BY <1>2 DEF HoldInv, RulesHeld
<1>5. /\ rulesOff' \subseteq rulesOff /\ rulesOff' \subseteq rel'[t].rules
      /\ rulesOff' \subseteq job'.rules
      /\ job'.cleanup = job.cleanup /\ job'.status = job.status
      /\ rel'[t].stopped = rel[t].stopped /\ pc'[t] # "relGuestsMark"
  <2>1. CASE ReleaseRules(t)
    <3>1. PICK refused \in SUBSET rel[t].rules :
            /\ rulesOff' = rulesOff \ (rel[t].rules \ refused)
            /\ rel' = [rel EXCEPT ![t].rules = refused]
      BY <2>1 DEF ReleaseRules
    <3>2. rel'[t].rules = refused /\ rel'[t].stopped = rel[t].stopped
      BY <1>0, <3>1 DEF ReleaseLocals
    <3>3. job' = job /\ pc'[t] = "relRulesMark"
      BY <1>0, <2>1 DEF ReleaseRules, Goto
    <3> QED
      BY <1>4, <3>1, <3>2, <3>3
  <2>2. CASE ReleaseRulesMark(t)
    <3>1. /\ job' = [job EXCEPT !.rules = rel[t].rules, !.due = FALSE] /\ rulesOff' = rulesOff
          /\ \E b : rel' = [rel EXCEPT ![t].ok = b]
          /\ pc'[t] = AfterRules(rel[t])
      BY <1>0, <2>2 DEF ReleaseRulesMark, Goto
    <3>2. /\ job'.rules = rel[t].rules /\ job'.cleanup = job.cleanup /\ job'.status = job.status
      BY <1>0, <3>1 DEF JobRow
    <3>3. rel'[t].rules = rel[t].rules /\ rel'[t].stopped = rel[t].stopped
      BY <1>0, <3>1 DEF ReleaseLocals
    <3>4. pc'[t] # "relGuestsMark"
      BY <3>1, AfterHolds
    <3> QED
      BY <1>4, <3>1, <3>2, <3>3, <3>4
  <2> QED
    BY <2>1, <2>2
<1>6. Listed(t)'
    BY <1>2, <1>3, <1>5 DEF HoldInv, Listed
<1>7. /\ \A g \in Down' : g \in node'[at[g]].stopped
      /\ Terminal' /\ ~job'.cleanup => rulesOff' = {} /\ Down' = {}
    BY <1>2, <1>3, <1>5 DEF HoldInv, GuestsHeld, RulesHeld, Terminal
<1> QED
    BY <1>0, <1>1, <1>2, <1>3, <1>5, <1>6, <1>7, ReleaseMoves

(* Guests that are started, or not, and the record of those that are not    *)
(* seen running.                                                            *)
LEMMA ReleaseGuestsHolds ==
    ASSUME NEW e \in Engine, LInv, Ending, Calm(e), HoldInv(e), NEW t \in Thread,
           ReleaseGuests(t) \/ ReleaseGuestsUnseen(t) \/ ReleaseGuestsMark(t)
    PROVE  HoldInv(e)'
<1> USE DEF clusterVars
<1> DEFINE n == HeldNode(t)
           list == rel[t].stopped[n]
           keep == IF rel[t].prune THEN list \ up ELSE list
<1>0. /\ IInv /\ TypeOK /\ rel \in [Thread -> ReleaseLocals] /\ pc \in [Thread -> Points]
      /\ rel[t] \in ReleaseLocals /\ rel[t].stopped \in [Node -> SUBSET Passthrough]
      /\ node \in [Node -> NodeRow]
    BY DEF LInv, IInv, TypeOK, ReleaseLocals
<1>1. ReleaseEffect(t)
    BY ReleaseEffects DEF LInv, Release
<1>2. /\ at' = at /\ killed' = killed /\ job' = job /\ rulesOff' = rulesOff
      /\ pc[t] \in {"relGuests", "relGuestsMark"}
    BY DEF ReleaseGuests, ReleaseGuestsUnseen, ReleaseGuestsMark
<1>3. n \in Node /\ list # {}
  <2>1. {m \in Node : rel[t].stopped[m] # {}} # {}
    BY <1>0, <1>2 DEF IInv, Working, HoldsGuests
  <2> QED
    BY <2>1, FirstIsMember DEF HeldNode
<1>4. /\ pc[t] \in RelPoints \ {"release", "relNodes"} /\ pc[t] # "failJob"
      /\ pc[t] \in RelPoints \ {"release"}
    BY <1>2 DEF RelPoints
<1>5. \A g \in Down : rel[t].stopped[at[g]] # {} => g \in rel[t].stopped[at[g]]
    BY <1>4 DEF HoldInv, Listed
<1>6. ASSUME Down' \subseteq Down, \A g \in Down' : g \in node'[at[g]].stopped,
             rel'[t].rules = rel[t].rules, Listed(t)'
      PROVE  HoldInv(e)'
  <2>1. /\ rulesOff' \subseteq job'.rules /\ rulesOff' \subseteq rel'[t].rules
        /\ Terminal' /\ ~job'.cleanup => rulesOff' = {} /\ Down' = {}
    BY <1>2, <1>4, <1>6 DEF HoldInv, GuestsHeld, RulesHeld, Terminal
  <2> QED
    BY <1>0, <1>1, <1>2, <1>4, <1>6, <2>1, ReleaseMoves
<1>7. CASE ReleaseGuests(t)
  <2>1. \E refused : up' = up \cup (list \ refused)
    BY <1>7, Zenon DEF ReleaseGuests
  <2>2. node' = node
    BY <1>7 DEF ReleaseGuests
  <2>3. rel'[t] = [rel[t] EXCEPT
                 !.keep = keep, !.ok = rel[t].ok /\ keep = {},
                 !.stopped = [rel[t].stopped EXCEPT ![n] = IF keep = list THEN {} ELSE list]]
    <3>1. rel' = [rel EXCEPT ![t] = [rel[t] EXCEPT
                 !.keep = keep, !.ok = rel[t].ok /\ keep = {},
                 !.stopped = [rel[t].stopped EXCEPT ![n] = IF keep = list THEN {} ELSE list]]]
      BY <1>7, Zenon DEF ReleaseGuests
    <3> HIDE DEF n, list, keep
    <3> QED
      BY <1>0, <3>1
  <2>4. pc'[t] = IF keep = list THEN AfterRules(rel'[t]) ELSE "relGuestsMark"
    <3>1. pc' = [pc EXCEPT ![t] = IF keep = list THEN AfterRules(rel'[t]) ELSE "relGuestsMark"]
      BY <1>7, Zenon DEF ReleaseGuests, Goto
    <3> HIDE DEF n, list, keep
    <3> QED
      BY <1>0, <3>1
  <2>5. Down' \subseteq Down /\ \A g \in Down' : g \notin up /\ (g \in list => g \in keep)
    BY <1>2, <2>1 DEF Down
  <2>6. \A g \in Down : at[g] = n => g \in list
    BY <1>3, <1>5
  <2>7. \A m \in Node : m # n => rel'[t].stopped[m] = rel[t].stopped[m]
    <3> HIDE DEF n, list, keep
    <3> QED
      BY <1>0, <2>3 DEF ReleaseLocals
  <2>8. /\ rel'[t].stopped[n] = (IF keep = list THEN {} ELSE list)
        /\ rel'[t].keep = keep /\ rel'[t].rules = rel[t].rules
    <3> HIDE DEF n, list, keep
    <3> QED
      BY <1>0, <1>3, <2>3 DEF ReleaseLocals
  <2>9. \A g \in Down : at[g] \in Node /\ g \in node[at[g]].stopped
    BY DEF HoldInv, GuestsHeld, Down
  <2>10. Listed(t)'
    <3>1. \A g \in Down' : rel'[t].stopped[at[g]] # {} => g \in rel'[t].stopped[at[g]]
      <4> HIDE DEF n, keep
      <4> QED
        BY <1>5, <2>5, <2>7, <2>8, <2>9
    <3>2. CASE keep = list
      <4>1. pc'[t] # "relGuestsMark"
        BY <2>4, <3>2, AfterHolds
      <4> QED
        BY <1>2, <3>1, <4>1 DEF Listed
    <3>3. CASE keep # list
      <4>1. \A m \in Node : rel'[t].stopped[m] = rel[t].stopped[m]
        BY <2>7, <2>8, <3>3
      <4>2. {m \in Node : rel'[t].stopped[m] # {}} = {m \in Node : rel[t].stopped[m] # {}}
        BY <4>1
      <4>3. HeldNode(t)' = n
        BY <4>2 DEF HeldNode
      <4>4. \A g \in Down' : at[g] = n => g \in rel'[t].keep
        BY <2>5, <2>6, <2>8
      <4> HIDE DEF n, list, keep
      <4> QED
        BY <1>2, <3>1, <4>3, <4>4 DEF Listed
    <3> QED
      BY <3>2, <3>3
  <2> QED
    BY <1>6, <2>2, <2>5, <2>8, <2>9, <2>10
<1>8. CASE ReleaseGuestsUnseen(t) \/ ReleaseGuestsMark(t)
  <2>1. up' = up /\ Down' = Down
    BY <1>2, <1>8 DEF ReleaseGuestsUnseen, ReleaseGuestsMark, Down
  <2>2. /\ rel'[t].rules = rel[t].rules
        /\ rel'[t].stopped = [rel[t].stopped EXCEPT ![n] = {}]
    <3>1. \/ rel' = [rel EXCEPT ![t] = [rel[t] EXCEPT !.ok = FALSE, !.stopped[n] = {}]]
          \/ rel' = [rel EXCEPT ![t] = [rel[t] EXCEPT !.stopped[n] = {}]]
      BY <1>8, Zenon DEF ReleaseGuestsUnseen, ReleaseGuestsMark
    <3> HIDE DEF n
    <3> QED
      BY <1>0, <3>1 DEF ReleaseLocals
  <2>3. pc'[t] = AfterRules(rel'[t])
    <3>1. pc' = [pc EXCEPT ![t] = AfterRules(rel'[t])]
      BY <1>8, Zenon DEF ReleaseGuestsUnseen, ReleaseGuestsMark, Goto
    <3> QED
      BY <1>0, <3>1
  <2>4. pc'[t] # "relGuestsMark"
    BY <2>3, AfterHolds
  <2>5. \A g \in Down : at[g] \in Node /\ g \in node[at[g]].stopped
    BY DEF HoldInv, GuestsHeld, Down
  <2>6. Listed(t)'
    <3>1. \A g \in Down : rel'[t].stopped[at[g]] # {} => g \in rel'[t].stopped[at[g]]
      <4> HIDE DEF n
      <4> QED
        BY <1>0, <1>5, <2>2, <2>5
    <3> QED
      BY <1>2, <2>1, <2>4, <3>1 DEF Listed
  <2>7. \A g \in Down : g \in node'[at[g]].stopped
    <3>1. CASE ReleaseGuestsUnseen(t)
      BY <2>5, <3>1 DEF ReleaseGuestsUnseen
    <3>2. CASE ReleaseGuestsMark(t)
      <4>1. /\ node' = [node EXCEPT ![n] = [Touched(node[n]) EXCEPT !.stopped = rel[t].keep]]
            /\ pc[t] = "relGuestsMark"
        BY <3>2, Zenon DEF ReleaseGuestsMark
      <4>2. \A g \in Down : at[g] = n => g \in rel[t].keep
        BY <4>1 DEF HoldInv, Listed
      <4> HIDE DEF n
      <4>3. node'[n].stopped = rel[t].keep /\ \A m \in Node \ {n} : node'[m] = node[m]
        BY <1>0, <1>3, <4>1 DEF Touched, NodeRow
      <4> QED
        BY <2>5, <4>2, <4>3
    <3> QED
      BY <1>8, <3>1, <3>2
  <2> QED
    BY <1>6, <2>1, <2>2, <2>6, <2>7
<1> QED
    BY <1>7, <1>8

(* Every step of a system whose ticks take nothing from a finished job.     *)
LEMMA HoldStep ==
    ASSUME NEW e, Engine = {e}, LInv, Ending, TickInv(e), Calm(e), HoldInv(e), [Next]_vars
    PROVE  HoldInv(e)'
<1>0. e \in Engine /\ TypeOK
    BY DEF LInv, IInv
<1>1. ASSUME NotRetired, NoneBegun, RulesFrame(e), StoppedKept, GuestsStay, CopiesKept(e)
      PROVE  HoldInv(e)'
    BY <1>1, RulesFramed, GuestsFramed, CopiedFramed DEF HoldInv
<1>2. CASE UNCHANGED vars
  <2>1. /\ job' = job /\ node' = node /\ rulesOff' = rulesOff /\ at' = at /\ up' = up
        /\ killed' = killed /\ pc' = pc /\ rel' = rel /\ eng' = eng
    BY <1>2 DEF vars, clusterVars
  <2>2. Phase(e)' = Phase(e)
    BY <2>1, PhaseKept
  <2> QED
    BY <1>1, <2>1, <2>2 DEF NotRetired, Terminal, NoneBegun, RulesFrame, StoppedKept, GuestsStay,
       Down, CopiesKept, RestorePoints
<1>3. ASSUME NEW t \in Thread, Release(t) PROVE HoldInv(e)'
    BY <1>0, <1>3, ReleaseOtherHolds, ReleaseReadHolds, ReleaseRulesHolds, ReleaseGuestsHolds
       DEF Release
<1>4. CASE EngineStep(e)
  <2>1. e \in Thread
    BY <1>0 DEF Thread
  <2>2. CASE TakeStep(e)
    BY <1>0, <2>2, StartCheckHolds, DisableRulesHolds, ListNodesHolds, RestartGuestsHolds,
       RecordStoppedHolds, StopPassthroughHolds, HealthCheckHolds DEF TakeStep
  <2>3. CASE \E n \in Node :
             \/ AdvanceRefused(e, n) \/ AdvanceWaits(e, n) \/ AdvanceTimedOut(e, n)
             \/ AdvanceDraining(e, n) \/ AdvanceUpgrading(e, n) \/ AdvanceRebooted(e, n)
             \/ AdvanceRestoreTimedOut(e, n)
    BY <1>0, <1>1, <2>3, AdvanceFrame
  <2>4. CASE \/ Tick(e) \/ DisableDRS(e) \/ DisableDRSOff(e) \/ CreateClient(e) \/ PauseCRS(e)
             \/ RecordCRS(e) \/ FailCheck(e) \/ StartNext(e) \/ FinishJob(e) \/ Sweep(e)
             \/ CheckAfterRules(e) \/ RerecordRules(e)
    BY <1>0, <1>1, <2>4, PlainFrame
  <2>5. CASE ~StartCheck(e) /\ (StartNode(e) \/ DrainStart(e))
    BY <1>0, <1>1, <2>5, StartFrame
  <2>6. CASE DrainCheck(e) \/ DrainGuest(e) \/ VerifyDrained(e)
    BY <1>0, <1>1, <2>6, DrainFrame
  <2>7. CASE RestoreGuest(e) \/ RestoreDone(e)
    BY <1>0, <1>1, <2>7, RestoreFrame DEF HoldInv
  <2> QED
    BY <1>3, <1>4, <2>1, <2>2, <2>3, <2>4, <2>5, <2>6, <2>7 DEF EngineStep, TakeStep
<1>5. CASE OutsideStep
    BY <1>0, <1>1, <1>5, OutsideFrame
<1> QED
    BY <1>2, <1>3, <1>4, <1>5, StepKinds

(* Nothing is off or down before the first tick.                            *)
LEMMA InitHold ==
    ASSUME NEW e \in Engine, Init
    PROVE  HoldInv(e)
<1>1. /\ rulesOff = {} /\ Down = {} /\ e \in Thread
      /\ \A t \in Thread : pc[t] = "idle"
    BY GuestAssumption DEF Init, Down, Thread
<1>2. \A g \in Passthrough : at[g] \in Node
    BY GuestAssumption DEF Init
<1> QED
    BY <1>1, <1>2 DEF HoldInv, RulesHeld, GuestsHeld, Listed, Copied, RelPoints, RestorePoints

(* A job that is let go holds no rule off and no guest down.                *)
LEMMA HoldReleases ==
    ASSUME NEW e, HoldInv(e)
    PROVE  RulesReleased /\ GuestsRestarted
BY DEF HoldInv, RulesHeld, GuestsHeld, RulesReleased, GuestsRestarted, Retired, Down

(* A job that completes has given back what its drains took: no HA rule is  *)
(* off and no passthrough guest is down once the sweep has let go of it,    *)
(* for any nodes, options, failed calls, crashes and requests, when one     *)
(* tick works on it at a time.  (Jobs that fail or are cancelled while a    *)
(* tick drains another node may not: see RulesComeBack.)                    *)
THEOREM CompletedGivesBack ==
    ASSUME NEW e, Engine = {e}
    PROVE  Spec => [](job.status = "completed" => RulesReleased /\ GuestsRestarted)
<1> DEFINE Going == job.status \in Active \cup {"completed"}
           Inv == LInv /\ Ending /\ TickInv(e) /\ (Going => HoldInv(e))
<1>1. Init => Inv
  <2>1. Init => Flagged /\ Ending
    BY DEF Init, Flagged, NoRelease, Ending, RelPoints
  <2> QED
    BY <2>1, InitInv, InitTick, InitHold DEF LInv
<1>2. Inv /\ [Next]_vars => Inv'
  <2> SUFFICES ASSUME Inv, [Next]_vars PROVE Inv'
    OBVIOUS
  <2>1. LInv' /\ Ending' /\ TickInv(e)'
    BY StepFlagged, StepEnding, StepTick
  <2>2. ASSUME Going' PROVE HoldInv(e)'
    <3>1. RowStep
      BY StepsTheRow
    <3>2. Going
      BY <2>2, <3>1 DEF RowStep, RowKept, RowEnds, RowArmed, RowMoves, RowRetired, Active
    <3>3. Calm(e)
      <4>1. CASE ~Terminal
        BY <4>1 DEF Calm
      <4>2. CASE Terminal
        <5>1. job.status = "completed"
          BY <3>2, <4>2 DEF Terminal, Active, Outcomes
        <5>2. Phase(e) \in {"sweep", "idle"}
          BY <5>1 DEF TickInv, Done
        <5>3. pc[e] = "ptStop" => Phase(e) \in {"advance", "done"}
          BY DEF TickInv, Copies, Phase, DrainPoints, RelPoints, RestorePoints
        <5>4. pc[e] = "ruleOff" => Phase(e) = "ruleOff"
          BY DEF Phase, DrainPoints, RelPoints, RestorePoints
        <5> QED
          BY <5>2, <5>3, <5>4 DEF Calm
      <4> QED
        BY <4>1, <4>2
    <3> QED
      BY <3>2, <3>3, HoldStep
  <2> QED
    BY <2>1, <2>2
<1>3. Inv => (job.status = "completed" => RulesReleased /\ GuestsRestarted)
    BY HoldReleases
<1> HIDE DEF Inv
<1> QED
    BY <1>1, <1>2, <1>3, PTL DEF Spec

(* The job has ended, or somebody is about to end it as failed.             *)
Over == Terminal \/ \E t \in Thread : pc[t] = "failJob"

(* A job of one node ends when its node is not being drained, and no drain  *)
(* of it is still to come.                                                  *)
Alone(e, n) ==
    Over => /\ node[n].step \notin {"pending", "draining"}
            /\ node[n].step = "skipped" => pc[e] \notin ChoosePoints

(* What a step may do to that.                                              *)
AloneStep(e, n) ==
    /\ node'[n].step \in {"pending", "draining"} =>
            node[n].step \in {"pending", "draining"} \/ pc[e] \in ChoosePoints
    /\ pc'[e] \in ChoosePoints => pc[e] \in ChoosePoints \/ node[n].step = "pending"
    /\ Over' => \/ Over \/ node'[n].step = "failed"
                \/ node'[n].step \in FinalSteps /\ pc'[e] \notin ChoosePoints

(* Such a step keeps it.                                                    *)
LEMMA AloneKept ==
    ASSUME NEW e, NEW n, Node = {n}, TickInv(e), Alone(e, n), AloneStep(e, n)
    PROVE  Alone(e, n)'
<1>1. pc[e] \in ChoosePoints => node[n].step \in {"pending", "skipped"}
    BY DEF TickInv, Copies
<1> QED
    BY <1>1 DEF Alone, AloneStep, FinalSteps

(* It is over, or will be, only once it was, or by the step itself.         *)
LEMMA OverKept ==
    ASSUME Terminal' => Terminal, \A t \in Thread : pc'[t] = "failJob" => pc[t] = "failJob"
    PROVE  Over' => Over
BY DEF Over

(* failNode for the one node.                                               *)
LEMMA AloneFails ==
    ASSUME NEW e \in Engine, TypeOK, TickInv(e), NEW n \in Node, NEW t \in Thread,
           NEW rows \in [Node -> NodeRow], NEW back \in Backs, FailNodeIn(rows, t, n, back),
           job' = job
    PROVE  AloneStep(e, n)
<1>0. e \in Thread /\ Backs \cap ChoosePoints = {} /\ "failJob" \notin Backs \cup ChoosePoints
    BY DEF Thread, Backs, ChoosePoints
<1>1. /\ \A u \in Thread \ {t} : pc'[u] = pc[u] /\ rel'[u] = rel[u]
      /\ \/ /\ rows[n].step \in FinalSteps /\ node'[n] = rows[n] /\ pc'[t] = back
         \/ /\ rows[n].step \notin FinalSteps /\ node'[n].step = "failed"
            /\ pc'[t] = "failJob"
    BY FailNodeRow
<1>2. node'[n].step \notin {"pending", "draining"}
    BY <1>1 DEF FinalSteps
<1>3. pc'[e] \in ChoosePoints => pc[e] \in ChoosePoints
    BY <1>0, <1>1
<1>4. CASE pc'[t] = back
  <2>1. Over' => Over
    BY <1>0, <1>1, <1>4, OverKept DEF Terminal
  <2> QED
    BY <1>2, <1>3, <2>1 DEF AloneStep
<1>5. CASE node'[n].step = "failed"
    BY <1>2, <1>3, <1>5 DEF AloneStep
<1> QED
    BY <1>1, <1>4, <1>5

(* A step of the tick that fails nothing and chooses nothing.               *)
LEMMA AloneMoves ==
    ASSUME NEW e \in Engine, NEW n, TypeOK, NEW p, pc' = [pc EXCEPT ![e] = p], p # "failJob",
           p \in ChoosePoints => pc[e] \in ChoosePoints \/ node[n].step = "pending",
           Terminal' => Terminal,
           \/ node'[n].step \in {node[n].step, "health_check", "completed", "restoring", UpgradeStep}
           \/ pc[e] \in ChoosePoints
    PROVE  AloneStep(e, n)
<1>1. e \in Thread /\ pc \in [Thread -> Points]
    BY DEF TypeOK, Thread
<1>2. Over' => Over
  <2>1. \A t \in Thread : pc'[t] = "failJob" => pc[t] = "failJob"
    BY <1>1
  <2> QED
    BY <2>1, OverKept
<1>3. UpgradeStep \notin {"pending", "draining"}
    BY DEF UpgradeStep
<1>4. pc'[e] = p
    BY <1>1
<1> QED
    BY <1>2, <1>3, <1>4 DEF AloneStep

(* advanceNode, ...                                                         *)
LEMMA AloneAdvances ==
    ASSUME NEW e \in Engine, TypeOK, TickInv(e), NEW n \in Node, Node = {n},
           \/ AdvanceRefused(e, n) \/ AdvanceWaits(e, n) \/ AdvanceTimedOut(e, n)
           \/ AdvanceDraining(e, n) \/ AdvanceUpgrading(e, n) \/ AdvanceRebooted(e, n)
           \/ AdvanceRestoreTimedOut(e, n) \/ AdvanceHealthCheck(e, n)
    PROVE  AloneStep(e, n)
<1> USE DEF clusterVars
<1> DEFINE touched == [node EXCEPT ![n] = Touched(node[n])]
           begun == [node EXCEPT ![n] = Moved(node[n], "restoring")]
<1>0. /\ node \in [Node -> NodeRow] /\ node[n] \in NodeRow /\ pc \in [Thread -> Points]
      /\ e \in Thread /\ n # e /\ "advance" \in Backs
    BY ThreadAssumption DEF TypeOK, Thread, Backs
<1>1. job' = job /\ pc[e] = "advance"
    BY DEF AdvanceRefused, AdvanceWaits, AdvanceTimedOut, AdvanceDraining, AdvanceUpgrading,
           AdvanceRebooted, AdvanceRestoreTimedOut, AdvanceHealthCheck, Advances
<1>2. \/ pc' = pc /\ (node' = node \/ SetStep(n, "health_check") \/ SetStep(n, "completed"))
      \/ node' \in {node, touched, begun} /\ \E p \in {"verify", "drain", "restart"} : Goto(e, p)
      \/ /\ node' = [node EXCEPT ![n] = Launched(node[n])]
         /\ pc' = [pc EXCEPT ![n] = IF pc[n] = "idle" THEN "apt" ELSE pc[n]]
      \/ \E rows \in {node, touched, begun} : FailNodeIn(rows, e, n, "advance")
  <2>1. CASE AdvanceRefused(e, n) \/ AdvanceWaits(e, n) \/ AdvanceTimedOut(e, n)
             \/ AdvanceUpgrading(e, n) \/ AdvanceRebooted(e, n) \/ AdvanceRestoreTimedOut(e, n)
    BY <2>1, Zenon DEF AdvanceRefused, AdvanceWaits, AdvanceTimedOut, AdvanceUpgrading,
                AdvanceRebooted, AdvanceRestoreTimedOut, FailNode
  <2>2. CASE AdvanceDraining(e, n)
    BY <2>2, Zenon DEF AdvanceDraining
  <2>3. CASE AdvanceHealthCheck(e, n)
    BY <2>3, Zenon DEF AdvanceHealthCheck
  <2> QED
    BY <2>1, <2>2, <2>3
<1>3. /\ touched \in [Node -> NodeRow] /\ begun \in [Node -> NodeRow]
      /\ touched[n].step = node[n].step /\ begun[n].step = "restoring"
  <2>1. "restoring" \in Steps
    BY DEF Steps, ActiveSteps, Advancing
  <2>2. Touched(node[n]) \in NodeRow /\ Moved(node[n], "restoring") \in NodeRow
    BY <1>0, <2>1, MovedIsRow
  <2>3. Touched(node[n]).step = node[n].step /\ Moved(node[n], "restoring").step = "restoring"
    BY <1>0 DEF Touched, Moved, NodeRow
  <2> QED
    BY <1>0, <2>2, <2>3
<1> HIDE DEF touched, begun
<1>4. CASE \E rows \in {node, touched, begun} : FailNodeIn(rows, e, n, "advance")
  <2>1. PICK rows \in {node, touched, begun} : FailNodeIn(rows, e, n, "advance")
    BY <1>4
  <2>2. rows \in [Node -> NodeRow]
    BY <1>0, <1>3
  <2> QED
    BY <1>0, <1>1, <2>1, <2>2, AloneFails
<1>5. CASE node' \in {node, touched, begun} /\ \E p \in {"verify", "drain", "restart"} : Goto(e, p)
  <2>1. PICK p \in {"verify", "drain", "restart"} : pc' = [pc EXCEPT ![e] = p]
    BY <1>5 DEF Goto
  <2>2. p \notin ChoosePoints /\ node'[n].step \in {node[n].step, "restoring"}
    BY <1>3, <1>5 DEF ChoosePoints
  <2> QED
    BY <1>1, <2>1, <2>2, AloneMoves DEF Terminal
<1>6. CASE pc' = pc /\ (node' = node \/ SetStep(n, "health_check") \/ SetStep(n, "completed"))
  <2>1. pc' = [pc EXCEPT ![e] = "advance"]
    BY <1>0, <1>1, <1>6
  <2>2. node'[n].step \in {node[n].step, "health_check", "completed"}
    BY <1>0, <1>6, SetStepRow
  <2> QED
    BY <1>1, <2>1, <2>2, AloneMoves DEF Terminal, ChoosePoints
<1>7. CASE /\ node' = [node EXCEPT ![n] = Launched(node[n])]
           /\ pc' = [pc EXCEPT ![n] = IF pc[n] = "idle" THEN "apt" ELSE pc[n]]
  <2>1. node'[n].step = node[n].step
    BY <1>0, <1>7 DEF Launched, Touched, NodeRow
  <2>2. pc'[e] = pc[e] /\ \A t \in Thread : pc'[t] = "failJob" => pc[t] = "failJob"
    BY <1>0, <1>7
  <2>3. Over' => Over
    BY <1>1, <2>2, OverKept DEF Terminal
  <2> QED
    BY <2>1, <2>2, <2>3 DEF AloneStep
<1> QED
    BY <1>2, <1>4, <1>5, <1>6, <1>7

(* ... startNode and the drain, ...                                         *)
LEMMA AloneDrains ==
    ASSUME NEW e \in Engine, TypeOK, TickInv(e), NEW n \in Node, Node = {n},
           \/ StartNode(e) \/ StartCheck(e) \/ DrainStart(e) \/ DrainGuest(e)
           \/ StopPassthrough(e) \/ VerifyDrained(e)
    PROVE  AloneStep(e, n)
<1> USE DEF clusterVars
<1> DEFINE snapshot == [node EXCEPT ![n] = [Touched(node[n]) EXCEPT !.guests = eng[e].left]]
           draining == [node EXCEPT ![n] = Moved(node[n], "draining")]
           Next1 == {"done", "check", "drainStart", "ruleOff", "verify", "drain", eng[e].back}
<1>0. /\ node \in [Node -> NodeRow] /\ node[n] \in NodeRow /\ pc \in [Thread -> Points]
      /\ e \in Thread /\ eng[e] \in EngineLocals /\ eng[e].left \in SUBSET Guest
      /\ eng[e].back \in Backs /\ "done" \in Backs
    BY DEF TypeOK, Thread, Backs, EngineLocals
<1>1. eng[e].n = n
    BY DEF StartNode, StartCheck, DrainStart, DrainGuest, StopPassthrough, VerifyDrained, TickInv,
           Copies, ChoosePoints, DrainPoints
<1>2. job'.status = job.status
  <2>1. job' = job \/ \E S : job' = WithRules(S)
    BY Zenon DEF StartNode, StartCheck, DrainStart, DrainGuest, StopPassthrough, VerifyDrained
  <2> QED
    BY <2>1 DEF WithRules, TypeOK, JobRow
<1>3. \/ /\ pc[e] \in ChoosePoints
         /\ \E p \in Next1 : Goto(e, p)
      \/ /\ node' = node \/ SetStep(n, UpgradeStep)
         /\ \E p \in {"drain", eng[e].back} : Goto(e, p)
      \/ /\ job' = job
         /\ \E rows \in {node, snapshot, draining}, back \in {"done", eng[e].back} :
                FailNodeIn(rows, e, n, back)
  <2>1. CASE StartNode(e)
    <3>1. pc[e] = "begin" /\ job' = job
      BY <2>1 DEF StartNode
    <3>2. (\E p \in {"done", "check"} : Goto(e, p)) \/ FailNodeIn(node, e, eng[e].n, "done")
      BY <2>1, Zenon DEF StartNode, FailNode
    <3> QED
      BY <1>1, <3>1, <3>2 DEF ChoosePoints
  <2>2. CASE StartCheck(e)
    <3>1. pc[e] = "check"
      BY <2>2 DEF StartCheck
    <3>2. \/ \E p \in {"done", "drainStart", "ruleOff"} : Goto(e, p)
          \/ /\ FailNodeIn([node EXCEPT ![eng[e].n] = [Touched(node[eng[e].n]) EXCEPT !.guests = eng[e].left]],
                           e, eng[e].n, "done")
             /\ job' = job
      BY <2>2, Zenon DEF StartCheck
    <3> QED
      BY <1>1, <3>1, <3>2 DEF ChoosePoints
  <2>3. CASE DrainStart(e)
    <3>1. pc[e] = "drainStart" /\ job' = job
      BY <2>3 DEF DrainStart
    <3>2. \/ \E p \in {"verify", "drain"} : Goto(e, p)
          \/ FailNodeIn([node EXCEPT ![eng[e].n] = Moved(node[eng[e].n], "draining")], e, eng[e].n, "done")
      BY <2>3, Zenon DEF DrainStart
    <3> QED
      BY <1>1, <3>1, <3>2 DEF ChoosePoints
  <2>4. CASE DrainGuest(e) \/ StopPassthrough(e) \/ VerifyDrained(e)
    <3>1. job' = job
      BY <2>4 DEF DrainGuest, StopPassthrough, VerifyDrained
    <3>2. \/ /\ node' = node \/ SetStep(eng[e].n, UpgradeStep)
             /\ \E p \in {"drain", eng[e].back} : Goto(e, p)
          \/ FailNodeIn(node, e, eng[e].n, eng[e].back)
      BY <2>4, Zenon DEF DrainGuest, StopPassthrough, VerifyDrained, FailNode
    <3> QED
      BY <1>1, <3>1, <3>2
  <2> QED
    BY <2>1, <2>2, <2>3, <2>4
<1>4. snapshot \in [Node -> NodeRow] /\ draining \in [Node -> NodeRow]
  <2>1. "draining" \in Steps
    BY DEF Steps, ActiveSteps, Advancing
  <2> QED
    BY <1>0, <2>1, MovedIsRow, RowUpdates
<1>5. "failJob" \notin Backs /\ Backs \cap ChoosePoints = {} /\ "drain" \notin ChoosePoints
    BY DEF Backs, ChoosePoints
<1> HIDE DEF snapshot, draining
<1>6. CASE pc[e] \in ChoosePoints /\ \E p \in Next1 : Goto(e, p)
  <2>1. PICK p \in Next1 : pc' = [pc EXCEPT ![e] = p]
    BY <1>6 DEF Goto
  <2>2. p # "failJob"
    BY <1>0, <1>5
  <2> QED
    BY <1>2, <1>6, <2>1, <2>2, AloneMoves DEF Terminal
<1>7. CASE /\ node' = node \/ SetStep(n, UpgradeStep)
           /\ \E p \in {"drain", eng[e].back} : Goto(e, p)
  <2>1. PICK p \in {"drain", eng[e].back} : pc' = [pc EXCEPT ![e] = p]
    BY <1>7 DEF Goto
  <2>2. p # "failJob" /\ p \notin ChoosePoints
    BY <1>0, <1>5
  <2>3. node'[n].step \in {node[n].step, UpgradeStep}
    BY <1>0, <1>7, SetStepRow
  <2> QED
    BY <1>2, <2>1, <2>2, <2>3, AloneMoves DEF Terminal
<1>8. CASE /\ job' = job
           /\ \E rows \in {node, snapshot, draining}, back \in {"done", eng[e].back} :
                FailNodeIn(rows, e, n, back)
  <2>1. PICK rows \in {node, snapshot, draining}, back \in {"done", eng[e].back} :
                FailNodeIn(rows, e, n, back)
    BY <1>8
  <2>2. rows \in [Node -> NodeRow] /\ back \in Backs
    BY <1>0, <1>4
  <2> QED
    BY <1>0, <1>8, <2>1, <2>2, AloneFails
<1> QED
    BY <1>3, <1>6, <1>7, <1>8

(* ... and the rest of the tick.                                            *)
LEMMA AloneTicks ==
    ASSUME NEW e \in Engine, TypeOK, TickInv(e), NEW n \in Node, Node = {n},
           \/ Tick(e) \/ DisableDRS(e) \/ DisableDRSOff(e) \/ CreateClient(e) \/ PauseCRS(e)
           \/ RecordCRS(e) \/ FailCheck(e) \/ StartNext(e) \/ FinishJob(e) \/ Sweep(e)
           \/ CheckAfterRules(e) \/ RerecordRules(e) \/ ListNodes(e) \/ DisableRules(e)
           \/ RecordStopped(e) \/ DrainCheck(e) \/ RestartGuests(e) \/ RestoreGuest(e)
           \/ RestoreDone(e)
    PROVE  AloneStep(e, n)
<1> USE DEF clusterVars
<1>0. /\ node \in [Node -> NodeRow] /\ node[n] \in NodeRow /\ pc \in [Thread -> Points]
      /\ e \in Thread /\ job \in JobRow /\ eng[e].back \in Backs
    BY DEF TypeOK, Thread, EngineLocals
<1>1. "failJob" \notin Backs /\ Backs \cap ChoosePoints = {}
    BY DEF Backs, ChoosePoints
<1>2. CASE \/ Tick(e) \/ DisableDRS(e) \/ DisableDRSOff(e) \/ CreateClient(e) \/ PauseCRS(e)
           \/ RecordCRS(e) \/ ListNodes(e) \/ RerecordRules(e) \/ DisableRules(e)
  <2>1. PICK p \in {"drs", "sweep", "drsOff", "client", "crs", "crsMark", "nodes", "advance", "ruleRec",
                    "ruleChk"} : pc' = [pc EXCEPT ![e] = p] /\ (p \in {"ruleRec", "ruleChk"} =>
                         pc[e] \in ChoosePoints)
    BY <1>2 DEF Tick, DisableDRS, DisableDRSOff, CreateClient, PauseCRS, RecordCRS, ListNodes,
       RerecordRules, DisableRules, Goto, ChoosePoints
  <2>2. node' = node /\ job'.status = job.status
    BY <1>0, <1>2 DEF Tick, DisableDRS, DisableDRSOff, CreateClient, PauseCRS, RecordCRS, ListNodes,
       RerecordRules, DisableRules, WithRules, JobRow
  <2>3. p \in ChoosePoints => p \in {"ruleRec", "ruleChk"}
    BY DEF ChoosePoints
  <2> QED
    BY <2>1, <2>2, <2>3, AloneMoves DEF Terminal
<1>3. CASE StartNext(e)
  <2>1. PICK p \in {"begin", "done"} :
          pc' = [pc EXCEPT ![e] = p] /\ (p = "begin" => \E m \in Node : node[m].step = "pending")
    BY <1>3 DEF StartNext, Goto
  <2>2. node' = node /\ job' = job
    BY <1>3 DEF StartNext
  <2> QED
    BY <2>1, <2>2, AloneMoves DEF Terminal, ChoosePoints
<1>4. CASE FailCheck(e)
  <2>1. node' = node /\ job' = job
    BY <1>4 DEF FailCheck
  <2>2. CASE node[n].step = "failed"
    <3>1. pc'[e] \in {"failJob", "start"}
      BY <1>0, <1>4 DEF FailCheck, Goto
    <3> QED
      BY <2>1, <2>2, <3>1 DEF AloneStep, ChoosePoints
  <2>3. CASE node[n].step # "failed"
    <3>1. pc' = [pc EXCEPT ![e] = "start"]
      BY <1>4, <2>3 DEF FailCheck, Goto
    <3> QED
      BY <2>1, <3>1, AloneMoves DEF Terminal, ChoosePoints
  <2> QED
    BY <2>2, <2>3
<1>5. CASE FinishJob(e)
  <2>1. node' = node /\ pc[e] = "done"
    BY <1>5 DEF FinishJob
  <2>2. CASE AllFinished
    <3>1. \E p \in {"failJob", "sweep", "release"} : pc' = [pc EXCEPT ![e] = p]
      BY <1>5, Zenon DEF FinishJob, Goto
    <3>2. pc'[e] \in {"failJob", "sweep", "release"}
      BY <1>0, <3>1
    <3>3. node[n].step \in FinalSteps
      BY <2>2 DEF AllFinished
    <3> QED
      BY <2>1, <3>2, <3>3 DEF AloneStep, ChoosePoints, FinalSteps
  <2>3. CASE ~AllFinished
    <3>1. pc' = [pc EXCEPT ![e] = "sweep"] /\ job' = job
      BY <1>5, <2>3 DEF FinishJob, Goto
    <3> QED
      BY <2>1, <3>1, AloneMoves DEF Terminal, ChoosePoints
  <2> QED
    BY <2>2, <2>3
<1>6. CASE Sweep(e) \/ CheckAfterRules(e)
  <2>1. /\ node' = node /\ (Sweep(e) => job' = job \/ job' = [job EXCEPT !.due = FALSE])
        /\ CheckAfterRules(e) => job' = job /\ pc[e] \in ChoosePoints
    BY <1>6 DEF Sweep, CheckAfterRules, ChoosePoints
  <2>2. job'.status = job.status
    BY <1>0, <1>6, <2>1 DEF JobRow
  <2>3. CASE Sweep(e)
    <3>1. PICK p \in {"idle", "release"} : pc' = [pc EXCEPT ![e] = p]
      BY <2>3, Zenon DEF Sweep, Goto
    <3> QED
      BY <2>1, <2>2, <3>1, AloneMoves DEF Terminal, ChoosePoints
  <2>4. CASE CheckAfterRules(e)
    <3>1. PICK p \in {"drainStart", "release", "done"} : pc' = [pc EXCEPT ![e] = p]
      BY <2>4, Zenon DEF CheckAfterRules, Goto
    <3> QED
      BY <2>1, <2>2, <2>4, <3>1, AloneMoves DEF Terminal
  <2> QED
    BY <1>6, <2>3, <2>4
<1>7. CASE RecordStopped(e) \/ DrainCheck(e) \/ RestartGuests(e)
  <2>1. PICK p \in {"ptStop", "verify", "guest", "restore", eng[e].back} : pc' = [pc EXCEPT ![e] = p]
    BY <1>7, Zenon DEF RecordStopped, DrainCheck, RestartGuests, Goto
  <2>2. p # "failJob" /\ p \notin ChoosePoints
    BY <1>0, <1>1 DEF ChoosePoints
  <2>3. job' = job
    BY <1>7 DEF RecordStopped, DrainCheck, RestartGuests
  <2>4. node'[n].step = node[n].step
    <3>1. \/ node' = node
          \/ \E g : node' = [node EXCEPT ![eng[e].n] = Recorded(node[eng[e].n], g)]
          \/ \E keep : node' = [node EXCEPT ![eng[e].n] = [Touched(node[eng[e].n]) EXCEPT !.stopped = keep]]
      BY <1>7, Zenon DEF RecordStopped, DrainCheck, RestartGuests
    <3>2. \A g : Recorded(node[n], g).step = node[n].step
      BY <1>0 DEF Recorded, Touched, NodeRow
    <3>3. \A keep : [Touched(node[n]) EXCEPT !.stopped = keep].step = node[n].step
      BY <1>0 DEF Touched, NodeRow
    <3>4. CASE \E g : node' = [node EXCEPT ![eng[e].n] = Recorded(node[eng[e].n], g)]
      BY <1>0, <3>2, <3>4
    <3>5. CASE \E keep : node' = [node EXCEPT ![eng[e].n] = [Touched(node[eng[e].n]) EXCEPT !.stopped = keep]]
      BY <1>0, <3>3, <3>5
    <3> QED
      BY <3>1, <3>4, <3>5
  <2> QED
    BY <2>1, <2>2, <2>3, <2>4, AloneMoves DEF Terminal
<1>8. CASE RestoreGuest(e) \/ RestoreDone(e)
  <2>1. /\ job' = job /\ pc[e] = "restore"
        /\ \/ pc' = pc /\ node' = node
           \/ pc' = [pc EXCEPT ![e] = "advance"] /\ SetStep(eng[e].n, "completed")
    BY <1>8 DEF RestoreGuest, RestoreDone, Goto
  <2>2. eng[e].n = n
    BY <2>1 DEF TickInv, Copies, RestorePoints
  <2>3. node'[n].step \in {node[n].step, "completed"}
    BY <1>0, <2>1, <2>2, SetStepRow
  <2>4. PICK p \in {"restore", "advance"} : pc' = [pc EXCEPT ![e] = p]
    BY <1>0, <2>1
  <2> QED
    BY <2>1, <2>3, <2>4, AloneMoves DEF Terminal, ChoosePoints
<1> QED
    BY <1>2, <1>3, <1>4, <1>5, <1>6, <1>7, <1>8

(* The release, ...                                                         *)
LEMMA AloneReleases ==
    ASSUME NEW e \in Engine, LInv, Ending, NEW n \in Node, NEW t \in Thread, Release(t)
    PROVE  AloneStep(e, n)
<1>1. ReleaseEffect(t)
    BY ReleaseEffects DEF LInv
<1>2. Over
    BY <1>1 DEF ReleaseEffect, Ending, Over
<1>3. rel[t].back \in Backs /\ e \in Thread
    BY DEF LInv, IInv, TypeOK, ReleaseLocals, Thread
<1>4. pc'[e] \in ChoosePoints => pc[e] \in ChoosePoints
    BY <1>1, <1>3 DEF ReleaseEffect, Backs, RelPoints, ChoosePoints
<1> QED
    BY <1>1, <1>2, <1>4 DEF AloneStep, ReleaseEffect

(* ... the goroutine of the node, and the requests for it, ...              *)
LEMMA AloneWorks ==
    ASSUME NEW e \in Engine, TypeOK, TickInv(e), NEW n \in Node,
           \/ SSHUpgrade(n) \/ SSHDecide(n) \/ SSHMarkReboot(n) \/ SSHReboot(n)
           \/ ConfirmReboot(n) \/ ConfirmMark(n) \/ ConfirmUpgrade(n) \/ SkipNode(n)
    PROVE  AloneStep(e, n)
<1> USE DEF clusterVars
<1> DEFINE P == {"idle", "rebootCheck", "rebootMark", "reboot", "confHealth", "confReboot", "confMark"}
           rows == [node EXCEPT ![n] = Moved(node[n], "rebooting")]
           owed == [node EXCEPT ![n] = [Moved(node[n], "health_check") EXCEPT !.owed = TRUE]]
           S == {"health_check", "rebooting", "skipped"}
<1>0. /\ node \in [Node -> NodeRow] /\ node[n] \in NodeRow /\ pc \in [Thread -> Points]
      /\ e \in Thread /\ n # e /\ n \in Thread /\ "idle" \in Backs
    BY ThreadAssumption DEF TypeOK, Thread, Backs
<1>1. job' = job
    BY DEF SSHUpgrade, SSHDecide, SSHMarkReboot, SSHReboot, ConfirmReboot, ConfirmMark,
           ConfirmUpgrade, SkipNode
<1>2. \/ /\ pc' = pc \/ (\E p \in P : Goto(n, p))
         /\ node' = node \/ node' = owed \/ \E s \in S : SetStep(n, s)
      \/ FailNodeIn(node, n, n, "idle")
      \/ FailNodeIn(rows, n, n, "idle")
  <2>1. CASE SSHUpgrade(n) \/ SSHMarkReboot(n) \/ SSHReboot(n) \/ ConfirmReboot(n) \/ SkipNode(n)
    BY <2>1, Zenon DEF SSHUpgrade, SSHMarkReboot, SSHReboot, ConfirmReboot, SkipNode, FailNode
  <2>2. CASE ConfirmMark(n)
    BY <2>2 DEF ConfirmMark
  <2>3. CASE SSHDecide(n)
    BY <2>3, Zenon DEF SSHDecide, FailNode
  <2>4. CASE ConfirmUpgrade(n)
    <3>1. \/ FailNode(n, n, "idle")
          \/ Goto(n, "confHealth") /\ node' = node
          \/ node' = owed /\ pc' = pc
          \/ node' = node /\ Goto(n, "confReboot")
      BY <2>4, Zenon DEF ConfirmUpgrade
    <3> QED
      BY <3>1 DEF FailNode
  <2> QED
    BY <2>1, <2>2, <2>3, <2>4
<1>3. rows \in [Node -> NodeRow] /\ owed[n].step = "health_check"
  <2>1. "rebooting" \in Steps
    BY DEF Steps, ActiveSteps, Advancing
  <2>2. Moved(node[n], "rebooting") \in NodeRow
    BY <1>0, <2>1, MovedIsRow
  <2>3. [Moved(node[n], "health_check") EXCEPT !.owed = TRUE].step = "health_check"
    BY <1>0 DEF Moved, NodeRow
  <2> QED
    BY <1>0, <2>2, <2>3
<1> HIDE DEF rows, owed
<1>4. CASE FailNodeIn(node, n, n, "idle") \/ FailNodeIn(rows, n, n, "idle")
    BY <1>0, <1>1, <1>3, <1>4, AloneFails
<1>5. CASE /\ pc' = pc \/ (\E p \in P : Goto(n, p))
           /\ node' = node \/ node' = owed \/ \E s \in S : SetStep(n, s)
  <2>1. pc'[e] = pc[e] /\ \A t \in Thread : pc'[t] = "failJob" => pc[t] = "failJob"
    BY <1>0, <1>5 DEF Goto
  <2>2. Over' => Over
    BY <1>1, <2>1, OverKept DEF Terminal
  <2>3. node'[n].step \in S \cup {node[n].step}
    BY <1>0, <1>3, <1>5, SetStepRow
  <2> QED
    BY <2>1, <2>2, <2>3 DEF AloneStep
<1> QED
    BY <1>2, <1>4, <1>5

(* ... and everything else outside the tick, when nobody cancels.           *)
LEMMA AloneOutside ==
    ASSUME NEW e \in Engine, TypeOK, TickInv(e), NEW n \in Node, Node = {n}, MaxCancels = 0,
           OutsideStep
    PROVE  AloneStep(e, n)
<1> USE DEF clusterVars
<1>0. /\ node \in [Node -> NodeRow] /\ pc \in [Thread -> Points] /\ e \in Thread
      /\ Api \in Thread /\ e # Api /\ job \in JobRow /\ spent.cancel \in Nat
    BY ThreadAssumption DEF TypeOK, Thread
<1>1. CASE \/ SSHUpgrade(n) \/ SSHDecide(n) \/ SSHMarkReboot(n) \/ SSHReboot(n)
           \/ ConfirmReboot(n) \/ ConfirmMark(n) \/ ConfirmUpgrade(n) \/ SkipNode(n)
    BY <1>1, AloneWorks
<1>2. ~CancelJob
    BY <1>0 DEF CancelJob
<1>3. CASE CreateAnother
  <2>1. node' = node /\ job' = job /\ pc' = [pc EXCEPT ![Api] = "release"]
    BY <1>3 DEF CreateAnother, Goto
  <2>2. Over
    BY <1>3 DEF CreateAnother, Over
  <2> QED
    BY <1>0, <2>1, <2>2 DEF AloneStep
<1>4. CASE StartJob \/ PauseJob \/ ResumeJob \/ BackoffPasses \/ HourPasses
  <2>1. node' = node /\ pc' = pc /\ (Terminal' => Terminal)
    BY <1>0, <1>4 DEF StartJob, PauseJob, ResumeJob, BackoffPasses, HourPasses, JobRow, Terminal, Outcomes
  <2>2. Over' => Over
    BY <2>1, OverKept
  <2> QED
    BY <2>1, <2>2 DEF AloneStep
<1>5. CASE GoStale(n) \/ GoLate(n) \/ HostGoesDown(n) \/ HostBoots(n) \/ \E g \in Guest : GuestMoves(g)
  <2>1. job' = job /\ pc' = pc
    BY <1>5 DEF GoStale, GoLate, HostGoesDown, HostBoots, GuestMoves
  <2>2. node'[n].step = node[n].step
    BY <1>0, <1>5 DEF GoStale, GoLate, HostGoesDown, HostBoots, GuestMoves, NodeRow
  <2>3. Over' => Over
    BY <2>1, OverKept DEF Terminal
  <2> QED
    BY <2>1, <2>2, <2>3 DEF AloneStep
<1>6. CASE Crash
  <2>1. node' = node /\ job' = job /\ \A t \in Thread : pc'[t] = "idle"
    BY <1>6 DEF Crash
  <2>2. Over' => Over
    BY <2>1, OverKept DEF Terminal
  <2> QED
    BY <1>0, <2>1, <2>2 DEF AloneStep, ChoosePoints
<1> QED
    BY <1>1, <1>2, <1>3, <1>4, <1>5, <1>6 DEF OutsideStep

(* Every step of a job of one node that nobody cancels.                     *)
LEMMA StepAlone ==
    ASSUME NEW e, Engine = {e}, NEW n, Node = {n}, MaxCancels = 0,
           LInv, Ending, TickInv(e), Alone(e, n), [Next]_vars
    PROVE  Alone(e, n)'
<1>0. e \in Engine /\ n \in Node /\ TypeOK
    BY DEF LInv, IInv
<1>1. AloneStep(e, n)
  <2>1. CASE UNCHANGED vars
    <3>1. job' = job /\ node' = node /\ pc' = pc
      BY <2>1 DEF vars
    <3>2. Over' => Over
      BY <3>1, OverKept DEF Terminal
    <3> QED
      BY <3>1, <3>2 DEF AloneStep
  <2>2. ASSUME NEW t \in Thread, Release(t) PROVE AloneStep(e, n)
    BY <1>0, <2>2, AloneReleases
  <2>3. CASE EngineStep(e)
    <3>1. e \in Thread
      BY <1>0 DEF Thread
    <3>2. CASE \/ AdvanceRefused(e, n) \/ AdvanceWaits(e, n) \/ AdvanceTimedOut(e, n)
               \/ AdvanceDraining(e, n) \/ AdvanceUpgrading(e, n) \/ AdvanceRebooted(e, n)
               \/ AdvanceRestoreTimedOut(e, n) \/ AdvanceHealthCheck(e, n)
      BY <1>0, <3>2, AloneAdvances
    <3>3. CASE \/ StartNode(e) \/ StartCheck(e) \/ DrainStart(e) \/ DrainGuest(e)
               \/ StopPassthrough(e) \/ VerifyDrained(e)
      BY <1>0, <3>3, AloneDrains
    <3>4. CASE \/ Tick(e) \/ DisableDRS(e) \/ DisableDRSOff(e) \/ CreateClient(e) \/ PauseCRS(e)
               \/ RecordCRS(e) \/ FailCheck(e) \/ StartNext(e) \/ FinishJob(e) \/ Sweep(e)
               \/ CheckAfterRules(e) \/ RerecordRules(e) \/ ListNodes(e) \/ DisableRules(e)
               \/ RecordStopped(e) \/ DrainCheck(e) \/ RestartGuests(e) \/ RestoreGuest(e)
               \/ RestoreDone(e)
      BY <1>0, <3>4, AloneTicks
    <3> QED
      BY <2>2, <2>3, <3>1, <3>2, <3>3, <3>4 DEF EngineStep
  <2>4. CASE OutsideStep
    BY <1>0, <2>4, AloneOutside
  <2> QED
    BY <2>1, <2>2, <2>3, <2>4, StepKinds
<1> QED
    BY <1>1, AloneKept

(* So no tick takes anything away from a job of one node that has ended.    *)
LEMMA AloneIsCalm ==
    ASSUME NEW e, NEW n, Node = {n}, TickInv(e), Alone(e, n)
    PROVE  Calm(e)
<1>1. pc[e] = "ruleOff" => node[n].step \in {"pending", "skipped"} /\ pc[e] \in ChoosePoints
    BY DEF TickInv, Copies, ChoosePoints
<1>2. pc[e] = "ptStop" => node[n].step = "draining"
    BY DEF TickInv, Copies, DrainPoints
<1> QED
    BY <1>1, <1>2 DEF Calm, Alone, Over

(* What a job of one node keeps when nobody cancels it.                     *)
LEMMA AloneHolds ==
    ASSUME NEW e, Engine = {e}, NEW n, Node = {n}, MaxCancels = 0
    PROVE  Spec => [](RulesReleased /\ GuestsRestarted)
<1> DEFINE Inv == LInv /\ Ending /\ TickInv(e) /\ HoldInv(e) /\ Alone(e, n)
<1>1. Init => Inv
  <2>1. Init => Flagged /\ Ending
    BY DEF Init, Flagged, NoRelease, Ending, RelPoints
  <2>2. Init => Alone(e, n)
    BY DEF Init, Alone, Over, Terminal, Outcomes
  <2> QED
    BY <2>1, <2>2, InitInv, InitTick, InitHold DEF LInv
<1>2. Inv /\ [Next]_vars => Inv'
  <2> SUFFICES ASSUME Inv, [Next]_vars PROVE Inv'
    OBVIOUS
  <2>1. LInv' /\ Ending' /\ TickInv(e)'
    BY StepFlagged, StepEnding, StepTick
  <2>2. Calm(e)
    BY AloneIsCalm
  <2> QED
    BY <2>1, <2>2, HoldStep, StepAlone
<1>3. Inv => RulesReleased /\ GuestsRestarted
    BY HoldReleases
<1> HIDE DEF Inv
<1> QED
    BY <1>1, <1>2, <1>3, PTL DEF Spec

(* However the job ends, failed calls and crashes included, every HA rule   *)
(* that a drain disabled is on again once the sweep has let go of the job.  *)
(* The job has one node and is not cancelled: isJobCancelled is not true of *)
(* a failed job, so the tick may disable rules for one node while another   *)
(* fails the job, and a cancel may fall between its check and the call.     *)
THEOREM RulesComeBack ==
    ASSUME NEW e, Engine = {e}, NEW n, Node = {n}, MaxCancels = 0
    PROVE  Spec => []RulesReleased
BY AloneHolds, PTL

(* Under the same conditions every passthrough guest that the drain shut    *)
(* down runs again, unless the reboot itself took it down.                  *)
THEOREM GuestsComeBack ==
    ASSUME NEW e, Engine = {e}, NEW n, Node = {n}, MaxCancels = 0
    PROVE  Spec => []GuestsRestarted
BY AloneHolds, PTL

-----------------------------------------------------------------------------
(* The reboots of a job that updates one node at a time take down no guest  *)
(* that runs, as long as no call fails and the process is not killed.       *)

(* The tick has given the node up before its host went down.                *)
Felled(n) == host[n] = "asked" /\ node[n].step = "failed"

(* Who was asked to reboot is marked so, about to be, or given up.          *)
Asks ==
    \A n \in Node : host[n] = "asked" =>
        node[n].step \in {"rebooting", "failed"} \/ (node[n].step = "awaiting_upgrade" /\ pc[n] = "confMark")

(* A node given up is met by the tick that did so before it starts another: *)
(* what Overtaken says of a session.                                        *)
Met(e) ==
    \A n \in Node : Felled(n) =>
        \/ Phase(e) = "advance" /\ eng[e].rows[n].step \in Advancing
        \/ Phase(e) \in {"sweep", "idle"} /\ (Terminal \/ pc[e] = "failJob")

(* The tick advances one node, and works on that one.                       *)
AtWork(e) == pc[e] \in RestorePoints \/ (pc[e] \in DrainPoints /\ eng[e].back = "advance")

Solo(e) ==
    /\ opt.parallel = 1 /\ Phase(e) = "advance" =>
            \A m, k \in Node :
                eng[e].rows[m].step \in Advancing /\ eng[e].rows[k].step \in Advancing => m = k
    /\ AtWork(e) => eng[e].rows[eng[e].n].step \in Advancing

(* A guest that the reboot may take down: see RebootSparesGuests.           *)
Excepted(g) == g \in moved \/ (g \in Passthrough /\ Terminal)

Spared ==
    opt.parallel = 1 =>
        /\ \A g \in killed : Excepted(g)
        /\ \A n \in Node : Doomed(n) => \A g \in RunningOn(n) : Excepted(g)

SpareInv(e) == Asks /\ Met(e) /\ Solo(e) /\ Spared

(* What a step may do to a host that is asked to reboot, ...                *)
AskedStep(e, n) ==
    host'[n] = "asked" =>
        \/ /\ host[n] = "asked" /\ node'[n].step = node[n].step
           /\ pc[n] = "confMark" => pc'[n] = "confMark"
        \/ node'[n].step = "rebooting"
        \/ node'[n].step = "awaiting_upgrade" /\ pc'[n] = "confMark"
        \/ /\ node'[n].step = "failed"
           /\ \/ Phase(e)' = "advance" /\ eng'[e].rows[n].step \in Advancing
              \/ LiveFailed(n)

(* ... to the phase of the tick, ...                                        *)
MetStep(e) ==
    \/ \A n \in Node : ~Felled(n) /\ ~LiveFailed(n)
    \/ PhaseStep(e)
    \/ Phase(e)' \in {"sweep", "idle"} /\ (Terminal' \/ pc'[e] = "failJob")

(* ... to its copies, ...                                                   *)
SoloStep(e) ==
    /\ Phase(e)' = "advance" =>
            (Phase(e) = "advance" /\ eng'[e].rows = eng[e].rows) \/ eng'[e].rows = node
    /\ AtWork(e)' =>
            \/ AtWork(e) /\ eng'[e].n = eng[e].n /\ eng'[e].rows = eng[e].rows
            \/ eng'[e].rows[eng'[e].n].step \in Advancing

(* ... and to the guests.                                                   *)
SparedStep ==
    /\ moved \subseteq moved'
    /\ opt.parallel = 1 =>
            /\ \A g \in killed' : g \in killed \/ Excepted(g)'
            /\ \A n \in Node : Doomed(n)' =>
                   \A g \in RunningOn(n)' : (Doomed(n) /\ g \in RunningOn(n)) \/ Excepted(g)'

(* At most one node is under way, or can be again.                          *)
LEMMA OneInPool ==
    ASSUME NEW e, TypeOK, Room(e), opt.parallel = 1, NEW m \in Pool(e), NEW k \in Pool(e)
    PROVE  m = k
<1>1. IsFiniteSet(Pool(e))
    BY NodeAssumption, FS_Subset DEF Pool
<1>2. SUFFICES ASSUME m # k PROVE FALSE
    OBVIOUS
<1>3. {m, k} \subseteq Pool(e)
    OBVIOUS
<1>4. IsFiniteSet({m, k}) /\ Cardinality({m, k}) <= Cardinality(Pool(e))
    BY <1>1, <1>3, FS_Subset
<1>5. Cardinality({m, k}) = 2
  <2>1. IsFiniteSet({m}) /\ Cardinality({m}) = 1
    BY FS_Singleton
  <2>2. {m, k} = {m} \cup {k}
    OBVIOUS
  <2> QED
    BY <1>2, <2>1, <2>2, FS_AddElement
<1>6. Cardinality(Pool(e)) \in Nat
    BY <1>1, FS_CardinalityType
<1> QED
    BY <1>4, <1>5, <1>6 DEF Room

(* A host that is asked to reboot is that of a node on one of these steps.  *)
LEMMA Unasked ==
    ASSUME Asks, NEW n \in Node, node[n].step \notin {"rebooting", "failed", "awaiting_upgrade"}
    PROVE  host[n] # "asked"
BY DEF Asks

(* A node that is doomed and not given up is under way.                     *)
LEMMA DoomedInPool ==
    ASSUME NEW e, TickInv(e), Asks, NEW n \in Node, Doomed(n)
    PROVE  Felled(n) \/ n \in Pool(e)
<1>1. Worker(n)
    BY DEF TickInv, Workers
<1> QED
    BY <1>1 DEF Worker, Doomed, Dooming, Felled, Asks, Pool, InPool, LiveFailed, ActiveSteps, Advancing,
       SSHPoints, ConfPoints

(* While the tick drains or restores a node, no node is doomed.             *)
LEMMA NoneDoomed ==
    ASSUME NEW e \in Engine, TypeOK, TickInv(e), Asks, Met(e), Solo(e), opt.parallel = 1,
           pc[e] \in DrainPoints \cup RestorePoints, NEW n \in Node
    PROVE  ~Doomed(n)
<1>1. /\ eng[e].n \in Node /\ node[eng[e].n].step \in {"draining", "restoring"}
      /\ pc[e] \in DrainPoints => eng[e].back \in {"advance", "done"}
    BY DEF TickInv, Copies
<1>2. eng[e].n \in Pool(e)
    BY <1>1 DEF Pool, InPool, ActiveSteps, Advancing
<1>3. ~Doomed(eng[e].n)
  <2>1. Worker(eng[e].n)
    BY <1>1 DEF TickInv, Workers
  <2> QED
    BY <1>1, <2>1 DEF Worker, Doomed, Dooming, Asks, SSHPoints, ConfPoints
<1>4. ~Felled(n)
  <2> SUFFICES ASSUME Felled(n) PROVE FALSE
    OBVIOUS
  <2>1. Phase(e) \in {"advance", "done"}
    BY <1>1 DEF Phase, DrainPoints, RestorePoints, RelPoints
  <2>2. Phase(e) = "advance" /\ eng[e].rows[n].step \in Advancing
    BY <2>1 DEF Met
  <2>3. AtWork(e)
    BY <2>2 DEF AtWork, Phase, DrainPoints, RestorePoints, RelPoints
  <2>4. n = eng[e].n
    BY <1>1, <2>2, <2>3 DEF Solo
  <2> QED
    BY <1>1, <2>4 DEF Felled
<1> QED
    BY <1>2, <1>3, <1>4, DoomedInPool, OneInPool DEF TickInv

(* A step of these kinds keeps the invariant.                               *)
LEMMA SpareKept ==
    ASSUME NEW e \in Engine, TypeOK, TickInv(e), SpareInv(e), opt' = opt, Terminal => Terminal',
           \A n \in Node : AskedStep(e, n), MetStep(e), SoloStep(e), SparedStep
    PROVE  SpareInv(e)'
<1>1. Asks'
    BY DEF SpareInv, Asks, AskedStep
<1>2. Met(e)'
  <2> SUFFICES ASSUME NEW n \in Node, Felled(n)',
                      ~(Phase(e)' = "advance" /\ eng'[e].rows[n].step \in Advancing)
               PROVE  Phase(e)' \in {"sweep", "idle"} /\ (Terminal' \/ pc'[e] = "failJob")
    BY DEF Met
  <2>1. Felled(n) \/ LiveFailed(n)
    BY DEF AskedStep, Felled
  <2>2. \/ Phase(e) = "advance" /\ eng[e].rows[n].step \in Advancing
        \/ Phase(e) \in {"sweep", "idle"} /\ (Terminal \/ pc[e] = "failJob")
    BY <2>1 DEF SpareInv, Met, TickInv, Overtaken
  <2> QED
    BY <2>1, <2>2 DEF MetStep, PhaseStep
<1>3. Solo(e)'
  <2>1. ASSUME opt.parallel = 1, eng'[e].rows = node, NEW m \in Node, NEW k \in Node,
               node[m].step \in Advancing, node[k].step \in Advancing
        PROVE  m = k
    <3>1. m \in Pool(e) /\ k \in Pool(e)
      BY <2>1 DEF Pool, InPool, ActiveSteps
    <3> QED
      BY <2>1, <3>1, OneInPool DEF TickInv
  <2> QED
    BY <2>1 DEF SpareInv, Solo, SoloStep
<1>4. Spared'
    BY DEF SpareInv, Spared, SparedStep, Excepted
<1> QED
    BY <1>1, <1>2, <1>3, <1>4 DEF SpareInv

(* No call fails when none may.                                             *)
LEMMA NoFaults ==
    ASSUME TypeOK, MaxFaults = 0
    PROVE  ~Fault
BY DEF TypeOK, Fault

(* What a step of the tick has to see to: it starts or moves guests only    *)
(* while it works on a node.                                                *)
LEMMA TickSpares ==
    ASSUME NEW e \in Engine, TypeOK, TickInv(e), SpareInv(e), Terminal => Terminal',
           opt' = opt, host' = host, moved' = moved, killed' = killed,
           \A n \in Node : pc'[n] = pc[n] \/ (pc[n] = "idle" /\ pc'[n] = "apt"),
           (at' = at /\ up' \subseteq up) \/ pc[e] \in DrainPoints \cup RestorePoints,
           \A n \in Node :
               \/ node'[n].step = node[n].step \/ host[n] # "asked"
               \/ /\ node'[n].step = "failed"
                  /\ Phase(e)' = "advance" /\ eng'[e].rows[n].step \in Advancing,
           MetStep(e), SoloStep(e)
    PROVE  SpareInv(e)'
<1>1. \A n \in Node : AskedStep(e, n)
    BY DEF AskedStep
<1>2. \A n \in Node : Doomed(n)' => Doomed(n)
    BY DEF Doomed, Dooming
<1>3. SparedStep
  <2>1. CASE at' = at /\ up' \subseteq up
    <3>1. \A n \in Node : RunningOn(n)' \subseteq RunningOn(n)
      BY <2>1 DEF RunningOn
    <3> QED
      BY <1>2, <3>1 DEF SparedStep
  <2>2. CASE pc[e] \in DrainPoints \cup RestorePoints
    BY <1>2, <2>2, NoneDoomed DEF SparedStep, SpareInv
  <2> QED
    BY <2>1, <2>2
<1> QED
    BY <1>1, <1>3, SpareKept

(* The part of the tick before and after the work on the nodes.             *)
LEMMA PlainSpares ==
    ASSUME NEW e \in Engine, TypeOK, TickInv(e), SpareInv(e), Terminal => Terminal',
           \/ Tick(e) \/ DisableDRS(e) \/ DisableDRSOff(e) \/ CreateClient(e) \/ PauseCRS(e)
           \/ RecordCRS(e) \/ FailCheck(e) \/ StartNext(e) \/ FinishJob(e) \/ Sweep(e)
           \/ CheckAfterRules(e) \/ RerecordRules(e) \/ DisableRules(e) \/ ListNodes(e)
    PROVE  SpareInv(e)'
<1> USE DEF clusterVars
<1>0. /\ pc \in [Thread -> Points] /\ e \in Thread /\ e \notin Node /\ Node \subseteq Thread
      /\ job \in JobRow /\ rel \in [Thread -> ReleaseLocals] /\ rel[e] \in ReleaseLocals
      /\ eng \in [Engine -> EngineLocals] /\ eng[e] \in EngineLocals
    BY ThreadAssumption DEF TypeOK, Thread
<1>1. /\ opt' = opt /\ host' = host /\ moved' = moved /\ killed' = killed /\ at' = at /\ up' = up
      /\ node' = node
    BY DEF Tick, DisableDRS, DisableDRSOff, CreateClient, PauseCRS, RecordCRS, FailCheck, StartNext,
           FinishJob, Sweep, CheckAfterRules, RerecordRules, DisableRules, ListNodes
<1>2. ASSUME NEW p \in Points, Goto(e, p)
      PROVE  pc' = [pc EXCEPT ![e] = p] /\ pc'[e] = p /\ \A n \in Node : pc'[n] = pc[n]
    BY <1>0, <1>2 DEF Goto
<1>3. ASSUME NEW p \in Points, Goto(e, p), MetStep(e),
             p \notin RestorePoints \cup DrainPoints,
             Phase(e)' # "advance" \/ eng'[e].rows = node
      PROVE  SpareInv(e)'
  <2>1. pc'[e] = p /\ \A n \in Node : pc'[n] = pc[n]
    BY <1>2, <1>3
  <2>2. SoloStep(e)
    BY <1>3, <2>1 DEF SoloStep, AtWork
  <2> QED
    BY <1>1, <1>3, <2>1, <2>2, TickSpares
<1>4. ASSUME NEW p \in {"client", "crs", "crsMark", "nodes", "start", "begin", "done", "sweep", "ruleRec",
                        "ruleChk", "drainStart", "drs", "drsOff"},
             Goto(e, p), MetStep(e)
      PROVE  SpareInv(e)'
  <2>1. p \in Points /\ p \notin RestorePoints \cup DrainPoints \cup RelPoints \cup {"failJob", "advance"}
    BY DEF Points, RestorePoints, DrainPoints, RelPoints
  <2>2. Phase(e)' # "advance"
    BY <1>2, <1>4, <2>1 DEF Phase
  <2> QED
    BY <1>3, <1>4, <2>1, <2>2
<1>5. ASSUME NEW p \in {"failJob", "release"}, NEW b \in {"sweep", "idle", "done"}, Goto(e, p),
             rel' = [rel EXCEPT ![e].back = b], MetStep(e) \/ (p = "failJob" /\ b = "sweep")
      PROVE  SpareInv(e)'
  <2>1. p \in Points /\ p \notin RestorePoints \cup DrainPoints
    BY DEF Points, RestorePoints, DrainPoints
  <2>2. rel'[e].back = b
    BY <1>0, <1>5 DEF ReleaseLocals
  <2>3. Phase(e)' = b /\ pc'[e] = p
    BY <1>2, <1>5, <2>1, <2>2 DEF Phase, RelPoints
  <2>4. MetStep(e)
    BY <1>5, <2>3 DEF MetStep
  <2> QED
    BY <1>3, <1>5, <2>1, <2>3, <2>4
<1>6. ASSUME Phase(e) = pc[e], pc[e] \notin {"advance", "sweep", "idle"} PROVE MetStep(e)
    BY <1>6 DEF MetStep, PhaseStep
<1>7. pc[e] \notin RelPoints \cup RestorePoints \cup DrainPoints \cup {"failJob"} => Phase(e) = pc[e]
    BY DEF Phase
<1>8. CASE \/ DisableDRS(e) \/ DisableDRSOff(e) \/ CreateClient(e) \/ PauseCRS(e) \/ RecordCRS(e)
           \/ StartNext(e) \/ RerecordRules(e) \/ DisableRules(e)
  <2>1. pc[e] \in {"drs", "drsOff", "client", "crs", "crsMark", "start", "ruleRec", "ruleOff"}
    BY <1>8 DEF DisableDRS, DisableDRSOff, CreateClient, PauseCRS, RecordCRS, StartNext,
       RerecordRules, DisableRules
  <2>2. MetStep(e)
    BY <1>6, <1>7, <2>1 DEF RelPoints, RestorePoints, DrainPoints
  <2>3. \E p \in {"client", "crs", "crsMark", "nodes", "begin", "done", "sweep", "ruleRec", "ruleChk",
                  "drsOff"} : Goto(e, p)
    BY <1>8 DEF DisableDRS, DisableDRSOff, CreateClient, PauseCRS, RecordCRS, StartNext,
       RerecordRules, DisableRules
  <2> QED
    BY <1>4, <2>2, <2>3
<1>9. CASE ListNodes(e)
  <2>1. pc[e] = "nodes" /\ Goto(e, "advance")
    BY <1>9 DEF ListNodes
  <2>2. eng'[e].rows = node
    BY <1>0, <1>9 DEF ListNodes, EngineLocals
  <2>3. MetStep(e)
    BY <1>6, <1>7, <2>1 DEF RelPoints, RestorePoints, DrainPoints
  <2> QED
    BY <1>3, <2>1, <2>2, <2>3 DEF Points, RestorePoints, DrainPoints
<1>10. CASE Tick(e)
  <2>1. pc[e] = "idle" /\ Phase(e) = "idle"
    BY <1>7, <1>10 DEF Tick, RelPoints, RestorePoints, DrainPoints
  <2>2. CASE job.status = "running"
    <3>1. ~Terminal
      BY <2>2 DEF Terminal, Outcomes
    <3>2. \A n \in Node : ~Felled(n) /\ ~LiveFailed(n)
      BY <2>1, <3>1 DEF SpareInv, Met, TickInv, Overtaken
    <3> QED
      BY <1>4, <1>10, <2>2, <3>2 DEF Tick, MetStep
  <2>3. CASE job.status # "running"
    <3>1. Goto(e, "sweep") /\ job' = job
      BY <1>10, <2>3 DEF Tick
    <3>2. Phase(e)' = "sweep"
      BY <1>2, <3>1 DEF Phase, RelPoints, RestorePoints, DrainPoints, Points
    <3>3. MetStep(e)
      BY <2>1, <3>1, <3>2 DEF MetStep, PhaseStep
    <3> QED
      BY <1>4, <3>1, <3>3
  <2> QED
    BY <2>2, <2>3
<1>11. CASE FailCheck(e)
  <2>1. pc[e] = "advance" /\ Phase(e) = "advance"
    BY <1>7, <1>11 DEF FailCheck, RelPoints, RestorePoints, DrainPoints
  <2>2. CASE \E n \in Node : eng[e].rows[n].step \in Advancing /\ node[n].step = "failed"
    BY <1>5, <1>11, <2>2 DEF FailCheck
  <2>3. CASE ~\E n \in Node : eng[e].rows[n].step \in Advancing /\ node[n].step = "failed"
    <3>1. \A n \in Node : ~Felled(n) /\ ~LiveFailed(n)
      BY <2>1, <2>3 DEF SpareInv, Met, TickInv, Overtaken, Felled, LiveFailed
    <3> QED
      BY <1>4, <1>11, <2>3, <3>1 DEF FailCheck, MetStep
  <2> QED
    BY <2>2, <2>3
<1>12. CASE FinishJob(e) \/ CheckAfterRules(e)
  <2>1. pc[e] \in {"done", "ruleChk"}
    BY <1>12 DEF FinishJob, CheckAfterRules
  <2>2. MetStep(e)
    BY <1>6, <1>7, <2>1 DEF RelPoints, RestorePoints, DrainPoints
  <2>3. \/ Goto(e, "sweep") \/ Goto(e, "drainStart") \/ Goto(e, "done")
        \/ \E p \in {"failJob", "release"}, b \in {"sweep", "done"} :
               Goto(e, p) /\ rel' = [rel EXCEPT ![e].back = b]
    BY <1>12, Zenon DEF FinishJob, CheckAfterRules
  <2> QED
    BY <1>4, <1>5, <2>2, <2>3
<1>13. CASE Sweep(e)
  <2>1. pc[e] = "sweep" /\ Phase(e) = "sweep"
    BY <1>7, <1>13 DEF Sweep, RelPoints, RestorePoints, DrainPoints
  <2>2. job'.status = job.status
    BY <1>0, <1>13 DEF Sweep, JobRow
  <2>3. ASSUME Phase(e)' = "idle" PROVE MetStep(e)
    BY <2>1, <2>2, <2>3 DEF MetStep, PhaseStep, Terminal
  <2>4. CASE Terminal /\ job.cleanup /\ job.due
    <3>1. Goto(e, "release") /\ rel' = [rel EXCEPT ![e].back = "idle"]
      BY <1>13, <2>4 DEF Sweep
    <3>2. rel'[e].back = "idle"
      BY <1>0, <3>1 DEF ReleaseLocals
    <3>3. Phase(e)' = "idle"
      BY <1>2, <3>1, <3>2 DEF Phase, RelPoints, Points
    <3> QED
      BY <1>5, <2>3, <3>1, <3>3
  <2>5. CASE ~(Terminal /\ job.cleanup /\ job.due)
    <3>1. Goto(e, "idle")
      BY <1>13, <2>5 DEF Sweep
    <3>2. Phase(e)' = "idle"
      BY <1>2, <3>1 DEF Phase, RelPoints, RestorePoints, DrainPoints, Points
    <3> QED
      BY <1>3, <2>3, <3>1, <3>2 DEF Points, RestorePoints, DrainPoints
  <2> QED
    BY <2>4, <2>5
<1> QED
    BY <1>8, <1>9, <1>10, <1>11, <1>12, <1>13

(* advanceNode: the tick goes on with the next node, has failed this one,   *)
(* or works on it.                                                          *)
LEMMA AdvanceStepSpares ==
    ASSUME NEW e \in Engine, TypeOK, TickInv(e), SpareInv(e), NEW n \in Node, NEW S, Advances(e, n, S),
           opt' = opt, job' = job, host' = host, moved' = moved, killed' = killed, at' = at, up' = up,
           eng'[e].rows = eng[e].rows,
           \A m \in Node : pc'[m] = pc[m] \/ (pc[m] = "idle" /\ pc'[m] = "apt"),
           \A m \in Node \ {n} : node'[m].step = node[m].step,
           node'[n].step = node[n].step \/ host[n] # "asked" \/ node'[n].step = "failed",
           \/ pc'[e] = "advance"
           \/ pc'[e] = "failJob" /\ rel'[e].back = "advance"
           \/ pc'[e] \in DrainPoints /\ eng'[e].n = n /\ eng'[e].back = "advance"
           \/ pc'[e] = "restart" /\ eng'[e].n = n
    PROVE  SpareInv(e)'
<1>1. pc[e] = "advance" /\ Phase(e) = "advance" /\ eng[e].rows[n].step \in Advancing
    BY AdvancesFacts DEF Copy
<1>2. Phase(e)' = "advance"
    BY DEF Phase, RelPoints, RestorePoints, DrainPoints
<1>3. MetStep(e)
    BY <1>1, <1>2 DEF MetStep, PhaseStep
<1>4. SoloStep(e)
    BY <1>1, <1>2 DEF SoloStep, AtWork, RestorePoints, DrainPoints
<1>5. \A m \in Node :
          \/ node'[m].step = node[m].step \/ host[m] # "asked"
          \/ node'[m].step = "failed" /\ Phase(e)' = "advance" /\ eng'[e].rows[m].step \in Advancing
    BY <1>1, <1>2
<1> QED
    BY <1>3, <1>4, <1>5, TickSpares DEF Terminal

(* A node is given up, or was.                                              *)
LEMMA AdvanceFailsSpares ==
    ASSUME NEW e \in Engine, TypeOK, TickInv(e), SpareInv(e), NEW n \in Node, NEW S, Advances(e, n, S),
           opt' = opt, job' = job, host' = host, moved' = moved, killed' = killed, at' = at, up' = up,
           eng'[e].rows = eng[e].rows,
           NEW rows \in [Node -> NodeRow], FailNodeIn(rows, e, n, "advance"),
           \A m \in Node \ {n} : rows[m] = node[m],
           rows[n].step = node[n].step \/ host[n] # "asked"
    PROVE  SpareInv(e)'
<1>0. e \in Thread /\ Node \subseteq Thread \ {e}
    BY ThreadAssumption DEF Thread
<1>1. /\ \A m \in Node \ {n} : node'[m] = rows[m]
      /\ \A u \in Thread \ {e} : pc'[u] = pc[u]
      /\ \/ node'[n] = rows[n] /\ pc'[e] = "advance"
         \/ node'[n].step = "failed" /\ pc'[e] = "failJob" /\ rel'[e].back = "advance"
    BY <1>0, FailNodeRow
<1> QED
    BY <1>0, <1>1, AdvanceStepSpares

(* advanceNode, without a failed call.                                      *)
LEMMA AdvanceSpares ==
    ASSUME NEW e \in Engine, TypeOK, TickInv(e), SpareInv(e), MaxFaults = 0, NEW n \in Node,
           \/ AdvanceRefused(e, n) \/ AdvanceWaits(e, n) \/ AdvanceTimedOut(e, n)
           \/ AdvanceDraining(e, n) \/ AdvanceUpgrading(e, n) \/ AdvanceRebooted(e, n)
           \/ AdvanceRestoreTimedOut(e, n) \/ AdvanceHealthCheck(e, n)
    PROVE  SpareInv(e)'
<1> USE DEF clusterVars
<1> DEFINE touched == [node EXCEPT ![n] = Touched(node[n])]
           begun == [node EXCEPT ![n] = Moved(node[n], "restoring")]
           Calm3 == {"draining", "health_check", "restoring"}
<1>0. /\ node \in [Node -> NodeRow] /\ node[n] \in NodeRow /\ pc \in [Thread -> Points]
      /\ e \in Thread /\ n \in Thread /\ n # e /\ Node \subseteq Thread \ {e} /\ ~Fault
    BY NoFaults, ThreadAssumption DEF TypeOK, Thread
<1>1. /\ opt' = opt /\ job' = job /\ host' = host /\ moved' = moved /\ killed' = killed
      /\ at' = at /\ up' = up
    BY DEF AdvanceRefused, AdvanceWaits, AdvanceTimedOut, AdvanceDraining, AdvanceUpgrading,
           AdvanceRebooted, AdvanceRestoreTimedOut, AdvanceHealthCheck
<1>2. PICK S : Advances(e, n, S)
    BY Zenon DEF AdvanceRefused, AdvanceWaits, AdvanceTimedOut, AdvanceDraining, AdvanceUpgrading,
           AdvanceRebooted, AdvanceRestoreTimedOut, AdvanceHealthCheck
<1>3. /\ pc[e] = "advance" /\ Copy(e, n) /\ Asks
    BY <1>2, AdvancesFacts DEF SpareInv
<1>4. ASSUME eng[e].rows[n].step \in Calm3 PROVE host[n] # "asked"
  <2>1. node[n].step \in Calm3
    BY <1>3, <1>4 DEF Copy
  <2> QED
    BY <1>3, <2>1, Unasked
<1>5. eng' = Off(e, n) \/ \E left : eng' = WorkOn(e, n, left, "advance")
    BY Zenon DEF AdvanceRefused, AdvanceWaits, AdvanceTimedOut, AdvanceDraining, AdvanceUpgrading,
           AdvanceRebooted, AdvanceRestoreTimedOut, AdvanceHealthCheck
<1>6. eng'[e].rows = eng[e].rows
  <2>1. eng' = Off(e, n) \/ \E left, back : eng' = WorkOn(e, n, left, back)
    BY <1>5, Zenon
  <2> QED
    BY <2>1, OffRows
<1>7. /\ touched \in [Node -> NodeRow] /\ begun \in [Node -> NodeRow]
      /\ touched[n].step = node[n].step
      /\ \A m \in Node \ {n} : touched[m] = node[m] /\ begun[m] = node[m]
  <2>1. "restoring" \in Steps
    BY DEF Steps, ActiveSteps, Advancing
  <2>2. Touched(node[n]) \in NodeRow /\ Moved(node[n], "restoring") \in NodeRow
    BY <1>0, <2>1, MovedIsRow
  <2>3. Touched(node[n]).step = node[n].step
    BY <1>0 DEF Touched, NodeRow
  <2> QED
    BY <1>0, <2>2, <2>3
<1> HIDE DEF touched, begun
<1>8. CASE AdvanceRefused(e, n)
    BY <1>0, <1>8 DEF AdvanceRefused
<1>9. CASE AdvanceWaits(e, n)
  <2>1. node' = node /\ pc' = pc
    BY <1>9 DEF AdvanceWaits
  <2> QED
    BY <1>1, <1>2, <1>3, <1>6, <2>1, AdvanceStepSpares
<1>10. CASE AdvanceTimedOut(e, n)
  <2>1. FailNodeIn(node, e, n, "advance")
    BY <1>10 DEF AdvanceTimedOut, FailNode
  <2> QED
    BY <1>0, <1>1, <1>2, <1>6, <2>1, AdvanceFailsSpares
<1>11. CASE AdvanceDraining(e, n)
  <2>1. \/ FailNodeIn(touched, e, n, "advance")
        \/ /\ node' \in {node, touched}
           /\ Goto(e, "verify") \/ Goto(e, "drain")
           /\ \E left : eng' = WorkOn(e, n, left, "advance")
    BY <1>0, <1>11, Zenon DEF AdvanceDraining, touched
  <2>2. CASE FailNodeIn(touched, e, n, "advance")
    BY <1>1, <1>2, <1>6, <1>7, <2>2, AdvanceFailsSpares
  <2>3. CASE /\ node' \in {node, touched}
             /\ Goto(e, "verify") \/ Goto(e, "drain")
             /\ \E left : eng' = WorkOn(e, n, left, "advance")
    <3>1. pc'[e] \in DrainPoints /\ \A m \in Node : pc'[m] = pc[m]
      BY <1>0, <2>3 DEF Goto, DrainPoints
    <3>2. eng'[e].n = n /\ eng'[e].back = "advance"
      BY <2>3, WorkOnNode
    <3>3. \A m \in Node : node'[m].step = node[m].step
      BY <1>7, <2>3
    <3> QED
      BY <1>1, <1>2, <1>6, <3>1, <3>2, <3>3, AdvanceStepSpares
  <2> QED
    BY <2>1, <2>2, <2>3
<1>12. CASE AdvanceUpgrading(e, n)
  <2>1. /\ node' = [node EXCEPT ![n] = Launched(node[n])]
        /\ pc' = [pc EXCEPT ![n] = IF pc[n] = "idle" THEN "apt" ELSE pc[n]]
    BY <1>0, <1>12, Zenon DEF AdvanceUpgrading
  <2>2. \A m \in Node : node'[m].step = node[m].step
    BY <1>0, <2>1 DEF Launched, Touched, NodeRow
  <2>3. /\ \A m \in Node : pc'[m] = pc[m] \/ (pc[m] = "idle" /\ pc'[m] = "apt")
        /\ pc'[e] = pc[e]
    BY <1>0, <2>1
  <2> QED
    BY <1>1, <1>2, <1>3, <1>6, <2>2, <2>3, AdvanceStepSpares
<1>13. CASE AdvanceRebooted(e, n)
  <2>1. pc' = pc /\ SetStep(n, "health_check") /\ host[n] = "fresh"
    BY <1>13 DEF AdvanceRebooted
  <2>2. \A m \in Node \ {n} : node'[m] = node[m]
    BY <1>0, <2>1, SetStepRow
  <2> QED
    BY <1>1, <1>2, <1>3, <1>6, <2>1, <2>2, AdvanceStepSpares
<1>14. CASE AdvanceRestoreTimedOut(e, n)
  <2>1. pc' = pc /\ SetStep(n, "completed") /\ eng[e].rows[n].step \in Calm3
    BY <1>14 DEF AdvanceRestoreTimedOut, Advances
  <2>2. \A m \in Node \ {n} : node'[m] = node[m]
    BY <1>0, <2>1, SetStepRow
  <2> QED
    BY <1>1, <1>2, <1>3, <1>4, <1>6, <2>1, <2>2, AdvanceStepSpares
<1>15. CASE AdvanceHealthCheck(e, n)
  <2>1. host[n] # "asked"
    BY <1>4, <1>15 DEF AdvanceHealthCheck, Advances
  <2>2. \/ pc' = pc /\ SetStep(n, "completed")
        \/ /\ node' \in {node, begun} /\ Goto(e, "restart")
           /\ \E left : eng' = WorkOn(e, n, left, "advance")
        \/ FailNodeIn(node, e, n, "advance") \/ FailNodeIn(begun, e, n, "advance")
    BY <1>15, Zenon DEF AdvanceHealthCheck, begun
  <2>3. CASE pc' = pc /\ SetStep(n, "completed")
    <3>1. \A m \in Node \ {n} : node'[m] = node[m]
      BY <1>0, <2>3, SetStepRow
    <3> QED
      BY <1>1, <1>2, <1>3, <1>6, <2>1, <2>3, <3>1, AdvanceStepSpares
  <2>4. CASE /\ node' \in {node, begun} /\ Goto(e, "restart")
             /\ \E left : eng' = WorkOn(e, n, left, "advance")
    <3>1. pc'[e] = "restart" /\ \A m \in Node : pc'[m] = pc[m]
      BY <1>0, <2>4 DEF Goto
    <3>2. eng'[e].n = n
      BY <2>4, WorkOnNode
    <3>3. \A m \in Node \ {n} : node'[m] = node[m]
      BY <1>7, <2>4
    <3> QED
      BY <1>1, <1>2, <1>6, <2>1, <3>1, <3>2, <3>3, AdvanceStepSpares
  <2>5. CASE FailNodeIn(node, e, n, "advance") \/ FailNodeIn(begun, e, n, "advance")
    BY <1>0, <1>1, <1>2, <1>6, <1>7, <2>1, <2>5, AdvanceFailsSpares
  <2> QED
    BY <2>2, <2>3, <2>4, <2>5
<1> QED
    BY <1>8, <1>9, <1>10, <1>11, <1>12, <1>13, <1>14, <1>15

(* The tick works on a node whose host nobody has asked to reboot, and is   *)
(* in the same part as before, or has just chosen the node.                 *)
LEMMA NodeSpares ==
    ASSUME NEW e \in Engine, TypeOK, TickInv(e), SpareInv(e), NEW n \in Node, host[n] # "asked",
           opt' = opt, job'.status = job.status, host' = host, moved' = moved, killed' = killed,
           (at' = at /\ up' = up) \/ pc[e] \in DrainPoints \cup RestorePoints,
           eng'[e].rows = eng[e].rows, eng'[e].n = eng[e].n, eng'[e].back = eng[e].back,
           \A m \in Node : pc'[m] = pc[m],
           \A m \in Node \ {n} : node'[m].step = node[m].step,
           \/ /\ pc[e] \in ChoosePoints
              /\ pc'[e] \notin RestorePoints /\ Phase(e)' # "advance"
           \/ /\ pc[e] \in DrainPoints
              /\ pc'[e] \notin RestorePoints /\ Phase(e)' = eng[e].back
           \/ /\ pc[e] \in RestorePoints
              /\ pc'[e] \notin DrainPoints /\ Phase(e)' = "advance"
    PROVE  SpareInv(e)'
<1>1. Terminal => Terminal'
    BY DEF Terminal
<1>2. pc[e] \in DrainPoints => eng[e].back \in {"advance", "done"}
    BY DEF TickInv, Copies
<1>3. MetStep(e) /\ SoloStep(e)
  <2>1. CASE pc[e] \in ChoosePoints
    <3>1. Phase(e) \notin {"advance", "sweep", "idle"}
      BY <2>1 DEF Phase, ChoosePoints, RelPoints, RestorePoints, DrainPoints
    <3>2. pc'[e] \notin RestorePoints /\ Phase(e)' # "advance"
      BY <2>1 DEF ChoosePoints, DrainPoints, RestorePoints
    <3>3. ~AtWork(e)'
      BY <3>2 DEF AtWork, Phase, RelPoints, RestorePoints, DrainPoints
    <3> QED
      BY <3>1, <3>2, <3>3 DEF MetStep, SoloStep, PhaseStep
  <2>2. CASE pc[e] \in DrainPoints
    <3>1. Phase(e) = eng[e].back /\ Phase(e)' = eng[e].back /\ pc'[e] \notin RestorePoints
      BY <2>2 DEF Phase, ChoosePoints, RelPoints, RestorePoints, DrainPoints
    <3>2. MetStep(e)
      BY <1>2, <2>2, <3>1 DEF MetStep, PhaseStep
    <3>3. AtWork(e)' => AtWork(e)
      BY <2>2, <3>1 DEF AtWork
    <3> QED
      BY <3>1, <3>2, <3>3 DEF SoloStep
  <2>3. CASE pc[e] \in RestorePoints
    <3>1. Phase(e) = "advance" /\ Phase(e)' = "advance" /\ AtWork(e)
      BY <2>3 DEF Phase, ChoosePoints, RelPoints, RestorePoints, DrainPoints, AtWork
    <3> QED
      BY <3>1 DEF MetStep, PhaseStep, SoloStep
  <2> QED
    BY <2>1, <2>2, <2>3
<1>4. \A m \in Node : node'[m].step = node[m].step \/ host[m] # "asked"
    OBVIOUS
<1>5. (at' = at /\ up' \subseteq up) \/ pc[e] \in DrainPoints \cup RestorePoints
    OBVIOUS
<1> QED
    BY <1>1, <1>3, <1>4, <1>5, TickSpares

(* startNode: the node has not been touched yet.                            *)
LEMMA StartSpares ==
    ASSUME NEW e \in Engine, TypeOK, TickInv(e), SpareInv(e), MaxFaults = 0,
           StartNode(e) \/ StartCheck(e) \/ DrainStart(e)
    PROVE  SpareInv(e)'
<1> USE DEF clusterVars
<1>0. PICK n \in Node : n = eng[e].n /\ node[n].step \in {"pending", "skipped"} /\ eng[e].back = "done"
    BY DEF StartNode, StartCheck, DrainStart, TickInv, Copies, ChoosePoints
<1> DEFINE snapshot == [node EXCEPT ![n] = [Touched(node[n]) EXCEPT !.guests = eng[e].left]]
           draining == [node EXCEPT ![n] = Moved(node[n], "draining")]
<1>1. /\ node \in [Node -> NodeRow] /\ node[n] \in NodeRow /\ pc \in [Thread -> Points] /\ job \in JobRow
      /\ e \in Thread /\ Node \subseteq Thread \ {e} /\ eng[e] \in EngineLocals
      /\ eng \in [Engine -> EngineLocals] /\ eng[e].left \in SUBSET Guest /\ ~Fault
    BY NoFaults, ThreadAssumption DEF TypeOK, Thread, EngineLocals
<1>2. host[n] # "asked"
    BY <1>0, Unasked DEF SpareInv
<1>3. /\ opt' = opt /\ host' = host /\ moved' = moved /\ killed' = killed /\ at' = at /\ up' = up
      /\ pc[e] \in ChoosePoints
    BY DEF StartNode, StartCheck, DrainStart, ChoosePoints
<1>4. job'.status = job.status
  <2>1. job' = job \/ \E S : job' = WithRules(S)
    BY Zenon DEF StartNode, StartCheck, DrainStart
  <2> QED
    BY <1>1, <2>1 DEF WithRules, JobRow
<1>5. eng'[e].rows = eng[e].rows /\ eng'[e].n = eng[e].n /\ eng'[e].back = eng[e].back
  <2>1. eng' = eng \/ (\E S : eng' = [eng EXCEPT ![e].left = S]) \/ (\E S : eng' = [eng EXCEPT ![e].rules = S])
    BY Zenon DEF StartNode, StartCheck, DrainStart
  <2> QED
    BY <1>1, <2>1 DEF EngineLocals
<1>6. /\ snapshot \in [Node -> NodeRow] /\ draining \in [Node -> NodeRow]
      /\ \A m \in Node \ {n} : snapshot[m] = node[m] /\ draining[m] = node[m]
  <2>1. "draining" \in Steps
    BY DEF Steps, ActiveSteps, Advancing
  <2> QED
    BY <1>1, <2>1, MovedIsRow, RowUpdates
<1>7. \/ /\ node' \in {node, snapshot, draining} \/ SetStep(n, "skipped") \/ SetStep(n, UpgradeStep)
         /\ \E p \in {"done", "check", "drainStart", "ruleOff", "verify", "drain"} : Goto(e, p)
      \/ \E rows \in {node, snapshot, draining} : FailNodeIn(rows, e, n, "done")
  <2>1. CASE StartNode(e)
    BY <1>0, <2>1, Zenon DEF StartNode, FailNode
  <2>2. CASE StartCheck(e)
    <3>1. \/ node' = node /\ Goto(e, "done")
          \/ /\ node' = [node EXCEPT ![eng[e].n] = [Touched(node[eng[e].n]) EXCEPT !.guests = eng[e].left]]
             /\ Goto(e, "drainStart") \/ Goto(e, "ruleOff")
      BY <1>1, <2>2, Zenon DEF StartCheck
    <3> QED
      BY <1>0, <3>1
  <2>3. CASE DrainStart(e)
    <3>1. \/ /\ node' = [node EXCEPT ![eng[e].n] = Moved(node[eng[e].n], "draining")]
             /\ Goto(e, "verify") \/ Goto(e, "drain")
          \/ FailNodeIn([node EXCEPT ![eng[e].n] = Moved(node[eng[e].n], "draining")], e, eng[e].n, "done")
      BY <2>3, Zenon DEF DrainStart
    <3> QED
      BY <1>0, <3>1
  <2> QED
    BY <2>1, <2>2, <2>3
<1> HIDE DEF snapshot, draining
<1>8. CASE /\ node' \in {node, snapshot, draining} \/ SetStep(n, "skipped") \/ SetStep(n, UpgradeStep)
           /\ \E p \in {"done", "check", "drainStart", "ruleOff", "verify", "drain"} : Goto(e, p)
  <2>1. \A m \in Node \ {n} : node'[m] = node[m]
    BY <1>1, <1>6, <1>8, SetStepRow
  <2>2. PICK p \in {"done", "check", "drainStart", "ruleOff", "verify", "drain"} :
            pc' = [pc EXCEPT ![e] = p]
    BY <1>8 DEF Goto
  <2>3. pc'[e] = p /\ \A m \in Node : pc'[m] = pc[m]
    BY <1>1, <2>2
  <2>4. pc'[e] \notin RestorePoints /\ Phase(e)' # "advance"
    BY <1>0, <1>5, <2>3 DEF Phase, RestorePoints, DrainPoints, RelPoints
  <2> QED
    BY <1>2, <1>3, <1>4, <1>5, <2>1, <2>3, <2>4, NodeSpares
<1>9. CASE \E rows \in {node, snapshot, draining} : FailNodeIn(rows, e, n, "done")
  <2>1. PICK rows \in {node, snapshot, draining} : FailNodeIn(rows, e, n, "done")
    BY <1>9
  <2>2. rows \in [Node -> NodeRow] /\ \A m \in Node \ {n} : rows[m] = node[m]
    BY <1>1, <1>6
  <2>3. /\ \A m \in Node \ {n} : node'[m] = rows[m]
        /\ \A u \in Thread \ {e} : pc'[u] = pc[u]
        /\ pc'[e] = "done" \/ (pc'[e] = "failJob" /\ rel'[e].back = "done")
    BY <1>1, <2>1, <2>2, FailNodeRow
  <2>4. pc'[e] \notin RestorePoints /\ Phase(e)' # "advance"
    BY <2>3 DEF Phase, RestorePoints, DrainPoints, RelPoints
  <2> QED
    BY <1>1, <1>2, <1>3, <1>4, <1>5, <2>2, <2>3, <2>4, NodeSpares
<1> QED
    BY <1>7, <1>8, <1>9

(* The drain: the node is on its first step.                                *)
LEMMA DrainSpares ==
    ASSUME NEW e \in Engine, TypeOK, TickInv(e), SpareInv(e), MaxFaults = 0,
           DrainCheck(e) \/ DrainGuest(e) \/ RecordStopped(e) \/ StopPassthrough(e) \/ VerifyDrained(e)
    PROVE  SpareInv(e)'
<1> USE DEF clusterVars
<1>0. PICK n \in Node : /\ n = eng[e].n /\ node[n].step = "draining" /\ pc[e] \in DrainPoints
                        /\ eng[e].back \in {"advance", "done"}
    BY DEF DrainCheck, DrainGuest, RecordStopped, StopPassthrough, VerifyDrained, TickInv, Copies,
           DrainPoints
<1>1. /\ node \in [Node -> NodeRow] /\ pc \in [Thread -> Points]
      /\ e \in Thread /\ Node \subseteq Thread \ {e} /\ eng[e] \in EngineLocals
      /\ eng \in [Engine -> EngineLocals] /\ ~Fault
    BY NoFaults, ThreadAssumption DEF TypeOK, Thread
<1>2. host[n] # "asked"
    BY <1>0, Unasked DEF SpareInv
<1>3. /\ opt' = opt /\ host' = host /\ moved' = moved /\ killed' = killed /\ job' = job
    BY DEF DrainCheck, DrainGuest, RecordStopped, StopPassthrough, VerifyDrained
<1>5. eng'[e].rows = eng[e].rows /\ eng'[e].n = eng[e].n /\ eng'[e].back = eng[e].back
  <2>1. \/ eng' = eng \/ (\E S : eng' = [eng EXCEPT ![e].left = S]) \/ (\E S : eng' = [eng EXCEPT ![e].g = S])
        \/ \E S : eng' = [eng EXCEPT ![e].left = S, ![e].g = {}]
    BY Zenon DEF DrainCheck, DrainGuest, RecordStopped, StopPassthrough, VerifyDrained
  <2>2. ASSUME NEW S, eng' = [eng EXCEPT ![e].left = S, ![e].g = {}]
        PROVE  eng'[e].rows = eng[e].rows /\ eng'[e].n = eng[e].n /\ eng'[e].back = eng[e].back
    <3>1. eng'[e] = [eng[e] EXCEPT !.left = S, !.g = {}]
      BY <1>1, <2>2
    <3> QED
      BY <1>1, <3>1 DEF EngineLocals
  <2>3. CASE eng' = eng \/ (\E S : eng' = [eng EXCEPT ![e].left = S]) \/ (\E S : eng' = [eng EXCEPT ![e].g = S])
    BY <1>1, <2>3 DEF EngineLocals
  <2> QED
    BY <2>1, <2>2, <2>3
<1>7. \/ /\ node' = node \/ SetStep(n, UpgradeStep) \/ \E r : node' = [node EXCEPT ![n] = r]
         /\ \E p \in {"verify", "guest", "drain", "ptStop", eng[e].back} : Goto(e, p)
      \/ FailNodeIn(node, e, n, eng[e].back)
  <2>1. CASE DrainCheck(e)
    BY <2>1, Zenon DEF DrainCheck
  <2>2. CASE RecordStopped(e)
    BY <1>0, <2>2, Zenon DEF RecordStopped
  <2>3. CASE DrainGuest(e) \/ StopPassthrough(e) \/ VerifyDrained(e)
    BY <1>0, <2>3, Zenon DEF DrainGuest, StopPassthrough, VerifyDrained, FailNode
  <2> QED
    BY <2>1, <2>2, <2>3
<1>8. CASE /\ node' = node \/ SetStep(n, UpgradeStep) \/ \E r : node' = [node EXCEPT ![n] = r]
           /\ \E p \in {"verify", "guest", "drain", "ptStop", eng[e].back} : Goto(e, p)
  <2>1. \A m \in Node \ {n} : node'[m] = node[m]
    BY <1>1, <1>8, SetStepRow
  <2>2. PICK p \in {"verify", "guest", "drain", "ptStop", eng[e].back} : pc' = [pc EXCEPT ![e] = p]
    BY <1>8 DEF Goto
  <2>3. pc'[e] = p /\ \A m \in Node : pc'[m] = pc[m]
    BY <1>1, <2>2
  <2>4. pc'[e] \notin RestorePoints /\ Phase(e)' = eng[e].back
    BY <1>0, <1>5, <2>3 DEF Phase, RestorePoints, DrainPoints, RelPoints
  <2> QED
    BY <1>0, <1>2, <1>3, <1>5, <2>1, <2>3, <2>4, NodeSpares
<1>9. CASE FailNodeIn(node, e, n, eng[e].back)
  <2>1. PICK back : back = eng[e].back
    OBVIOUS
  <2>2. /\ \A m \in Node \ {n} : node'[m] = node[m]
        /\ \A u \in Thread \ {e} : pc'[u] = pc[u]
        /\ pc'[e] = back \/ (pc'[e] = "failJob" /\ rel'[e].back = back)
    BY <1>1, <1>9, <2>1, FailNodeRow
  <2>3. pc'[e] \notin RestorePoints /\ Phase(e)' = eng[e].back
    BY <1>0, <2>1, <2>2 DEF Phase, RestorePoints, DrainPoints, RelPoints
  <2> QED
    BY <1>0, <1>1, <1>2, <1>3, <1>5, <2>2, <2>3, NodeSpares
<1> QED
    BY <1>7, <1>8, <1>9

(* The restore: the node is on its last step.                               *)
LEMMA RestoreSpares ==
    ASSUME NEW e \in Engine, TypeOK, TickInv(e), SpareInv(e),
           RestartGuests(e) \/ RestoreGuest(e) \/ RestoreDone(e)
    PROVE  SpareInv(e)'
<1> USE DEF clusterVars
<1>0. PICK n \in Node : n = eng[e].n /\ node[n].step = "restoring" /\ pc[e] \in RestorePoints
    BY DEF RestartGuests, RestoreGuest, RestoreDone, TickInv, Copies, RestorePoints
<1>1. /\ node \in [Node -> NodeRow] /\ pc \in [Thread -> Points]
      /\ e \in Thread /\ Node \subseteq Thread \ {e} /\ eng[e] \in EngineLocals
      /\ eng \in [Engine -> EngineLocals]
    BY ThreadAssumption DEF TypeOK, Thread
<1>2. host[n] # "asked"
    BY <1>0, Unasked DEF SpareInv
<1>3. /\ opt' = opt /\ host' = host /\ moved' = moved /\ killed' = killed /\ job' = job
    BY DEF RestartGuests, RestoreGuest, RestoreDone
<1>4. eng'[e].rows = eng[e].rows /\ eng'[e].n = eng[e].n /\ eng'[e].back = eng[e].back
  <2>1. eng' = eng \/ \E S : eng' = [eng EXCEPT ![e].left = S]
    BY Zenon DEF RestartGuests, RestoreGuest, RestoreDone
  <2> QED
    BY <1>1, <2>1 DEF EngineLocals
<1>5. /\ node' = node \/ SetStep(n, "completed") \/ \E r : node' = [node EXCEPT ![n] = r]
      /\ pc' = pc \/ Goto(e, "restore") \/ Goto(e, "advance")
  <2>1. CASE RestartGuests(e)
    BY <1>0, <2>1, Zenon DEF RestartGuests
  <2>2. CASE RestoreGuest(e) \/ RestoreDone(e)
    BY <1>0, <2>2 DEF RestoreGuest, RestoreDone
  <2> QED
    BY <2>1, <2>2
<1>6. \A m \in Node \ {n} : node'[m] = node[m]
    BY <1>1, <1>5, SetStepRow
<1>7. pc'[e] \in {pc[e], "restore", "advance"} /\ \A m \in Node : pc'[m] = pc[m]
    BY <1>1, <1>5 DEF Goto
<1>8. pc'[e] \notin DrainPoints /\ Phase(e)' = "advance"
    BY <1>0, <1>7 DEF Phase, RestorePoints, DrainPoints, RelPoints
<1> QED
    BY <1>0, <1>2, <1>3, <1>4, <1>6, <1>7, <1>8, NodeSpares

(* The release: it starts passthrough guests, of a job that is over.        *)
LEMMA ReleaseSpares ==
    ASSUME NEW e \in Engine, LInv, Ending, TickInv(e), SpareInv(e), Terminal => Terminal',
           NEW t \in Thread, Release(t)
    PROVE  SpareInv(e)'
<1> USE DEF clusterVars
<1>0. /\ TypeOK /\ IInv /\ e \in Thread /\ Node \subseteq Thread /\ rel[t] \in ReleaseLocals
      /\ rel[t].back \in Backs
    BY DEF LInv, IInv, TypeOK, Thread, ReleaseLocals
<1>1. ReleaseEffect(t)
    BY <1>0, ReleaseEffects
<1>2. /\ opt' = opt /\ eng' = eng /\ host' = host
      /\ \A m \in Node : node'[m].step = node[m].step
      /\ \A u \in Thread \ {t} : pc'[u] = pc[u] /\ rel'[u] = rel[u]
      /\ \/ pc'[t] \in RelPoints /\ rel'[t].back = rel[t].back
         \/ pc'[t] = rel[t].back
      /\ pc[t] \in RelPoints \cup {"failJob"}
      /\ pc[t] = "failJob" => Terminal'
    BY <1>1 DEF ReleaseEffect
<1>3. /\ RelPoints \cap (Dooming \cup RestorePoints \cup DrainPoints \cup {"confMark", "failJob"}) = {}
      /\ Backs \cap (Dooming \cup RestorePoints \cup DrainPoints \cup RelPoints \cup {"failJob"}) = {}
    BY DEF RelPoints, Backs, Dooming, RestorePoints, DrainPoints
<1>4. Phase(e)' = Phase(e)
  <2>1. CASE e # t
    BY <1>0, <1>2, <2>1, PhaseKept
  <2>2. CASE e = t
    BY <1>0, <1>2, <1>3, <2>2 DEF Phase
  <2> QED
    BY <2>1, <2>2
<1>5. \A n \in Node : AskedStep(e, n)
  <2>1. \A n \in Node : pc[n] = "confMark" => pc'[n] = "confMark"
    BY <1>0, <1>2, <1>3
  <2> QED
    BY <1>2, <2>1 DEF AskedStep
<1>6. MetStep(e)
    BY <1>0, <1>2, <1>4 DEF MetStep, PhaseStep
<1>7. SoloStep(e)
  <2>1. AtWork(e)' => AtWork(e)
    BY <1>0, <1>2, <1>3 DEF AtWork
  <2> QED
    BY <1>2, <1>4, <2>1 DEF SoloStep
<1>8. /\ at' = at /\ moved' = moved /\ killed' = killed
      /\ up' = up \/ ReleaseGuests(t)
    BY DEF Release, FailJob, ReleaseRead, ReleaseNodes, ReleaseDRS, ReleaseDRSMark,
           ReleaseClient, ReleaseCRS, ReleaseCRSMark, ReleaseRules, ReleaseRulesMark, ReleaseGuests,
           ReleaseGuestsUnseen, ReleaseGuestsMark, ReleaseClear
<1>9. ASSUME ReleaseGuests(t) PROVE Terminal /\ up' \subseteq up \cup Passthrough
  <2>1. pc[t] = "relGuests"
    BY <1>9 DEF ReleaseGuests
  <2>2. Terminal
    BY <2>1 DEF Ending, RelPoints
  <2>3. HeldNode(t) \in Node
    BY <1>0, <2>1, HeldNodeIsNode
  <2>4. rel[t].stopped[HeldNode(t)] \subseteq Passthrough
    BY <1>0, <2>3 DEF ReleaseLocals
  <2>5. \E S : up' = up \cup (rel[t].stopped[HeldNode(t)] \ S)
    BY <1>9, Zenon DEF ReleaseGuests
  <2> QED
    BY <2>2, <2>4, <2>5
<1>10. \A n \in Node : Doomed(n)' => Doomed(n)
    BY <1>0, <1>2, <1>3 DEF Doomed
<1>11. SparedStep
  <2>1. \A n \in Node : \A g \in RunningOn(n)' : g \in RunningOn(n) \/ Excepted(g)'
    BY <1>8, <1>9 DEF RunningOn, Excepted
  <2> QED
    BY <1>8, <1>10, <2>1 DEF SparedStep
<1> QED
    BY <1>0, <1>2, <1>5, <1>6, <1>7, <1>11, SpareKept

(* The tick does not move.                                                  *)
LEMMA OthersSpare ==
    ASSUME NEW e \in Engine, TypeOK, TickInv(e), SpareInv(e), Terminal => Terminal', opt' = opt,
           eng' = eng, pc'[e] = pc[e], rel'[e] = rel[e],
           \A n \in Node : AskedStep(e, n), SparedStep
    PROVE  SpareInv(e)'
<1>1. Phase(e)' = Phase(e)
    BY PhaseKept
<1>2. MetStep(e)
    BY <1>1 DEF MetStep, PhaseStep
<1>3. SoloStep(e)
    BY <1>1 DEF SoloStep, AtWork
<1> QED
    BY <1>2, <1>3, SpareKept

(* What the goroutine of a node has to see to.                              *)
LEMMA WorkerSpares ==
    ASSUME NEW e \in Engine, TypeOK, TickInv(e), SpareInv(e), NEW n \in Node,
           opt' = opt, job' = job, eng' = eng, at' = at, up' = up, moved' = moved, killed' = killed,
           \A u \in Thread \ {n} : pc'[u] = pc[u] /\ rel'[u] = rel[u],
           \A m \in Node \ {n} : node'[m] = node[m] /\ host'[m] = host[m],
           AskedStep(e, n),
           Doomed(n)' => Doomed(n) \/ RunningOn(n) = {}
    PROVE  SpareInv(e)'
<1>0. e \in Thread /\ e # n /\ Node \subseteq Thread
    BY ThreadAssumption DEF Thread
<1>1. \A m \in Node : AskedStep(e, m)
    BY <1>0 DEF AskedStep
<1>2. \A m \in Node : RunningOn(m)' = RunningOn(m) /\ (Doomed(m)' => Doomed(m) \/ RunningOn(m) = {})
    BY <1>0 DEF RunningOn, Doomed
<1>3. SparedStep
    BY <1>2 DEF SparedStep
<1> QED
    BY <1>0, <1>1, <1>3, OthersSpare DEF Terminal

(* The goroutines and requests that work on a node: they ask for a reboot   *)
(* when nothing runs on it.                                                 *)
LEMMA WorkSpares ==
    ASSUME NEW e \in Engine, TypeOK, TickInv(e), SpareInv(e), MaxFaults = 0, NEW n \in Node,
           \/ SSHUpgrade(n) \/ SSHDecide(n) \/ SSHMarkReboot(n) \/ SSHReboot(n)
           \/ ConfirmReboot(n) \/ ConfirmMark(n) \/ ConfirmUpgrade(n) \/ SkipNode(n)
    PROVE  SpareInv(e)'
<1> USE DEF clusterVars
<1>0. /\ node \in [Node -> NodeRow] /\ pc \in [Thread -> Points] /\ host \in [Host -> {"up", "asked", "down", "fresh"}]
      /\ n \in Thread /\ n \in Host /\ Node \subseteq Host /\ ~Fault /\ Worker(n) /\ Asks
    BY NoFaults, NodeAssumption DEF TypeOK, Thread, TickInv, Workers, SpareInv
<1>1. opt' = opt /\ job' = job /\ eng' = eng /\ at' = at /\ up' = up /\ moved' = moved /\ killed' = killed
    BY DEF SSHUpgrade, SSHDecide, SSHMarkReboot, SSHReboot, ConfirmReboot, ConfirmMark, ConfirmUpgrade,
           SkipNode
<1>2. ASSUME NEW s, NEW p, (pc' = pc /\ p = pc[n]) \/ Goto(n, p), rel' = rel,
             (node' = node /\ s = node[n].step) \/ SetStep(n, s)
                \/ (s = "health_check" /\ node' = [node EXCEPT ![n] = [Moved(node[n], s) EXCEPT !.owed = TRUE]])
      PROVE  /\ pc'[n] = p /\ node'[n].step = s
             /\ \A u \in Thread \ {n} : pc'[u] = pc[u] /\ rel'[u] = rel[u]
             /\ \A m \in Node \ {n} : node'[m] = node[m]
  <2>1. pc'[n] = p /\ \A u \in Thread \ {n} : pc'[u] = pc[u]
    BY <1>0, <1>2 DEF Goto
  <2>2. CASE node' = [node EXCEPT ![n] = [Moved(node[n], s) EXCEPT !.owed = TRUE]]
    BY <1>0, <1>2, <2>1, <2>2 DEF Moved, NodeRow
  <2> QED
    BY <1>0, <1>2, <2>1, <2>2, SetStepRow
<1>3. ASSUME host' = host, host[n] # "asked", NEW s, NEW p, p \notin Dooming \/ RunningOn(n) = {} \/ pc[n] \in Dooming,
             (pc' = pc /\ p = pc[n]) \/ Goto(n, p), rel' = rel,
             (node' = node /\ s = node[n].step) \/ SetStep(n, s)
                \/ (s = "health_check" /\ node' = [node EXCEPT ![n] = [Moved(node[n], s) EXCEPT !.owed = TRUE]])
      PROVE  SpareInv(e)'
  <2>1. /\ pc'[n] = p
        /\ \A u \in Thread \ {n} : pc'[u] = pc[u] /\ rel'[u] = rel[u]
        /\ \A m \in Node \ {n} : node'[m] = node[m]
    BY <1>2, <1>3
  <2>2. AskedStep(e, n)
    BY <1>3 DEF AskedStep
  <2>3. Doomed(n)' => Doomed(n) \/ RunningOn(n) = {}
    BY <1>3, <2>1 DEF Doomed
  <2> QED
    BY <1>1, <1>3, <2>1, <2>2, <2>3, WorkerSpares
<1>4. pc[n] \in SSHPoints => host[n] = "up"
    BY <1>0 DEF Worker
<1>5. CASE SSHUpgrade(n)
  <2>1. pc[n] = "apt" /\ node' = node /\ rel' = rel /\ host' = host /\ (Goto(n, "idle") \/ Goto(n, "rebootCheck"))
    BY <1>0, <1>5 DEF SSHUpgrade
  <2>2. host[n] # "asked"
    BY <1>4, <2>1 DEF SSHPoints
  <2> QED
    BY <1>3, <2>1, <2>2 DEF Dooming
<1>6. CASE SSHDecide(n)
  <2>1. pc[n] = "rebootCheck" /\ host' = host
    BY <1>6 DEF SSHDecide
  <2>2. host[n] # "asked"
    BY <1>4, <2>1 DEF SSHPoints
  <2>3. \/ SetStep(n, "health_check") /\ Goto(n, "idle") /\ rel' = rel
        \/ /\ node' = [node EXCEPT ![n] = [Moved(node[n], "health_check") EXCEPT !.owed = TRUE]]
           /\ Goto(n, "idle") /\ rel' = rel
        \/ FailNodeIn(node, n, n, "idle")
        \/ /\ DecideReboot(RunningOn(n), FALSE) \notin {"defer", "fail"}
           /\ Goto(n, "rebootMark") /\ node' = node /\ rel' = rel
    <3>1. CASE /\ ~opt.reboot /\ NoFault
               /\ SetStep(n, "health_check")
               /\ Goto(n, "idle")
               /\ UNCHANGED rel
      BY <3>1
    <3>2. ASSUME NEW unknown \in BOOLEAN,
                 IF unknown THEN Fault ELSE NoFault,
                 CASE DecideReboot(RunningOn(n), unknown) = "defer" ->
                        /\ node' = [node EXCEPT ![n] = [Moved(@, "health_check") EXCEPT !.owed = TRUE]]
                        /\ Goto(n, "idle")
                        /\ UNCHANGED rel
                   [] DecideReboot(RunningOn(n), unknown) = "fail" ->
                        FailNode(n, n, "idle")
                   [] OTHER -> Goto(n, "rebootMark") /\ UNCHANGED <<node, rel>>
          PROVE  \/ /\ node' = [node EXCEPT ![n] = [Moved(node[n], "health_check") EXCEPT !.owed = TRUE]]
                    /\ Goto(n, "idle") /\ rel' = rel
                 \/ FailNodeIn(node, n, n, "idle")
                 \/ /\ DecideReboot(RunningOn(n), FALSE) \notin {"defer", "fail"}
                    /\ Goto(n, "rebootMark") /\ node' = node /\ rel' = rel
      <4>1. unknown = FALSE
        BY <1>0, <3>2
      <4> QED
        BY <3>2, <4>1 DEF FailNode
    <3> QED
      BY <1>6, <3>1, <3>2, Zenon DEF SSHDecide
  <2>4. CASE FailNodeIn(node, n, n, "idle")
    <3>1. /\ \A m \in Node \ {n} : node'[m] = node[m]
          /\ \A u \in Thread \ {n} : pc'[u] = pc[u] /\ rel'[u] = rel[u]
          /\ pc'[n] \in {"idle", "failJob"}
      BY <1>0, <2>4, FailNodeRow
    <3>2. AskedStep(e, n) /\ ~Doomed(n)'
      BY <2>1, <2>2, <3>1 DEF AskedStep, Doomed, Dooming
    <3> QED
      BY <1>1, <2>1, <3>1, <3>2, WorkerSpares
  <2>5. DecideReboot(RunningOn(n), FALSE) \notin {"defer", "fail"} => RunningOn(n) = {}
    BY DEF DecideReboot
  <2> QED
    BY <1>3, <2>1, <2>2, <2>3, <2>4, <2>5 DEF Dooming
<1>7. CASE SSHMarkReboot(n)
  <2>1. pc[n] = "rebootMark" /\ host' = host /\ rel' = rel /\ SetStep(n, "rebooting") /\ Goto(n, "reboot")
    BY <1>7 DEF SSHMarkReboot
  <2>2. host[n] # "asked"
    BY <1>4, <2>1 DEF SSHPoints
  <2> QED
    BY <1>3, <2>1, <2>2 DEF Dooming
<1>8. CASE SSHReboot(n) \/ ConfirmReboot(n)
  <2>1. PICK p \in {"idle", "confMark"} :
            /\ host' = RebootAsked(n) /\ node' = node /\ rel' = rel /\ Goto(n, p)
            /\ (p = "idle" /\ pc[n] = "reboot") \/ (p = "confMark" /\ pc[n] = "confReboot")
    BY <1>0, <1>8 DEF SSHReboot, ConfirmReboot
  <2>2. \A m \in Node \ {n} : host'[m] = host[m]
    BY <1>0, <2>1 DEF RebootAsked
  <2>3. /\ pc'[n] = p
        /\ \A u \in Thread \ {n} : pc'[u] = pc[u] /\ rel'[u] = rel[u]
    BY <1>2, <2>1
  <2>4. AskedStep(e, n)
    BY <1>0, <2>1, <2>3 DEF AskedStep, Worker, LiveFailed, SSHPoints, ConfPoints
  <2>5. Doomed(n)
    BY <2>1 DEF Doomed, Dooming
  <2> QED
    BY <1>1, <2>1, <2>2, <2>3, <2>4, <2>5, WorkerSpares
<1>9. CASE ConfirmMark(n)
  <2>1. /\ pc[n] \in {"confMark", "confHealth"} /\ host' = host /\ rel' = rel /\ Goto(n, "idle")
        /\ SetStep(n, IF pc[n] = "confMark" THEN "rebooting" ELSE "health_check")
    BY <1>9 DEF ConfirmMark
  <2>2. CASE pc[n] = "confHealth"
    <3>1. host[n] # "asked" /\ SetStep(n, "health_check")
      BY <1>0, <2>1, <2>2 DEF Asks, Worker, ConfPoints
    <3> QED
      BY <1>3, <2>1, <3>1 DEF Dooming
  <2>3. CASE pc[n] = "confMark"
    <3>1. SetStep(n, "rebooting")
      BY <2>1, <2>3
    <3>2. /\ pc'[n] = "idle" /\ node'[n].step = "rebooting"
          /\ \A u \in Thread \ {n} : pc'[u] = pc[u] /\ rel'[u] = rel[u]
          /\ \A m \in Node \ {n} : node'[m] = node[m]
      BY <1>2, <2>1, <3>1
    <3>3. AskedStep(e, n) /\ (Doomed(n)' => Doomed(n))
      BY <2>1, <3>2 DEF AskedStep, Doomed, Dooming
    <3> QED
      BY <1>1, <2>1, <3>2, <3>3, WorkerSpares
  <2> QED
    BY <2>1, <2>2, <2>3
<1>10. CASE ConfirmUpgrade(n)
  <2>1. pc[n] = "idle" /\ node[n].step = "awaiting_upgrade" /\ host' = host
    BY <1>10 DEF ConfirmUpgrade
  <2>2. host[n] # "asked"
    BY <1>0, <2>1 DEF Asks
  <2>3. /\ rel' = rel
        /\ \/ node' = node /\ Goto(n, "confHealth")
           \/ /\ node' = [node EXCEPT ![n] = [Moved(node[n], "health_check") EXCEPT !.owed = TRUE]]
              /\ pc' = pc
           \/ /\ DecideReboot(RunningOn(n), FALSE) \notin {"defer", "fail"}
              /\ node' = node /\ Goto(n, "confReboot")
    <3>1. CASE ~opt.reboot /\ NoFault /\ Goto(n, "confHealth") /\ UNCHANGED <<node, rel>>
      BY <3>1
    <3>2. ASSUME NEW unknown \in BOOLEAN, rel' = rel,
                 IF unknown THEN Fault ELSE NoFault,
                 DecideReboot(RunningOn(n), unknown) # "fail",
                 IF DecideReboot(RunningOn(n), unknown) = "defer"
                 THEN /\ node' = [node EXCEPT ![n] =
                                    [Moved(@, "health_check") EXCEPT !.owed = TRUE]]
                      /\ UNCHANGED pc
                 ELSE UNCHANGED node /\ Goto(n, "confReboot")
          PROVE  /\ rel' = rel
                 /\ \/ /\ node' = [node EXCEPT ![n] = [Moved(node[n], "health_check") EXCEPT !.owed = TRUE]]
                       /\ pc' = pc
                    \/ /\ DecideReboot(RunningOn(n), FALSE) \notin {"defer", "fail"}
                       /\ node' = node /\ Goto(n, "confReboot")
      <4>1. unknown = FALSE
        BY <1>0, <3>2
      <4> QED
        BY <3>2, <4>1
    <3> QED
      BY <1>0, <1>10, <3>1, <3>2, Zenon DEF ConfirmUpgrade
  <2>4. DecideReboot(RunningOn(n), FALSE) \notin {"defer", "fail"} => RunningOn(n) = {}
    BY DEF DecideReboot
  <2> QED
    BY <1>3, <2>1, <2>2, <2>3, <2>4 DEF Dooming
<1>11. CASE SkipNode(n)
  <2>1. node[n].step = "pending" /\ SetStep(n, "skipped") /\ host' = host /\ pc' = pc /\ rel' = rel
    BY <1>11 DEF SkipNode
  <2>2. host[n] # "asked" /\ pc[n] = "idle"
    BY <1>0, <2>1, Unasked DEF Worker
  <2> QED
    BY <1>3, <2>1, <2>2 DEF Dooming
<1> QED
    BY <1>5, <1>6, <1>7, <1>8, <1>9, <1>10, <1>11

(* The requests, time and the cluster.                                      *)
LEMMA WorldSpares ==
    ASSUME NEW e \in Engine, TypeOK, TickInv(e), SpareInv(e), Terminal => Terminal', MaxCrashes = 0,
           \/ StartJob \/ PauseJob \/ ResumeJob \/ CancelJob \/ CreateAnother
           \/ \E n \in Node : GoStale(n) \/ GoLate(n) \/ HostGoesDown(n) \/ HostBoots(n)
           \/ BackoffPasses \/ HourPasses
           \/ \E g \in Guest : GuestMoves(g)
           \/ Crash
    PROVE  SpareInv(e)'
<1> USE DEF clusterVars
<1>0. /\ node \in [Node -> NodeRow] /\ pc \in [Thread -> Points] /\ rel \in [Thread -> ReleaseLocals]
      /\ host \in [Host -> {"up", "asked", "down", "fresh"}] /\ Node \subseteq Host
      /\ at \in [Guest -> Host] /\ up \subseteq Guest
      /\ e \in Thread /\ e # Api /\ Node \subseteq Thread /\ Api \notin Node /\ spent.crash \in Nat
    BY ThreadAssumption, NodeAssumption DEF TypeOK, Thread
<1>1. ~Crash
    BY <1>0 DEF Crash
<1>2. opt' = opt /\ eng' = eng
    BY <1>1 DEF StartJob, PauseJob, ResumeJob, CancelJob, CreateAnother, GoStale, GoLate, HostGoesDown,
       HostBoots, BackoffPasses, HourPasses, GuestMoves
<1>3. \/ pc' = pc /\ rel' = rel
      \/ pc' = [pc EXCEPT ![Api] = "release"] /\ rel' = [rel EXCEPT ![Api].back = "idle"]
    BY <1>1 DEF StartJob, PauseJob, ResumeJob, CancelJob, CreateAnother, GoStale, GoLate, HostGoesDown,
       HostBoots, BackoffPasses, HourPasses, GuestMoves, Goto
<1>4. pc'[e] = pc[e] /\ rel'[e] = rel[e] /\ \A n \in Node : pc'[n] = pc[n]
    BY <1>0, <1>3
<1>5. \A n \in Node : node'[n].step = node[n].step
  <2>1. ASSUME NEW n \in Node, GoStale(n) PROVE node' = [node EXCEPT ![n].stale = TRUE]
    BY <2>1 DEF GoStale
  <2>2. ASSUME NEW n \in Node, GoLate(n) PROVE node' = [node EXCEPT ![n].late = TRUE]
    BY <2>2 DEF GoLate
  <2>3. ASSUME NEW n \in Node,
               node' = [node EXCEPT ![n].stale = TRUE] \/ node' = [node EXCEPT ![n].late = TRUE]
        PROVE  \A m \in Node : node'[m].step = node[m].step
    BY <1>0, <2>3 DEF NodeRow
  <2>4. CASE \E n \in Node : GoStale(n) \/ GoLate(n)
    BY <2>1, <2>2, <2>3, <2>4
  <2>5. CASE ~\E n \in Node : GoStale(n) \/ GoLate(n)
    <3>1. node' = node
      BY <1>1, <2>5 DEF StartJob, PauseJob, ResumeJob, CancelJob, CreateAnother, HostGoesDown,
         HostBoots, BackoffPasses, HourPasses, GuestMoves
    <3> QED
      BY <3>1
  <2> QED
    BY <2>4, <2>5
<1>6. ASSUME \A n \in Node : host'[n] = "asked" => host[n] = "asked", SparedStep
      PROVE  SpareInv(e)'
  <2>1. \A n \in Node : AskedStep(e, n)
    BY <1>4, <1>5, <1>6 DEF AskedStep
  <2> QED
    BY <1>2, <1>4, <1>6, <2>1, OthersSpare
<1>7. ASSUME \A n \in Node : host'[n] = "asked" => host[n] = "asked"
      PROVE  \A n \in Node : Doomed(n)' => Doomed(n)
    BY <1>4, <1>7 DEF Doomed
<1>8. ASSUME NEW n \in Node, HostGoesDown(n) PROVE SpareInv(e)'
  <2>1. /\ host[n] = "asked" /\ host' = [host EXCEPT ![n] = "down"] /\ up' = up \ RunningOn(n)
        /\ killed' = killed \cup RunningOn(n) /\ at' = at /\ moved' = moved /\ job' = job
    BY <1>8 DEF HostGoesDown
  <2>2. \A m \in Node : host'[m] = "asked" => host[m] = "asked"
    BY <1>0, <2>1
  <2>3. opt.parallel = 1 => \A g \in RunningOn(n) : Excepted(g)
    BY <2>1 DEF SpareInv, Spared, Doomed
  <2>4. \A g : Excepted(g)' <=> Excepted(g)
    BY <2>1 DEF Excepted, Terminal
  <2>5. \A m \in Node : RunningOn(m)' \subseteq RunningOn(m)
    BY <2>1 DEF RunningOn
  <2>6. SparedStep
    BY <1>7, <2>1, <2>2, <2>3, <2>4, <2>5 DEF SparedStep
  <2> QED
    BY <1>6, <2>2, <2>6
<1>9. ASSUME NEW n \in Node, HostBoots(n) PROVE SpareInv(e)'
  <2>1. host' = [host EXCEPT ![n] = "fresh"] /\ up' = up /\ killed' = killed /\ at' = at /\ moved' = moved
    BY <1>9 DEF HostBoots
  <2>2. \A m \in Node : host'[m] = "asked" => host[m] = "asked"
    BY <1>0, <2>1
  <2>3. \A m \in Node : RunningOn(m)' = RunningOn(m)
    BY <2>1 DEF RunningOn
  <2>4. SparedStep
    BY <1>7, <2>1, <2>2, <2>3 DEF SparedStep
  <2> QED
    BY <1>6, <2>2, <2>4
<1>10. ASSUME NEW g \in Guest, GuestMoves(g) PROVE SpareInv(e)'
  <2>1. PICK h : at' = [at EXCEPT ![g] = h]
    BY <1>10 DEF GuestMoves
  <2>2. moved' = moved \cup {g} /\ up' = up /\ killed' = killed /\ host' = host
    BY <1>10 DEF GuestMoves
  <2>3. \A m \in Node : RunningOn(m)' \subseteq RunningOn(m) \cup {g}
    BY <1>0, <2>1, <2>2 DEF RunningOn
  <2>4. Excepted(g)'
    BY <2>2 DEF Excepted
  <2>5. SparedStep
    BY <1>7, <2>2, <2>3, <2>4 DEF SparedStep
  <2> QED
    BY <1>6, <2>2, <2>5
<1>11. CASE \/ StartJob \/ PauseJob \/ ResumeJob \/ CancelJob \/ CreateAnother
            \/ \E n \in Node : GoStale(n) \/ GoLate(n)
            \/ BackoffPasses \/ HourPasses
  <2>1. host' = host /\ up' = up /\ killed' = killed /\ at' = at /\ moved' = moved
    BY <1>11 DEF StartJob, PauseJob, ResumeJob, CancelJob, CreateAnother, GoStale, GoLate,
       BackoffPasses, HourPasses
  <2>2. \A m \in Node : RunningOn(m)' = RunningOn(m)
    BY <2>1 DEF RunningOn
  <2>3. SparedStep
    BY <1>7, <2>1, <2>2 DEF SparedStep
  <2> QED
    BY <1>6, <2>1, <2>3
<1> QED
    BY <1>1, <1>8, <1>9, <1>10, <1>11

(* Every step of a system in which no call fails and the process lives on.  *)
LEMMA StepSpare ==
    ASSUME NEW e, Engine = {e}, MaxFaults = 0, MaxCrashes = 0,
           LInv, Ending, TickInv(e), SpareInv(e), [Next]_vars
    PROVE  SpareInv(e)'
<1>0. e \in Engine /\ e \in Thread /\ TypeOK /\ (Terminal => Terminal')
    BY StepEnding DEF LInv, IInv, Thread
<1>1. CASE UNCHANGED vars
  <2>1. /\ opt' = opt /\ node' = node /\ host' = host /\ at' = at /\ up' = up /\ killed' = killed
        /\ moved' = moved /\ pc' = pc /\ rel' = rel /\ eng' = eng
    BY <1>1 DEF vars, clusterVars
  <2>2. \A n \in Node : AskedStep(e, n) /\ RunningOn(n)' = RunningOn(n) /\ (Doomed(n)' => Doomed(n))
    BY <2>1 DEF AskedStep, RunningOn, Doomed
  <2>3. SparedStep
    BY <2>1, <2>2 DEF SparedStep
  <2> QED
    BY <1>0, <2>1, <2>2, <2>3, OthersSpare
<1>2. ASSUME NEW t \in Thread, Release(t) PROVE SpareInv(e)'
    BY <1>0, <1>2, ReleaseSpares
<1>3. CASE EngineStep(e)
  <2>1. CASE \E n \in Node :
             \/ AdvanceRefused(e, n) \/ AdvanceWaits(e, n) \/ AdvanceTimedOut(e, n)
             \/ AdvanceDraining(e, n) \/ AdvanceUpgrading(e, n) \/ AdvanceRebooted(e, n)
             \/ AdvanceRestoreTimedOut(e, n) \/ AdvanceHealthCheck(e, n)
    BY <1>0, <2>1, AdvanceSpares
  <2>2. CASE \/ Tick(e) \/ DisableDRS(e) \/ DisableDRSOff(e) \/ CreateClient(e) \/ PauseCRS(e)
             \/ RecordCRS(e) \/ FailCheck(e) \/ StartNext(e) \/ FinishJob(e) \/ Sweep(e)
             \/ CheckAfterRules(e) \/ RerecordRules(e) \/ DisableRules(e) \/ ListNodes(e)
    BY <1>0, <2>2, PlainSpares
  <2>3. CASE \/ StartNode(e) \/ StartCheck(e) \/ DrainStart(e)
             \/ DrainCheck(e) \/ DrainGuest(e) \/ RecordStopped(e) \/ StopPassthrough(e)
             \/ VerifyDrained(e) \/ RestartGuests(e) \/ RestoreGuest(e) \/ RestoreDone(e)
    BY <1>0, <2>3, StartSpares, DrainSpares, RestoreSpares
  <2> QED
    BY <1>0, <1>2, <1>3, <2>1, <2>2, <2>3 DEF EngineStep
<1>4. CASE OutsideStep
    BY <1>0, <1>4, WorkSpares, WorldSpares DEF OutsideStep
<1> QED
    BY <1>1, <1>2, <1>3, <1>4, StepKinds

(* No host is asked to reboot before the first tick.                        *)
LEMMA InitSpare ==
    ASSUME NEW e \in Engine, Init
    PROVE  SpareInv(e)
<1>1. /\ e \in Thread /\ Node \subseteq Thread /\ killed = {}
      /\ \A t \in Thread : pc[t] = "idle"
      /\ \A n \in Node : host[n] = "up"
    BY NodeAssumption DEF Init, Thread
<1>2. Phase(e) = "idle"
    BY <1>1 DEF Phase, RelPoints, RestorePoints, DrainPoints
<1> QED
    BY <1>1, <1>2 DEF SpareInv, Asks, Met, Felled, Solo, AtWork, Spared, Doomed, Dooming, RestorePoints,
       DrainPoints

(* The reboots of a job that updates one node at a time take down no guest  *)
(* that runs, except one that somebody else moved onto the node or a        *)
(* passthrough guest the release of a finished job has started: for any     *)
(* nodes, options, cancels, pauses, skips, confirmations, timeouts and      *)
(* moves, when one tick works on the job at a time, no call fails and the   *)
(* process is not killed.  (A node that is given up between its reboot      *)
(* being asked for and its host going down is the target of another drain   *)
(* otherwise.)                                                              *)
THEOREM OneByOneSpares ==
    ASSUME NEW e, Engine = {e}, MaxFaults = 0, MaxCrashes = 0
    PROVE  Spec => []OneByOneSparesGuests
<1> DEFINE Inv == LInv /\ Ending /\ TickInv(e) /\ SpareInv(e)
<1>1. Init => Inv
  <2>1. Init => Flagged /\ Ending
    BY DEF Init, Flagged, NoRelease, Ending, RelPoints
  <2> QED
    BY <2>1, InitInv, InitTick, InitSpare DEF LInv
<1>2. Inv /\ [Next]_vars => Inv'
    BY StepFlagged, StepEnding, StepTick, StepSpare
<1>3. Inv => OneByOneSparesGuests
    BY DEF SpareInv, Spared, Excepted, OneByOneSparesGuests, RebootSparesGuests
<1> HIDE DEF Inv
<1> QED
    BY <1>1, <1>2, <1>3, PTL DEF Spec

-----------------------------------------------------------------------------
(* A drained job of one node: three calls have to fail before its reboot    *)
(* takes down a guest it should not.                                        *)

(* The guests that run on a node and have no excuse to.                     *)
Staying(n) == {g \in RunningOn(n) : ~Excepted(g)}

(* So many calls have failed.                                               *)
Misses(k) == k <= spent.fault

(* The drain of the node has been verified, and no reboot has ended.        *)
Past(n) == node[n].step \in {"upgrading", "awaiting_upgrade", "rebooting"} \/ Live(n)

Loop    == {"drain", "guest", "ptStop"}
Chosen  == ChoosePoints \ {"begin"}
Snapped == Chosen \ {"check"}

(* Who was asked to reboot is on its way, or given up; the process may have *)
(* been killed before ConfirmUpgrade marked the row.                        *)
Asked(n) ==
    /\ host[n] = "asked" =>
            node[n].step \in {"rebooting", "failed"} \/ (node[n].step = "awaiting_upgrade" /\ opt.reboot)
    /\ pc[n] = "confHealth" => ~opt.reboot
    /\ pc[n] = "confReboot" => opt.reboot

(* What it takes for a guest to stay: one failed call in the drain, another *)
(* when it is verified, a third when the reboot is decided.                 *)
NodeToll(n) ==
    /\ Misses(3) \/ \A g \in killed : Excepted(g)
    /\ Doomed(n) => Staying(n) = {} \/ Misses(3)
    /\ Past(n) => Staying(n) = {} \/ Misses(2)
    /\ Asked(n)

DrainToll(e, n) ==
    /\ pc[e] = "verify" => Staying(n) = {} \/ Misses(1)
    /\ pc[e] \in Loop => Staying(n) \subseteq eng[e].left \/ Misses(1)
    /\ pc[e] \in Chosen => Staying(n) \subseteq eng[e].left

(* The guests of the snapshot, in the row and in the tick's copy of it.     *)
Snapshots(e, n) ==
    /\ pc[e] \in Snapped \/ node[n].step = "draining" => Staying(n) \subseteq node[n].guests
    /\ eng[e].rows[n].step = "draining" =>
            /\ node[n].step \notin {"pending", "skipped"}
            /\ node[n].step = "draining" => eng[e].rows[n].guests = node[n].guests

Toll(e, n) == NodeToll(n) /\ DrainToll(e, n) /\ Snapshots(e, n)

(* A step in which no guest comes to stay.                                  *)
Ebbs(n) ==
    /\ spent.fault \in Nat /\ spent'.fault \in Nat /\ spent.fault <= spent'.fault
    /\ \A g : Excepted(g) => Excepted(g)'
    /\ Staying(n)' \subseteq Staying(n)

(* What a step may do to the node, ...                                      *)
NodeStep(n) ==
    /\ \A g \in killed' : g \in killed \/ Excepted(g)' \/ Misses(3)'
    /\ Doomed(n)' => Doomed(n) \/ Staying(n)' = {} \/ Misses(3)'
    /\ Past(n)' => Past(n) \/ Staying(n)' = {} \/ Misses(2)'
    /\ Asked(n)'

(* ... to the drain, ...                                                    *)
DrainStep(e, n) ==
    /\ pc'[e] = "verify" => pc[e] = "verify" \/ Staying(n)' = {} \/ Misses(1)'
    /\ pc'[e] \in Loop =>
            \/ pc[e] \in Loop /\ eng'[e].left = eng[e].left
            \/ Staying(n)' \subseteq eng'[e].left \/ Misses(1)'
    /\ pc'[e] \in Chosen =>
            \/ pc[e] \in Chosen /\ eng'[e].left = eng[e].left
            \/ Staying(n)' \subseteq eng'[e].left

(* ... and to the snapshot.                                                 *)
SnapshotStep(e, n) ==
    /\ pc'[e] \in Snapped \/ node'[n].step = "draining" =>
            \/ (pc[e] \in Snapped \/ node[n].step = "draining") /\ node'[n].guests = node[n].guests
            \/ Staying(n)' \subseteq node'[n].guests
    /\ node'[n].step = "draining" =>
            \/ node[n].step = "draining" /\ node'[n].guests = node[n].guests
            \/ node[n].step \in {"pending", "skipped"}
    /\ node'[n].step \in {"pending", "skipped"} => node[n].step \in {"pending", "skipped"}
    /\ \/ eng'[e].rows = eng[e].rows \/ eng'[e].rows[n].step # "draining"
       \/ eng'[e].rows = node' /\ node' = node

(* Such a step keeps the toll.                                              *)
LEMMA TollKept ==
    ASSUME NEW e, NEW n, Toll(e, n), Ebbs(n), NodeStep(n), DrainStep(e, n), SnapshotStep(e, n)
    PROVE  Toll(e, n)'
<1>1. /\ Misses(1) => Misses(1)' 
      /\ Misses(2) => Misses(2)'
      /\ Misses(3) => Misses(3)'
    BY DEF Ebbs, Misses
<1>2. NodeToll(n)'
    BY <1>1 DEF Toll, NodeToll, NodeStep, Ebbs
<1>3. DrainToll(e, n)'
    BY <1>1 DEF Toll, DrainToll, DrainStep, Ebbs
<1>4. Snapshots(e, n)'
    BY DEF Toll, Snapshots, SnapshotStep, Ebbs
<1> QED
    BY <1>2, <1>3, <1>4 DEF Toll

(* Calls only add to those that have failed.                                *)
LEMMA FaultsGrow ==
    ASSUME TypeOK, spent' = spent \/ Fault
    PROVE  /\ spent.fault \in Nat /\ spent'.fault \in Nat /\ spent.fault <= spent'.fault
           /\ Fault => spent'.fault = spent.fault + 1
BY DEF TypeOK, Fault

(* Guests that are let be, stopped or moved off the node do not come to     *)
(* stay.                                                                    *)
LEMMA GuestsEbb ==
    ASSUME TypeOK, NEW n, Terminal => Terminal', moved \subseteq moved',
           spent.fault \in Nat, spent'.fault \in Nat, spent.fault <= spent'.fault,
           \A g \in RunningOn(n)' : g \in RunningOn(n) \/ Excepted(g)'
    PROVE  Ebbs(n)
<1>1. \A g : Excepted(g) => Excepted(g)'
    BY DEF Excepted
<1> QED
    BY <1>1 DEF Ebbs, Staying

(* What is left to show of a step of the tick that leaves the guests and    *)
(* the hosts alone.                                                         *)
LEMMA TickEbbs ==
    ASSUME NEW e \in Engine, NEW n \in Node, TypeOK, Terminal => Terminal', Toll(e, n),
           opt' = opt, host' = host, moved' = moved, killed' = killed, spent' = spent \/ Fault,
           \A g \in RunningOn(n)' : g \in RunningOn(n),
           pc'[n] = pc[n],
           node'[n].step \in {"upgrading", "awaiting_upgrade", "rebooting"} =>
               Past(n) \/ Staying(n)' = {} \/ Misses(2)',
           host[n] = "asked" => node'[n].step \in {node[n].step, "failed"},
           DrainStep(e, n), SnapshotStep(e, n)
    PROVE  Toll(e, n)'
<1>1. Ebbs(n)
    BY FaultsGrow, GuestsEbb
<1>2. NodeStep(n)
    BY DEF NodeStep, Doomed, Past, Live, Toll, NodeToll, Asked
<1> QED
    BY <1>1, <1>2, TollKept

(* The guests of a row stay when its step is written.                       *)
LEMMA RowWrites ==
    ASSUME NEW rows \in [Node -> NodeRow], NEW n \in Node, NEW s
    PROVE  /\ [rows EXCEPT ![n] = Moved(rows[n], s)][n].step = s
           /\ [rows EXCEPT ![n] = Moved(rows[n], s)][n].guests = rows[n].guests
           /\ [rows EXCEPT ![n] = Touched(rows[n])][n].step = rows[n].step
           /\ [rows EXCEPT ![n] = Touched(rows[n])][n].guests = rows[n].guests
           /\ [rows EXCEPT ![n] = Touched(rows[n])] \in [Node -> NodeRow]
           /\ s \in Steps => [rows EXCEPT ![n] = Moved(rows[n], s)] \in [Node -> NodeRow]
<1>1. rows[n] \in NodeRow
    OBVIOUS
<1>2. Moved(rows[n], s).step = s /\ Moved(rows[n], s).guests = rows[n].guests
    BY <1>1 DEF Moved, NodeRow
<1>3. Touched(rows[n]).step = rows[n].step /\ Touched(rows[n]).guests = rows[n].guests
    BY <1>1 DEF Touched, NodeRow
<1>4. Touched(rows[n]) \in NodeRow
    BY <1>1 DEF Touched, NodeRow
<1>5. s \in Steps => Moved(rows[n], s) \in NodeRow
    BY <1>1, MovedIsRow
<1> QED
    BY <1>2, <1>3, <1>4, <1>5

(* A node that is failed keeps its guests.                                  *)
LEMMA FailKeepsGuests ==
    ASSUME NEW rows \in [Node -> NodeRow], NEW t, NEW n \in Node, NEW back, FailNodeIn(rows, t, n, back)
    PROVE  node'[n].guests = rows[n].guests
<1>1. node' = rows \/ node' = [rows EXCEPT ![n] = Moved(rows[n], "failed")]
    BY DEF FailNodeIn
<1> QED
    BY <1>1, RowWrites

(* The drain moves guests off the node only.                                *)
LEMMA DrainMoves ==
    ASSUME NEW e, DrainGuest(e)
    PROVE  /\ up' = up
           /\ at' = at \/ \E g, h : h \in Targets(eng[e].n) /\ at' = [at EXCEPT ![g] = h]
<1>1. up' = up
    BY DEF DrainGuest
<1>2. PICK g : \/ at' = at
               \/ \E h \in Targets(eng[e].n) : at' = [at EXCEPT ![g] = h]
               \/ at' \in {at} \cup {[at EXCEPT ![g] = h] : h \in Targets(eng[e].n)}
    BY Zenon DEF DrainGuest
<1>3. CASE at' \in {at} \cup {[at EXCEPT ![g] = h] : h \in Targets(eng[e].n)}
    BY <1>1, <1>3
<1> QED
    BY <1>1, <1>2, <1>3

(* The part of the tick that touches no node.                               *)
LEMMA PlainToll ==
    ASSUME NEW e \in Engine, NEW n \in Node, TypeOK, Terminal => Terminal', Toll(e, n),
           \/ Tick(e) \/ DisableDRS(e) \/ DisableDRSOff(e) \/ CreateClient(e) \/ PauseCRS(e)
           \/ RecordCRS(e) \/ FailCheck(e) \/ StartNext(e) \/ FinishJob(e) \/ Sweep(e)
           \/ CheckAfterRules(e) \/ RerecordRules(e) \/ DisableRules(e) \/ ListNodes(e)
    PROVE  Toll(e, n)'
<1> USE DEF clusterVars
<1>0. /\ pc \in [Thread -> Points] /\ e \in Thread /\ n \in Thread /\ e # n
      /\ eng \in [Engine -> EngineLocals] /\ eng[e] \in EngineLocals
    BY ThreadAssumption DEF TypeOK, Thread
<1>1. /\ opt' = opt /\ host' = host /\ moved' = moved /\ killed' = killed /\ at' = at /\ up' = up
      /\ node' = node
    BY DEF Tick, DisableDRS, DisableDRSOff, CreateClient, PauseCRS, RecordCRS, FailCheck, StartNext,
           FinishJob, Sweep, CheckAfterRules, RerecordRules, DisableRules, ListNodes
<1>2. \/ /\ pc[e] \in Snapped /\ eng' = eng
         /\ \E p \in Snapped \cup {"release", "done"} : Goto(e, p)
      \/ \E p \in {"drs", "sweep", "drsOff", "client", "crs", "crsMark", "nodes", "advance", "failJob", "start",
                   "begin", "done", "release", "idle"} : Goto(e, p)
  <2>1. CASE CheckAfterRules(e) \/ RerecordRules(e) \/ DisableRules(e)
    <3>1. /\ pc[e] \in {"ruleOff", "ruleRec", "ruleChk"} /\ eng' = eng
          /\ \E p \in {"ruleRec", "ruleChk", "drainStart", "release", "done"} : Goto(e, p)
      BY <2>1, Zenon DEF CheckAfterRules, RerecordRules, DisableRules
    <3> QED
      BY <3>1 DEF Snapped, Chosen, ChoosePoints
  <2>2. CASE \/ Tick(e) \/ DisableDRS(e) \/ DisableDRSOff(e) \/ CreateClient(e) \/ PauseCRS(e)
             \/ RecordCRS(e) \/ FailCheck(e)
    BY <2>2, Zenon DEF Tick, DisableDRS, DisableDRSOff, CreateClient, PauseCRS, RecordCRS, FailCheck
  <2>3. CASE StartNext(e) \/ FinishJob(e) \/ Sweep(e) \/ ListNodes(e)
    BY <2>3, Zenon DEF StartNext, FinishJob, Sweep, ListNodes
  <2> QED
    BY <2>1, <2>2, <2>3
<1>3. /\ pc'[n] = pc[n]
      /\ pc'[e] \notin Loop \cup {"verify"}
      /\ pc'[e] \in Chosen => pc[e] \in Snapped /\ pc'[e] \in Snapped /\ eng' = eng
  <2>1. ASSUME NEW p, Goto(e, p) PROVE pc'[e] = p /\ pc'[n] = pc[n]
    BY <1>0, <2>1 DEF Goto
  <2> QED
    BY <1>2, <2>1 DEF Loop, Chosen, Snapped, ChoosePoints
<1>4. DrainStep(e, n)
    BY <1>3 DEF DrainStep, Snapped
<1>5. eng'[e].rows = eng[e].rows \/ eng'[e].rows[n].step # "draining" \/ eng'[e].rows = node'
  <2>1. \/ eng' = eng \/ eng' = [eng EXCEPT ![e] = NoEngine]
        \/ \E a, b : eng' = [eng EXCEPT ![e].drs = a, ![e].crs = b]
        \/ \E S : eng' = [eng EXCEPT ![e].rows = node, ![e].todo = S]
        \/ \E m : eng' = [eng EXCEPT ![e].n = m, ![e].back = "done"]
    BY Zenon DEF Tick, DisableDRS, DisableDRSOff, CreateClient, PauseCRS, RecordCRS, FailCheck, StartNext,
           FinishJob, Sweep, CheckAfterRules, RerecordRules, DisableRules, ListNodes
  <2>2. NoEngine.rows[n].step # "draining"
    BY DEF NoEngine, NewRow
  <2>3. \/ eng'[e] = eng[e] \/ eng'[e] = NoEngine
        \/ \E a, b : eng'[e] = [eng[e] EXCEPT !.drs = a, !.crs = b]
        \/ \E S : eng'[e] = [eng[e] EXCEPT !.rows = node, !.todo = S]
        \/ \E m : eng'[e] = [eng[e] EXCEPT !.n = m, !.back = "done"]
    BY <1>0, <2>1
  <2> QED
    BY <1>0, <1>1, <2>2, <2>3 DEF EngineLocals
<1>6. SnapshotStep(e, n)
  <2>1. pc'[e] \in Snapped => pc[e] \in Snapped
    BY <1>3 DEF Snapped
  <2> QED
    BY <1>1, <1>5, <2>1 DEF SnapshotStep
<1>7. /\ \A g \in RunningOn(n)' : g \in RunningOn(n)
      /\ node'[n].step \in {"upgrading", "awaiting_upgrade", "rebooting"} => Past(n)
    BY <1>1 DEF RunningOn, Past
<1>8. CASE spent' = spent \/ Fault
    BY <1>1, <1>3, <1>4, <1>6, <1>7, <1>8, TickEbbs
<1>9. CASE ~(spent' = spent \/ Fault)
  <2>1. spent' = [spent EXCEPT !.fault = spent.fault + 2]
    BY <1>9, Zenon DEF Tick, DisableDRS, DisableDRSOff, CreateClient, PauseCRS, RecordCRS, FailCheck, StartNext,
       FinishJob, Sweep, CheckAfterRules, RerecordRules, DisableRules, ListNodes, NoFault
  <2>2. spent.fault \in Nat /\ spent'.fault = spent.fault + 2
    BY <2>1 DEF TypeOK
  <2>3. Ebbs(n)
    BY <1>1, <1>7, <2>2, GuestsEbb
  <2>4. NodeStep(n)
    BY <1>1, <1>3, <1>7 DEF NodeStep, Doomed, Past, Live, Toll, NodeToll, Asked
  <2> QED
    BY <1>4, <1>6, <2>3, <2>4, TollKept
<1> QED
    BY <1>8, <1>9

(* advanceNode goes on with the drain from the snapshot, and takes the node *)
(* no further than it is.                                                   *)
LEMMA AdvanceToll ==
    ASSUME NEW e \in Engine, NEW n \in Node, TypeOK, TickInv(e), Terminal => Terminal', Toll(e, n),
           \/ AdvanceRefused(e, n) \/ AdvanceWaits(e, n) \/ AdvanceTimedOut(e, n)
           \/ AdvanceDraining(e, n) \/ AdvanceUpgrading(e, n) \/ AdvanceRebooted(e, n)
           \/ AdvanceRestoreTimedOut(e, n) \/ AdvanceHealthCheck(e, n)
    PROVE  Toll(e, n)'
<1> USE DEF clusterVars
<1> DEFINE touched == [node EXCEPT ![n] = Touched(node[n])]
           begun == [node EXCEPT ![n] = Moved(node[n], "restoring")]
           r == eng[e].rows[n]
<1>0. /\ node \in [Node -> NodeRow] /\ node[n] \in NodeRow /\ pc \in [Thread -> Points]
      /\ e \in Thread /\ n \in Thread /\ n # e
      /\ eng \in [Engine -> EngineLocals] /\ eng[e] \in EngineLocals /\ r \in NodeRow
    BY ThreadAssumption DEF TypeOK, Thread, EngineLocals
<1>1. /\ opt' = opt /\ host' = host /\ moved' = moved /\ killed' = killed /\ at' = at /\ up' = up
      /\ spent' = spent \/ Fault
      /\ pc[e] = "advance" /\ n = First(eng[e].todo) /\ eng[e].todo # {}
  <2>1. CASE AdvanceRefused(e, n) \/ AdvanceWaits(e, n) \/ AdvanceTimedOut(e, n)
             \/ AdvanceUpgrading(e, n) \/ AdvanceRebooted(e, n) \/ AdvanceRestoreTimedOut(e, n)
    BY <2>1 DEF AdvanceRefused, AdvanceWaits, AdvanceTimedOut, AdvanceUpgrading,
           AdvanceRebooted, AdvanceRestoreTimedOut, Advances, NoFault
  <2>2. CASE AdvanceDraining(e, n)
    BY <2>2 DEF AdvanceDraining, Advances, NoFault
  <2>3. CASE AdvanceHealthCheck(e, n)
    BY <2>3 DEF AdvanceHealthCheck, Advances, NoFault
  <2> QED
    BY <2>1, <2>2, <2>3
<1>2. Copy(e, n)
  <2>1. eng[e].todo \subseteq Node
    BY <1>0 DEF EngineLocals
  <2>2. n \in eng[e].todo
    BY <1>1, <2>1, FirstIsMember
  <2>3. Phase(e) = "advance"
    BY <1>1 DEF Phase, RelPoints, RestorePoints, DrainPoints
  <2> QED
    BY <2>2, <2>3 DEF TickInv, Copies
<1>3. /\ \A g \in RunningOn(n)' : g \in RunningOn(n)
      /\ Staying(n)' \subseteq Staying(n) /\ Staying(n) \subseteq RunningOn(n)
  <2>1. \A g \in RunningOn(n)' : g \in RunningOn(n)
    BY <1>1 DEF RunningOn
  <2> QED
    BY <1>1, <2>1 DEF Staying, Excepted
<1>4. ASSUME pc'[n] = pc[n], pc'[e] \notin Loop \cup Chosen \cup {"verify"},
             eng'[e].rows = eng[e].rows,
             node'[n].guests = node[n].guests,
             \/ node'[n].step \in {node[n].step, "failed"}
             \/ node'[n].step \in {"health_check", "restoring", "completed"} /\ host[n] # "asked"
      PROVE  Toll(e, n)'
  <2>1. DrainStep(e, n)
    BY <1>4 DEF DrainStep
  <2>2. SnapshotStep(e, n)
    BY <1>4 DEF SnapshotStep, Snapped
  <2>3. node'[n].step \in {"upgrading", "awaiting_upgrade", "rebooting"} => Past(n)
    BY <1>4 DEF Past
  <2> QED
    BY <1>1, <1>3, <1>4, <2>1, <2>2, <2>3, TickEbbs
<1>5. ASSUME NEW rows \in {node, touched, begun}, FailNodeIn(rows, e, n, "advance"),
             eng'[e].rows = eng[e].rows, rows = begun => host[n] # "asked"
      PROVE  Toll(e, n)'
  <2>1. /\ rows \in [Node -> NodeRow] /\ rows[n].guests = node[n].guests
        /\ rows[n].step = node[n].step \/ (rows[n].step = "restoring" /\ host[n] # "asked")
    <3>1. "restoring" \in Steps
      BY DEF Steps, ActiveSteps, Advancing
    <3> QED
      BY <1>0, <1>5, <3>1, RowWrites
  <2>2. /\ pc'[n] = pc[n] /\ pc'[e] \in {"advance", "failJob"}
        /\ node'[n] = rows[n] \/ node'[n].step = "failed"
    BY <1>0, <1>5, <2>1, FailNodeRow
  <2>3. node'[n].guests = node[n].guests
    BY <1>5, <2>1, FailKeepsGuests
  <2>4. pc'[e] \notin Loop \cup Chosen \cup {"verify"}
    BY <2>2 DEF Loop, Chosen, ChoosePoints
  <2>5. \/ node'[n].step \in {node[n].step, "failed"}
        \/ node'[n].step \in {"health_check", "restoring", "completed"} /\ host[n] # "asked"
    BY <2>1, <2>2
  <2> QED
    BY <1>4, <1>5, <2>2, <2>3, <2>4, <2>5
<1>6. /\ Off(e, n)[e].rows = eng[e].rows
      /\ \A left : WorkOn(e, n, left, "advance")[e].rows = eng[e].rows
                   /\ WorkOn(e, n, left, "advance")[e].left = left
  <2>1. Off(e, n)[e].rows = eng[e].rows
    <3>1. Off(e, n)[e] = [eng[e] EXCEPT !.todo = eng[e].todo \ {n}]
      BY <1>0 DEF Off
    <3> QED
      BY <1>0, <3>1 DEF EngineLocals
  <2>2. ASSUME NEW left
        PROVE  /\ WorkOn(e, n, left, "advance")[e].rows = eng[e].rows
               /\ WorkOn(e, n, left, "advance")[e].left = left
    <3>1. WorkOn(e, n, left, "advance")[e] =
              [eng[e] EXCEPT !.todo = eng[e].todo \ {n}, !.n = n, !.left = left, !.back = "advance"]
      BY <1>0 DEF WorkOn
    <3> QED
      BY <1>0, <3>1 DEF EngineLocals
  <2> QED
    BY <2>1, <2>2
<1>7. ASSUME pc' = pc, eng' = Off(e, n),
             \/ node' = node
             \/ \E s \in {"health_check", "completed"} :
                    host[n] # "asked" /\ node' = [node EXCEPT ![n] = Moved(node[n], s)]
      PROVE  Toll(e, n)'
  <2>1. /\ node'[n].guests = node[n].guests
        /\ \/ node'[n].step \in {node[n].step, "failed"}
           \/ node'[n].step \in {"health_check", "restoring", "completed"} /\ host[n] # "asked"
    BY <1>0, <1>7, RowWrites
  <2>2. pc'[e] \notin Loop \cup Chosen \cup {"verify"}
    BY <1>1, <1>7 DEF Loop, Chosen, ChoosePoints
  <2> QED
    BY <1>4, <1>6, <1>7, <2>1, <2>2
<1>8. r.step \in {"health_check", "restoring"} => host[n] # "asked"
    BY <1>2 DEF Copy, Toll, NodeToll, Asked
<1>9. CASE AdvanceRefused(e, n) \/ AdvanceWaits(e, n) \/ AdvanceTimedOut(e, n)
  <2>1. eng' = Off(e, n) /\ ((node' = node /\ pc' = pc) \/ FailNodeIn(node, e, n, "advance"))
    BY <1>9, Zenon DEF AdvanceRefused, AdvanceWaits, AdvanceTimedOut, FailNode
  <2>2. node = begun => host[n] # "asked"
    <3>1. node = begun => node[n].step = "restoring"
      BY <1>0, RowWrites
    <3> QED
      BY <3>1 DEF Toll, NodeToll, Asked
  <2>3. node \in {node, touched, begun}
    OBVIOUS
  <2> QED
    BY <1>5, <1>6, <1>7, <2>1, <2>2, <2>3
<1>10. CASE AdvanceRebooted(e, n) \/ AdvanceRestoreTimedOut(e, n)
  <2>1. /\ eng' = Off(e, n) /\ pc' = pc /\ host[n] # "asked"
        /\ \E s \in {"health_check", "completed"} : node' = [node EXCEPT ![n] = Moved(node[n], s)]
    BY <1>8, <1>10 DEF AdvanceRebooted, AdvanceRestoreTimedOut, SetStep, Advances
  <2> QED
    BY <1>7, <2>1
<1>11. CASE AdvanceHealthCheck(e, n)
  <2>1. host[n] # "asked"
    BY <1>8, <1>11 DEF AdvanceHealthCheck, Advances
  <2>2. \/ eng' = Off(e, n) /\ pc' = pc /\ node' = [node EXCEPT ![n] = Moved(node[n], "completed")]
        \/ /\ node' \in {node, begun} /\ Goto(e, "restart")
           /\ \E left : eng' = WorkOn(e, n, left, "advance")
        \/ eng' = Off(e, n) /\ \E rows \in {node, begun} : FailNodeIn(rows, e, n, "advance")
    BY <1>11, Zenon DEF AdvanceHealthCheck, SetStep
  <2>3. ASSUME node' \in {node, begun}, Goto(e, "restart"), NEW left, eng' = WorkOn(e, n, left, "advance")
        PROVE  Toll(e, n)'
    <3>1. /\ node'[n].guests = node[n].guests
          /\ \/ node'[n].step \in {node[n].step, "failed"}
             \/ node'[n].step \in {"health_check", "restoring", "completed"} /\ host[n] # "asked"
      BY <1>0, <2>1, <2>3, RowWrites
    <3>2. pc'[n] = pc[n] /\ pc'[e] \notin Loop \cup Chosen \cup {"verify"}
      BY <1>0, <2>3 DEF Goto, Loop, Chosen, ChoosePoints
    <3> QED
      BY <1>4, <1>6, <2>3, <3>1, <3>2
  <2> HIDE DEF begun, touched
  <2> QED
    BY <1>5, <1>6, <1>7, <2>1, <2>2, <2>3
<1>12. CASE AdvanceUpgrading(e, n)
  <2>1. Waiting(r) /\ eng' = Off(e, n)
    BY <1>12 DEF AdvanceUpgrading, Advances, Waiting
  <2>2. node[n].step = "upgrading" /\ pc[n] = "idle" /\ Past(n) /\ node # begun
    <3>1. node = begun => node[n].step = "restoring"
      BY <1>0, RowWrites
    <3> QED
      BY <1>2, <2>1, <3>1 DEF Copy, Past
  <2>3. ASSUME node' = [node EXCEPT ![n] = Launched(node[n])],
               pc' = [pc EXCEPT ![n] = IF pc[n] = "idle" THEN "apt" ELSE pc[n]], spent' = spent
        PROVE  Toll(e, n)'
    <3>1. /\ node'[n].step = "upgrading" /\ node'[n].guests = node[n].guests /\ pc'[e] = "advance"
          /\ pc'[n] = "apt"
      BY <1>0, <1>1, <2>2, <2>3 DEF Launched, Touched, NodeRow
    <3>2. DrainStep(e, n) /\ SnapshotStep(e, n)
      BY <1>6, <2>1, <3>1 DEF DrainStep, SnapshotStep, Loop, Chosen, Snapped, ChoosePoints
    <3>3. NodeStep(n)
      BY <1>1, <2>2, <3>1 DEF NodeStep, Doomed, Dooming, Toll, NodeToll, Asked
    <3>4. Ebbs(n)
      BY <1>1, <1>3, FaultsGrow, GuestsEbb
    <3> QED
      BY <3>2, <3>3, <3>4, TollKept
  <2>4. \/ FailNodeIn(node, e, n, "advance")
        \/ /\ node' = [node EXCEPT ![n] = Launched(node[n])] /\ spent' = spent
           /\ pc' = [pc EXCEPT ![n] = IF pc[n] = "idle" THEN "apt" ELSE pc[n]]
    BY <1>12, Zenon DEF AdvanceUpgrading, FailNode, NoFault
  <2> HIDE DEF begun, touched
  <2> QED
    BY <1>5, <1>6, <2>1, <2>2, <2>3, <2>4
<1>13. CASE AdvanceDraining(e, n)
  <2>1. r.step = "draining"
    BY <1>13 DEF AdvanceDraining, Advances
  <2>2. node[n].step = "draining" /\ r.guests = node[n].guests
    BY <1>2, <2>1 DEF Copy, Toll, Snapshots
  <2>3. Staying(n) \subseteq Remaining(n, r) /\ Remaining(n, r) \subseteq r.guests
    <3>1. Staying(n) \subseteq r.guests
      BY <2>2 DEF Toll, Snapshots
    <3> QED
      BY <1>3, <3>1 DEF Remaining, RunningOn
  <2>4. \/ Remaining(n, r) = {} /\ Goto(e, "verify") /\ node' = node /\ eng' = WorkOn(e, n, {}, "advance")
        \/ \E left \in {Remaining(n, r), r.guests} :
              /\ eng' = WorkOn(e, n, left, "advance")
              /\ FailNodeIn(touched, e, n, "advance") \/ (node' = touched /\ Goto(e, "drain"))
        \/ eng' = Off(e, n) /\ FailNodeIn(touched, e, n, "advance")
    BY <1>13, Zenon DEF AdvanceDraining
  <2>5. touched # begun /\ touched \in {node, touched, begun}
    <3>1. touched[n].step = "draining" /\ begun[n].step = "restoring"
      BY <1>0, <2>2, RowWrites
    <3> QED
      BY <3>1
  <2>6. ASSUME NEW left, eng' = WorkOn(e, n, left, "advance"), Staying(n) \subseteq left, node' \in {node, touched},
               NEW p \in {"verify", "drain"}, Goto(e, p), p = "verify" => Staying(n) = {}
        PROVE  Toll(e, n)'
    <3>1. node'[n].step = "draining" /\ node'[n].guests = node[n].guests /\ pc'[n] = pc[n] /\ pc'[e] = p
      BY <1>0, <2>2, <2>6, RowWrites DEF Goto
    <3>2. eng'[e].rows = eng[e].rows /\ eng'[e].left = left
      BY <1>6, <2>6
    <3>3. DrainStep(e, n)
      BY <1>3, <2>6, <3>1, <3>2 DEF DrainStep, Loop, Chosen, ChoosePoints
    <3>4. SnapshotStep(e, n)
      BY <2>2, <3>1, <3>2 DEF SnapshotStep
    <3> QED
      BY <1>1, <1>3, <2>2, <3>1, <3>3, <3>4, TickEbbs
  <2> HIDE DEF begun, touched, r
  <2>7. CASE Remaining(n, r) = {} /\ Goto(e, "verify") /\ node' = node /\ eng' = WorkOn(e, n, {}, "advance")
    <3>1. Staying(n) = {}
      BY <2>3, <2>7
    <3> QED
      BY <2>6, <2>7, <3>1
  <2>8. ASSUME NEW left \in {Remaining(n, r), r.guests}, eng' = WorkOn(e, n, left, "advance"),
               FailNodeIn(touched, e, n, "advance") \/ (node' = touched /\ Goto(e, "drain"))
        PROVE  Toll(e, n)'
    <3>1. Staying(n) \subseteq left
      BY <2>3, <2>8
    <3>2. CASE FailNodeIn(touched, e, n, "advance")
      BY <1>5, <1>6, <2>5, <2>8, <3>2
    <3>3. CASE node' = touched /\ Goto(e, "drain")
      BY <2>6, <2>8, <3>1, <3>3
    <3> QED
      BY <2>8, <3>2, <3>3
  <2>9. CASE eng' = Off(e, n) /\ FailNodeIn(touched, e, n, "advance")
    BY <1>5, <1>6, <2>5, <2>9
  <2> QED
    BY <2>4, <2>7, <2>8, <2>9
<1> QED
    BY <1>9, <1>10, <1>11, <1>12, <1>13

(* startNode takes the snapshot of all that runs, and the drain begins with *)
(* it.                                                                      *)
LEMMA StartToll ==
    ASSUME NEW e \in Engine, NEW n \in Node, Node = {n}, TypeOK, TickInv(e), Terminal => Terminal', Toll(e, n),
           opt.drain, StartNode(e) \/ StartCheck(e) \/ DrainStart(e)
    PROVE  Toll(e, n)'
<1> USE DEF clusterVars
<1> DEFINE draining == [node EXCEPT ![n] = Moved(node[n], "draining")]
           snapshot == [node EXCEPT ![n] = [Touched(node[n]) EXCEPT !.guests = eng[e].left]]
<1>0. /\ node \in [Node -> NodeRow] /\ node[n] \in NodeRow /\ pc \in [Thread -> Points]
      /\ e \in Thread /\ n \in Thread /\ n # e
      /\ eng \in [Engine -> EngineLocals] /\ eng[e] \in EngineLocals /\ eng[e].left \in SUBSET Guest
    BY ThreadAssumption DEF TypeOK, Thread, EngineLocals
<1>1. eng[e].n = n /\ node[n].step \in {"pending", "skipped"} /\ host[n] # "asked"
  <2>1. eng[e].n = n /\ node[n].step \in {"pending", "skipped"}
    BY DEF StartNode, StartCheck, DrainStart, TickInv, Copies, ChoosePoints
  <2> QED
    BY <2>1 DEF Toll, NodeToll, Asked
<1>2. /\ opt' = opt /\ host' = host /\ moved' = moved /\ killed' = killed /\ at' = at /\ up' = up
      /\ spent' = spent \/ Fault
    BY Zenon DEF StartNode, StartCheck, DrainStart, NoFault
<1>3. /\ \A g \in RunningOn(n)' : g \in RunningOn(n)
      /\ Staying(n)' \subseteq Staying(n) /\ Staying(n) \subseteq RunningOn(n)
  <2>1. \A g \in RunningOn(n)' : g \in RunningOn(n)
    BY <1>2 DEF RunningOn
  <2> QED
    BY <1>2, <2>1 DEF Staying, Excepted
<1>4. ASSUME pc'[n] = pc[n], pc'[e] \notin Loop \cup Chosen \cup {"verify"}, eng'[e].rows = eng[e].rows,
             node'[n].step \in {"pending", "skipped", "failed"}
      PROVE  Toll(e, n)'
  <2>1. DrainStep(e, n)
    BY <1>4 DEF DrainStep
  <2>2. SnapshotStep(e, n)
    BY <1>1, <1>4 DEF SnapshotStep, Snapped
  <2> QED
    BY <1>1, <1>2, <1>3, <1>4, <2>1, <2>2, TickEbbs
<1>5. /\ draining \in [Node -> NodeRow] /\ draining[n].step = "draining"
      /\ draining[n].guests = node[n].guests
      /\ snapshot \in [Node -> NodeRow] /\ snapshot[n].step = node[n].step
      /\ snapshot[n].guests = eng[e].left
  <2>1. "draining" \in Steps
    BY DEF Steps, ActiveSteps, Advancing
  <2>2. /\ [Touched(node[n]) EXCEPT !.guests = eng[e].left] \in NodeRow
        /\ [Touched(node[n]) EXCEPT !.guests = eng[e].left].step = node[n].step
        /\ [Touched(node[n]) EXCEPT !.guests = eng[e].left].guests = eng[e].left
    BY <1>0 DEF Touched, NodeRow
  <2> QED
    BY <1>0, <2>1, <2>2, RowWrites
<1>6. ASSUME NEW rows \in {node, snapshot, draining}, FailNodeIn(rows, e, n, "done"), eng' = eng
      PROVE  Toll(e, n)'
  <2>1. rows \in [Node -> NodeRow] /\ rows[n].step \in {"pending", "skipped", "draining"}
    BY <1>0, <1>1, <1>5
  <2>2. /\ pc'[n] = pc[n] /\ pc'[e] \in {"done", "failJob"}
        /\ node'[n].step \in {"pending", "skipped", "failed"}
    BY <1>0, <1>6, <2>1, FailNodeRow DEF FinalSteps
  <2> QED
    BY <1>4, <1>6, <2>2 DEF Loop, Chosen, ChoosePoints
<1>7. ASSUME NEW p, Goto(e, p) PROVE pc'[e] = p /\ pc'[n] = pc[n]
    BY <1>0, <1>7 DEF Goto
<1>8. CASE StartNode(e)
  <2>1. \/ /\ node' = node \/ node' = [node EXCEPT ![n] = Moved(node[n], "skipped")]
           /\ Goto(e, "done") /\ eng' = eng
        \/ /\ eng' = [eng EXCEPT ![e].left = RunningOn(n)]
           /\ Goto(e, "check") /\ node' = node
        \/ FailNodeIn(node, e, n, "done") /\ eng' = eng
    <3>1. \/ SetStep(eng[e].n, "skipped") /\ Goto(e, "done") /\ eng' = eng
          \/ ~opt.drain
          \/ /\ eng' = [eng EXCEPT ![e].left = RunningOn(eng[e].n)]
             /\ Goto(e, "check") /\ node' = node
          \/ Goto(e, "done") /\ node' = node /\ eng' = eng
          \/ FailNodeIn(node, e, eng[e].n, "done") /\ eng' = eng
      BY <1>8, Zenon DEF StartNode, FailNode
    <3> QED
      BY <1>1, <3>1 DEF SetStep
  <2>2. CASE /\ node' = node \/ node' = [node EXCEPT ![n] = Moved(node[n], "skipped")]
             /\ Goto(e, "done") /\ eng' = eng
    <3>1. node'[n].step \in {"pending", "skipped", "failed"}
      BY <1>0, <1>1, <2>2, RowWrites
    <3>2. pc'[n] = pc[n] /\ pc'[e] = "done"
      BY <1>7, <2>2
    <3> QED
      BY <1>4, <2>2, <3>1, <3>2 DEF Loop, Chosen, ChoosePoints
  <2>3. CASE eng' = [eng EXCEPT ![e].left = RunningOn(n)] /\ Goto(e, "check") /\ node' = node
    <3>1. pc'[n] = pc[n] /\ pc'[e] = "check"
      BY <1>7, <2>3
    <3>2. eng'[e].rows = eng[e].rows /\ eng'[e].left = RunningOn(n)
      <4>1. eng'[e] = [eng[e] EXCEPT !.left = RunningOn(n)]
        BY <1>0, <2>3
      <4> QED
        BY <1>0, <4>1 DEF EngineLocals
    <3>3. DrainStep(e, n)
      BY <1>3, <3>1, <3>2 DEF DrainStep, Loop
    <3>4. SnapshotStep(e, n)
      BY <1>1, <2>3, <3>1, <3>2 DEF SnapshotStep, Snapped
    <3> QED
      BY <1>1, <1>2, <1>3, <2>3, <3>1, <3>3, <3>4, TickEbbs
  <2>4. CASE FailNodeIn(node, e, n, "done") /\ eng' = eng
    BY <1>6, <2>4
  <2> QED
    BY <2>1, <2>2, <2>3, <2>4
<1>9. CASE StartCheck(e)
  <2>1. pc[e] \in Chosen
    BY <1>9 DEF StartCheck, Chosen, ChoosePoints
  <2>2. \/ node' = node /\ Goto(e, "done") /\ eng' = eng
        \/ /\ node' = snapshot /\ (\E S : eng' = [eng EXCEPT ![e].rules = S])
           /\ Goto(e, "drainStart") \/ Goto(e, "ruleOff")
        \/ FailNodeIn(snapshot, e, n, "done") /\ eng' = eng
    <3>1. \/ node' = node /\ Goto(e, "done") /\ eng' = eng
          \/ /\ node' = [node EXCEPT ![eng[e].n] = [Touched(node[eng[e].n]) EXCEPT !.guests = eng[e].left]]
             /\ \E S : eng' = [eng EXCEPT ![e].rules = S]
             /\ Goto(e, "drainStart") \/ Goto(e, "ruleOff")
          \/ /\ FailNodeIn([node EXCEPT ![eng[e].n] = [Touched(node[eng[e].n]) EXCEPT !.guests = eng[e].left]],
                           e, eng[e].n, "done")
             /\ eng' = eng
      BY <1>9, Zenon DEF StartCheck
    <3> QED
      BY <1>1, <3>1
  <2>3. CASE node' = node /\ Goto(e, "done") /\ eng' = eng
    <3>1. pc'[n] = pc[n] /\ pc'[e] = "done"
      BY <1>7, <2>3
    <3> QED
      BY <1>1, <1>4, <2>3, <3>1 DEF Loop, Chosen, ChoosePoints
  <2>4. ASSUME node' = snapshot, NEW S, eng' = [eng EXCEPT ![e].rules = S],
               Goto(e, "drainStart") \/ Goto(e, "ruleOff")
        PROVE  Toll(e, n)'
    <3>1. pc'[n] = pc[n] /\ pc'[e] \in {"drainStart", "ruleOff"}
      BY <1>7, <2>4
    <3>2. eng'[e].rows = eng[e].rows /\ eng'[e].left = eng[e].left
      <4>1. eng'[e] = [eng[e] EXCEPT !.rules = S]
        BY <1>0, <2>4
      <4> QED
        BY <1>0, <4>1 DEF EngineLocals
    <3>3. Staying(n)' \subseteq eng[e].left
      BY <1>3, <2>1 DEF Toll, DrainToll
    <3>4. DrainStep(e, n)
      BY <2>1, <3>1, <3>2 DEF DrainStep, Loop
    <3>5. SnapshotStep(e, n)
      BY <1>1, <1>5, <2>4, <3>2, <3>3 DEF SnapshotStep
    <3> QED
      BY <1>1, <1>2, <1>3, <1>5, <2>4, <3>1, <3>4, <3>5, TickEbbs
  <2>5. CASE FailNodeIn(snapshot, e, n, "done") /\ eng' = eng
    BY <1>6, <2>5
  <2> QED
    BY <2>2, <2>3, <2>4, <2>5
<1>10. CASE DrainStart(e)
  <2>1. pc[e] \in Snapped /\ pc[e] \in Chosen /\ eng' = eng
    BY <1>10 DEF DrainStart, Snapped, Chosen, ChoosePoints
  <2>2. \/ node' = draining /\ Goto(e, IF eng[e].left = {} THEN "verify" ELSE "drain")
        \/ FailNodeIn(draining, e, n, "done")
    <3>1. \/ /\ node' = [node EXCEPT ![eng[e].n] = Moved(node[eng[e].n], "draining")]
             /\ Goto(e, IF eng[e].left = {} THEN "verify" ELSE "drain")
          \/ FailNodeIn([node EXCEPT ![eng[e].n] = Moved(node[eng[e].n], "draining")], e, eng[e].n, "done")
      BY <1>10, Zenon DEF DrainStart
    <3> QED
      BY <1>1, <3>1
  <2>3. CASE node' = draining /\ Goto(e, IF eng[e].left = {} THEN "verify" ELSE "drain")
    <3>1. pc'[n] = pc[n] /\ pc'[e] = (IF eng[e].left = {} THEN "verify" ELSE "drain")
      BY <1>7, <2>3
    <3>2. Staying(n)' \subseteq eng[e].left /\ Staying(n)' \subseteq node'[n].guests
      BY <1>3, <1>5, <2>1, <2>3 DEF Toll, DrainToll, Snapshots
    <3>3. DrainStep(e, n)
      BY <2>1, <3>1, <3>2 DEF DrainStep, Loop, Chosen, ChoosePoints
    <3>4. SnapshotStep(e, n)
      BY <1>1, <1>5, <2>1, <2>3, <3>2 DEF SnapshotStep
    <3> QED
      BY <1>1, <1>2, <1>3, <1>5, <2>3, <3>1, <3>3, <3>4, TickEbbs
  <2>4. CASE FailNodeIn(draining, e, n, "done")
    BY <1>6, <2>1, <2>4
  <2> QED
    BY <2>2, <2>3, <2>4
<1> QED
    BY <1>8, <1>9, <1>10

(* A drain that fails fails its node.                                       *)
LEMMA FailedDrain ==
    ASSUME TypeOK, NEW e \in Engine, NEW n \in Node, NEW back, node[n].step = "draining",
           FailNodeIn(node, e, n, back)
    PROVE  pc'[n] = pc[n] /\ pc'[e] = "failJob" /\ node'[n].step = "failed"
<1>1. node \in [Node -> NodeRow] /\ e \in Thread /\ n \in Thread /\ n # e
    BY ThreadAssumption DEF TypeOK, Thread
<1>2. /\ \A u \in Thread \ {e} : pc'[u] = pc[u]
      /\ node[n].step \in FinalSteps \/ (node'[n].step = "failed" /\ pc'[e] = "failJob")
    BY <1>1, FailNodeRow
<1> QED
    BY <1>1, <1>2 DEF FinalSteps

(* The drain lets a guest stay only when a call fails, and so does the      *)
(* check of its end.                                                        *)
LEMMA DrainsToll ==
    ASSUME NEW e \in Engine, NEW n \in Node, Node = {n}, TypeOK, TickInv(e), Terminal => Terminal', Toll(e, n),
           DrainCheck(e) \/ DrainGuest(e) \/ RecordStopped(e) \/ StopPassthrough(e) \/ VerifyDrained(e)
    PROVE  Toll(e, n)'
<1> USE DEF clusterVars
<1>0. /\ node \in [Node -> NodeRow] /\ node[n] \in NodeRow /\ pc \in [Thread -> Points]
      /\ e \in Thread /\ n \in Thread /\ n # e /\ at \in [Guest -> Host] /\ up \subseteq Guest
      /\ eng \in [Engine -> EngineLocals] /\ eng[e] \in EngineLocals /\ spent.fault \in Nat
    BY ThreadAssumption DEF TypeOK, Thread
<1>1. /\ eng[e].n = n /\ node[n].step = "draining" /\ host[n] # "asked"
      /\ eng[e].back \in {"advance", "done"}
  <2>1. eng[e].n = n /\ node[n].step = "draining" /\ eng[e].back \in {"advance", "done"}
    BY DEF DrainCheck, DrainGuest, RecordStopped, StopPassthrough, VerifyDrained, TickInv, Copies, DrainPoints
  <2> QED
    BY <2>1 DEF Toll, NodeToll, Asked
<1>2. /\ opt' = opt /\ host' = host /\ moved' = moved /\ killed' = killed
      /\ spent' = spent \/ Fault
    BY Zenon DEF DrainCheck, DrainGuest, RecordStopped, StopPassthrough, VerifyDrained, NoFault
<1>3. \A g \in RunningOn(n)' : g \in RunningOn(n)
  <2>1. CASE DrainGuest(e)
    <3>1. /\ up' = up
          /\ \/ at' = at
             \/ \E g, h : h \in Targets(eng[e].n) /\ at' = [at EXCEPT ![g] = h]
      BY <2>1, DrainMoves, Zenon
    <3>2. ASSUME NEW g, NEW h, h \in Targets(n), at' = [at EXCEPT ![g] = h]
          PROVE  \A x \in up : at'[x] = n => at[x] = n
      BY <1>0, <3>2 DEF Targets
    <3> QED
      BY <1>1, <3>1, <3>2 DEF RunningOn
  <2>2. CASE DrainCheck(e) \/ RecordStopped(e) \/ StopPassthrough(e) \/ VerifyDrained(e)
    <3>1. at' = at /\ up' \subseteq up
      BY <2>2 DEF DrainCheck, RecordStopped, StopPassthrough, VerifyDrained
    <3> QED
      BY <3>1 DEF RunningOn
  <2> QED
    BY <2>1, <2>2
<1>4. Ebbs(n) /\ Staying(n)' \subseteq Staying(n) /\ Staying(n)' \subseteq RunningOn(n)'
  <2>1. Ebbs(n)
    BY <1>2, <1>3, FaultsGrow, GuestsEbb
  <2> QED
    BY <2>1 DEF Ebbs, Staying
<1>5. ASSUME pc'[n] = pc[n], eng'[e].rows = eng[e].rows, DrainStep(e, n), pc'[e] \notin Snapped,
             \/ node'[n].step = "draining" /\ node'[n].guests = node[n].guests
             \/ node'[n].step = "failed"
      PROVE  Toll(e, n)'
  <2>1. SnapshotStep(e, n)
    BY <1>1, <1>5 DEF SnapshotStep
  <2> QED
    BY <1>1, <1>2, <1>3, <1>5, <2>1, TickEbbs
<1>6. ASSUME FailNodeIn(node, e, n, eng[e].back), eng' = eng
      PROVE  Toll(e, n)'
  <2>1. PICK back : back = eng[e].back
    OBVIOUS
  <2>2. FailNodeIn(node, e, n, back)
    BY <1>6, <2>1
  <2>3. pc'[n] = pc[n] /\ pc'[e] = "failJob" /\ node'[n].step = "failed"
    BY <1>1, <2>2, FailedDrain
  <2>4. DrainStep(e, n) /\ pc'[e] \notin Snapped
    BY <2>3 DEF DrainStep, Loop, Chosen, Snapped, ChoosePoints
  <2> QED
    BY <1>5, <1>6, <2>3, <2>4
<1>7. ASSUME NEW p, Goto(e, p) PROVE pc'[e] = p /\ pc'[n] = pc[n]
    BY <1>0, <1>7 DEF Goto
<1>8. CASE DrainCheck(e)
  <2>1. /\ pc[e] = "drain" /\ eng' = eng /\ node' = node
        /\ \/ eng[e].left = {} /\ Goto(e, "verify")
           \/ Goto(e, eng[e].back) \/ Goto(e, "guest")
    BY <1>8 DEF DrainCheck
  <2>2. /\ pc'[n] = pc[n]
        /\ \/ eng[e].left = {} /\ pc'[e] = "verify"
           \/ pc'[e] \in {"advance", "done", "guest"}
    BY <1>1, <1>7, <2>1
  <2>3. Staying(n)' \subseteq eng[e].left \/ Misses(1)'
    <3>1. Staying(n) \subseteq eng[e].left \/ Misses(1)
      BY <2>1 DEF Toll, DrainToll, Loop
    <3> QED
      BY <1>4, <3>1 DEF Misses, Ebbs
  <2>4. DrainStep(e, n) /\ pc'[e] \notin Snapped
    BY <2>1, <2>2, <2>3 DEF DrainStep, Loop, Chosen, Snapped, ChoosePoints
  <2> QED
    BY <1>1, <1>5, <2>1, <2>2, <2>4
<1>9. CASE DrainGuest(e)
  <2>1. CASE eng' = eng
    <3>1. FailNodeIn(node, e, n, eng[e].back) \/ eng[e].left = {}
      <4>1. \/ FailNodeIn(node, e, eng[e].n, eng[e].back)
            \/ \E g \in eng[e].left : eng' = [eng EXCEPT ![e].left = eng[e].left \ {g}]
        BY <1>9, Zenon DEF DrainGuest, FailNode
      <4>2. ASSUME NEW g \in eng[e].left, eng' = [eng EXCEPT ![e].left = eng[e].left \ {g}] PROVE FALSE
        <5>1. eng'[e].left = eng[e].left \ {g}
          BY <1>0, <4>2 DEF EngineLocals
        <5> QED
          BY <2>1, <4>2, <5>1
      <4> QED
        BY <1>1, <4>1, <4>2
    <3>2. eng[e].left # {}
      BY <1>9 DEF DrainGuest
    <3> QED
      BY <1>6, <2>1, <3>1, <3>2
  <2>2. CASE eng' # eng
    <3>1. PICK g \in eng[e].left :
              /\ eng' = [eng EXCEPT ![e].left = eng[e].left \ {g}] /\ Goto(e, "drain") /\ node' = node
              /\ \/ at[g] # n /\ at' = at
                 \/ \E h \in Targets(n) : at' = [at EXCEPT ![g] = h]
      <4>1. \E g \in eng[e].left :
              /\ eng' = [eng EXCEPT ![e].left = eng[e].left \ {g}] /\ Goto(e, "drain") /\ node' = node
              /\ \/ at[g] # eng[e].n /\ at' = at
                 \/ \E h \in Targets(eng[e].n) : at' = [at EXCEPT ![g] = h]
        BY <1>9, <2>2, Zenon DEF DrainGuest
      <4> QED
        BY <1>1, <4>1
    <3>2. eng'[e].left = eng[e].left \ {g} /\ eng'[e].rows = eng[e].rows
      <4>1. eng'[e] = [eng[e] EXCEPT !.left = eng[e].left \ {g}]
        BY <1>0, <3>1
      <4> QED
        BY <1>0, <4>1 DEF EngineLocals
    <3>3. g \notin RunningOn(n)'
      <4>1. g \in Guest
        BY <1>0, <3>1 DEF EngineLocals
      <4>2. at'[g] # n
        BY <1>0, <3>1, <4>1 DEF Targets
      <4> QED
        BY <4>2 DEF RunningOn
    <3>4. pc[e] \in Loop /\ pc'[e] = "drain" /\ pc'[n] = pc[n]
      BY <1>7, <1>9, <3>1 DEF DrainGuest, Loop
    <3>5. Staying(n)' \subseteq eng'[e].left \/ Misses(1)'
      <4>1. Staying(n) \subseteq eng[e].left \/ Misses(1)
        BY <3>4 DEF Toll, DrainToll
      <4> QED
        BY <1>4, <3>2, <3>3, <4>1 DEF Misses, Ebbs
    <3>6. DrainStep(e, n) /\ pc'[e] \notin Snapped
      BY <3>4, <3>5 DEF DrainStep, Loop, Chosen, Snapped, ChoosePoints
    <3> QED
      BY <1>1, <1>5, <3>1, <3>2, <3>4, <3>6
  <2> QED
    BY <2>1, <2>2
<1>10. CASE RecordStopped(e)
  <2>1. PICK g : /\ node' = [node EXCEPT ![n] = Recorded(node[n], g)]
                 /\ eng' = [eng EXCEPT ![e].g = {g}] /\ Goto(e, "ptStop") /\ pc[e] = "guest"
    BY <1>1, <1>10, Zenon DEF RecordStopped
  <2>2. eng'[e].left = eng[e].left /\ eng'[e].rows = eng[e].rows
    <3>1. eng'[e] = [eng[e] EXCEPT !.g = {g}]
      BY <1>0, <2>1
    <3> QED
      BY <1>0, <3>1 DEF EngineLocals
  <2>3. node'[n].step = "draining" /\ node'[n].guests = node[n].guests
    <3>1. Recorded(node[n], g).step = node[n].step /\ Recorded(node[n], g).guests = node[n].guests
      BY <1>0 DEF Recorded, Touched, NodeRow
    <3> QED
      BY <1>0, <1>1, <2>1, <3>1
  <2>4. pc'[e] = "ptStop" /\ pc'[n] = pc[n]
    BY <1>7, <2>1
  <2>5. DrainStep(e, n) /\ pc'[e] \notin Snapped
    BY <2>1, <2>2, <2>4 DEF DrainStep, Loop, Chosen, Snapped, ChoosePoints
  <2> QED
    BY <1>5, <2>2, <2>3, <2>4, <2>5
<1>11. CASE StopPassthrough(e)
  <2>1. \/ /\ up' = up \ eng[e].g \/ Fault
           /\ eng' = [eng EXCEPT ![e].left = eng[e].left \ eng[e].g, ![e].g = {}]
           /\ Goto(e, "drain") /\ node' = node /\ pc[e] = "ptStop"
        \/ FailNodeIn(node, e, n, eng[e].back) /\ eng' = eng
    <3>1. \/ /\ up' = up \ eng[e].g \/ Fault
             /\ eng' = [eng EXCEPT ![e].left = eng[e].left \ eng[e].g, ![e].g = {}]
             /\ Goto(e, "drain") /\ node' = node /\ pc[e] = "ptStop"
          \/ FailNodeIn(node, e, eng[e].n, eng[e].back) /\ eng' = eng
      BY <1>11, Zenon DEF StopPassthrough, FailNode
    <3> QED
      BY <1>1, <3>1
  <2>2. CASE /\ up' = up \ eng[e].g \/ Fault
             /\ eng' = [eng EXCEPT ![e].left = eng[e].left \ eng[e].g, ![e].g = {}]
             /\ Goto(e, "drain") /\ node' = node /\ pc[e] = "ptStop"
    <3>1. eng'[e].left = eng[e].left \ eng[e].g /\ eng'[e].rows = eng[e].rows
      <4>1. eng'[e] = [eng[e] EXCEPT !.left = eng[e].left \ eng[e].g, !.g = {}]
        BY <1>0, <2>2
      <4> QED
        BY <1>0, <4>1 DEF EngineLocals
    <3>2. pc'[e] = "drain" /\ pc'[n] = pc[n]
      BY <1>7, <2>2
    <3>3. Staying(n) \subseteq eng[e].left \/ Misses(1)
      BY <2>2 DEF Toll, DrainToll, Loop
    <3>4. Staying(n)' \subseteq eng'[e].left \/ Misses(1)'
      <4>1. CASE up' = up \ eng[e].g
        <5>1. RunningOn(n)' \cap eng[e].g = {}
          BY <4>1 DEF RunningOn
        <5> QED
          BY <1>4, <3>1, <3>3, <5>1 DEF Misses, Ebbs
      <4>2. CASE Fault
        BY <1>0, <4>2, FaultsGrow DEF Misses
      <4> QED
        BY <2>2, <4>1, <4>2
    <3>5. DrainStep(e, n) /\ pc'[e] \notin Snapped
      BY <3>2, <3>4 DEF DrainStep, Loop, Chosen, Snapped, ChoosePoints
    <3> QED
      BY <1>1, <1>5, <2>2, <3>1, <3>2, <3>5
  <2> QED
    BY <1>6, <2>1, <2>2
<1>12. CASE VerifyDrained(e)
  <2>1. /\ pc[e] = "verify" /\ eng' = eng /\ at' = at /\ up' = up
        /\ \/ /\ RunningOn(n) = {} \/ Fault
              /\ node' = [node EXCEPT ![n] = Moved(node[n], UpgradeStep)]
              /\ Goto(e, eng[e].back)
           \/ FailNodeIn(node, e, n, eng[e].back)
    <3>1. /\ pc[e] = "verify" /\ eng' = eng /\ at' = at /\ up' = up
          /\ \/ /\ RunningOn(eng[e].n) = {} \/ Fault
                /\ node' = [node EXCEPT ![eng[e].n] = Moved(node[eng[e].n], UpgradeStep)]
                /\ Goto(e, eng[e].back)
             \/ FailNodeIn(node, e, eng[e].n, eng[e].back)
      BY <1>12, Zenon DEF VerifyDrained, FailNode, SetStep
    <3> QED
      BY <1>1, <3>1
  <2>2. CASE /\ RunningOn(n) = {} \/ Fault
             /\ node' = [node EXCEPT ![n] = Moved(node[n], UpgradeStep)]
             /\ Goto(e, eng[e].back)
    <3>1. /\ pc'[e] \in {"advance", "done"} /\ pc'[n] = pc[n]
          /\ node'[n].step \in {"upgrading", "awaiting_upgrade"}
      <4>1. pc'[e] = eng[e].back /\ pc'[n] = pc[n]
        BY <1>7, <2>2
      <4>2. node'[n].step = UpgradeStep
        BY <1>0, <2>2, RowWrites
      <4> QED
        BY <1>1, <4>1, <4>2 DEF UpgradeStep
    <3>2. Staying(n)' = {} \/ Misses(2)'
      <4>1. Staying(n) = {} \/ Misses(1)
        BY <2>1 DEF Toll, DrainToll
      <4>2. CASE Fault
        <5>1. Misses(1) => Misses(2)'
          BY <1>0, <4>2, FaultsGrow DEF Misses
        <5> QED
          BY <1>4, <4>1, <5>1
      <4>3. CASE RunningOn(n) = {}
        BY <1>3, <1>4, <4>3
      <4> QED
        BY <2>2, <4>2, <4>3
    <3>3. DrainStep(e, n) /\ SnapshotStep(e, n)
      BY <1>1, <2>1, <3>1 DEF DrainStep, SnapshotStep, Loop, Chosen, Snapped, ChoosePoints
    <3> QED
      BY <1>1, <1>2, <1>3, <3>1, <3>2, <3>3, TickEbbs
  <2> QED
    BY <1>6, <2>1, <2>2
<1> QED
    BY <1>8, <1>9, <1>10, <1>11, <1>12

(* When guests come back, no reboot is to come.                             *)
LEMMA RestoreToll ==
    ASSUME NEW e \in Engine, NEW n \in Node, Node = {n}, TypeOK, TickInv(e), Toll(e, n),
           RestartGuests(e) \/ RestoreGuest(e) \/ RestoreDone(e)
    PROVE  Toll(e, n)'
<1> USE DEF clusterVars
<1>0. /\ node \in [Node -> NodeRow] /\ node[n] \in NodeRow /\ pc \in [Thread -> Points]
      /\ e \in Thread /\ n \in Thread /\ n # e /\ spent.fault \in Nat
      /\ eng \in [Engine -> EngineLocals] /\ eng[e] \in EngineLocals
    BY ThreadAssumption DEF TypeOK, Thread
<1>1. pc[e] \in RestorePoints /\ eng[e].n = n /\ node[n].step = "restoring" /\ Worker(n)
    BY DEF RestartGuests, RestoreGuest, RestoreDone, TickInv, Copies, RestorePoints, Workers
<1>2. ~Live(n) /\ host[n] # "asked"
    BY <1>1 DEF Worker, Live, SSHPoints, Toll, NodeToll, Asked
<1>3. /\ opt' = opt /\ job' = job /\ host' = host /\ moved' = moved /\ killed' = killed
      /\ spent' = spent \/ Fault
    BY Zenon DEF RestartGuests, RestoreGuest, RestoreDone, NoFault
<1>4. eng'[e].rows = eng[e].rows
  <2>1. eng' = eng \/ \E S : eng' = [eng EXCEPT ![e].left = S]
    BY Zenon DEF RestartGuests, RestoreGuest, RestoreDone
  <2>2. ASSUME NEW S, eng' = [eng EXCEPT ![e].left = S] PROVE eng'[e].rows = eng[e].rows
    <3>1. eng'[e] = [eng[e] EXCEPT !.left = S]
      BY <1>0, <2>2
    <3> QED
      BY <1>0, <3>1 DEF EngineLocals
  <2> QED
    BY <2>1, <2>2
<1>5. pc'[n] = pc[n] /\ pc'[e] \in {"restore", "restart", "advance"}
  <2>1. pc' = pc \/ \E p \in {"restore", "advance"} : pc' = [pc EXCEPT ![e] = p]
    BY Zenon DEF RestartGuests, RestoreGuest, RestoreDone, Goto
  <2> QED
    BY <1>0, <1>1, <2>1 DEF RestorePoints
<1>6. node'[n].step \in {"restoring", "completed"}
  <2>1. \/ node' = node \/ node' = [node EXCEPT ![n] = Moved(node[n], "completed")]
        \/ \E keep : node' = [node EXCEPT ![n] = [Touched(node[n]) EXCEPT !.stopped = keep]]
    <3>1. \/ node' = node \/ node' = [node EXCEPT ![eng[e].n] = Moved(node[eng[e].n], "completed")]
          \/ \E keep : node' = [node EXCEPT ![eng[e].n] = [Touched(node[eng[e].n]) EXCEPT !.stopped = keep]]
      BY Zenon DEF RestartGuests, RestoreGuest, RestoreDone, SetStep
    <3> QED
      BY <1>1, <3>1
  <2>2. ASSUME NEW keep, node' = [node EXCEPT ![n] = [Touched(node[n]) EXCEPT !.stopped = keep]]
        PROVE  node'[n].step = "restoring"
    <3>1. [Touched(node[n]) EXCEPT !.stopped = keep].step = node[n].step
      BY <1>0, TouchedStill
    <3> QED
      BY <1>0, <1>1, <2>2, <3>1
  <2> QED
    BY <1>0, <1>1, <2>1, <2>2, RowWrites
<1>7. NodeToll(n)'
  <2>1. Misses(3) => Misses(3)'
    BY <1>3, FaultsGrow DEF Misses
  <2>2. Misses(3)' \/ \A g \in killed' : Excepted(g)'
    BY <1>3, <2>1 DEF Toll, NodeToll, Excepted, Terminal
  <2>3. ~Doomed(n)' /\ ~Past(n)' /\ Asked(n)'
    BY <1>2, <1>3, <1>5, <1>6 DEF Doomed, Dooming, Past, Live, SSHPoints, ConfPoints, Asked, Toll, NodeToll
  <2> QED
    BY <2>2, <2>3 DEF NodeToll
<1>8. DrainToll(e, n)'
    BY <1>5 DEF DrainToll, Loop, Chosen, ChoosePoints
<1>9. Snapshots(e, n)'
    BY <1>4, <1>5, <1>6 DEF Snapshots, Snapped, Chosen, ChoosePoints
<1> QED
    BY <1>7, <1>8, <1>9 DEF Toll

(* The release of a finished job gives back passed-through guests only.     *)
LEMMA ReleaseToll ==
    ASSUME NEW e \in Engine, NEW n \in Node, LInv, Ending, Terminal => Terminal', Toll(e, n),
           NEW t \in Thread, Release(t)
    PROVE  Toll(e, n)'
<1> USE DEF clusterVars
<1>0. /\ TypeOK /\ IInv /\ e \in Thread /\ n \in Thread /\ rel[t] \in ReleaseLocals
      /\ rel[t].back \in Backs /\ node \in [Node -> NodeRow]
    BY DEF LInv, IInv, TypeOK, Thread, ReleaseLocals
<1>1. ReleaseEffect(t)
    BY <1>0, ReleaseEffects
<1>2. /\ opt' = opt /\ eng' = eng /\ host' = host
      /\ node'[n].step = node[n].step
      /\ \A u \in Thread \ {t} : pc'[u] = pc[u]
      /\ pc'[t] \in RelPoints \cup Backs
    BY <1>0, <1>1 DEF ReleaseEffect
<1>3. \A u \in {e, n} : pc'[u] = pc[u] \/ pc'[u] \in RelPoints \cup Backs
    BY <1>0, <1>2
<1>4. (RelPoints \cup Backs) \cap
          (Dooming \cup SSHPoints \cup ConfPoints \cup Loop \cup Chosen \cup Snapped \cup {"verify"}) = {}
    BY DEF RelPoints, Backs, Dooming, SSHPoints, ConfPoints, Loop, Chosen, Snapped, ChoosePoints
<1>5. /\ at' = at /\ moved' = moved /\ killed' = killed
      /\ up' = up \/ ReleaseGuests(t)
      /\ spent' = spent \/ Fault
    BY DEF Release, FailJob, ReleaseRead, ReleaseNodes, ReleaseDRS, ReleaseDRSMark,
           ReleaseClient, ReleaseCRS, ReleaseCRSMark, ReleaseRules, ReleaseRulesMark, ReleaseGuests,
           ReleaseGuestsUnseen, ReleaseGuestsMark, ReleaseClear, NoFault
<1>6. node'[n].guests = node[n].guests
  <2>1. CASE ReleaseGuestsMark(t)
    <3>1. PICK m : node' = [node EXCEPT ![m] = [Touched(node[m]) EXCEPT !.stopped = rel[t].keep]]
      BY <2>1, Zenon DEF ReleaseGuestsMark
    <3>2. [Touched(node[n]) EXCEPT !.stopped = rel[t].keep].guests = node[n].guests
      BY <1>0 DEF Touched, NodeRow
    <3> QED
      BY <1>0, <3>1, <3>2
  <2>2. CASE ~ReleaseGuestsMark(t)
    BY <2>2 DEF Release, FailJob, ReleaseRead, ReleaseNodes, ReleaseDRS, ReleaseDRSMark,
           ReleaseClient, ReleaseCRS, ReleaseCRSMark, ReleaseRules, ReleaseRulesMark, ReleaseGuests,
           ReleaseGuestsUnseen, ReleaseClear
  <2> QED
    BY <2>1, <2>2
<1>7. ASSUME ReleaseGuests(t) PROVE Terminal /\ up' \subseteq up \cup Passthrough
  <2>1. pc[t] = "relGuests"
    BY <1>7 DEF ReleaseGuests
  <2>2. Terminal
    BY <2>1 DEF Ending, RelPoints
  <2>3. HeldNode(t) \in Node
    BY <1>0, <2>1, HeldNodeIsNode
  <2>4. rel[t].stopped[HeldNode(t)] \subseteq Passthrough
    BY <1>0, <2>3 DEF ReleaseLocals
  <2>5. \E S : up' = up \cup (rel[t].stopped[HeldNode(t)] \ S)
    BY <1>7, Zenon DEF ReleaseGuests
  <2> QED
    BY <2>2, <2>4, <2>5
<1>8. Ebbs(n)
  <2>1. \A g \in RunningOn(n)' : g \in RunningOn(n) \/ Excepted(g)'
    BY <1>5, <1>7 DEF RunningOn, Excepted
  <2> QED
    BY <1>0, <1>5, <2>1, FaultsGrow, GuestsEbb
<1>9. NodeStep(n)
  <2>1. (Doomed(n)' => Doomed(n)) /\ (Past(n)' => Past(n))
    BY <1>2, <1>3, <1>4 DEF Doomed, Past, Live
  <2>2. Asked(n)'
    BY <1>2, <1>3, <1>4 DEF Asked, Toll, NodeToll, ConfPoints
  <2> QED
    BY <1>5, <2>1, <2>2 DEF NodeStep
<1>10. DrainStep(e, n)
    BY <1>2, <1>3, <1>4 DEF DrainStep
<1>11. SnapshotStep(e, n)
    BY <1>2, <1>3, <1>4, <1>6 DEF SnapshotStep
<1> QED
    BY <1>8, <1>9, <1>10, <1>11, TollKept

(* What is left to show of a goroutine, or of a request, at the node.       *)
LEMMA WorkerToll ==
    ASSUME NEW e \in Engine, NEW n \in Node, TypeOK, Toll(e, n), opt' = opt, eng' = eng, Terminal => Terminal',
           moved' = moved, killed' = killed, at' = at, up' = up, pc'[e] = pc[e],
           spent'.fault = spent.fault \/ Fault,
           node'[n].guests = node[n].guests,
           \/ node'[n].step \in {node[n].step} \cup (Steps \ {"pending", "skipped", "draining"})
           \/ node[n].step = "pending" /\ node'[n].step = "skipped",
           Doomed(n)' => Doomed(n) \/ Staying(n) = {} \/ Misses(3)',
           Past(n)' => Past(n),
           Asked(n)'
    PROVE  Toll(e, n)'
<1>1. Ebbs(n) /\ Staying(n)' \subseteq Staying(n)
  <2>1. \A g \in RunningOn(n)' : g \in RunningOn(n)
    BY DEF RunningOn
  <2>2. spent.fault \in Nat /\ spent'.fault \in Nat /\ spent.fault <= spent'.fault
    <3>1. spent.fault \in Nat
      BY DEF TypeOK
    <3>2. CASE Fault
      BY <3>2, FaultsGrow
    <3> QED
      BY <3>1, <3>2
  <2>3. Ebbs(n)
    BY <2>1, <2>2, GuestsEbb
  <2> QED
    BY <2>3 DEF Ebbs
<1>2. NodeStep(n)
    BY <1>1 DEF NodeStep
<1>3. DrainStep(e, n)
    BY DEF DrainStep
<1>4. SnapshotStep(e, n)
    BY DEF SnapshotStep, Steps
<1> QED
    BY <1>1, <1>2, <1>3, <1>4, TollKept

(* A reboot is decided on a node that was verified: a guest is still there  *)
(* when two calls failed, and not seen when a third does.                   *)
LEMMA WorkToll ==
    ASSUME NEW e \in Engine, NEW n \in Node, TypeOK, TickInv(e), Toll(e, n), opt.drain,
           \/ SSHUpgrade(n) \/ SSHDecide(n) \/ SSHMarkReboot(n) \/ SSHReboot(n)
           \/ ConfirmReboot(n) \/ ConfirmMark(n) \/ ConfirmUpgrade(n) \/ SkipNode(n)
    PROVE  Toll(e, n)'
<1> USE DEF clusterVars
<1> DEFINE marked == [node EXCEPT ![n] = Moved(node[n], "rebooting")]
<1>0. /\ node \in [Node -> NodeRow] /\ pc \in [Thread -> Points] /\ n \in Thread /\ n \in Host
      /\ host \in [Host -> {"up", "asked", "down", "fresh"}] /\ e \in Thread /\ e # n
      /\ Worker(n) /\ Asked(n) /\ spent.fault \in Nat
    BY NodeAssumption, ThreadAssumption DEF TypeOK, Thread, TickInv, Workers, Toll, NodeToll
<1>1. /\ moved' = moved /\ killed' = killed /\ at' = at /\ up' = up /\ eng' = eng /\ opt' = opt
      /\ job' = job /\ (Terminal => Terminal')
  <2>1. /\ moved' = moved /\ killed' = killed /\ at' = at /\ up' = up /\ eng' = eng /\ opt' = opt
        /\ job' = job
    BY DEF SSHUpgrade, SSHDecide, SSHMarkReboot, SSHReboot, ConfirmReboot, ConfirmMark, ConfirmUpgrade,
           SkipNode
  <2> QED
    BY <2>1 DEF Terminal
<1>2. spent'.fault = spent.fault \/ Fault
  <2>1. CASE SkipNode(n)
    BY <2>1 DEF SkipNode, Request, TypeOK
  <2>2. CASE ~SkipNode(n)
    <3>1. spent' = spent \/ Fault
      BY <2>2, Zenon DEF SSHUpgrade, SSHDecide, SSHMarkReboot, SSHReboot, ConfirmReboot, ConfirmMark,
         ConfirmUpgrade, NoFault
    <3> QED
      BY <3>1
  <2> QED
    BY <2>1, <2>2
<1>3. {"rebooting", "health_check", "skipped", "failed"} \subseteq Steps
    BY DEF Steps, ActiveSteps, Advancing, FinalSteps
<1>4. marked \in [Node -> NodeRow] /\ marked[n].step = "rebooting" /\ marked[n].guests = node[n].guests
    BY <1>0, <1>3, RowWrites
<1> HIDE DEF marked
<1>5. ASSUME NEW p, Goto(n, p) PROVE pc'[n] = p /\ pc'[e] = pc[e]
    BY <1>0, <1>5 DEF Goto
<1>6. ASSUME NEW rows \in {node, marked}, FailNodeIn(rows, n, n, "idle"),
             node[n].step \in {"upgrading", "awaiting_upgrade", "rebooting", "failed"},
             host' = host \/ (host' = RebootAsked(n) /\ pc[n] \in Dooming)
      PROVE  Toll(e, n)'
  <2>1. rows \in [Node -> NodeRow] /\ rows[n].guests = node[n].guests
        /\ rows[n].step \notin {"completed", "skipped"}
    BY <1>0, <1>4, <1>6
  <2>2. node'[n].step = "failed" /\ pc'[n] \in {"idle", "failJob"} /\ pc'[e] = pc[e]
    <3>1. /\ \A u \in Thread \ {n} : pc'[u] = pc[u]
          /\ \/ rows[n].step \in FinalSteps /\ node'[n] = rows[n] /\ pc'[n] = "idle"
             \/ node'[n].step = "failed" /\ pc'[n] = "failJob"
      BY <1>0, <1>6, <2>1, FailNodeRow
    <3> QED
      BY <1>0, <2>1, <3>1 DEF FinalSteps
  <2>3. node'[n].guests = node[n].guests
    BY <1>6, <2>1, FailKeepsGuests
  <2>4. ~Past(n)' /\ Asked(n)'
    BY <2>2 DEF Past, Live, SSHPoints, ConfPoints, Asked
  <2>5. Doomed(n)' => Doomed(n)
    BY <1>6, <2>2 DEF Doomed, Dooming
  <2> QED
    BY <1>1, <1>2, <1>3, <2>2, <2>3, <2>4, <2>5, WorkerToll
<1>7. CASE SSHUpgrade(n)
  <2>1. pc[n] = "apt" /\ host' = host
    BY <1>7 DEF SSHUpgrade
  <2>2. node[n].step \in {"upgrading", "failed"} /\ host[n] = "up"
    BY <1>0, <2>1 DEF Worker, SSHPoints
  <2>3. \/ node' = node /\ (Goto(n, "idle") \/ Goto(n, "rebootCheck"))
        \/ FailNodeIn(node, n, n, "idle")
    BY <1>7 DEF SSHUpgrade, FailNode
  <2>4. CASE node' = node /\ (Goto(n, "idle") \/ Goto(n, "rebootCheck"))
    <3>1. pc'[n] \in {"idle", "rebootCheck"} /\ pc'[e] = pc[e]
      BY <1>5, <2>4
    <3>2. (Doomed(n)' => Doomed(n)) /\ (Past(n)' => Past(n)) /\ Asked(n)'
      BY <2>1, <2>2, <2>4, <3>1 DEF Doomed, Dooming, Past, Live, SSHPoints, ConfPoints, Asked
    <3> QED
      BY <1>1, <1>2, <2>4, <3>1, <3>2, WorkerToll
  <2> QED
    BY <1>6, <2>1, <2>2, <2>3, <2>4
<1>8. ASSUME NEW unknown \in BOOLEAN, IF unknown THEN Fault ELSE NoFault, Past(n),
             DecideReboot(RunningOn(n), unknown) # "fail"
      PROVE  DecideReboot(RunningOn(n), unknown) = "proceed" /\ (Staying(n) = {} \/ Misses(3)')
  <2>1. DecideReboot(RunningOn(n), unknown) = "proceed" /\ (unknown \/ RunningOn(n) = {})
    BY <1>8 DEF DecideReboot
  <2>2. CASE RunningOn(n) = {}
    BY <2>1, <2>2 DEF Staying
  <2>3. CASE unknown
    <3>1. Staying(n) = {} \/ Misses(2)
      BY <1>8 DEF Toll, NodeToll
    <3>2. spent'.fault = spent.fault + 1
      BY <1>8, <2>3, FaultsGrow
    <3> QED
      BY <1>0, <2>1, <3>1, <3>2 DEF Misses
  <2> QED
    BY <2>1, <2>2, <2>3
<1>9. CASE SSHDecide(n)
  <2>1. pc[n] = "rebootCheck" /\ host' = host
    BY <1>9 DEF SSHDecide
  <2>2. node[n].step \in {"upgrading", "failed"} /\ host[n] = "up" /\ Past(n)
    BY <1>0, <2>1 DEF Worker, SSHPoints, Past, Live
  <2>3. \/ node' = [node EXCEPT ![n] = Moved(node[n], "health_check")] /\ Goto(n, "idle")
        \/ FailNodeIn(node, n, n, "idle")
        \/ node' = node /\ Goto(n, "rebootMark") /\ (Staying(n) = {} \/ Misses(3)')
    <3>1. \/ node' = [node EXCEPT ![n] = Moved(node[n], "health_check")] /\ Goto(n, "idle")
          \/ \E unknown \in BOOLEAN :
             /\ IF unknown THEN Fault ELSE NoFault
             /\ CASE DecideReboot(RunningOn(n), unknown) = "defer" ->
                       node' = [node EXCEPT ![n] = [Moved(node[n], "health_check") EXCEPT !.owed = TRUE]]
                  [] DecideReboot(RunningOn(n), unknown) = "fail" -> FailNode(n, n, "idle")
                  [] OTHER -> Goto(n, "rebootMark") /\ node' = node
      BY <1>9, Zenon DEF SSHDecide, SetStep
    <3>2. ASSUME NEW unknown \in BOOLEAN, IF unknown THEN Fault ELSE NoFault,
                 CASE DecideReboot(RunningOn(n), unknown) = "defer" ->
                        node' = [node EXCEPT ![n] = [Moved(node[n], "health_check") EXCEPT !.owed = TRUE]]
                   [] DecideReboot(RunningOn(n), unknown) = "fail" -> FailNode(n, n, "idle")
                   [] OTHER -> Goto(n, "rebootMark") /\ node' = node
          PROVE  \/ FailNodeIn(node, n, n, "idle")
                 \/ node' = node /\ Goto(n, "rebootMark") /\ (Staying(n) = {} \/ Misses(3)')
      <4>1. CASE DecideReboot(RunningOn(n), unknown) = "fail"
        BY <3>2, <4>1 DEF FailNode
      <4>2. CASE DecideReboot(RunningOn(n), unknown) # "fail"
        <5>1. DecideReboot(RunningOn(n), unknown) = "proceed" /\ (Staying(n) = {} \/ Misses(3)')
          BY <1>8, <2>2, <3>2, <4>2
        <5> QED
          BY <3>2, <5>1
      <4> QED
        BY <4>1, <4>2
    <3> QED
      BY <3>1, <3>2, Zenon
  <2>4. CASE node' = [node EXCEPT ![n] = Moved(node[n], "health_check")] /\ Goto(n, "idle")
    <3>1. pc'[n] = "idle" /\ pc'[e] = pc[e]
      BY <1>5, <2>4
    <3>2. node'[n].step = "health_check" /\ node'[n].guests = node[n].guests
      BY <1>0, <2>4, RowWrites
    <3>3. (Doomed(n)' => Doomed(n)) /\ (Past(n)' => Past(n)) /\ Asked(n)'
      BY <2>1, <2>2, <3>1, <3>2 DEF Doomed, Dooming, Asked
    <3> QED
      BY <1>1, <1>2, <1>3, <3>1, <3>2, <3>3, WorkerToll
  <2>5. CASE node' = node /\ Goto(n, "rebootMark") /\ (Staying(n) = {} \/ Misses(3)')
    <3>1. pc'[n] = "rebootMark" /\ pc'[e] = pc[e]
      BY <1>5, <2>5
    <3>2. Asked(n)'
      BY <2>1, <2>2, <3>1 DEF Asked
    <3> QED
      BY <1>1, <1>2, <2>2, <2>5, <3>1, <3>2, WorkerToll
  <2> QED
    BY <1>6, <2>1, <2>2, <2>3, <2>4, <2>5
<1>10. CASE SSHMarkReboot(n)
  <2>1. pc[n] = "rebootMark" /\ host' = host /\ node' = marked /\ Goto(n, "reboot")
    BY <1>10 DEF SSHMarkReboot, SetStep, marked
  <2>2. pc'[n] = "reboot" /\ pc'[e] = pc[e] /\ node'[n].step = "rebooting" /\ node'[n].guests = node[n].guests
    BY <1>4, <1>5, <2>1
  <2>3. Doomed(n) /\ Past(n) /\ Asked(n)'
    BY <2>1, <2>2 DEF Doomed, Dooming, Past, Live, SSHPoints, Asked
  <2> QED
    BY <1>1, <1>2, <1>3, <2>2, <2>3, WorkerToll
<1>11. CASE SSHReboot(n)
  <2>1. pc[n] = "reboot" /\ pc[n] \in Dooming /\ host' \in {host, RebootAsked(n)}
    BY <1>11 DEF SSHReboot, Dooming
  <2>2. node[n].step \in {"rebooting", "failed"} /\ Doomed(n) /\ Past(n)
    BY <1>0, <2>1 DEF Worker, Doomed, Past, Live, SSHPoints
  <2>3. (node' = node /\ Goto(n, "idle")) \/ FailNodeIn(node, n, n, "idle")
    BY <1>11 DEF SSHReboot, FailNode
  <2>4. CASE node' = node /\ Goto(n, "idle")
    <3>1. pc'[n] = "idle" /\ pc'[e] = pc[e]
      BY <1>5, <2>4
    <3>2. Asked(n)'
      BY <2>2, <2>4, <3>1 DEF Asked
    <3> QED
      BY <1>1, <1>2, <2>2, <2>4, <3>1, <3>2, WorkerToll
  <2> QED
    BY <1>6, <2>1, <2>2, <2>3, <2>4
<1>12. CASE ConfirmReboot(n)
  <2>1. pc[n] = "confReboot" /\ pc[n] \in Dooming /\ host' \in {host, RebootAsked(n)}
    BY <1>12 DEF ConfirmReboot, Dooming
  <2>2. node[n].step = "awaiting_upgrade" /\ Doomed(n) /\ Past(n) /\ opt.reboot
    BY <1>0, <2>1 DEF Worker, Doomed, Past, Live, ConfPoints, Asked
  <2>3. (node' = node /\ Goto(n, "confMark")) \/ FailNodeIn(marked, n, n, "idle")
    BY <1>12 DEF ConfirmReboot, marked
  <2>4. CASE node' = node /\ Goto(n, "confMark")
    <3>1. pc'[n] = "confMark" /\ pc'[e] = pc[e]
      BY <1>5, <2>4
    <3>2. Asked(n)'
      BY <1>1, <2>2, <2>4, <3>1 DEF Asked
    <3> QED
      BY <1>1, <1>2, <2>2, <2>4, <3>1, <3>2, WorkerToll
  <2> QED
    BY <1>6, <2>1, <2>2, <2>3, <2>4
<1>13. CASE ConfirmMark(n)
  <2>1. pc[n] \in {"confMark", "confHealth"} /\ host' = host /\ Goto(n, "idle")
        /\ node' = [node EXCEPT ![n] = Moved(node[n], IF pc[n] = "confMark" THEN "rebooting" ELSE "health_check")]
    BY <1>13 DEF ConfirmMark, SetStep
  <2>2. pc'[n] = "idle" /\ pc'[e] = pc[e]
    BY <1>5, <2>1
  <2>3. /\ node'[n].guests = node[n].guests
        /\ node'[n].step = IF pc[n] = "confMark" THEN "rebooting" ELSE "health_check"
    BY <1>0, <2>1, RowWrites
  <2>4. Past(n)
    BY <2>1 DEF Past, Live, ConfPoints
  <2>5. Asked(n)'
    <3>1. pc[n] = "confHealth" => host[n] # "asked"
      BY <1>0 DEF Asked, Worker, ConfPoints
    <3> QED
      BY <2>1, <2>2, <2>3, <3>1 DEF Asked
  <2>6. Doomed(n)' => Doomed(n)
    BY <2>1, <2>2 DEF Doomed, Dooming
  <2> QED
    BY <1>1, <1>2, <1>3, <2>2, <2>3, <2>4, <2>5, <2>6, WorkerToll
<1>14. CASE ConfirmUpgrade(n)
  <2>1. pc[n] = "idle" /\ node[n].step = "awaiting_upgrade" /\ host' = host /\ Past(n)
    BY <1>14 DEF ConfirmUpgrade, Past
  <2>2. \/ FailNodeIn(node, n, n, "idle")
        \/ node' = node /\ Goto(n, "confHealth") /\ ~opt.reboot
        \/ node' = node /\ Goto(n, "confReboot") /\ opt.reboot /\ (Staying(n) = {} \/ Misses(3)')
    <3>1. \/ FailNode(n, n, "idle")
          \/ ~opt.reboot /\ Goto(n, "confHealth") /\ node' = node
          \/ /\ opt.reboot
             /\ \E unknown \in BOOLEAN :
                /\ IF unknown THEN Fault ELSE NoFault
                /\ DecideReboot(RunningOn(n), unknown) # "fail"
                /\ DecideReboot(RunningOn(n), unknown) = "defer" \/ (node' = node /\ Goto(n, "confReboot"))
      BY <1>14, Zenon DEF ConfirmUpgrade
    <3>2. ASSUME NEW unknown \in BOOLEAN, IF unknown THEN Fault ELSE NoFault,
                 DecideReboot(RunningOn(n), unknown) # "fail",
                 DecideReboot(RunningOn(n), unknown) = "defer" \/ (node' = node /\ Goto(n, "confReboot"))
          PROVE  node' = node /\ Goto(n, "confReboot") /\ (Staying(n) = {} \/ Misses(3)')
      <4>1. DecideReboot(RunningOn(n), unknown) = "proceed" /\ (Staying(n) = {} \/ Misses(3)')
        BY <1>8, <2>1, <3>2
      <4> QED
        BY <3>2, <4>1
    <3> QED
      BY <3>1, <3>2, Zenon DEF FailNode
  <2>3. CASE node' = node /\ Goto(n, "confHealth") /\ ~opt.reboot
    <3>1. pc'[n] = "confHealth" /\ pc'[e] = pc[e]
      BY <1>5, <2>3
    <3>2. Asked(n)' /\ (Doomed(n)' => Doomed(n))
      BY <1>0, <1>1, <2>1, <2>3, <3>1 DEF Asked, Doomed, Dooming
    <3> QED
      BY <1>1, <1>2, <2>1, <2>3, <3>1, <3>2, WorkerToll
  <2>4. CASE node' = node /\ Goto(n, "confReboot") /\ opt.reboot /\ (Staying(n) = {} \/ Misses(3)')
    <3>1. pc'[n] = "confReboot" /\ pc'[e] = pc[e]
      BY <1>5, <2>4
    <3>2. Asked(n)'
      BY <1>0, <1>1, <2>1, <2>4, <3>1 DEF Asked
    <3> QED
      BY <1>1, <1>2, <2>1, <2>4, <3>1, <3>2, WorkerToll
  <2> QED
    BY <1>6, <2>1, <2>2, <2>3, <2>4
<1>15. CASE SkipNode(n)
  <2>1. /\ node[n].step = "pending" /\ host' = host /\ pc' = pc
        /\ node' = [node EXCEPT ![n] = Moved(node[n], "skipped")]
    BY <1>15 DEF SkipNode, SetStep
  <2>2. node'[n].step = "skipped" /\ node'[n].guests = node[n].guests
    BY <1>0, <2>1, RowWrites
  <2>3. (Doomed(n)' => Doomed(n)) /\ (Past(n)' => Past(n)) /\ Asked(n)'
    BY <1>0, <1>1, <2>1, <2>2 DEF Doomed, Past, Live, Asked
  <2> QED
    BY <1>1, <1>2, <2>1, <2>2, <2>3, WorkerToll
<1> QED
    BY <1>7, <1>9, <1>10, <1>11, <1>12, <1>13, <1>14, <1>15

(* The requests, time, the cluster and crashes: a host that goes down takes *)
(* along what stays on it.                                                  *)
LEMMA WorldToll ==
    ASSUME NEW e \in Engine, NEW n \in Node, Node = {n}, TypeOK, Terminal => Terminal', Toll(e, n),
           \/ StartJob \/ PauseJob \/ ResumeJob \/ CancelJob \/ CreateAnother
           \/ \E m \in Node : GoStale(m) \/ GoLate(m) \/ HostGoesDown(m) \/ HostBoots(m)
           \/ BackoffPasses \/ HourPasses
           \/ \E g \in Guest : GuestMoves(g)
           \/ Crash
    PROVE  Toll(e, n)'
<1> USE DEF clusterVars
<1>0. /\ node \in [Node -> NodeRow] /\ node[n] \in NodeRow /\ pc \in [Thread -> Points]
      /\ host \in [Host -> {"up", "asked", "down", "fresh"}] /\ n \in Host
      /\ at \in [Guest -> Host] /\ up \subseteq Guest
      /\ e \in Thread /\ n \in Thread /\ Api \in Thread /\ Api \notin {e, n}
    BY ThreadAssumption, NodeAssumption DEF TypeOK, Thread
<1>1. opt' = opt /\ moved \subseteq moved'
    BY DEF StartJob, PauseJob, ResumeJob, CancelJob, CreateAnother, GoStale, GoLate, HostGoesDown,
       HostBoots, BackoffPasses, HourPasses, GuestMoves, Crash
<1>2. spent.fault \in Nat /\ spent'.fault = spent.fault
  <2>1. \/ spent' = spent \/ spent' = [spent EXCEPT !.request = spent.request + 1]
        \/ spent' = [spent EXCEPT !.cancel = spent.cancel + 1]
        \/ spent' = [spent EXCEPT !.move = spent.move + 1]
        \/ spent' = [spent EXCEPT !.crash = spent.crash + 1]
    BY DEF StartJob, PauseJob, ResumeJob, CancelJob, CreateAnother, GoStale, GoLate, HostGoesDown,
       HostBoots, BackoffPasses, HourPasses, GuestMoves, Crash, Request
  <2> QED
    BY <2>1 DEF TypeOK
<1>3. \/ pc' = [t \in Thread |-> "idle"] /\ eng' = [f \in Engine |-> NoEngine]
      \/ (pc' = pc \/ pc' = [pc EXCEPT ![Api] = "release"]) /\ eng' = eng
    BY DEF StartJob, PauseJob, ResumeJob, CancelJob, CreateAnother, GoStale, GoLate, HostGoesDown,
       HostBoots, BackoffPasses, HourPasses, GuestMoves, Crash, Goto
<1>4. \/ pc'[n] = "idle" /\ pc'[e] = "idle" /\ eng'[e] = NoEngine
      \/ pc'[n] = pc[n] /\ pc'[e] = pc[e] /\ eng'[e] = eng[e]
    BY <1>0, <1>3
<1>5. node'[n].step = node[n].step /\ node'[n].guests = node[n].guests
  <2>1. ASSUME GoStale(n) PROVE node' = [node EXCEPT ![n] = [node[n] EXCEPT !.stale = TRUE]]
    BY <1>0, <2>1 DEF GoStale
  <2>2. ASSUME GoLate(n) PROVE node' = [node EXCEPT ![n] = [node[n] EXCEPT !.late = TRUE]]
    BY <1>0, <2>2 DEF GoLate
  <2>3. CASE ~GoStale(n) /\ ~GoLate(n)
    BY <2>3 DEF StartJob, PauseJob, ResumeJob, CancelJob, CreateAnother, HostGoesDown,
         HostBoots, BackoffPasses, HourPasses, GuestMoves, Crash
  <2> QED
    BY <1>0, <2>1, <2>2, <2>3 DEF NodeRow
<1>6. host'[n] = "asked" => host[n] = "asked"
  <2>1. \/ host' = host
        \/ \E m \in Node : host' = [host EXCEPT ![m] = "down"] \/ host' = [host EXCEPT ![m] = "fresh"]
    BY DEF StartJob, PauseJob, ResumeJob, CancelJob, CreateAnother, GoStale, GoLate, HostGoesDown,
       HostBoots, BackoffPasses, HourPasses, GuestMoves, Crash
  <2> QED
    BY <1>0, <2>1
<1>7. Ebbs(n)
  <2>1. \A g \in RunningOn(n)' : g \in RunningOn(n) \/ Excepted(g)'
    <3>1. ASSUME NEW g \in Guest, GuestMoves(g) PROVE \A x \in RunningOn(n)' : x \in RunningOn(n) \/ Excepted(x)'
      <4>1. PICK h : at' = [at EXCEPT ![g] = h]
        BY <3>1 DEF GuestMoves
      <4>2. moved' = moved \cup {g} /\ up' = up
        BY <3>1 DEF GuestMoves
      <4> QED
        BY <1>0, <4>1, <4>2 DEF RunningOn, Excepted
    <3>2. CASE ~(\E g \in Guest : GuestMoves(g))
      <4>1. at' = at /\ up' \subseteq up
        BY <3>2 DEF StartJob, PauseJob, ResumeJob, CancelJob, CreateAnother, GoStale, GoLate, HostGoesDown,
           HostBoots, BackoffPasses, HourPasses, Crash
      <4> QED
        BY <4>1 DEF RunningOn
    <3> QED
      BY <3>1, <3>2
  <2> QED
    BY <1>1, <1>2, <2>1, GuestsEbb
<1>8. \A g \in killed' : g \in killed \/ Excepted(g)' \/ Misses(3)'
  <2>1. CASE HostGoesDown(n)
    <3>1. killed' = killed \cup RunningOn(n) /\ host[n] = "asked"
      BY <2>1 DEF HostGoesDown
    <3>2. Staying(n) = {} \/ Misses(3)
      BY <3>1 DEF Toll, NodeToll, Doomed
    <3>3. \A g \in RunningOn(n) : Excepted(g) \/ Misses(3)
      BY <3>2 DEF Staying
    <3> QED
      BY <1>2, <1>7, <3>1, <3>3 DEF Ebbs, Misses
  <2>2. CASE ~HostGoesDown(n)
    BY <2>2 DEF StartJob, PauseJob, ResumeJob, CancelJob, CreateAnother, GoStale, GoLate,
       HostBoots, BackoffPasses, HourPasses, GuestMoves, Crash
  <2> QED
    BY <2>1, <2>2
<1>9. NodeStep(n)
  <2>1. (Doomed(n)' => Doomed(n)) /\ (Past(n)' => Past(n))
    BY <1>4, <1>5, <1>6 DEF Doomed, Dooming, Past, Live, SSHPoints, ConfPoints
  <2>2. Asked(n)'
    BY <1>1, <1>4, <1>5, <1>6 DEF Asked, Toll, NodeToll
  <2> QED
    BY <1>8, <2>1, <2>2 DEF NodeStep
<1>10. DrainStep(e, n)
    BY <1>4 DEF DrainStep, Loop, Chosen, ChoosePoints
<1>11. SnapshotStep(e, n)
  <2>1. NoEngine.rows[n].step # "draining"
    BY DEF NoEngine, NewRow
  <2> QED
    BY <1>4, <1>5, <2>1 DEF SnapshotStep, Snapped, Chosen, ChoosePoints
<1> QED
    BY <1>7, <1>9, <1>10, <1>11, TollKept

(* Every step of a drained job of one node.                                 *)
LEMMA StepToll ==
    ASSUME NEW e, Engine = {e}, NEW n, Node = {n}, opt.drain,
           LInv, Ending, TickInv(e), Toll(e, n), [Next]_vars
    PROVE  Toll(e, n)'
<1>0. e \in Engine /\ e \in Thread /\ n \in Node /\ TypeOK /\ (Terminal => Terminal')
    BY StepEnding DEF LInv, IInv, Thread
<1>1. CASE UNCHANGED vars
  <2>1. /\ opt' = opt /\ job' = job /\ node' = node /\ host' = host /\ at' = at /\ up' = up /\ killed' = killed
        /\ moved' = moved /\ pc' = pc /\ eng' = eng /\ spent' = spent
    BY <1>1 DEF vars, clusterVars
  <2>2. (Doomed(n)' => Doomed(n)) /\ (Past(n)' => Past(n)) /\ Asked(n)'
    BY <2>1 DEF Doomed, Past, Live, Asked, Toll, NodeToll
  <2> QED
    BY <1>0, <2>1, <2>2, WorkerToll
<1>2. ASSUME NEW t \in Thread, Release(t) PROVE Toll(e, n)'
    BY <1>0, <1>2, ReleaseToll
<1>3. CASE EngineStep(e)
  <2>1. CASE \E m \in Node :
             \/ AdvanceRefused(e, m) \/ AdvanceWaits(e, m) \/ AdvanceTimedOut(e, m)
             \/ AdvanceDraining(e, m) \/ AdvanceUpgrading(e, m) \/ AdvanceRebooted(e, m)
             \/ AdvanceRestoreTimedOut(e, m) \/ AdvanceHealthCheck(e, m)
    BY <1>0, <2>1, AdvanceToll
  <2>2. CASE \/ Tick(e) \/ DisableDRS(e) \/ DisableDRSOff(e) \/ CreateClient(e) \/ PauseCRS(e)
             \/ RecordCRS(e) \/ FailCheck(e) \/ StartNext(e) \/ FinishJob(e) \/ Sweep(e)
             \/ CheckAfterRules(e) \/ RerecordRules(e) \/ DisableRules(e) \/ ListNodes(e)
    BY <1>0, <2>2, PlainToll
  <2>3. CASE \/ StartNode(e) \/ StartCheck(e) \/ DrainStart(e)
             \/ DrainCheck(e) \/ DrainGuest(e) \/ RecordStopped(e) \/ StopPassthrough(e)
             \/ VerifyDrained(e) \/ RestartGuests(e) \/ RestoreGuest(e) \/ RestoreDone(e)
    BY <1>0, <2>3, StartToll, DrainsToll, RestoreToll
  <2> QED
    BY <1>0, <1>2, <1>3, <2>1, <2>2, <2>3 DEF EngineStep
<1>4. CASE OutsideStep
    BY <1>0, <1>4, WorkToll, WorldToll DEF OutsideStep
<1> QED
    BY <1>1, <1>2, <1>3, <1>4, StepKinds

(* Nothing is under way before the first tick.                              *)
LEMMA InitToll ==
    ASSUME NEW e \in Engine, NEW n \in Node, Init
    PROVE  Toll(e, n)
<1>1. /\ pc[e] = "idle" /\ pc[n] = "idle" /\ killed = {} /\ host[n] = "up" /\ node[n].step = "pending"
      /\ eng[e].rows[n].step = "pending"
    BY NodeAssumption DEF Init, Thread, NewRow, NoEngine
<1>2. NodeToll(n)
    BY <1>1 DEF NodeToll, Doomed, Dooming, Past, Live, SSHPoints, ConfPoints, Asked
<1>3. DrainToll(e, n)
    BY <1>1 DEF DrainToll, Loop, Chosen, ChoosePoints
<1>4. Snapshots(e, n)
    BY <1>1 DEF Snapshots, Snapped, Chosen, ChoosePoints
<1> QED
    BY <1>2, <1>3, <1>4 DEF Toll

(* Of a job of one node with one engine, the reboot takes down a guest it   *)
(* should not only after three calls have failed: one in the drain, one     *)
(* when verifyNodeDrained lists the guests and one when decideReboot does.  *)
(* There may be any number of crashes, cancels, requests, timeouts and      *)
(* guests that others move.                                                 *)
THEOREM ThreeFailuresSpare ==
    ASSUME NEW e, Engine = {e}, NEW n, Node = {n}
    PROVE  Spec => [](spent.fault < 3 => RebootSparesGuests)
<1> DEFINE Inv == LInv /\ Ending /\ TickInv(e) /\ (opt.drain => Toll(e, n)) /\ (~opt.drain => PlaceInv)
<1>1. Init => Inv
  <2>1. Init => Flagged /\ Ending
    BY DEF Init, Flagged, NoRelease, Ending, RelPoints
  <2> QED
    BY <2>1, InitInv, InitTick, InitToll, InitPlace DEF LInv
<1>2. Inv /\ [Next]_vars => Inv'
  <2> SUFFICES ASSUME Inv, [Next]_vars PROVE Inv'
    OBVIOUS
  <2>1. IInv /\ TypeOK
    BY DEF LInv, IInv
  <2>2. LInv' /\ Ending' /\ TickInv(e)' /\ opt' = opt
    BY <2>1, StepFlagged, StepEnding, StepTick, OptionsStay
  <2>3. opt.drain => Toll(e, n)'
    BY StepToll
  <2>4. ~opt.drain => PlaceInv'
    BY <2>1, StepPlace
  <2> QED
    BY <2>2, <2>3, <2>4
<1>3. Inv => (spent.fault < 3 => RebootSparesGuests)
  <2> SUFFICES ASSUME Inv, spent.fault < 3 PROVE RebootSparesGuests
    OBVIOUS
  <2>1. CASE opt.drain
    <3>1. spent.fault \in Nat
      BY DEF LInv, IInv, TypeOK
    <3>2. ~Misses(3)
      BY <3>1 DEF Misses
    <3> QED
      BY <2>1, <3>2 DEF Toll, NodeToll, Excepted, RebootSparesGuests
  <2>2. CASE ~opt.drain
    BY <2>2 DEF PlaceInv, RebootSparesGuests
  <2> QED
    BY <2>1, <2>2
<1> HIDE DEF Inv
<1> QED
    BY <1>1, <1>2, <1>3, PTL DEF Spec
=============================================================================

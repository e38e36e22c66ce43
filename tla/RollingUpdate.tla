--------------------------- MODULE RollingUpdate ---------------------------
(***************************************************************************)
(* The rolling-update engine (internal/rolling/orchestrator.go) working on *)
(* one job, the handlers that act on the job                               *)
(* (internal/api/handlers/rolling_update.go), the rows both write          *)
(* (queries/rolling_updates.sql), and as much of the Proxmox cluster as    *)
(* the engine reads or changes.                                            *)
(*                                                                         *)
(* THREADS.  An engine tick is one sequential thread per member of Engine  *)
(* (one, unless leaderships overlap).  A member of Node stands for the     *)
(* goroutine that works on that node outside the tick: runSSHUpgrade in an *)
(* automatic job, the ConfirmUpgrade request in a manual one.  Api is the  *)
(* goroutine behind a request that releases the job's state: the cancel    *)
(* clean-up, or the release CreateJob runs first.  pc[t] is where a thread *)
(* is; between two values of it every other thread may run.  Each step     *)
(* makes at most one change to what the threads share, or a read and a     *)
(* change no other step can tell from one.                                 *)
(*                                                                         *)
(* TIME.  A timestamp is kept as the answer to the one question the code   *)
(* asks of it: has the row been quiet for longer than the stall limit      *)
(* (stale), has the step's own timeout passed (late), has the cleanup      *)
(* backoff passed (due), did the job end more than an hour ago (old).      *)
(*                                                                         *)
(* FAILURE.  Any call to Proxmox, over SSH or a node lookup may fail;      *)
(* waits that are retried count as one call.  A database statement that    *)
(* fails is modelled where the code compensates for it (RecordCRS) or goes *)
(* on to a step that counts on it (DisableDRS); a crash stands for the     *)
(* rest.  A graceful shutdown is a crash here: it stops every thread and   *)
(* failNode writes nothing.                                                *)
(***************************************************************************)
EXTENDS Naturals, FiniteSets

CONSTANTS
    Engine,       \* engine ticks that may run side by side
    Api,          \* the request goroutine that releases state
    Node,         \* the job's nodes; their numbers are node_order
    Host,         \* every host of the cluster
    Guest,        \* the guests
    Passthrough,  \* guests that cannot be migrated
    Rule,         \* HA rules
    Affects,      \* Rule -> the guests it names
    Options,      \* job options to consider, see OptionSet
    MaxFaults,    \* bound: failed calls
    MaxCrashes,   \* bound: crashes
    MaxMoves,     \* bound: guests moved by somebody else
    MaxCancels,   \* bound: cancel requests
    MaxRequests   \* bound: pause, skip and new-job requests

(* drain .. restore and parallel are columns of the job; drs and crs say    *)
(* whether Nexara's balancer and Proxmox's own are on when the job starts.  *)
OptionSet ==
    [drain : BOOLEAN, auto : BOOLEAN, reboot : BOOLEAN, restore : BOOLEAN,
     parallel : Nat \ {0}, drs : BOOLEAN, crs : BOOLEAN]

ASSUME NodeAssumption ==
    Node \subseteq Host /\ Node \subseteq Nat \ {0} /\ IsFiniteSet(Node)
ASSUME ThreadAssumption == Api \notin Engine \cup Node /\ Engine \cap Node = {}
ASSUME GuestAssumption == Passthrough \subseteq Guest /\ Affects \in [Rule -> SUBSET Guest]
ASSUME OptionAssumption == Options \subseteq OptionSet
ASSUME BoundAssumption ==
    {MaxFaults, MaxCrashes, MaxMoves, MaxCancels, MaxRequests} \subseteq Nat

VARIABLES
    opt,       \* the options of the job, fixed when it is created
    job,       \* the row of rolling_update_jobs
    node,      \* the rows of rolling_update_nodes
    drsOn,     \* drs_configs.enabled of the cluster
    crsOn,     \* Proxmox's own auto-rebalancer is active
    rulesOff,  \* HA rules disabled on the cluster
    at,        \* the host each guest is on
    up,        \* the guests that run
    host,      \* "up", reboot "asked", "down", or "fresh" after a reboot
    killed,    \* guests a reboot took down while they ran
    moved,     \* guests somebody else moved
    unmarked,  \* balancers whose pause a failed call or a crash kept off the record
    pc,        \* control point of every thread
    eng,       \* local variables of an engine tick
    rel,       \* local variables of a thread's releaseJobState
    spent      \* uses of the bounded events so far

clusterVars == <<drsOn, crsOn, rulesOff, at, up, host, killed, moved, unmarked>>
vars == <<opt, job, node, clusterVars, pc, eng, rel, spent>>

-----------------------------------------------------------------------------
(* Rows and local variables.                                                *)

Active   == {"pending", "running", "paused"}
Outcomes == {"completed", "failed", "cancelled"}

\* Steps an engine tick advances, steps CountActiveNodes counts, final steps.
Advancing   == {"draining", "upgrading", "rebooting", "health_check", "restoring"}
ActiveSteps == Advancing \cup {"awaiting_upgrade"}
FinalSteps  == {"completed", "failed", "skipped"}
Steps       == {"pending"} \cup ActiveSteps \cup FinalSteps

\* Where a node's handler, or a release, returns to.
Backs == {"idle", "advance", "done", "sweep"}

Thread == Engine \cup Node \cup {Api}

JobRow ==
    [status  : Active \cup Outcomes,
     cleanup : BOOLEAN,       \* cleanup_pending
     due     : BOOLEAN,       \* updated_at is older than cleanupBackoff
     old     : BOOLEAN,       \* completed_at is older than pruneRunningAfter
     drs     : BOOLEAN,       \* drs_was_enabled
     crs     : BOOLEAN,       \* native_crs_paused
     rules   : SUBSET Rule]   \* disabled_ha_rules

NodeRow ==
    [step    : Steps,
     guests  : SUBSET Guest,        \* guests_json
     stopped : SUBSET Passthrough,  \* stopped_passthrough_json
     runs    : 0 .. 2,              \* SSH launches: none, the first, a later one
     stale   : BOOLEAN,             \* updated_at is older than the stall limit
     late    : BOOLEAN,             \* the step's start is older than its timeout
     owed    : BOOLEAN]             \* reboot_required

NewRow ==
    [step |-> "pending", guests |-> {}, stopped |-> {}, runs |-> 0,
     stale |-> FALSE, late |-> FALSE, owed |-> FALSE]

EngineLocals ==
    [drs   : BOOLEAN, crs : BOOLEAN,   \* markers in the tick's copy of the job
     rows  : [Node -> NodeRow],        \* the tick's copy of the node rows
     todo  : SUBSET Node,              \* copies not advanced yet
     n     : Node \cup {0},            \* the node being worked on
     left  : SUBSET Guest,             \* guests still to be handled
     g     : SUBSET Guest,             \* the passthrough guest being stopped, if any
     rules : SUBSET Rule,              \* toDisable
     back  : Backs]

NoEngine ==
    [drs |-> FALSE, crs |-> FALSE, rows |-> [n \in Node |-> NewRow], todo |-> {},
     n |-> 0, left |-> {}, g |-> {}, rules |-> {}, back |-> "idle"]

ReleaseLocals ==
    [drs     : BOOLEAN, crs : BOOLEAN, rules : SUBSET Rule,
     stopped : [Node -> SUBSET Passthrough], keep : SUBSET Passthrough,
     pending : BOOLEAN, prune : BOOLEAN, ok : BOOLEAN, back : Backs]

NoRelease ==
    [drs |-> FALSE, crs |-> FALSE, rules |-> {},
     stopped |-> [n \in Node |-> {}], keep |-> {},
     pending |-> FALSE, prune |-> FALSE, ok |-> FALSE, back |-> "idle"]

Init ==
    /\ opt \in Options
    /\ job = [status |-> "pending", cleanup |-> FALSE, due |-> FALSE, old |-> FALSE,
              drs |-> FALSE, crs |-> FALSE, rules |-> {}]
    /\ node = [n \in Node |-> NewRow]
    /\ drsOn = opt.drs
    /\ crsOn = opt.crs
    /\ rulesOff = {}
    /\ at \in [Guest -> Node]
    /\ up = Guest
    /\ host = [h \in Host |-> "up"]
    /\ killed = {}
    /\ moved = {}
    /\ unmarked = {}
    /\ pc = [t \in Thread |-> "idle"]
    /\ eng = [e \in Engine |-> NoEngine]
    /\ rel = [t \in Thread |-> NoRelease]
    /\ spent = [fault |-> 0, crash |-> 0, move |-> 0, cancel |-> 0, request |-> 0]

-----------------------------------------------------------------------------
(* Helpers.                                                                 *)

NoFault == UNCHANGED spent
Fault   == /\ spent.fault < MaxFaults
           /\ spent' = [spent EXCEPT !.fault = @ + 1]

Goto(t, p) == pc' = [pc EXCEPT ![t] = p]

\* GetNextPendingNode and the loops over node rows go by node_order.
First(S) == CHOOSE n \in S : \A m \in S : n <= m

\* Any UPDATE of a row refreshes its updated_at; a new step starts its timer.
Touched(r)  == [r EXCEPT !.stale = FALSE]
Moved(r, s) == [r EXCEPT !.step = s, !.stale = FALSE, !.late = FALSE]
Launched(r) == [Touched(r) EXCEPT !.runs = IF r.runs = 0 THEN 1 ELSE 2]
SetStep(n, s) == node' = [node EXCEPT ![n] = Moved(@, s)]

Terminal == job.status \in Outcomes

\* The guarded terminal transitions; all of them arm the cleanup.
Ended(s) == [job EXCEPT !.status = s, !.cleanup = TRUE, !.due = FALSE, !.old = FALSE]

\* Guests verifyNodeDrained reports, and hosts a guest can be sent to.
RunningOn(n) == {g \in up : at[g] = n}
Targets(n)   == {h \in Host \ {n} : host[h] # "down"}

\* isJobCancelled: true of a paused job too, and not of a failed one.
IsJobCancelled == job.status \in {"cancelled", "paused"}

\* Mutant: an in-place job reboots when it cannot tell what runs.
DecideRebootBlind(running, unknown) ==
    IF ~opt.drain /\ ~opt.reboot THEN "defer"
    ELSE IF unknown \/ running = {} THEN "proceed"
    ELSE IF opt.drain THEN "fail" ELSE "defer"

\* reboot_policy.go: what to do about a reboot the upgrade calls for.
DecideReboot(running, unknown) ==
    IF opt.drain
    THEN IF ~unknown /\ running # {} THEN "fail" ELSE "proceed"
    ELSE IF opt.reboot /\ ~unknown /\ running = {} THEN "proceed" ELSE "defer"

\* failNode up to its job part: a node already in a final step is left alone,
\* and so is the job.  rows is the table as the caller has just written it.
FailNodeIn(rows, t, n, back) ==
    IF rows[n].step \in FinalSteps
    THEN /\ node' = rows
         /\ Goto(t, back)
         /\ UNCHANGED rel
    ELSE /\ node' = [rows EXCEPT ![n] = Moved(@, "failed")]
         /\ Goto(t, "failJob")
         /\ rel' = [rel EXCEPT ![t].back = back]

FailNode(t, n, back) == FailNodeIn(node, t, n, back)

-----------------------------------------------------------------------------
(* failJob and releaseJobState, run by any thread.                          *)

\* Mutant: the status guard of FailRollingUpdateJob is missing.
FailJobUnguarded(t) ==
    /\ pc[t] = "failJob"
    /\ job' = Ended("failed")
    /\ Goto(t, "release")
    /\ UNCHANGED <<opt, node, clusterVars, eng, rel, spent>>

FailJob(t) ==
    /\ pc[t] = "failJob"
    /\ job' = IF Terminal THEN job ELSE Ended("failed")
    /\ Goto(t, "release")
    /\ UNCHANGED <<opt, node, clusterVars, eng, rel, spent>>

\* Where the release goes next, from what it read at entry.
HoldsGuests(r) == \E n \in Node : r.stopped[n] # {}
AfterRules(r)  == IF HoldsGuests(r) THEN "relGuests" ELSE "relClear"
AfterCRS(r)    == IF r.rules # {} THEN "relRules" ELSE AfterRules(r)
AfterClient(r) == IF r.crs THEN "relCrs" ELSE AfterCRS(r)
AfterDRS(r)    == IF r.crs \/ r.rules # {} \/ HoldsGuests(r) THEN "relClient" ELSE "relClear"
AfterRead(r)   == IF r.drs THEN "relDrs" ELSE AfterDRS(r)

\* Mutant: a guest seen running never leaves the record.
ReleaseReadNeverPrunes(t) ==
    /\ pc[t] = "release"
    /\ rel' = [rel EXCEPT ![t] =
                 [drs |-> job.drs, crs |-> job.crs, rules |-> job.rules,
                  stopped |-> [n \in Node |-> {}], keep |-> {}, pending |-> job.cleanup,
                  prune |-> FALSE, ok |-> TRUE, back |-> @.back]]
    /\ Goto(t, "relNodes")
    /\ UNCHANGED <<opt, job, node, clusterVars, eng, spent>>

\* The job, then its nodes, are read once; the rest works on these copies.
ReleaseRead(t) ==
    /\ pc[t] = "release"
    /\ rel' = [rel EXCEPT ![t] =
                 [drs |-> job.drs, crs |-> job.crs, rules |-> job.rules,
                  stopped |-> [n \in Node |-> {}], keep |-> {}, pending |-> job.cleanup,
                  prune |-> job.old, ok |-> TRUE, back |-> @.back]]
    /\ Goto(t, "relNodes")
    /\ UNCHANGED <<opt, job, node, clusterVars, eng, spent>>

ReleaseNodes(t) ==
    /\ pc[t] = "relNodes"
    /\ rel' = [rel EXCEPT ![t].stopped = [n \in Node |-> node[n].stopped]]
    /\ Goto(t, AfterRead(rel'[t]))
    /\ UNCHANGED <<opt, job, node, clusterVars, eng, spent>>

ReleaseDRS(t) ==
    /\ pc[t] = "relDrs"
    /\ drsOn' = TRUE
    /\ Goto(t, "relDrsMark")
    /\ UNCHANGED <<opt, job, node, crsOn, rulesOff, at, up, host, killed, moved, unmarked,
                   eng, rel, spent>>

ReleaseDRSMark(t) ==
    /\ pc[t] = "relDrsMark"
    /\ job' = [job EXCEPT !.drs = FALSE, !.due = FALSE]
    /\ Goto(t, AfterDRS(rel[t]))
    /\ UNCHANGED <<opt, node, clusterVars, eng, rel, spent>>

\* Without a client nothing else is released and the flag stays.
ReleaseClient(t) ==
    /\ pc[t] = "relClient"
    /\ \/ NoFault /\ Goto(t, AfterClient(rel[t])) /\ UNCHANGED rel
       \/ Fault /\ Goto(t, rel[t].back) /\ rel' = [rel EXCEPT ![t] = NoRelease]
    /\ UNCHANGED <<opt, job, node, clusterVars, eng>>

ReleaseCRS(t) ==
    /\ pc[t] = "relCrs"
    /\ \/ NoFault /\ crsOn' = TRUE /\ Goto(t, "relCrsMark") /\ UNCHANGED rel
       \/ /\ Fault
          /\ rel' = [rel EXCEPT ![t].ok = FALSE]
          /\ Goto(t, AfterCRS(rel[t]))
          /\ UNCHANGED crsOn
    /\ UNCHANGED <<opt, job, node, drsOn, rulesOff, at, up, host, killed, moved, unmarked, eng>>

ReleaseCRSMark(t) ==
    /\ pc[t] = "relCrsMark"
    /\ job' = [job EXCEPT !.crs = FALSE, !.due = FALSE]
    /\ Goto(t, AfterCRS(rel[t]))
    /\ UNCHANGED <<opt, node, clusterVars, eng, rel, spent>>

\* reenableHARulesDetailed: the rules Proxmox refused stay to be retried.
ReleaseRules(t) ==
    /\ pc[t] = "relRules"
    /\ \E refused \in SUBSET rel[t].rules :
        /\ IF refused = {} THEN NoFault ELSE Fault
        /\ rulesOff' = rulesOff \ (rel[t].rules \ refused)
        /\ rel' = [rel EXCEPT ![t].rules = refused]
    /\ Goto(t, "relRulesMark")
    /\ UNCHANGED <<opt, job, node, drsOn, crsOn, at, up, host, killed, moved, unmarked, eng>>

\* Mutant: rules Proxmox refused to enable are dropped from the record.
ReleaseRulesMarkAll(t) ==
    /\ pc[t] = "relRulesMark"
    /\ job' = [job EXCEPT !.rules = {}, !.due = FALSE]
    /\ Goto(t, AfterRules(rel[t]))
    /\ UNCHANGED <<opt, node, clusterVars, eng, rel, spent>>

\* persistJobDisabledRules writes the whole record, from the copy.
ReleaseRulesMark(t) ==
    /\ pc[t] = "relRulesMark"
    /\ job' = [job EXCEPT !.rules = rel[t].rules, !.due = FALSE]
    /\ rel' = [rel EXCEPT ![t].ok = @ /\ rel[t].rules = {}]
    /\ Goto(t, AfterRules(rel[t]))
    /\ UNCHANGED <<opt, node, clusterVars, eng, spent>>

\* The first node whose guests are still to be started.
HeldNode(t) == First({n \in Node : rel[t].stopped[n] # {}})

\* restartStoppedPassthrough without waiting: a guest seen stopped is started
\* and stays recorded; one seen running is dropped only when prune allows it.
ReleaseGuests(t) ==
    LET n    == HeldNode(t)
        list == rel[t].stopped[n]
        keep == IF rel[t].prune THEN list \ up ELSE list
    IN
    /\ pc[t] = "relGuests"
    /\ host[n] # "down"
    /\ \E refused \in SUBSET (list \ up) :
        /\ IF refused = {} THEN NoFault ELSE Fault
        /\ up' = up \cup (list \ refused)
    /\ rel' = [rel EXCEPT ![t] = [rel[t] EXCEPT
                 !.keep = keep, !.ok = rel[t].ok /\ keep = {},
                 !.stopped = [rel[t].stopped EXCEPT ![n] = IF keep = list THEN {} ELSE @]]]
    /\ Goto(t, IF keep = list THEN AfterRules(rel'[t]) ELSE "relGuestsMark")
    /\ UNCHANGED <<opt, job, node, drsOn, crsOn, rulesOff, at, host, killed, moved,
                   unmarked, eng>>

\* The node cannot be listed.
ReleaseGuestsUnseen(t) ==
    LET n == HeldNode(t) IN
    /\ pc[t] = "relGuests"
    /\ IF host[n] = "down" THEN NoFault ELSE Fault
    /\ rel' = [rel EXCEPT ![t] = [@ EXCEPT !.ok = FALSE, !.stopped[n] = {}]]
    /\ Goto(t, AfterRules(rel'[t]))
    /\ UNCHANGED <<opt, job, node, clusterVars, eng>>

ReleaseGuestsMark(t) ==
    LET n == HeldNode(t) IN
    /\ pc[t] = "relGuestsMark"
    /\ node' = [node EXCEPT ![n] = [Touched(@) EXCEPT !.stopped = rel[t].keep]]
    /\ rel' = [rel EXCEPT ![t] = [@ EXCEPT !.stopped[n] = {}]]
    /\ Goto(t, AfterRules(rel'[t]))
    /\ UNCHANGED <<opt, job, clusterVars, eng, spent>>

NothingRecorded ==
    /\ ~job.drs /\ ~job.crs /\ job.rules = {}
    /\ \A n \in Node : node[n].stopped = {}

\* ClearJobCleanupPending checks the records again as it clears the flag.
ReleaseClear(t) ==
    /\ pc[t] = "relClear"
    /\ job' = IF rel[t].ok /\ rel[t].pending /\ NothingRecorded
              THEN [job EXCEPT !.cleanup = FALSE, !.due = FALSE]
              ELSE job
    /\ Goto(t, rel[t].back)
    /\ rel' = [rel EXCEPT ![t] = NoRelease]
    /\ UNCHANGED <<opt, node, clusterVars, eng, spent>>

Release(t) ==
    \/ FailJob(t) \/ ReleaseRead(t) \/ ReleaseNodes(t)
    \/ ReleaseDRS(t) \/ ReleaseDRSMark(t)
    \/ ReleaseClient(t) \/ ReleaseCRS(t) \/ ReleaseCRSMark(t)
    \/ ReleaseRules(t) \/ ReleaseRulesMark(t)
    \/ ReleaseGuests(t) \/ ReleaseGuestsUnseen(t) \/ ReleaseGuestsMark(t) \/ ReleaseClear(t)

-----------------------------------------------------------------------------
(* An engine tick: Tick, processJob.                                        *)

\* ListRunningRollingUpdateJobs; the tick keeps this copy of the job.
Tick(e) ==
    /\ pc[e] = "idle"
    /\ IF job.status = "running"
       THEN /\ Goto(e, "drs")
            /\ eng' = [eng EXCEPT ![e].drs = job.drs, ![e].crs = job.crs]
       ELSE Goto(e, "sweep") /\ UNCHANGED eng
    /\ UNCHANGED <<opt, job, node, clusterVars, rel, spent>>

\* Mutant: the DRS pause is not recorded.
DisableDRSUnrecorded(e) ==
    /\ pc[e] = "drs"
    /\ Goto(e, IF ~eng[e].drs /\ drsOn THEN "drsOff" ELSE "client")
    /\ UNCHANGED <<opt, job, node, clusterVars, eng, rel, spent>>

\* disableDRSIfEnabled: record, then disable.  A configuration that cannot be read
\* counts as none; a record that cannot be written is not missed.
DisableDRS(e) ==
    /\ pc[e] = "drs"
    /\ \/ /\ eng[e].drs \/ ~drsOn
          /\ NoFault /\ UNCHANGED <<job, unmarked>> /\ Goto(e, "client")
       \/ /\ ~eng[e].drs /\ drsOn
          /\ NoFault /\ job' = [job EXCEPT !.drs = TRUE, !.due = FALSE]
          /\ UNCHANGED unmarked /\ Goto(e, "drsOff")
       \/ /\ ~eng[e].drs /\ drsOn
          /\ Fault /\ unmarked' = unmarked \cup {"drs"}
          /\ UNCHANGED job /\ \E p \in {"client", "drsOff"} : Goto(e, p)
    /\ UNCHANGED <<opt, node, drsOn, crsOn, rulesOff, at, up, host, killed, moved, eng, rel>>

\* The pause itself may fail as well; that is only logged.
DisableDRSOff(e) ==
    /\ pc[e] = "drsOff"
    /\ \/ NoFault /\ drsOn' = FALSE
       \/ Fault /\ UNCHANGED drsOn
    /\ Goto(e, "client")
    /\ UNCHANGED <<opt, job, node, crsOn, rulesOff, at, up, host, killed, moved, unmarked,
                   eng, rel>>

\* Without a client the job waits for the next tick.
CreateClient(e) ==
    /\ pc[e] = "client"
    /\ \/ NoFault /\ Goto(e, "crs")
       \/ Fault /\ Goto(e, "sweep")
    /\ UNCHANGED <<opt, job, node, clusterVars, eng, rel>>

\* pauseNativeCRSIfActive: pause, then record.  A call that fails may have changed the
\* options all the same, and is not recorded.
PauseCRS(e) ==
    /\ pc[e] = "crs"
    /\ \/ /\ ~eng[e].crs /\ crsOn /\ NoFault
          /\ crsOn' = FALSE
          /\ Goto(e, "crsMark") /\ UNCHANGED unmarked
       \/ /\ IF eng[e].crs \/ ~crsOn THEN NoFault ELSE Fault
          /\ Goto(e, "nodes") /\ UNCHANGED <<crsOn, unmarked>>
       \/ /\ ~eng[e].crs /\ crsOn /\ Fault
          /\ crsOn' = FALSE /\ unmarked' = unmarked \cup {"crs"}
          /\ Goto(e, "nodes")
    /\ UNCHANGED <<opt, job, node, drsOn, rulesOff, at, up, host, killed, moved, eng, rel>>

\* Mutant: a pause that cannot be recorded is not rolled back.
RecordCRSNoRollback(e) ==
    /\ pc[e] = "crsMark"
    /\ \/ NoFault /\ job' = [job EXCEPT !.crs = TRUE, !.due = FALSE]
       \/ Fault /\ UNCHANGED job
    /\ Goto(e, "nodes")
    /\ UNCHANGED <<opt, node, clusterVars, eng, rel>>

\* A pause that cannot be recorded is rolled back; that may fail as well.
RecordCRS(e) ==
    /\ pc[e] = "crsMark"
    /\ \/ /\ NoFault
          /\ job' = [job EXCEPT !.crs = TRUE, !.due = FALSE]
          /\ UNCHANGED <<crsOn, unmarked>>
       \/ Fault /\ crsOn' = TRUE /\ UNCHANGED <<job, unmarked>>
       \/ /\ spent.fault + 2 <= MaxFaults
          /\ spent' = [spent EXCEPT !.fault = @ + 2]
          /\ unmarked' = unmarked \cup {"crs"}
          /\ UNCHANGED <<crsOn, job>>
    /\ Goto(e, "nodes")
    /\ UNCHANGED <<opt, node, drsOn, rulesOff, at, up, host, killed, moved, eng, rel>>

ListNodes(e) ==
    /\ pc[e] = "nodes"
    /\ eng' = [eng EXCEPT ![e].rows = node,
                          ![e].todo = {n \in Node : node[n].step \in Advancing}]
    /\ Goto(e, "advance")
    /\ UNCHANGED <<opt, job, node, clusterVars, rel, spent>>

-----------------------------------------------------------------------------
(* advanceNode, on the tick's copy r of the row of node n.                  *)

Advances(e, n, step) ==
    /\ pc[e] = "advance"
    /\ eng[e].todo # {}
    /\ n = First(eng[e].todo)
    /\ eng[e].rows[n].step \in step

Off(e, n) == [eng EXCEPT ![e].todo = @ \ {n}]

\* Start working on node n: handlers that take several steps.
WorkOn(e, n, left, back) ==
    [eng EXCEPT ![e].todo = @ \ {n}, ![e].n = n, ![e].left = left, ![e].back = back]

\* requireDialableNode: a lookup that fails leaves the node for the next
\* tick, a node the cluster does not hold is failed.
AdvanceRefused(e, n) ==
    /\ Advances(e, n, Advancing)
    /\ Fault
    /\ eng' = Off(e, n)
    /\ \/ UNCHANGED <<node, pc, rel>>
       \/ FailNode(e, n, "advance")
    /\ UNCHANGED <<opt, job, clusterVars>>

\* The handler returns without doing anything: a drain or restore that is
\* making progress, an SSH session whose heartbeat is fresh, a node that is
\* not back from its reboot.
AdvanceWaits(e, n) ==
    LET r == eng[e].rows[n] IN
    /\ Advances(e, n, Advancing \ {"health_check"})
    /\ ~r.late
    /\ CASE r.step = "upgrading" -> r.runs > 0 /\ ~r.stale
         [] r.step = "rebooting" -> host[n] # "fresh"
         [] OTHER                -> ~r.stale
    /\ eng' = Off(e, n)
    /\ UNCHANGED <<opt, job, node, clusterVars, pc, rel, spent>>

\* Drain, upgrade and reboot that take too long fail the node.
AdvanceTimedOut(e, n) ==
    LET r == eng[e].rows[n] IN
    /\ Advances(e, n, {"draining", "upgrading", "rebooting"})
    /\ r.late
    /\ eng' = Off(e, n)
    /\ FailNode(e, n, "advance")
    /\ UNCHANGED <<opt, job, clusterVars, spent>>

\* advanceDraining: guests of the snapshot that still have to leave.  A guest
\* that cannot be looked up counts as present.
Remaining(n, r) == {g \in r.guests : at[g] = n /\ (g \in Passthrough => g \in up)}

AdvanceDraining(e, n) ==
    LET r == eng[e].rows[n] IN
    /\ Advances(e, n, {"draining"})
    /\ ~r.late /\ r.stale
    /\ \/ /\ NoFault /\ Remaining(n, r) = {}
          /\ eng' = WorkOn(e, n, {}, "advance")
          /\ Goto(e, "verify")
          /\ UNCHANGED <<node, rel>>
       \/ \E left \in {Remaining(n, r), r.guests} \ {{}} :
          /\ IF left = Remaining(n, r) THEN NoFault ELSE Fault
          /\ eng' = WorkOn(e, n, left, "advance")
          /\ IF Targets(n) = {}
             THEN FailNodeIn([node EXCEPT ![n] = Touched(@)], e, n, "advance")
             ELSE /\ node' = [node EXCEPT ![n] = Touched(@)]
                  /\ Goto(e, "drain")
                  /\ UNCHANGED rel
       \/ \* the hosts or the HA constraints cannot be read
          /\ Fault /\ Remaining(n, r) # {}
          /\ eng' = Off(e, n)
          /\ FailNodeIn([node EXCEPT ![n] = Touched(@)], e, n, "advance")
    /\ UNCHANGED <<opt, job, clusterVars>>

\* advanceUpgrading launches the SSH goroutine, the first time or again when
\* the heartbeat went stale.  Missing credentials, address or host key fail
\* the node.
AdvanceUpgrading(e, n) ==
    LET r == eng[e].rows[n] IN
    /\ Advances(e, n, {"upgrading"})
    /\ r.runs = 0 \/ (~r.late /\ r.stale)
    /\ eng' = Off(e, n)
    /\ \/ /\ NoFault
          /\ node' = [node EXCEPT ![n] = Launched(@)]
          /\ pc' = [pc EXCEPT ![n] = IF @ = "idle" THEN "apt" ELSE @]
          /\ UNCHANGED rel
       \/ Fault /\ FailNode(e, n, "advance")
    /\ UNCHANGED <<opt, job, clusterVars>>

\* advanceRebooting: the node answers with an uptime from after the reboot.
AdvanceRebooted(e, n) ==
    /\ Advances(e, n, {"rebooting"})
    /\ ~eng[e].rows[n].late
    /\ host[n] = "fresh"
    /\ SetStep(n, "health_check")
    /\ eng' = Off(e, n)
    /\ UNCHANGED <<opt, job, clusterVars, pc, rel, spent>>

\* advanceHealthCheck, also re-entered by advanceRestoring after a stall.
\* Nothing to put back: the node is done.
NothingToRestore(r) ==
    IF opt.restore THEN r.guests = {} ELSE r.stopped = {}

AdvanceHealthCheck(e, n) ==
    LET r == eng[e].rows[n] IN
    /\ Advances(e, n, {"health_check", "restoring"})
    /\ r.step = "restoring" => ~r.late /\ r.stale
    /\ IF NothingToRestore(r)
       THEN /\ NoFault
            /\ SetStep(n, "completed")
            /\ eng' = Off(e, n)
            /\ UNCHANGED <<pc, rel>>
       ELSE LET started == IF opt.restore \/ r.step # "restoring"
                           THEN [node EXCEPT ![n] = Moved(@, "restoring")]
                           ELSE node
            IN \/ /\ NoFault
                  /\ node' = started
                  /\ eng' = WorkOn(e, n, IF opt.restore THEN r.guests \ Passthrough ELSE {},
                                   "advance")
                  /\ Goto(e, "restart")
                  /\ UNCHANGED rel
               \/ \* the hosts cannot be listed
                  /\ opt.restore /\ Fault
                  /\ eng' = Off(e, n)
                  /\ FailNodeIn(started, e, n, "advance")
    /\ UNCHANGED <<opt, job, clusterVars>>

\* advanceRestoring gives up after 30 minutes and calls the node done.
AdvanceRestoreTimedOut(e, n) ==
    /\ Advances(e, n, {"restoring"})
    /\ eng[e].rows[n].late
    /\ SetStep(n, "completed")
    /\ eng' = Off(e, n)
    /\ UNCHANGED <<opt, job, clusterVars, pc, rel, spent>>

\* Mutant: the record is cleared whatever became of the starts.
RestartGuestsForgets(e) ==
    /\ pc[e] = "restart"
    /\ LET n    == eng[e].n
           list == eng[e].rows[n].stopped
       IN \E keep \in SUBSET list :
          /\ IF keep = {} THEN NoFault ELSE Fault
          /\ up' = up \cup (list \ keep)
          /\ node' = [node EXCEPT ![n] = [Touched(@) EXCEPT !.stopped = {}]]
    /\ Goto(e, "restore")
    /\ UNCHANGED <<opt, job, drsOn, crsOn, rulesOff, at, host, killed, moved, unmarked, eng, rel>>

\* restartStoppedPassthrough, waiting for each start: guests confirmed running
\* leave the record, which is written from the tick's copy.
RestartGuests(e) ==
    /\ pc[e] = "restart"
    /\ LET n    == eng[e].n
           list == eng[e].rows[n].stopped
       IN \E keep \in SUBSET list :
          /\ IF keep = {} THEN NoFault ELSE Fault
          /\ up' = up \cup (list \ keep)
          /\ node' = IF keep = list THEN node
                     ELSE [node EXCEPT ![n] = [Touched(@) EXCEPT !.stopped = keep]]
    /\ Goto(e, "restore")
    /\ UNCHANGED <<opt, job, drsOn, crsOn, rulesOff, at, host, killed, moved, unmarked, eng, rel>>

\* One guest is migrated back, or left where it is when that fails.
RestoreGuest(e) ==
    /\ pc[e] = "restore"
    /\ \E g \in eng[e].left :
        /\ \/ NoFault /\ at' = [at EXCEPT ![g] = eng[e].n]
           \/ Fault /\ UNCHANGED at
        /\ eng' = [eng EXCEPT ![e].left = @ \ {g}]
    /\ UNCHANGED <<opt, job, node, drsOn, crsOn, rulesOff, up, host, killed, moved,
                   unmarked, pc, rel>>

RestoreDone(e) ==
    /\ pc[e] = "restore"
    /\ eng[e].left = {}
    /\ SetStep(eng[e].n, "completed")
    /\ Goto(e, "advance")
    /\ UNCHANGED <<opt, job, clusterVars, eng, rel, spent>>

\* A node this tick advanced has failed: so does the job, and the tick is over.
FailCheck(e) ==
    /\ pc[e] = "advance"
    /\ eng[e].todo = {}
    /\ IF \E n \in Node : eng[e].rows[n].step \in Advancing /\ node[n].step = "failed"
       THEN Goto(e, "failJob") /\ rel' = [rel EXCEPT ![e].back = "sweep"]
       ELSE Goto(e, "start") /\ UNCHANGED rel
    /\ UNCHANGED <<opt, job, node, clusterVars, eng, spent>>

-----------------------------------------------------------------------------
(* Starting the next node: at most one per tick.                            *)

\* Mutant: a node that reboots is not counted.
ActiveNodesNoReboot == {n \in Node : node[n].step \in ActiveSteps \ {"rebooting"}}

ActiveNodes == {n \in Node : node[n].step \in ActiveSteps}

\* Mutant: the comparison with the parallelism is off by one.
StartNextOneMore(e) ==
    LET waiting == {n \in Node : node[n].step = "pending"} IN
    /\ pc[e] = "start"
    /\ IF Cardinality(ActiveNodes) <= opt.parallel /\ waiting # {}
       THEN /\ eng' = [eng EXCEPT ![e].n = First(waiting), ![e].back = "done"]
            /\ Goto(e, "begin")
       ELSE UNCHANGED eng /\ Goto(e, "done")
    /\ UNCHANGED <<opt, job, node, clusterVars, rel, spent>>

StartNext(e) ==
    LET waiting == {n \in Node : node[n].step = "pending"} IN
    /\ pc[e] = "start"
    /\ IF Cardinality(ActiveNodes) < opt.parallel /\ waiting # {}
       THEN /\ eng' = [eng EXCEPT ![e].n = First(waiting), ![e].back = "done"]
            /\ Goto(e, "begin")
       ELSE UNCHANGED eng /\ Goto(e, "done")
    /\ UNCHANGED <<opt, job, node, clusterVars, rel, spent>>

\* Mutant: a step name the table does not know.
UpgradeStepMisspelt == IF opt.auto THEN "upgrade" ELSE "awaiting_upgrade"

\* beginUpgrade: an UPDATE that asks nothing of the step it replaces.
UpgradeStep == IF opt.auto THEN "upgrading" ELSE "awaiting_upgrade"

\* startNode up to the guest snapshot.
StartNode(e) ==
    LET n == eng[e].n IN
    /\ pc[e] = "begin"
    /\ \/ \* the apt index lists no update: SkipRollingUpdateNodeAny
          /\ NoFault /\ SetStep(n, "skipped") /\ Goto(e, "done")
          /\ UNCHANGED <<eng, rel>>
       \/ \* in place: nothing is moved off the node
          /\ ~opt.drain /\ NoFault
          /\ SetStep(n, UpgradeStep) /\ Goto(e, "done")
          /\ UNCHANGED <<eng, rel>>
       \/ \* snapshotGuests
          /\ opt.drain /\ NoFault
          /\ eng' = [eng EXCEPT ![e].left = RunningOn(n)]
          /\ Goto(e, "check")
          /\ UNCHANGED <<node, rel>>
       \/ \* the membership lookup fails
          /\ Fault /\ Goto(e, "done") /\ UNCHANGED <<node, eng, rel>>
       \/ \* no member of the cluster, or the guests cannot be listed
          /\ Fault /\ FailNode(e, n, "done") /\ UNCHANGED eng
    /\ UNCHANGED <<opt, job, clusterVars>>

\* recordJobDisabledHARules: merge, and re-arm the cleanup of a finished job.
WithRules(rules) ==
    [job EXCEPT !.rules = @ \cup rules, !.cleanup = @ \/ Terminal, !.due = FALSE]

\* Mutant: the rules are recorded only after they were disabled.
StartCheckUnrecorded(e) ==
    LET n         == eng[e].n
        toDisable == {r \in Rule \ rulesOff : Affects[r] \cap eng[e].left # {}}
    IN
    /\ pc[e] = "check"
    /\ ~IsJobCancelled
    /\ node' = [node EXCEPT ![n] = [Touched(@) EXCEPT !.guests = eng[e].left]]
    /\ eng' = [eng EXCEPT ![e].rules = toDisable]
    /\ Goto(e, IF toDisable = {} THEN "drainStart" ELSE "ruleOff")
    /\ UNCHANGED <<opt, job, clusterVars, rel, spent>>

\* The last look at the job before the node is touched, the snapshot, the HA
\* rules in the way, and their record.
StartCheck(e) ==
    LET n         == eng[e].n
        snapshot  == [node EXCEPT ![n] = [Touched(@) EXCEPT !.guests = eng[e].left]]
        toDisable == {r \in Rule \ rulesOff : Affects[r] \cap eng[e].left # {}}
    IN
    /\ pc[e] = "check"
    /\ \/ /\ IsJobCancelled /\ NoFault
          /\ Goto(e, "done")
          /\ UNCHANGED <<job, node, eng, rel>>
       \/ /\ ~IsJobCancelled /\ NoFault
          /\ node' = snapshot
          /\ eng' = [eng EXCEPT ![e].rules = toDisable]
          /\ IF toDisable = {}
             THEN UNCHANGED job /\ Goto(e, "drainStart")
             ELSE job' = WithRules(toDisable) /\ Goto(e, "ruleOff")
          /\ UNCHANGED rel
       \/ \* the rules cannot be listed
          /\ ~IsJobCancelled /\ Fault
          /\ FailNodeIn(snapshot, e, n, "done")
          /\ UNCHANGED <<job, eng>>
    /\ UNCHANGED <<opt, clusterVars>>

\* disableHARules: a rule Proxmox refuses to disable is skipped.
DisableRules(e) ==
    /\ pc[e] = "ruleOff"
    /\ \E refused \in SUBSET eng[e].rules :
        /\ IF refused = {} THEN NoFault ELSE Fault
        /\ rulesOff' = rulesOff \cup (eng[e].rules \ refused)
    /\ Goto(e, "ruleRec")
    /\ UNCHANGED <<opt, job, node, drsOn, crsOn, at, up, host, killed, moved, unmarked, eng, rel>>

\* The record is written again: a cancel may have cleared it meanwhile.
RerecordRules(e) ==
    /\ pc[e] = "ruleRec"
    /\ job' = WithRules(eng[e].rules)
    /\ Goto(e, "ruleChk")
    /\ UNCHANGED <<opt, node, clusterVars, eng, rel, spent>>

\* Mutant: a pause is taken for a cancel.
CheckAfterRulesPaused(e) ==
    /\ pc[e] = "ruleChk"
    /\ CASE job.status = "running"              -> Goto(e, "drainStart") /\ UNCHANGED rel
         [] job.status \in {"cancelled", "paused"} ->
                Goto(e, "release") /\ rel' = [rel EXCEPT ![e].back = "done"]
         [] OTHER                               -> Goto(e, "done") /\ UNCHANGED rel
    /\ UNCHANGED <<opt, job, node, clusterVars, eng, spent>>

CheckAfterRules(e) ==
    /\ pc[e] = "ruleChk"
    /\ CASE job.status = "running"   -> Goto(e, "drainStart") /\ UNCHANGED rel
         [] job.status = "cancelled" -> Goto(e, "release")
                                        /\ rel' = [rel EXCEPT ![e].back = "done"]
         [] OTHER                    -> Goto(e, "done") /\ UNCHANGED rel
    /\ UNCHANGED <<opt, job, node, clusterVars, eng, spent>>

\* SetNodeDrainStarted, whatever step the row is on by now.
DrainStart(e) ==
    LET n == eng[e].n
        draining == [node EXCEPT ![n] = Moved(@, "draining")]
    IN
    /\ pc[e] = "drainStart"
    /\ \/ /\ eng[e].left = {} \/ Targets(n) # {}
          /\ NoFault
          /\ node' = draining
          /\ Goto(e, IF eng[e].left = {} THEN "verify" ELSE "drain")
          /\ UNCHANGED rel
       \/ /\ eng[e].left # {}
          /\ IF Targets(n) = {} THEN NoFault ELSE Fault
          /\ FailNodeIn(draining, e, n, "done")
    /\ UNCHANGED <<opt, job, clusterVars, eng>>

-----------------------------------------------------------------------------
(* The drain loop, of startNode and of resumeDrain.                         *)

\* The job is read before each guest; the node keeps its step if it stops.
DrainCheck(e) ==
    /\ pc[e] = "drain"
    /\ Goto(e, IF eng[e].left = {} THEN "verify"
               ELSE IF IsJobCancelled THEN eng[e].back
               ELSE "guest")
    /\ UNCHANGED <<opt, job, node, clusterVars, eng, rel, spent>>

\* One guest: gone already, or migrated, or the node fails, also when the
\* guest did move but the wait for it gave up.
DrainGuest(e) ==
    LET n == eng[e].n IN
    /\ pc[e] = "guest"
    /\ \E g \in eng[e].left :
        \/ /\ at[g] # n /\ NoFault
           /\ eng' = [eng EXCEPT ![e].left = @ \ {g}]
           /\ Goto(e, "drain")
           /\ UNCHANGED <<node, at, rel>>
        \/ /\ at[g] = n /\ g \notin Passthrough /\ NoFault
           /\ \E h \in Targets(n) : at' = [at EXCEPT ![g] = h]
           /\ eng' = [eng EXCEPT ![e].left = @ \ {g}]
           /\ Goto(e, "drain")
           /\ UNCHANGED <<node, rel>>
        \/ /\ at[g] = n /\ g \notin Passthrough
           /\ IF Targets(n) = {} THEN NoFault ELSE Fault
           /\ at' \in {at} \cup {[at EXCEPT ![g] = h] : h \in Targets(n)}
           /\ FailNode(e, n, eng[e].back)
           /\ UNCHANGED eng
    /\ UNCHANGED <<opt, job, drsOn, crsOn, rulesOff, up, host, killed, moved, unmarked>>

\* Mutant: the shutdown is not recorded.
RecordStoppedNot(e) ==
    /\ pc[e] = "guest"
    /\ \E g \in eng[e].left \cap Passthrough :
        /\ at[g] = eng[e].n
        /\ eng' = [eng EXCEPT ![e].g = {g}]
    /\ Goto(e, "ptStop")
    /\ UNCHANGED <<opt, job, node, clusterVars, rel, spent>>

\* appendStoppedPassthrough: a passthrough guest is recorded, once, before it
\* is shut down.
Recorded(r, g) ==
    IF g \in r.stopped THEN r ELSE [Touched(r) EXCEPT !.stopped = r.stopped \cup {g}]

RecordStopped(e) ==
    LET n == eng[e].n IN
    /\ pc[e] = "guest"
    /\ \E g \in eng[e].left \cap Passthrough :
        /\ at[g] = n
        /\ node' = [node EXCEPT ![n] = Recorded(@, g)]
        /\ eng' = [eng EXCEPT ![e].g = {g}]
    /\ Goto(e, "ptStop")
    /\ UNCHANGED <<opt, job, clusterVars, rel, spent>>

\* The shutdown, forced if need be.  What became of a forced stop is not
\* looked at.  A call that is refused fails the node, although the graceful
\* shutdown before it may still take effect.
StopPassthrough(e) ==
    /\ pc[e] = "ptStop"
    /\ \/ /\ \/ NoFault /\ up' = up \ eng[e].g
             \/ Fault /\ UNCHANGED up
          /\ eng' = [eng EXCEPT ![e].left = @ \ eng[e].g, ![e].g = {}]
          /\ Goto(e, "drain")
          /\ UNCHANGED <<node, rel>>
       \/ /\ Fault
          /\ up' \in {up, up \ eng[e].g}
          /\ FailNode(e, eng[e].n, eng[e].back)
          /\ UNCHANGED eng
    /\ UNCHANGED <<opt, job, drsOn, crsOn, rulesOff, at, host, killed, moved, unmarked>>

\* completeDrain: refuse while something runs on the node, unless that cannot
\* be found out.
VerifyDrained(e) ==
    LET n == eng[e].n IN
    /\ pc[e] = "verify"
    /\ \/ /\ IF RunningOn(n) = {} THEN NoFault ELSE Fault
          /\ SetStep(n, UpgradeStep)
          /\ Goto(e, eng[e].back)
          /\ UNCHANGED rel
       \/ /\ RunningOn(n) # {} /\ NoFault
          /\ FailNode(e, n, eng[e].back)
    /\ UNCHANGED <<opt, job, clusterVars, eng>>

-----------------------------------------------------------------------------
(* The end of a tick.                                                       *)

\* Mutant: skipped nodes are not counted.
AllFinishedNoSkips == \A n \in Node : node[n].step \in {"completed", "failed"}

AllFinished == \A n \in Node : node[n].step \in FinalSteps

\* Mutant: failed nodes are not looked at.
FinishJobBlind(e) ==
    /\ pc[e] = "done"
    /\ IF AllFinished /\ ~Terminal
       THEN /\ job' = Ended("completed")
            /\ Goto(e, "release")
            /\ rel' = [rel EXCEPT ![e].back = "sweep"]
       ELSE Goto(e, "sweep") /\ UNCHANGED <<job, rel>>
    /\ UNCHANGED <<opt, node, clusterVars, eng, spent>>

\* The job is over once every node is; a job that ended meanwhile is left to
\* whoever ended it.
FinishJob(e) ==
    /\ pc[e] = "done"
    /\ CASE ~AllFinished -> Goto(e, "sweep") /\ UNCHANGED <<job, rel>>
         [] AllFinished /\ (\E n \in Node : node[n].step = "failed") ->
                /\ Goto(e, "failJob")
                /\ rel' = [rel EXCEPT ![e].back = "sweep"]
                /\ UNCHANGED job
         [] OTHER -> IF Terminal
                     THEN Goto(e, "sweep") /\ UNCHANGED <<job, rel>>
                     ELSE /\ job' = Ended("completed")
                          /\ Goto(e, "release")
                          /\ rel' = [rel EXCEPT ![e].back = "sweep"]
    /\ UNCHANGED <<opt, node, clusterVars, eng, spent>>

\* Mutant: no second attempt.
SweepNever(e) ==
    /\ pc[e] = "sweep"
    /\ eng' = [eng EXCEPT ![e] = NoEngine]
    /\ Goto(e, "idle")
    /\ UNCHANGED <<opt, job, node, clusterVars, rel, spent>>

\* sweepPendingCleanups: another attempt once the backoff has passed.
Sweep(e) ==
    /\ pc[e] = "sweep"
    /\ eng' = [eng EXCEPT ![e] = NoEngine]
    /\ IF Terminal /\ job.cleanup /\ job.due
       THEN /\ job' = [job EXCEPT !.due = FALSE]
            /\ Goto(e, "release")
            /\ rel' = [rel EXCEPT ![e].back = "idle"]
       ELSE Goto(e, "idle") /\ UNCHANGED <<job, rel>>
    /\ UNCHANGED <<opt, node, clusterVars, spent>>

EngineStep(e) ==
    \/ Tick(e) \/ DisableDRS(e) \/ DisableDRSOff(e) \/ CreateClient(e)
    \/ PauseCRS(e) \/ RecordCRS(e) \/ ListNodes(e)
    \/ \E n \in Node :
        \/ AdvanceRefused(e, n) \/ AdvanceWaits(e, n) \/ AdvanceTimedOut(e, n)
        \/ AdvanceDraining(e, n) \/ AdvanceUpgrading(e, n) \/ AdvanceRebooted(e, n)
        \/ AdvanceHealthCheck(e, n) \/ AdvanceRestoreTimedOut(e, n)
    \/ RestartGuests(e) \/ RestoreGuest(e) \/ RestoreDone(e) \/ FailCheck(e)
    \/ StartNext(e) \/ StartNode(e) \/ StartCheck(e) \/ DisableRules(e)
    \/ RerecordRules(e) \/ CheckAfterRules(e) \/ DrainStart(e) \/ DrainCheck(e)
    \/ DrainGuest(e) \/ RecordStopped(e) \/ StopPassthrough(e) \/ VerifyDrained(e)
    \/ FinishJob(e) \/ Sweep(e) \/ Release(e)

-----------------------------------------------------------------------------
(* runSSHUpgrade: the goroutine of node n in an automatic job.              *)

\* The upgrade ends; an SSH error or a bad exit code fails the node.
SSHUpgrade(n) ==
    /\ pc[n] = "apt"
    /\ \/ /\ NoFault
          /\ Goto(n, IF IsJobCancelled THEN "idle" ELSE "rebootCheck")
          /\ UNCHANGED <<node, rel>>
       \/ Fault /\ FailNode(n, n, "idle")
    /\ UNCHANGED <<opt, job, clusterVars, eng>>

\* Is a reboot owed, and may it happen now?  The owed answer is the node's.
SSHDecide(n) ==
    /\ pc[n] = "rebootCheck"
    /\ \/ /\ ~opt.reboot /\ NoFault
          /\ SetStep(n, "health_check")
          /\ Goto(n, "idle")
          /\ UNCHANGED rel
       \/ \E unknown \in BOOLEAN :
          /\ IF unknown THEN Fault ELSE NoFault
          /\ CASE DecideReboot(RunningOn(n), unknown) = "defer" ->
                    /\ node' = [node EXCEPT ![n] = [Moved(@, "health_check") EXCEPT !.owed = TRUE]]
                    /\ Goto(n, "idle")
                    /\ UNCHANGED rel
               [] DecideReboot(RunningOn(n), unknown) = "fail" ->
                    FailNode(n, n, "idle")
               [] OTHER -> Goto(n, "rebootMark") /\ UNCHANGED <<node, rel>>
    /\ UNCHANGED <<opt, job, clusterVars, eng>>

\* SetNodeUpgradeCompleted, whatever step the row is on by now.
SSHMarkReboot(n) ==
    /\ pc[n] = "rebootMark"
    /\ SetStep(n, "rebooting")
    /\ Goto(n, "reboot")
    /\ UNCHANGED <<opt, job, clusterVars, eng, rel, spent>>

\* A reboot call that fails may still have reached the node.
RebootAsked(n) == [host EXCEPT ![n] = "asked"]

SSHReboot(n) ==
    /\ pc[n] = "reboot"
    /\ \/ /\ NoFault
          /\ host' = RebootAsked(n)
          /\ Goto(n, "idle")
          /\ UNCHANGED <<node, rel>>
       \/ /\ Fault
          /\ FailNode(n, n, "idle")
          /\ host' \in {host, RebootAsked(n)}
    /\ UNCHANGED <<opt, job, drsOn, crsOn, rulesOff, at, up, killed, moved, unmarked, eng>>

-----------------------------------------------------------------------------
(* ConfirmUpgrade: the request for node n in a manual job.  It asks nothing *)
(* of the job's status.                                                     *)

ConfirmUpgrade(n) ==
    /\ pc[n] = "idle"
    /\ node[n].step = "awaiting_upgrade"
    /\ \/ \* no member of the cluster
          Fault /\ FailNode(n, n, "idle")
       \/ /\ ~opt.reboot /\ NoFault
          /\ Goto(n, "confHealth")
          /\ UNCHANGED <<node, rel>>
       \/ /\ opt.reboot
          /\ \E unknown \in BOOLEAN :
             /\ IF unknown THEN Fault ELSE NoFault
             /\ DecideReboot(RunningOn(n), unknown) # "fail"
             /\ IF DecideReboot(RunningOn(n), unknown) = "defer"
                THEN /\ node' = [node EXCEPT ![n] =
                                    [Moved(@, "health_check") EXCEPT !.owed = TRUE]]
                     /\ UNCHANGED pc
                ELSE UNCHANGED node /\ Goto(n, "confReboot")
          /\ UNCHANGED rel
    /\ UNCHANGED <<opt, job, clusterVars, eng>>

ConfirmReboot(n) ==
    /\ pc[n] = "confReboot"
    /\ \/ /\ NoFault
          /\ host' = RebootAsked(n)
          /\ Goto(n, "confMark")
          /\ UNCHANGED <<node, rel>>
       \/ /\ Fault
          /\ FailNodeIn([node EXCEPT ![n] = Moved(@, "rebooting")], n, n, "idle")
          /\ host' \in {host, RebootAsked(n)}
    /\ UNCHANGED <<opt, job, drsOn, crsOn, rulesOff, at, up, killed, moved, unmarked, eng>>

ConfirmMark(n) ==
    /\ pc[n] \in {"confMark", "confHealth"}
    /\ SetStep(n, IF pc[n] = "confMark" THEN "rebooting" ELSE "health_check")
    /\ Goto(n, "idle")
    /\ UNCHANGED <<opt, job, clusterVars, eng, rel, spent>>

WorkerStep(n) ==
    \/ SSHUpgrade(n) \/ SSHDecide(n) \/ SSHMarkReboot(n) \/ SSHReboot(n)
    \/ ConfirmReboot(n) \/ ConfirmMark(n) \/ Release(n)

-----------------------------------------------------------------------------
(* The other requests.                                                      *)

Request ==
    /\ spent.request < MaxRequests
    /\ spent' = [spent EXCEPT !.request = @ + 1]

StartJob ==
    /\ job.status = "pending"
    /\ job' = [job EXCEPT !.status = "running"]
    /\ UNCHANGED <<opt, node, clusterVars, pc, eng, rel, spent>>

PauseJob ==
    /\ job.status = "running"
    /\ Request
    /\ job' = [job EXCEPT !.status = "paused"]
    /\ UNCHANGED <<opt, node, clusterVars, pc, eng, rel>>

ResumeJob ==
    /\ job.status = "paused"
    /\ job' = [job EXCEPT !.status = "running"]
    /\ UNCHANGED <<opt, node, clusterVars, pc, eng, rel, spent>>

\* The cancel, and the goroutine that cleans up after it.
CancelJob ==
    /\ job.status \in Active
    /\ pc[Api] = "idle"
    /\ spent.cancel < MaxCancels
    /\ spent' = [spent EXCEPT !.cancel = @ + 1]
    /\ job' = Ended("cancelled")
    /\ Goto(Api, "release")
    /\ rel' = [rel EXCEPT ![Api].back = "idle"]
    /\ UNCHANGED <<opt, node, clusterVars, eng>>

SkipNode(n) ==
    /\ node[n].step = "pending"
    /\ Request
    /\ SetStep(n, "skipped")
    /\ UNCHANGED <<opt, job, clusterVars, pc, eng, rel>>

\* CreateJob for the same cluster releases a finished job first.
CreateAnother ==
    /\ Terminal /\ job.cleanup
    /\ pc[Api] = "idle"
    /\ Request
    /\ Goto(Api, "release")
    /\ rel' = [rel EXCEPT ![Api].back = "idle"]
    /\ UNCHANGED <<opt, job, node, clusterVars, eng>>

-----------------------------------------------------------------------------
(* Time, the cluster, and crashes.                                          *)

\* A row goes quiet.  The SSH goroutine touches its row every 30 seconds for
\* as long as it lives; nothing touches the row of a drain or a restore.
GoStale(n) ==
    /\ node[n].step \in {"draining", "restoring"}
        \/ (node[n].step = "upgrading" /\ node[n].runs > 0)
    /\ ~node[n].stale
    /\ pc[n] = "idle"
    /\ node' = [node EXCEPT ![n].stale = TRUE]
    /\ UNCHANGED <<opt, job, clusterVars, pc, eng, rel, spent>>

\* The step's own timeout passes.  A first SSH session is over well before
\* that of the upgrade.
GoLate(n) ==
    /\ \/ node[n].step \in {"draining", "rebooting", "restoring"}
       \/ /\ node[n].step = "upgrading"
          /\ node[n].runs > 0
          /\ pc[n] = "idle" \/ node[n].runs = 2
    /\ ~node[n].late
    /\ node' = [node EXCEPT ![n].late = TRUE]
    /\ UNCHANGED <<opt, job, clusterVars, pc, eng, rel, spent>>

BackoffPasses ==
    /\ Terminal /\ job.cleanup /\ ~job.due
    /\ job' = [job EXCEPT !.due = TRUE]
    /\ UNCHANGED <<opt, node, clusterVars, pc, eng, rel, spent>>

\* pruneRunningAfter exceeds the waits of a shutdown that is under way.
HourPasses ==
    /\ Terminal /\ job.cleanup /\ ~job.old
    /\ \A e \in Engine : pc[e] # "ptStop"
    /\ job' = [job EXCEPT !.old = TRUE]
    /\ UNCHANGED <<opt, node, clusterVars, pc, eng, rel, spent>>

\* A manual migration, or HA recovery from another host.
GuestMoves(g) ==
    /\ g \notin Passthrough
    /\ spent.move < MaxMoves
    /\ spent' = [spent EXCEPT !.move = @ + 1]
    /\ \E h \in Targets(at[g]) : at' = [at EXCEPT ![g] = h]
    /\ moved' = moved \cup {g}
    /\ UNCHANGED <<opt, job, node, drsOn, crsOn, rulesOff, up, host, killed, unmarked, pc,
                   eng, rel>>

\* The host goes down for its reboot, with whatever runs on it.
HostGoesDown(n) ==
    /\ host[n] = "asked"
    /\ host' = [host EXCEPT ![n] = "down"]
    /\ up' = up \ RunningOn(n)
    /\ killed' = killed \cup RunningOn(n)
    /\ UNCHANGED <<opt, job, node, drsOn, crsOn, rulesOff, at, moved, unmarked, pc, eng,
                   rel, spent>>

HostBoots(n) ==
    /\ host[n] = "down"
    /\ host' = [host EXCEPT ![n] = "fresh"]
    /\ UNCHANGED <<opt, job, node, drsOn, crsOn, rulesOff, at, up, killed, moved, unmarked,
                   pc, eng, rel, spent>>

Crash ==
    /\ spent.crash < MaxCrashes
    /\ \E t \in Thread : pc[t] # "idle"
    /\ spent' = [spent EXCEPT !.crash = @ + 1]
    /\ pc' = [t \in Thread |-> "idle"]
    /\ eng' = [e \in Engine |-> NoEngine]
    /\ rel' = [t \in Thread |-> NoRelease]
    /\ unmarked' = unmarked \cup {b \in {"crs"} : \E e \in Engine : pc[e] = "crsMark"}
    /\ UNCHANGED <<opt, job, node, drsOn, crsOn, rulesOff, at, up, host, killed, moved>>

Next ==
    \/ \E e \in Engine : EngineStep(e)
    \/ \E n \in Node : WorkerStep(n) \/ ConfirmUpgrade(n) \/ SkipNode(n)
    \/ Release(Api)
    \/ StartJob \/ PauseJob \/ ResumeJob \/ CancelJob \/ CreateAnother
    \/ \E n \in Node : GoStale(n) \/ GoLate(n) \/ HostGoesDown(n) \/ HostBoots(n)
    \/ BackoffPasses \/ HourPasses
    \/ \E g \in Guest : GuestMoves(g)
    \/ Crash

Spec == Init /\ [][Next]_vars

(* A leader keeps ticking, its goroutines run, clocks advance and a host    *)
(* that was asked to reboot does.  Requests, faults and crashes are owed to *)
(* nobody.                                                                  *)
Fairness ==
    /\ \A e \in Engine : WF_vars(EngineStep(e))
    /\ \A n \in Node :
        /\ WF_vars(WorkerStep(n))
        /\ WF_vars(GoStale(n))
        /\ WF_vars(GoLate(n))
        /\ WF_vars(HostGoesDown(n))
        /\ WF_vars(HostBoots(n))
    /\ WF_vars(Release(Api))
    /\ WF_vars(BackoffPasses)
    /\ WF_vars(HourPasses)

FairSpec == Spec /\ Fairness

-----------------------------------------------------------------------------
(* Properties.                                                              *)

Points ==
    {"idle", "failJob", "release", "relNodes", "relDrs", "relDrsMark", "relClient", "relCrs",
     "relCrsMark", "relRules", "relRulesMark", "relGuests", "relGuestsMark", "relClear",
     "drs", "drsOff", "client", "crs", "crsMark", "nodes", "advance", "restart",
     "restore", "start", "begin", "check", "ruleOff", "ruleRec", "ruleChk",
     "drainStart", "drain", "guest", "ptStop", "verify", "done", "sweep",
     "apt", "rebootCheck", "rebootMark", "reboot", "confReboot", "confMark", "confHealth"}

(* The rows hold only what the tables allow, and every thread and its       *)
(* locals are where the code can be.                                        *)
TypeOK ==
    /\ opt \in OptionSet
    /\ job \in JobRow
    /\ node \in [Node -> NodeRow]
    /\ drsOn \in BOOLEAN /\ crsOn \in BOOLEAN
    /\ rulesOff \in SUBSET Rule
    /\ at \in [Guest -> Host]
    /\ up \in SUBSET Guest
    /\ host \in [Host -> {"up", "asked", "down", "fresh"}]
    /\ killed \in SUBSET Guest /\ moved \in SUBSET Guest
    /\ unmarked \in SUBSET {"drs", "crs"}
    /\ pc \in [Thread -> Points]
    /\ eng \in [Engine -> EngineLocals]
    /\ rel \in [Thread -> ReleaseLocals]
    /\ spent \in [fault : Nat, crash : Nat, move : Nat, cancel : Nat, request : Nat]

(* The row of the job behaves as JobLifecycle says, whoever writes it: the  *)
(* tick, the SSH goroutines, the handlers (the status guards in             *)
(* queries/rolling_updates.sql).                                            *)
Lifecycle == INSTANCE JobLifecycle WITH status <- job.status, cleanup <- job.cleanup
LifecycleSpec == Lifecycle!Spec

(* No thread is at work and the sweep has let go of the job.                *)
Quiet   == \A t \in Thread : pc[t] = "idle"
Retired == Terminal /\ ~job.cleanup /\ Quiet

(* "The orchestrator's cleanup sweep re-checks flagged jobs until every     *)
(* held resource is confirmed released" (queries/rolling_updates.sql:27):   *)
(* once the sweep has let go, no HA rule is still off, ...                  *)
RulesReleased == Retired => rulesOff = {}

(* ... both balancers are as the job found them, but for a pause that was   *)
(* made and not recorded: disableDRSIfEnabled and pauseNativeCRSIfActive go *)
(* on when one of their calls fails, ...                                    *)
BalancersReleased ==
    Retired => /\ drsOn = opt.drs \/ "drs" \in unmarked
               /\ crsOn = opt.crs \/ "crs" \in unmarked

(* ... and every passthrough guest the drain shut down runs again.          *)
GuestsRestarted == Retired => Passthrough \subseteq up \cup killed

(* What queries/rolling_updates.sql:27 says of the balancers, without the   *)
(* exception.                                                               *)
BalancersAsFound == Retired => drsOn = opt.drs /\ crsOn = opt.crs

(* A rule disabled for a drain stays off as long as the job is active:      *)
(* another node of the job may depend on it (recorded at job scope).        *)
RulesStayOff ==
    [][job.status \in Active /\ job'.status \in Active => rulesOff \subseteq rulesOff']_vars

(* The reboot the engine asks for takes down no running guest, except one   *)
(* that somebody else moved, or a passthrough guest that releaseJobState of *)
(* a job that ended meanwhile has started again (verifyNodeDrained,         *)
(* decideReboot).                                                           *)
RebootSparesGuests == \A g \in killed : g \in moved \/ (g \in Passthrough /\ Terminal)

(* The same of a job that updates one node at a time: the nodes that are    *)
(* done, and those still to come, are what the node is drained onto.        *)
OneByOneSparesGuests == opt.parallel = 1 => RebootSparesGuests

(* No more nodes are under way than the job's parallelism allows.           *)
ParallelismKept == Cardinality(ActiveNodes) <= opt.parallel

(* A completed job leaves no node unfinished or failed behind.              *)
CompletedMeansDone ==
    job.status = "completed" => \A n \in Node : node[n].step \in {"completed", "skipped"}

(* A step that ended a node is never taken back: advanceNode counts on it   *)
(* ("the rest are terminal", orchestrator.go:210), and so does whoever was  *)
(* told that the node is skipped.                                           *)
FinishedNodesStay ==
    [][\A n \in Node : node[n].step \in FinalSteps => node'[n].step = node[n].step]_vars

(* A running job comes to an end, unless it is paused or waits for an       *)
(* operator to confirm a manual upgrade.                                    *)
JobSettles ==
    job.status = "running" ~>
        (job.status # "running" \/ \E n \in Node : node[n].step = "awaiting_upgrade")

(* "This sweep is what makes release eventual instead of best-effort"       *)
(* (orchestrator.go:1829): a finished job's cleanup is retired.             *)
CleanupEnds == (Terminal /\ job.cleanup) ~> ~job.cleanup
=============================================================================

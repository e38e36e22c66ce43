----------------------------- MODULE AlertEngine -----------------------------
(***************************************************************************)
(* One alert rule on one resource (internal/notifications/alert_engine.go): *)
(* the leader's evaluation pass, one statement of the database at a time,  *)
(* and the operators (internal/api/handlers/alerts.go), a crash or a new   *)
(* reading between any two of them.  What becomes of a notice once it is   *)
(* dispatched is NotificationDispatch's subject.                           *)
(*                                                                         *)
(* The clock is a flag on each alert: ripe says that what its state waits  *)
(* for has passed (the rule's duration, the next step's delay, the         *)
(* cooldown).  Step n of the escalation chain is told by notice n, the     *)
(* resolution by notice Resolution.                                        *)
(***************************************************************************)
EXTENDS Integers, Sequences, FiniteSets

CONSTANTS
    Metric,       \* what a rule can measure
    Windowed,     \* those whose duration is their window, or is zero
    ChainLen,     \* steps of the rule's escalation chain
    MaxAlerts,    \* bound: rows of alert_history
    MaxEdits,     \* bound: edits of the rule
    MaxFaults     \* bound: statements that fail and stops of the process

ASSUME AlertAssumption ==
    /\ Windowed \subseteq Metric
    /\ ChainLen \in Nat \ {0}
    /\ {MaxAlerts, MaxEdits, MaxFaults} \subseteq Nat

VARIABLES
    rule,    \* the row of alert_rules
    cond,    \* what the resource's readings say
    alerts,  \* alert_history, oldest first
    pass,    \* the evaluation pass
    spent    \* faults and edits so far

vars == <<rule, cond, alerts, pass, spent>>

States == {"pending", "firing", "acknowledged", "resolved"}

Resolution == ChainLen
Notice == 0 .. ChainLen

\* A notice is dispatched, or unsent when the pass ended before it.
Fates == {"none", "dispatched", "unsent"}

Rule == [enabled : BOOLEAN, metric : Metric]

\* fired, late and told are history: the alert fired, its steps since it was
\* acknowledged, the step its resolution went to.
Alert == [state : States, metric : Metric, level : 0 .. ChainLen - 1, ripe : BOOLEAN,
          mail : [Notice -> Fates], fired : BOOLEAN, late : Nat, told : 0 .. ChainLen - 1]

\* metric is that of the pass's copy of the rule; at, was and level are what the lookup read.
Pass == [pc : {"idle", "judge", "act", "fire", "dispatch", "list", "reread", "escalate"},
         metric : Metric, met : BOOLEAN, at : Nat, was : States \cup {"none"},
         level : 0 .. ChainLen - 1, notice : Notice, todo : SUBSET (1 .. MaxAlerts)]

Idle == [pc |-> "idle", metric |-> CHOOSE m \in Metric : TRUE, met |-> FALSE, at |-> 0, was |-> "none",
         level |-> 0, notice |-> 0, todo |-> {}]

TypeOK ==
    /\ rule \in Rule
    /\ cond \in {"met", "clear", "held"}
    /\ alerts \in Seq(Alert) /\ Len(alerts) <= MaxAlerts
    /\ pass \in Pass
    /\ spent \in [edits : 0 .. MaxEdits, faults : 0 .. MaxFaults]

Init ==
    /\ rule \in [enabled : {TRUE}, metric : Metric]
    /\ cond = "clear"
    /\ alerts = << >>
    /\ pass = Idle
    /\ spent = [edits |-> 0, faults |-> 0]

Trouble == spent.faults < MaxFaults /\ spent' = [spent EXCEPT !.faults = @ + 1]

\* A statement takes effect and is answered; takes effect, its answer lost; or fails.
Answers == {"done", "unknown", "failed"}
Took(a) == IF a = "done" THEN UNCHANGED spent ELSE Trouble

-----------------------------------------------------------------------------
(* Statements on alert_history.                                            *)

Latest == Len(alerts)

Set(i, state) == [alerts EXCEPT ![i].state = state, ![i].ripe = FALSE]

TransitionAlertToFiring(i) ==
    IF alerts[i].state = "pending" THEN [Set(i, "firing") EXCEPT ![i].fired = TRUE] ELSE alerts

\* Mutant: an acknowledged alert is left for the operator to resolve.
AutoResolvableUnseen == {"pending", "firing"}

AutoResolvable == {"pending", "firing", "acknowledged"}

AutoResolveAlert(i) ==
    IF alerts[i].state \in AutoResolvable THEN Set(i, "resolved") ELSE alerts

InsertAlertHistory ==
    Append(alerts, [state |-> "pending", metric |-> pass.metric, level |-> 0, ripe |-> FALSE,
                    mail |-> [n \in Notice |-> "none"], fired |-> FALSE, late |-> 0, told |-> 0])

\* Mutant: alerts an operator has acknowledged are listed too.
ListFiringAcknowledged == {i \in DOMAIN alerts : alerts[i].state \in {"firing", "acknowledged"}}

ListFiringUnacknowledged == {i \in DOMAIN alerts : alerts[i].state = "firing"}

UpdateAlertEscalation(i, level) ==
    [alerts EXCEPT ![i].level = level, ![i].ripe = FALSE,
                   ![i].late = IF alerts[i].state = "firing" THEN @ ELSE @ + 1]

-----------------------------------------------------------------------------
(* The evaluation pass.                                                    *)

\* Mutant: a windowed metric waits for its duration as well.
ZeroDurationNever(metric) == FALSE

\* pendingDuration = 0
ZeroDuration(metric) == metric \in Windowed

\* Mutant: the clock of a pending alert starts again at every pass.
MaturedAtOnce(i) == ZeroDuration(pass.metric)

\* The condition has held for the rule's duration.
Matured(i) == ZeroDuration(pass.metric) \/ alerts[i].ripe

\* Mutant: acknowledging an alert ends it for its rule.
alertActiveUntilAcknowledged(state) == state \in {"pending", "firing"}

alertActive(state) == state \in {"pending", "firing", "acknowledged"}

\* Mutant: every alert that resolves is told of.
resolveNotifiesAlways(state) == state # "none"

resolveNotifies(state) == state \in {"firing", "acknowledged"}

ruleStandsBehind(i) == rule.enabled /\ rule.metric = alerts[i].metric

Escalations == [Idle EXCEPT !.pc = "list"]

\* The enabled rules, and the windows in force.  The escalations follow even if this
\* rule is off, as long as any other is on (with none on, the pass changes nothing).
Evaluate ==
    /\ pass.pc = "idle"
    /\ pass' = IF rule.enabled THEN [Idle EXCEPT !.pc = "judge", !.metric = rule.metric] ELSE Escalations
    /\ UNCHANGED <<rule, cond, alerts, spent>>

\* The readings, then GetLatestAlertForRule.  Nothing to judge, or a maintenance
\* window over the resource, holds the alert as it is; so does a failed read.
evaluateRule ==
    /\ pass.pc = "judge"
    /\ \/ /\ cond # "held"
          /\ pass' = [pass EXCEPT !.pc = "act", !.met = cond = "met", !.at = Latest,
                        !.was = IF Latest = 0 THEN "none" ELSE alerts[Latest].state,
                        !.level = IF Latest = 0 THEN 0 ELSE alerts[Latest].level]
          /\ UNCHANGED spent
       \/ /\ cond = "held"
          /\ pass' = Escalations
          /\ UNCHANGED spent
       \/ /\ Trouble
          /\ pass' = Escalations
    /\ UNCHANGED <<rule, cond, alerts>>

\* The pass goes on to the notice n of alert i when the statement before it was
\* answered; otherwise it reports the error and nobody is told.
ThenDispatch(a, rows, i, n) ==
    /\ Took(a)
    /\ alerts' = IF a = "unknown" THEN [rows EXCEPT ![i].mail[n] = "unsent"] ELSE rows
    /\ pass' = IF a = "done" THEN [pass EXCEPT !.pc = "dispatch", !.at = i, !.notice = n]
                             ELSE Escalations

\* The condition holds and an alert is pending: it fires once it has held for long enough.
FirePending ==
    /\ pass.met /\ pass.was = "pending" /\ Matured(pass.at)
    /\ \E a \in Answers :
         ThenDispatch(a, IF a = "failed" THEN alerts ELSE TransitionAlertToFiring(pass.at), pass.at, 0)

\* The condition holds and nothing stands for it: a new alert, unless the last
\* one resolved within the cooldown.
Raise ==
    /\ pass.met /\ ~alertActive(pass.was)
    /\ pass.was = "resolved" => alerts[pass.at].ripe
    /\ Latest < MaxAlerts
    /\ \E a \in Answers :
         /\ Took(a)
         /\ alerts' = CASE a = "done"    -> InsertAlertHistory
                        [] a = "unknown" -> [InsertAlertHistory EXCEPT ![Latest + 1].mail[0] = "unsent"]
                        [] a = "failed"  -> alerts
         /\ pass' = IF a = "done" /\ ZeroDuration(pass.metric)
                    THEN [pass EXCEPT !.pc = "fire", !.at = Latest + 1]
                    ELSE Escalations

\* The condition is over.
Resolve ==
    /\ ~pass.met /\ alertActive(pass.was)
    /\ \E a \in Answers :
         LET rows == IF a = "failed" THEN alerts ELSE AutoResolveAlert(pass.at) IN
         IF resolveNotifies(pass.was)
         THEN ThenDispatch(a, rows, pass.at, Resolution)
         ELSE Took(a) /\ alerts' = rows /\ pass' = Escalations

NothingToDo ==
    /\ \/ pass.met /\ pass.was = "pending" /\ ~Matured(pass.at)
       \/ pass.met /\ pass.was \in {"firing", "acknowledged"}
       \/ pass.met /\ pass.was = "resolved" /\ ~alerts[pass.at].ripe
       \/ pass.met /\ ~alertActive(pass.was) /\ Latest = MaxAlerts
       \/ ~pass.met /\ ~alertActive(pass.was)
    /\ pass' = Escalations
    /\ UNCHANGED <<alerts, spent>>

handleRuleResult ==
    /\ pass.pc = "act"
    /\ FirePending \/ Raise \/ Resolve \/ NothingToDo
    /\ UNCHANGED <<rule, cond>>

\* Mutant: the alert that fires at once is not dispatched.
FireAtOnceQuietly ==
    /\ pass.pc = "fire"
    /\ alerts' = TransitionAlertToFiring(pass.at)
    /\ pass' = Escalations
    /\ UNCHANGED <<rule, cond, spent>>

\* A new alert that waits for nothing fires in the pass that raised it.
FireAtOnce ==
    /\ pass.pc = "fire"
    /\ \E a \in Answers :
         ThenDispatch(a, IF a = "failed" THEN [alerts EXCEPT ![pass.at].mail[0] = "unsent"]
                                         ELSE TransitionAlertToFiring(pass.at), pass.at, 0)
    /\ UNCHANGED <<rule, cond>>

\* dispatchForRule and dispatchToChannel: the notice is on its way to its channel.
dispatchToChannel ==
    /\ pass.pc = "dispatch"
    /\ alerts' = [alerts EXCEPT ![pass.at].mail[pass.notice] = "dispatched",
                    ![pass.at].told = IF pass.notice = Resolution THEN pass.level ELSE @]
    /\ pass' = IF pass.notice \in {0, Resolution} THEN Escalations
                ELSE [Idle EXCEPT !.pc = "reread", !.todo = pass.todo]
    /\ UNCHANGED <<rule, cond, spent>>

\* checkEscalations: the alerts firing and not acknowledged, as they are listed.
ListEscalations ==
    /\ pass.pc = "list"
    /\ \/ pass' = [pass EXCEPT !.pc = "reread", !.todo = ListFiringUnacknowledged] /\ UNCHANGED spent
       \/ pass' = Idle /\ Trouble
    /\ UNCHANGED <<rule, cond, alerts>>

\* The delay of the next step, measured on the listed copy: an alert resolved since
\* has another clock by now, so that either is possible.
StepDue(i) == IF alerts[i].state = "resolved" THEN BOOLEAN ELSE {alerts[i].ripe}

\* The next listed alert, with its rule read again: it moves on only while the rule
\* stands behind it, a step is left and that step's delay has passed.
RereadRule ==
    /\ pass.pc = "reread"
    /\ IF pass.todo = {}
       THEN pass' = Idle /\ UNCHANGED spent
       ELSE \E i \in pass.todo : \E due \in StepDue(i) :
              LET next == [pass EXCEPT !.todo = @ \ {i}, !.at = i] IN
              \/ /\ IF ruleStandsBehind(i) /\ alerts[i].level + 1 < ChainLen /\ due
                    THEN pass' = [next EXCEPT !.pc = "escalate"]
                    ELSE pass' = [pass EXCEPT !.todo = @ \ {i}]
                 /\ UNCHANGED spent
              \/ pass' = [pass EXCEPT !.todo = @ \ {i}] /\ Trouble
    /\ UNCHANGED <<rule, cond, alerts>>

Escalate ==
    /\ pass.pc = "escalate"
    /\ LET i == pass.at
           level == alerts[i].level + 1 IN
       \E a \in Answers :
         /\ Took(a)
         /\ alerts' = CASE a = "done"    -> UpdateAlertEscalation(i, level)
                        [] a = "unknown" -> [UpdateAlertEscalation(i, level) EXCEPT ![i].mail[level] = "unsent"]
                        [] a = "failed"  -> alerts
         /\ pass' = IF a = "done" THEN [pass EXCEPT !.pc = "dispatch", !.notice = level]
                                  ELSE [pass EXCEPT !.pc = "reread", !.at = 0]
    /\ UNCHANGED <<rule, cond>>

-----------------------------------------------------------------------------
(* Operators and the world.                                                *)

AcknowledgeAlert(i) ==
    /\ alerts[i].state = "firing"
    /\ alerts' = [alerts EXCEPT ![i].state = "acknowledged"]
    /\ UNCHANGED <<rule, cond, pass, spent>>

ResolveAlert(i) ==
    /\ alerts[i].state \in {"firing", "acknowledged"}
    /\ alerts' = Set(i, "resolved")
    /\ UNCHANGED <<rule, cond, pass, spent>>

UpdateRule ==
    /\ spent.edits < MaxEdits /\ spent' = [spent EXCEPT !.edits = @ + 1]
    /\ rule' \in Rule \ {rule}
    /\ UNCHANGED <<cond, alerts, pass>>

\* Readings change; a maintenance window opens or closes.
ConditionChanges ==
    /\ cond' \in {"met", "clear", "held"} \ {cond}
    /\ UNCHANGED <<rule, alerts, pass, spent>>

TimePasses(i) ==
    /\ ~alerts[i].ripe
    /\ \/ alerts[i].state \in {"firing", "acknowledged"} /\ alerts[i].level + 1 < ChainLen
       \/ alerts[i].state \in {"pending", "resolved"} /\ i = Latest
    /\ alerts' = [alerts EXCEPT ![i].ripe = TRUE]
    /\ UNCHANGED <<rule, cond, pass, spent>>

\* What a pass that ends here owes: the notice it was about to dispatch, or the
\* firing it was about to record.
Owed(i, n) == pass.at = i /\ \/ pass.pc = "dispatch" /\ pass.notice = n
                             \/ pass.pc = "fire" /\ n = 0

\* The process stops, and the pass with it.
Stop ==
    /\ pass.pc # "idle" /\ Trouble
    /\ alerts' = [i \in DOMAIN alerts |-> [alerts[i] EXCEPT !.mail =
                    [n \in Notice |-> IF Owed(i, n) THEN "unsent" ELSE @[n]]]]
    /\ pass' = Idle
    /\ UNCHANGED <<rule, cond>>

Next ==
    \/ Evaluate \/ evaluateRule \/ handleRuleResult \/ FireAtOnce \/ dispatchToChannel
    \/ ListEscalations \/ RereadRule \/ Escalate
    \/ UpdateRule \/ ConditionChanges \/ Stop
    \/ \E i \in DOMAIN alerts : AcknowledgeAlert(i) \/ ResolveAlert(i) \/ TimePasses(i)

Spec == Init /\ [][Next]_vars

\* The scheduler runs a pass every minute and each pass ends; the clock goes on.
PassStep == Evaluate \/ evaluateRule \/ handleRuleResult \/ FireAtOnce \/ dispatchToChannel
            \/ ListEscalations \/ RereadRule \/ Escalate

FairSpec ==
    /\ Spec
    /\ WF_vars(PassStep)
    /\ WF_vars(\E i \in DOMAIN alerts : i = Latest /\ TimePasses(i))

-----------------------------------------------------------------------------
(* Properties.                                                             *)

\* A rule has at most one alert standing for a resource, however the passes, the
\* operators and the restarts fall: the lookup sees only the newest row, and a
\* second active one would never resolve.
OneActiveAlert ==
    Cardinality({i \in DOMAIN alerts : alerts[i].state # "resolved"}) <= 1

\* Each step an alert has reached was handed to its channel, or a fault between
\* the statement and the dispatch took it.
EveryStepTold ==
    \A i \in DOMAIN alerts : alerts[i].fired =>
      \A n \in 0 .. alerts[i].level : alerts[i].mail[n] # "none" \/ Owed(i, n)

\* A resolution is told only of an alert that fired, and to the step it had reached.
ResolutionFollowsFiring ==
    \A i \in DOMAIN alerts : alerts[i].mail[Resolution] = "dispatched" =>
      alerts[i].fired /\ alerts[i].told = alerts[i].level

\* An alert acknowledged or resolved after the pass listed it still moves on, since
\* UpdateAlertEscalation does not ask for the state it finds; but by that one step
\* only: no later pass lists it.
LateStepIsLast ==
    \A i \in DOMAIN alerts : alerts[i].late <= 1

\* "Escalation only advances while the alert is still firing and unacknowledged"
\* (docs/admin-guide.md:1303).
EscalatesOnlyWhileFiring ==
    \A i \in DOMAIN alerts : alerts[i].late = 0

\* A failure counted over a window fires even when it has left the window by the
\* next pass: such an alert never resolves without having fired.
WindowedAlertFires ==
    \A i \in DOMAIN alerts :
      alerts[i].metric \in Windowed /\ alerts[i].state = "resolved" =>
        alerts[i].fired \/ alerts[i].mail[0] = "unsent"

\* A condition that stays ends as an alert that fires, whatever faults, edits and
\* operators do on the way (short of resolving the last of the MaxAlerts rows).
PersistentConditionFires ==
    <>[](cond = "met" /\ rule.enabled) =>
      <>[](Latest > 0 /\ \/ alerts[Latest].state \in {"firing", "acknowledged"}
                         \/ alerts[Latest].state = "resolved" /\ Latest = MaxAlerts)

\* A condition that stays away leaves no alert standing, acknowledged or not.
ClearedConditionResolves ==
    <>[](cond = "clear" /\ rule.enabled) =>
      <>[](\A i \in DOMAIN alerts : alerts[i].state = "resolved")
=============================================================================

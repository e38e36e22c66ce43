--------------------------- MODULE AlertEngineProof ---------------------------
(***************************************************************************)
(* Proofs about AlertEngine, for any metrics, any length of the escalation *)
(* chain and any number of alerts, edits and faults: types, and the five   *)
(* safety invariants.                                                      *)
(***************************************************************************)
EXTENDS AlertEngine, FiniteSetTheorems, TLAPS

-----------------------------------------------------------------------------
(* The invariant.                                                          *)

\* What a row says of itself: it fired before anybody could acknowledge it, it
\* climbs the chain only after it fired, at most once after the acknowledgement,
\* and its resolution is told last.
Sound(a) ==
    /\ a.state \in {"firing", "acknowledged"} => a.fired
    /\ a.state = "pending" => ~a.fired
    /\ ~a.fired => a.level = 0
    /\ a.late = 0 \/ (a.late = 1 /\ a.state \in {"acknowledged", "resolved"})
    /\ a.mail[Resolution] = "dispatched" => a.state = "resolved" /\ a.fired /\ a.told = a.level

SoundRows == \A i \in DOMAIN alerts : Sound(alerts[i])

\* Only the newest row stands.
OnlyLatest == \A i \in DOMAIN alerts : i # Latest => alerts[i].state = "resolved"

\* A windowed alert fired, or a fault kept it from firing, or it is about to.
FiresOrFails ==
    \A i \in DOMAIN alerts : alerts[i].metric \in Windowed =>
      alerts[i].fired \/ alerts[i].mail[0] = "unsent" \/ (pass.pc = "fire" /\ pass.at = i)

\* What the pass read still stands, but for what an operator may have done since.
LookupFresh ==
    pass.pc = "act" =>
      /\ pass.at = Latest /\ (pass.was = "none" <=> Latest = 0)
      /\ pass.was \in {"pending", "resolved"} => alerts[Latest].state = pass.was
      /\ pass.was \in {"firing", "acknowledged"} =>
           alerts[Latest].fired /\ alerts[Latest].level = pass.level

\* A new alert stays pending until the pass fires it.
AboutToFire ==
    pass.pc = "fire" => pass.at = Latest /\ Latest > 0 /\ alerts[Latest].state = "pending"

\* A notice is about what has been recorded.
NoticeRecorded ==
    pass.pc = "dispatch" =>
      /\ pass.at \in DOMAIN alerts /\ alerts[pass.at].fired
      /\ pass.notice = Resolution =>
           alerts[pass.at].state = "resolved" /\ alerts[pass.at].level = pass.level

\* The pass walks a list only in its second half.
Walking == pass.pc \in {"reread", "escalate"}
           \/ (pass.pc = "dispatch" /\ pass.notice \notin {0, Resolution})

\* A listed alert has fired, has not climbed since it was acknowledged, and its
\* resolution has not been told: no other pass could have.
Climbs(a) == a.fired /\ a.late = 0 /\ a.mail[Resolution] # "dispatched"

Listed ==
    /\ pass.todo # {} => Walking
    /\ pass.todo \subseteq DOMAIN alerts
    /\ \A i \in pass.todo : Climbs(alerts[i])
    /\ Walking /\ pass.pc # "reread" => pass.at \notin pass.todo
    /\ pass.pc = "escalate" =>
         /\ pass.at \in DOMAIN alerts /\ Climbs(alerts[pass.at])
         /\ alerts[pass.at].level + 1 < ChainLen

Inv ==
    /\ TypeOK /\ SoundRows /\ OnlyLatest /\ EveryStepTold /\ FiresOrFails
    /\ LookupFresh /\ AboutToFire /\ NoticeRecorded /\ Listed

-----------------------------------------------------------------------------
(* Lemmas on rows and passes.                                              *)

\* The rows are numbered from 1, and the resolution's notice is a notice.
LEMMA Rows ==
  ASSUME TypeOK
  PROVE  /\ Len(alerts) \in Nat /\ DOMAIN alerts = 1 .. Len(alerts)
         /\ \A i \in DOMAIN alerts : alerts[i] \in Alert
         /\ Resolution \in Notice /\ 0 \in Notice /\ Resolution # 0 /\ ChainLen \in Nat \ {0}
         /\ MaxAlerts \in Nat /\ MaxEdits \in Nat /\ MaxFaults \in Nat
BY AlertAssumption DEF TypeOK, Resolution, Notice

\* The state of a pass that is not under way.
LEMMA IdleType ==
  ASSUME TypeOK
  PROVE  /\ Idle \in Pass /\ Idle.pc = "idle" /\ Idle.todo = {} /\ Idle.at = 0 /\ Idle.notice = 0
         /\ Escalations \in Pass /\ Escalations.pc = "list" /\ Escalations.todo = {}
         /\ Escalations.at = 0 /\ Escalations.notice = 0
<1>1. (CHOOSE m \in Metric : TRUE) \in Metric
  BY DEF TypeOK, Rule
<1>2. 0 \in 0 .. ChainLen - 1 /\ 0 \in Notice
  BY AlertAssumption DEF Notice
<1>3. Idle \in Pass
  BY <1>1, <1>2 DEF Idle, Pass
<1>4. Escalations \in Pass
  BY <1>1, <1>2 DEF Escalations, Idle, Pass
<1>5. QED
  BY <1>3, <1>4 DEF Idle, Escalations

\* Trouble is bounded.
LEMMA TroubleType ==
  ASSUME TypeOK, Trouble \/ UNCHANGED spent
  PROVE  spent' \in [edits : 0 .. MaxEdits, faults : 0 .. MaxFaults]
BY AlertAssumption DEF TypeOK, Trouble

\* A statement that took, or not, is bounded.
LEMMA TookType ==
  ASSUME TypeOK, NEW a \in Answers, Took(a)
  PROVE  spent' \in [edits : 0 .. MaxEdits, faults : 0 .. MaxFaults]
BY TroubleType DEF Took

\* A statement on one row leaves the others.
LEMMA Replaced ==
  ASSUME TypeOK, NEW i \in DOMAIN alerts, NEW a \in Alert, alerts' = [alerts EXCEPT ![i] = a]
  PROVE  /\ alerts' \in Seq(Alert) /\ Latest' = Latest /\ DOMAIN alerts' = DOMAIN alerts
         /\ alerts'[i] = a /\ \A j \in DOMAIN alerts \ {i} : alerts'[j] = alerts[j]
BY DEF TypeOK, Latest

\* A step that touches neither the rows nor the pass.
LEMMA AsideInv ==
  ASSUME Inv, TypeOK', UNCHANGED <<alerts, pass>>
  PROVE  Inv'
BY DEF Inv, SoundRows, Sound, OnlyLatest, EveryStepTold, Owed, FiresOrFails, LookupFresh,
       AboutToFire, NoticeRecorded, Listed, Walking, Climbs, Latest

\* A step of the pass that writes nothing.
LEMMA ReadInv ==
  ASSUME Inv, pass' \in Pass, UNCHANGED <<rule, cond, alerts>>, Trouble \/ UNCHANGED spent,
         pass.pc \notin {"fire", "dispatch"}, pass'.pc \notin {"fire", "dispatch"},
         LookupFresh', Listed'
  PROVE  Inv'
<1>1. TypeOK'
  BY TroubleType DEF Inv, TypeOK
<1>2. SoundRows' /\ OnlyLatest'
  BY DEF Inv, SoundRows, Sound, OnlyLatest, Latest
<1>3. EveryStepTold' /\ FiresOrFails'
  BY DEF Inv, EveryStepTold, Owed, FiresOrFails
<1>4. AboutToFire' /\ NoticeRecorded'
  BY DEF AboutToFire, NoticeRecorded
<1>5. QED
  BY <1>1, <1>2, <1>3, <1>4 DEF Inv

\* A pass that goes on to the escalations, or ends.
LEMMA PassesOn ==
  ASSUME TypeOK, pass' \in {Idle, Escalations}
  PROVE  pass' \in Pass /\ pass'.pc \notin {"fire", "dispatch"}
         /\ LookupFresh' /\ AboutToFire' /\ NoticeRecorded' /\ Listed'
<1>1. pass' \in Pass /\ pass'.pc \in {"idle", "list"} /\ pass'.todo = {}
  BY IdleType
<1>2. QED
  BY <1>1 DEF LookupFresh, AboutToFire, NoticeRecorded, Listed, Walking

\* A step of the pass that writes the row it is at: what is left to show is that
\* the row is sound, has its notices and agrees with what the pass goes on to.
LEMMA WriteInv ==
  ASSUME Inv, NEW i \in DOMAIN alerts, NEW a \in Alert, alerts' = [alerts EXCEPT ![i] = a],
         Sound(a), a.metric = alerts[i].metric, i = Latest \/ a.state = "resolved",
         pass.pc \in {"fire", "dispatch"} => pass.at = i,
         a.fired => \A n \in 0 .. a.level : a.mail[n] # "none" \/ Owed(i, n)',
         a.metric \in Windowed => a.fired \/ a.mail[0] = "unsent",
         pass' \in Pass, UNCHANGED <<rule, cond>>,
         spent' \in [edits : 0 .. MaxEdits, faults : 0 .. MaxFaults],
         LookupFresh', AboutToFire', NoticeRecorded', Listed'
  PROVE  Inv'
<1>0. TypeOK
  BY DEF Inv
<1>1. /\ alerts' \in Seq(Alert) /\ Latest' = Latest /\ DOMAIN alerts' = DOMAIN alerts
      /\ alerts'[i] = a /\ \A j \in DOMAIN alerts \ {i} : alerts'[j] = alerts[j]
  BY <1>0, Replaced
<1>2. TypeOK'
  BY <1>0, <1>1 DEF TypeOK, Latest
<1>3. SoundRows'
  <2>1. \A j \in DOMAIN alerts : Sound(alerts'[j])
    BY <1>1 DEF Inv, SoundRows
  <2>2. QED
    BY <1>1, <2>1 DEF SoundRows, Sound
<1>4. OnlyLatest'
  BY <1>1 DEF Inv, OnlyLatest
<1>5. EveryStepTold'
  <2>1. \A j \in DOMAIN alerts \ {i} : \A n : ~Owed(j, n)
    BY DEF Owed
  <2>2. \A j \in DOMAIN alerts \ {i} : alerts[j].fired =>
          \A n \in 0 .. alerts[j].level : alerts[j].mail[n] # "none"
    BY <2>1 DEF Inv, EveryStepTold
  <2>3. QED
    BY <1>1, <2>2 DEF EveryStepTold, Owed
<1>6. FiresOrFails'
  BY <1>1 DEF Inv, FiresOrFails
<1>7. QED
  BY <1>2, <1>3, <1>4, <1>5, <1>6 DEF Inv

\* A step of an operator or of the clock: the row keeps its history, and a
\* pending or a resolved one its state.
LEMMA AroundInv ==
  ASSUME Inv, NEW i \in DOMAIN alerts, NEW a \in Alert, alerts' = [alerts EXCEPT ![i] = a],
         Sound(a), a.metric = alerts[i].metric, a.level = alerts[i].level, a.mail = alerts[i].mail,
         a.fired = alerts[i].fired, a.late = alerts[i].late,
         alerts[i].state \in {"pending", "resolved"} => a.state = alerts[i].state,
         UNCHANGED <<rule, cond, pass, spent>>
  PROVE  Inv'
<1>0. TypeOK
  BY DEF Inv
<1>1. /\ alerts' \in Seq(Alert) /\ Latest' = Latest /\ DOMAIN alerts' = DOMAIN alerts
      /\ alerts'[i] = a /\ \A j \in DOMAIN alerts \ {i} : alerts'[j] = alerts[j]
  BY <1>0, Replaced
<1>2. TypeOK'
  BY <1>0, <1>1 DEF TypeOK, Latest
<1>3. SoundRows'
  <2>1. \A j \in DOMAIN alerts : Sound(alerts'[j])
    BY <1>1 DEF Inv, SoundRows
  <2>2. QED
    BY <1>1, <2>1 DEF SoundRows, Sound
<1>4. OnlyLatest'
  BY <1>1 DEF Inv, OnlyLatest
<1>5. EveryStepTold'
  BY <1>1 DEF Inv, EveryStepTold, Owed
<1>6. FiresOrFails'
  BY <1>1 DEF Inv, FiresOrFails
<1>7. LookupFresh'
  BY <1>0, <1>1, Rows DEF Inv, LookupFresh, Latest
<1>8. AboutToFire' /\ NoticeRecorded'
  BY <1>0, <1>1, Rows DEF Inv, AboutToFire, NoticeRecorded, Latest
<1>9. Listed'
  BY <1>1 DEF Inv, Listed, Walking, Climbs
<1>10. QED
  BY <1>2, <1>3, <1>4, <1>5, <1>6, <1>7, <1>8, <1>9 DEF Inv

-----------------------------------------------------------------------------
(* One lemma per action.                                                   *)

\* Before the first pass there is nothing.
LEMMA InitInv == Init => Inv
<1> SUFFICES ASSUME Init PROVE Inv
  OBVIOUS
<1>1. rule \in Rule /\ alerts = << >>
  BY DEF Init, Rule
<1>2. TypeOK
  <2>1. (CHOOSE m \in Metric : TRUE) \in Metric
    BY <1>1 DEF Rule
  <2>2. Idle \in Pass
    BY <2>1, AlertAssumption DEF Idle, Pass, Notice
  <2>3. QED
    BY <1>1, <2>2, AlertAssumption DEF Init, TypeOK
<1>3. DOMAIN alerts = {}
  BY <1>1
<1>4. pass.pc = "idle" /\ pass.todo = {}
  BY <1>2, IdleType DEF Init
<1>5. QED
  BY <1>2, <1>3, <1>4 DEF Inv, SoundRows, OnlyLatest, EveryStepTold, FiresOrFails, LookupFresh,
     AboutToFire, NoticeRecorded, Listed, Walking

\* The rule changes, or the readings.
LEMMA WorldInv ==
  ASSUME Inv, UpdateRule \/ ConditionChanges
  PROVE  Inv'
<1>1. TypeOK' /\ UNCHANGED <<alerts, pass>>
  <2>1. CASE UpdateRule
    BY <2>1, AlertAssumption DEF Inv, TypeOK, UpdateRule
  <2>2. CASE ConditionChanges
    BY <2>2 DEF Inv, TypeOK, ConditionChanges
  <2>3. QED
    BY <2>1, <2>2
<1>2. QED
  BY <1>1, AsideInv

\* An operator acknowledges what fires.
LEMMA AcknowledgeInv ==
  ASSUME Inv, NEW i \in DOMAIN alerts, AcknowledgeAlert(i)
  PROVE  Inv'
<1> DEFINE a == [alerts[i] EXCEPT !.state = "acknowledged"]
<1>0. TypeOK /\ alerts[i] \in Alert /\ Sound(alerts[i]) /\ alerts[i].state = "firing"
  BY Rows DEF Inv, SoundRows, AcknowledgeAlert
<1>1. /\ a \in Alert /\ a.state = "acknowledged" /\ a.metric = alerts[i].metric
      /\ a.level = alerts[i].level /\ a.mail = alerts[i].mail /\ a.fired = alerts[i].fired
      /\ a.late = alerts[i].late /\ a.told = alerts[i].told
  BY <1>0 DEF Alert, States
<1>2. alerts' = [alerts EXCEPT ![i] = a] /\ UNCHANGED <<rule, cond, pass, spent>>
  BY DEF AcknowledgeAlert
<1> HIDE DEF a
<1>3. Sound(a)
  BY <1>0, <1>1 DEF Sound
<1>4. QED
  BY <1>0, <1>1, <1>2, <1>3, AroundInv

\* An operator resolves what fires.
LEMMA ResolveAlertInv ==
  ASSUME Inv, NEW i \in DOMAIN alerts, ResolveAlert(i)
  PROVE  Inv'
<1> DEFINE a == [alerts[i] EXCEPT !.state = "resolved", !.ripe = FALSE]
<1>0. /\ TypeOK /\ alerts[i] \in Alert /\ Sound(alerts[i])
      /\ alerts[i].state \in {"firing", "acknowledged"}
  BY Rows DEF Inv, SoundRows, ResolveAlert
<1>1. /\ a \in Alert /\ a.state = "resolved" /\ a.metric = alerts[i].metric
      /\ a.level = alerts[i].level /\ a.mail = alerts[i].mail /\ a.fired = alerts[i].fired
      /\ a.late = alerts[i].late /\ a.told = alerts[i].told
  BY <1>0 DEF Alert, States
<1>2. alerts' = [alerts EXCEPT ![i] = a] /\ UNCHANGED <<rule, cond, pass, spent>>
  BY <1>0 DEF ResolveAlert, Set, TypeOK
<1> HIDE DEF a
<1>3. Sound(a)
  BY <1>0, <1>1 DEF Sound
<1>4. QED
  BY <1>0, <1>1, <1>2, <1>3, AroundInv

\* What an alert waits for has passed.
LEMMA TimeInv ==
  ASSUME Inv, NEW i \in DOMAIN alerts, TimePasses(i)
  PROVE  Inv'
<1> DEFINE a == [alerts[i] EXCEPT !.ripe = TRUE]
<1>0. TypeOK /\ alerts[i] \in Alert /\ Sound(alerts[i])
  BY Rows DEF Inv, SoundRows
<1>1. /\ a \in Alert /\ a.state = alerts[i].state /\ a.metric = alerts[i].metric
      /\ a.level = alerts[i].level /\ a.mail = alerts[i].mail /\ a.fired = alerts[i].fired
      /\ a.late = alerts[i].late /\ a.told = alerts[i].told
  BY <1>0 DEF Alert
<1>2. alerts' = [alerts EXCEPT ![i] = a] /\ UNCHANGED <<rule, cond, pass, spent>>
  BY DEF TimePasses
<1> HIDE DEF a
<1>3. Sound(a)
  BY <1>0, <1>1 DEF Sound
<1>4. QED
  BY <1>0, <1>1, <1>2, <1>3, AroundInv

\* A pass starts.
LEMMA EvaluateInv ==
  ASSUME Inv, Evaluate
  PROVE  Inv'
<1>0. TypeOK /\ pass.pc = "idle" /\ UNCHANGED <<rule, cond, alerts, spent>>
  BY DEF Inv, Evaluate
<1>1. CASE rule.enabled
  <2>1. pass' = [Idle EXCEPT !.pc = "judge", !.metric = rule.metric]
    BY <1>1 DEF Evaluate
  <2>2. pass' \in Pass /\ pass'.pc = "judge" /\ pass'.todo = {}
    BY <1>0, <2>1, IdleType DEF Pass, TypeOK, Rule
  <2>3. LookupFresh' /\ Listed'
    BY <2>2 DEF LookupFresh, Listed, Walking
  <2>4. QED
    BY <1>0, <2>2, <2>3, ReadInv
<1>2. CASE ~rule.enabled
  <2>1. pass' \in {Idle, Escalations}
    BY <1>2 DEF Evaluate
  <2>2. QED
    BY <1>0, <2>1, PassesOn, ReadInv
<1>3. QED
  BY <1>1, <1>2

\* The readings and the newest row are read.
LEMMA evaluateRuleInv ==
  ASSUME Inv, evaluateRule
  PROVE  Inv'
<1>0. TypeOK /\ pass.pc = "judge" /\ UNCHANGED <<rule, cond, alerts>> /\ (Trouble \/ UNCHANGED spent)
  BY DEF Inv, evaluateRule
<1>1. CASE pass' = Escalations
  BY <1>0, <1>1, PassesOn, ReadInv
<1>2. CASE pass' = [pass EXCEPT !.pc = "act", !.met = cond = "met", !.at = Latest,
                      !.was = IF Latest = 0 THEN "none" ELSE alerts[Latest].state,
                      !.level = IF Latest = 0 THEN 0 ELSE alerts[Latest].level]
  <2>1. /\ Latest = 0 \/ (Latest \in DOMAIN alerts /\ alerts[Latest] \in Alert
                          /\ Sound(alerts[Latest]))
        /\ Latest \in Nat
    BY <1>0, Rows DEF Latest, Inv, SoundRows
  <2>2. /\ pass' \in Pass /\ pass'.pc = "act" /\ pass'.at = Latest /\ pass'.todo = pass.todo
        /\ pass'.was = IF Latest = 0 THEN "none" ELSE alerts[Latest].state
        /\ pass'.level = IF Latest = 0 THEN 0 ELSE alerts[Latest].level
    <3>1. (IF Latest = 0 THEN "none" ELSE alerts[Latest].state) \in States \cup {"none"}
      BY <2>1 DEF Alert
    <3>2. (IF Latest = 0 THEN 0 ELSE alerts[Latest].level) \in 0 .. ChainLen - 1
      BY <2>1, AlertAssumption DEF Alert
    <3>3. (cond = "met") \in BOOLEAN /\ pass \in Pass
      BY <1>0 DEF TypeOK
    <3>4. QED
      BY <1>2, <2>1, <3>1, <3>2, <3>3 DEF Pass
  <2>3. Latest' = Latest
    BY <1>0 DEF Latest
  <2>4. LookupFresh'
    BY <1>0, <2>1, <2>2, <2>3 DEF LookupFresh, Alert, States, Sound
  <2>5. Listed'
    BY <1>0, <2>2 DEF Inv, Listed, Walking
  <2>6. QED
    BY <1>0, <2>2, <2>4, <2>5, ReadInv
<1>3. QED
  BY <1>1, <1>2 DEF evaluateRule

\* The firing alerts are listed.
LEMMA ListInv ==
  ASSUME Inv, ListEscalations
  PROVE  Inv'
<1>0. TypeOK /\ pass.pc = "list" /\ UNCHANGED <<rule, cond, alerts>> /\ (Trouble \/ UNCHANGED spent)
  BY DEF Inv, ListEscalations
<1>1. CASE pass' = Idle
  BY <1>0, <1>1, PassesOn, ReadInv
<1>2. CASE pass' = [pass EXCEPT !.pc = "reread", !.todo = ListFiringUnacknowledged]
  <2>1. ListFiringUnacknowledged \subseteq DOMAIN alerts
        /\ ListFiringUnacknowledged \in SUBSET (1 .. MaxAlerts)
    BY <1>0, Rows DEF ListFiringUnacknowledged, TypeOK
  <2>2. pass' \in Pass /\ pass'.pc = "reread" /\ pass'.todo = ListFiringUnacknowledged
    BY <1>0, <1>2, <2>1 DEF TypeOK, Pass
  <2>3. \A i \in ListFiringUnacknowledged : Climbs(alerts[i])
    BY DEF Inv, SoundRows, Sound, Climbs, ListFiringUnacknowledged
  <2>4. Listed'
    BY <1>0, <2>1, <2>2, <2>3 DEF Listed, Walking, Climbs
  <2>5. LookupFresh'
    BY <2>2 DEF LookupFresh
  <2>6. QED
    BY <1>0, <2>2, <2>4, <2>5, ReadInv
<1>3. QED
  BY <1>1, <1>2 DEF ListEscalations

\* The next listed alert is looked at.
LEMMA RereadInv ==
  ASSUME Inv, RereadRule
  PROVE  Inv'
<1>0. /\ TypeOK /\ pass.pc = "reread" /\ UNCHANGED <<rule, cond, alerts>>
      /\ (Trouble \/ UNCHANGED spent) /\ pass \in Pass
  BY DEF Inv, RereadRule, TypeOK
<1>1. CASE pass' = Idle
  BY <1>0, <1>1, PassesOn, ReadInv
<1>2. ASSUME NEW i \in pass.todo, pass' = [pass EXCEPT !.todo = @ \ {i}]
      PROVE  Inv'
  <2>1. pass' \in Pass /\ pass'.pc = "reread" /\ pass'.todo = pass.todo \ {i}
    BY <1>0, <1>2 DEF Pass
  <2>2. LookupFresh'
    BY <2>1 DEF LookupFresh
  <2>3. Listed'
    BY <1>0, <2>1 DEF Inv, Listed, Walking, Climbs
  <2>4. QED
    BY <1>0, <2>1, <2>2, <2>3, ReadInv
<1>3. ASSUME NEW i \in pass.todo, alerts[i].level + 1 < ChainLen,
             pass' = [pass EXCEPT !.todo = @ \ {i}, !.at = i, !.pc = "escalate"]
      PROVE  Inv'
  <2>0. i \in Nat /\ pass.todo \in SUBSET (1 .. MaxAlerts)
    BY <1>0, Rows DEF Pass
  <2>1. pass' \in Pass /\ pass'.pc = "escalate" /\ pass'.todo = pass.todo \ {i} /\ pass'.at = i
    BY <1>0, <1>3, <2>0 DEF Pass
  <2>2. LookupFresh'
    BY <2>1 DEF LookupFresh
  <2>3. Listed'
    BY <1>0, <1>3, <2>1 DEF Inv, Listed, Walking, Climbs
  <2>4. QED
    BY <1>0, <2>1, <2>2, <2>3, ReadInv
<1>4. CASE pass.todo = {}
  BY <1>1, <1>4 DEF RereadRule
<1>5. CASE pass.todo # {}
  <2>1. PICK i \in pass.todo : \E due \in StepDue(i) :
          LET next == [pass EXCEPT !.todo = @ \ {i}, !.at = i] IN
          \/ IF ruleStandsBehind(i) /\ alerts[i].level + 1 < ChainLen /\ due
             THEN pass' = [next EXCEPT !.pc = "escalate"]
             ELSE pass' = [pass EXCEPT !.todo = @ \ {i}]
          \/ pass' = [pass EXCEPT !.todo = @ \ {i}]
    BY <1>5 DEF RereadRule
  <2>2. \/ /\ alerts[i].level + 1 < ChainLen
           /\ pass' = [[pass EXCEPT !.todo = @ \ {i}, !.at = i] EXCEPT !.pc = "escalate"]
        \/ pass' = [pass EXCEPT !.todo = @ \ {i}]
    BY <2>1
  <2>3. [[pass EXCEPT !.todo = @ \ {i}, !.at = i] EXCEPT !.pc = "escalate"]
          = [pass EXCEPT !.todo = @ \ {i}, !.at = i, !.pc = "escalate"]
    OBVIOUS
  <2>4. QED
    BY <1>2, <1>3, <2>2, <2>3
<1>6. QED
  BY <1>4, <1>5

\* A row and the notice that stays unsent.
Missed(b, n) == [b EXCEPT !.mail[n] = "unsent"]

\* It is as sound as the row.
LEMMA Unsent ==
  ASSUME TypeOK, NEW b \in Alert, NEW n \in Notice
  PROVE  /\ Missed(b, n) \in Alert /\ Missed(b, n).mail[n] = "unsent"
         /\ \A m \in Notice \ {n} : Missed(b, n).mail[m] = b.mail[m]
         /\ Missed(b, n).state = b.state /\ Missed(b, n).metric = b.metric
         /\ Missed(b, n).level = b.level /\ Missed(b, n).fired = b.fired
         /\ Missed(b, n).late = b.late /\ Missed(b, n).told = b.told
         /\ Sound(b) => Sound(Missed(b, n))
<1> DEFINE c == Missed(b, n)
<1>1. /\ c \in Alert /\ c.mail[n] = "unsent" /\ \A m \in Notice \ {n} : c.mail[m] = b.mail[m]
      /\ c.state = b.state /\ c.metric = b.metric /\ c.level = b.level /\ c.fired = b.fired
      /\ c.late = b.late /\ c.told = b.told
  BY DEF Alert, Fates, Missed
<1> HIDE DEF c
<1>2. Sound(b) => Sound(c)
  BY <1>1, Rows DEF Sound
<1>3. QED
  BY <1>1, <1>2 DEF c

\* A statement on the newest row took, and its notice follows, or the answer was
\* lost and the notice with it.
LEMMA ThenDispatchInv ==
  ASSUME Inv, pass.pc \in {"act", "fire"}, NEW i \in DOMAIN alerts, i = Latest, pass.at = i,
         NEW a \in {"done", "unknown"}, NEW n \in {0, Resolution}, NEW b \in Alert,
         ThenDispatch(a, [alerts EXCEPT ![i] = b], i, n), UNCHANGED <<rule, cond>>,
         Sound(b), b.fired, b.metric = alerts[i].metric,
         \A m \in 0 .. b.level : b.mail[m] # "none" \/ m = n,
         n = Resolution => b.state = "resolved" /\ b.level = pass.level
  PROVE  Inv'
<1>0. /\ TypeOK /\ pass \in Pass /\ n \in Notice /\ pass.todo = {}
      /\ Resolution \in Notice /\ Resolution # 0
  BY Rows DEF Inv, TypeOK, Listed, Walking
<1>1. spent' \in [edits : 0 .. MaxEdits, faults : 0 .. MaxFaults]
  BY <1>0, TookType DEF ThenDispatch, Answers
<1>2. CASE a = "done"
  <2>1. alerts' = [alerts EXCEPT ![i] = b]
        /\ pass' = [pass EXCEPT !.pc = "dispatch", !.at = i, !.notice = n]
    BY <1>2 DEF ThenDispatch
  <2>2. /\ pass' \in Pass /\ pass'.pc = "dispatch" /\ pass'.at = i /\ pass'.notice = n
        /\ pass'.todo = {} /\ pass'.level = pass.level
    BY <1>0, <2>1 DEF Pass
  <2>3. \A m \in 0 .. b.level : b.mail[m] # "none" \/ Owed(i, m)'
    BY <2>2 DEF Owed
  <2>4. DOMAIN alerts' = DOMAIN alerts /\ alerts'[i] = b
    BY <1>0, <2>1, Replaced
  <2>5. LookupFresh' /\ AboutToFire' /\ NoticeRecorded' /\ Listed'
    BY <1>0, <2>2, <2>4 DEF LookupFresh, AboutToFire, NoticeRecorded, Listed, Walking
  <2>6. QED
    BY <1>0, <1>1, <2>1, <2>2, <2>3, <2>5, WriteInv
<1>3. CASE a = "unknown"
  <2> DEFINE c == Missed(b, n)
  <2>1. alerts' = [alerts EXCEPT ![i] = c] /\ pass' = Escalations
    <3>1. /\ alerts' = [[alerts EXCEPT ![i] = b] EXCEPT ![i].mail[n] = "unsent"]
          /\ pass' = Escalations
      BY <1>3 DEF ThenDispatch
    <3>2. [[alerts EXCEPT ![i] = b] EXCEPT ![i].mail[n] = "unsent"] = [alerts EXCEPT ![i] = c]
      BY <1>0 DEF TypeOK, Alert, Missed
    <3>3. QED
      BY <3>1, <3>2
  <2>2. /\ c \in Alert /\ c.mail[n] = "unsent" /\ \A m \in Notice \ {n} : c.mail[m] = b.mail[m]
        /\ c.metric = b.metric /\ c.level = b.level /\ c.fired = b.fired /\ Sound(c)
    BY <1>0, Unsent
  <2> HIDE DEF c
  <2>3. \A m \in 0 .. c.level : c.mail[m] # "none"
    <3>1. \A m \in 0 .. c.level : m \in Notice
      BY <2>2, AlertAssumption DEF Alert, Notice
    <3>2. QED
      BY <2>2, <3>1
  <2>4. pass' \in Pass /\ LookupFresh' /\ AboutToFire' /\ NoticeRecorded' /\ Listed'
    BY <1>0, <2>1, PassesOn
  <2>5. QED
    BY <1>0, <1>1, <2>1, <2>2, <2>3, <2>4, WriteInv
<1>4. QED
  BY <1>2, <1>3

\* A pending alert fires: in the pass that raised it, or in a later one.
LEMMA FiringInv ==
  ASSUME Inv, pass.pc \in {"act", "fire"}, pass.at = Latest, Latest > 0,
         alerts[Latest].state = "pending", NEW a \in {"done", "unknown"},
         ThenDispatch(a, TransitionAlertToFiring(pass.at), pass.at, 0), UNCHANGED <<rule, cond>>
  PROVE  Inv'
<1> DEFINE i == Latest
           b == [alerts[i] EXCEPT !.state = "firing", !.ripe = FALSE, !.fired = TRUE]
<1>0. TypeOK /\ i \in DOMAIN alerts /\ alerts[i] \in Alert /\ Sound(alerts[i])
  BY Rows DEF Inv, SoundRows, Latest
<1>1. /\ b \in Alert /\ b.state = "firing" /\ b.fired = TRUE /\ b.metric = alerts[i].metric
      /\ b.level = alerts[i].level /\ b.mail = alerts[i].mail
      /\ b.late = alerts[i].late /\ b.told = alerts[i].told
  BY <1>0 DEF Alert, States
<1>2. TransitionAlertToFiring(i) = [alerts EXCEPT ![i] = b]
  <2>1. TransitionAlertToFiring(i) = [Set(i, "firing") EXCEPT ![i].fired = TRUE]
    BY DEF TransitionAlertToFiring
  <2>2. QED
    BY <1>0, <2>1 DEF Set, TypeOK, Alert
<1> HIDE DEF i, b
<1>3. Sound(b) /\ b.level = 0
  BY <1>0, <1>1, Rows DEF Sound, i
<1>4. \A m \in 0 .. b.level : m = 0
  BY <1>3
<1>5. QED
  BY <1>0, <1>1, <1>2, <1>3, <1>4, Rows, ThenDispatchInv DEF i

\* The new alert fires at once.
LEMMA FireAtOnceInv ==
  ASSUME Inv, FireAtOnce
  PROVE  Inv'
<1>0. /\ TypeOK /\ pass.pc = "fire" /\ pass.at = Latest /\ Latest > 0 /\ UNCHANGED <<rule, cond>>
      /\ alerts[Latest].state = "pending"
  BY DEF Inv, FireAtOnce, AboutToFire
<1>1. PICK a \in Answers :
         ThenDispatch(a, IF a = "failed" THEN [alerts EXCEPT ![pass.at].mail[0] = "unsent"]
                                         ELSE TransitionAlertToFiring(pass.at), pass.at, 0)
  BY DEF FireAtOnce
<1>2. CASE a # "failed"
  BY <1>0, <1>1, <1>2, FiringInv DEF Answers
<1>3. CASE a = "failed"
  <2> DEFINE i == Latest
             c == Missed(alerts[i], 0)
  <2>0. /\ i \in DOMAIN alerts /\ alerts[i] \in Alert /\ Sound(alerts[i]) /\ ~alerts[i].fired
        /\ 0 \in Notice
    BY <1>0, Rows DEF Inv, SoundRows, Latest, Sound
  <2>1. alerts' = [alerts EXCEPT ![i] = c] /\ pass' = Escalations /\ Took(a)
    BY <1>0, <1>1, <1>3 DEF ThenDispatch, Missed
  <2>2. c \in Alert /\ c.mail[0] = "unsent" /\ c.metric = alerts[i].metric /\ c.fired = alerts[i].fired
        /\ Sound(c)
    BY <1>0, <2>0, Unsent
  <2> HIDE DEF i, c
  <2>3. spent' \in [edits : 0 .. MaxEdits, faults : 0 .. MaxFaults]
    BY <1>0, <2>1, TookType
  <2>4. pass' \in Pass /\ LookupFresh' /\ AboutToFire' /\ NoticeRecorded' /\ Listed'
    BY <1>0, <2>1, PassesOn
  <2>5. QED
    BY <1>0, <2>0, <2>1, <2>2, <2>3, <2>4, WriteInv DEF i
<1>4. QED
  BY <1>2, <1>3

\* A step of the pass that gives up, the rows as they were.
LEMMA GivesUpInv ==
  ASSUME Inv, pass.pc = "act", UNCHANGED <<rule, cond, alerts>>, Trouble \/ UNCHANGED spent,
         pass' = Escalations
  PROVE  Inv'
BY PassesOn, ReadInv DEF Inv

\* A pending alert whose duration is over fires.
LEMMA FirePendingInv ==
  ASSUME Inv, pass.pc = "act", FirePending, UNCHANGED <<rule, cond>>
  PROVE  Inv'
<1>0. /\ pass.at = Latest /\ Latest > 0 /\ alerts[Latest].state = "pending"
  BY Rows DEF Inv, FirePending, LookupFresh, Latest
<1>1. PICK a \in Answers :
         ThenDispatch(a, IF a = "failed" THEN alerts ELSE TransitionAlertToFiring(pass.at), pass.at, 0)
  BY DEF FirePending
<1>2. CASE a # "failed"
  BY <1>0, <1>1, <1>2, FiringInv DEF Answers
<1>3. CASE a = "failed"
  BY <1>1, <1>3, GivesUpInv DEF ThenDispatch, Took
<1>4. QED
  BY <1>2, <1>3

\* The condition is over: the newest row resolves, and its notice follows if it fired.
LEMMA ResolveInv ==
  ASSUME Inv, pass.pc = "act", Resolve, UNCHANGED <<rule, cond>>
  PROVE  Inv'
<1>at. pass.at = Latest /\ Latest > 0
  BY Rows DEF Inv, Latest, LookupFresh, Resolve, alertActive
<1>i. PICK i \in DOMAIN alerts : i = Latest
  BY <1>at, Rows DEF Inv, Latest
<1> DEFINE b == IF alerts[i].state \in AutoResolvable
                THEN [alerts[i] EXCEPT !.state = "resolved", !.ripe = FALSE] ELSE alerts[i]
<1>0. /\ TypeOK /\ i \in DOMAIN alerts /\ alerts[i] \in Alert /\ Sound(alerts[i]) /\ pass.at = i
      /\ pass.was \in {"firing", "acknowledged"} => alerts[i].fired /\ alerts[i].level = pass.level
      /\ pass.was \in {"pending", "firing", "acknowledged"}
  BY <1>at, <1>i, Rows DEF Inv, SoundRows, LookupFresh, Resolve, alertActive
<1>1. /\ b \in Alert /\ b.state = "resolved" /\ b.fired = alerts[i].fired /\ b.metric = alerts[i].metric
      /\ b.level = alerts[i].level /\ b.mail = alerts[i].mail
      /\ b.late = alerts[i].late /\ b.told = alerts[i].told
  BY <1>0 DEF Alert, States, AutoResolvable
<1>2. AutoResolveAlert(i) = [alerts EXCEPT ![i] = b]
  <2>1. CASE alerts[i].state \in AutoResolvable
    <3>1. b = [alerts[i] EXCEPT !.state = "resolved", !.ripe = FALSE]
          /\ AutoResolveAlert(i) = [alerts EXCEPT ![i].state = "resolved", ![i].ripe = FALSE]
      BY <2>1 DEF AutoResolveAlert, Set
    <3>2. QED
      BY <1>0, <3>1 DEF TypeOK, Alert
  <2>2. CASE alerts[i].state \notin AutoResolvable
    <3>1. b = alerts[i] /\ AutoResolveAlert(i) = alerts
      BY <2>2 DEF AutoResolveAlert
    <3>2. QED
      BY <1>0, <3>1 DEF TypeOK
  <2>3. QED
    BY <2>1, <2>2
<1>3. PICK a \in Answers :
         LET rows == IF a = "failed" THEN alerts ELSE AutoResolveAlert(pass.at) IN
         IF resolveNotifies(pass.was)
         THEN ThenDispatch(a, rows, pass.at, Resolution)
         ELSE Took(a) /\ alerts' = rows /\ pass' = Escalations
  BY DEF Resolve
<1> HIDE DEF b
<1>4. Sound(b)
  BY <1>0, <1>1 DEF Sound
<1>5. /\ alerts[i].fired => \A n \in 0 .. alerts[i].level : alerts[i].mail[n] # "none"
      /\ alerts[i].metric \in Windowed => alerts[i].fired \/ alerts[i].mail[0] = "unsent"
  BY <1>0 DEF Inv, EveryStepTold, FiresOrFails, Owed
<1>6. CASE a = "failed"
  BY <1>3, <1>6, GivesUpInv DEF ThenDispatch, Took
<1>7. CASE a # "failed" /\ resolveNotifies(pass.was)
  <2>1. /\ a \in {"done", "unknown"} /\ pass.was \in {"firing", "acknowledged"}
        /\ ThenDispatch(a, [alerts EXCEPT ![i] = b], i, Resolution)
    BY <1>0, <1>2, <1>3, <1>7 DEF Answers, resolveNotifies
  <2>2. QED
    BY <1>0, <1>1, <1>4, <1>5, <2>1, <1>i, ThenDispatchInv
<1>8. CASE a # "failed" /\ ~resolveNotifies(pass.was)
  <2>1. alerts' = [alerts EXCEPT ![i] = b] /\ pass' = Escalations /\ Took(a)
    BY <1>0, <1>2, <1>3, <1>8
  <2>2. spent' \in [edits : 0 .. MaxEdits, faults : 0 .. MaxFaults]
    BY <1>0, <2>1, TookType
  <2>3. pass' \in Pass /\ LookupFresh' /\ AboutToFire' /\ NoticeRecorded' /\ Listed'
    BY <1>0, <2>1, PassesOn
  <2>4. /\ b.fired => \A n \in 0 .. b.level : b.mail[n] # "none" \/ Owed(i, n)'
        /\ b.metric \in Windowed => b.fired \/ b.mail[0] = "unsent"
    BY <1>1, <1>5
  <2>5. QED
    BY <1>0, <1>1, <1>4, <2>1, <2>2, <2>3, <2>4, WriteInv
<1>9. QED
  BY <1>6, <1>7, <1>8

\* A row appended.
LEMMA AppendedInv ==
  ASSUME Inv, pass.pc = "act", Latest < MaxAlerts, Latest = 0 \/ alerts[Latest].state = "resolved",
         UNCHANGED <<rule, cond>>, spent' \in [edits : 0 .. MaxEdits, faults : 0 .. MaxFaults],
         NEW b \in Alert, alerts' = Append(alerts, b), b.state = "pending", Sound(b),
         pass' \in Pass, pass'.todo = {}, pass'.pc \in {"list", "fire"}, pass'.pc = "fire" => pass'.at = Latest + 1,
         b.metric \in Windowed => b.mail[0] = "unsent" \/ pass'.pc = "fire"
  PROVE  Inv'
<1>0. /\ TypeOK /\ Len(alerts) \in Nat /\ DOMAIN alerts = 1 .. Len(alerts) /\ MaxAlerts \in Nat
      /\ \A j \in DOMAIN alerts : alerts[j] \in Alert
  BY Rows DEF Inv
<1>1. /\ alerts' \in Seq(Alert) /\ Latest' = Latest + 1 /\ DOMAIN alerts' = 1 .. Latest + 1
      /\ alerts'[Latest + 1] = b /\ \A j \in DOMAIN alerts : alerts'[j] = alerts[j]
  BY <1>0 DEF TypeOK, Latest
<1>2. TypeOK'
  BY <1>0, <1>1 DEF TypeOK, Latest
<1>3. \A j \in DOMAIN alerts' : j = Latest + 1 \/ j \in DOMAIN alerts
  BY <1>0, <1>1 DEF Latest
<1>4. SoundRows'
  <2>1. \A j \in DOMAIN alerts' : Sound(alerts'[j])
    BY <1>1, <1>3 DEF Inv, SoundRows
  <2>2. QED
    BY <2>1 DEF SoundRows, Sound
<1>5. OnlyLatest'
  BY <1>0, <1>1, <1>3 DEF Inv, OnlyLatest, Latest
<1>6. EveryStepTold'
  <2>1. \A j \in DOMAIN alerts : alerts[j].fired =>
          \A n \in 0 .. alerts[j].level : alerts[j].mail[n] # "none"
    BY DEF Inv, EveryStepTold, Owed
  <2>2. ~b.fired
    BY DEF Sound
  <2>3. QED
    BY <1>1, <1>3, <2>1, <2>2 DEF EveryStepTold
<1>7. FiresOrFails'
  BY <1>1, <1>3 DEF Inv, FiresOrFails
<1>8. LookupFresh' /\ AboutToFire' /\ NoticeRecorded' /\ Listed'
  BY <1>0, <1>1 DEF LookupFresh, AboutToFire, NoticeRecorded, Listed, Walking, Latest
<1>9. QED
  BY <1>2, <1>4, <1>5, <1>6, <1>7, <1>8 DEF Inv

\* A new alert.
LEMMA RaiseInv ==
  ASSUME Inv, pass.pc = "act", Raise, UNCHANGED <<rule, cond>>
  PROVE  Inv'
<1> DEFINE new == [state |-> "pending", metric |-> pass.metric, level |-> 0, ripe |-> FALSE,
                   mail |-> [n \in Notice |-> "none"], fired |-> FALSE, late |-> 0, told |-> 0]
           lost == Missed(new, 0)
<1>0. /\ TypeOK /\ pass \in Pass /\ Latest < MaxAlerts
      /\ Latest = 0 \/ alerts[Latest].state = "resolved"
      /\ 0 \in Notice /\ Resolution \in Notice /\ Resolution # 0
  BY Rows DEF Inv, TypeOK, LookupFresh, Raise, alertActive, Pass, States
<1>1. PICK a \in Answers :
         /\ Took(a)
         /\ alerts' = CASE a = "done"    -> InsertAlertHistory
                        [] a = "unknown" -> [InsertAlertHistory EXCEPT ![Latest + 1].mail[0] = "unsent"]
                        [] a = "failed"  -> alerts
         /\ pass' = IF a = "done" /\ ZeroDuration(pass.metric)
                    THEN [pass EXCEPT !.pc = "fire", !.at = Latest + 1]
                    ELSE Escalations
  BY DEF Raise
<1>2. spent' \in [edits : 0 .. MaxEdits, faults : 0 .. MaxFaults]
  BY <1>0, <1>1, TookType
<1>3. InsertAlertHistory = Append(alerts, new)
  BY DEF InsertAlertHistory
<1>4. /\ new \in Alert /\ new.state = "pending" /\ new.metric = pass.metric /\ new.fired = FALSE
      /\ new.level = 0 /\ new.late = 0 /\ new.told = 0 /\ \A n \in Notice : new.mail[n] = "none"
  BY <1>0, AlertAssumption DEF Alert, States, Fates, Pass
<1>5. /\ lost \in Alert /\ lost.state = "pending" /\ lost.metric = pass.metric /\ lost.fired = FALSE
      /\ lost.level = 0 /\ lost.late = 0 /\ lost.told = 0 /\ lost.mail[0] = "unsent"
      /\ \A n \in Notice \ {0} : lost.mail[n] = "none"
  BY <1>0, <1>4 DEF Missed, Alert, Fates
<1>6. [Append(alerts, new) EXCEPT ![Latest + 1].mail[0] = "unsent"] = Append(alerts, lost)
  <2> HIDE DEF new
  <2>1. /\ alerts \in Seq(Alert) /\ Latest \in Nat /\ Latest = Len(alerts)
    BY <1>0 DEF TypeOK, Latest
  <2> DEFINE s == Append(alerts, new)
             t == Append(alerts, lost)
  <2>2. /\ s \in Seq(Alert) /\ DOMAIN s = 1 .. Latest + 1 /\ s[Latest + 1] = new
        /\ t \in Seq(Alert) /\ DOMAIN t = 1 .. Latest + 1 /\ t[Latest + 1] = lost
        /\ \A j \in 1 .. Latest : s[j] = t[j]
    BY <1>4, <1>5, <2>1
  <2>3. Latest + 1 \in DOMAIN s /\ \A j \in DOMAIN s : j = Latest + 1 \/ j \in 1 .. Latest
    BY <2>1, <2>2
  <2> HIDE DEF s, t
  <2>4. [s EXCEPT ![Latest + 1].mail[0] = "unsent"] = [s EXCEPT ![Latest + 1] = lost]
    BY <2>2, <2>3 DEF Missed, lost
  <2>5. [s EXCEPT ![Latest + 1] = lost] = t
    BY <2>1, <2>2, <2>3
  <2>6. QED
    BY <2>4, <2>5 DEF s, t
<1> HIDE DEF new, lost
<1>7. Sound(new) /\ Sound(lost)
  BY <1>0, <1>4, <1>5 DEF Sound
<1>8. pass.todo = {} /\ Latest + 1 \in Nat
  BY <1>0, Rows DEF Inv, Listed, Walking, Latest
<1>9. CASE a = "done" /\ ZeroDuration(pass.metric)
  <2>1. alerts' = Append(alerts, new) /\ pass' = [pass EXCEPT !.pc = "fire", !.at = Latest + 1]
    BY <1>1, <1>3, <1>9
  <2>2. pass' \in Pass /\ pass'.todo = {} /\ pass'.pc = "fire" /\ pass'.at = Latest + 1
    BY <1>0, <1>8, <2>1 DEF Pass
  <2>3. QED
    BY <1>0, <1>2, <1>4, <1>7, <2>1, <2>2, AppendedInv
<1>10. CASE a = "done" /\ ~ZeroDuration(pass.metric)
  <2>1. alerts' = Append(alerts, new) /\ pass' = Escalations
    BY <1>1, <1>3, <1>10
  <2>2. pass' \in Pass /\ pass'.todo = {} /\ pass'.pc = "list"
    BY <1>0, <2>1, IdleType
  <2>3. new.metric \notin Windowed
    BY <1>4, <1>10 DEF ZeroDuration
  <2>4. QED
    BY <1>0, <1>2, <1>4, <1>7, <2>1, <2>2, <2>3, AppendedInv
<1>11. CASE a = "unknown"
  <2>1. alerts' = Append(alerts, lost) /\ pass' = Escalations
    BY <1>1, <1>3, <1>6, <1>11
  <2>2. pass' \in Pass /\ pass'.todo = {} /\ pass'.pc = "list"
    BY <1>0, <2>1, IdleType
  <2>3. QED
    BY <1>0, <1>2, <1>5, <1>7, <2>1, <2>2, AppendedInv
<1>12. CASE a = "failed"
  BY <1>1, <1>12, GivesUpInv DEF Took
<1>13. QED
  BY <1>9, <1>10, <1>11, <1>12 DEF Answers

\* The pass acts on what it read.
LEMMA handleRuleResultInv ==
  ASSUME Inv, handleRuleResult
  PROVE  Inv'
<1>0. pass.pc = "act" /\ UNCHANGED <<rule, cond>>
  BY DEF handleRuleResult
<1>1. CASE NothingToDo
  <2>1. pass' = Escalations /\ UNCHANGED <<alerts, spent>>
    BY <1>1 DEF NothingToDo
  <2>2. QED
    BY <1>0, <2>1, GivesUpInv
<1>2. QED
  BY <1>0, <1>1, FirePendingInv, RaiseInv, ResolveInv DEF handleRuleResult

\* A notice is on its way.
LEMMA DispatchInv ==
  ASSUME Inv, dispatchToChannel
  PROVE  Inv'
<1>0. /\ TypeOK /\ pass.pc = "dispatch" /\ pass \in Pass /\ UNCHANGED <<rule, cond, spent>>
      /\ Resolution \in Notice /\ Resolution # 0 /\ pass.notice \in Notice
  BY Rows DEF Inv, dispatchToChannel, TypeOK, Pass
<1>1. PICK i \in DOMAIN alerts : i = pass.at
  BY <1>0 DEF Inv, NoticeRecorded
<1>2. PICK n \in Notice : n = pass.notice
  BY <1>0
<1>3. PICK told : told = IF n = Resolution THEN pass.level ELSE alerts[i].told
  OBVIOUS
<1> DEFINE b == [alerts[i] EXCEPT !.mail[n] = "dispatched", !.told = told]
<1>4. /\ alerts[i] \in Alert /\ Sound(alerts[i]) /\ alerts[i].fired /\ told \in 0 .. ChainLen - 1
      /\ n = Resolution => alerts[i].state = "resolved" /\ alerts[i].level = pass.level
  BY <1>0, <1>1, <1>2, <1>3, Rows DEF Inv, SoundRows, NoticeRecorded, Alert, Pass
<1>5. alerts' = [alerts EXCEPT ![i] = b]
  BY <1>0, <1>1, <1>2, <1>3, <1>4 DEF dispatchToChannel, TypeOK, Alert
<1>6. /\ b \in Alert /\ b.mail[n] = "dispatched" /\ \A m \in Notice \ {n} : b.mail[m] = alerts[i].mail[m]
      /\ b.state = alerts[i].state /\ b.metric = alerts[i].metric /\ b.level = alerts[i].level
      /\ b.fired = alerts[i].fired /\ b.late = alerts[i].late /\ b.told = told
  BY <1>4 DEF Alert, Fates
<1> HIDE DEF b
<1>7. Sound(b)
  BY <1>0, <1>3, <1>4, <1>6 DEF Sound
<1>8. \A m \in 0 .. b.level : b.mail[m] # "none"
  <2>1. \A m \in 0 .. alerts[i].level : m \in Notice /\ (m = n \/ alerts[i].mail[m] # "none")
    BY <1>0, <1>1, <1>2, <1>4, AlertAssumption DEF Inv, EveryStepTold, Owed, Alert, Notice
  <2>2. QED
    BY <1>6, <2>1
<1>9. /\ Latest' = Latest /\ DOMAIN alerts' = DOMAIN alerts
      /\ alerts'[i] = b /\ \A j \in DOMAIN alerts \ {i} : alerts'[j] = alerts[j]
  BY <1>0, <1>5, <1>6, Replaced
<1>10. pass' \in Pass /\ LookupFresh' /\ AboutToFire' /\ NoticeRecorded' /\ Listed'
  <2>1. CASE n \in {0, Resolution}
    <3>1. pass' = Escalations
      BY <1>2, <2>1 DEF dispatchToChannel
    <3>2. QED
      BY <1>0, <3>1, PassesOn
  <2>2. CASE n \notin {0, Resolution}
    <3>1. pass' = [Idle EXCEPT !.pc = "reread", !.todo = pass.todo]
      BY <1>2, <2>2 DEF dispatchToChannel
    <3>2. pass' \in Pass /\ pass'.pc = "reread" /\ pass'.todo = pass.todo
      BY <1>0, <3>1, IdleType DEF Pass
    <3>3. Walking /\ i \notin pass.todo /\ pass.todo \subseteq DOMAIN alerts
          /\ \A j \in pass.todo : Climbs(alerts[j])
      BY <1>0, <1>1, <1>2, <2>2 DEF Inv, Listed, Walking
    <3>4. \A j \in pass.todo : Climbs(alerts'[j])
      BY <1>9, <3>3
    <3>5. Listed'
      BY <1>9, <3>2, <3>3, <3>4 DEF Listed, Walking, Climbs
    <3>6. QED
      BY <3>2, <3>5 DEF LookupFresh, AboutToFire, NoticeRecorded
  <2>3. QED
    BY <2>1, <2>2
<1>11. i = Latest \/ b.state = "resolved"
  BY <1>6 DEF Inv, OnlyLatest
<1>12. b.fired /\ spent' \in [edits : 0 .. MaxEdits, faults : 0 .. MaxFaults]
  BY <1>0, <1>4, <1>6, TroubleType
<1>13. QED
  BY <1>0, <1>1, <1>5, <1>6, <1>7, <1>8, <1>10, <1>11, <1>12, WriteInv

\* An alert climbs a step.
LEMMA EscalateInv ==
  ASSUME Inv, Escalate
  PROVE  Inv'
<1>0. TypeOK /\ pass.pc = "escalate" /\ pass \in Pass /\ UNCHANGED <<rule, cond>>
  BY DEF Inv, Escalate, TypeOK
<1>1. PICK i \in DOMAIN alerts : i = pass.at
  BY <1>0 DEF Inv, Listed
<1>2. /\ alerts[i] \in Alert /\ Sound(alerts[i]) /\ Climbs(alerts[i]) /\ alerts[i].level + 1 < ChainLen
      /\ i \notin pass.todo /\ pass.todo \subseteq DOMAIN alerts
      /\ \A j \in pass.todo : Climbs(alerts[j])
  BY <1>0, <1>1, Rows DEF Inv, SoundRows, Listed, Walking
<1>3. PICK n \in Notice : /\ n = alerts[i].level + 1 /\ n \in 0 .. ChainLen - 1
                          /\ n \notin {0, Resolution}
  BY <1>2, AlertAssumption DEF Alert, Notice, Resolution
<1>4. PICK late \in Nat : late = IF alerts[i].state = "firing" THEN alerts[i].late ELSE alerts[i].late + 1
  BY <1>2 DEF Alert
<1>b. PICK b : b = [alerts[i] EXCEPT !.level = n, !.ripe = FALSE, !.late = late]
  OBVIOUS
<1>5. UpdateAlertEscalation(i, n) = [alerts EXCEPT ![i] = b]
  BY <1>0, <1>2, <1>4, <1>b DEF UpdateAlertEscalation, TypeOK, Alert
<1>6. /\ b \in Alert /\ b.mail = alerts[i].mail /\ b.state = alerts[i].state /\ b.level = n
      /\ b.metric = alerts[i].metric /\ b.fired = alerts[i].fired /\ b.late = late
      /\ b.told = alerts[i].told
  BY <1>2, <1>3, <1>4, <1>b DEF Alert
<1>7. Sound(b) /\ b.fired
  BY <1>2, <1>4, <1>6 DEF Sound, Climbs, Alert, States
<1>8. \A m \in 0 .. n : m \in Notice /\ (m = n \/ b.mail[m] # "none")
  <2>1. \A m \in 0 .. alerts[i].level : alerts[i].mail[m] # "none"
    BY <1>0, <1>2 DEF Inv, EveryStepTold, Owed, Climbs
  <2>2. \A m \in 0 .. n : m = n \/ m \in 0 .. alerts[i].level
    BY <1>2, <1>3 DEF Alert
  <2>3. \A m \in 0 .. n : m \in Notice
    BY <1>3, AlertAssumption DEF Notice
  <2>4. QED
    BY <1>6, <2>1, <2>2, <2>3
<1>9. i = Latest \/ b.state = "resolved"
  BY <1>6 DEF Inv, OnlyLatest
<1>10. PICK a \in Answers :
         /\ Took(a)
         /\ alerts' = CASE a = "done"    -> UpdateAlertEscalation(i, n)
                        [] a = "unknown" -> [UpdateAlertEscalation(i, n) EXCEPT ![i].mail[n] = "unsent"]
                        [] a = "failed"  -> alerts
         /\ pass' = IF a = "done" THEN [pass EXCEPT !.pc = "dispatch", !.notice = n]
                                  ELSE [pass EXCEPT !.pc = "reread", !.at = 0]
  BY <1>1, <1>3 DEF Escalate
<1>11. spent' \in [edits : 0 .. MaxEdits, faults : 0 .. MaxFaults]
  BY <1>0, <1>10, TookType
<1>12. CASE a = "done"
  <2>1. alerts' = [alerts EXCEPT ![i] = b] /\ pass' = [pass EXCEPT !.pc = "dispatch", !.notice = n]
    BY <1>5, <1>10, <1>12
  <2>2. /\ pass' \in Pass /\ pass'.pc = "dispatch" /\ pass'.at = i /\ pass'.notice = n
        /\ pass'.todo = pass.todo
    BY <1>0, <1>1, <2>1 DEF Pass
  <2>3. /\ DOMAIN alerts' = DOMAIN alerts /\ alerts'[i] = b
        /\ \A j \in DOMAIN alerts \ {i} : alerts'[j] = alerts[j]
    BY <1>0, <1>6, <2>1, Replaced
  <2>4. \A j \in pass.todo : Climbs(alerts'[j])
    BY <1>2, <2>3
  <2>5. LookupFresh' /\ AboutToFire' /\ NoticeRecorded'
    BY <1>3, <1>7, <2>2, <2>3 DEF LookupFresh, AboutToFire, NoticeRecorded
  <2>6. Listed'
    BY <1>2, <1>3, <2>2, <2>3, <2>4 DEF Listed, Walking, Climbs
  <2>7. \A m \in 0 .. b.level : b.mail[m] # "none" \/ Owed(i, m)'
    BY <1>6, <1>8, <2>2 DEF Owed
  <2>8. QED
    BY <1>0, <1>6, <1>7, <1>9, <1>11, <2>1, <2>2, <2>5, <2>6, <2>7, WriteInv
<1>13. CASE a \in {"unknown", "failed"}
  <2>1. pass' = [pass EXCEPT !.pc = "reread", !.at = 0]
    BY <1>10, <1>13
  <2>2. pass' \in Pass /\ pass'.pc = "reread" /\ pass'.todo = pass.todo
    BY <1>0, <2>1 DEF Pass
  <2>3. LookupFresh' /\ AboutToFire' /\ NoticeRecorded'
    BY <2>2 DEF LookupFresh, AboutToFire, NoticeRecorded
  <2>4. CASE a = "unknown"
    <3> DEFINE c == Missed(b, n)
    <3>1. alerts' = [[alerts EXCEPT ![i] = b] EXCEPT ![i].mail[n] = "unsent"]
      BY <1>5, <1>10, <2>4
    <3>2. alerts' = [alerts EXCEPT ![i] = c]
      <4>1. [[alerts EXCEPT ![i] = b] EXCEPT ![i].mail[n] = "unsent"] = [alerts EXCEPT ![i] = c]
        BY <1>0, <1>6 DEF TypeOK, Alert, Missed
      <4>2. QED
        BY <3>1, <4>1
    <3>3. /\ c \in Alert /\ c.mail[n] = "unsent" /\ \A m \in Notice \ {n} : c.mail[m] = b.mail[m]
          /\ c.metric = b.metric /\ c.level = b.level /\ c.fired = b.fired /\ Sound(c)
          /\ c.state = b.state
      <4>1. b \in Alert /\ Sound(b)
        BY <1>6, <1>7
      <4>2. QED
        BY <1>0, <4>1, Unsent
    <3> HIDE DEF c
    <3>4. \A m \in 0 .. c.level : c.mail[m] # "none"
      BY <1>6, <1>8, <3>3
    <3>5. /\ DOMAIN alerts' = DOMAIN alerts
          /\ \A j \in DOMAIN alerts \ {i} : alerts'[j] = alerts[j]
      BY <1>0, <3>2, <3>3, Replaced
    <3>6. \A j \in pass.todo : Climbs(alerts'[j])
      BY <1>2, <3>5
    <3>7. Listed'
      BY <1>2, <2>2, <3>5, <3>6 DEF Listed, Walking, Climbs
    <3>8. QED
      BY <1>0, <1>6, <1>7, <1>9, <1>11, <2>2, <2>3, <3>2, <3>3, <3>4, <3>7, WriteInv
  <2>5. CASE a = "failed"
    <3>1. alerts' = alerts /\ Trouble
      BY <1>10, <2>5 DEF Took
    <3>2. Listed'
      BY <1>2, <2>2, <3>1 DEF Listed, Walking, Climbs
    <3>3. QED
      BY <1>0, <2>2, <2>3, <3>1, <3>2, ReadInv
  <2>6. QED
    BY <1>13, <2>4, <2>5
<1>14. QED
  BY <1>12, <1>13 DEF Answers

\* The process stops, and what its pass owed stays unsent.
LEMMA StopInv ==
  ASSUME Inv, Stop
  PROVE  Inv'
<1>0. TypeOK /\ pass' = Idle /\ Trouble /\ UNCHANGED <<rule, cond>> /\ Resolution \in Notice /\ 0 \in Notice
  BY Rows DEF Inv, Stop
<1> DEFINE c(i) == [alerts[i] EXCEPT !.mail = [n \in Notice |-> IF Owed(i, n) THEN "unsent" ELSE @[n]]]
<1>1. alerts' = [i \in DOMAIN alerts |-> c(i)]
  BY DEF Stop
<1>2. ASSUME NEW i \in DOMAIN alerts
      PROVE  /\ c(i) \in Alert /\ c(i).state = alerts[i].state /\ c(i).metric = alerts[i].metric
             /\ c(i).level = alerts[i].level /\ c(i).fired = alerts[i].fired
             /\ c(i).late = alerts[i].late /\ c(i).told = alerts[i].told
             /\ \A n \in Notice : c(i).mail[n] = IF Owed(i, n) THEN "unsent" ELSE alerts[i].mail[n]
  <2>1. alerts[i] \in Alert
    BY <1>0, Rows
  <2>2. PICK mail : mail = [n \in Notice |-> IF Owed(i, n) THEN "unsent" ELSE alerts[i].mail[n]]
    OBVIOUS
  <2>3. mail \in [Notice -> Fates]
    BY <2>1, <2>2 DEF Alert, Fates
  <2>4. c(i) = [alerts[i] EXCEPT !.mail = mail]
    BY <2>2
  <2> HIDE DEF c
  <2>5. /\ c(i) \in Alert /\ c(i).state = alerts[i].state /\ c(i).metric = alerts[i].metric
        /\ c(i).level = alerts[i].level /\ c(i).fired = alerts[i].fired
        /\ c(i).late = alerts[i].late /\ c(i).told = alerts[i].told /\ c(i).mail = mail
    BY <2>1, <2>3, <2>4 DEF Alert
  <2>6. QED
    BY <2>2, <2>5
<1> HIDE DEF c
<1>3. /\ alerts' \in Seq(Alert) /\ Latest' = Latest /\ DOMAIN alerts' = DOMAIN alerts
      /\ \A i \in DOMAIN alerts : alerts'[i] = c(i)
  BY <1>0, <1>1, <1>2, Rows DEF Latest
<1>4. TypeOK'
  BY <1>0, <1>3, IdleType, TroubleType DEF TypeOK, Latest
<1>5. SoundRows'
  <2>1. \A i \in DOMAIN alerts : Sound(c(i))
    BY <1>0, <1>2 DEF Inv, SoundRows, Sound
  <2>2. \A i \in DOMAIN alerts : Sound(alerts'[i])
    BY <1>3, <2>1
  <2>3. QED
    BY <1>3, <2>2 DEF SoundRows, Sound
<1>6. OnlyLatest'
  BY <1>2, <1>3 DEF Inv, OnlyLatest
<1>7. EveryStepTold'
  <2>1. \A i \in DOMAIN alerts : \A n \in 0 .. alerts[i].level : n \in Notice
    BY <1>0, Rows, AlertAssumption DEF Alert, Notice
  <2>2. \A i \in DOMAIN alerts : c(i).fired => \A n \in 0 .. c(i).level : c(i).mail[n] # "none"
    BY <1>2, <2>1 DEF Inv, EveryStepTold
  <2>3. QED
    BY <1>3, <2>2 DEF EveryStepTold
<1>8. FiresOrFails'
  <2>1. \A i \in DOMAIN alerts : c(i).metric \in Windowed => c(i).fired \/ c(i).mail[0] = "unsent"
    BY <1>0, <1>2 DEF Inv, FiresOrFails, Owed
  <2>2. QED
    BY <1>3, <2>1 DEF FiresOrFails
<1>9. LookupFresh' /\ AboutToFire' /\ NoticeRecorded' /\ Listed'
  BY <1>0, PassesOn
<1>10. QED
  BY <1>4, <1>5, <1>6, <1>7, <1>8, <1>9 DEF Inv

\* Every step keeps the invariant.
LEMMA NextInv == Inv /\ [Next]_vars => Inv'
<1> SUFFICES ASSUME Inv, [Next]_vars PROVE Inv'
  OBVIOUS
<1>1. CASE UNCHANGED vars
  <2>1. TypeOK'
    BY <1>1 DEF Inv, TypeOK, vars
  <2>2. QED
    BY <1>1, <2>1, AsideInv DEF vars
<1>2. QED
  BY <1>1, EvaluateInv, evaluateRuleInv, handleRuleResultInv, FireAtOnceInv, DispatchInv, ListInv,
     RereadInv, EscalateInv, WorldInv, StopInv, AcknowledgeInv, ResolveAlertInv, TimeInv
     DEF Next

\* The invariant holds throughout.
LEMMA Invariance == Spec => []Inv
BY InitInv, NextInv, PTL DEF Spec

-----------------------------------------------------------------------------
(* Theorems.                                                               *)

\* The rows and the pass keep their types, whatever the metrics, the chain and the
\* bounds.
THEOREM TypeCorrect == Spec => []TypeOK
<1>1. Inv => TypeOK
  BY DEF Inv
<1>2. QED
  BY <1>1, Invariance, PTL

\* A rule has at most one alert standing for a resource: handleRuleResult raises
\* one only when the newest row it read was resolved, and nobody revives a row.
THEOREM OneActive == Spec => []OneActiveAlert
<1>1. Inv => OneActiveAlert
  <2> SUFFICES ASSUME Inv PROVE OneActiveAlert
    OBVIOUS
  <2> DEFINE S == {i \in DOMAIN alerts : alerts[i].state # "resolved"}
  <2>1. S \in SUBSET {Latest}
    BY DEF Inv, OnlyLatest
  <2>2. IsFiniteSet({Latest}) /\ Cardinality({Latest}) = 1
    BY FS_Singleton
  <2>3. IsFiniteSet(S) /\ Cardinality(S) <= Cardinality({Latest})
    BY <2>1, <2>2, FS_Subset
  <2>4. QED
    BY <2>2, <2>3 DEF OneActiveAlert
<1>2. QED
  BY <1>1, Invariance, PTL

\* Each step an alert has reached was dispatched, is about to be, or was taken by
\* a fault: a dispatch follows its statement in the same pass.
THEOREM StepsTold == Spec => []EveryStepTold
<1>1. Inv => EveryStepTold
  BY DEF Inv
<1>2. QED
  BY <1>1, Invariance, PTL

\* A resolution is told only of an alert that fired, and to the step it had
\* reached: nobody climbs between the lookup and the dispatch, or after it.
THEOREM ResolutionTold == Spec => []ResolutionFollowsFiring
<1>1. Inv => ResolutionFollowsFiring
  BY DEF Inv, SoundRows, Sound, ResolutionFollowsFiring
<1>2. QED
  BY <1>1, Invariance, PTL

\* checkEscalations moves an acknowledged alert on at most once, with the list it
\* had taken before.
THEOREM LateStepLast == Spec => []LateStepIsLast
<1>1. Inv => LateStepIsLast
  BY DEF Inv, SoundRows, Sound, LateStepIsLast
<1>2. QED
  BY <1>1, Invariance, PTL

\* A windowed alert never resolves without having fired, unless a fault came
\* between its insert and its firing.
THEOREM WindowedFires == Spec => []WindowedAlertFires
<1>1. Inv => WindowedAlertFires
  BY DEF Inv, FiresOrFails, AboutToFire, WindowedAlertFires
<1>2. QED
  BY <1>1, Invariance, PTL
=============================================================================

------------------------- MODULE RollingUpdateProof -------------------------
(***************************************************************************)
(* RollingUpdate for any number of nodes, guests, rules, ticks side by     *)
(* side, faults and crashes: its types, the life cycle of a job's row, the *)
(* HA rules of a job that is not over, and the reboots of a job that       *)
(* updates its nodes in place.                                             *)
(*                                                                         *)
(* TypeOK is not inductive alone: a step that puts guests back on "its"    *)
(* node is well typed only if a node was chosen, and one that starts held  *)
(* guests only if some are held.  Working says where a thread knows these  *)
(* things, IInv is both.                                                   *)
(***************************************************************************)
EXTENDS RollingUpdate, WellFoundedInduction, TLAPS

(* The node an order by node_order picks is one of those asked for.         *)
LEMMA FirstIsMember ==
    ASSUME NEW S \in SUBSET Node, S # {}
    PROVE  First(S) \in S
<1>1. S \subseteq Nat
    BY NodeAssumption
<1>2. PICK x \in S : \A y \in S : <<y, x>> \notin OpToRel(<, Nat)
    BY <1>1, NatLessThanWellFounded, WFMin, Zenon
<1>3. \A y \in S : ~(y < x)
    BY <1>1, <1>2, Zenon DEF OpToRel
<1>4. \A y \in S : x <= y
    BY <1>1, <1>3
<1> QED
    BY <1>4 DEF First

(* A row that is moved or touched is a row.                                 *)
LEMMA MovedIsRow ==
    ASSUME NEW r \in NodeRow, NEW s \in Steps
    PROVE  Moved(r, s) \in NodeRow /\ Touched(r) \in NodeRow
BY DEF Moved, Touched, NodeRow

(* So is one whose guests, reboot marker or clock marks are written, ...    *)
LEMMA RowUpdates ==
    ASSUME NEW r \in NodeRow, NEW S \in SUBSET Guest
    PROVE  /\ [Touched(r) EXCEPT !.guests = S] \in NodeRow
           /\ [Moved(r, "health_check") EXCEPT !.owed = TRUE] \in NodeRow
           /\ [r EXCEPT !.stale = TRUE] \in NodeRow
           /\ [r EXCEPT !.late = TRUE] \in NodeRow
<1>1. "health_check" \in Steps
    BY DEF Steps, ActiveSteps, Advancing
<1> QED
    BY <1>1 DEF Touched, Moved, NodeRow

(* ... or its record of the guests that were shut down.                     *)
LEMMA RecordUpdates ==
    ASSUME NEW r \in NodeRow, NEW S \in SUBSET Passthrough
    PROVE  [Touched(r) EXCEPT !.stopped = S] \in NodeRow
BY DEF Touched, NodeRow

(* A job that ends still has a well-formed row.                             *)
LEMMA EndedIsRow ==
    ASSUME job \in JobRow, NEW s \in Outcomes
    PROVE  Ended(s) \in JobRow
BY DEF Ended, JobRow

(* The groups of steps are made of steps.                                   *)
LEMMA StepsMembers ==
    /\ Advancing \subseteq Steps /\ ActiveSteps \subseteq Steps /\ FinalSteps \subseteq Steps
    /\ "failed" \in Steps
BY DEF Steps, Advancing, ActiveSteps, FinalSteps

(* What else the type invariant needs to be inductive: where a local names  *)
(* the node to work on, and where a release has guests left to start.       *)
Working ==
    /\ \A e \in Engine : pc[e] \in {"restart", "restore"} => eng[e].n \in Node
    /\ \A t \in Thread : pc[t] \in {"relGuests", "relGuestsMark"} => HoldsGuests(rel[t])

IInv == TypeOK /\ Working

(* failNode keeps the types, whichever thread calls it, and leaves the thread *)
(* at a point Working says nothing of.                                      *)
LEMMA FailNodeInTyped ==
    ASSUME IInv, NEW rows \in [Node -> NodeRow], NEW t \in Thread, NEW n,
           NEW back \in Backs, FailNodeIn(rows, t, n, back)
    PROVE  /\ node' \in [Node -> NodeRow]
           /\ pc' \in [Thread -> Points]
           /\ rel' \in [Thread -> ReleaseLocals]
           /\ \E p \in Points \ {"restart", "restore", "relGuests", "relGuestsMark"} :
                 pc' = [pc EXCEPT ![t] = p]
           /\ \A u \in Thread \ {t} : rel'[u] = rel[u]
<1>1. Backs \subseteq Points \ {"restart", "restore", "relGuests", "relGuestsMark"}
      /\ "failJob" \in Points
    BY DEF Backs, Points
<1>2. n \in Node => Moved(rows[n], "failed") \in NodeRow
    BY MovedIsRow, StepsMembers
<1>3. [rel EXCEPT ![t].back = back] \in [Thread -> ReleaseLocals]
    BY DEF IInv, TypeOK, ReleaseLocals
<1>4. node' \in [Node -> NodeRow]
    BY <1>2 DEF FailNodeIn
<1>5. rel' \in [Thread -> ReleaseLocals] /\ \A u \in Thread \ {t} : rel'[u] = rel[u]
    BY <1>3 DEF FailNodeIn, IInv, TypeOK
<1>6. pc' = [pc EXCEPT ![t] = back] \/ pc' = [pc EXCEPT ![t] = "failJob"]
    BY DEF FailNodeIn, Goto
<1>7. \E p \in Points \ {"restart", "restore", "relGuests", "relGuestsMark"} :
         pc' = [pc EXCEPT ![t] = p]
    BY <1>1, <1>6
<1>8. pc' \in [Thread -> Points]
  <2>1. pc \in [Thread -> Points]
    BY DEF IInv, TypeOK
  <2> QED
    BY <1>7, <2>1
<1> QED
    BY <1>4, <1>5, <1>7, <1>8

(* A thread that moves to a point Working says nothing of keeps it.         *)
LEMMA WorkingKept ==
    ASSUME IInv, NEW t \in Thread,
           \E p \in Points \ {"restart", "restore", "relGuests", "relGuestsMark"} :
                pc' = [pc EXCEPT ![t] = p],
           \A u \in Thread \ {t} : rel'[u] = rel[u],
           \A e \in Engine \ {t} : eng'[e] = eng[e]
    PROVE  Working'
BY DEF IInv, TypeOK, Working, HoldsGuests, Thread

(* Wherever the release goes next is a control point.                       *)
LEMMA AfterIsPoint ==
    ASSUME NEW r
    PROVE  {AfterRules(r), AfterCRS(r), AfterClient(r), AfterDRS(r), AfterRead(r)} \subseteq Points
BY DEF AfterRules, AfterCRS, AfterClient, AfterDRS, AfterRead, Points

(* Every assignment a release makes to one of its locals keeps their type.  *)
LEMMA ReleaseLocalsTyped ==
    ASSUME TypeOK, NEW t \in Thread
    PROVE  /\ \A b \in BOOLEAN : [rel EXCEPT ![t].ok = b] \in [Thread -> ReleaseLocals]
           /\ \A S \in SUBSET Rule : [rel EXCEPT ![t].rules = S] \in [Thread -> ReleaseLocals]
           /\ \A f \in [Node -> SUBSET Passthrough] :
                 [rel EXCEPT ![t].stopped = f] \in [Thread -> ReleaseLocals]
           /\ [rel EXCEPT ![t] = NoRelease] \in [Thread -> ReleaseLocals]
           /\ \A b \in Backs : [rel EXCEPT ![t].back = b] \in [Thread -> ReleaseLocals]
           /\ [rel EXCEPT ![t].ok = FALSE] \in [Thread -> ReleaseLocals]
           /\ rel[t] \in ReleaseLocals
<1> USE DEF TypeOK
<1>1. rel \in [Thread -> ReleaseLocals] /\ rel[t] \in ReleaseLocals
    OBVIOUS
<1>2. ASSUME NEW b \in BOOLEAN
      PROVE  [rel EXCEPT ![t].ok = b] \in [Thread -> ReleaseLocals]
    BY <1>1 DEF ReleaseLocals
<1>3. ASSUME NEW S \in SUBSET Rule
      PROVE  [rel EXCEPT ![t].rules = S] \in [Thread -> ReleaseLocals]
    BY <1>1 DEF ReleaseLocals
<1>4. ASSUME NEW f \in [Node -> SUBSET Passthrough]
      PROVE  [rel EXCEPT ![t].stopped = f] \in [Thread -> ReleaseLocals]
    BY <1>1 DEF ReleaseLocals
<1>5. NoRelease \in ReleaseLocals
    BY DEF NoRelease, ReleaseLocals, Backs
<1>6. ASSUME NEW b \in Backs
      PROVE  [rel EXCEPT ![t].back = b] \in [Thread -> ReleaseLocals]
    BY <1>1 DEF ReleaseLocals
<1>7. [rel EXCEPT ![t].ok = FALSE] \in [Thread -> ReleaseLocals]
    BY <1>1 DEF ReleaseLocals
<1> QED
    BY <1>1, <1>2, <1>3, <1>4, <1>5, <1>6, <1>7

(* So does an assignment to several of them.                                *)
LEMMA ReleaseRecordTyped ==
    ASSUME NEW r \in ReleaseLocals, NEW S \in [Node -> SUBSET Passthrough],
           NEW ok \in BOOLEAN, NEW keep \in SUBSET Passthrough
    PROVE  /\ [r EXCEPT !.stopped = S] \in ReleaseLocals
           /\ [r EXCEPT !.ok = FALSE, !.stopped = S] \in ReleaseLocals
           /\ [r EXCEPT !.keep = keep, !.ok = ok, !.stopped = S] \in ReleaseLocals
BY DEF ReleaseLocals

(* Where the release starts guests, there is a node whose guests it holds.  *)
LEMMA HeldNodeIsNode ==
    ASSUME IInv, NEW t \in Thread, pc[t] \in {"relGuests", "relGuestsMark"}
    PROVE  HeldNode(t) \in Node
<1>1. {n \in Node : rel[t].stopped[n] # {}} # {}
    BY DEF IInv, Working, HoldsGuests
<1> QED
    BY <1>1, FirstIsMember DEF HeldNode

(* failJob and releaseJobState keep the types.                              *)
LEMMA ReleaseTyped ==
    ASSUME IInv, NEW t \in Thread, Release(t)
    PROVE  TypeOK'
<1> USE DEF IInv, TypeOK, clusterVars, Goto, Fault, NoFault
<1>0. /\ rel[t].back \in Points
      /\ rel[t].rules \in SUBSET Rule
      /\ rel[t].ok \in BOOLEAN
      /\ rel[t].keep \in SUBSET Passthrough
      /\ rel[t].stopped \in [Node -> SUBSET Passthrough]
    BY DEF ReleaseLocals, Backs, Points
<1>1. CASE FailJob(t)
    BY <1>1, EndedIsRow DEF FailJob, Points, Outcomes
<1>2. CASE ReleaseRead(t)
    BY <1>2 DEF ReleaseRead, Points, ReleaseLocals, JobRow
<1>3. CASE ReleaseNodes(t)
  <2>1. [n \in Node |-> node[n].stopped] \in [Node -> SUBSET Passthrough]
    BY DEF NodeRow
  <2>2. rel' \in [Thread -> ReleaseLocals]
    BY <1>3, <2>1, ReleaseLocalsTyped DEF ReleaseNodes
  <2> QED
    BY <1>3, <2>2, AfterIsPoint DEF ReleaseNodes
<1>4. CASE ReleaseDRS(t)
    BY <1>4 DEF ReleaseDRS, Points
<1>5. CASE ReleaseDRSMark(t)
    BY <1>5, AfterIsPoint DEF ReleaseDRSMark, JobRow
<1>6. CASE ReleaseClient(t)
  <2>1. rel' \in [Thread -> ReleaseLocals]
    BY <1>6, ReleaseLocalsTyped DEF ReleaseClient
  <2>2. pc' \in [Thread -> Points]
    BY <1>0, <1>6, AfterIsPoint DEF ReleaseClient
  <2> QED
    BY <1>6, <2>1, <2>2 DEF ReleaseClient
<1>7. CASE ReleaseCRS(t)
  <2>1. rel' \in [Thread -> ReleaseLocals]
    BY <1>7, ReleaseLocalsTyped DEF ReleaseCRS
  <2>2. pc' \in [Thread -> Points]
    BY <1>7, AfterIsPoint DEF ReleaseCRS, Points
  <2>3. crsOn' \in BOOLEAN
    BY <1>7, Zenon DEF ReleaseCRS
  <2>4. spent' \in [fault : Nat, crash : Nat, move : Nat, cancel : Nat, request : Nat]
    BY <1>7 DEF ReleaseCRS
  <2> QED
    BY <1>7, <2>1, <2>2, <2>3, <2>4 DEF ReleaseCRS
<1>8. CASE ReleaseCRSMark(t)
    BY <1>8, AfterIsPoint DEF ReleaseCRSMark, JobRow
<1>9. CASE ReleaseRules(t)
  <2>1. PICK refused \in SUBSET rel[t].rules :
            /\ IF refused = {} THEN NoFault ELSE Fault
            /\ rulesOff' = rulesOff \ (rel[t].rules \ refused)
            /\ rel' = [rel EXCEPT ![t].rules = refused]
    BY <1>9, Zenon DEF ReleaseRules
  <2>2. rel' \in [Thread -> ReleaseLocals]
    BY <1>0, <2>1, ReleaseLocalsTyped
  <2>3. spent' \in [fault : Nat, crash : Nat, move : Nat, cancel : Nat, request : Nat]
    BY <2>1
  <2> QED
    BY <1>9, <2>1, <2>2, <2>3 DEF ReleaseRules, Points
<1>10. CASE ReleaseRulesMark(t)
  <2>1. rel' \in [Thread -> ReleaseLocals]
    BY <1>0, <1>10, ReleaseLocalsTyped DEF ReleaseRulesMark
  <2>2. job' \in JobRow
    BY <1>0, <1>10 DEF ReleaseRulesMark, JobRow
  <2> QED
    BY <1>10, <2>1, <2>2, AfterIsPoint DEF ReleaseRulesMark
<1>11. CASE ReleaseGuests(t)
  <2> DEFINE n    == HeldNode(t)
             list == rel[t].stopped[n]
             keep == IF rel[t].prune THEN list \ up ELSE list
  <2>1. n \in Node
    BY <1>11, HeldNodeIsNode DEF ReleaseGuests
  <2>2. list \in SUBSET Passthrough /\ keep \in SUBSET Passthrough
    BY <1>0, <2>1
  <2>3. up' \in SUBSET Guest
    BY <1>11, <2>2, GuestAssumption DEF ReleaseGuests
  <2>4. rel' \in [Thread -> ReleaseLocals]
    <3> DEFINE S == [rel[t].stopped EXCEPT ![n] = IF keep = list THEN {} ELSE @]
               ok == rel[t].ok /\ keep = {}
    <3>1. S \in [Node -> SUBSET Passthrough] /\ ok \in BOOLEAN
      BY <1>0, <2>1
    <3>2. rel' = [rel EXCEPT ![t] = [rel[t] EXCEPT !.keep = keep, !.ok = ok, !.stopped = S]]
      BY <1>11 DEF ReleaseGuests
    <3> HIDE DEF S, ok, keep, n
    <3>3. [rel[t] EXCEPT !.keep = keep, !.ok = ok, !.stopped = S] \in ReleaseLocals
      BY <2>2, <3>1, ReleaseRecordTyped
    <3> QED
      BY <3>2, <3>3
  <2>5. pc' \in [Thread -> Points]
    BY <1>11, AfterIsPoint DEF ReleaseGuests, Points
  <2>6. spent' \in [fault : Nat, crash : Nat, move : Nat, cancel : Nat, request : Nat]
    BY <1>11 DEF ReleaseGuests
  <2> QED
    BY <1>11, <2>3, <2>4, <2>5, <2>6 DEF ReleaseGuests
<1>12. CASE ReleaseGuestsUnseen(t)
  <2> DEFINE n == HeldNode(t)
             S == [rel[t].stopped EXCEPT ![n] = {}]
  <2>1. S \in [Node -> SUBSET Passthrough]
    BY <1>0
  <2>2. rel' = [rel EXCEPT ![t] = [rel[t] EXCEPT !.ok = FALSE, !.stopped = S]]
    BY <1>12, ZenonT(60) DEF ReleaseGuestsUnseen
  <2> HIDE DEF S, n
  <2>3. rel' \in [Thread -> ReleaseLocals]
    BY <2>1, <2>2, ReleaseRecordTyped
  <2>4. pc' \in [Thread -> Points]
    BY <1>12, AfterIsPoint DEF ReleaseGuestsUnseen
  <2> QED
    BY <1>12, <2>3, <2>4 DEF ReleaseGuestsUnseen
<1>14. CASE ReleaseGuestsMark(t)
  <2> DEFINE n == HeldNode(t)
             S == [rel[t].stopped EXCEPT ![n] = {}]
  <2>1. S \in [Node -> SUBSET Passthrough]
    BY <1>0
  <2>2. rel' = [rel EXCEPT ![t] = [rel[t] EXCEPT !.stopped = S]]
    BY <1>14, ZenonT(60) DEF ReleaseGuestsMark
  <2>3. node' \in [Node -> NodeRow]
    BY <1>0, <1>14, RecordUpdates DEF ReleaseGuestsMark
  <2> HIDE DEF S, n
  <2>4. rel' \in [Thread -> ReleaseLocals]
    BY <2>1, <2>2, ReleaseRecordTyped
  <2>5. pc' \in [Thread -> Points]
    BY <1>14, AfterIsPoint DEF ReleaseGuestsMark
  <2> QED
    BY <1>14, <2>3, <2>4, <2>5 DEF ReleaseGuestsMark
<1>13. CASE ReleaseClear(t)
  <2>1. job' \in JobRow
    <3>1. job \in JobRow /\ (job' = job \/ job' = [job EXCEPT !.cleanup = FALSE, !.due = FALSE])
      BY <1>13 DEF ReleaseClear
    <3> QED
      BY <3>1 DEF JobRow
  <2>2. rel' \in [Thread -> ReleaseLocals]
    <3>1. NoRelease \in ReleaseLocals
      BY DEF NoRelease, ReleaseLocals, Backs
    <3> QED
      BY <1>13, <3>1 DEF ReleaseClear
  <2>3. pc' \in [Thread -> Points]
    BY <1>0, <1>13 DEF ReleaseClear
  <2> QED
    BY <1>13, <2>1, <2>2, <2>3 DEF ReleaseClear
<1> QED
    BY <1>1, <1>2, <1>3, <1>4, <1>5, <1>6, <1>7, <1>8, <1>9, <1>10, <1>11, <1>12,
       <1>13, <1>14 DEF Release

(* The release goes on to start guests only if it holds some.               *)
LEMMA AfterHolds ==
    ASSUME NEW r, NEW p \in {AfterRules(r), AfterCRS(r), AfterClient(r), AfterDRS(r), AfterRead(r)}
    PROVE  /\ p \notin {"restart", "restore", "relGuestsMark"}
           /\ p = "relGuests" => HoldsGuests(r)
BY DEF AfterRules, AfterCRS, AfterClient, AfterDRS, AfterRead

(* A thread that moves within the release keeps Working if that holds of it. *)
LEMMA WorkingStep ==
    ASSUME IInv, NEW t \in Thread, NEW p \in Points \ {"restart", "restore"},
           pc' = [pc EXCEPT ![t] = p],
           p \in {"relGuests", "relGuestsMark"} => HoldsGuests(rel'[t]),
           \A u \in Thread \ {t} : rel'[u] = rel[u],
           eng' = eng
    PROVE  Working'
BY DEF IInv, TypeOK, Working, HoldsGuests, Thread

(* failJob and releaseJobState keep Working.                                *)
LEMMA ReleaseWorking ==
    ASSUME IInv, NEW t \in Thread, Release(t)
    PROVE  Working'
<1> USE DEF Goto
<1>0. rel \in [Thread -> ReleaseLocals] /\ pc \in [Thread -> Points]
    BY DEF IInv, TypeOK
<1>1. ASSUME NEW p \in Points \ {"restart", "restore", "relGuests", "relGuestsMark"},
             Goto(t, p), \A u \in Thread \ {t} : rel'[u] = rel[u], eng' = eng
      PROVE  Working'
    BY <1>1, WorkingStep
<1>2. CASE FailJob(t) \/ ReleaseDRS(t)
    BY <1>0, <1>1, <1>2 DEF FailJob, ReleaseDRS, Points
<1>3. CASE ReleaseRead(t)
    BY <1>0, <1>1, <1>3 DEF ReleaseRead, Points
<1>4. CASE ReleaseNodes(t)
  <2> DEFINE p == AfterRead(rel'[t])
  <2>1. p \in Points /\ p \notin {"restart", "restore", "relGuestsMark"}
        /\ (p = "relGuests" => HoldsGuests(rel'[t]))
    BY AfterHolds, AfterIsPoint
  <2>2. pc' = [pc EXCEPT ![t] = p] /\ eng' = eng /\ \A u \in Thread \ {t} : rel'[u] = rel[u]
    BY <1>0, <1>4 DEF ReleaseNodes
  <2> HIDE DEF p
  <2> QED
    BY <2>1, <2>2, WorkingStep
<1>5. CASE ReleaseDRSMark(t) \/ ReleaseCRSMark(t)
  <2>1. PICK p \in {AfterDRS(rel[t]), AfterCRS(rel[t])} : Goto(t, p) /\ eng' = eng /\ rel' = rel
    BY <1>5 DEF ReleaseDRSMark, ReleaseCRSMark
  <2>2. p \in Points /\ p \notin {"restart", "restore", "relGuestsMark"}
        /\ (p = "relGuests" => HoldsGuests(rel'[t]))
    BY <2>1, AfterHolds, AfterIsPoint
  <2> QED
    BY <2>1, <2>2, WorkingStep
<1>6. CASE ReleaseClient(t)
  <2>1. CASE Goto(t, AfterClient(rel[t])) /\ UNCHANGED rel
    <3> DEFINE p == AfterClient(rel[t])
    <3>1. p \in Points /\ p \notin {"restart", "restore", "relGuestsMark"}
          /\ (p = "relGuests" => HoldsGuests(rel'[t]))
      BY <2>1, AfterHolds, AfterIsPoint
    <3> HIDE DEF p
    <3> QED
      BY <1>6, <2>1, <3>1, WorkingStep DEF ReleaseClient, p
  <2>2. CASE Goto(t, rel[t].back) /\ rel' = [rel EXCEPT ![t] = NoRelease]
    <3>1. rel[t].back \in Points \ {"restart", "restore", "relGuests", "relGuestsMark"}
      BY <1>0 DEF ReleaseLocals, Backs, Points
    <3> QED
      BY <1>0, <1>1, <1>6, <2>2, <3>1 DEF ReleaseClient
  <2> QED
    BY <1>6, <2>1, <2>2 DEF ReleaseClient
<1>7. CASE ReleaseCRS(t)
  <2>1. CASE Goto(t, "relCrsMark") /\ UNCHANGED rel
    BY <1>0, <1>1, <1>7, <2>1 DEF ReleaseCRS, Points
  <2>2. CASE rel' = [rel EXCEPT ![t].ok = FALSE] /\ Goto(t, AfterCRS(rel[t]))
    <3> DEFINE p == AfterCRS(rel[t])
    <3>1. rel'[t].stopped = rel[t].stopped
      BY <1>0, <2>2 DEF ReleaseLocals
    <3>2. p \in Points /\ p \notin {"restart", "restore", "relGuestsMark"}
          /\ (p = "relGuests" => HoldsGuests(rel'[t]))
      BY <3>1, AfterHolds, AfterIsPoint DEF HoldsGuests
    <3>3. eng' = eng /\ \A u \in Thread \ {t} : rel'[u] = rel[u]
      BY <1>0, <1>7, <2>2 DEF ReleaseCRS
    <3> HIDE DEF p
    <3> QED
      BY <2>2, <3>2, <3>3, WorkingStep DEF p
  <2> QED
    BY <1>7, <2>1, <2>2 DEF ReleaseCRS
<1>8. CASE ReleaseRules(t)
    BY <1>0, <1>1, <1>8 DEF ReleaseRules, Points
<1>9. CASE ReleaseRulesMark(t)
  <2> DEFINE p == AfterRules(rel[t])
  <2>1. rel'[t].stopped = rel[t].stopped
    BY <1>0, <1>9 DEF ReleaseRulesMark, ReleaseLocals
  <2>2. p \in Points /\ p \notin {"restart", "restore", "relGuestsMark"}
        /\ (p = "relGuests" => HoldsGuests(rel'[t]))
    BY <2>1, AfterHolds, AfterIsPoint DEF HoldsGuests
  <2>3. eng' = eng /\ Goto(t, p) /\ \A u \in Thread \ {t} : rel'[u] = rel[u]
    BY <1>0, <1>9 DEF ReleaseRulesMark
  <2> HIDE DEF p
  <2> QED
    BY <2>2, <2>3, WorkingStep
<1>10. CASE ReleaseGuests(t)
  <2> DEFINE n    == HeldNode(t)
             list == rel[t].stopped[n]
             keep == IF rel[t].prune THEN list \ up ELSE list
             p    == AfterRules(rel'[t])
  <2>1. eng' = eng /\ \A u \in Thread \ {t} : rel'[u] = rel[u]
    BY <1>0, <1>10 DEF ReleaseGuests
  <2>2. CASE keep = list
    <3>1. Goto(t, p)
      BY <1>10, <2>2 DEF ReleaseGuests
    <3>2. p \in Points /\ p \notin {"restart", "restore", "relGuestsMark"}
          /\ (p = "relGuests" => HoldsGuests(rel'[t]))
      BY AfterHolds, AfterIsPoint
    <3> HIDE DEF p
    <3> QED
      BY <2>1, <3>1, <3>2, WorkingStep
  <2>3. CASE keep # list
    <3>1. Goto(t, "relGuestsMark")
      BY <1>10, <2>3 DEF ReleaseGuests
    <3>2. rel'[t].stopped[n] = list /\ n \in Node /\ rel[t].stopped \in [Node -> SUBSET Passthrough]
      BY <1>0, <1>10, <2>3, HeldNodeIsNode DEF ReleaseGuests, ReleaseLocals
    <3>3. list # {}
      BY <2>3
    <3>4. HoldsGuests(rel'[t])
      BY <3>2, <3>3 DEF HoldsGuests
    <3> QED
      BY <2>1, <3>1, <3>4, WorkingStep DEF Points
  <2> QED
    BY <2>2, <2>3
<1>11. CASE ReleaseGuestsUnseen(t) \/ ReleaseGuestsMark(t)
  <2> DEFINE p == AfterRules(rel'[t])
  <2>1. eng' = eng /\ Goto(t, p) /\ \A u \in Thread \ {t} : rel'[u] = rel[u]
    BY <1>0, <1>11 DEF ReleaseGuestsUnseen, ReleaseGuestsMark
  <2>2. p \in Points /\ p \notin {"restart", "restore", "relGuestsMark"}
        /\ (p = "relGuests" => HoldsGuests(rel'[t]))
    BY AfterHolds, AfterIsPoint
  <2> HIDE DEF p
  <2> QED
    BY <2>1, <2>2, WorkingStep
<1>12. CASE ReleaseClear(t)
  <2>1. rel[t].back \in Points \ {"restart", "restore", "relGuests", "relGuestsMark"}
    BY <1>0 DEF ReleaseLocals, Backs, Points
  <2> QED
    BY <1>0, <1>1, <1>12, <2>1 DEF ReleaseClear
<1> QED
    BY <1>2, <1>3, <1>4, <1>5, <1>6, <1>7, <1>8, <1>9, <1>10, <1>11, <1>12 DEF Release

-----------------------------------------------------------------------------
(* The engine tick.                                                         *)

(* The tick's locals, component by component.                               *)
LEMMA EngineParts ==
    ASSUME TypeOK, NEW e \in Engine
    PROVE  /\ eng[e] \in EngineLocals
           /\ eng[e].rows \in [Node -> NodeRow]
           /\ eng[e].todo \in SUBSET Node
           /\ eng[e].left \in SUBSET Guest
           /\ eng[e].g \in SUBSET Guest
           /\ eng[e].rules \in SUBSET Rule
           /\ eng[e].back \in Backs
           /\ e \in Thread
BY DEF TypeOK, EngineLocals, Thread

(* Off and WorkOn keep the type of the locals.                              *)
LEMMA OffTyped ==
    ASSUME TypeOK, NEW e \in Engine, NEW n \in Node
    PROVE  /\ Off(e, n) \in [Engine -> EngineLocals]
           /\ \A x \in Engine \ {e} : Off(e, n)[x] = eng[x]
<1> DEFINE r == [eng[e] EXCEPT !.todo = eng[e].todo \ {n}]
<1>1. eng \in [Engine -> EngineLocals] /\ eng[e] \in EngineLocals
    BY EngineParts DEF TypeOK
<1>2. Off(e, n) = [eng EXCEPT ![e] = r]
    BY DEF Off
<1>3. r \in EngineLocals
    BY <1>1 DEF EngineLocals
<1> HIDE DEF r
<1> QED
    BY <1>1, <1>2, <1>3

(* WorkOn sets the node to work on.                                         *)
LEMMA WorkOnTyped ==
    ASSUME TypeOK, NEW e \in Engine, NEW n \in Node,
           NEW S \in SUBSET Guest, NEW back \in Backs
    PROVE  /\ WorkOn(e, n, S, back) \in [Engine -> EngineLocals]
           /\ \A x \in Engine \ {e} : WorkOn(e, n, S, back)[x] = eng[x]
           /\ WorkOn(e, n, S, back)[e].n = n
<1> DEFINE r == [eng[e] EXCEPT !.todo = eng[e].todo \ {n}, !.n = n, !.left = S, !.back = back]
<1>1. eng \in [Engine -> EngineLocals] /\ eng[e] \in EngineLocals
    BY EngineParts DEF TypeOK
<1>2. WorkOn(e, n, S, back) = [eng EXCEPT ![e] = r]
    BY DEF WorkOn
<1>3. r \in EngineLocals /\ r.n = n
    BY <1>1 DEF EngineLocals
<1> HIDE DEF r
<1> QED
    BY <1>1, <1>2, <1>3

(* A tick that moves itself, and leaves the locals of other threads alone,  *)
(* keeps Working if it knows its node where it needs it.                    *)
LEMMA EngineWorking ==
    ASSUME IInv, NEW e \in Engine, NEW p \in Points \ {"relGuests", "relGuestsMark"},
           pc' = [pc EXCEPT ![e] = p],
           p \in {"restart", "restore"} => eng'[e].n \in Node,
           \A u \in Thread \ {e} : rel'[u] = rel[u],
           \A x \in Engine \ {e} : eng'[x] = eng[x]
    PROVE  Working'
BY DEF IInv, TypeOK, Working, HoldsGuests, Thread

(* The same for a tick that stays where it is.                              *)
LEMMA EngineStays ==
    ASSUME IInv, NEW e \in Engine, pc' = pc, rel' = rel,
           pc[e] \notin {"restart", "restore"} \/ eng'[e].n = eng[e].n,
           \A x \in Engine \ {e} : eng'[x] = eng[x]
    PROVE  Working'
BY DEF IInv, TypeOK, Working, HoldsGuests, Thread

(* Counting a failed call, or not, keeps the type of the counters.          *)
LEMMA FaultTyped ==
    ASSUME TypeOK, Fault \/ NoFault
    PROVE  spent' \in [fault : Nat, crash : Nat, move : Nat, cancel : Nat, request : Nat]
BY DEF TypeOK, Fault, NoFault

(* The steps from Tick to the list of nodes.                                *)
LEMMA TickTyped ==
    ASSUME IInv, NEW e \in Engine,
           \/ Tick(e) \/ DisableDRS(e) \/ DisableDRSOff(e) \/ CreateClient(e)
           \/ PauseCRS(e) \/ RecordCRS(e) \/ ListNodes(e)
    PROVE  IInv'
<1> USE DEF clusterVars, Goto
<1>0. TypeOK /\ e \in Thread /\ eng \in [Engine -> EngineLocals] /\ eng[e] \in EngineLocals
    BY EngineParts DEF IInv, TypeOK
<1>1. CASE Tick(e)
  <2>1. eng' \in [Engine -> EngineLocals] /\ \A x \in Engine \ {e} : eng'[x] = eng[x]
    <3> DEFINE r == [eng[e] EXCEPT !.drs = job.drs, !.crs = job.crs]
    <3>1. job.drs \in BOOLEAN /\ job.crs \in BOOLEAN
      BY <1>0 DEF TypeOK, JobRow
    <3>2. r \in EngineLocals
      BY <1>0, <3>1 DEF EngineLocals
    <3>3. eng' = eng \/ eng' = [eng EXCEPT ![e] = r]
      BY <1>1 DEF Tick
    <3> HIDE DEF r
    <3> QED
      BY <1>0, <3>2, <3>3
  <2>2. TypeOK'
    BY <1>0, <1>1, <2>1 DEF Tick, TypeOK, Points
  <2>3. Working'
    BY <1>1, <2>1, EngineWorking DEF Tick, Points
  <2> QED
    BY <2>2, <2>3 DEF IInv
<1>2. CASE DisableDRS(e)
  <2>0. job' \in JobRow
    <3>1. job' = job \/ job' = [job EXCEPT !.drs = TRUE, !.due = FALSE]
      BY <1>2, Zenon DEF DisableDRS
    <3> QED
      BY <1>0, <3>1 DEF TypeOK, JobRow
  <2>3. (Fault \/ NoFault) /\ \E p \in {"client", "drsOff"} : pc' = [pc EXCEPT ![e] = p]
    BY <1>2, Zenon DEF DisableDRS, Goto
  <2>4. spent' \in [fault : Nat, crash : Nat, move : Nat, cancel : Nat, request : Nat]
    BY <1>0, <2>3, FaultTyped
  <2>5. unmarked' \in SUBSET {"drs", "crs"}
    BY <1>0, <1>2 DEF DisableDRS, TypeOK
  <2>6. pc' \in [Thread -> Points]
    BY <1>0, <2>3 DEF TypeOK, Points
  <2>1. TypeOK'
    BY <1>0, <1>2, <2>0, <2>4, <2>5, <2>6 DEF DisableDRS, TypeOK
  <2>2. Working'
    BY <1>2, EngineWorking DEF DisableDRS, Points
  <2> QED
    BY <2>1, <2>2 DEF IInv
<1>3. CASE DisableDRSOff(e)
  <2>3. spent' \in [fault : Nat, crash : Nat, move : Nat, cancel : Nat, request : Nat]
    BY <1>0, <1>3, FaultTyped DEF DisableDRSOff
  <2>4. drsOn' \in BOOLEAN
    BY <1>0, <1>3, Zenon DEF DisableDRSOff, TypeOK
  <2>1. TypeOK'
    BY <1>0, <1>3, <2>3, <2>4 DEF DisableDRSOff, TypeOK, Points
  <2>2. Working'
    BY <1>3, EngineWorking DEF DisableDRSOff, Points
  <2> QED
    BY <2>1, <2>2 DEF IInv
<1>4. CASE CreateClient(e)
  <2>1. TypeOK'
    BY <1>0, <1>4, FaultTyped DEF CreateClient, TypeOK, Points
  <2>2. Working'
    BY <1>4, EngineWorking DEF CreateClient, Points
  <2> QED
    BY <2>1, <2>2 DEF IInv
<1>5. CASE PauseCRS(e)
  <2>1. Fault \/ NoFault
    BY <1>5, Zenon DEF PauseCRS
  <2>2. crsOn' \in BOOLEAN
    BY <1>0, <1>5, Zenon DEF PauseCRS, TypeOK
  <2>5. unmarked' \in SUBSET {"drs", "crs"}
    BY <1>0, <1>5 DEF PauseCRS, TypeOK
  <2>3. TypeOK'
    BY <1>0, <1>5, <2>1, <2>2, <2>5, FaultTyped DEF PauseCRS, TypeOK, Points
  <2>4. Working'
    BY <1>5, EngineWorking DEF PauseCRS, Points
  <2> QED
    BY <2>3, <2>4 DEF IInv
<1>6. CASE RecordCRS(e)
  <2>1. spent' \in [fault : Nat, crash : Nat, move : Nat, cancel : Nat, request : Nat]
    BY <1>0, <1>6 DEF RecordCRS, TypeOK, Fault, NoFault
  <2>2. crsOn' \in BOOLEAN
    BY <1>0, <1>6, Zenon DEF RecordCRS, TypeOK
  <2>3. job' \in JobRow /\ unmarked' \in SUBSET {"drs", "crs"}
    BY <1>0, <1>6 DEF RecordCRS, TypeOK, JobRow
  <2>4. TypeOK'
    BY <1>0, <1>6, <2>1, <2>2, <2>3 DEF RecordCRS, TypeOK, Points
  <2>5. Working'
    BY <1>6, EngineWorking DEF RecordCRS, Points
  <2> QED
    BY <2>4, <2>5 DEF IInv
<1>7. CASE ListNodes(e)
  <2> DEFINE todo == {n \in Node : node[n].step \in Advancing}
             r    == [eng[e] EXCEPT !.rows = node, !.todo = todo]
  <2>1. eng' = [eng EXCEPT ![e] = r]
    BY <1>7 DEF ListNodes
  <2>2. r \in EngineLocals
    BY <1>0 DEF EngineLocals, TypeOK
  <2> HIDE DEF r
  <2>3. eng' \in [Engine -> EngineLocals] /\ \A x \in Engine \ {e} : eng'[x] = eng[x]
    BY <1>0, <2>1, <2>2
  <2>4. TypeOK'
    BY <1>0, <1>7, <2>3 DEF ListNodes, TypeOK, Points
  <2>5. Working'
    BY <1>7, <2>3, EngineWorking DEF ListNodes, Points
  <2> QED
    BY <2>4, <2>5 DEF IInv
<1> QED
    BY <1>1, <1>2, <1>3, <1>4, <1>5, <1>6, <1>7

(* advanceNode, up to the handlers that take several steps.                 *)
LEMMA AdvanceTyped ==
    ASSUME IInv, NEW e \in Engine, NEW n \in Node,
           \/ AdvanceRefused(e, n) \/ AdvanceWaits(e, n) \/ AdvanceTimedOut(e, n)
           \/ AdvanceUpgrading(e, n) \/ AdvanceRebooted(e, n) \/ AdvanceRestoreTimedOut(e, n)
    PROVE  IInv'
<1> USE DEF clusterVars, Goto
<1>0. /\ TypeOK /\ e \in Thread /\ n \in Thread
      /\ {"failed", "health_check", "completed"} \subseteq Steps
    BY EngineParts DEF IInv, Thread, Steps, ActiveSteps, Advancing, FinalSteps
<1>1. /\ Off(e, n) \in [Engine -> EngineLocals]
      /\ \A x \in Engine \ {e} : Off(e, n)[x] = eng[x]
    BY <1>0, OffTyped
<1>2. node \in [Node -> NodeRow] /\ "advance" \in Backs
    BY <1>0 DEF TypeOK, Backs
<1>3. ASSUME eng' = Off(e, n), FailNode(e, n, "advance"), Fault \/ NoFault,
             UNCHANGED <<opt, job, clusterVars>>
      PROVE  IInv'
  <2>1. /\ node' \in [Node -> NodeRow] /\ pc' \in [Thread -> Points]
        /\ rel' \in [Thread -> ReleaseLocals]
        /\ \E p \in Points \ {"restart", "restore", "relGuests", "relGuestsMark"} :
              pc' = [pc EXCEPT ![e] = p]
        /\ \A u \in Thread \ {e} : rel'[u] = rel[u]
    BY <1>0, <1>2, <1>3, FailNodeInTyped DEF FailNode
  <2>2. TypeOK'
    BY <1>0, <1>1, <1>3, <2>1, FaultTyped DEF TypeOK
  <2>3. Working'
    BY <1>0, <1>1, <1>3, <2>1, WorkingKept
  <2> QED
    BY <2>2, <2>3 DEF IInv
<1>4. ASSUME eng' = Off(e, n), node' \in [Node -> NodeRow], pc[e] = "advance",
             Fault \/ NoFault, UNCHANGED <<opt, job, clusterVars, pc, rel>>
      PROVE  IInv'
  <2>1. TypeOK'
    BY <1>0, <1>1, <1>4, FaultTyped DEF TypeOK
  <2>2. Working'
    BY <1>0, <1>1, <1>4, EngineStays
  <2> QED
    BY <2>1, <2>2 DEF IInv
<1>5. ASSUME NEW s \in Steps, SetStep(n, s)
      PROVE  node' \in [Node -> NodeRow]
    BY <1>2, <1>5, MovedIsRow DEF SetStep
<1>6. CASE AdvanceRefused(e, n)
    BY <1>2, <1>3, <1>4, <1>6 DEF AdvanceRefused, Advances
<1>7. CASE AdvanceWaits(e, n)
    BY <1>2, <1>4, <1>7 DEF AdvanceWaits, Advances, NoFault
<1>8. CASE AdvanceTimedOut(e, n)
    BY <1>3, <1>8 DEF AdvanceTimedOut, NoFault
<1>9. CASE AdvanceRebooted(e, n)
    BY <1>0, <1>4, <1>5, <1>9 DEF AdvanceRebooted, Advances, NoFault
<1>10. CASE AdvanceRestoreTimedOut(e, n)
    BY <1>0, <1>4, <1>5, <1>10 DEF AdvanceRestoreTimedOut, Advances, NoFault
<1>11. CASE AdvanceUpgrading(e, n)
  <2>1. CASE Fault /\ FailNode(e, n, "advance")
    BY <1>3, <1>11, <2>1 DEF AdvanceUpgrading
  <2>2. CASE ~(Fault /\ FailNode(e, n, "advance"))
    <3>1. /\ NoFault /\ rel' = rel /\ eng' = Off(e, n) /\ UNCHANGED <<opt, job, clusterVars>>
          /\ node' = [node EXCEPT ![n] = Launched(@)]
          /\ pc' = [pc EXCEPT ![n] = IF @ = "idle" THEN "apt" ELSE @]
          /\ pc[e] = "advance"
      BY <1>11, <2>2 DEF AdvanceUpgrading, Advances
    <3>2. node' \in [Node -> NodeRow]
      <4>1. Launched(node[n]) \in NodeRow
        <5> DEFINE k == IF node[n].runs = 0 THEN 1 ELSE 2
        <5>1. k \in 0 .. 2 /\ Launched(node[n]) = [Touched(node[n]) EXCEPT !.runs = k]
          BY DEF Launched
        <5> HIDE DEF k
        <5> QED
          BY <1>2, <5>1 DEF Touched, NodeRow
      <4> QED
        BY <1>2, <3>1, <4>1
    <3>3. pc' \in [Thread -> Points]
      BY <1>0, <3>1 DEF TypeOK, Points
    <3>4. TypeOK'
      BY <1>0, <1>1, <3>1, <3>2, <3>3, FaultTyped DEF TypeOK
    <3>5. \A x \in Engine : x # n /\ pc'[x] = pc[x]
      BY <1>0, <3>1, ThreadAssumption DEF TypeOK, Thread
    <3>6. \A u \in Thread : pc'[u] = pc[u] \/ pc'[u] = "apt"
      BY <1>0, <3>1 DEF TypeOK
    <3>7. Working'
      BY <1>1, <3>1, <3>5, <3>6 DEF IInv, Working, HoldsGuests
    <3> QED
      BY <3>4, <3>7 DEF IInv
  <2> QED
    BY <2>1, <2>2
<1> QED
    BY <1>6, <1>7, <1>8, <1>9, <1>10, <1>11

(* advanceDraining and advanceHealthCheck, which may go on for several      *)
(* steps.                                                                   *)
LEMMA AdvanceLongTyped ==
    ASSUME IInv, NEW e \in Engine, NEW n \in Node,
           AdvanceDraining(e, n) \/ AdvanceHealthCheck(e, n)
    PROVE  IInv'
<1> USE DEF clusterVars, Goto
<1>0. /\ TypeOK /\ e \in Thread /\ node \in [Node -> NodeRow] /\ "advance" \in Backs
      /\ {"restoring", "completed"} \subseteq Steps
      /\ eng[e].rows[n] \in NodeRow
    BY EngineParts DEF IInv, TypeOK, Backs, Steps, ActiveSteps, Advancing, FinalSteps
<1>1. /\ Off(e, n) \in [Engine -> EngineLocals]
      /\ \A x \in Engine \ {e} : Off(e, n)[x] = eng[x]
    BY <1>0, OffTyped
<1>2. ASSUME NEW S \in SUBSET Guest
      PROVE  /\ WorkOn(e, n, S, "advance") \in [Engine -> EngineLocals]
             /\ \A x \in Engine \ {e} : WorkOn(e, n, S, "advance")[x] = eng[x]
             /\ WorkOn(e, n, S, "advance")[e].n = n
    BY <1>0, WorkOnTyped
<1>3. ASSUME NEW rows \in [Node -> NodeRow], FailNodeIn(rows, e, n, "advance"),
             Fault \/ NoFault, eng' \in [Engine -> EngineLocals],
             \A x \in Engine \ {e} : eng'[x] = eng[x], UNCHANGED <<opt, job, clusterVars>>
      PROVE  IInv'
  <2>1. /\ node' \in [Node -> NodeRow] /\ pc' \in [Thread -> Points]
        /\ rel' \in [Thread -> ReleaseLocals]
        /\ \E p \in Points \ {"restart", "restore", "relGuests", "relGuestsMark"} :
              pc' = [pc EXCEPT ![e] = p]
        /\ \A u \in Thread \ {e} : rel'[u] = rel[u]
    BY <1>0, <1>3, FailNodeInTyped
  <2>2. TypeOK'
    BY <1>0, <1>3, <2>1, FaultTyped DEF TypeOK
  <2>3. Working'
    BY <1>0, <1>3, <2>1, WorkingKept
  <2> QED
    BY <2>2, <2>3 DEF IInv
<1>4. ASSUME NEW S \in SUBSET Guest, NEW p \in {"verify", "drain", "restart"},
             eng' = WorkOn(e, n, S, "advance"), Goto(e, p), node' \in [Node -> NodeRow],
             Fault \/ NoFault, UNCHANGED <<opt, job, clusterVars, rel>>
      PROVE  IInv'
  <2>1. p \in Points \ {"relGuests", "relGuestsMark"}
    BY DEF Points
  <2>2. TypeOK'
    BY <1>0, <1>2, <1>4, <2>1, FaultTyped DEF TypeOK
  <2>3. eng'[e].n \in Node /\ \A x \in Engine \ {e} : eng'[x] = eng[x]
    BY <1>2, <1>4
  <2>4. Working'
    BY <1>4, <2>1, <2>3, EngineWorking
  <2> QED
    BY <2>2, <2>4 DEF IInv
<1>5. CASE AdvanceDraining(e, n)
  <2> DEFINE r       == eng[e].rows[n]
             touched == [node EXCEPT ![n] = Touched(@)]
  <2>1. touched \in [Node -> NodeRow]
    BY <1>0, MovedIsRow
  <2>2. Remaining(n, r) \in SUBSET Guest /\ r.guests \in SUBSET Guest /\ {} \in SUBSET Guest
    BY <1>0 DEF Remaining, NodeRow
  <2>3. CASE /\ NoFault /\ eng' = WorkOn(e, n, {}, "advance") /\ Goto(e, "verify")
             /\ UNCHANGED <<node, rel>>
    BY <1>0, <1>4, <1>5, <2>2, <2>3 DEF AdvanceDraining
  <2>4. ASSUME NEW left \in {Remaining(n, r), r.guests} \ {{}},
               IF left = Remaining(n, r) THEN NoFault ELSE Fault,
               eng' = WorkOn(e, n, left, "advance"),
               IF Targets(n) = {}
               THEN FailNodeIn(touched, e, n, "advance")
               ELSE node' = touched /\ Goto(e, "drain") /\ UNCHANGED rel
        PROVE  IInv'
    <3>1. left \in SUBSET Guest /\ (Fault \/ NoFault) /\ UNCHANGED <<opt, job, clusterVars>>
      BY <1>5, <2>2, <2>4 DEF AdvanceDraining
    <3>2. CASE FailNodeIn(touched, e, n, "advance")
      BY <1>2, <1>3, <2>1, <2>4, <3>1, <3>2
    <3>3. CASE node' = touched /\ Goto(e, "drain") /\ UNCHANGED rel
      BY <1>4, <2>1, <2>4, <3>1, <3>3
    <3> QED
      BY <2>4, <3>2, <3>3
  <2>5. CASE Fault /\ eng' = Off(e, n) /\ FailNodeIn(touched, e, n, "advance")
    BY <1>1, <1>3, <1>5, <2>1, <2>5 DEF AdvanceDraining
  <2> QED
    BY <1>5, <2>3, <2>4, <2>5 DEF AdvanceDraining
<1>6. CASE AdvanceHealthCheck(e, n)
  <2> DEFINE r       == eng[e].rows[n]
             started == IF opt.restore \/ r.step # "restoring"
                        THEN [node EXCEPT ![n] = Moved(@, "restoring")] ELSE node
             left    == IF opt.restore THEN r.guests \ Passthrough ELSE {}
  <2>1. started \in [Node -> NodeRow] /\ left \in SUBSET Guest
    BY <1>0, MovedIsRow DEF NodeRow
  <2>2. CASE NoFault /\ SetStep(n, "completed") /\ eng' = Off(e, n) /\ UNCHANGED <<pc, rel>>
    <3>1. node' \in [Node -> NodeRow] /\ pc[e] = "advance"
      BY <1>0, <1>6, <2>2, MovedIsRow DEF SetStep, AdvanceHealthCheck, Advances
    <3>2. TypeOK'
      BY <1>0, <1>1, <1>6, <2>2, <3>1, FaultTyped DEF TypeOK, AdvanceHealthCheck
    <3>3. Working'
      BY <1>1, <2>2, <3>1, EngineStays
    <3> QED
      BY <3>2, <3>3 DEF IInv
  <2>3. CASE /\ NoFault /\ node' = started /\ eng' = WorkOn(e, n, left, "advance")
             /\ Goto(e, "restart") /\ UNCHANGED rel
    BY <1>4, <1>6, <2>1, <2>3 DEF AdvanceHealthCheck
  <2>4. CASE Fault /\ eng' = Off(e, n) /\ FailNodeIn(started, e, n, "advance")
    BY <1>1, <1>3, <1>6, <2>1, <2>4 DEF AdvanceHealthCheck
  <2> QED
    BY <1>6, <2>2, <2>3, <2>4 DEF AdvanceHealthCheck
<1> QED
    BY <1>5, <1>6

(* A row moved to a step of the table stays a row.                          *)
LEMMA SetStepTyped ==
    ASSUME TypeOK, NEW n, NEW s \in Steps, SetStep(n, s)
    PROVE  node' \in [Node -> NodeRow]
BY MovedIsRow DEF SetStep, TypeOK

(* Where a release returns to is set before it starts.                      *)
LEMMA BackTyped ==
    ASSUME TypeOK, NEW t \in Thread, NEW back \in Backs,
           rel' = [rel EXCEPT ![t].back = back]
    PROVE  rel' \in [Thread -> ReleaseLocals] /\ \A u \in Thread \ {t} : rel'[u] = rel[u]
<1>1. rel' \in [Thread -> ReleaseLocals]
    BY ReleaseLocalsTyped
<1> QED
    BY <1>1 DEF TypeOK

(* The restore loop, the check for failed nodes and the start of a node.    *)
LEMMA StartTyped ==
    ASSUME IInv, NEW e \in Engine,
           \/ RestartGuests(e) \/ RestoreGuest(e) \/ RestoreDone(e) \/ FailCheck(e)
           \/ StartNext(e) \/ StartNode(e)
    PROVE  IInv'
<1> USE DEF clusterVars, Goto
<1>0. /\ TypeOK /\ e \in Thread /\ node \in [Node -> NodeRow]
      /\ eng \in [Engine -> EngineLocals] /\ eng[e] \in EngineLocals
      /\ "done" \in Backs /\ "sweep" \in Backs
      /\ {"skipped", "completed", UpgradeStep} \subseteq Steps
    BY EngineParts
       DEF IInv, TypeOK, Backs, Steps, ActiveSteps, Advancing, FinalSteps, UpgradeStep
<1>1. CASE RestartGuests(e)
  <2> DEFINE n    == eng[e].n
             list == eng[e].rows[n].stopped
  <2>1. n \in Node
    BY <1>1 DEF RestartGuests, IInv, Working
  <2>2. list \in SUBSET Passthrough
    BY <1>0, <2>1, EngineParts DEF NodeRow
  <2>3. PICK keep \in SUBSET list :
            /\ IF keep = {} THEN NoFault ELSE Fault
            /\ up' = up \cup (list \ keep)
            /\ node' = IF keep = list THEN node
                       ELSE [node EXCEPT ![n] = [Touched(@) EXCEPT !.stopped = keep]]
    BY <1>1, Zenon DEF RestartGuests
  <2>4. node' \in [Node -> NodeRow]
    BY <1>0, <2>1, <2>2, <2>3, RecordUpdates
  <2>5. (Fault \/ NoFault) /\ up' \in SUBSET Guest
    BY <1>0, <2>2, <2>3, GuestAssumption DEF TypeOK
  <2>6. TypeOK'
    BY <1>0, <1>1, <2>4, <2>5, FaultTyped DEF RestartGuests, TypeOK, Points
  <2>7. Working'
    BY <1>1, <2>1, EngineWorking DEF RestartGuests, Points
  <2> QED
    BY <2>6, <2>7 DEF IInv
<1>2. CASE RestoreGuest(e)
  <2>1. eng[e].n \in Node
    BY <1>2 DEF RestoreGuest, IInv, Working
  <2>2. PICK g \in eng[e].left :
            /\ (NoFault /\ at' = [at EXCEPT ![g] = eng[e].n]) \/ (Fault /\ UNCHANGED at)
            /\ eng' = [eng EXCEPT ![e].left = @ \ {g}]
    BY <1>2, Zenon DEF RestoreGuest
  <2>3. at' \in [Guest -> Host] /\ (Fault \/ NoFault)
    BY <1>0, <2>1, <2>2, NodeAssumption DEF TypeOK
  <2>4. /\ eng' \in [Engine -> EngineLocals] /\ \A x \in Engine \ {e} : eng'[x] = eng[x]
        /\ eng'[e].n = eng[e].n
    <3> DEFINE r == [eng[e] EXCEPT !.left = eng[e].left \ {g}]
    <3>1. r \in EngineLocals /\ r.n = eng[e].n
      BY <1>0 DEF EngineLocals
    <3>2. eng' = [eng EXCEPT ![e] = r]
      BY <2>2
    <3> HIDE DEF r
    <3> QED
      BY <1>0, <3>1, <3>2
  <2>5. TypeOK'
    BY <1>0, <1>2, <2>3, <2>4, FaultTyped DEF RestoreGuest, TypeOK
  <2>6. Working'
    BY <1>2, <2>4, EngineStays DEF RestoreGuest
  <2> QED
    BY <2>5, <2>6 DEF IInv
<1>3. CASE RestoreDone(e)
  <2>1. node' \in [Node -> NodeRow]
    BY <1>0, <1>3, MovedIsRow DEF RestoreDone, SetStep
  <2>2. TypeOK'
    BY <1>0, <1>3, <2>1 DEF RestoreDone, TypeOK, Points
  <2>3. Working'
    BY <1>3, EngineWorking DEF RestoreDone, Points
  <2> QED
    BY <2>2, <2>3 DEF IInv
<1>4. CASE FailCheck(e)
  <2>1. rel' \in [Thread -> ReleaseLocals] /\ \A u \in Thread \ {e} : rel'[u] = rel[u]
    <3>1. rel' = rel \/ rel' = [rel EXCEPT ![e].back = "sweep"]
      BY <1>4 DEF FailCheck
    <3> QED
      BY <1>0, <3>1, BackTyped DEF TypeOK
  <2>2. TypeOK'
    BY <1>0, <1>4, <2>1 DEF FailCheck, TypeOK, Points
  <2>3. Working'
    BY <1>4, <2>1, EngineWorking DEF FailCheck, Points
  <2> QED
    BY <2>2, <2>3 DEF IInv
<1>5. CASE StartNext(e)
  <2> DEFINE waiting == {n \in Node : node[n].step = "pending"}
  <2>1. eng' \in [Engine -> EngineLocals] /\ \A x \in Engine \ {e} : eng'[x] = eng[x]
    <3>1. CASE eng' = eng
      BY <1>0, <3>1
    <3>2. CASE waiting # {} /\ eng' = [eng EXCEPT ![e].n = First(waiting), ![e].back = "done"]
      <4> DEFINE r == [eng[e] EXCEPT !.n = First(waiting), !.back = "done"]
      <4>1. First(waiting) \in Node
        BY <3>2, FirstIsMember
      <4>2. r \in EngineLocals
        BY <1>0, <4>1 DEF EngineLocals
      <4>3. eng' = [eng EXCEPT ![e] = r]
        BY <3>2
      <4> HIDE DEF r
      <4> QED
        BY <1>0, <4>2, <4>3
    <3> QED
      BY <1>5, <3>1, <3>2 DEF StartNext
  <2>2. TypeOK'
    BY <1>0, <1>5, <2>1 DEF StartNext, TypeOK, Points
  <2>3. Working'
    BY <1>5, <2>1, EngineWorking DEF StartNext, Points
  <2> QED
    BY <2>2, <2>3 DEF IInv
<1>6. CASE StartNode(e)
  <2> DEFINE n == eng[e].n
  <2>1. Fault \/ NoFault
    BY <1>6 DEF StartNode
  <2>2. CASE \/ SetStep(n, "skipped") /\ Goto(e, "done") /\ UNCHANGED <<eng, rel>>
             \/ SetStep(n, UpgradeStep) /\ Goto(e, "done") /\ UNCHANGED <<eng, rel>>
             \/ Goto(e, "done") /\ UNCHANGED <<node, eng, rel>>
    <3>1. node' \in [Node -> NodeRow]
      BY <1>0, <2>2, SetStepTyped DEF TypeOK
    <3>2. TypeOK'
      BY <1>0, <1>6, <2>1, <2>2, <3>1, FaultTyped DEF StartNode, TypeOK, Points
    <3>3. Working'
      BY <2>2, EngineWorking DEF Points
    <3> QED
      BY <3>2, <3>3 DEF IInv
  <2>3. CASE /\ eng' = [eng EXCEPT ![e].left = RunningOn(n)] /\ Goto(e, "check")
             /\ UNCHANGED <<node, rel>>
    <3> DEFINE r == [eng[e] EXCEPT !.left = RunningOn(n)]
    <3>1. RunningOn(n) \in SUBSET Guest
      BY <1>0 DEF RunningOn, TypeOK
    <3>2. r \in EngineLocals
      BY <1>0, <3>1 DEF EngineLocals
    <3>3. eng' = [eng EXCEPT ![e] = r]
      BY <2>3
    <3> HIDE DEF r
    <3>4. eng' \in [Engine -> EngineLocals] /\ \A x \in Engine \ {e} : eng'[x] = eng[x]
      BY <1>0, <3>2, <3>3
    <3>5. TypeOK'
      BY <1>0, <1>6, <2>1, <2>3, <3>4, FaultTyped DEF StartNode, TypeOK, Points
    <3>6. Working'
      BY <2>3, <3>4, EngineWorking DEF Points
    <3> QED
      BY <3>5, <3>6 DEF IInv
  <2>4. CASE FailNode(e, n, "done") /\ UNCHANGED eng
    <3>1. /\ node' \in [Node -> NodeRow] /\ pc' \in [Thread -> Points]
          /\ rel' \in [Thread -> ReleaseLocals]
          /\ \E p \in Points \ {"restart", "restore", "relGuests", "relGuestsMark"} :
                pc' = [pc EXCEPT ![e] = p]
          /\ \A u \in Thread \ {e} : rel'[u] = rel[u]
      BY <1>0, <2>4, FailNodeInTyped DEF FailNode
    <3>2. TypeOK'
      BY <1>0, <1>6, <2>1, <2>4, <3>1, FaultTyped DEF StartNode, TypeOK
    <3>3. Working'
      BY <1>0, <2>4, <3>1, WorkingKept
    <3> QED
      BY <3>2, <3>3 DEF IInv
  <2> QED
    BY <1>6, <2>2, <2>3, <2>4, Zenon DEF StartNode
<1> QED
    BY <1>1, <1>2, <1>3, <1>4, <1>5, <1>6

(* The last look at the job and the HA rules.                               *)
LEMMA RulesTyped ==
    ASSUME IInv, NEW e \in Engine,
           \/ StartCheck(e) \/ DisableRules(e) \/ RerecordRules(e) \/ CheckAfterRules(e)
           \/ DrainStart(e) \/ DrainCheck(e)
    PROVE  IInv'
<1> USE DEF clusterVars, Goto
<1>0. /\ TypeOK /\ e \in Thread /\ node \in [Node -> NodeRow]
      /\ eng \in [Engine -> EngineLocals] /\ eng[e] \in EngineLocals
      /\ "done" \in Backs /\ "draining" \in Steps
    BY EngineParts DEF IInv, TypeOK, Backs, Steps, ActiveSteps, Advancing
<1>1. ASSUME NEW rules \in SUBSET Rule
      PROVE  WithRules(rules) \in JobRow
    BY <1>0 DEF WithRules, TypeOK, JobRow
<1>2. CASE StartCheck(e)
  <2> DEFINE n         == eng[e].n
             snapshot  == [node EXCEPT ![n] = [Touched(@) EXCEPT !.guests = eng[e].left]]
             toDisable == {r \in Rule \ rulesOff : Affects[r] \cap eng[e].left # {}}
  <2>1. Fault \/ NoFault
    BY <1>2, Zenon DEF StartCheck
  <2>2. snapshot \in [Node -> NodeRow]
    BY <1>0, EngineParts, RowUpdates
  <2>3. toDisable \in SUBSET Rule
    OBVIOUS
  <2>4. CASE Goto(e, "done") /\ UNCHANGED <<job, node, eng, rel>>
    <3>1. TypeOK'
      BY <1>0, <1>2, <2>1, <2>4, FaultTyped DEF StartCheck, TypeOK, Points
    <3>2. Working'
      BY <2>4, EngineWorking DEF Points
    <3> QED
      BY <3>1, <3>2 DEF IInv
  <2>5. CASE /\ node' = snapshot /\ eng' = [eng EXCEPT ![e].rules = toDisable]
             /\ IF toDisable = {}
                THEN UNCHANGED job /\ Goto(e, "drainStart")
                ELSE job' = WithRules(toDisable) /\ Goto(e, "ruleOff")
             /\ UNCHANGED rel
    <3> DEFINE r == [eng[e] EXCEPT !.rules = toDisable]
    <3>1. eng' = [eng EXCEPT ![e] = r]
      BY <2>5
    <3> HIDE DEF toDisable, snapshot
    <3>2. r \in EngineLocals
      BY <1>0, <2>3 DEF EngineLocals
    <3> HIDE DEF r
    <3>3. eng' \in [Engine -> EngineLocals] /\ \A x \in Engine \ {e} : eng'[x] = eng[x]
      BY <1>0, <3>1, <3>2
    <3>4. job' \in JobRow
      BY <1>0, <1>1, <2>3, <2>5 DEF TypeOK
    <3>5. \E p \in Points \ {"restart", "restore", "relGuests", "relGuestsMark"} :
             pc' = [pc EXCEPT ![e] = p]
      BY <2>5 DEF Points
    <3>6. TypeOK'
      BY <1>0, <1>2, <2>1, <2>2, <2>5, <3>3, <3>4, <3>5, FaultTyped DEF StartCheck, TypeOK
    <3>7. Working'
      BY <1>0, <2>5, <3>3, <3>5, WorkingKept
    <3> QED
      BY <3>6, <3>7 DEF IInv
  <2>6. CASE FailNodeIn(snapshot, e, n, "done") /\ UNCHANGED <<job, eng>>
    <3>1. /\ node' \in [Node -> NodeRow] /\ pc' \in [Thread -> Points]
          /\ rel' \in [Thread -> ReleaseLocals]
          /\ \E p \in Points \ {"restart", "restore", "relGuests", "relGuestsMark"} :
                pc' = [pc EXCEPT ![e] = p]
          /\ \A u \in Thread \ {e} : rel'[u] = rel[u]
      BY <1>0, <2>2, <2>6, FailNodeInTyped
    <3>2. TypeOK'
      BY <1>0, <1>2, <2>1, <2>6, <3>1, FaultTyped DEF StartCheck, TypeOK
    <3>3. Working'
      BY <1>0, <2>6, <3>1, WorkingKept
    <3> QED
      BY <3>2, <3>3 DEF IInv
  <2> QED
    BY <1>2, <2>4, <2>5, <2>6, Zenon DEF StartCheck
<1>3. CASE DisableRules(e)
  <2>1. PICK refused \in SUBSET eng[e].rules :
            /\ IF refused = {} THEN NoFault ELSE Fault
            /\ rulesOff' = rulesOff \cup (eng[e].rules \ refused)
    BY <1>3, Zenon DEF DisableRules
  <2>2. rulesOff' \in SUBSET Rule /\ (Fault \/ NoFault)
    BY <1>0, <2>1, EngineParts DEF TypeOK
  <2>3. TypeOK'
    BY <1>0, <1>3, <2>2, FaultTyped DEF DisableRules, TypeOK, Points
  <2>4. Working'
    BY <1>3, EngineWorking DEF DisableRules, Points
  <2> QED
    BY <2>3, <2>4 DEF IInv
<1>4. CASE RerecordRules(e)
  <2>1. job' \in JobRow
    BY <1>0, <1>1, <1>4, EngineParts DEF RerecordRules
  <2>2. TypeOK'
    BY <1>0, <1>4, <2>1 DEF RerecordRules, TypeOK, Points
  <2>3. Working'
    BY <1>4, EngineWorking DEF RerecordRules, Points
  <2> QED
    BY <2>2, <2>3 DEF IInv
<1>5. CASE CheckAfterRules(e)
  <2>1. \/ pc' = [pc EXCEPT ![e] = "drainStart"] /\ rel' = rel
        \/ pc' = [pc EXCEPT ![e] = "release"] /\ rel' = [rel EXCEPT ![e].back = "done"]
        \/ pc' = [pc EXCEPT ![e] = "done"] /\ rel' = rel
    <3>1. job.status = "running" => job.status # "cancelled"
      OBVIOUS
    <3> QED
      BY <1>5, <3>1 DEF CheckAfterRules
  <2>2. rel' \in [Thread -> ReleaseLocals] /\ \A u \in Thread \ {e} : rel'[u] = rel[u]
    BY <1>0, <2>1, BackTyped DEF TypeOK
  <2>3. \E p \in Points \ {"restart", "restore", "relGuests", "relGuestsMark"} :
           pc' = [pc EXCEPT ![e] = p]
    BY <2>1 DEF Points
  <2>4. TypeOK'
    BY <1>0, <1>5, <2>2, <2>3 DEF CheckAfterRules, TypeOK
  <2>5. Working'
    BY <1>0, <1>5, <2>2, <2>3, WorkingKept DEF CheckAfterRules
  <2> QED
    BY <2>4, <2>5 DEF IInv
<1>6. CASE DrainStart(e)
  <2> DEFINE n        == eng[e].n
             draining == [node EXCEPT ![n] = Moved(@, "draining")]
  <2>1. draining \in [Node -> NodeRow]
    BY <1>0, MovedIsRow
  <2>2. Fault \/ NoFault
    BY <1>6, Zenon DEF DrainStart
  <2>3. CASE /\ node' = draining /\ Goto(e, IF eng[e].left = {} THEN "verify" ELSE "drain")
             /\ UNCHANGED rel
    <3>1. TypeOK'
      BY <1>0, <1>6, <2>1, <2>2, <2>3, FaultTyped DEF DrainStart, TypeOK, Points
    <3>2. Working'
      BY <1>6, <2>3, EngineWorking DEF DrainStart, Points
    <3> QED
      BY <3>1, <3>2 DEF IInv
  <2>4. CASE FailNodeIn(draining, e, n, "done")
    <3>1. /\ node' \in [Node -> NodeRow] /\ pc' \in [Thread -> Points]
          /\ rel' \in [Thread -> ReleaseLocals]
          /\ \E p \in Points \ {"restart", "restore", "relGuests", "relGuestsMark"} :
                pc' = [pc EXCEPT ![e] = p]
          /\ \A u \in Thread \ {e} : rel'[u] = rel[u]
      BY <1>0, <2>1, <2>4, FailNodeInTyped
    <3>2. TypeOK'
      BY <1>0, <1>6, <2>2, <3>1, FaultTyped DEF DrainStart, TypeOK
    <3>3. Working'
      BY <1>0, <1>6, <3>1, WorkingKept DEF DrainStart
    <3> QED
      BY <3>2, <3>3 DEF IInv
  <2> QED
    BY <1>6, <2>3, <2>4, Zenon DEF DrainStart
<1>7. CASE DrainCheck(e)
  <2>1. eng[e].back \in Points \ {"restart", "restore", "relGuests", "relGuestsMark"}
    BY <1>0, EngineParts DEF Backs, Points
  <2>2. TypeOK'
    BY <1>0, <1>7, <2>1 DEF DrainCheck, TypeOK, Points
  <2>3. Working'
    BY <1>7, <2>1, EngineWorking DEF DrainCheck, Points
  <2> QED
    BY <2>2, <2>3 DEF IInv
<1> QED
    BY <1>2, <1>3, <1>4, <1>5, <1>6, <1>7

(* The drain loop and the end of a tick.                                    *)
LEMMA DrainTyped ==
    ASSUME IInv, NEW e \in Engine,
           \/ DrainGuest(e) \/ RecordStopped(e) \/ StopPassthrough(e) \/ VerifyDrained(e)
           \/ FinishJob(e) \/ Sweep(e)
    PROVE  IInv'
<1> USE DEF clusterVars, Goto
<1>0. /\ TypeOK /\ e \in Thread /\ node \in [Node -> NodeRow]
      /\ eng \in [Engine -> EngineLocals] /\ eng[e] \in EngineLocals
      /\ eng[e].back \in Backs /\ "sweep" \in Backs /\ "idle" \in Backs
      /\ UpgradeStep \in Steps
    BY EngineParts DEF IInv, TypeOK, Backs, Steps, ActiveSteps, Advancing, UpgradeStep
<1>1. ASSUME NEW S \in SUBSET Guest
      PROVE  /\ [eng EXCEPT ![e].left = S] \in [Engine -> EngineLocals]
             /\ [eng EXCEPT ![e].g = S] \in [Engine -> EngineLocals]
             /\ [eng EXCEPT ![e].left = S, ![e].g = {}] \in [Engine -> EngineLocals]
  <2>1. /\ [eng[e] EXCEPT !.left = S] \in EngineLocals
        /\ [eng[e] EXCEPT !.g = S] \in EngineLocals
        /\ [eng[e] EXCEPT !.left = S, !.g = {}] \in EngineLocals
    BY <1>0 DEF EngineLocals
  <2>2. /\ [eng EXCEPT ![e].left = S] = [eng EXCEPT ![e] = [eng[e] EXCEPT !.left = S]]
        /\ [eng EXCEPT ![e].g = S] = [eng EXCEPT ![e] = [eng[e] EXCEPT !.g = S]]
        /\ [eng EXCEPT ![e].left = S, ![e].g = {}] =
              [eng EXCEPT ![e] = [eng[e] EXCEPT !.left = S, !.g = {}]]
    BY <1>0
  <2> QED
    BY <1>0, <2>1, <2>2
<1>2. ASSUME FailNode(e, eng[e].n, eng[e].back), Fault \/ NoFault,
             at' \in [Guest -> Host], up' \in SUBSET Guest,
             UNCHANGED <<opt, job, drsOn, crsOn, rulesOff, host, killed, moved, unmarked, eng>>
      PROVE  IInv'
  <2>1. /\ node' \in [Node -> NodeRow] /\ pc' \in [Thread -> Points]
        /\ rel' \in [Thread -> ReleaseLocals]
        /\ \E p \in Points \ {"restart", "restore", "relGuests", "relGuestsMark"} :
              pc' = [pc EXCEPT ![e] = p]
        /\ \A u \in Thread \ {e} : rel'[u] = rel[u]
    BY <1>0, <1>2, FailNodeInTyped DEF FailNode
  <2>2. TypeOK'
    BY <1>0, <1>2, <2>1, FaultTyped DEF TypeOK
  <2>3. Working'
    BY <1>0, <1>2, <2>1, WorkingKept
  <2> QED
    BY <2>2, <2>3 DEF IInv
<1>3. ASSUME NEW p \in {"drain", "ptStop"}, Goto(e, p), node' \in [Node -> NodeRow],
             eng' \in [Engine -> EngineLocals], \A x \in Engine \ {e} : eng'[x] = eng[x],
             at' \in [Guest -> Host], up' \in SUBSET Guest, Fault \/ NoFault,
             UNCHANGED <<opt, job, drsOn, crsOn, rulesOff, host, killed, moved, unmarked, rel>>
      PROVE  IInv'
  <2>1. p \in Points \ {"restart", "restore", "relGuests", "relGuestsMark"}
    BY DEF Points
  <2>2. TypeOK'
    BY <1>0, <1>3, <2>1, FaultTyped DEF TypeOK
  <2>3. Working'
    BY <1>3, <2>1, EngineWorking
  <2> QED
    BY <2>2, <2>3 DEF IInv
<1>4. CASE DrainGuest(e)
  <2>1. PICK g \in eng[e].left :
        \/ /\ NoFault
           /\ eng' = [eng EXCEPT ![e].left = @ \ {g}]
           /\ Goto(e, "drain")
           /\ UNCHANGED <<node, at, rel>>
        \/ /\ NoFault
           /\ \E h \in Targets(eng[e].n) : at' = [at EXCEPT ![g] = h]
           /\ eng' = [eng EXCEPT ![e].left = @ \ {g}]
           /\ Goto(e, "drain")
           /\ UNCHANGED <<node, rel>>
        \/ /\ IF Targets(eng[e].n) = {} THEN NoFault ELSE Fault
           /\ at' \in {at} \cup {[at EXCEPT ![g] = h] : h \in Targets(eng[e].n)}
           /\ FailNode(e, eng[e].n, eng[e].back)
           /\ UNCHANGED eng
    BY <1>4, Zenon DEF DrainGuest
  <2>2. at \in [Guest -> Host] /\ up \in SUBSET Guest /\ eng[e].left \in SUBSET Guest
    BY <1>0, EngineParts DEF TypeOK
  <2>3. UNCHANGED <<opt, job, drsOn, crsOn, rulesOff, up, host, killed, moved, unmarked>>
    BY <1>4 DEF DrainGuest
  <2>4. CASE /\ NoFault /\ eng' = [eng EXCEPT ![e].left = @ \ {g}]
             /\ Goto(e, "drain") /\ UNCHANGED <<node, rel>>
             /\ at' = at \/ \E h \in Targets(eng[e].n) : at' = [at EXCEPT ![g] = h]
    <3>1. at' \in [Guest -> Host]
      BY <2>2, <2>4 DEF Targets
    <3>2. eng' = [eng EXCEPT ![e].left = eng[e].left \ {g}] /\ eng[e].left \ {g} \in SUBSET Guest
      BY <1>0, <2>2, <2>4
    <3>3. eng' \in [Engine -> EngineLocals] /\ \A x \in Engine \ {e} : eng'[x] = eng[x]
      BY <1>0, <1>1, <3>2
    <3> QED
      BY <1>0, <1>3, <2>2, <2>3, <2>4, <3>1, <3>3
  <2>5. CASE /\ IF Targets(eng[e].n) = {} THEN NoFault ELSE Fault
             /\ at' \in {at} \cup {[at EXCEPT ![g] = h] : h \in Targets(eng[e].n)}
             /\ FailNode(e, eng[e].n, eng[e].back) /\ UNCHANGED eng
    <3>1. at' \in [Guest -> Host]
      BY <2>2, <2>5 DEF Targets
    <3> QED
      BY <1>2, <2>2, <2>3, <2>5, <3>1
  <2> QED
    BY <2>1, <2>4, <2>5
<1>5. CASE RecordStopped(e)
  <2>1. PICK g \in eng[e].left \cap Passthrough :
        /\ node' = [node EXCEPT ![eng[e].n] = Recorded(@, g)]
        /\ eng' = [eng EXCEPT ![e].g = {g}]
    BY <1>5, Zenon DEF RecordStopped
  <2>2. {g} \in SUBSET Guest
    BY GuestAssumption
  <2>3. eng' \in [Engine -> EngineLocals] /\ \A x \in Engine \ {e} : eng'[x] = eng[x]
    BY <1>0, <1>1, <2>1, <2>2
  <2>4. node' \in [Node -> NodeRow]
    <3>1. ASSUME NEW r \in NodeRow
          PROVE  Recorded(r, g) \in NodeRow
      <4>1. r.stopped \cup {g} \in SUBSET Passthrough
        BY <2>2 DEF NodeRow
      <4> QED
        BY <4>1, RecordUpdates DEF Recorded
    <3> QED
      BY <1>0, <2>1, <3>1
  <2> QED
    BY <1>0, <1>3, <1>5, <2>3, <2>4 DEF RecordStopped, TypeOK, NoFault
<1>6. CASE StopPassthrough(e)
  <2>1. at \in [Guest -> Host] /\ up \in SUBSET Guest /\ eng[e].left \in SUBSET Guest
    BY <1>0, EngineParts DEF TypeOK
  <2>2. UNCHANGED <<opt, job, drsOn, crsOn, rulesOff, at, host, killed, moved, unmarked>>
    BY <1>6 DEF StopPassthrough
  <2>3. CASE /\ (NoFault /\ up' = up \ eng[e].g) \/ (Fault /\ UNCHANGED up)
             /\ eng' = [eng EXCEPT ![e].left = @ \ eng[e].g, ![e].g = {}]
             /\ Goto(e, "drain") /\ UNCHANGED <<node, rel>>
    <3>1. eng' = [eng EXCEPT ![e].left = eng[e].left \ eng[e].g, ![e].g = {}]
      BY <1>0, <2>3
    <3>2. eng[e].left \ eng[e].g \in SUBSET Guest
      BY <2>1
    <3>3. eng' \in [Engine -> EngineLocals]
      BY <1>1, <3>1, <3>2
    <3>4. \A x \in Engine \ {e} : eng'[x] = eng[x]
      BY <1>0, <3>1
    <3>5. up' \in SUBSET Guest /\ (Fault \/ NoFault)
      BY <2>1, <2>3
    <3> QED
      BY <1>0, <1>3, <2>1, <2>2, <2>3, <3>3, <3>4, <3>5
  <2>4. CASE /\ Fault /\ up' \in {up, up \ eng[e].g}
             /\ FailNode(e, eng[e].n, eng[e].back) /\ UNCHANGED eng
    <3>1. up' \in SUBSET Guest
      BY <2>1, <2>4
    <3> QED
      BY <1>2, <2>1, <2>2, <2>4, <3>1
  <2> QED
    BY <1>6, <2>3, <2>4 DEF StopPassthrough
<1>7. CASE VerifyDrained(e)
  <2>1. at \in [Guest -> Host] /\ up \in SUBSET Guest
    BY <1>0 DEF TypeOK
  <2>2. CASE /\ IF RunningOn(eng[e].n) = {} THEN NoFault ELSE Fault
             /\ SetStep(eng[e].n, UpgradeStep) /\ Goto(e, eng[e].back) /\ UNCHANGED rel
    <3>1. eng[e].back \in Points \ {"restart", "restore", "relGuests", "relGuestsMark"}
      BY <1>0 DEF Backs, Points
    <3>2. node' \in [Node -> NodeRow]
      BY <1>0, <2>2, SetStepTyped
    <3>3. TypeOK'
      BY <1>0, <1>7, <2>2, <3>1, <3>2, FaultTyped DEF VerifyDrained, TypeOK
    <3>4. Working'
      BY <1>7, <2>2, <3>1, EngineWorking DEF VerifyDrained
    <3> QED
      BY <3>3, <3>4 DEF IInv
  <2>3. CASE NoFault /\ FailNode(e, eng[e].n, eng[e].back)
    BY <1>2, <1>7, <2>1, <2>3 DEF VerifyDrained
  <2> QED
    BY <1>7, <2>2, <2>3, Zenon DEF VerifyDrained
<1>8. CASE FinishJob(e)
  <2>1. \/ pc' = [pc EXCEPT ![e] = "sweep"] /\ rel' = rel /\ job' = job
        \/ pc' = [pc EXCEPT ![e] = "failJob"] /\ job' = job
           /\ rel' = [rel EXCEPT ![e].back = "sweep"]
        \/ pc' = [pc EXCEPT ![e] = "release"] /\ job' = Ended("completed")
           /\ rel' = [rel EXCEPT ![e].back = "sweep"]
    BY <1>8 DEF FinishJob
  <2>2. rel' \in [Thread -> ReleaseLocals] /\ \A u \in Thread \ {e} : rel'[u] = rel[u]
    BY <1>0, <2>1, BackTyped DEF TypeOK
  <2>3. job' \in JobRow
    BY <1>0, <2>1, EndedIsRow DEF TypeOK, Outcomes
  <2>4. \E p \in Points \ {"restart", "restore", "relGuests", "relGuestsMark"} :
           pc' = [pc EXCEPT ![e] = p]
    BY <2>1 DEF Points
  <2>5. TypeOK'
    BY <1>0, <1>8, <2>2, <2>3, <2>4 DEF FinishJob, TypeOK
  <2>6. Working'
    BY <1>0, <1>8, <2>2, <2>4, WorkingKept DEF FinishJob
  <2> QED
    BY <2>5, <2>6 DEF IInv
<1>9. CASE Sweep(e)
  <2>1. \/ pc' = [pc EXCEPT ![e] = "release"] /\ job' = [job EXCEPT !.due = FALSE]
           /\ rel' = [rel EXCEPT ![e].back = "idle"]
        \/ pc' = [pc EXCEPT ![e] = "idle"] /\ job' = job /\ rel' = rel
    BY <1>9, Zenon DEF Sweep
  <2>2. rel' \in [Thread -> ReleaseLocals] /\ \A u \in Thread \ {e} : rel'[u] = rel[u]
    BY <1>0, <2>1, BackTyped DEF TypeOK
  <2>3. job' \in JobRow
    <3>1. job \in JobRow
      BY <1>0 DEF TypeOK
    <3> QED
      BY <2>1, <3>1 DEF JobRow
  <2>4. \E p \in Points \ {"restart", "restore", "relGuests", "relGuestsMark"} :
           pc' = [pc EXCEPT ![e] = p]
    BY <2>1 DEF Points
  <2>5. NoEngine \in EngineLocals
    BY DEF NoEngine, EngineLocals, NewRow, NodeRow, Backs, Steps
  <2>6. eng' \in [Engine -> EngineLocals] /\ \A x \in Engine \ {e} : eng'[x] = eng[x]
    BY <1>0, <1>9, <2>5 DEF Sweep
  <2>7. TypeOK'
    BY <1>0, <1>9, <2>2, <2>3, <2>4, <2>6 DEF Sweep, TypeOK
  <2>8. Working'
    BY <1>0, <2>2, <2>4, <2>6, WorkingKept
  <2> QED
    BY <2>7, <2>8 DEF IInv
<1> QED
    BY <1>4, <1>5, <1>6, <1>7, <1>8, <1>9

-----------------------------------------------------------------------------
(* The goroutines of the nodes, the requests, time and the cluster.         *)

(* A thread other than a tick moves, to a point Working says nothing of.    *)
LEMMA OtherWorking ==
    ASSUME IInv, NEW t \in Thread \ Engine, eng' = eng,
           \/ pc' = pc
           \/ \E p \in Points \ {"restart", "restore", "relGuests", "relGuestsMark"} :
                 pc' = [pc EXCEPT ![t] = p],
           \A u \in Thread \ {t} : rel'[u] = rel[u],
           pc' = pc => rel' = rel
    PROVE  Working'
BY DEF IInv, TypeOK, Working, HoldsGuests, Thread

(* The SSH goroutine and the ConfirmUpgrade request.                        *)
LEMMA WorkerTyped ==
    ASSUME IInv, NEW n \in Node,
           \/ SSHUpgrade(n) \/ SSHDecide(n) \/ SSHMarkReboot(n) \/ SSHReboot(n)
           \/ ConfirmReboot(n) \/ ConfirmMark(n) \/ ConfirmUpgrade(n)
    PROVE  IInv'
<1> USE DEF clusterVars, Goto
<1> DEFINE Calm == Points \ {"restart", "restore", "relGuests", "relGuestsMark"}
<1>0. /\ TypeOK /\ n \in Thread \ Engine /\ node \in [Node -> NodeRow] /\ n \in Host
      /\ "idle" \in Backs /\ {"health_check", "rebooting"} \subseteq Steps
      /\ {"idle", "rebootCheck", "rebootMark", "reboot", "confMark", "confHealth", "confReboot"}
            \subseteq Calm
    BY ThreadAssumption, NodeAssumption
       DEF IInv, TypeOK, Thread, Backs, Steps, ActiveSteps, Advancing, Points
<1> HIDE DEF Calm
<1>1. ASSUME NEW rows \in [Node -> NodeRow], FailNodeIn(rows, n, n, "idle"),
             Fault \/ NoFault, host' \in [Host -> {"up", "asked", "down", "fresh"}],
             UNCHANGED <<opt, job, drsOn, crsOn, rulesOff, at, up, killed, moved, unmarked, eng>>
      PROVE  IInv'
  <2>1. /\ node' \in [Node -> NodeRow] /\ pc' \in [Thread -> Points]
        /\ rel' \in [Thread -> ReleaseLocals]
        /\ \E p \in Points \ {"restart", "restore", "relGuests", "relGuestsMark"} :
              pc' = [pc EXCEPT ![n] = p]
        /\ \A u \in Thread \ {n} : rel'[u] = rel[u]
    BY <1>0, <1>1, FailNodeInTyped
  <2>2. TypeOK'
    BY <1>0, <1>1, <2>1, FaultTyped DEF TypeOK
  <2>3. Working'
    BY <1>0, <1>1, <2>1, WorkingKept
  <2> QED
    BY <2>2, <2>3 DEF IInv
<1>2. ASSUME node' \in [Node -> NodeRow], pc' = pc \/ \E p \in Calm : Goto(n, p),
             host' \in [Host -> {"up", "asked", "down", "fresh"}], Fault \/ NoFault,
             UNCHANGED <<opt, job, drsOn, crsOn, rulesOff, at, up, killed, moved, unmarked, eng, rel>>
      PROVE  IInv'
  <2>1. pc' \in [Thread -> Points]
    BY <1>0, <1>2 DEF TypeOK, Calm
  <2>2. TypeOK'
    BY <1>0, <1>2, <2>1, FaultTyped DEF TypeOK
  <2>3. Working'
    BY <1>0, <1>2, OtherWorking DEF Calm
  <2> QED
    BY <2>2, <2>3 DEF IInv
<1>3. /\ host \in [Host -> {"up", "asked", "down", "fresh"}]
      /\ RebootAsked(n) \in [Host -> {"up", "asked", "down", "fresh"}]
    BY <1>0 DEF TypeOK, RebootAsked
<1>4. [node EXCEPT ![n] = [Moved(@, "health_check") EXCEPT !.owed = TRUE]] \in [Node -> NodeRow]
    BY <1>0, RowUpdates
<1>5. CASE SSHUpgrade(n)
  <2>1. CASE Fault /\ FailNode(n, n, "idle")
    BY <1>0, <1>1, <1>3, <1>5, <2>1 DEF SSHUpgrade, FailNode
  <2>2. CASE /\ NoFault /\ UNCHANGED <<node, rel>>
             /\ Goto(n, IF IsJobCancelled THEN "idle" ELSE "rebootCheck")
    BY <1>0, <1>2, <1>3, <1>5, <2>2 DEF SSHUpgrade
  <2> QED
    BY <1>5, <2>1, <2>2 DEF SSHUpgrade
<1>6. CASE SSHDecide(n)
  <2>1. UNCHANGED <<opt, job, clusterVars, eng>>
    BY <1>6 DEF SSHDecide
  <2>2. CASE NoFault /\ SetStep(n, "health_check") /\ Goto(n, "idle") /\ UNCHANGED rel
    BY <1>0, <1>2, <1>3, <2>1, <2>2, SetStepTyped
  <2>3. ASSUME NEW unknown \in BOOLEAN, IF unknown THEN Fault ELSE NoFault,
               CASE DecideReboot(RunningOn(n), unknown) = "defer" ->
                    /\ node' = [node EXCEPT ![n] = [Moved(@, "health_check") EXCEPT !.owed = TRUE]]
                    /\ Goto(n, "idle")
                    /\ UNCHANGED rel
               [] DecideReboot(RunningOn(n), unknown) = "fail" ->
                    FailNode(n, n, "idle")
               [] OTHER -> Goto(n, "rebootMark") /\ UNCHANGED <<node, rel>>
        PROVE  IInv'
    <3>1. Fault \/ NoFault
      BY <2>3, Zenon
    <3>2. CASE DecideReboot(RunningOn(n), unknown) = "defer"
      BY <1>0, <1>2, <1>3, <1>4, <2>1, <2>3, <3>1, <3>2
    <3>3. CASE DecideReboot(RunningOn(n), unknown) = "fail"
      BY <1>0, <1>1, <1>3, <2>1, <2>3, <3>1, <3>3 DEF FailNode
    <3>4. CASE DecideReboot(RunningOn(n), unknown) \notin {"defer", "fail"}
      BY <1>0, <1>2, <1>3, <2>1, <2>3, <3>1, <3>4
    <3> QED
      BY <3>2, <3>3, <3>4
  <2> QED
    BY <1>6, <2>2, <2>3, Zenon DEF SSHDecide
<1>7. CASE SSHMarkReboot(n)
    BY <1>0, <1>2, <1>3, <1>7, SetStepTyped DEF SSHMarkReboot, NoFault
<1>8. CASE SSHReboot(n)
  <2>1. CASE Fault /\ FailNode(n, n, "idle") /\ host' \in {host, RebootAsked(n)}
    BY <1>0, <1>1, <1>3, <1>8, <2>1 DEF SSHReboot, FailNode
  <2>2. CASE /\ NoFault /\ host' = RebootAsked(n) /\ Goto(n, "idle")
             /\ UNCHANGED <<node, rel>>
    BY <1>0, <1>2, <1>3, <1>8, <2>2 DEF SSHReboot
  <2> QED
    BY <1>8, <2>1, <2>2 DEF SSHReboot
<1>9. CASE ConfirmReboot(n)
  <2> DEFINE rows == [node EXCEPT ![n] = Moved(@, "rebooting")]
  <2>1. CASE Fault /\ FailNodeIn(rows, n, n, "idle") /\ host' \in {host, RebootAsked(n)}
    <3>1. rows \in [Node -> NodeRow]
      BY <1>0, MovedIsRow
    <3> QED
      BY <1>1, <1>3, <1>9, <2>1, <3>1 DEF ConfirmReboot
  <2>2. CASE /\ NoFault /\ host' = RebootAsked(n) /\ Goto(n, "confMark")
             /\ UNCHANGED <<node, rel>>
    BY <1>0, <1>2, <1>3, <1>9, <2>2 DEF ConfirmReboot
  <2> QED
    BY <1>9, <2>1, <2>2 DEF ConfirmReboot
<1>10. CASE ConfirmMark(n)
    BY <1>0, <1>2, <1>3, <1>10, SetStepTyped DEF ConfirmMark, NoFault
<1>11. CASE ConfirmUpgrade(n)
  <2>1. UNCHANGED <<opt, job, clusterVars, eng>>
    BY <1>11 DEF ConfirmUpgrade
  <2>2. CASE Fault /\ FailNode(n, n, "idle")
    BY <1>0, <1>1, <1>3, <2>1, <2>2 DEF FailNode
  <2>3. CASE NoFault /\ Goto(n, "confHealth") /\ UNCHANGED <<node, rel>>
    BY <1>0, <1>2, <1>3, <2>1, <2>3
  <2>4. ASSUME NEW unknown \in BOOLEAN, IF unknown THEN Fault ELSE NoFault,
               IF DecideReboot(RunningOn(n), unknown) = "defer"
               THEN /\ node' = [node EXCEPT ![n] =
                                   [Moved(@, "health_check") EXCEPT !.owed = TRUE]]
                    /\ UNCHANGED pc
               ELSE UNCHANGED node /\ Goto(n, "confReboot"),
               UNCHANGED rel
        PROVE  IInv'
    <3>1. Fault \/ NoFault
      BY <2>4, Zenon
    <3>2. node' \in [Node -> NodeRow]
      BY <1>0, <1>4, <2>4
    <3>3. pc' = pc \/ Goto(n, "confReboot")
      BY <2>4
    <3> QED
      BY <1>0, <1>2, <1>3, <2>1, <2>4, <3>1, <3>2, <3>3
  <2> QED
    BY <1>11, <2>2, <2>3, <2>4, Zenon DEF ConfirmUpgrade
<1> QED
    BY <1>5, <1>6, <1>7, <1>8, <1>9, <1>10, <1>11

(* The requests.                                                            *)
LEMMA RequestTyped ==
    ASSUME IInv,
           \/ StartJob \/ PauseJob \/ ResumeJob \/ CancelJob \/ CreateAnother
           \/ \E n \in Node : SkipNode(n)
    PROVE  IInv'
<1> USE DEF clusterVars, Goto
<1>0. /\ TypeOK /\ Api \in Thread \ Engine /\ "idle" \in Backs
      /\ "release" \in Points \ {"restart", "restore", "relGuests", "relGuestsMark"}
      /\ {"running", "paused"} \subseteq Active /\ "cancelled" \in Outcomes
      /\ "skipped" \in Steps
    BY ThreadAssumption
       DEF IInv, Thread, Backs, Points, Active, Outcomes, Steps, FinalSteps
<1>1. spent' \in [fault : Nat, crash : Nat, move : Nat, cancel : Nat, request : Nat]
    BY <1>0 DEF StartJob, PauseJob, ResumeJob, CancelJob, CreateAnother, SkipNode, Request, TypeOK
<1>2. CASE StartJob \/ PauseJob \/ ResumeJob
  <2>1. UNCHANGED <<opt, node, clusterVars, pc, eng, rel>>
    BY <1>2 DEF StartJob, PauseJob, ResumeJob
  <2>2. job' \in JobRow
    BY <1>0, <1>2 DEF StartJob, PauseJob, ResumeJob, TypeOK, JobRow
  <2>3. TypeOK'
    BY <1>0, <1>1, <2>1, <2>2 DEF TypeOK
  <2>4. Working'
    BY <1>0, <2>1, OtherWorking
  <2> QED
    BY <2>3, <2>4 DEF IInv
<1>3. CASE CancelJob \/ CreateAnother
  <2>1. /\ UNCHANGED <<opt, node, clusterVars, eng>>
        /\ pc' = [pc EXCEPT ![Api] = "release"] /\ rel' = [rel EXCEPT ![Api].back = "idle"]
        /\ job' = job \/ job' = Ended("cancelled")
    BY <1>3 DEF CancelJob, CreateAnother
  <2>2. rel' \in [Thread -> ReleaseLocals] /\ \A u \in Thread \ {Api} : rel'[u] = rel[u]
    BY <1>0, <2>1, BackTyped
  <2>3. job' \in JobRow
    BY <1>0, <2>1, EndedIsRow DEF TypeOK
  <2>4. TypeOK'
    BY <1>0, <1>1, <2>1, <2>2, <2>3 DEF TypeOK
  <2>5. Working'
    BY <1>0, <2>1, <2>2, WorkingKept
  <2> QED
    BY <2>4, <2>5 DEF IInv
<1>4. ASSUME NEW n \in Node, SkipNode(n)
      PROVE  IInv'
  <2>1. UNCHANGED <<opt, job, clusterVars, pc, eng, rel>>
    BY <1>4 DEF SkipNode
  <2>2. node' \in [Node -> NodeRow]
    BY <1>0, <1>4, SetStepTyped DEF SkipNode
  <2>3. TypeOK'
    BY <1>0, <1>1, <2>1, <2>2 DEF TypeOK
  <2>4. Working'
    BY <1>0, <2>1, OtherWorking
  <2> QED
    BY <2>3, <2>4 DEF IInv
<1> QED
    BY <1>2, <1>3, <1>4

(* Time, the cluster and crashes.                                           *)
LEMMA WorldTyped ==
    ASSUME IInv,
           \/ \E n \in Node : GoStale(n) \/ GoLate(n) \/ HostGoesDown(n) \/ HostBoots(n)
           \/ BackoffPasses \/ HourPasses \/ (\E g \in Guest : GuestMoves(g)) \/ Crash
    PROVE  IInv'
<1> USE DEF clusterVars
<1>0. TypeOK /\ Api \in Thread \ Engine
    BY ThreadAssumption DEF IInv, Thread
<1>1. ASSUME UNCHANGED <<pc, eng, rel>>
      PROVE  Working'
    BY <1>0, <1>1, OtherWorking
<1>2. ASSUME NEW n \in Node, GoStale(n) \/ GoLate(n)
      PROVE  IInv'
  <2>1. UNCHANGED <<opt, job, clusterVars, pc, eng, rel, spent>>
    BY <1>2 DEF GoStale, GoLate
  <2>2. /\ node' = [node EXCEPT ![n] = [node[n] EXCEPT !.stale = TRUE]]
           \/ node' = [node EXCEPT ![n] = [node[n] EXCEPT !.late = TRUE]]
        /\ node \in [Node -> NodeRow]
    BY <1>0, <1>2 DEF GoStale, GoLate, TypeOK
  <2>3. node' \in [Node -> NodeRow]
    BY <2>2, RowUpdates
  <2>4. TypeOK'
    BY <1>0, <2>1, <2>3 DEF TypeOK
  <2> QED
    BY <1>1, <2>1, <2>4 DEF IInv
<1>3. ASSUME NEW n \in Node, HostGoesDown(n) \/ HostBoots(n)
      PROVE  IInv'
  <2>1. UNCHANGED <<opt, job, node, drsOn, crsOn, rulesOff, at, moved, unmarked, pc, eng, rel, spent>>
    BY <1>3 DEF HostGoesDown, HostBoots
  <2>2. host' \in [Host -> {"up", "asked", "down", "fresh"}]
    BY <1>0, <1>3 DEF HostGoesDown, HostBoots, TypeOK
  <2>3. up' \in SUBSET Guest /\ killed' \in SUBSET Guest
    BY <1>0, <1>3 DEF HostGoesDown, HostBoots, TypeOK, RunningOn
  <2>4. TypeOK'
    BY <1>0, <2>1, <2>2, <2>3 DEF TypeOK
  <2> QED
    BY <1>1, <2>1, <2>4 DEF IInv
<1>4. CASE BackoffPasses \/ HourPasses
  <2>1. UNCHANGED <<opt, node, clusterVars, pc, eng, rel, spent>>
    BY <1>4 DEF BackoffPasses, HourPasses
  <2>2. job' \in JobRow
    <3>1. job \in JobRow
      BY <1>0 DEF TypeOK
    <3>2. job' = [job EXCEPT !.due = TRUE] \/ job' = [job EXCEPT !.old = TRUE]
      BY <1>4 DEF BackoffPasses, HourPasses
    <3> QED
      BY <3>1, <3>2 DEF JobRow
  <2>3. TypeOK'
    BY <1>0, <2>1, <2>2 DEF TypeOK
  <2> QED
    BY <1>1, <2>1, <2>3 DEF IInv
<1>5. ASSUME NEW g \in Guest, GuestMoves(g)
      PROVE  IInv'
  <2>1. UNCHANGED <<opt, job, node, drsOn, crsOn, rulesOff, up, host, killed, unmarked, pc, eng, rel>>
    BY <1>5 DEF GuestMoves
  <2>2. at' \in [Guest -> Host] /\ moved' \in SUBSET Guest
    BY <1>0, <1>5 DEF GuestMoves, TypeOK, Targets
  <2>3. spent' \in [fault : Nat, crash : Nat, move : Nat, cancel : Nat, request : Nat]
    BY <1>0, <1>5 DEF GuestMoves, TypeOK
  <2>4. TypeOK'
    BY <1>0, <2>1, <2>2, <2>3 DEF TypeOK
  <2> QED
    BY <1>1, <2>1, <2>4 DEF IInv
<1>6. CASE Crash
  <2>1. NoEngine \in EngineLocals /\ NoRelease \in ReleaseLocals /\ "idle" \in Points
    BY DEF NoEngine, EngineLocals, NewRow, NodeRow, Backs, Steps, NoRelease, ReleaseLocals, Points
  <2>2. spent' \in [fault : Nat, crash : Nat, move : Nat, cancel : Nat, request : Nat]
    BY <1>0, <1>6 DEF Crash, TypeOK
  <2>3. /\ pc' \in [Thread -> Points] /\ eng' \in [Engine -> EngineLocals]
        /\ rel' \in [Thread -> ReleaseLocals]
    BY <1>6, <2>1 DEF Crash
  <2>4. TypeOK'
    BY <1>0, <1>6, <2>2, <2>3 DEF Crash, TypeOK
  <2>5. Working'
    BY <1>6 DEF Crash, Working, Thread
  <2> QED
    BY <2>4, <2>5 DEF IInv
<1> QED
    BY <1>2, <1>3, <1>4, <1>5, <1>6

-----------------------------------------------------------------------------
(* The inductive invariant.                                                 *)

(* The states a job is created in satisfy it.                               *)
LEMMA InitInv ==
    Init => IInv
<1> SUFFICES ASSUME Init PROVE IInv
    OBVIOUS
<1>1. opt \in OptionSet /\ drsOn \in BOOLEAN /\ crsOn \in BOOLEAN
  <2>1. opt \in OptionSet
    BY OptionAssumption DEF Init
  <2>2. opt.drs \in BOOLEAN /\ opt.crs \in BOOLEAN
    BY <2>1 DEF OptionSet
  <2> QED
    BY <2>1, <2>2 DEF Init
<1>2. job \in JobRow
    BY DEF Init, JobRow, Active
<1>3. node \in [Node -> NodeRow]
    BY DEF Init, NewRow, NodeRow, Steps
<1>4. at \in [Guest -> Host] /\ host \in [Host -> {"up", "asked", "down", "fresh"}]
    BY NodeAssumption DEF Init
<1>5. eng \in [Engine -> EngineLocals]
    BY DEF Init, NoEngine, EngineLocals, NewRow, NodeRow, Steps, Backs
<1>6. rel \in [Thread -> ReleaseLocals] /\ pc \in [Thread -> Points]
    BY DEF Init, NoRelease, ReleaseLocals, Backs, Points
<1>7. spent \in [fault : Nat, crash : Nat, move : Nat, cancel : Nat, request : Nat]
    BY DEF Init
<1>8. /\ rulesOff \in SUBSET Rule /\ up \in SUBSET Guest /\ killed \in SUBSET Guest
      /\ moved \in SUBSET Guest /\ unmarked \in SUBSET {"drs", "crs"}
    BY DEF Init
<1>9. Working
    BY DEF Init, Working, Thread
<1> QED
    BY <1>1, <1>2, <1>3, <1>4, <1>5, <1>6, <1>7, <1>8, <1>9 DEF IInv, TypeOK

(* Every step of every thread, of a user and of the cluster keeps it.       *)
LEMMA StepInv ==
    IInv /\ [Next]_vars => IInv'
<1> SUFFICES ASSUME IInv, [Next]_vars PROVE IInv'
    OBVIOUS
<1>1. ASSUME NEW t \in Thread, Release(t) PROVE IInv'
    BY <1>1, ReleaseTyped, ReleaseWorking DEF IInv
<1>2. ASSUME NEW e \in Engine, EngineStep(e) PROVE IInv'
  <2>1. e \in Thread
    BY DEF Thread
  <2> QED
    BY <1>1, <1>2, <2>1, TickTyped, AdvanceTyped, AdvanceLongTyped, StartTyped, RulesTyped,
       DrainTyped DEF EngineStep
<1>3. ASSUME NEW n \in Node, WorkerStep(n) \/ ConfirmUpgrade(n) PROVE IInv'
  <2>1. n \in Thread
    BY DEF Thread
  <2> QED
    BY <1>1, <1>3, <2>1, WorkerTyped DEF WorkerStep
<1>4. CASE Release(Api)
    BY <1>1, <1>4 DEF Thread
<1>5. CASE UNCHANGED vars
    BY <1>5 DEF IInv, TypeOK, Working, HoldsGuests, vars, clusterVars
<1> QED
    BY <1>2, <1>3, <1>4, <1>5, RequestTyped, WorldTyped DEF Next

(* Type correctness of the rolling-update engine, its requests and its      *)
(* goroutines, for every set of nodes, hosts, guests, rules and options and *)
(* every number of ticks side by side: in particular a step of startNode,   *)
(* releaseJobState or the restore never works on a node it has not chosen.  *)
THEOREM TypeCorrect ==
    Spec => []TypeOK
<1>1. IInv => TypeOK
    BY DEF IInv
<1> QED
    BY <1>1, InitInv, StepInv, PTL DEF Spec

-----------------------------------------------------------------------------
(* The life cycle of the row of a job: whatever the ticks, the SSH          *)
(* goroutines, the requests and crashes do to it, its status and its        *)
(* cleanup flag go through the steps JobLifecycle allows and no others.     *)

(* What JobLifecycle's Retire and Arm rest on: the flag is up only on a     *)
(* finished job, and so it was when a release read it.                      *)
Flagged ==
    /\ job.cleanup => Terminal
    /\ \A t \in Thread : rel[t].pending => Terminal

LInv == IInv /\ Flagged

(* What a step does to the row, and to what the releases remember of it.    *)
RowKept   == job'.status = job.status /\ job'.cleanup = job.cleanup
RowEnds   == job.status \in Active /\ job'.status \in Outcomes /\ job'.cleanup = TRUE
RowArmed  == job.status \in Outcomes /\ job'.status = job.status /\ job'.cleanup = TRUE
RowMoves  ==
    /\ <<job.status, job'.status>> \in
            {<<"pending", "running">>, <<"running", "paused">>, <<"paused", "running">>}
    /\ job'.cleanup = job.cleanup
RowRetired ==
    /\ \E t \in Thread : rel[t].pending
    /\ job'.status = job.status /\ job'.cleanup = FALSE

RowStep == RowKept \/ RowEnds \/ RowArmed \/ RowMoves \/ RowRetired
PendingStep ==
    \A t \in Thread :
        /\ rel'[t].pending => rel[t].pending \/ job.cleanup
        /\ rel'[t].drs => rel[t].drs \/ job.drs
        /\ rel'[t].crs => rel[t].crs \/ job.crs

SameMemory(r, s) == r.pending = s.pending /\ r.drs = s.drs /\ r.crs = s.crs

(* Nothing a release remembers changes when a thread is told where to go    *)
(* back to, or works on its copies.                                         *)
LEMMA PendingKept ==
    ASSUME TypeOK, NEW t \in Thread, NEW r,
           rel' = [rel EXCEPT ![t] = r], SameMemory(r, rel[t]) \/ r = NoRelease
    PROVE  PendingStep
<1>1. NoRelease.pending = FALSE /\ NoRelease.drs = FALSE /\ NoRelease.crs = FALSE
    BY DEF NoRelease
<1> QED
    BY <1>1 DEF PendingStep, SameMemory, TypeOK

(* failNode only says where the release goes back to.                       *)
LEMMA FailNodePending ==
    ASSUME TypeOK, NEW rows, NEW t \in Thread, NEW n, NEW back, FailNodeIn(rows, t, n, back)
    PROVE  PendingStep
<1>1. CASE rel' = rel
    BY <1>1 DEF PendingStep
<1>2. CASE rel' = [rel EXCEPT ![t].back = back]
  <2>1. rel' = [rel EXCEPT ![t] = [rel[t] EXCEPT !.back = back]]
        /\ SameMemory([rel[t] EXCEPT !.back = back], rel[t])
    BY <1>2 DEF TypeOK, ReleaseLocals, SameMemory
  <2> QED
    BY <2>1, PendingKept
<1> QED
    BY <1>1, <1>2 DEF FailNodeIn

(* The same for a step that only sets it.                                   *)
LEMMA BackPending ==
    ASSUME TypeOK, NEW t \in Thread, NEW back,
           rel' = rel \/ rel' = [rel EXCEPT ![t].back = back]
    PROVE  PendingStep
<1>1. CASE rel' = rel
    BY <1>1 DEF PendingStep
<1>2. CASE rel' = [rel EXCEPT ![t].back = back]
  <2>1. rel' = [rel EXCEPT ![t] = [rel[t] EXCEPT !.back = back]]
        /\ SameMemory([rel[t] EXCEPT !.back = back], rel[t])
    BY <1>2 DEF TypeOK, ReleaseLocals, SameMemory
  <2> QED
    BY <2>1, PendingKept
<1> QED
    BY <1>1, <1>2

(* failJob and releaseJobState.                                             *)
LEMMA ReleaseLifecycle ==
    ASSUME LInv, NEW t \in Thread, Release(t)
    PROVE  RowStep /\ PendingStep
<1>0. TypeOK /\ job \in JobRow /\ rel \in [Thread -> ReleaseLocals] /\ rel[t] \in ReleaseLocals
    BY DEF LInv, IInv, TypeOK
<1>1. ASSUME rel' = rel PROVE PendingStep
    BY <1>1 DEF PendingStep
<1>2. ASSUME job' = job PROVE RowStep
    BY <1>2 DEF RowStep, RowKept
<1>3. CASE FailJob(t)
  <2>1. job' = job \/ (job.status \notin Outcomes /\ job' = Ended("failed"))
    BY <1>3 DEF FailJob, Terminal
  <2>2. job' = Ended("failed") => job'.status = "failed" /\ job'.cleanup = TRUE
    BY <1>0 DEF Ended, JobRow
  <2>3. job.status \in Active \cup Outcomes /\ "failed" \in Outcomes
    BY <1>0 DEF JobRow, Outcomes
  <2>4. RowStep
    BY <1>2, <2>1, <2>2, <2>3 DEF RowStep, RowEnds
  <2> QED
    BY <1>1, <1>3, <2>4 DEF FailJob
<1>4. CASE ReleaseRead(t)
  <2>1. job' = job /\ PendingStep
    BY <1>0, <1>4 DEF ReleaseRead, PendingStep
  <2> QED
    BY <1>2, <2>1
<1>5. CASE ReleaseNodes(t)
  <2> DEFINE r == [rel[t] EXCEPT !.stopped = [n \in Node |-> node[n].stopped]]
  <2>1. rel' = [rel EXCEPT ![t] = r] /\ SameMemory(r, rel[t]) /\ job' = job
    BY <1>0, <1>5 DEF ReleaseNodes, ReleaseLocals, SameMemory
  <2> HIDE DEF r
  <2> QED
    BY <1>0, <1>2, <2>1, PendingKept
<1>6. CASE ReleaseDRS(t)
    BY <1>1, <1>2, <1>6 DEF ReleaseDRS
<1>7. CASE ReleaseDRSMark(t) \/ ReleaseCRSMark(t)
  <2>1. RowKept /\ rel' = rel
    BY <1>0, <1>7 DEF ReleaseDRSMark, ReleaseCRSMark, RowKept, JobRow
  <2> QED
    BY <1>1, <2>1 DEF RowStep
<1>8. CASE ReleaseClient(t)
  <2>1. job' = job /\ (rel' = rel \/ rel' = [rel EXCEPT ![t] = NoRelease])
    BY <1>8 DEF ReleaseClient
  <2> QED
    BY <1>0, <1>1, <1>2, <2>1, PendingKept
<1>9. CASE ReleaseCRS(t)
  <2> DEFINE r == [rel[t] EXCEPT !.ok = FALSE]
  <2>1. job' = job /\ (rel' = rel \/ rel' = [rel EXCEPT ![t] = r]) /\ SameMemory(r, rel[t])
    BY <1>0, <1>9 DEF ReleaseCRS, ReleaseLocals, SameMemory
  <2> HIDE DEF r
  <2> QED
    BY <1>0, <1>1, <1>2, <2>1, PendingKept
<1>10. CASE ReleaseRules(t)
  <2>1. PICK refused \in SUBSET rel[t].rules : rel' = [rel EXCEPT ![t].rules = refused]
    BY <1>10 DEF ReleaseRules
  <2> DEFINE r == [rel[t] EXCEPT !.rules = refused]
  <2>2. rel' = [rel EXCEPT ![t] = r] /\ SameMemory(r, rel[t]) /\ job' = job
    BY <1>0, <1>10, <2>1 DEF ReleaseRules, ReleaseLocals, SameMemory
  <2> HIDE DEF r
  <2> QED
    BY <1>0, <1>2, <2>2, PendingKept
<1>11. CASE ReleaseRulesMark(t)
  <2> DEFINE r == [rel[t] EXCEPT !.ok = rel[t].ok /\ rel[t].rules = {}]
  <2>1. rel' = [rel EXCEPT ![t] = r] /\ SameMemory(r, rel[t])
    BY <1>0, <1>11 DEF ReleaseRulesMark, ReleaseLocals, SameMemory
  <2>2. RowKept
    BY <1>0, <1>11 DEF ReleaseRulesMark, RowKept, JobRow
  <2> HIDE DEF r
  <2> QED
    BY <1>0, <2>1, <2>2, PendingKept DEF RowStep
<1>12. CASE ReleaseGuests(t)
  <2> DEFINE n    == HeldNode(t)
             list == rel[t].stopped[n]
             keep == IF rel[t].prune THEN list \ up ELSE list
             ok   == rel[t].ok /\ keep = {}
             S    == [rel[t].stopped EXCEPT ![n] = IF keep = list THEN {} ELSE @]
             r    == [rel[t] EXCEPT !.keep = keep, !.ok = ok, !.stopped = S]
  <2>1. rel' = [rel EXCEPT ![t] = r] /\ job' = job
    BY <1>12 DEF ReleaseGuests
  <2> HIDE DEF keep, ok, S
  <2>2. SameMemory(r, rel[t])
    BY <1>0 DEF ReleaseLocals, SameMemory
  <2> HIDE DEF r
  <2> QED
    BY <1>0, <1>2, <2>1, <2>2, PendingKept
<1>13. CASE ReleaseGuestsUnseen(t)
  <2> DEFINE S == [rel[t].stopped EXCEPT ![HeldNode(t)] = {}]
             r == [rel[t] EXCEPT !.ok = FALSE, !.stopped = S]
  <2>1. rel' = [rel EXCEPT ![t] = r] /\ job' = job
    BY <1>13, Zenon DEF ReleaseGuestsUnseen
  <2> HIDE DEF S
  <2>2. SameMemory(r, rel[t])
    BY <1>0 DEF ReleaseLocals, SameMemory
  <2> HIDE DEF r
  <2> QED
    BY <1>0, <1>2, <2>1, <2>2, PendingKept
<1>14. CASE ReleaseGuestsMark(t)
  <2> DEFINE S == [rel[t].stopped EXCEPT ![HeldNode(t)] = {}]
             r == [rel[t] EXCEPT !.stopped = S]
  <2>1. rel' = [rel EXCEPT ![t] = r] /\ job' = job
    BY <1>14, ZenonT(60) DEF ReleaseGuestsMark
  <2> HIDE DEF S
  <2>2. SameMemory(r, rel[t])
    BY <1>0 DEF ReleaseLocals, SameMemory
  <2> HIDE DEF r
  <2> QED
    BY <1>0, <1>2, <2>1, <2>2, PendingKept
<1>15. CASE ReleaseClear(t)
  <2>1. PendingStep
    BY <1>0, <1>15, PendingKept DEF ReleaseClear
  <2>2. CASE job' = job
    BY <1>2, <2>1, <2>2
  <2>3. CASE rel[t].pending /\ job' = [job EXCEPT !.cleanup = FALSE, !.due = FALSE]
    BY <1>0, <2>1, <2>3 DEF JobRow, RowStep, RowRetired
  <2> QED
    BY <1>15, <2>2, <2>3 DEF ReleaseClear
<1> QED
    BY <1>3, <1>4, <1>5, <1>6, <1>7, <1>8, <1>9, <1>10, <1>11, <1>12, <1>13, <1>14, <1>15
       DEF Release

(* Everything else an engine tick does.                                     *)
LEMMA EngineLifecycle ==
    ASSUME LInv, NEW e \in Engine, EngineStep(e)
    PROVE  RowStep /\ PendingStep
<1>0. TypeOK /\ job \in JobRow /\ e \in Thread
    BY DEF LInv, IInv, TypeOK, Thread
<1>1. ASSUME rel' = rel PROVE PendingStep
    BY <1>1 DEF PendingStep
<1>2. ASSUME job' = job PROVE RowStep
    BY <1>2 DEF RowStep, RowKept
<1>3. ASSUME NEW rules, job' = WithRules(rules) PROVE RowStep
  <2>1. /\ job'.status = job.status
        /\ job'.cleanup = (job.cleanup \/ Terminal)
    BY <1>0, <1>3 DEF WithRules, JobRow
  <2>2. CASE Terminal
    BY <2>1, <2>2 DEF RowStep, RowArmed, Terminal
  <2>3. CASE ~Terminal
    <3>1. job.cleanup \in BOOLEAN
      BY <1>0 DEF JobRow
    <3>2. job'.cleanup = job.cleanup
      BY <2>1, <2>3, <3>1
    <3> QED
      BY <2>1, <3>2 DEF RowStep, RowKept
  <2> QED
    BY <2>2, <2>3
<1>4. CASE \/ Tick(e) \/ DisableDRSOff(e) \/ CreateClient(e) \/ PauseCRS(e) \/ ListNodes(e)
           \/ RestartGuests(e) \/ RestoreGuest(e) \/ RestoreDone(e) \/ StartNext(e)
           \/ DisableRules(e) \/ DrainCheck(e) \/ RecordStopped(e)
  <2>1. job' = job /\ rel' = rel
    BY <1>4 DEF Tick, DisableDRSOff, CreateClient, PauseCRS, ListNodes, RestartGuests,
                RestoreGuest, RestoreDone, StartNext, DisableRules, DrainCheck, RecordStopped
  <2> QED
    BY <1>1, <1>2, <2>1
<1>5. ASSUME NEW n \in Node,
             \/ AdvanceRefused(e, n) \/ AdvanceWaits(e, n) \/ AdvanceTimedOut(e, n)
             \/ AdvanceDraining(e, n) \/ AdvanceUpgrading(e, n) \/ AdvanceRebooted(e, n)
             \/ AdvanceHealthCheck(e, n) \/ AdvanceRestoreTimedOut(e, n)
      PROVE  RowStep /\ PendingStep
  <2>1. job' = job
    BY <1>5 DEF AdvanceRefused, AdvanceWaits, AdvanceTimedOut, AdvanceDraining, AdvanceUpgrading,
                AdvanceRebooted, AdvanceHealthCheck, AdvanceRestoreTimedOut
  <2>2. rel' = rel \/ \E rows : FailNodeIn(rows, e, n, "advance")
    <3>1. CASE \/ AdvanceRefused(e, n) \/ AdvanceWaits(e, n) \/ AdvanceTimedOut(e, n)
               \/ AdvanceUpgrading(e, n) \/ AdvanceRebooted(e, n) \/ AdvanceRestoreTimedOut(e, n)
      BY <3>1 DEF AdvanceRefused, AdvanceWaits, AdvanceTimedOut, AdvanceUpgrading,
                  AdvanceRebooted, AdvanceRestoreTimedOut, FailNode
    <3>2. CASE AdvanceDraining(e, n)
      BY <3>2, Zenon DEF AdvanceDraining
    <3>3. CASE AdvanceHealthCheck(e, n)
      BY <3>3, Zenon DEF AdvanceHealthCheck
    <3> QED
      BY <1>5, <3>1, <3>2, <3>3
  <2> QED
    BY <1>0, <1>1, <1>2, <2>1, <2>2, FailNodePending
<1>6. CASE DisableDRS(e)
  <2>1. rel' = rel /\ (job' = job \/ job' = [job EXCEPT !.drs = TRUE, !.due = FALSE])
    BY <1>6, Zenon DEF DisableDRS
  <2>2. RowKept
    BY <1>0, <2>1 DEF RowKept, JobRow
  <2> QED
    BY <1>1, <2>1, <2>2 DEF RowStep
<1>7. CASE RecordCRS(e)
  <2>1. rel' = rel /\ (job' = job \/ job' = [job EXCEPT !.crs = TRUE, !.due = FALSE])
    BY <1>7, Zenon DEF RecordCRS
  <2>2. RowKept
    BY <1>0, <2>1 DEF RowKept, JobRow
  <2> QED
    BY <1>1, <2>1, <2>2 DEF RowStep
<1>8. CASE FailCheck(e)
    BY <1>0, <1>2, <1>8, BackPending DEF FailCheck
<1>9. CASE StartNode(e)
  <2>1. job' = job /\ (rel' = rel \/ FailNodeIn(node, e, eng[e].n, "done"))
    BY <1>9 DEF StartNode, FailNode
  <2> QED
    BY <1>0, <1>1, <1>2, <2>1, FailNodePending
<1>10. CASE StartCheck(e)
  <2>1. rel' = rel \/ \E rows : FailNodeIn(rows, e, eng[e].n, "done")
    BY <1>10, Zenon DEF StartCheck
  <2>2. job' = job \/ \E rules : job' = WithRules(rules)
    BY <1>10, Zenon DEF StartCheck
  <2> QED
    BY <1>0, <1>1, <1>2, <1>3, <2>1, <2>2, FailNodePending
<1>11. CASE RerecordRules(e)
    BY <1>1, <1>3, <1>11 DEF RerecordRules
<1>12. CASE CheckAfterRules(e)
  <2>1. job' = job /\ (rel' = rel \/ rel' = [rel EXCEPT ![e].back = "done"])
    BY <1>12, Zenon DEF CheckAfterRules
  <2> QED
    BY <1>0, <1>2, <2>1, BackPending
<1>13. CASE DrainStart(e)
  <2>1. job' = job /\ (rel' = rel \/ \E rows : FailNodeIn(rows, e, eng[e].n, "done"))
    BY <1>13, Zenon DEF DrainStart
  <2> QED
    BY <1>0, <1>1, <1>2, <2>1, FailNodePending
<1>14. CASE DrainGuest(e) \/ StopPassthrough(e) \/ VerifyDrained(e)
  <2>1. job' = job /\ (rel' = rel \/ FailNodeIn(node, e, eng[e].n, eng[e].back))
    BY <1>14 DEF DrainGuest, StopPassthrough, VerifyDrained, FailNode
  <2> QED
    BY <1>0, <1>1, <1>2, <2>1, FailNodePending
<1>15. CASE FinishJob(e)
  <2>1. job' = job \/ (~Terminal /\ job' = Ended("completed"))
    BY <1>15 DEF FinishJob
  <2>2. rel' = rel \/ rel' = [rel EXCEPT ![e].back = "sweep"]
    BY <1>15 DEF FinishJob
  <2>3. job' = Ended("completed") => job'.status = "completed" /\ job'.cleanup = TRUE
    BY <1>0 DEF Ended, JobRow
  <2>4. job.status \in Active \cup Outcomes /\ "completed" \in Outcomes
    BY <1>0 DEF JobRow, Outcomes
  <2>5. RowStep
    BY <1>2, <2>1, <2>3, <2>4 DEF RowStep, RowEnds, Terminal
  <2> QED
    BY <1>0, <2>2, <2>5, BackPending
<1>16. CASE Sweep(e)
  <2>1. rel' = rel \/ rel' = [rel EXCEPT ![e].back = "idle"]
    BY <1>16 DEF Sweep
  <2>2. job' = job \/ job' = [job EXCEPT !.due = FALSE]
    BY <1>16 DEF Sweep
  <2>3. RowKept
    BY <1>0, <2>2 DEF RowKept, JobRow
  <2> QED
    BY <1>0, <2>1, <2>3, BackPending DEF RowStep
<1>17. CASE Release(e)
    BY <1>0, <1>17, ReleaseLifecycle
<1> QED
    BY <1>4, <1>5, <1>6, <1>7, <1>8, <1>9, <1>10, <1>11, <1>12, <1>13, <1>14, <1>15, <1>16,
       <1>17 DEF EngineStep

(* The goroutines, the requests, time, the cluster and crashes.             *)
LEMMA OtherLifecycle ==
    ASSUME LInv,
           \/ \E n \in Node : WorkerStep(n) \/ ConfirmUpgrade(n) \/ SkipNode(n)
           \/ Release(Api)
           \/ StartJob \/ PauseJob \/ ResumeJob \/ CancelJob \/ CreateAnother
           \/ \E n \in Node : GoStale(n) \/ GoLate(n) \/ HostGoesDown(n) \/ HostBoots(n)
           \/ BackoffPasses \/ HourPasses
           \/ \E g \in Guest : GuestMoves(g)
           \/ Crash
    PROVE  RowStep /\ PendingStep
<1>0. /\ TypeOK /\ job \in JobRow /\ Api \in Thread /\ Node \subseteq Thread
      /\ rel \in [Thread -> ReleaseLocals]
    BY DEF LInv, IInv, TypeOK, Thread
<1>1. ASSUME rel' = rel PROVE PendingStep
    BY <1>1 DEF PendingStep
<1>2. ASSUME job' = job PROVE RowStep
    BY <1>2 DEF RowStep, RowKept
<1>3. ASSUME NEW n \in Node,
             \/ SSHUpgrade(n) \/ SSHDecide(n) \/ SSHMarkReboot(n) \/ SSHReboot(n)
             \/ ConfirmReboot(n) \/ ConfirmMark(n) \/ ConfirmUpgrade(n) \/ SkipNode(n)
      PROVE  RowStep /\ PendingStep
  <2>1. job' = job
    BY <1>3 DEF SSHUpgrade, SSHDecide, SSHMarkReboot, SSHReboot, ConfirmReboot, ConfirmMark,
                ConfirmUpgrade, SkipNode
  <2>2. rel' = rel \/ \E rows : FailNodeIn(rows, n, n, "idle")
    <3>1. CASE SSHUpgrade(n) \/ SSHMarkReboot(n) \/ SSHReboot(n) \/ ConfirmReboot(n)
               \/ ConfirmMark(n) \/ SkipNode(n)
      BY <3>1, Zenon DEF SSHUpgrade, SSHMarkReboot, SSHReboot, ConfirmReboot, ConfirmMark,
                  SkipNode, FailNode
    <3>2. CASE SSHDecide(n)
      BY <3>2, Zenon DEF SSHDecide, FailNode
    <3>3. CASE ConfirmUpgrade(n)
      BY <3>3, Zenon DEF ConfirmUpgrade, FailNode
    <3> QED
      BY <1>3, <3>1, <3>2, <3>3
  <2> QED
    BY <1>0, <1>1, <1>2, <2>1, <2>2, FailNodePending
<1>4. ASSUME NEW n \in Node, WorkerStep(n)
      PROVE  RowStep /\ PendingStep
  <2>1. CASE Release(n)
    BY <1>0, <2>1, ReleaseLifecycle
  <2> QED
    BY <1>3, <1>4, <2>1 DEF WorkerStep
<1>5. CASE Release(Api)
    BY <1>0, <1>5, ReleaseLifecycle
<1>6. CASE StartJob \/ PauseJob \/ ResumeJob
  <2>1. rel' = rel
    BY <1>6 DEF StartJob, PauseJob, ResumeJob
  <2>2. RowMoves
    BY <1>0, <1>6 DEF StartJob, PauseJob, ResumeJob, RowMoves, JobRow
  <2> QED
    BY <1>1, <2>1, <2>2 DEF RowStep
<1>7. CASE CancelJob
  <2>1. RowEnds
    BY <1>0, <1>7 DEF CancelJob, RowEnds, Ended, JobRow, Outcomes
  <2>2. PendingStep
    BY <1>0, <1>7, BackPending DEF CancelJob
  <2> QED
    BY <2>1, <2>2 DEF RowStep
<1>8. CASE CreateAnother
    BY <1>0, <1>2, <1>8, BackPending DEF CreateAnother
<1>9. CASE \/ \E n \in Node : GoStale(n) \/ GoLate(n) \/ HostGoesDown(n) \/ HostBoots(n)
           \/ \E g \in Guest : GuestMoves(g)
    BY <1>1, <1>2, <1>9 DEF GoStale, GoLate, HostGoesDown, HostBoots, GuestMoves
<1>10. CASE BackoffPasses \/ HourPasses
  <2>1. RowKept /\ rel' = rel
    BY <1>0, <1>10 DEF BackoffPasses, HourPasses, RowKept, JobRow
  <2> QED
    BY <1>1, <2>1 DEF RowStep
<1>11. CASE Crash
  <2>1. PendingStep
    BY <1>11 DEF Crash, NoRelease, PendingStep
  <2> QED
    BY <1>2, <1>11, <2>1 DEF Crash
<1> QED
    BY <1>3, <1>4, <1>5, <1>6, <1>7, <1>8, <1>9, <1>10, <1>11

(* Every step of the system is one of RowStep and PendingStep.              *)
LEMMA StepsTheRow ==
    ASSUME LInv, [Next]_vars
    PROVE  RowStep /\ PendingStep
<1>1. CASE UNCHANGED vars
    BY <1>1 DEF vars, RowStep, RowKept, PendingStep
<1> QED
    BY <1>1, EngineLifecycle, OtherLifecycle DEF Next

(* The flag stays with finished jobs.                                       *)
LEMMA StepFlagged ==
    LInv /\ [Next]_vars => LInv'
<1> SUFFICES ASSUME LInv, [Next]_vars PROVE LInv'
    OBVIOUS
<1>1. IInv'
    BY StepInv DEF LInv
<1>2. RowStep /\ PendingStep
    BY StepsTheRow
<1>3. job.cleanup \in BOOLEAN /\ job'.cleanup \in BOOLEAN
    BY <1>1 DEF LInv, IInv, TypeOK, JobRow
<1>4. Terminal => Terminal'
  <2>1. Active \cap Outcomes = {}
    BY DEF Active, Outcomes
  <2>2. {"pending", "running", "paused"} = Active
    BY DEF Active
  <2> QED
    BY <1>2, <2>1, <2>2
       DEF Terminal, RowStep, RowKept, RowEnds, RowArmed, RowMoves, RowRetired
<1>5. job'.cleanup => Terminal'
    BY <1>2, <1>4
       DEF LInv, Flagged, Terminal, RowStep, RowKept, RowEnds, RowArmed, RowMoves, RowRetired
<1>6. \A t \in Thread : rel'[t].pending => Terminal'
    BY <1>2, <1>4 DEF LInv, Flagged, PendingStep
<1> QED
    BY <1>1, <1>5, <1>6 DEF LInv, Flagged

(* Every step of the system is a step of JobLifecycle, or none at all.      *)
LEMMA StepRefines ==
    LInv /\ [Next]_vars => [Lifecycle!Next]_<<job.status, job.cleanup>>
<1> SUFFICES ASSUME LInv, [Next]_vars, ~RowKept PROVE Lifecycle!Next
    BY DEF RowKept
<1>1. RowStep
    BY StepsTheRow
<1>2. job.cleanup \in BOOLEAN
    BY DEF LInv, IInv, TypeOK, JobRow
<1>3. CASE RowEnds
    BY <1>3 DEF RowEnds, Lifecycle!Next, Lifecycle!Finish, Lifecycle!Active, Lifecycle!Outcomes,
                Active, Outcomes
<1>4. CASE RowArmed
  <2>1. job.cleanup = FALSE
    BY <1>2, <1>4 DEF RowArmed, RowKept
  <2> QED
    BY <1>4, <2>1 DEF RowArmed, Lifecycle!Next, Lifecycle!Arm, Lifecycle!Outcomes, Outcomes
<1>5. CASE RowMoves
    BY <1>5 DEF RowMoves, Lifecycle!Next, Lifecycle!Start, Lifecycle!Pause, Lifecycle!Resume
<1>6. CASE RowRetired
  <2>1. job.cleanup = TRUE
    BY <1>2, <1>6 DEF RowRetired, RowKept
  <2>2. job.status \in Outcomes
    BY <1>6 DEF RowRetired, LInv, Flagged, Terminal
  <2> QED
    BY <1>6, <2>1, <2>2
       DEF RowRetired, Lifecycle!Next, Lifecycle!Retire, Lifecycle!Outcomes, Outcomes
<1> QED
    BY <1>1, <1>3, <1>4, <1>5, <1>6 DEF RowStep

(* The engine with its goroutines and requests implements JobLifecycle: a   *)
(* job is started once, reaches one outcome that no late failure, cancel or *)
(* completion takes back, and is swept only once it has one                 *)
(* (the guards of queries/rolling_updates.sql).                             *)
THEOREM ImplementsLifecycle ==
    Spec => LifecycleSpec
<1>1. Init => LInv
  <2>1. Init => Flagged
    BY DEF Init, Flagged, NoRelease
  <2> QED
    BY <2>1, InitInv DEF LInv
<1>2. Init => Lifecycle!Init
    BY DEF Init, Lifecycle!Init
<1> QED
    BY <1>1, <1>2, StepFlagged, StepRefines, PTL DEF Spec, LifecycleSpec, Lifecycle!Spec

-----------------------------------------------------------------------------
(* The HA rules of a job that is not over.                                  *)

(* The control points of releaseJobState.                                   *)
RelPoints ==
    {"release", "relNodes", "relDrs", "relDrsMark", "relClient", "relCrs", "relCrsMark",
     "relRules", "relRulesMark", "relGuests", "relGuestsMark", "relClear"}

(* Only the state of a finished job is released.                            *)
Ending == \A t \in Thread : pc[t] \in RelPoints => Terminal

(* A step that begins a release finds or makes the job finished.            *)
BeginStep == \A t \in Thread : pc'[t] \in RelPoints => pc[t] \in RelPoints \/ Terminal'

(* What a thread goes back to is no part of the release.                    *)
LEMMA BacksNoRelease ==
    /\ Backs \cap RelPoints = {} /\ "failJob" \notin RelPoints
    /\ TypeOK => \A e \in Engine : eng[e].back \notin RelPoints
<1>1. Backs \cap RelPoints = {} /\ "failJob" \notin RelPoints
    BY DEF Backs, RelPoints
<1> QED
    BY <1>1 DEF TypeOK, EngineLocals

(* A thread that goes elsewhere begins none.                                *)
LEMMA GotoBegins ==
    ASSUME TypeOK, NEW t \in Thread, NEW p, p \notin RelPoints, pc' = [pc EXCEPT ![t] = p]
    PROVE  BeginStep
BY DEF BeginStep, TypeOK

(* failNode begins none yet.                                                *)
LEMMA FailNodeBegins ==
    ASSUME TypeOK, NEW rows, NEW t \in Thread, NEW n, NEW back, back \notin RelPoints,
           FailNodeIn(rows, t, n, back)
    PROVE  BeginStep
<1>1. pc' = [pc EXCEPT ![t] = back] \/ pc' = [pc EXCEPT ![t] = "failJob"]
    BY DEF FailNodeIn, Goto
<1> QED
    BY <1>1, GotoBegins, BacksNoRelease

(* The outcome of a job is an outcome.                                      *)
LEMMA EndedTerminal ==
    ASSUME job \in JobRow, NEW s \in Outcomes, job' = Ended(s)
    PROVE  Terminal'
BY DEF Ended, JobRow, Terminal

(* The release works on a finished job from its first step to its last.     *)
LEMMA ReleaseBegins ==
    ASSUME LInv, Ending, NEW t \in Thread, Release(t), Terminal => Terminal'
    PROVE  BeginStep
<1>1. CASE FailJob(t)
  <2>1. job \in JobRow /\ "failed" \in Outcomes
    BY DEF LInv, IInv, TypeOK, Outcomes
  <2>2. Terminal'
    BY <1>1, <2>1, EndedTerminal DEF FailJob
  <2> QED
    BY <2>2 DEF BeginStep
<1>2. CASE pc[t] \in RelPoints
    BY <1>2 DEF Ending, BeginStep
<1> QED
    BY <1>1, <1>2
       DEF Release, ReleaseRead, ReleaseNodes, ReleaseDRS, ReleaseDRSMark, ReleaseClient,
           ReleaseCRS, ReleaseCRSMark, ReleaseRules, ReleaseRulesMark, ReleaseGuests,
           ReleaseGuestsUnseen, ReleaseGuestsMark, ReleaseClear, RelPoints

(* A tick begins one when it completes a job, and on one that has ended.    *)
LEMMA EngineBegins ==
    ASSUME LInv, Ending, NEW e \in Engine, EngineStep(e), Terminal => Terminal'
    PROVE  BeginStep
<1>0. TypeOK /\ job \in JobRow /\ e \in Thread /\ pc \in [Thread -> Points] /\ Node \subseteq Thread
    BY DEF LInv, IInv, TypeOK, Thread
<1>1. ASSUME pc' = pc PROVE BeginStep
    BY <1>1 DEF BeginStep
<1>2. ASSUME NEW p, p \notin RelPoints, Goto(e, p) PROVE BeginStep
    BY <1>0, <1>2, GotoBegins DEF Goto
<1>3. eng[e].back \notin RelPoints
      /\ {"idle", "advance", "done", "sweep"} \cap RelPoints = {}
    BY <1>0, BacksNoRelease DEF RelPoints
<1>4. CASE \/ Tick(e) \/ DisableDRS(e) \/ DisableDRSOff(e) \/ CreateClient(e) \/ PauseCRS(e)
           \/ RecordCRS(e) \/ ListNodes(e) \/ RestartGuests(e) \/ RestoreDone(e) \/ FailCheck(e)
           \/ StartNext(e) \/ DisableRules(e) \/ RerecordRules(e) \/ RecordStopped(e)
  <2>1. \E p \in {"drs", "sweep", "drsOff", "client", "crs", "crsMark", "nodes", "advance",
                  "restore", "failJob", "start", "begin", "done", "ruleRec", "ruleChk",
                  "ptStop"} : Goto(e, p)
    BY <1>4, Zenon DEF Tick, DisableDRS, DisableDRSOff, CreateClient, PauseCRS, RecordCRS,
       ListNodes, RestartGuests, RestoreDone, FailCheck, StartNext, DisableRules, RerecordRules,
       RecordStopped
  <2> QED
    BY <1>2, <2>1 DEF RelPoints
<1>5. ASSUME NEW n \in Node,
             \/ AdvanceRefused(e, n) \/ AdvanceWaits(e, n) \/ AdvanceTimedOut(e, n)
             \/ AdvanceDraining(e, n) \/ AdvanceUpgrading(e, n) \/ AdvanceRebooted(e, n)
             \/ AdvanceHealthCheck(e, n) \/ AdvanceRestoreTimedOut(e, n)
      PROVE  BeginStep
  <2>1. \/ pc' = pc \/ Goto(e, "verify") \/ Goto(e, "drain") \/ Goto(e, "restart")
        \/ pc' = [pc EXCEPT ![n] = IF pc[n] = "idle" THEN "apt" ELSE pc[n]]
        \/ \E rows : FailNodeIn(rows, e, n, "advance")
    <3>1. CASE AdvanceRefused(e, n) \/ AdvanceWaits(e, n) \/ AdvanceTimedOut(e, n)
               \/ AdvanceUpgrading(e, n) \/ AdvanceRebooted(e, n) \/ AdvanceRestoreTimedOut(e, n)
      BY <3>1, Zenon DEF AdvanceRefused, AdvanceWaits, AdvanceTimedOut, AdvanceUpgrading,
                  AdvanceRebooted, AdvanceRestoreTimedOut, FailNode
    <3>2. CASE AdvanceDraining(e, n)
      BY <3>2, Zenon DEF AdvanceDraining
    <3>3. CASE AdvanceHealthCheck(e, n)
      BY <3>3, Zenon DEF AdvanceHealthCheck
    <3> QED
      BY <1>5, <3>1, <3>2, <3>3
  <2>2. CASE pc' = [pc EXCEPT ![n] = IF pc[n] = "idle" THEN "apt" ELSE pc[n]]
    BY <1>0, <2>2 DEF BeginStep, RelPoints
  <2>3. CASE Goto(e, "verify") \/ Goto(e, "drain") \/ Goto(e, "restart")
    BY <1>2, <2>3 DEF RelPoints
  <2>4. CASE \E rows : FailNodeIn(rows, e, n, "advance")
    BY <1>0, <1>3, <2>4, FailNodeBegins
  <2> QED
    BY <1>1, <2>1, <2>2, <2>3, <2>4
<1>6. CASE StartNode(e) \/ StartCheck(e) \/ DrainStart(e)
  <2>1. \/ \E p \in {"done", "check", "drainStart", "ruleOff", "verify", "drain"} : Goto(e, p)
        \/ \E rows : FailNodeIn(rows, e, eng[e].n, "done")
    <3>1. CASE StartNode(e)
      BY <3>1, Zenon DEF StartNode, FailNode
    <3>2. CASE StartCheck(e)
      BY <3>2, Zenon DEF StartCheck
    <3>3. CASE DrainStart(e)
      BY <3>3, Zenon DEF DrainStart
    <3> QED
      BY <1>6, <3>1, <3>2, <3>3
  <2>2. CASE \E p \in {"done", "check", "drainStart", "ruleOff", "verify", "drain"} : Goto(e, p)
    BY <1>2, <2>2 DEF RelPoints
  <2> QED
    BY <1>0, <1>3, <2>1, <2>2, FailNodeBegins
<1>7. CASE DrainCheck(e) \/ DrainGuest(e) \/ StopPassthrough(e) \/ VerifyDrained(e)
  <2>1. \/ \E p \in {"verify", "guest", "drain", eng[e].back} : Goto(e, p)
        \/ FailNodeIn(node, e, eng[e].n, eng[e].back)
    BY <1>7, Zenon DEF DrainCheck, DrainGuest, StopPassthrough, VerifyDrained, FailNode
  <2>2. CASE \E p \in {"verify", "guest", "drain", eng[e].back} : Goto(e, p)
    BY <1>2, <1>3, <2>2 DEF RelPoints
  <2> QED
    BY <1>0, <1>3, <2>1, <2>2, FailNodeBegins
<1>8. CASE CheckAfterRules(e)
  <2>1. CASE job.status = "cancelled"
    <3>1. Terminal'
      BY <2>1 DEF Terminal, Outcomes
    <3> QED
      BY <3>1 DEF BeginStep
  <2>2. CASE job.status # "cancelled"
    <3>1. \E p \in {"drainStart", "done"} : Goto(e, p)
      BY <1>8, <2>2, Zenon DEF CheckAfterRules
    <3> QED
      BY <1>2, <3>1 DEF RelPoints
  <2> QED
    BY <2>1, <2>2
<1>9. CASE FinishJob(e)
  <2>1. Goto(e, "sweep") \/ Goto(e, "failJob") \/ job' = Ended("completed")
    BY <1>9, Zenon DEF FinishJob
  <2>2. "completed" \in Outcomes
    BY DEF Outcomes
  <2>3. CASE job' = Ended("completed")
    BY <1>0, <2>2, <2>3, EndedTerminal DEF BeginStep
  <2> QED
    BY <1>2, <2>1, <2>3 DEF RelPoints
<1>10. CASE Sweep(e)
  <2>1. Terminal \/ Goto(e, "idle")
    BY <1>10 DEF Sweep
  <2> QED
    BY <1>2, <1>3, <2>1 DEF BeginStep
<1>11. CASE RestoreGuest(e)
    BY <1>1, <1>11 DEF RestoreGuest
<1> QED
    BY <1>0, <1>4, <1>5, <1>6, <1>7, <1>8, <1>9, <1>10, <1>11, ReleaseBegins DEF EngineStep

(* The goroutines, the requests, time, the cluster and crashes.             *)
LEMMA OtherBegins ==
    ASSUME LInv, Ending, Terminal => Terminal',
           \/ \E n \in Node : WorkerStep(n) \/ ConfirmUpgrade(n) \/ SkipNode(n)
           \/ Release(Api)
           \/ StartJob \/ PauseJob \/ ResumeJob \/ CancelJob \/ CreateAnother
           \/ \E n \in Node : GoStale(n) \/ GoLate(n) \/ HostGoesDown(n) \/ HostBoots(n)
           \/ BackoffPasses \/ HourPasses
           \/ \E g \in Guest : GuestMoves(g)
           \/ Crash
    PROVE  BeginStep
<1>0. TypeOK /\ job \in JobRow /\ Api \in Thread /\ Node \subseteq Thread
    BY DEF LInv, IInv, TypeOK, Thread
<1>1. ASSUME pc' = pc PROVE BeginStep
    BY <1>1 DEF BeginStep
<1>2. ASSUME NEW n \in Node,
             \/ SSHUpgrade(n) \/ SSHDecide(n) \/ SSHMarkReboot(n) \/ SSHReboot(n)
             \/ ConfirmReboot(n) \/ ConfirmMark(n) \/ ConfirmUpgrade(n) \/ SkipNode(n)
      PROVE  BeginStep
  <2>1. \/ \E p \in {"idle", "rebootCheck", "rebootMark", "reboot", "confHealth", "confReboot",
                     "confMark"} : Goto(n, p)
        \/ \E rows : FailNodeIn(rows, n, n, "idle")
        \/ pc' = pc
    <3>1. CASE SSHUpgrade(n) \/ SSHMarkReboot(n) \/ SSHReboot(n) \/ ConfirmReboot(n)
               \/ ConfirmMark(n) \/ SkipNode(n)
      BY <3>1, Zenon DEF SSHUpgrade, SSHMarkReboot, SSHReboot, ConfirmReboot, ConfirmMark,
                  SkipNode, FailNode
    <3>2. CASE SSHDecide(n)
      BY <3>2, Zenon DEF SSHDecide, FailNode
    <3>3. CASE ConfirmUpgrade(n)
      BY <3>3, Zenon DEF ConfirmUpgrade, FailNode
    <3> QED
      BY <1>2, <3>1, <3>2, <3>3
  <2>2. CASE \E p \in {"idle", "rebootCheck", "rebootMark", "reboot", "confHealth", "confReboot",
                       "confMark"} : Goto(n, p)
    <3>1. PICK p \in {"idle", "rebootCheck", "rebootMark", "reboot", "confHealth", "confReboot",
                      "confMark"} : pc' = [pc EXCEPT ![n] = p]
      BY <2>2 DEF Goto
    <3>2. p \notin RelPoints
      BY DEF RelPoints
    <3> QED
      BY <1>0, <3>1, <3>2, GotoBegins
  <2>3. "idle" \notin RelPoints
    BY DEF RelPoints
  <2> QED
    BY <1>0, <1>1, <2>1, <2>2, <2>3, FailNodeBegins
<1>3. ASSUME NEW n \in Node, WorkerStep(n)
      PROVE  BeginStep
  <2>1. CASE Release(n)
    BY <1>0, <2>1, ReleaseBegins
  <2> QED
    BY <1>2, <1>3, <2>1 DEF WorkerStep
<1>4. CASE Release(Api)
    BY <1>0, <1>4, ReleaseBegins
<1>5. CASE CancelJob \/ CreateAnother
  <2>1. Terminal'
    <3>1. "cancelled" \in Outcomes
      BY DEF Outcomes
    <3> QED
      BY <1>0, <1>5, <3>1, EndedTerminal DEF CancelJob, CreateAnother
  <2> QED
    BY <2>1 DEF BeginStep
<1>6. CASE \/ StartJob \/ PauseJob \/ ResumeJob
           \/ \E n \in Node : GoStale(n) \/ GoLate(n) \/ HostGoesDown(n) \/ HostBoots(n)
           \/ BackoffPasses \/ HourPasses
           \/ \E g \in Guest : GuestMoves(g)
    BY <1>1, <1>6 DEF StartJob, PauseJob, ResumeJob, GoStale, GoLate, HostGoesDown, HostBoots,
                      BackoffPasses, HourPasses, GuestMoves
<1>7. CASE Crash
    BY <1>7 DEF Crash, BeginStep, RelPoints
<1> QED
    BY <1>2, <1>3, <1>4, <1>5, <1>6, <1>7

(* An outcome is not taken back, and no active job is being released.       *)
LEMMA StepEnding ==
    ASSUME LInv, Ending, [Next]_vars
    PROVE  Ending' /\ (Terminal => Terminal')
<1>1. RowStep
    BY StepsTheRow
<1>2. Terminal => Terminal'
  <2>1. Active \cap Outcomes = {} /\ {"pending", "running", "paused"} = Active
    BY DEF Active, Outcomes
  <2> QED
    BY <1>1, <2>1 DEF Terminal, RowStep, RowKept, RowEnds, RowArmed, RowMoves, RowRetired
<1>3. BeginStep
  <2>1. CASE UNCHANGED vars
    BY <2>1 DEF vars, BeginStep
  <2> QED
    BY <1>2, <2>1, EngineBegins, OtherBegins DEF Next
<1> QED
    BY <1>2, <1>3 DEF Ending, BeginStep

(* Only a release turns rules on again.                                     *)
LEMMA RulesOnlyReleased ==
    ASSUME LInv, Ending, Next, ~Terminal
    PROVE  rulesOff \subseteq rulesOff'
<1> USE DEF clusterVars
<1>1. ASSUME NEW t \in Thread, Release(t) PROVE rulesOff \subseteq rulesOff'
  <2>1. pc[t] \notin RelPoints
    BY DEF Ending
  <2>2. FailJob(t)
    BY <1>1, <2>1
       DEF Release, ReleaseRead, ReleaseNodes, ReleaseDRS, ReleaseDRSMark, ReleaseClient,
           ReleaseCRS, ReleaseCRSMark, ReleaseRules, ReleaseRulesMark, ReleaseGuests,
           ReleaseGuestsUnseen, ReleaseGuestsMark, ReleaseClear, RelPoints
  <2> QED
    BY <2>2 DEF FailJob
<1>2. ASSUME NEW e \in Engine, EngineStep(e), ~Release(e) PROVE rulesOff \subseteq rulesOff'
  <2>1. CASE \E n \in Node :
             \/ AdvanceRefused(e, n) \/ AdvanceWaits(e, n) \/ AdvanceTimedOut(e, n)
             \/ AdvanceDraining(e, n) \/ AdvanceUpgrading(e, n) \/ AdvanceRebooted(e, n)
             \/ AdvanceHealthCheck(e, n) \/ AdvanceRestoreTimedOut(e, n)
    BY <2>1 DEF AdvanceRefused, AdvanceWaits, AdvanceTimedOut, AdvanceDraining, AdvanceUpgrading,
                AdvanceRebooted, AdvanceHealthCheck, AdvanceRestoreTimedOut
  <2>2. CASE DisableRules(e)
    BY <2>2 DEF DisableRules
  <2>3. CASE \/ Tick(e) \/ DisableDRS(e) \/ DisableDRSOff(e) \/ CreateClient(e) \/ PauseCRS(e)
             \/ RecordCRS(e) \/ ListNodes(e) \/ RestartGuests(e) \/ RestoreGuest(e)
             \/ RestoreDone(e) \/ FailCheck(e) \/ StartNext(e)
    BY <2>3 DEF Tick, DisableDRS, DisableDRSOff, CreateClient, PauseCRS, RecordCRS, ListNodes,
       RestartGuests, RestoreGuest, RestoreDone, FailCheck, StartNext
  <2>4. CASE \/ StartNode(e) \/ StartCheck(e) \/ RerecordRules(e) \/ CheckAfterRules(e)
             \/ DrainStart(e) \/ DrainCheck(e) \/ DrainGuest(e) \/ RecordStopped(e)
             \/ StopPassthrough(e) \/ VerifyDrained(e) \/ FinishJob(e) \/ Sweep(e)
    BY <2>4 DEF StartNode, StartCheck, RerecordRules, CheckAfterRules, DrainStart, DrainCheck,
       DrainGuest, RecordStopped, StopPassthrough, VerifyDrained, FinishJob, Sweep
  <2> QED
    BY <1>2, <2>1, <2>2, <2>3, <2>4 DEF EngineStep
<1>3. ASSUME NEW n \in Node, WorkerStep(n) \/ ConfirmUpgrade(n) \/ SkipNode(n), ~Release(n)
      PROVE  rulesOff \subseteq rulesOff'
    BY <1>3 DEF WorkerStep, SSHUpgrade, SSHDecide, SSHMarkReboot, SSHReboot, ConfirmReboot,
                ConfirmMark, ConfirmUpgrade, SkipNode
<1>4. CASE \/ StartJob \/ PauseJob \/ ResumeJob \/ CancelJob \/ CreateAnother
           \/ \E n \in Node : GoStale(n) \/ GoLate(n) \/ HostGoesDown(n) \/ HostBoots(n)
           \/ BackoffPasses \/ HourPasses
           \/ \E g \in Guest : GuestMoves(g)
           \/ Crash
    BY <1>4 DEF StartJob, PauseJob, ResumeJob, CancelJob, CreateAnother, GoStale, GoLate,
       HostGoesDown, HostBoots, BackoffPasses, HourPasses, GuestMoves, Crash
<1>5. Engine \subseteq Thread /\ Node \subseteq Thread /\ Api \in Thread
    BY DEF Thread
<1> QED
    BY <1>1, <1>2, <1>3, <1>4, <1>5 DEF Next

(* The HA rules a drain disabled stay off for as long as the job is active, *)
(* for any number of nodes, ticks and goroutines: whoever releases          *)
(* (failNode, cancel, sweep, the next job) does so only to a job whose      *)
(* outcome is in its row, and no outcome is taken back.                     *)
THEOREM RulesOffWhileActive ==
    Spec => RulesStayOff
<1>1. Init => LInv /\ Ending
  <2>1. Init => Flagged
    BY DEF Init, Flagged, NoRelease
  <2>2. Init => Ending
    BY DEF Init, Ending, RelPoints
  <2> QED
    BY <2>1, <2>2, InitInv DEF LInv
<1>2. LInv /\ Ending /\ [Next]_vars => LInv' /\ Ending'
    BY StepFlagged, StepEnding
<1>3. LInv /\ Ending /\ [Next]_vars =>
        [job.status \in Active /\ job'.status \in Active => rulesOff \subseteq rulesOff']_vars
  <2>1. Active \cap Outcomes = {}
    BY DEF Active, Outcomes
  <2> QED
    BY <2>1, RulesOnlyReleased DEF Terminal
<1> QED
    BY <1>1, <1>2, <1>3, PTL DEF Spec, RulesStayOff

-----------------------------------------------------------------------------
(* Rows, releases and whose step it is: what the arguments about nodes and  *)
(* reboots start from.                                                      *)

(* A row advanceUpgrading would launch a session for.                       *)
Waiting(r) == r.step = "upgrading" /\ (r.runs = 0 \/ r.stale)

(* Lists and the heartbeat are no matter of the step.                       *)
LEMMA TouchedStill ==
    ASSUME NEW r \in NodeRow, NEW S
    PROVE  /\ Touched(r).step = r.step /\ (Waiting(Touched(r)) => Waiting(r))
           /\ [Touched(r) EXCEPT !.stopped = S].step = r.step
           /\ Waiting([Touched(r) EXCEPT !.stopped = S]) => Waiting(r)
           /\ [Touched(r) EXCEPT !.guests = S].step = r.step
           /\ Waiting([Touched(r) EXCEPT !.guests = S]) => Waiting(r)
BY DEF Touched, Waiting, NodeRow

(* failNode fails the row, or finds it final.                               *)
LEMMA FailNodeRow ==
    ASSUME TypeOK, NEW rows \in [Node -> NodeRow], NEW t \in Thread, NEW n \in Node, NEW back,
           FailNodeIn(rows, t, n, back)
    PROVE  /\ \A m \in Node \ {n} : node'[m] = rows[m]
           /\ \A u \in Thread \ {t} : pc'[u] = pc[u] /\ rel'[u] = rel[u]
           /\ \/ /\ rows[n].step \in FinalSteps /\ node'[n] = rows[n] /\ pc'[t] = back
                 /\ rel'[t] = rel[t]
              \/ /\ rows[n].step \notin FinalSteps /\ node'[n].step = "failed"
                 /\ pc'[t] = "failJob" /\ rel'[t].back = back
<1>1. CASE rows[n].step \in FinalSteps
    BY <1>1 DEF FailNodeIn, Goto, TypeOK
<1>2. CASE rows[n].step \notin FinalSteps
  <2>1. node' = [rows EXCEPT ![n] = Moved(rows[n], "failed")]
        /\ pc' = [pc EXCEPT ![t] = "failJob"] /\ rel' = [rel EXCEPT ![t].back = back]
    BY <1>2 DEF FailNodeIn, Goto
  <2>2. node'[n].step = "failed" /\ \A m \in Node \ {n} : node'[m] = rows[m]
    BY <2>1 DEF Moved, NodeRow
  <2>3. rel \in [Thread -> ReleaseLocals] /\ pc \in [Thread -> Points]
    BY DEF TypeOK
  <2>4. rel'[t].back = back /\ \A u \in Thread \ {t} : rel'[u] = rel[u]
    BY <2>1, <2>3 DEF ReleaseLocals
  <2> QED
    BY <1>2, <2>1, <2>2, <2>3, <2>4
<1> QED
    BY <1>1, <1>2

(* failJob and releaseJobState leave the steps of the nodes alone.          *)
ReleaseEffect(t) ==
    /\ pc[t] \in RelPoints \cup {"failJob"}
    /\ opt' = opt /\ eng' = eng /\ host' = host
    /\ \A m \in Node : node'[m].step = node[m].step /\ (Waiting(node'[m]) => Waiting(node[m]))
    /\ \A u \in Thread \ {t} : pc'[u] = pc[u] /\ rel'[u] = rel[u]
    /\ \/ pc'[t] \in RelPoints /\ rel'[t].back = rel[t].back
       \/ pc'[t] = rel[t].back
    /\ job'.status \in {job.status, "failed"}
    /\ pc[t] = "failJob" => Terminal'

(* Wherever the release goes next is a point of it.                         *)
LEMMA AfterInRelease ==
    ASSUME NEW r
    PROVE  {AfterRules(r), AfterCRS(r), AfterClient(r), AfterDRS(r), AfterRead(r)} \subseteq RelPoints
BY DEF AfterRules, AfterCRS, AfterClient, AfterDRS, AfterRead, RelPoints

(* The steps of the release, one by one.                                    *)
LEMMA ReleaseEffects ==
    ASSUME IInv, NEW t \in Thread, Release(t)
    PROVE  ReleaseEffect(t)
<1> USE DEF clusterVars, Goto
<1>0. /\ TypeOK /\ job \in JobRow /\ rel \in [Thread -> ReleaseLocals] /\ rel[t] \in ReleaseLocals
      /\ pc \in [Thread -> Points] /\ node \in [Node -> NodeRow]
    BY DEF IInv, TypeOK
<1>1. pc[t] \in RelPoints \cup {"failJob"} /\ opt' = opt /\ eng' = eng /\ host' = host
    BY DEF Release, FailJob, ReleaseRead, ReleaseNodes, ReleaseDRS, ReleaseDRSMark, ReleaseClient,
           ReleaseCRS, ReleaseCRSMark, ReleaseRules, ReleaseRulesMark, ReleaseGuests,
           ReleaseGuestsUnseen, ReleaseGuestsMark, ReleaseClear, RelPoints
<1>2. ASSUME ~ReleaseGuestsMark(t)
      PROVE  node' = node
    BY <1>2 DEF Release, FailJob, ReleaseRead, ReleaseNodes, ReleaseDRS, ReleaseDRSMark,
           ReleaseClient, ReleaseCRS, ReleaseCRSMark, ReleaseRules, ReleaseRulesMark, ReleaseGuests,
           ReleaseGuestsUnseen, ReleaseClear
<1>3. \A m \in Node : node'[m].step = node[m].step /\ (Waiting(node'[m]) => Waiting(node[m]))
  <2>1. CASE ReleaseGuestsMark(t)
    <3> DEFINE n == HeldNode(t)
    <3>1. node' = [node EXCEPT ![n] = [Touched(node[n]) EXCEPT !.stopped = rel[t].keep]]
      BY <2>1, Zenon DEF ReleaseGuestsMark
    <3> HIDE DEF n
    <3> QED
      BY <1>0, <3>1, TouchedStill
  <2> QED
    BY <1>2, <2>1
<1>4. /\ job'.status \in {job.status, "failed"}
      /\ pc[t] = "failJob" => Terminal'
  <2>1. CASE FailJob(t)
    <3>1. (job' = job /\ Terminal) \/ job' = Ended("failed")
      BY <2>1 DEF FailJob
    <3>2. CASE job' = Ended("failed")
      BY <1>0, <3>2 DEF Ended, JobRow, Terminal, Outcomes
    <3> QED
      BY <3>1, <3>2 DEF Terminal
  <2>2. CASE ReleaseDRSMark(t) \/ ReleaseCRSMark(t) \/ ReleaseRulesMark(t) \/ ReleaseClear(t)
    BY <1>0, <2>2 DEF ReleaseDRSMark, ReleaseCRSMark, ReleaseRulesMark, ReleaseClear, JobRow
  <2>3. CASE \/ ReleaseRead(t) \/ ReleaseNodes(t) \/ ReleaseDRS(t) \/ ReleaseClient(t)
             \/ ReleaseCRS(t) \/ ReleaseRules(t) \/ ReleaseGuests(t)
             \/ ReleaseGuestsUnseen(t) \/ ReleaseGuestsMark(t)
    BY <2>3 DEF ReleaseRead, ReleaseNodes, ReleaseDRS, ReleaseClient, ReleaseCRS, ReleaseRules,
                ReleaseGuests, ReleaseGuestsUnseen, ReleaseGuestsMark
  <2> QED
    BY <2>1, <2>2, <2>3 DEF Release
<1>5. /\ \A u \in Thread \ {t} : pc'[u] = pc[u] /\ rel'[u] = rel[u]
      /\ \/ pc'[t] \in RelPoints /\ rel'[t].back = rel[t].back
         \/ pc'[t] = rel[t].back
  <2>1. ASSUME NEW p \in RelPoints, pc' = [pc EXCEPT ![t] = p], rel' = rel
        PROVE  <1>5!:
    BY <1>0, <2>1
  <2>2. ASSUME pc' = [pc EXCEPT ![t] = rel[t].back],
               rel' = rel \/ rel' = [rel EXCEPT ![t] = NoRelease]
        PROVE  <1>5!:
    BY <1>0, <2>2
  <2>3. ASSUME NEW p \in RelPoints, pc' = [pc EXCEPT ![t] = p], NEW r,
               rel' = [rel EXCEPT ![t] = r], r.back = rel[t].back
        PROVE  <1>5!:
    BY <1>0, <2>3
  <2>4. CASE FailJob(t) \/ ReleaseDRS(t) \/ ReleaseDRSMark(t) \/ ReleaseCRSMark(t)
    <3>1. PICK p \in {"release", "relDrsMark", AfterDRS(rel[t]), AfterCRS(rel[t])} :
              pc' = [pc EXCEPT ![t] = p]
      BY <2>4, Zenon DEF FailJob, ReleaseDRS, ReleaseDRSMark, ReleaseCRSMark
    <3>2. rel' = rel
      BY <2>4 DEF FailJob, ReleaseDRS, ReleaseDRSMark, ReleaseCRSMark
    <3>3. {"release", "relDrsMark"} \subseteq RelPoints
      BY DEF RelPoints
    <3> QED
      BY <2>1, <3>1, <3>2, <3>3, AfterInRelease
  <2>5. CASE ReleaseRead(t)
    BY <1>0, <2>5 DEF ReleaseRead, RelPoints
  <2>6. CASE ReleaseNodes(t)
    <3> DEFINE r == [rel[t] EXCEPT !.stopped = [n \in Node |-> node[n].stopped]]
               p == AfterRead(rel'[t])
    <3>1. rel' = [rel EXCEPT ![t] = r] /\ r.back = rel[t].back
      BY <1>0, <2>6 DEF ReleaseNodes, ReleaseLocals
    <3>2. pc' = [pc EXCEPT ![t] = p] /\ p \in RelPoints
      BY <2>6, AfterInRelease DEF ReleaseNodes
    <3> HIDE DEF r, p
    <3> QED
      BY <1>0, <3>1, <3>2
  <2>7. CASE ReleaseClient(t)
    <3>1. \/ rel' = rel /\ pc' = [pc EXCEPT ![t] = AfterClient(rel[t])]
          \/ rel' = [rel EXCEPT ![t] = NoRelease] /\ pc' = [pc EXCEPT ![t] = rel[t].back]
      BY <2>7 DEF ReleaseClient
    <3>2. AfterClient(rel[t]) \in RelPoints
      BY AfterInRelease
    <3> QED
      BY <2>1, <2>2, <3>1, <3>2
  <2>8. CASE ReleaseCRS(t)
    <3> DEFINE r == [rel[t] EXCEPT !.ok = FALSE]
    <3>1. \/ rel' = rel /\ pc' = [pc EXCEPT ![t] = "relCrsMark"]
          \/ rel' = [rel EXCEPT ![t] = r] /\ pc' = [pc EXCEPT ![t] = AfterCRS(rel[t])]
      BY <2>8 DEF ReleaseCRS
    <3>2. AfterCRS(rel[t]) \in RelPoints /\ "relCrsMark" \in RelPoints /\ r.back = rel[t].back
      BY <1>0, AfterInRelease DEF RelPoints, ReleaseLocals
    <3> HIDE DEF r
    <3> QED
      BY <2>1, <2>3, <3>1, <3>2
  <2>9. CASE ReleaseRules(t)
    <3>1. PICK refused \in SUBSET rel[t].rules : rel' = [rel EXCEPT ![t].rules = refused]
      BY <2>9 DEF ReleaseRules
    <3> DEFINE r == [rel[t] EXCEPT !.rules = refused]
    <3>2. rel' = [rel EXCEPT ![t] = r] /\ r.back = rel[t].back
      BY <1>0, <3>1 DEF ReleaseLocals
    <3>3. pc' = [pc EXCEPT ![t] = "relRulesMark"] /\ "relRulesMark" \in RelPoints
      BY <2>9 DEF ReleaseRules, RelPoints
    <3> HIDE DEF r
    <3> QED
      BY <2>3, <3>2, <3>3
  <2>10. CASE ReleaseRulesMark(t)
    <3> DEFINE r == [rel[t] EXCEPT !.ok = rel[t].ok /\ rel[t].rules = {}]
    <3>1. rel' = [rel EXCEPT ![t] = r] /\ r.back = rel[t].back
      BY <1>0, <2>10 DEF ReleaseRulesMark, ReleaseLocals
    <3>2. pc' = [pc EXCEPT ![t] = AfterRules(rel[t])] /\ AfterRules(rel[t]) \in RelPoints
      BY <2>10, AfterInRelease DEF ReleaseRulesMark
    <3> HIDE DEF r
    <3> QED
      BY <2>3, <3>1, <3>2
  <2>11. CASE ReleaseGuests(t)
    <3> DEFINE n    == HeldNode(t)
               list == rel[t].stopped[n]
               keep == IF rel[t].prune THEN list \ up ELSE list
               ok   == rel[t].ok /\ keep = {}
               S    == [rel[t].stopped EXCEPT ![n] = IF keep = list THEN {} ELSE @]
               r    == [rel[t] EXCEPT !.keep = keep, !.ok = ok, !.stopped = S]
               p    == IF keep = list THEN AfterRules(rel'[t]) ELSE "relGuestsMark"
    <3>1. rel' = [rel EXCEPT ![t] = r] /\ pc' = [pc EXCEPT ![t] = p]
      BY <2>11 DEF ReleaseGuests
    <3>2. p \in RelPoints
      BY AfterInRelease DEF RelPoints
    <3> HIDE DEF keep, ok, S, p
    <3>3. r.back = rel[t].back
      BY <1>0 DEF ReleaseLocals
    <3> HIDE DEF r
    <3> QED
      BY <1>0, <3>1, <3>2, <3>3
  <2>12. CASE ReleaseGuestsUnseen(t)
    <3> DEFINE S == [rel[t].stopped EXCEPT ![HeldNode(t)] = {}]
               r == [rel[t] EXCEPT !.ok = FALSE, !.stopped = S]
               p == AfterRules(rel'[t])
    <3>1. rel' = [rel EXCEPT ![t] = r] /\ pc' = [pc EXCEPT ![t] = p] /\ p \in RelPoints
      BY <2>12, AfterInRelease, Zenon DEF ReleaseGuestsUnseen
    <3> HIDE DEF S, p
    <3>2. r.back = rel[t].back
      BY <1>0 DEF ReleaseLocals
    <3> HIDE DEF r
    <3> QED
      BY <1>0, <3>1, <3>2
  <2>13. CASE ReleaseGuestsMark(t)
    <3> DEFINE S == [rel[t].stopped EXCEPT ![HeldNode(t)] = {}]
               r == [rel[t] EXCEPT !.stopped = S]
               p == AfterRules(rel'[t])
    <3>1. rel' = [rel EXCEPT ![t] = r] /\ pc' = [pc EXCEPT ![t] = p] /\ p \in RelPoints
      BY <2>13, AfterInRelease, Zenon DEF ReleaseGuestsMark
    <3> HIDE DEF S, p
    <3>2. r.back = rel[t].back
      BY <1>0 DEF ReleaseLocals
    <3> HIDE DEF r
    <3> QED
      BY <1>0, <3>1, <3>2
  <2>14. CASE ReleaseClear(t)
    BY <2>2, <2>14 DEF ReleaseClear
  <2> QED
    BY <2>4, <2>5, <2>6, <2>7, <2>8, <2>9, <2>10, <2>11, <2>12, <2>13, <2>14 DEF Release
<1> QED
    BY <1>1, <1>3, <1>4, <1>5 DEF ReleaseEffect

(* Steps of neither a tick nor a release.                                   *)
OutsideStep ==
    \/ \E n \in Node : \/ SSHUpgrade(n) \/ SSHDecide(n) \/ SSHMarkReboot(n) \/ SSHReboot(n)
                       \/ ConfirmReboot(n) \/ ConfirmMark(n) \/ ConfirmUpgrade(n) \/ SkipNode(n)
    \/ StartJob \/ PauseJob \/ ResumeJob \/ CancelJob \/ CreateAnother
    \/ \E n \in Node : GoStale(n) \/ GoLate(n) \/ HostGoesDown(n) \/ HostBoots(n)
    \/ BackoffPasses \/ HourPasses
    \/ \E g \in Guest : GuestMoves(g)
    \/ Crash

(* Whose step it is.                                                        *)
LEMMA StepKinds ==
    ASSUME Next
    PROVE  \/ \E e \in Engine : EngineStep(e)
           \/ \E t \in Thread : Release(t)
           \/ OutsideStep
<1>1. Node \subseteq Thread /\ Api \in Thread
    BY DEF Thread
<1>2. ASSUME NEW n \in Node, WorkerStep(n)
      PROVE  Release(n) \/ OutsideStep
    BY <1>2 DEF WorkerStep, OutsideStep
<1> QED
    BY <1>1, <1>2 DEF Next, OutsideStep

(* The reboot of a node is decided, or asked for.                           *)
Dooming   == {"rebootMark", "reboot", "confReboot"}
Doomed(n) == pc[n] \in Dooming \/ host[n] = "asked"

-----------------------------------------------------------------------------
(* An in-place job moves no guest and shuts none down: its reboots can only *)
(* meet guests that somebody else moved.                                    *)

(* A row that lists no guest.                                               *)
Empty(r)    == r.guests = {} /\ r.stopped = {}
Bared(rows) == \A n \in Node : Empty(rows[n])

(* No thread has a guest to work on.                                        *)
BareLocals(l) == l.left = {} /\ l.g = {} /\ Bared(l.rows)
BareTicks     == \A e \in Engine : BareLocals(eng[e])
BareReleases  == \A t \in Thread : \A n \in Node : rel[t].stopped[n] = {}

Bare == Bared(node) /\ BareTicks /\ BareReleases

PlaceInv ==
    /\ Bare
    /\ killed \subseteq moved
    /\ \A n \in Node : Doomed(n) => RunningOn(n) \subseteq moved

(* What a step may do to the guests and the reboots of such a job.          *)
GuestsRest ==
    /\ moved \subseteq moved'
    /\ killed' \subseteq killed \cup moved
    /\ up' \subseteq up /\ \A g \in up' : at'[g] = at[g] \/ g \in moved'

DoomStep == \A n \in Node : Doomed(n)' => Doomed(n) \/ RunningOn(n) = {}

(* Such a step keeps the invariant.                                         *)
LEMMA PlaceKept ==
    ASSUME PlaceInv, Bare', GuestsRest, DoomStep
    PROVE  PlaceInv'
<1>1. \A n \in Node : RunningOn(n)' \subseteq RunningOn(n) \cup moved'
    BY DEF GuestsRest, RunningOn
<1> QED
    BY <1>1 DEF PlaceInv, GuestsRest, DoomStep

(* Writes of a row that bring no guest into it.                             *)
LEMMA BareWrites ==
    ASSUME NEW rows \in [Node -> NodeRow], Bared(rows), NEW n, NEW s
    PROVE  /\ Bared([rows EXCEPT ![n] = Moved(rows[n], s)])
           /\ Bared([rows EXCEPT ![n] = Touched(rows[n])])
           /\ Bared([rows EXCEPT ![n] = Launched(rows[n])])
           /\ Bared([rows EXCEPT ![n] = [Moved(rows[n], s) EXCEPT !.owed = TRUE]])
           /\ Bared([rows EXCEPT ![n] = [Touched(rows[n]) EXCEPT !.guests = {}]])
           /\ Bared([rows EXCEPT ![n].stale = TRUE]) /\ Bared([rows EXCEPT ![n].late = TRUE])
<1>1. ASSUME NEW r, n \in Node => Empty(r)
      PROVE  Bared([rows EXCEPT ![n] = r])
    BY <1>1 DEF Bared
<1>2. ASSUME n \in Node
      PROVE  /\ Empty(Moved(rows[n], s)) /\ Empty(Touched(rows[n])) /\ Empty(Launched(rows[n]))
             /\ Empty([Moved(rows[n], s) EXCEPT !.owed = TRUE])
             /\ Empty([Touched(rows[n]) EXCEPT !.guests = {}])
             /\ Empty([rows[n] EXCEPT !.stale = TRUE]) /\ Empty([rows[n] EXCEPT !.late = TRUE])
  <2>1. rows[n] \in NodeRow /\ Empty(rows[n])
    BY <1>2 DEF Bared
  <2> QED
    BY <2>1 DEF Empty, Moved, Touched, Launched, NodeRow
<1> QED
    BY <1>1, <1>2

(* A node that is failed.                                                   *)
LEMMA BareFails ==
    ASSUME NEW rows \in [Node -> NodeRow], Bared(rows), NEW t, NEW n, NEW back,
           FailNodeIn(rows, t, n, back)
    PROVE  /\ Bared(node')
           /\ \E p : pc' = [pc EXCEPT ![t] = p]
           /\ rel' = rel \/ rel' = [rel EXCEPT ![t].back = back]
<1>1. CASE rows[n].step \in FinalSteps
    BY <1>1 DEF FailNodeIn, Goto
<1>2. CASE rows[n].step \notin FinalSteps
  <2>1. /\ node' = [rows EXCEPT ![n] = Moved(rows[n], "failed")]
        /\ pc' = [pc EXCEPT ![t] = "failJob"] /\ rel' = [rel EXCEPT ![t].back = back]
    BY <1>2 DEF FailNodeIn, Goto
  <2>2. Bared(node')
    BY <2>1, BareWrites
  <2> QED
    BY <2>1, <2>2
<1> QED
    BY <1>1, <1>2

(* A tick's locals are written, ...                                         *)
LEMMA BareTick ==
    ASSUME Bare, NEW e \in Engine, BareLocals(eng'[e]), \A f \in Engine \ {e} : eng'[f] = eng[f]
    PROVE  BareTicks'
BY DEF Bare, BareTicks

(* ... or those of a release, but for its copies.                           *)
LEMMA BareBack ==
    ASSUME TypeOK, Bare, NEW t \in Thread, NEW b, rel' = rel \/ rel' = [rel EXCEPT ![t].back = b]
    PROVE  BareReleases'
<1>1. CASE rel' = rel
    BY <1>1 DEF Bare, BareReleases
<1>2. CASE rel' = [rel EXCEPT ![t].back = b]
  <2>1. rel \in [Thread -> ReleaseLocals]
    BY DEF TypeOK
  <2>2. \A u \in Thread : rel'[u].stopped = rel[u].stopped
    BY <1>2, <2>1 DEF ReleaseLocals
  <2> QED
    BY <2>2 DEF Bare, BareReleases
<1> QED
    BY <1>1, <1>2

(* A step of the tick that keeps out of the way of the guests.              *)
LEMMA PlaceTick ==
    ASSUME NEW e \in Engine, TypeOK, PlaceInv, host' = host, moved' = moved, killed' = killed, at' = at,
           up' \subseteq up, pc' = pc \/ \E p : pc' = [pc EXCEPT ![e] = p],
           Bared(node'), BareTicks', BareReleases'
    PROVE  PlaceInv'
<1>0. pc \in [Thread -> Points] /\ e \notin Node /\ Node \subseteq Thread
    BY ThreadAssumption DEF TypeOK, Thread
<1>1. \A n \in Node : pc'[n] = pc[n]
    BY <1>0
<1>2. DoomStep
    BY <1>1 DEF DoomStep, Doomed
<1>3. GuestsRest
    BY DEF GuestsRest
<1> QED
    BY <1>2, <1>3, PlaceKept DEF Bare

(* The part of the tick that touches no node.                               *)
LEMMA PlainPlace ==
    ASSUME NEW e \in Engine, TypeOK, PlaceInv,
           \/ Tick(e) \/ DisableDRS(e) \/ DisableDRSOff(e) \/ CreateClient(e) \/ PauseCRS(e)
           \/ RecordCRS(e) \/ FailCheck(e) \/ StartNext(e) \/ FinishJob(e) \/ Sweep(e)
           \/ CheckAfterRules(e) \/ RerecordRules(e) \/ DisableRules(e) \/ ListNodes(e)
    PROVE  PlaceInv'
<1> USE DEF clusterVars
<1>0. /\ e \in Thread /\ eng \in [Engine -> EngineLocals] /\ eng[e] \in EngineLocals
      /\ Bare /\ BareTicks /\ BareLocals(eng[e]) /\ Bared(node)
    BY DEF TypeOK, Thread, PlaceInv, Bare, BareTicks
<1>1. /\ host' = host /\ moved' = moved /\ killed' = killed /\ at' = at /\ up' = up /\ node' = node
      /\ \E p : pc' = [pc EXCEPT ![e] = p]
    BY Zenon DEF Tick, DisableDRS, DisableDRSOff, CreateClient, PauseCRS, RecordCRS, FailCheck, StartNext,
           FinishJob, Sweep, CheckAfterRules, RerecordRules, DisableRules, ListNodes, Goto
<1>2. rel' = rel \/ \E b : rel' = [rel EXCEPT ![e].back = b]
    BY Zenon DEF Tick, DisableDRS, DisableDRSOff, CreateClient, PauseCRS, RecordCRS, FailCheck, StartNext,
           FinishJob, Sweep, CheckAfterRules, RerecordRules, DisableRules, ListNodes
<1>3. BareReleases'
    BY <1>0, <1>2, BareBack
<1>4. \/ eng' = eng \/ eng' = [eng EXCEPT ![e] = NoEngine]
      \/ \E a, b : eng' = [eng EXCEPT ![e].drs = a, ![e].crs = b]
      \/ \E S : eng' = [eng EXCEPT ![e].rows = node, ![e].todo = S]
      \/ \E n : eng' = [eng EXCEPT ![e].n = n, ![e].back = "done"]
    BY Zenon DEF Tick, DisableDRS, DisableDRSOff, CreateClient, PauseCRS, RecordCRS, FailCheck, StartNext,
           FinishJob, Sweep, CheckAfterRules, RerecordRules, DisableRules, ListNodes
<1>5. BareTicks'
  <2>1. CASE eng' = eng
    BY <1>0, <2>1 DEF BareTicks
  <2>2. CASE eng' = [eng EXCEPT ![e] = NoEngine]
    <3>1. BareLocals(NoEngine)
      BY DEF BareLocals, NoEngine, Bared, Empty, NewRow
    <3> QED
      BY <1>0, <2>2, <3>1, BareTick
  <2>3. ASSUME NEW a, NEW b, eng' = [eng EXCEPT ![e].drs = a, ![e].crs = b] PROVE BareTicks'
    <3>1. eng'[e] = [eng[e] EXCEPT !.drs = a, !.crs = b] /\ \A f \in Engine \ {e} : eng'[f] = eng[f]
      BY <1>0, <2>3
    <3>2. BareLocals(eng'[e])
      BY <1>0, <3>1 DEF BareLocals, EngineLocals
    <3> QED
      BY <1>0, <3>1, <3>2, BareTick
  <2>4. ASSUME NEW S, eng' = [eng EXCEPT ![e].rows = node, ![e].todo = S] PROVE BareTicks'
    <3>1. eng'[e] = [eng[e] EXCEPT !.rows = node, !.todo = S] /\ \A f \in Engine \ {e} : eng'[f] = eng[f]
      BY <1>0, <2>4
    <3>2. BareLocals(eng'[e])
      BY <1>0, <3>1 DEF BareLocals, EngineLocals
    <3> QED
      BY <1>0, <3>1, <3>2, BareTick
  <2>5. ASSUME NEW n, eng' = [eng EXCEPT ![e].n = n, ![e].back = "done"] PROVE BareTicks'
    <3>1. eng'[e] = [eng[e] EXCEPT !.n = n, !.back = "done"] /\ \A f \in Engine \ {e} : eng'[f] = eng[f]
      BY <1>0, <2>5
    <3>2. BareLocals(eng'[e])
      BY <1>0, <3>1 DEF BareLocals, EngineLocals
    <3> QED
      BY <1>0, <3>1, <3>2, BareTick
  <2> QED
    BY <1>4, <2>1, <2>2, <2>3, <2>4, <2>5
<1>6. Bared(node') /\ up' \subseteq up
    BY <1>0, <1>1
<1> QED
    BY <1>1, <1>3, <1>5, <1>6, PlaceTick

(* advanceNode has nothing to drain and nothing to put back.                *)
LEMMA AdvancePlace ==
    ASSUME NEW e \in Engine, TypeOK, PlaceInv, NEW n \in Node,
           \/ AdvanceRefused(e, n) \/ AdvanceWaits(e, n) \/ AdvanceTimedOut(e, n)
           \/ AdvanceDraining(e, n) \/ AdvanceUpgrading(e, n) \/ AdvanceRebooted(e, n)
           \/ AdvanceRestoreTimedOut(e, n) \/ AdvanceHealthCheck(e, n)
    PROVE  PlaceInv'
<1> USE DEF clusterVars
<1> DEFINE touched == [node EXCEPT ![n] = Touched(node[n])]
           begun == [node EXCEPT ![n] = Moved(node[n], "restoring")]
<1>0. /\ node \in [Node -> NodeRow] /\ node[n] \in NodeRow /\ pc \in [Thread -> Points]
      /\ e \in Thread /\ n \in Thread /\ n # e /\ Node \subseteq Thread \ {e}
      /\ eng \in [Engine -> EngineLocals] /\ eng[e] \in EngineLocals
      /\ Bare /\ BareTicks /\ BareLocals(eng[e]) /\ Bared(node) /\ Empty(eng[e].rows[n])
    BY ThreadAssumption DEF TypeOK, Thread, PlaceInv, Bare, BareTicks, BareLocals, Bared
<1>1. host' = host /\ moved' = moved /\ killed' = killed /\ at' = at /\ up' = up
    BY DEF AdvanceRefused, AdvanceWaits, AdvanceTimedOut, AdvanceDraining, AdvanceUpgrading,
           AdvanceRebooted, AdvanceRestoreTimedOut, AdvanceHealthCheck
<1>2. Remaining(n, eng[e].rows[n]) = {} /\ eng[e].rows[n].guests \ Passthrough = {}
    BY <1>0 DEF Remaining, Empty
<1>3. eng' = Off(e, n) \/ eng' = WorkOn(e, n, {}, "advance")
  <2>1. CASE AdvanceRefused(e, n) \/ AdvanceWaits(e, n) \/ AdvanceTimedOut(e, n)
             \/ AdvanceUpgrading(e, n) \/ AdvanceRebooted(e, n) \/ AdvanceRestoreTimedOut(e, n)
    BY <2>1 DEF AdvanceRefused, AdvanceWaits, AdvanceTimedOut, AdvanceUpgrading,
           AdvanceRebooted, AdvanceRestoreTimedOut
  <2>2. CASE AdvanceDraining(e, n)
    <3>1. \/ eng' = Off(e, n) \/ eng' = WorkOn(e, n, {}, "advance")
          \/ \E left \in {Remaining(n, eng[e].rows[n]), eng[e].rows[n].guests} \ {{}} : TRUE
      BY <2>2, Zenon DEF AdvanceDraining
    <3> QED
      BY <1>0, <1>2, <3>1 DEF Empty
  <2>3. CASE AdvanceHealthCheck(e, n)
    <3>1. \/ eng' = Off(e, n) \/ eng' = WorkOn(e, n, {}, "advance")
          \/ eng' = WorkOn(e, n, eng[e].rows[n].guests \ Passthrough, "advance")
      BY <2>3, Zenon DEF AdvanceHealthCheck
    <3> QED
      BY <1>2, <3>1
  <2> QED
    BY <2>1, <2>2, <2>3
<1>4. BareTicks'
  <2>1. \/ eng' = [eng EXCEPT ![e].todo = eng[e].todo \ {n}]
        \/ eng' = [eng EXCEPT ![e].todo = eng[e].todo \ {n}, ![e].n = n, ![e].left = {}, ![e].back = "advance"]
    BY <1>3 DEF Off, WorkOn
  <2>2. /\ \/ eng'[e] = [eng[e] EXCEPT !.todo = eng[e].todo \ {n}]
           \/ eng'[e] = [eng[e] EXCEPT !.todo = eng[e].todo \ {n}, !.n = n, !.left = {}, !.back = "advance"]
        /\ \A f \in Engine \ {e} : eng'[f] = eng[f]
    BY <1>0, <2>1
  <2>3. BareLocals(eng'[e])
    BY <1>0, <2>2 DEF BareLocals, EngineLocals
  <2> QED
    BY <1>0, <2>2, <2>3, BareTick
<1>5. /\ touched \in [Node -> NodeRow] /\ begun \in [Node -> NodeRow] /\ Bared(touched) /\ Bared(begun)
  <2>1. "restoring" \in Steps
    BY DEF Steps, ActiveSteps, Advancing
  <2> QED
    BY <1>0, <2>1, MovedIsRow, BareWrites
<1>6. \/ /\ pc' = pc /\ rel' = rel
         /\ node' = node \/ \E s : node' = [node EXCEPT ![n] = Moved(node[n], s)]
      \/ node' \in {node, touched, begun} /\ rel' = rel /\ \E p : pc' = [pc EXCEPT ![e] = p]
      \/ \E rows \in {node, touched, begun} : FailNodeIn(rows, e, n, "advance")
      \/ /\ node' = [node EXCEPT ![n] = Launched(node[n])] /\ rel' = rel
         /\ pc' = [pc EXCEPT ![n] = IF pc[n] = "idle" THEN "apt" ELSE pc[n]]
  <2>1. CASE AdvanceRefused(e, n) \/ AdvanceWaits(e, n) \/ AdvanceTimedOut(e, n)
             \/ AdvanceUpgrading(e, n) \/ AdvanceRebooted(e, n) \/ AdvanceRestoreTimedOut(e, n)
    BY <2>1, Zenon DEF AdvanceRefused, AdvanceWaits, AdvanceTimedOut, AdvanceUpgrading,
                AdvanceRebooted, AdvanceRestoreTimedOut, FailNode, SetStep
  <2>2. CASE AdvanceDraining(e, n)
    BY <2>2, Zenon DEF AdvanceDraining, Goto
  <2>3. CASE AdvanceHealthCheck(e, n)
    BY <2>3, Zenon DEF AdvanceHealthCheck, Goto, SetStep
  <2> QED
    BY <2>1, <2>2, <2>3
<1> HIDE DEF touched, begun
<1>7. CASE \/ /\ pc' = pc /\ rel' = rel
              /\ node' = node \/ \E s : node' = [node EXCEPT ![n] = Moved(node[n], s)]
           \/ node' \in {node, touched, begun} /\ rel' = rel /\ \E p : pc' = [pc EXCEPT ![e] = p]
  <2>1. Bared(node')
    <3>1. ASSUME NEW s, node' = [node EXCEPT ![n] = Moved(node[n], s)] PROVE Bared(node')
      BY <1>0, <3>1, BareWrites
    <3>2. ASSUME node' \in {node, touched, begun} PROVE Bared(node')
      BY <1>0, <1>5, <3>2
    <3> QED
      BY <1>7, <3>1, <3>2
  <2>2. rel' = rel /\ (pc' = pc \/ \E p : pc' = [pc EXCEPT ![e] = p])
    BY <1>7
  <2>3. BareReleases'
    BY <1>0, <2>2, BareBack
  <2> QED
    BY <1>1, <1>4, <2>1, <2>2, <2>3, PlaceTick
<1>8. CASE \E rows \in {node, touched, begun} : FailNodeIn(rows, e, n, "advance")
  <2>1. PICK rows \in {node, touched, begun} : FailNodeIn(rows, e, n, "advance")
    BY <1>8
  <2>2. rows \in [Node -> NodeRow] /\ Bared(rows)
    BY <1>0, <1>5
  <2>3. /\ Bared(node') /\ \E p : pc' = [pc EXCEPT ![e] = p]
    BY <2>1, <2>2, BareFails
  <2>4. rel' = rel \/ rel' = [rel EXCEPT ![e].back = "advance"]
    BY <2>1, <2>2, BareFails
  <2>5. BareReleases'
    BY <1>0, <2>4, BareBack
  <2> QED
    BY <1>1, <1>4, <2>3, <2>5, PlaceTick
<1>9. CASE /\ node' = [node EXCEPT ![n] = Launched(node[n])] /\ rel' = rel
           /\ pc' = [pc EXCEPT ![n] = IF pc[n] = "idle" THEN "apt" ELSE pc[n]]
  <2>1. Bared(node')
    BY <1>0, <1>9, BareWrites
  <2>2. BareReleases'
    BY <1>0, <1>9, BareBack
  <2>3. \A m \in Node : pc'[m] = pc[m] \/ pc'[m] = "apt"
    BY <1>0, <1>9
  <2>4. DoomStep
    BY <1>1, <2>3 DEF DoomStep, Doomed, Dooming
  <2>5. GuestsRest
    BY <1>1 DEF GuestsRest
  <2> QED
    BY <1>4, <2>1, <2>2, <2>4, <2>5, PlaceKept DEF Bare
<1> QED
    BY <1>6, <1>7, <1>8, <1>9

(* startNode takes no snapshot, and the drain has no guest.                 *)
LEMMA StartPlace ==
    ASSUME NEW e \in Engine, TypeOK, PlaceInv, ~opt.drain,
           \/ StartNode(e) \/ StartCheck(e) \/ DrainStart(e)
           \/ DrainCheck(e) \/ DrainGuest(e) \/ RecordStopped(e) \/ StopPassthrough(e)
           \/ VerifyDrained(e) \/ RestoreGuest(e) \/ RestoreDone(e)
    PROVE  PlaceInv'
<1> USE DEF clusterVars
<1>0. /\ node \in [Node -> NodeRow] /\ pc \in [Thread -> Points]
      /\ e \in Thread /\ eng \in [Engine -> EngineLocals] /\ eng[e] \in EngineLocals
      /\ Bare /\ BareTicks /\ BareLocals(eng[e]) /\ Bared(node) /\ eng[e].left = {} /\ eng[e].g = {}
    BY DEF TypeOK, Thread, PlaceInv, Bare, BareTicks, BareLocals
<1> DEFINE n == eng[e].n
           snapshot == [node EXCEPT ![n] = [Touched(node[n]) EXCEPT !.guests = {}]]
           draining == [node EXCEPT ![n] = Moved(node[n], "draining")]
<1>1. ~DrainGuest(e) /\ ~RecordStopped(e) /\ ~RestoreGuest(e)
    BY <1>0 DEF DrainGuest, RecordStopped, RestoreGuest
<1>2. host' = host /\ moved' = moved /\ killed' = killed /\ at' = at /\ up' \subseteq up
    BY <1>1 DEF StartNode, StartCheck, DrainStart, DrainCheck, StopPassthrough, VerifyDrained, RestoreDone
<1>3. BareTicks'
  <2>1. \/ eng' = eng \/ (\E S : eng' = [eng EXCEPT ![e].rules = S])
        \/ eng' = [eng EXCEPT ![e].left = eng[e].left \ eng[e].g, ![e].g = {}]
    BY <1>1, Zenon DEF StartNode, StartCheck, DrainStart, DrainCheck, StopPassthrough, VerifyDrained,
       RestoreDone
  <2>2. CASE eng' = eng
    BY <1>0, <2>2 DEF BareTicks
  <2>3. ASSUME NEW S, eng' = [eng EXCEPT ![e].rules = S] PROVE BareTicks'
    <3>1. eng'[e] = [eng[e] EXCEPT !.rules = S] /\ \A f \in Engine \ {e} : eng'[f] = eng[f]
      BY <1>0, <2>3
    <3>2. BareLocals(eng'[e])
      BY <1>0, <3>1 DEF BareLocals, EngineLocals
    <3> QED
      BY <1>0, <3>1, <3>2, BareTick
  <2>4. CASE eng' = [eng EXCEPT ![e].left = eng[e].left \ eng[e].g, ![e].g = {}]
    <3>1. /\ eng'[e] = [eng[e] EXCEPT !.left = eng[e].left \ eng[e].g, !.g = {}]
          /\ \A f \in Engine \ {e} : eng'[f] = eng[f]
      BY <1>0, <2>4
    <3>2. BareLocals(eng'[e])
      BY <1>0, <3>1 DEF BareLocals, EngineLocals
    <3> QED
      BY <1>0, <3>1, <3>2, BareTick
  <2> QED
    BY <2>1, <2>2, <2>3, <2>4
<1>4. snapshot \in [Node -> NodeRow] /\ draining \in [Node -> NodeRow] /\ Bared(snapshot) /\ Bared(draining)
  <2>1. "draining" \in Steps /\ {} \in SUBSET Guest
    BY DEF Steps, ActiveSteps, Advancing
  <2>2. n \in Node => Moved(node[n], "draining") \in NodeRow /\ [Touched(node[n]) EXCEPT !.guests = {}] \in NodeRow
    BY <1>0, <2>1, MovedIsRow, RowUpdates
  <2>3. snapshot \in [Node -> NodeRow] /\ draining \in [Node -> NodeRow]
    BY <1>0, <2>2
  <2> QED
    BY <1>0, <2>3, BareWrites
<1>5. \/ /\ node' \in {node, snapshot, draining} \/ \E s : node' = [node EXCEPT ![n] = Moved(node[n], s)]
         /\ rel' = rel /\ \E p : pc' = [pc EXCEPT ![e] = p]
      \/ \E back : \E rows \in {node, snapshot, draining} : FailNodeIn(rows, e, n, back)
  <2>1. CASE StartNode(e)
    BY <2>1, Zenon DEF StartNode, FailNode, Goto, SetStep
  <2>2. CASE StartCheck(e)
    <3>1. \/ node' = node /\ rel' = rel /\ Goto(e, "done")
          \/ /\ node' = [node EXCEPT ![n] = [Touched(node[n]) EXCEPT !.guests = eng[e].left]]
             /\ rel' = rel /\ (Goto(e, "drainStart") \/ Goto(e, "ruleOff"))
          \/ FailNodeIn([node EXCEPT ![n] = [Touched(node[n]) EXCEPT !.guests = eng[e].left]], e, n, "done")
      BY <2>2, Zenon DEF StartCheck
    <3>2. \/ node' \in {node, snapshot} /\ rel' = rel /\ \E p : pc' = [pc EXCEPT ![e] = p]
          \/ FailNodeIn(snapshot, e, n, "done")
      BY <1>0, <3>1 DEF Goto
    <3> QED
      BY <3>2
  <2>3. CASE DrainStart(e)
    BY <2>3, Zenon DEF DrainStart, Goto
  <2>4. CASE DrainCheck(e) \/ StopPassthrough(e) \/ VerifyDrained(e) \/ RestoreDone(e)
    BY <2>4, Zenon DEF DrainCheck, StopPassthrough, VerifyDrained, RestoreDone, FailNode, Goto, SetStep
  <2> QED
    BY <1>1, <2>1, <2>2, <2>3, <2>4
<1> HIDE DEF snapshot, draining, n
<1>6. CASE /\ node' \in {node, snapshot, draining} \/ \E s : node' = [node EXCEPT ![n] = Moved(node[n], s)]
           /\ rel' = rel /\ \E p : pc' = [pc EXCEPT ![e] = p]
  <2>1. ASSUME NEW s, node' = [node EXCEPT ![n] = Moved(node[n], s)] PROVE Bared(node')
    BY <1>0, <2>1, BareWrites
  <2>2. Bared(node')
    BY <1>0, <1>4, <1>6, <2>1
  <2>3. BareReleases'
    BY <1>0, <1>6, BareBack
  <2> QED
    BY <1>2, <1>3, <1>6, <2>2, <2>3, PlaceTick
<1>7. CASE \E back : \E rows \in {node, snapshot, draining} : FailNodeIn(rows, e, n, back)
  <2>0. PICK back : \E rows \in {node, snapshot, draining} : FailNodeIn(rows, e, n, back)
    BY <1>7, Zenon
  <2>1. PICK rows \in {node, snapshot, draining} : FailNodeIn(rows, e, n, back)
    BY <2>0
  <2>2. rows \in [Node -> NodeRow] /\ Bared(rows)
    BY <1>0, <1>4
  <2>3. /\ Bared(node') /\ \E p : pc' = [pc EXCEPT ![e] = p]
    BY <2>1, <2>2, BareFails
  <2>4. rel' = rel \/ rel' = [rel EXCEPT ![e].back = back]
    BY <2>1, <2>2, BareFails
  <2>5. BareReleases'
    BY <1>0, <2>4, BareBack
  <2> QED
    BY <1>2, <1>3, <2>3, <2>5, PlaceTick
<1> QED
    BY <1>5, <1>6, <1>7

(* There is no passthrough guest to start again, for the tick ...           *)
LEMMA RestartPlace ==
    ASSUME NEW e \in Engine, IInv, PlaceInv, RestartGuests(e)
    PROVE  PlaceInv'
<1> USE DEF clusterVars
<1>0. TypeOK /\ e \in Thread /\ Bare /\ Bared(node)
    BY DEF IInv, Thread, PlaceInv, Bare
<1>1. pc[e] = "restart" /\ pc' = [pc EXCEPT ![e] = "restore"] /\ eng' = eng /\ rel' = rel
      /\ host' = host /\ moved' = moved /\ killed' = killed /\ at' = at
    BY DEF RestartGuests, Goto
<1>2. eng[e].n \in Node
    BY <1>1 DEF IInv, Working
<1>3. eng[e].rows[eng[e].n].stopped = {}
    BY <1>0, <1>2 DEF Bare, BareTicks, BareLocals, Bared, Empty
<1>4. up' = up /\ node' = node
    BY <1>3 DEF RestartGuests
<1>5. BareTicks' /\ BareReleases'
    BY <1>0, <1>1 DEF Bare, BareTicks, BareReleases
<1>6. Bared(node') /\ up' \subseteq up
    BY <1>0, <1>4
<1> QED
    BY <1>0, <1>1, <1>5, <1>6, PlaceTick

(* ... and for the release.                                                 *)
LEMMA ReleasePlace ==
    ASSUME IInv, PlaceInv, NEW t \in Thread, Release(t)
    PROVE  PlaceInv'
<1> USE DEF clusterVars
<1>0. /\ TypeOK /\ Bare /\ Bared(node) /\ rel \in [Thread -> ReleaseLocals] /\ rel[t] \in ReleaseLocals
      /\ rel[t].back \in Backs /\ BareReleases
    BY DEF IInv, PlaceInv, Bare, TypeOK, ReleaseLocals
<1>1. ~ReleaseGuests(t) /\ ~ReleaseGuestsUnseen(t) /\ ~ReleaseGuestsMark(t)
  <2>1. pc[t] \notin {"relGuests", "relGuestsMark"}
    BY <1>0 DEF IInv, Working, HoldsGuests, BareReleases
  <2> QED
    BY <2>1 DEF ReleaseGuests, ReleaseGuestsUnseen, ReleaseGuestsMark
<1>2. /\ host' = host /\ moved' = moved /\ killed' = killed /\ at' = at /\ up' = up /\ node' = node
      /\ eng' = eng
    BY <1>1 DEF Release, FailJob, ReleaseRead, ReleaseNodes, ReleaseDRS, ReleaseDRSMark,
           ReleaseClient, ReleaseCRS, ReleaseCRSMark, ReleaseRules, ReleaseRulesMark, ReleaseClear
<1>3. \/ rel' = rel \/ rel' = [rel EXCEPT ![t] = NoRelease]
      \/ (\E b : rel' = [rel EXCEPT ![t].ok = b]) \/ (\E S : rel' = [rel EXCEPT ![t].rules = S])
      \/ rel' = [rel EXCEPT ![t].stopped = [n \in Node |-> node[n].stopped]]
      \/ ReleaseRead(t)
    BY <1>1, Zenon DEF Release, FailJob, ReleaseNodes, ReleaseDRS, ReleaseDRSMark,
           ReleaseClient, ReleaseCRS, ReleaseCRSMark, ReleaseRules, ReleaseRulesMark, ReleaseClear
<1>4. BareReleases'
  <2>1. ASSUME \A u \in Thread \ {t} : rel'[u] = rel[u], \A n \in Node : rel'[t].stopped[n] = {}
        PROVE  BareReleases'
    BY <1>0, <2>1 DEF BareReleases
  <2>2. CASE rel' = rel
    BY <1>0, <2>2 DEF BareReleases
  <2>3. CASE rel' = [rel EXCEPT ![t] = NoRelease]
    BY <1>0, <2>1, <2>3 DEF NoRelease
  <2>4. ASSUME NEW b, rel' = [rel EXCEPT ![t].ok = b] \/ rel' = [rel EXCEPT ![t].rules = b]
        PROVE  BareReleases'
    <3>1. \/ rel'[t] = [rel[t] EXCEPT !.ok = b]
          \/ rel'[t] = [rel[t] EXCEPT !.rules = b]
      BY <1>0, <2>4
    <3>2. rel'[t].stopped = rel[t].stopped /\ \A u \in Thread \ {t} : rel'[u] = rel[u]
      BY <1>0, <2>4, <3>1 DEF ReleaseLocals
    <3> QED
      BY <1>0, <2>1, <3>2 DEF BareReleases
  <2>5. CASE rel' = [rel EXCEPT ![t].stopped = [n \in Node |-> node[n].stopped]]
    <3>1. /\ rel'[t] = [rel[t] EXCEPT !.stopped = [n \in Node |-> node[n].stopped]]
          /\ \A u \in Thread \ {t} : rel'[u] = rel[u]
      BY <1>0, <2>5
    <3>2. rel'[t].stopped = [n \in Node |-> node[n].stopped]
      BY <1>0, <3>1 DEF ReleaseLocals
    <3> QED
      BY <1>0, <2>1, <3>1, <3>2 DEF Bared, Empty
  <2>6. CASE ReleaseRead(t)
    BY <1>0, <2>1, <2>6 DEF ReleaseRead
  <2> QED
    BY <1>3, <2>2, <2>3, <2>4, <2>5, <2>6
<1>5. ReleaseEffect(t)
    BY ReleaseEffects
<1>6. \A n \in Node : pc'[n] \in Dooming => pc[n] \in Dooming
  <2>1. Node \subseteq Thread
    BY DEF Thread
  <2> QED
    BY <1>0, <1>5, <2>1 DEF ReleaseEffect, RelPoints, Backs, Dooming
<1>7. DoomStep /\ GuestsRest
    BY <1>2, <1>6 DEF DoomStep, Doomed, GuestsRest
<1>8. Bare'
    BY <1>0, <1>2, <1>4 DEF Bare, BareTicks
<1> QED
    BY <1>7, <1>8, PlaceKept

(* A goroutine or a request that works on a node, and touches no guest.     *)
LEMMA WorkerPlace ==
    ASSUME TypeOK, PlaceInv, NEW n \in Node, moved' = moved, killed' = killed, at' = at, up' = up,
           eng' = eng, Bared(node'), BareReleases',
           \A m \in Node \ {n} : pc'[m] = pc[m] /\ host'[m] = host[m],
           Doomed(n)' => Doomed(n) \/ RunningOn(n) = {}
    PROVE  PlaceInv'
<1>1. DoomStep
    BY DEF DoomStep, Doomed
<1>2. GuestsRest
    BY DEF GuestsRest
<1>3. Bare'
    BY DEF PlaceInv, Bare, BareTicks
<1> QED
    BY <1>1, <1>2, <1>3, PlaceKept

(* The reboot of an in-place job is decided when nothing runs on the node,  *)
(* and that is known.                                                       *)
LEMMA WorkPlace ==
    ASSUME TypeOK, PlaceInv, ~opt.drain, NEW n \in Node,
           \/ SSHUpgrade(n) \/ SSHDecide(n) \/ SSHMarkReboot(n) \/ SSHReboot(n)
           \/ ConfirmReboot(n) \/ ConfirmMark(n) \/ ConfirmUpgrade(n) \/ SkipNode(n)
    PROVE  PlaceInv'
<1> USE DEF clusterVars
<1> DEFINE marked == [node EXCEPT ![n] = Moved(node[n], "rebooting")]
           owed == [node EXCEPT ![n] = [Moved(node[n], "health_check") EXCEPT !.owed = TRUE]]
<1>0. /\ node \in [Node -> NodeRow] /\ pc \in [Thread -> Points] /\ n \in Thread /\ n \in Host
      /\ host \in [Host -> {"up", "asked", "down", "fresh"}] /\ Node \subseteq Thread /\ Node \subseteq Host
      /\ Bare /\ Bared(node)
    BY NodeAssumption DEF TypeOK, Thread, PlaceInv, Bare
<1>1. moved' = moved /\ killed' = killed /\ at' = at /\ up' = up /\ eng' = eng
    BY DEF SSHUpgrade, SSHDecide, SSHMarkReboot, SSHReboot, ConfirmReboot, ConfirmMark, ConfirmUpgrade,
           SkipNode
<1>2. Bared(marked) /\ Bared(owed) /\ marked \in [Node -> NodeRow]
  <2>1. "rebooting" \in Steps
    BY DEF Steps, ActiveSteps, Advancing
  <2> QED
    BY <1>0, <2>1, MovedIsRow, BareWrites
<1>3. \A unknown \in BOOLEAN :
          DecideReboot(RunningOn(n), unknown) \in {"proceed", "defer"}
          /\ (DecideReboot(RunningOn(n), unknown) # "defer" => RunningOn(n) = {})
    BY DEF DecideReboot
<1>4. \/ /\ host' = host
         /\ \/ FailNodeIn(node, n, n, "idle")
            \/ /\ rel' = rel
               /\ node' \in {node, owed} \/ \E s : node' = [node EXCEPT ![n] = Moved(node[n], s)]
               /\ \/ pc' = pc
                  \/ \E p \in {"idle", "rebootCheck", "confHealth"} : Goto(n, p)
                  \/ pc[n] \in Dooming /\ \E p : Goto(n, p)
                  \/ RunningOn(n) = {} /\ \E p : Goto(n, p)
      \/ /\ pc[n] \in Dooming /\ host' \in {host, RebootAsked(n)}
         /\ \/ node' = node /\ rel' = rel /\ \E p : Goto(n, p)
            \/ \E rows \in {node, marked} : FailNodeIn(rows, n, n, "idle")
  <2>1. CASE SSHUpgrade(n) \/ SSHMarkReboot(n) \/ SSHReboot(n) \/ SkipNode(n)
    <3>1. CASE SSHUpgrade(n)
      BY <3>1, Zenon DEF SSHUpgrade, FailNode
    <3>2. CASE SSHMarkReboot(n)
      BY <3>2, Zenon DEF SSHMarkReboot, SetStep, Dooming
    <3>3. CASE SSHReboot(n)
      <4>1. pc[n] \in Dooming
        BY <3>3 DEF SSHReboot, Dooming
      <4> QED
        BY <3>3, <4>1, Zenon DEF SSHReboot, FailNode
    <3>4. CASE SkipNode(n)
      BY <3>4, Zenon DEF SkipNode, SetStep
    <3> QED
      BY <2>1, <3>1, <3>2, <3>3, <3>4
  <2>2. CASE ConfirmReboot(n)
    <3>1. pc[n] \in Dooming
      BY <2>2 DEF ConfirmReboot, Dooming
    <3> QED
      BY <2>2, <3>1, Zenon DEF ConfirmReboot
  <2>3. CASE ConfirmMark(n)
    BY <2>3, Zenon DEF ConfirmMark, SetStep
  <2>4. CASE SSHDecide(n)
    <3>1. \/ rel' = rel /\ Goto(n, "idle") /\ \E s : node' = [node EXCEPT ![n] = Moved(node[n], s)]
          \/ \E unknown \in BOOLEAN :
             CASE DecideReboot(RunningOn(n), unknown) = "defer" ->
                    node' = owed /\ Goto(n, "idle") /\ rel' = rel
               [] DecideReboot(RunningOn(n), unknown) = "fail" ->
                    FailNode(n, n, "idle")
               [] OTHER -> Goto(n, "rebootMark") /\ node' = node /\ rel' = rel
      BY <2>4, Zenon DEF SSHDecide, SetStep
    <3>2. host' = host
      BY <2>4 DEF SSHDecide
    <3>3. ASSUME NEW unknown \in BOOLEAN,
                 CASE DecideReboot(RunningOn(n), unknown) = "defer" ->
                        node' = owed /\ Goto(n, "idle") /\ rel' = rel
                   [] DecideReboot(RunningOn(n), unknown) = "fail" ->
                        FailNode(n, n, "idle")
                   [] OTHER -> Goto(n, "rebootMark") /\ node' = node /\ rel' = rel
          PROVE  \/ rel' = rel /\ node' = owed /\ Goto(n, "idle")
                 \/ rel' = rel /\ node' = node /\ Goto(n, "rebootMark") /\ RunningOn(n) = {}
      <4> HIDE DEF owed
      <4> QED
        BY <1>3, <3>3
    <3>4. \/ rel' = rel /\ Goto(n, "idle") /\ \E s : node' = [node EXCEPT ![n] = Moved(node[n], s)]
          \/ rel' = rel /\ node' = owed /\ Goto(n, "idle")
          \/ rel' = rel /\ node' = node /\ Goto(n, "rebootMark") /\ RunningOn(n) = {}
      BY <3>1, <3>3, Zenon
    <3> HIDE DEF owed, marked
    <3> QED
      BY <3>2, <3>4, Zenon
  <2>5. CASE ConfirmUpgrade(n)
    <3>1. \/ FailNode(n, n, "idle")
          \/ Goto(n, "confHealth") /\ node' = node /\ rel' = rel
          \/ \E unknown \in BOOLEAN :
             /\ rel' = rel
             /\ IF DecideReboot(RunningOn(n), unknown) = "defer"
                THEN node' = owed /\ pc' = pc
                ELSE node' = node /\ Goto(n, "confReboot")
      BY <2>5, Zenon DEF ConfirmUpgrade
    <3>2. host' = host
      BY <2>5 DEF ConfirmUpgrade
    <3>3. ASSUME NEW unknown \in BOOLEAN, rel' = rel,
                 IF DecideReboot(RunningOn(n), unknown) = "defer"
                 THEN node' = owed /\ pc' = pc
                 ELSE node' = node /\ Goto(n, "confReboot")
          PROVE  \/ rel' = rel /\ node' = owed /\ pc' = pc
                 \/ rel' = rel /\ node' = node /\ Goto(n, "confReboot") /\ RunningOn(n) = {}
      <4> HIDE DEF owed
      <4> QED
        BY <1>3, <3>3
    <3>4. \/ FailNodeIn(node, n, n, "idle")
          \/ Goto(n, "confHealth") /\ node' = node /\ rel' = rel
          \/ rel' = rel /\ node' = owed /\ pc' = pc
          \/ rel' = rel /\ node' = node /\ Goto(n, "confReboot") /\ RunningOn(n) = {}
      BY <3>1, <3>3, Zenon DEF FailNode
    <3> HIDE DEF owed, marked
    <3> QED
      BY <3>2, <3>4, Zenon
  <2> QED
    BY <2>1, <2>2, <2>3, <2>4, <2>5
<1> HIDE DEF owed, marked
<1>5. ASSUME NEW rows \in {node, marked}, FailNodeIn(rows, n, n, "idle")
      PROVE  /\ Bared(node') /\ BareReleases' /\ pc'[n] \notin Dooming
             /\ \A m \in Node \ {n} : pc'[m] = pc[m]
  <2>1. rows \in [Node -> NodeRow] /\ Bared(rows)
    BY <1>0, <1>2
  <2>2. Bared(node') /\ (rel' = rel \/ rel' = [rel EXCEPT ![n].back = "idle"])
    BY <1>5, <2>1, BareFails
  <2>3. BareReleases'
    BY <1>0, <2>2, BareBack
  <2>4. pc'[n] \in {"idle", "failJob"} /\ \A u \in Thread \ {n} : pc'[u] = pc[u]
    BY <1>0, <1>5, <2>1, FailNodeRow
  <2> QED
    BY <1>0, <2>2, <2>3, <2>4 DEF Dooming
<1>6. ASSUME NEW p, Goto(n, p) PROVE pc'[n] = p /\ \A m \in Node \ {n} : pc'[m] = pc[m]
    BY <1>0, <1>6 DEF Goto
<1>7. rel' = rel => BareReleases'
    BY <1>0, BareBack
<1>8. ASSUME host' = host, rel' = rel,
             node' \in {node, owed} \/ \E s : node' = [node EXCEPT ![n] = Moved(node[n], s)],
             \/ pc' = pc
             \/ \E p \in {"idle", "rebootCheck", "confHealth"} : Goto(n, p)
             \/ pc[n] \in Dooming /\ \E p : Goto(n, p)
             \/ RunningOn(n) = {} /\ \E p : Goto(n, p)
      PROVE  PlaceInv'
  <2>1. ASSUME NEW s, node' = [node EXCEPT ![n] = Moved(node[n], s)] PROVE Bared(node')
    BY <1>0, <2>1, BareWrites
  <2>2. Bared(node')
    BY <1>0, <1>2, <1>8, <2>1
  <2>3. /\ \A m \in Node \ {n} : pc'[m] = pc[m]
        /\ pc'[n] \in Dooming => pc[n] \in Dooming \/ RunningOn(n) = {}
    BY <1>6, <1>8 DEF Dooming
  <2>4. Doomed(n)' => Doomed(n) \/ RunningOn(n) = {}
    BY <1>8, <2>3 DEF Doomed
  <2> QED
    BY <1>1, <1>7, <1>8, <2>2, <2>3, <2>4, WorkerPlace
<1>9. ASSUME host' = host, FailNodeIn(node, n, n, "idle") PROVE PlaceInv'
  <2>1. Doomed(n)' => Doomed(n)
    BY <1>5, <1>9 DEF Doomed
  <2> QED
    BY <1>1, <1>5, <1>9, <2>1, WorkerPlace
<1>10. ASSUME pc[n] \in Dooming, host' \in {host, RebootAsked(n)},
              \/ node' = node /\ rel' = rel /\ \E p : Goto(n, p)
              \/ \E rows \in {node, marked} : FailNodeIn(rows, n, n, "idle")
       PROVE  PlaceInv'
  <2>1. \A m \in Node \ {n} : host'[m] = host[m]
    BY <1>0, <1>10 DEF RebootAsked
  <2>2. Bared(node') /\ BareReleases' /\ \A m \in Node \ {n} : pc'[m] = pc[m]
    BY <1>0, <1>5, <1>6, <1>7, <1>10
  <2>3. Doomed(n)
    BY <1>10 DEF Doomed
  <2> QED
    BY <1>1, <2>1, <2>2, <2>3, WorkerPlace
<1> QED
    BY <1>4, <1>8, <1>9, <1>10

(* The requests, time, the cluster and crashes.                             *)
LEMMA WorldPlace ==
    ASSUME TypeOK, PlaceInv,
           \/ StartJob \/ PauseJob \/ ResumeJob \/ CancelJob \/ CreateAnother
           \/ \E n \in Node : GoStale(n) \/ GoLate(n) \/ HostGoesDown(n) \/ HostBoots(n)
           \/ BackoffPasses \/ HourPasses
           \/ \E g \in Guest : GuestMoves(g)
           \/ Crash
    PROVE  PlaceInv'
<1> USE DEF clusterVars
<1>0. /\ node \in [Node -> NodeRow] /\ pc \in [Thread -> Points]
      /\ host \in [Host -> {"up", "asked", "down", "fresh"}] /\ Node \subseteq Host
      /\ at \in [Guest -> Host] /\ up \subseteq Guest
      /\ Node \subseteq Thread /\ Api \in Thread /\ Api \notin Node
      /\ Bare /\ Bared(node) /\ BareTicks
    BY ThreadAssumption, NodeAssumption DEF TypeOK, Thread, PlaceInv, Bare
<1>1. Bared(node')
  <2>1. ASSUME NEW n \in Node, GoStale(n) PROVE Bared(node')
    BY <1>0, <2>1, BareWrites DEF GoStale
  <2>2. ASSUME NEW n \in Node, GoLate(n) PROVE Bared(node')
    BY <1>0, <2>2, BareWrites DEF GoLate
  <2>3. CASE ~\E n \in Node : GoStale(n) \/ GoLate(n)
    <3>1. node' = node
      BY <2>3 DEF StartJob, PauseJob, ResumeJob, CancelJob, CreateAnother, HostGoesDown,
         HostBoots, BackoffPasses, HourPasses, GuestMoves, Crash
    <3> QED
      BY <1>0, <3>1
  <2> QED
    BY <2>1, <2>2, <2>3
<1>2. BareTicks' /\ BareReleases'
  <2>1. CASE Crash
    <3>1. eng' = [e \in Engine |-> NoEngine] /\ rel' = [t \in Thread |-> NoRelease]
      BY <2>1 DEF Crash
    <3>2. BareLocals(NoEngine) /\ \A n \in Node : NoRelease.stopped[n] = {}
      BY DEF BareLocals, NoEngine, Bared, Empty, NewRow, NoRelease
    <3> QED
      BY <3>1, <3>2 DEF BareTicks, BareReleases
  <2>2. CASE ~Crash
    <3>1. eng' = eng /\ (rel' = rel \/ rel' = [rel EXCEPT ![Api].back = "idle"])
      BY <2>2 DEF StartJob, PauseJob, ResumeJob, CancelJob, CreateAnother, GoStale, GoLate, HostGoesDown,
         HostBoots, BackoffPasses, HourPasses, GuestMoves
    <3>2. BareReleases'
      BY <1>0, <3>1, BareBack
    <3> QED
      BY <1>0, <3>1, <3>2 DEF BareTicks
  <2> QED
    BY <2>1, <2>2
<1>3. \A n \in Node : pc'[n] = pc[n] \/ pc'[n] = "idle"
  <2>1. \/ pc' = pc \/ pc' = [pc EXCEPT ![Api] = "release"] \/ pc' = [t \in Thread |-> "idle"]
    BY DEF StartJob, PauseJob, ResumeJob, CancelJob, CreateAnother, GoStale, GoLate, HostGoesDown,
       HostBoots, BackoffPasses, HourPasses, GuestMoves, Crash, Goto
  <2> QED
    BY <1>0, <2>1
<1>4. \A n \in Node : host'[n] = "asked" => host[n] = "asked"
  <2>1. \/ host' = host
        \/ \E n \in Node : host' = [host EXCEPT ![n] = "down"] \/ host' = [host EXCEPT ![n] = "fresh"]
    BY DEF StartJob, PauseJob, ResumeJob, CancelJob, CreateAnother, GoStale, GoLate, HostGoesDown,
       HostBoots, BackoffPasses, HourPasses, GuestMoves, Crash
  <2> QED
    BY <1>0, <2>1
<1>5. DoomStep
    BY <1>3, <1>4 DEF DoomStep, Doomed, Dooming
<1>6. GuestsRest
  <2>1. ASSUME NEW n \in Node, HostGoesDown(n) PROVE GuestsRest
    <3>1. RunningOn(n) \subseteq moved
      BY <2>1 DEF HostGoesDown, PlaceInv, Doomed
    <3> QED
      BY <2>1, <3>1 DEF HostGoesDown, GuestsRest
  <2>2. ASSUME NEW g \in Guest, GuestMoves(g) PROVE GuestsRest
    <3>1. PICK h : at' = [at EXCEPT ![g] = h]
      BY <2>2 DEF GuestMoves
    <3>2. moved' = moved \cup {g} /\ up' = up /\ killed' = killed
      BY <2>2 DEF GuestMoves
    <3> QED
      BY <1>0, <3>1, <3>2 DEF GuestsRest
  <2>3. CASE ~(\E n \in Node : HostGoesDown(n)) /\ ~(\E g \in Guest : GuestMoves(g))
    <3>1. at' = at /\ up' = up /\ killed' = killed /\ moved' = moved
      BY <2>3 DEF StartJob, PauseJob, ResumeJob, CancelJob, CreateAnother, GoStale, GoLate,
         HostBoots, BackoffPasses, HourPasses, Crash
    <3> QED
      BY <3>1 DEF GuestsRest
  <2> QED
    BY <2>1, <2>2, <2>3
<1> QED
    BY <1>1, <1>2, <1>5, <1>6, PlaceKept DEF Bare

(* Every step of an in-place job.                                           *)
LEMMA StepPlace ==
    ASSUME IInv, ~opt.drain, PlaceInv, [Next]_vars
    PROVE  PlaceInv'
<1>0. TypeOK /\ Engine \subseteq Thread
    BY DEF IInv, Thread
<1>1. CASE UNCHANGED vars
    BY <1>1 DEF vars, clusterVars, PlaceInv, Bare, BareTicks, BareReleases, Doomed, RunningOn
<1>2. ASSUME NEW t \in Thread, Release(t) PROVE PlaceInv'
    BY <1>2, ReleasePlace
<1>3. ASSUME NEW e \in Engine, EngineStep(e) PROVE PlaceInv'
  <2>1. CASE \E n \in Node :
             \/ AdvanceRefused(e, n) \/ AdvanceWaits(e, n) \/ AdvanceTimedOut(e, n)
             \/ AdvanceDraining(e, n) \/ AdvanceUpgrading(e, n) \/ AdvanceRebooted(e, n)
             \/ AdvanceRestoreTimedOut(e, n) \/ AdvanceHealthCheck(e, n)
    BY <1>0, <2>1, AdvancePlace
  <2>2. CASE \/ Tick(e) \/ DisableDRS(e) \/ DisableDRSOff(e) \/ CreateClient(e) \/ PauseCRS(e)
             \/ RecordCRS(e) \/ FailCheck(e) \/ StartNext(e) \/ FinishJob(e) \/ Sweep(e)
             \/ CheckAfterRules(e) \/ RerecordRules(e) \/ DisableRules(e) \/ ListNodes(e)
    BY <1>0, <2>2, PlainPlace
  <2>3. CASE \/ StartNode(e) \/ StartCheck(e) \/ DrainStart(e)
             \/ DrainCheck(e) \/ DrainGuest(e) \/ RecordStopped(e) \/ StopPassthrough(e)
             \/ VerifyDrained(e) \/ RestoreGuest(e) \/ RestoreDone(e)
    BY <1>0, <2>3, StartPlace
  <2>4. CASE RestartGuests(e)
    BY <2>4, RestartPlace
  <2> QED
    BY <1>0, <1>2, <1>3, <2>1, <2>2, <2>3, <2>4 DEF EngineStep
<1>4. CASE OutsideStep
    BY <1>0, <1>4, WorkPlace, WorldPlace DEF OutsideStep
<1> QED
    BY <1>1, <1>2, <1>3, <1>4, StepKinds

(* Nothing is recorded before the first tick, and no reboot is decided.     *)
LEMMA InitPlace ==
    ASSUME Init
    PROVE  PlaceInv
<1>1. BareLocals(NoEngine) /\ (\A n \in Node : NoRelease.stopped[n] = {}) /\ Bared(node)
    BY DEF Init, BareLocals, NoEngine, Bared, Empty, NewRow, NoRelease
<1>2. Bare
    BY <1>1 DEF Init, Bare, BareTicks, BareReleases
<1>3. killed = {} /\ \A n \in Node : ~Doomed(n)
    BY NodeAssumption DEF Init, Doomed, Dooming, Thread
<1> QED
    BY <1>2, <1>3 DEF PlaceInv

(* The options of a job are never written.                                  *)
LEMMA OptionsStay ==
    ASSUME TypeOK, IInv, [Next]_vars
    PROVE  opt' = opt
<1> USE DEF clusterVars
<1>1. CASE UNCHANGED vars
    BY <1>1 DEF vars
<1>2. ASSUME NEW t \in Thread, Release(t) PROVE opt' = opt
    BY <1>2, ReleaseEffects DEF ReleaseEffect
<1>3. ASSUME NEW e \in Engine, EngineStep(e) PROVE opt' = opt
  <2>1. e \in Thread
    BY DEF Thread
  <2> QED
    BY <1>2, <1>3, <2>1 DEF EngineStep, Tick, DisableDRS, DisableDRSOff, CreateClient, PauseCRS, RecordCRS,
       ListNodes, AdvanceRefused, AdvanceWaits, AdvanceTimedOut, AdvanceDraining, AdvanceUpgrading,
       AdvanceRebooted, AdvanceHealthCheck, AdvanceRestoreTimedOut, RestartGuests, RestoreGuest,
       RestoreDone, FailCheck, StartNext, StartNode, StartCheck, DisableRules, RerecordRules,
       CheckAfterRules, DrainStart, DrainCheck, DrainGuest, RecordStopped, StopPassthrough,
       VerifyDrained, FinishJob, Sweep
<1>4. CASE OutsideStep
    BY <1>4 DEF OutsideStep, SSHUpgrade, SSHDecide, SSHMarkReboot, SSHReboot, ConfirmReboot, ConfirmMark,
       ConfirmUpgrade, SkipNode, StartJob, PauseJob, ResumeJob, CancelJob, CreateAnother, GoStale, GoLate,
       HostGoesDown, HostBoots, BackoffPasses, HourPasses, GuestMoves, Crash
<1> QED
    BY <1>1, <1>2, <1>3, <1>4, StepKinds

(* The reboots of an in-place job take down no running guest, except one    *)
(* that somebody else moved: for any nodes at once, any ticks side by side, *)
(* failed calls, crashes, cancels, requests and timeouts.                   *)
THEOREM InPlaceSpares ==
    Spec => [](~opt.drain => RebootSparesGuests)
<1> DEFINE Inv == IInv /\ (~opt.drain => PlaceInv)
<1>1. Init => Inv
    BY InitInv, InitPlace
<1>2. Inv /\ [Next]_vars => Inv'
  <2> SUFFICES ASSUME Inv, [Next]_vars PROVE Inv'
    OBVIOUS
  <2>1. IInv' /\ opt' = opt
    BY StepInv, OptionsStay DEF IInv
  <2> QED
    BY <2>1, StepPlace
<1>3. Inv => (~opt.drain => RebootSparesGuests)
    BY DEF PlaceInv, RebootSparesGuests
<1> HIDE DEF Inv
<1> QED
    BY <1>1, <1>2, <1>3, PTL DEF Spec
=============================================================================

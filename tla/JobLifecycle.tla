---------------------------- MODULE JobLifecycle ----------------------------
(***************************************************************************)
(* What a rolling-update job promises to whoever watches its row           *)
(* (queries/rolling_updates.sql): it is started once, may be paused and    *)
(* resumed, and reaches exactly one outcome, which is never taken back.    *)
(* Reaching the outcome arms the cleanup; only a finished job's cleanup    *)
(* is armed again or retired.                                              *)
(***************************************************************************)
VARIABLES status, cleanup

Active   == {"pending", "running", "paused"}
Outcomes == {"completed", "failed", "cancelled"}

Init == status = "pending" /\ cleanup = FALSE

Start  == status = "pending" /\ status' = "running" /\ UNCHANGED cleanup
Pause  == status = "running" /\ status' = "paused"  /\ UNCHANGED cleanup
Resume == status = "paused"  /\ status' = "running" /\ UNCHANGED cleanup

Finish ==
    /\ status \in Active
    /\ status' \in Outcomes
    /\ cleanup' = TRUE

Arm    == status \in Outcomes /\ ~cleanup /\ cleanup' = TRUE  /\ UNCHANGED status
Retire == status \in Outcomes /\ cleanup  /\ cleanup' = FALSE /\ UNCHANGED status

Next == Start \/ Pause \/ Resume \/ Finish \/ Arm \/ Retire

Spec == Init /\ [][Next]_<<status, cleanup>>
=============================================================================

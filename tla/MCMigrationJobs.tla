--------------------------- MODULE MCMigrationJobs ---------------------------
(* MigrationJobs for TLC.                                                   *)
EXTENDS MigrationJobs

\* A live migration moves no disk by itself.  A storage job has one disk to
\* move, or none; a job of both phases all of them, or none.
PlacedByKind ==
    [k \in AllKinds |->
        CASE k = "storage" -> {Disk, {CHOOSE d \in Disk : TRUE}}
          [] k = "both"    -> {Disk, {}}
          [] OTHER         -> {{}}]
=============================================================================

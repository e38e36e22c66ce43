-------------------------- MODULE MCLeaderElection --------------------------
(* LeaderElection for TLC: the bounds are those of the configurations.      *)
EXTENDS LeaderElection, TLC

Symmetry == Permutations(Process)
=============================================================================

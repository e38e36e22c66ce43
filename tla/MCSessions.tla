----------------------------- MODULE MCSessions -----------------------------
(* Sessions for TLC.                                                        *)
EXTENDS Sessions, TLC

Symmetric == Permutations(Req)
=============================================================================

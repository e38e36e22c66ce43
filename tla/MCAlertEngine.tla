---------------------------- MODULE MCAlertEngine ----------------------------
(* AlertEngine for TLC.                                                    *)
EXTENDS AlertEngine
=============================================================================

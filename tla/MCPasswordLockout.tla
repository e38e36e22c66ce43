-------------------------- MODULE MCPasswordLockout --------------------------
(* PasswordLockout for TLC.                                                 *)
EXTENDS PasswordLockout
=============================================================================

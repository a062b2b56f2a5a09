------------------------------ MODULE MCAccess ------------------------------
(***************************************************************************)
(* Tokens for TLC: ann logs in, bob asks for the same username.            *)
(***************************************************************************)
EXTENDS MCUserStore, Access
=============================================================================

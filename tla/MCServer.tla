------------------------------ MODULE MCServer ------------------------------
(***************************************************************************)
(* Values of the server's constants for TLC.                               *)
(***************************************************************************)
EXTENDS Server
=============================================================================

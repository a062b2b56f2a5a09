---------------------------- MODULE MCUserStore -----------------------------
(***************************************************************************)
(* Values of the user store's constants for TLC.                           *)
(***************************************************************************)
EXTENDS UserStore, TLC

CONSTANTS ann, bob, eve, l1

\* ann and bob want the same name; l1 logs in as ann.
MCNameOf  == [r \in Requests |-> IF r = eve THEN "n2" ELSE "n1"]
MCCredsOf == [l \in Logins |-> ann]
=============================================================================

----------------------------- MODULE MCMigrator -----------------------------
(***************************************************************************)
(* Values of the migrator's constants for TLC.                             *)
(***************************************************************************)
EXTENDS Migrator, TLC

CONSTANTS r1, r2, r3

\* r1 is a newer binary than the others; r1 and r2 share a host.
MCLatest == [r \in Runs |-> IF r = r1 THEN 2 ELSE 1]
MCHostOf == [r \in Runs |-> IF r = r3 THEN "b" ELSE "a"]

SameHost   == [r \in Runs |-> "a"]
SameBinary == [r \in Runs |-> 1]
=============================================================================

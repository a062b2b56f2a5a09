-------------------------- MODULE MCMigrationFiles --------------------------
(***************************************************************************)
(* The migrator together with the loading of the files it runs, for TLC.   *)
(***************************************************************************)
EXTENDS MCMigrator, MigrationFiles
=============================================================================

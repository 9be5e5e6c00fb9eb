----------------------------- MODULE MCMigrator -----------------------------
(* Small instances of Migrator.                                              *)
EXTENDS Migrator, TLC

CONSTANTS m1, m2, m3
=============================================================================

------------------------------ MODULE MCMigrator ------------------------------
(* Two processes on each kind of database, three starts, two rollbacks.     *)
EXTENDS Migrator

AllKinds == {"postgres", "scripted", "sqlite"}
===============================================================================

---------------------------- MODULE MCMigrations ----------------------------
(* Migrations for TLC: its state space is finite as it stands.             *)
EXTENDS Migrations
=============================================================================

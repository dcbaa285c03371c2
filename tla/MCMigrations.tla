---------------------------- MODULE MCMigrations ----------------------------
(* An instance of Migrations for TLC: the processes are given in the .cfg. *)
EXTENDS Migrations

CONSTANTS b1, b2, c1
=============================================================================

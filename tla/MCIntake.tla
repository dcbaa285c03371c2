------------------------------ MODULE MCIntake ------------------------------
(***************************************************************************)
(* An instance of Intake for TLC: the processes are given in the .cfg.     *)
(***************************************************************************)
EXTENDS Intake

CONSTANTS p1, p2
=============================================================================

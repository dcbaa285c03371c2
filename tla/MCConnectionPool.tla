-------------------------- MODULE MCConnectionPool --------------------------
(* An instance of ConnectionPool for TLC: workers and jobs of the .cfg. *)
EXTENDS ConnectionPool

CONSTANTS w1, w2, j1, j2
=============================================================================

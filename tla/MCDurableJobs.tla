--------------------------- MODULE MCDurableJobs ---------------------------
(***************************************************************************)
(* Instances of DurableJobs for TLC.                                       *)
(***************************************************************************)
EXTENDS DurableJobsRefinement, TLC

CONSTANTS c1, w1, w2

MCChatOf == [j \in Job |-> c1]

(* The text of the first job fills two messages to the last rune, the      *)
(* others fit into one.                                                    *)
MCTextRunes == [j \in Job |-> IF j = 1 THEN 4 ELSE 1]

MCOneMessage == [j \in Job |-> 1]

(* Loops are interchangeable, but only safety may be checked with it. *)
WorkerSymmetry == Permutations(Worker)
=============================================================================

----------------------- MODULE DurableJobsRefinement -----------------------
(***************************************************************************)
(* DurableJobs implements JobContract.                                     *)
(***************************************************************************)
EXTENDS DurableJobs

(* What the backend's state says of the media it took. *)
Held(j) ==
  CASE backend[j] = "none" -> "nothing"
    [] backend[j] \in {"released", "lost"} -> backend[j]
    [] OTHER -> "kept"

Contract == INSTANCE JobContract WITH
  TextParts <- [j \in Job |-> Plan(j, "text")],
  accepted <- {j \in Job : state[j] # "absent"},
  held <- [j \in Job |-> Held(j)],
  verdict <- result,
  confirmed <- receipt,
  finished <- {j \in Job : state[j] = "done"}

(* The pipeline keeps the promises of docs/durable-jobs.md: every write of *)
(* a worker, every effect of a call and every fault is a step JobContract  *)
(* allows, or changes nothing that it speaks of.                           *)
KeepsContract == Contract!Spec
=============================================================================

--------------------------- MODULE UploadContract ---------------------------
(***************************************************************************)
(* What DurableJobs takes for granted of the upload stage of one job while *)
(* its worker owns the lock: a call that the backend takes as a whole, or  *)
(* refuses, or that fails with or without effect; a write that follows the *)
(* answer; and progress edits that have ended when the step has.           *)
(* The phases are those of a worker of DurableJobs, and "leave", which     *)
(* DurableJobs does not tell from the write.                               *)
(***************************************************************************)

VARIABLES
  refused,  \* whether the backend refuses the media: it does not change
  row,      \* the stage of the job
  held,     \* what the backend has of the media
  phase,    \* of the worker
  editing   \* whether an edit of the status message is under way

vars == <<refused, row, held, phase, editing>>

Calling == {"submit", "save_job", "save_result"}

Init ==
  /\ refused \in BOOLEAN
  /\ row = "upload"
  /\ held = "nothing"
  /\ phase = "idle"
  /\ editing = FALSE

(* DurableJobs!Claim *)
Claim ==
  /\ phase = "idle"
  /\ row = "upload"
  /\ phase' = "submit"
  /\ UNCHANGED <<refused, row, held, editing>>

(* DurableJobs!AcceptUpload: at once, and once for all attempts. *)
AcceptUpload ==
  /\ phase = "submit"
  /\ ~refused
  /\ held = "nothing"
  /\ held' = "whole"
  /\ UNCHANGED <<refused, row, phase, editing>>

(* The answer reaches the worker: DurableJobs!Submit and SubmitRejected. *)
Answer ==
  /\ phase = "submit"
  /\ \/ held = "whole" /\ phase' = "save_job"
     \/ refused /\ held = "nothing" /\ phase' = "save_result"
  /\ UNCHANGED <<refused, row, held, editing>>

(* The write of DurableJobs!SaveSubmitted and SaveResult. *)
Save ==
  /\ \/ phase = "save_job" /\ row' = "poll"
     \/ phase = "save_result" /\ row' = "deliver"
  /\ phase' = "leave"
  /\ UNCHANGED <<refused, held, editing>>

(* DurableJobs!CallFails and StoreFails *)
Fail ==
  /\ phase \in Calling
  /\ phase' = "leave"
  /\ UNCHANGED <<refused, row, held, editing>>

(* An edit starts in the step and ends before the step is left. *)
StartEdit ==
  /\ phase \in Calling \cup {"leave"}
  /\ ~editing
  /\ editing' = TRUE
  /\ UNCHANGED <<refused, row, held, phase>>

EndEdit ==
  /\ editing
  /\ editing' = FALSE
  /\ UNCHANGED <<refused, row, held, phase>>

Leave ==
  /\ phase = "leave"
  /\ ~editing
  /\ phase' = IF row = "upload" THEN "retry" ELSE "idle"
  /\ UNCHANGED <<refused, row, held, editing>>

(* DurableJobs!Retry and IterationFails *)
Retry ==
  /\ phase = "retry"
  /\ phase' = "idle"
  /\ UNCHANGED <<refused, row, held, editing>>

(* DurableJobs!Crash *)
Crash ==
  /\ phase # "idle"
  /\ phase' = "idle"
  /\ editing' = FALSE
  /\ UNCHANGED <<refused, row, held>>

Next ==
  Claim \/ AcceptUpload \/ Answer \/ Save \/ Fail \/ StartEdit \/ EndEdit \/ Leave \/ Retry \/ Crash

Spec == Init /\ [][Next]_vars
=============================================================================

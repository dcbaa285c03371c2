------------------------ MODULE DurableJobsInvariant ------------------------
(***************************************************************************)
(* The inductive invariant behind the safety of DurableJobs: what is known *)
(* of a row, of the job order of a chat, and of a worker, whether it still *)
(* owns its lock or has lost it without noticing.                          *)
(***************************************************************************)
EXTENDS DurableJobs

NotUploaded == {"absent", "status", "upload"}
Decided == {"deliver", "done"}

(* A lock is owned by the worker that runs a step of that very job. *)
LocksInv ==
  /\ \A w \in Worker : InStep(w) => job[w] \in Job
  /\ \A j \in Job : lock[j] # NoWorker => InStep(lock[j]) /\ job[lock[j]] = j

(* The row of a job against its outbox, its backend job and its screen. *)
RowInv(j) ==
  /\ result[j] # "none" <=> state[j] \in Decided
  /\ outbox[j] = IF result[j] = "none" THEN {} ELSE Plan(j, result[j])
  /\ jobId[j] <=> state[j] \notin NotUploaded /\ result[j] # "invalid"
  /\ jobId[j] => backend[j] # "none"
  /\ acked[j] => state[j] \in Decided /\ backend[j] \in {"none", "released", "lost"}
  /\ state[j] \in {"absent", "status"} => backend[j] = "none"
  /\ state[j] = "done" => acked[j] /\ receipt[j] = outbox[j]
  /\ j \in Rejected => backend[j] = "none"
  /\ result[j] = "invalid" => j \in Rejected /\ acked[j]

OutcomeInv(j) ==
  /\ backend[j] \in Evidence(j)
  /\ backend[j] \in {"cancelling", "cancelled"} \/ result[j] = "cancelled" => cancel[j]

PartsInv(j) ==
  /\ receipt[j] \subseteq shown[j]
  /\ shown[j] \subseteq outbox[j]
  /\ \A p \in shown[j] : 0 .. (p - 1) \subseteq receipt[j]

(* Updates are admitted in order, and a chat's jobs keep it up to upload. *)
OrderInv(e, j) ==
  /\ state[j] # "absent" => state[e] # "absent"
  /\ ChatOf[e] = ChatOf[j] =>
       /\ state[j] \notin {"absent", "status"} => state[e] \notin {"absent", "status"}
       /\ state[j] \notin NotUploaded \/ backend[j] # "none" => state[e] \notin NotUploaded

(* j is first in line for stage s, and remains so. *)
Unblocked(j, s) ==
  \A e \in Job : Earlier(e, j) =>
    state[e] \notin (IF s = "status" THEN {"absent", "status"} ELSE NotUploaded)

(* What a worker may count on while it still owns its lock. *)
Fresh(w, s) == Holds(w) => state[job[w]] = s

UploadPc(w) == \/ pc[w] \in {"submit", "save_job"}
               \/ pc[w] = "save_result" /\ outcome[w] = "invalid"
PollPc(w) == \/ pc[w] \in {"cancel", "query", "edit_progress", "reschedule"}
             \/ pc[w] = "save_result" /\ outcome[w] # "invalid"
DeliverPc(w) == pc[w] \in {"ack", "save_ack", "next", "send", "save_receipt", "complete"}

CandInv(w) ==
  pc[w] \in Stage => \A j \in cand[w] :
    /\ state[j] # "absent"
    /\ pc[w] \in {"status", "upload"} => Unblocked(j, pc[w])

StepInv(w) ==
  LET j == job[w]
  IN  /\ InStep(w) => state[j] # "absent"
      /\ pc[w] \in {"send_status", "save_status"} => Fresh(w, "status") /\ Unblocked(j, "status")
      /\ UploadPc(w) =>
           state[j] # "status" /\ Fresh(w, "upload") /\ Unblocked(j, "upload")
      /\ PollPc(w) => state[j] \notin NotUploaded /\ Fresh(w, "poll")
      /\ DeliverPc(w) => state[j] \in Decided /\ Fresh(w, "deliver")

(* What a call has established for the statement that follows it. *)
AnswerInv(w) ==
  LET j == job[w]
  IN  /\ pc[w] = "save_job" => backend[j] # "none"
      /\ pc[w] = "cancel" => cancel[j]
      /\ pc[w] = "save_result" =>
           /\ outcome[w] # "none"
           /\ Holds(w) /\ outcome[w] = "text" => backend[j] \in {"done", "lost"}
           /\ Holds(w) /\ outcome[w] = "failed" => backend[j] \in {"failed", "lost"}
           /\ Holds(w) /\ outcome[w] = "cancelled" => cancel[j] /\ backend[j] \in {"cancelled", "lost"}
           /\ Holds(w) /\ outcome[w] = "missing" => backend[j] = "lost"
           /\ outcome[w] = "invalid" => j \in Rejected
      /\ pc[w] \in {"ack", "save_ack"} => jobId[j]
      /\ pc[w] = "save_ack" => backend[j] \in {"released", "lost"}
      /\ pc[w] \in {"send", "save_receipt"} => part[w] \in outbox[j] /\ 0 .. (part[w] - 1) \subseteq receipt[j]
      /\ pc[w] = "save_receipt" => part[w] \in shown[j]

JobsInv == \A j \in Job : RowInv(j) /\ OutcomeInv(j) /\ PartsInv(j)
OrdersInv == \A e, j \in Job : e < j => OrderInv(e, j)
WorkerInv(w) == CandInv(w) /\ StepInv(w) /\ AnswerInv(w)

IInv == TypeOK /\ LocksInv /\ JobsInv /\ OrdersInv /\ \A w \in Worker : WorkerInv(w)

----------------------------------------------------------------------------
(* What every step, of a worker or of its surroundings, leaves of a job to *)
(* the others: the guarantee they rely on.                                 *)
Onward(j) ==
  /\ \A past \in {{"absent"}, {"absent", "status"}, NotUploaded} :
       state[j] \notin past => state'[j] \notin past
  /\ state[j] \in Decided => state'[j] \in Decided
  /\ cancel[j] => cancel'[j]
  /\ jobId[j] => jobId'[j]
  /\ outbox[j] \subseteq outbox'[j]
  /\ receipt[j] \subseteq receipt'[j]
  /\ shown[j] \subseteq shown'[j]
  /\ backend[j] # "none" => backend'[j] # "none"
  /\ backend[j] \in {"released", "lost"} => backend'[j] = backend[j]
  /\ backend[j] \in {"done", "failed", "cancelled"} /\ state[j] \notin Decided
       => backend'[j] \in {backend[j], "lost"}

(* A step that is not of worker v leaves its local state, cannot give it a *)
(* lock, and moves no job that v still has locked.                         *)
Undisturbed(v) ==
  /\ pc'[v] = pc[v]
  /\ cand'[v] = cand[v]
  /\ job'[v] = job[v]
  /\ part'[v] = part[v]
  /\ outcome'[v] = outcome[v]
  /\ \A j \in Job : lock'[j] = v => lock[j] = v /\ state'[j] = state[j]

(* The step of w passes no lock to another worker and touches no other     *)
(* worker's local state.                                                   *)
OnlyOf(w) ==
  \A v \in Worker \ {w} :
    /\ pc'[v] = pc[v]
    /\ cand'[v] = cand[v]
    /\ job'[v] = job[v]
    /\ part'[v] = part[v]
    /\ outcome'[v] = outcome[v]
    /\ \A j \in Job : lock'[j] = v => lock[j] = v
=============================================================================

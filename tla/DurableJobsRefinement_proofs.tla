-------------------- MODULE DurableJobsRefinement_proofs --------------------
(***************************************************************************)
(* DurableJobs implements JobContract, for any number of jobs, chats,      *)
(* parts, workers and faults.                                              *)
(*                                                                         *)
(* Under the invariant every step either changes one of the things that    *)
(* JobContract speaks of, in a way it allows, or none of them.  What is    *)
(* shown to users and what the backend has are changed by calls, which may *)
(* be those of a worker without its lock: that they are allowed follows    *)
(* from what such a worker still knows.                                    *)
(***************************************************************************)
EXTENDS DurableJobs_proofs, DurableJobsRefinement

USE DEF rowVars, localVars, outsideVars, vars

ContractStep == [Contract!Next]_(Contract!vars)

(* Parts of the state that JobContract sees. *)
SameJobs ==
  \A j \in Job : /\ state'[j] = "absent" <=> state[j] = "absent"
                 /\ state'[j] = "done" <=> state[j] = "done"

SameHeld == \A j \in Job : Held(j)' = Held(j)

(* A step that JobContract does not see. *)
LEMMA Stutter ==
  ASSUME SameJobs, SameHeld, UNCHANGED <<result, shown, receipt>>
  PROVE  ContractStep
BY DEF ContractStep, Contract!vars, SameJobs, SameHeld

LEMMA SameRows ==
  ASSUME UNCHANGED <<state, backend>>
  PROVE  SameJobs /\ SameHeld
BY DEF SameJobs, SameHeld, Held

(* What a job owes is what its plan has. *)
LEMMA OwedIsPlan ==
  ASSUME NEW j \in Job
  PROVE  Contract!Owed(j) = Plan(j, result[j])
BY DEF Contract!Owed, Plan

(* The backend's state of one job changes. *)
LEMMA HeldChanges ==
  ASSUME TypeOK, NEW j \in Job, NEW b \in BackendState, NEW h,
         backend' = [backend EXCEPT ![j] = b],
         CASE b = "none" -> h = "nothing"
           [] b \in {"released", "lost"} -> h = b
           [] OTHER -> h = "kept"
  PROVE  [k \in Job |-> Held(k)]' = [[k \in Job |-> Held(k)] EXCEPT ![j] = h]
<1>1. \A k \in Job \ {j} : Held(k)' = Held(k)
  BY DEF TypeOK, Held
<1>2. Held(j)' = h
  BY DEF TypeOK, Held, BackendState
<1> QED
  BY <1>1, <1>2

----------------------------------------------------------------------------
(* The calls. *)

(* A decided job is one that is delivered or done. *)
LEMMA NotDecided ==
  ASSUME IInv, NEW j \in Job, backend[j] = "none", j \notin Rejected
  PROVE  result[j] = "none"
BY DEF IInv, JobsInv, RowInv, Decided, NotUploaded

LEMMA PastUpload ==
  ASSUME IInv, NEW j \in Job, state[j] \notin NotUploaded
  PROVE  Held(j) # "nothing" \/ result[j] # "none"
<1>1. jobId[j] \/ result[j] = "invalid"
  BY DEF IInv, JobsInv, RowInv
<1>2. jobId[j] => backend[j] # "none"
  BY DEF IInv, JobsInv, RowInv
<1> QED
  BY <1>1, <1>2 DEF Held, IInv, TypeOK

(* Submit: the job is the first of its chat that the backend does not have. *)
LEMMA AcceptUploadAllowed ==
  ASSUME IInv, NEW w \in Worker, pc[w] = "submit", AcceptUpload(job[w]),
         UNCHANGED <<state, result, receipt>>
  PROVE  ContractStep
<1> DEFINE j == job[w]
<1>1. /\ j \in Job /\ state[j] # "absent" /\ Unblocked(j, "upload")
      /\ TypeOK
  BY DEF IInv, LocksInv, InStep, CallPc, WorkerInv, StepInv, UploadPc
<1>2. UNCHANGED shown
  BY DEF AcceptUpload
<1>3. CASE backend[j] = "none" /\ j \notin Rejected
  <2>1. backend' = [backend EXCEPT ![j] = "active"]
    BY <1>3 DEF AcceptUpload
  <2>2. [k \in Job |-> Held(k)]' = [[k \in Job |-> Held(k)] EXCEPT ![j] = "kept"]
    BY <1>1, <2>1, HeldChanges DEF BackendState
  <2>3. Held(j) = "nothing" /\ result[j] = "none"
    BY <1>1, <1>3, NotDecided DEF Held
  <2>4. \A e \in Job : e < j /\ ChatOf[e] = ChatOf[j] => Held(e) # "nothing" \/ result[e] # "none"
    BY <1>1, PastUpload DEF Unblocked, Earlier
  <2>5. Contract!Take(j)
    BY <1>1, <1>2, <2>2, <2>3, <2>4 DEF Contract!Take
  <2> QED
    BY <1>1, <2>5 DEF ContractStep, Contract!Next
<1>4. CASE ~(backend[j] = "none" /\ j \notin Rejected)
  <2>1. UNCHANGED backend
    BY <1>1, <1>4 DEF AcceptUpload, TypeOK
  <2> QED
    BY <1>2, <2>1, SameRows, Stutter
<1> QED
  BY <1>3, <1>4

LEMMA MarkCancelledAllowed ==
  ASSUME IInv, NEW j \in Job, MarkCancelled(j), UNCHANGED <<state, result, receipt>>
  PROVE  ContractStep
<1>1. SameHeld
  BY DEF MarkCancelled, SameHeld, Held, IInv, TypeOK
<1> QED
  BY <1>1, Stutter DEF SameJobs, MarkCancelled

(* Ack: whoever sends it has seen the outcome in the row. *)
LEMMA ReleaseJobAllowed ==
  ASSUME IInv, NEW w \in Worker, pc[w] = "ack", ReleaseJob(job[w]),
         UNCHANGED <<state, result, receipt>>
  PROVE  ContractStep
<1> DEFINE j == job[w]
<1>1. j \in Job /\ state[j] \in Decided /\ TypeOK
  BY DEF IInv, LocksInv, InStep, CallPc, WorkerInv, StepInv, DeliverPc
<1>2. result[j] # "none"
  BY <1>1 DEF IInv, JobsInv, RowInv
<1>3. UNCHANGED shown
  BY DEF ReleaseJob
<1>4. CASE backend[j] \in {"done", "failed", "cancelled"}
  <2>1. backend' = [backend EXCEPT ![j] = "released"]
    BY <1>4 DEF ReleaseJob
  <2>2. [k \in Job |-> Held(k)]' = [[k \in Job |-> Held(k)] EXCEPT ![j] = "released"]
    BY <1>1, <2>1, HeldChanges DEF BackendState
  <2>3. Held(j) = "kept"
    BY <1>4 DEF Held
  <2>4. Contract!Release(j)
    BY <1>1, <1>2, <1>3, <2>2, <2>3 DEF Contract!Release
  <2> QED
    BY <1>1, <2>4 DEF ContractStep, Contract!Next
<1>5. CASE backend[j] \notin {"done", "failed", "cancelled"}
  <2>1. UNCHANGED backend
    BY <1>1, <1>5 DEF ReleaseJob, TypeOK
  <2> QED
    BY <1>3, <2>1, SameRows, Stutter
<1> QED
  BY <1>4, <1>5

(* A part is sent after the receipts of those before it. *)
LEMMA ShowPartAllowed ==
  ASSUME IInv, NEW w \in Worker, pc[w] = "send", ShowPart(job[w], part[w]),
         UNCHANGED <<state, result, receipt>>
  PROVE  ContractStep
<1> DEFINE j == job[w]
           p == part[w]
<1>1. /\ j \in Job /\ TypeOK
      /\ p \in outbox[j] /\ 0 .. (p - 1) \subseteq receipt[j]
  BY DEF IInv, LocksInv, InStep, CallPc, WorkerInv, AnswerInv
<1>2. result[j] # "none" /\ outbox[j] = Plan(j, result[j])
  BY <1>1 DEF IInv, JobsInv, RowInv
<1>3. p \in Contract!Owed(j)
  BY <1>1, <1>2, OwedIsPlan
<1>4. SameJobs /\ SameHeld
  BY SameRows DEF ShowPart
<1>5. Contract!Show(j, p)
  BY <1>1, <1>2, <1>3, <1>4 DEF Contract!Show, ShowPart, SameJobs, SameHeld
<1> QED
  BY <1>1, <1>3, <1>5 DEF ContractStep, Contract!Next

(* Any call, answered or not. *)
LEMMA CallAllowed ==
  ASSUME IInv, NEW w \in Worker, pc[w] \in CallPc, UNCHANGED <<state, result, receipt>>,
         CallTakesEffect(w) \/ UNCHANGED outsideVars
  PROVE  ContractStep
<1>1. job[w] \in Job
  BY DEF IInv, LocksInv, InStep
<1>2. CASE ShowProgress(job[w]) \/ UNCHANGED outsideVars
  <2>1. UNCHANGED <<backend, shown>>
    BY <1>2 DEF ShowProgress
  <2> QED
    BY <2>1, SameRows, Stutter
<1>3. CASE CallTakesEffect(w)
  BY <1>1, <1>2, <1>3, AcceptUploadAllowed, MarkCancelledAllowed, ReleaseJobAllowed, ShowPartAllowed
     DEF CallTakesEffect
<1> QED
  BY <1>2, <1>3

----------------------------------------------------------------------------
(* The statements. *)

(* The outcome that is stored agrees with what the backend has. *)
LEMMA SaveResultAllowed ==
  ASSUME IInv, NEW w \in Worker, SaveResult(w)
  PROVE  ContractStep
<1> DEFINE j == job[w]
           v == outcome[w]
<1>1. /\ j \in Job /\ Holds(w) /\ pc[w] = "save_result" /\ TypeOK
      /\ WorkerInv(w) /\ RowInv(j)
  BY HolderKnows DEF IInv, SaveResult, JobsInv
<1>2. state[j] \in {"upload", "poll"}
  BY <1>1 DEF WorkerInv, StepInv, Fresh, UploadPc, PollPc, NotUploaded, TypeOK, InStep, StorePc
<1>3. result[j] = "none"
  BY <1>1, <1>2 DEF RowInv, Decided
<1>4. v \in {"text", "failed", "cancelled", "missing", "invalid"}
  BY <1>1 DEF WorkerInv, AnswerInv, TypeOK, Outcome
<1>5. (CASE v = "invalid" -> j \in Rejected /\ Held(j) = "nothing"
         [] v = "missing" -> Held(j) = "lost"
         [] OTHER -> Held(j) \in {"kept", "lost"})
  BY <1>1, <1>4 DEF WorkerInv, AnswerInv, RowInv, Held
<1>6. SameJobs
  BY <1>1, <1>2 DEF SaveResult, SameJobs, TypeOK
<1>7. SameHeld
  BY DEF SaveResult, SameHeld, Held
<1>8. Contract!Decide(j, v)
  BY <1>1, <1>2, <1>3, <1>5, <1>6, <1>7 DEF SaveResult, SameJobs, SameHeld, Contract!Decide
<1> QED
  BY <1>1, <1>4, <1>8 DEF ContractStep, Contract!Next

(* A receipt is stored for a part that was shown. *)
LEMMA SaveReceiptAllowed ==
  ASSUME IInv, NEW w \in Worker, SaveReceipt(w)
  PROVE  ContractStep
<1> DEFINE j == job[w]
           p == part[w]
<1>1. /\ j \in Job /\ pc[w] = "save_receipt" /\ WorkerInv(w) /\ RowInv(j)
  BY HolderKnows DEF IInv, SaveReceipt, JobsInv
<1>2. p \in outbox[j] /\ p \in shown[j]
  BY <1>1 DEF WorkerInv, AnswerInv
<1>3. p \in Contract!Owed(j)
  BY <1>1, <1>2, OwedIsPlan DEF RowInv
<1>4. SameJobs /\ SameHeld
  BY SameRows DEF SaveReceipt
<1>5. Contract!Confirm(j, p)
  BY <1>1, <1>2, <1>4 DEF SaveReceipt, SameJobs, SameHeld, Contract!Confirm
<1> QED
  BY <1>1, <1>3, <1>5 DEF ContractStep, Contract!Next

(* A job is completed when all is confirmed and the backend has dropped it. *)
LEMMA CompleteAllowed ==
  ASSUME IInv, NEW w \in Worker, Complete(w)
  PROVE  ContractStep
<1> DEFINE j == job[w]
<1>1. /\ j \in Job /\ pc[w] = "complete" /\ Holds(w) /\ WorkerInv(w) /\ RowInv(j)
      /\ PartsInv(j) /\ TypeOK
  BY HolderKnows DEF IInv, Complete, JobsInv
<1>2. state[j] = "deliver" /\ result[j] # "none"
  BY <1>1 DEF WorkerInv, StepInv, Fresh, DeliverPc, RowInv, Decided
<1>3. SameHeld /\ UNCHANGED <<result, shown, receipt>>
  BY DEF Complete, SameHeld, Held
<1>4. CASE MayComplete(j)
  <2>1. receipt[j] = outbox[j]
    BY <1>1, <1>4 DEF MayComplete, Pending, PartsInv
  <2>2. receipt[j] = Contract!Owed(j)
    BY <1>1, <1>2, <2>1, OwedIsPlan DEF RowInv
  <2>3. Held(j) # "kept"
    BY <1>1, <1>4 DEF MayComplete, RowInv, Held
  <2>4. state' = [state EXCEPT ![j] = "done"]
    BY <1>4 DEF Complete
  <2>5. /\ {k \in Job : state'[k] # "absent"} = {k \in Job : state[k] # "absent"}
        /\ {k \in Job : state'[k] = "done"} = {k \in Job : state[k] = "done"} \cup {j}
    BY <1>1, <1>2, <2>4 DEF TypeOK
  <2>6. \E k \in Job : Contract!Complete(k)
    BY <1>1, <1>2, <1>3, <2>2, <2>3, <2>5 DEF SameHeld, Contract!Complete
  <2>7. Contract!Next
    BY <2>6 DEF Contract!Next
  <2> QED
    BY <2>7 DEF ContractStep
<1>5. CASE ~MayComplete(j)
  <2>1. state' = state
    BY <1>1, <1>5 DEF Complete, TypeOK
  <2> QED
    BY <1>3, <2>1, Stutter DEF SameJobs
<1> QED
  BY <1>4, <1>5

(* The other statements move a row on before its outcome is known. *)
LEMMA AdvanceAllowed ==
  ASSUME IInv, NEW w \in Worker, SaveStatus(w) \/ SaveSubmitted(w)
  PROVE  ContractStep
<1>1. job[w] \in Job /\ TypeOK /\ state[job[w]] \in {"status", "upload"}
  BY HolderKnows
     DEF SaveStatus, SaveSubmitted, IInv, WorkerInv, StepInv, Fresh, UploadPc
<1>2. SameJobs
  BY <1>1 DEF SaveStatus, SaveSubmitted, SameJobs, TypeOK
<1>3. SameHeld /\ UNCHANGED <<result, shown, receipt>>
  BY DEF SaveStatus, SaveSubmitted, SameHeld, Held
<1> QED
  BY <1>2, <1>3, Stutter

----------------------------------------------------------------------------
(* The surroundings. *)

LEMMA AdmitAllowed ==
  ASSUME IInv, NEW j \in Job, Admit(j)
  PROVE  ContractStep
<1>1. /\ {k \in Job : state'[k] # "absent"} = {k \in Job : state[k] # "absent"} \cup {j}
      /\ {k \in Job : state'[k] = "done"} = {k \in Job : state[k] = "done"}
  BY DEF Admit, IInv, TypeOK
<1>2. SameHeld
  BY DEF Admit, SameHeld, Held
<1>3. Contract!Accept(j)
  BY <1>1, <1>2 DEF Admit, SameHeld, Contract!Accept
<1> QED
  BY <1>3 DEF ContractStep, Contract!Next

LEMMA BackendAllowed ==
  ASSUME IInv, NEW j \in Job, BackendFinishes(j) \/ BackendForgets(j)
  PROVE  ContractStep
<1>1. SameJobs /\ UNCHANGED <<result, shown, receipt>>
  BY DEF BackendFinishes, BackendForgets, SameJobs
<1>2. CASE BackendFinishes(j)
  <2>1. SameHeld
    BY <1>2 DEF BackendFinishes, SameHeld, Held, IInv, TypeOK
  <2> QED
    BY <1>1, <2>1, Stutter
<1>3. CASE BackendForgets(j)
  <2>1. [k \in Job |-> Held(k)]' = [[k \in Job |-> Held(k)] EXCEPT ![j] = "lost"]
    BY <1>3, HeldChanges DEF BackendForgets, BackendState, IInv
  <2>2. Held(j) = "kept"
    BY <1>3 DEF BackendForgets, Held
  <2>3. Contract!Lose(j)
    BY <1>1, <2>1, <2>2 DEF SameJobs, Contract!Lose
  <2> QED
    BY <2>3 DEF ContractStep, Contract!Next
<1> QED
  BY <1>2, <1>3

(* The progress texts of an upload concern only the status message. *)
LEMMA ProgressUnseen ==
  ASSUME NEW j, ShowProgress(j), UNCHANGED rowVars
  PROVE  ContractStep
<1>1. UNCHANGED <<backend, shown>>
  BY DEF ShowProgress
<1> QED
  BY <1>1, SameRows, Stutter

----------------------------------------------------------------------------
LEMMA InitAllowed == Init => Contract!Init
BY DEF Init, Contract!Init, Held

(* Every step is one of the contract, or changes nothing it speaks of. *)
LEMMA StepAllowed == IInv /\ [Next]_vars => ContractStep
<1> SUFFICES ASSUME IInv, [Next]_vars
             PROVE  ContractStep
  OBVIOUS
<1>1. ASSUME UNCHANGED <<rowVars, backend, shown>>
      PROVE  ContractStep
  BY <1>1, SameRows, Stutter
<1>2. CASE UNCHANGED vars \/ Quiescent
  BY <1>1, <1>2 DEF Quiescent
<1>3. ASSUME NEW w \in Worker, pc[w] \in CallPc, UNCHANGED rowVars,
             CallTakesEffect(w) \/ UNCHANGED outsideVars
      PROVE  ContractStep
  BY <1>3, CallAllowed
<1>4. ASSUME NEW w \in Worker,
             \/ Submit(w) \/ CallCancel(w) \/ EditProgress(w) \/ CallAck(w) \/ SendPart(w)
             \/ CallFails(w)
      PROVE  ContractStep
  BY <1>3, <1>4 DEF Submit, CallCancel, EditProgress, CallAck, SendPart, CallFails, CallTakesEffect, CallPc
<1>5. ASSUME NEW w \in Worker, Crash(w)
      PROVE  ContractStep
  <2>1. CASE CallTakesEffect(w)
    BY <1>3, <1>5, <2>1 DEF Crash, CallTakesEffect, CallPc
  <2>2. CASE UNCHANGED outsideVars
    BY <1>1, <1>5, <2>2 DEF Crash
  <2> QED
    BY <1>5, <2>1, <2>2 DEF Crash
<1>6. ASSUME NEW w \in Worker, EditUploadProgress(w)
      PROVE  ContractStep
  BY <1>6, ProgressUnseen DEF EditUploadProgress
<1>7. ASSUME NEW w \in Worker,
             \/ \E s \in Stage : ListCandidates(w, s)
             \/ \E j \in Job : SkipCandidate(w, j) \/ Claim(w, j)
             \/ SendStatus(w) \/ SubmitRejected(w) \/ QueryActive(w) \/ QueryTerminal(w)
             \/ NoPartLeft(w) \/ (\E j \in Job : \E p \in outbox[j] : PickPart(w, p))
             \/ FencedOut(w) \/ StoreFails(w) \/ IterationFails(w) \/ LoseConnection(w)
      PROVE  ContractStep
  BY <1>1, <1>7 DEF ListCandidates, SkipCandidate, Claim, SendStatus, SubmitRejected, QueryActive,
     QueryTerminal, NoPartLeft, PickPart, FencedOut, StoreFails, IterationFails, LoseConnection
<1>8. ASSUME UNCHANGED <<state, backend, result, shown, receipt>>
      PROVE  ContractStep
  BY <1>8, SameRows, Stutter
<1>9. ASSUME NEW w \in Worker, Reschedule(w) \/ SaveAck(w) \/ Retry(w)
      PROVE  ContractStep
  BY <1>8, <1>9 DEF Reschedule, SaveAck, Retry
<1>10. ASSUME NEW j \in Job,
              (\E c \in Chat : RequestCancel(j, c)) \/ BecomeDue(j) \/ DeleteStatusMessage(j)
       PROVE  ContractStep
  BY <1>8, <1>10 DEF RequestCancel, BecomeDue, DeleteStatusMessage
<1>11. ASSUME NEW w \in Worker,
              \/ SaveStatus(w) \/ SaveSubmitted(w) \/ SaveResult(w) \/ SaveReceipt(w)
              \/ Complete(w)
       PROVE  ContractStep
  BY <1>11, AdvanceAllowed, SaveResultAllowed, SaveReceiptAllowed, CompleteAllowed
<1>12. ASSUME NEW w \in Worker, WorkerStep(w) \/ EditUploadProgress(w) \/ WorkerFault(w)
       PROVE  ContractStep
  BY Zenon, <1>4, <1>5, <1>6, <1>7, <1>9, <1>11, <1>12 DEF WorkerStep, WorkerFault
<1>13. ASSUME NEW j \in Job, Surroundings(j)
       PROVE  ContractStep
  BY Zenon, <1>10, <1>13, AdmitAllowed, BackendAllowed DEF Surroundings
<1> QED
  BY <1>2, <1>12, <1>13 DEF Next

(* DurableJobs implements JobContract: with any number of workers, crashes, *)
(* lost connections and lost answers, nothing happens to a job that the    *)
(* contract does not allow.                                                *)
THEOREM PipelineKeepsContract == Spec => KeepsContract
<1>1. Init => Contract!Init
  BY InitAllowed
<1>2. IInv /\ [Next]_vars => [Contract!Next]_(Contract!vars)
  BY StepAllowed DEF ContractStep
<1> QED
  BY <1>1, <1>2, InvariantHolds, PTL DEF Spec, KeepsContract, Contract!Spec
=============================================================================

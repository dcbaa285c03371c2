---------------------- MODULE DurableJobsOwner_proofs ----------------------
(***************************************************************************)
(* Who may still do what to the messages of a job: proofs about a worker    *)
(* that owns its lock, and, where no session is lost, about every worker.  *)
(*                                                                         *)
(* Telegram has no fence: a worker whose session has lost its lock goes on *)
(* to edit and to send.  What is left is that owners do no harm, in every  *)
(* run of the pipeline, and that nobody does as long as sessions live.     *)
(***************************************************************************)
EXTENDS DurableJobs_proofs

USE DEF rowVars, localVars, outsideVars, vars

(* No worker has lost its lock without noticing. *)
EveryoneOwns == \A w \in Worker : InStep(w) => lock[job[w]] = w

Connected == "loss" \notin FaultKinds

(* What an owner may fill with progress texts shows no outcome yet. *)
OwnersCoverNothing ==
  \A w \in Worker : Holds(w) /\ (pc[w] = "edit_progress" \/ ReportingProgress(w)) =>
    shown[job[w]] = {}

(* An outcome in the status message, and a worker that is about to confirm *)
(* that it is there.                                                       *)
ResultOnScreen ==
  /\ ResultStaysVisible
  /\ \A w \in Worker : pc[w] = "save_receipt" /\ part[w] = 0 =>
       screen[job[w]] \in {"final", "gone"}

----------------------------------------------------------------------------
(* Locks. *)

(* Where the pipeline is connected a lock is given back by its owner only. *)
LEMMA OwnershipNext ==
  ASSUME IInv, EveryoneOwns, Connected, [Next]_vars
  PROVE  EveryoneOwns'
<1> USE DEF IInv
<1> DEFINE Same(v) == pc'[v] = pc[v] /\ job'[v] = job[v]
<1>1. ASSUME NEW w \in Worker, \A v \in Worker \ {w} : Same(v),
             \A j \in Job : lock'[j] = lock[j] \/ lock[j] \in {w, NoWorker},
             InStep(w)' => lock'[job'[w]] = w
      PROVE  EveryoneOwns'
  <2> SUFFICES ASSUME NEW v \in Worker \ {w}, InStep(v)'
               PROVE  lock'[job'[v]] = v
    BY <1>1 DEF EveryoneOwns
  <2>1. InStep(v) /\ job'[v] = job[v]
    BY <1>1 DEF InStep
  <2>2. job[v] \in Job /\ lock[job[v]] = v
    BY <2>1 DEF LocksInv, EveryoneOwns
  <2>3. v # NoWorker
    BY JobAssumption
  <2> QED
    BY <1>1, <2>1, <2>2, <2>3
<1>2. ASSUME NEW w \in Worker, Finish(w)
      PROVE  EveryoneOwns'
  <2>1. pc'[w] = "idle" /\ \A v \in Worker \ {w} : Same(v)
    BY <1>2 DEF Finish, Park, TypeOK
  <2>2. \A j \in Job : lock'[j] = lock[j] \/ lock[j] \in {w, NoWorker}
    BY <1>2 DEF Finish, Unlock, TypeOK
  <2> QED
    BY <1>1, <2>1, <2>2 DEF InStep, CallPc, StorePc
<1>3. ASSUME NEW w \in Worker, UNCHANGED <<lock, job>>, InStep(w) \/ ~InStep(w)',
             \A v \in Worker \ {w} : pc'[v] = pc[v]
      PROVE  EveryoneOwns'
  BY <1>1, <1>3 DEF EveryoneOwns
<1>4. ASSUME NEW w \in Worker, NEW j \in Job, Claim(w, j)
      PROVE  EveryoneOwns'
  <2>1. \A v \in Worker \ {w} : Same(v)
    BY <1>4 DEF Claim, TypeOK
  <2>2. \A k \in Job : lock'[k] = lock[k] \/ lock[k] \in {w, NoWorker}
    BY <1>4 DEF Claim, Claimable, TypeOK
  <2>3. job'[w] = j /\ lock'[j] = w
    BY <1>4 DEF Claim, TypeOK
  <2> QED
    BY <1>1, <2>1, <2>2, <2>3
<1>5. ASSUME NEW w \in Worker, \/ \E s \in Stage : ListCandidates(w, s)
                               \/ \E j \in Job : SkipCandidate(w, j)
      PROVE  EveryoneOwns'
  <2>1. ~InStep(w)' /\ \A v \in Worker \ {w} : pc'[v] = pc[v]
    BY <1>5 DEF ListCandidates, SkipCandidate, InStep, Stage, CallPc, StorePc, TypeOK
  <2> QED
    BY <1>3, <1>5, <2>1 DEF ListCandidates, SkipCandidate
<1>6. ASSUME NEW w \in Worker,
             \/ SendStatus(w) \/ Submit(w) \/ SubmitRejected(w) \/ CallCancel(w)
             \/ QueryActive(w) \/ QueryTerminal(w) \/ EditProgress(w) \/ CallAck(w)
             \/ SaveAck(w) \/ NoPartLeft(w) \/ SendPart(w) \/ SaveReceipt(w)
             \/ (\E j \in Job : \E p \in outbox[j] : PickPart(w, p))
             \/ CallFails(w) \/ StoreFails(w)
      PROVE  EveryoneOwns'
  <2>1. InStep(w) /\ UNCHANGED <<lock, job>>
    BY <1>6 DEF SendStatus, Submit, SubmitRejected, CallCancel, QueryActive, QueryTerminal,
         EditProgress, CallAck, SaveAck, NoPartLeft, SendPart, SaveReceipt, PickPart,
         CallFails, StoreFails, Goto, AtStore, InStep, CallPc, StorePc
  <2>2. \A v \in Worker \ {w} : pc'[v] = pc[v]
    BY <1>6 DEF SendStatus, Submit, SubmitRejected, CallCancel, QueryActive, QueryTerminal,
         EditProgress, CallAck, SaveAck, NoPartLeft, SendPart, SaveReceipt, PickPart,
         CallFails, StoreFails, Goto, TypeOK
  <2> QED
    BY <1>3, <2>1, <2>2
<1>7. ASSUME NEW w \in Worker,
             \/ SaveStatus(w) \/ SaveSubmitted(w) \/ Reschedule(w) \/ SaveResult(w)
             \/ Complete(w) \/ Retry(w) \/ FencedOut(w) \/ IterationFails(w) \/ Crash(w)
      PROVE  EveryoneOwns'
  BY <1>2, <1>7 DEF SaveStatus, SaveSubmitted, Reschedule, SaveResult, Complete, Retry,
       FencedOut, IterationFails, Crash
<1>8. CASE UNCHANGED <<lock, job, pc>>
  BY <1>8 DEF EveryoneOwns, InStep
<1>9. \A w \in Worker : ~LoseConnection(w)
  BY DEF LoseConnection, Fault, Connected
<1>10. ASSUME NEW w \in Worker, EditUploadProgress(w)
       PROVE  EveryoneOwns'
  BY <1>8, <1>10 DEF EditUploadProgress
<1>11. ASSUME NEW j \in Job, Surroundings(j)
       PROVE  EveryoneOwns'
  BY <1>8, <1>11 DEF Surroundings, Admit, RequestCancel, BecomeDue, BackendFinishes,
       BackendForgets, DeleteStatusMessage
<1>12. ASSUME NEW w \in Worker, WorkerStep(w) \/ WorkerFault(w)
       PROVE  EveryoneOwns'
  BY <1>4, <1>5, <1>6, <1>7, <1>9, <1>12, Zenon DEF WorkerStep, WorkerFault
<1> QED
  BY <1>8, <1>10, <1>11, <1>12 DEF Next, Quiescent

----------------------------------------------------------------------------
(* Receipts and progress texts. *)

(* A receipt is written by the owner that has sent the part, and by nobody *)
(* else.                                                                   *)
LEMMA ReceiptStep ==
  ASSUME IInv, [Next]_vars, NEW j \in Job
  PROVE  \/ receipt'[j] = receipt[j]
         \/ \E w \in Worker : /\ Holds(w) /\ job[w] = j /\ pc[w] = "save_receipt"
                              /\ receipt'[j] = receipt[j] \cup {part[w]}
                              /\ UNCHANGED outsideVars
                              /\ pc'[w] # "send"
<1> USE DEF IInv
<1>1. ASSUME NEW w \in Worker, SaveReceipt(w)
      PROVE  \/ receipt'[j] = receipt[j]
             \/ /\ Holds(w) /\ job[w] = j /\ pc[w] = "save_receipt"
                /\ receipt'[j] = receipt[j] \cup {part[w]}
                /\ UNCHANGED outsideVars
                /\ pc'[w] # "send"
  BY <1>1 DEF SaveReceipt, AtStore, Goto, AfterPart, TypeOK
<1>2. ASSUME NEW w \in Worker, WorkerStep(w), ~SaveReceipt(w)
      PROVE  UNCHANGED receipt
  BY <1>2 DEF WorkerStep, ListCandidates, SkipCandidate, Claim, SendStatus, SaveStatus, Submit,
       SubmitRejected, SaveSubmitted, CallCancel, QueryActive, QueryTerminal, EditProgress,
       Reschedule, SaveResult, CallAck, SaveAck, PickPart, NoPartLeft, SendPart, Complete,
       Retry, FencedOut
<1>3. ASSUME NEW w \in Worker, EditUploadProgress(w) \/ WorkerFault(w)
      PROVE  UNCHANGED receipt
  BY <1>3 DEF WorkerFault, EditUploadProgress, CallFails, StoreFails, IterationFails, Crash,
              LoseConnection
<1>4. ASSUME NEW k \in Job, Surroundings(k)
      PROVE  UNCHANGED receipt
  BY <1>4 DEF Surroundings, Admit, RequestCancel, BecomeDue, BackendFinishes, BackendForgets,
              DeleteStatusMessage
<1> QED
  BY <1>1, <1>2, <1>3, <1>4 DEF Next, Quiescent

(* A worker comes to send a part by picking it under its lock, and to       *)
(* confirm one by having sent it.                                          *)
LEMMA SendingStep ==
  ASSUME IInv, [Next]_vars, NEW w \in Worker
  PROVE  /\ pc'[w] = "send" =>
              \/ pc[w] = "send" /\ job'[w] = job[w] /\ part'[w] = part[w]
              \/ /\ job'[w] = job[w] /\ job[w] \in Job /\ UNCHANGED receipt
                 /\ part'[w] \notin receipt[job[w]]
         /\ pc'[w] = "save_receipt" =>
              \/ pc[w] = "save_receipt" /\ job'[w] = job[w] /\ part'[w] = part[w]
              \/ /\ pc[w] = "send" /\ job'[w] = job[w] /\ part'[w] = part[w]
                 /\ job[w] \in Job /\ ShowPart(job[w], part[w])
<1> USE DEF IInv
<1> DEFINE Same(v) == pc'[v] = pc[v] /\ job'[v] = job[v] /\ part'[v] = part[v]
<1>1. ASSUME NEW v \in Worker, NEW k \in Job, NEW p \in outbox[k], PickPart(v, p)
      PROVE  IF v = w
             THEN /\ job'[w] = job[w] /\ job[w] \in Job /\ UNCHANGED receipt /\ pc'[w] = "send"
                  /\ part'[w] \notin receipt[job[w]]
             ELSE Same(w)
  <2>1. p \in Pending(job[v]) /\ job[v] \in Job
    BY <1>1, HolderKnows DEF PickPart, IsNext
  <2> QED
    BY <1>1, <2>1 DEF PickPart, Pending, TypeOK
<1>2. ASSUME NEW v \in Worker, SendPart(v)
      PROVE  IF v = w
             THEN /\ pc[w] = "send" /\ job'[w] = job[w] /\ part'[w] = part[w]
                  /\ job[w] \in Job /\ ShowPart(job[w], part[w]) /\ pc'[w] = "save_receipt"
             ELSE Same(w)
  <2>1. job[v] \in Job
    BY <1>2 DEF SendPart, LocksInv, InStep, CallPc
  <2> QED
    BY <1>2, <2>1 DEF SendPart, Goto, TypeOK
<1>3. ASSUME NEW v \in Worker,
             \/ SendStatus(v) \/ Submit(v) \/ CallCancel(v)
             \/ QueryActive(v) \/ EditProgress(v) \/ CallAck(v)
             \/ SaveAck(v) \/ NoPartLeft(v) \/ SaveReceipt(v) \/ StoreFails(v)
      PROVE  Same(w) \/ pc'[w] \notin {"send", "save_receipt"}
  BY <1>3 DEF SendStatus, Submit, CallCancel, QueryActive, EditProgress, CallAck, SaveAck,
       NoPartLeft, SaveReceipt, StoreFails, Goto, AfterPart, TypeOK
<1>4. ASSUME NEW v \in Worker, SubmitRejected(v) \/ QueryTerminal(v) \/ CallFails(v)
      PROVE  Same(w) \/ pc'[w] \notin {"send", "save_receipt"}
  BY <1>4 DEF SubmitRejected, QueryTerminal, CallFails, AfterFailedCall, TypeOK
<1>5. ASSUME NEW v \in Worker, Finish(v)
      PROVE  Same(w) \/ pc'[w] \notin {"send", "save_receipt"}
  BY <1>5 DEF Finish, Park, TypeOK
<1>6. ASSUME NEW v \in Worker,
             \/ SaveStatus(v) \/ SaveSubmitted(v) \/ Reschedule(v) \/ SaveResult(v)
             \/ Complete(v) \/ Retry(v) \/ FencedOut(v) \/ IterationFails(v) \/ Crash(v)
      PROVE  Same(w) \/ pc'[w] \notin {"send", "save_receipt"}
  BY <1>5, <1>6 DEF SaveStatus, SaveSubmitted, Reschedule, SaveResult, Complete, Retry,
       FencedOut, IterationFails, Crash
<1>7. ASSUME NEW v \in Worker, NEW k \in Job, Claim(v, k)
      PROVE  Same(w) \/ pc'[w] \notin {"send", "save_receipt"}
  <2>1. FirstPc(k) \notin {"send", "save_receipt"}
    BY <1>7 DEF Claim, Claimable, FirstPc, Stage
  <2> QED
    BY <1>7, <2>1 DEF Claim, TypeOK
<1>8. ASSUME NEW v \in Worker, \/ \E s \in Stage : ListCandidates(v, s)
                               \/ \E k \in Job : SkipCandidate(v, k)
      PROVE  Same(w) \/ pc'[w] \notin {"send", "save_receipt"}
  BY <1>8 DEF ListCandidates, SkipCandidate, Stage, TypeOK
<1>9. CASE UNCHANGED <<pc, job, part>>
  BY <1>9
<1>10. ASSUME NEW v \in Worker, EditUploadProgress(v) \/ LoseConnection(v)
       PROVE  UNCHANGED <<pc, job, part>>
  BY <1>10 DEF EditUploadProgress, LoseConnection
<1>11. ASSUME NEW k \in Job, Surroundings(k)
       PROVE  UNCHANGED <<pc, job, part>>
  BY <1>11 DEF Surroundings, Admit, RequestCancel, BecomeDue, BackendFinishes,
       BackendForgets, DeleteStatusMessage
<1>12. \/ UNCHANGED <<pc, job, part>>
       \/ \E v \in Worker, k \in Job : \E p \in outbox[k] : PickPart(v, p)
       \/ \E v \in Worker : SendPart(v)
       \/ Same(w) \/ pc'[w] \notin {"send", "save_receipt"}
  <2>1. ASSUME NEW v \in Worker, WorkerStep(v)
        PROVE  \/ \E k \in Job : \E p \in outbox[k] : PickPart(v, p)
               \/ SendPart(v)
               \/ Same(w) \/ pc'[w] \notin {"send", "save_receipt"}
    BY <1>3, <1>4, <1>6, <1>7, <1>8, <2>1, Zenon DEF WorkerStep
  <2>2. ASSUME NEW v \in Worker, WorkerFault(v)
        PROVE  Same(w) \/ pc'[w] \notin {"send", "save_receipt"}
    BY <1>3, <1>4, <1>6, <1>10, <2>2 DEF WorkerFault
  <2> QED
    BY <2>1, <2>2, <1>10, <1>11 DEF Next, Quiescent
<1> HIDE DEF Same
<1>13. CASE \E v \in Worker, k \in Job : \E p \in outbox[k] : PickPart(v, p)
  <2>1. PICK v \in Worker, k \in Job : \E p \in outbox[k] : PickPart(v, p)
    BY <1>13
  <2> QED
    BY <1>1, <2>1 DEF Same
<1>14. CASE \E v \in Worker : SendPart(v)
  BY <1>2, <1>14 DEF Same
<1> QED
  BY <1>9, <1>12, <1>13, <1>14 DEF Same

(* The lock of an owner has not changed hands since it took it: what the    *)
(* owner knows of its own session holds before and after every step.       *)
LEMMA OwnerBefore ==
  ASSUME IInv, [Next]_vars, NEW w \in Worker, Holds(w)', pc'[w] = "send", pc[w] = "send",
         job'[w] = job[w]
  PROVE  Holds(w)
<1> USE DEF IInv
<1>1. lock'[job[w]] = w /\ InStep(w) /\ job[w] \in Job
  BY DEF Holds, InStep, LocksInv
<1>2. ASSUME lock[job[w]] # w
      PROVE  \E v \in Worker : Claim(v, job[w]) /\ v = w
  <2>1. ASSUME NEW v \in Worker, NEW k \in Job, Claim(v, k)
        PROVE  k = job[w] /\ v = w
    BY <1>1, <1>2, <2>1 DEF Claim, TypeOK
  <2>2. ASSUME NEW v \in Worker, Unlock(v) \/ UNCHANGED lock
        PROVE  FALSE
    <3>1. w # NoWorker
      BY JobAssumption
    <3>2. CASE UNCHANGED lock
      BY <1>1, <1>2, <3>2
    <3>3. CASE Unlock(v)
      BY <1>1, <1>2, <3>1, <3>3 DEF Unlock
    <3> QED
      BY <2>2, <3>2, <3>3
  <2>3. ASSUME NEW v \in Worker, WorkerStep(v)
        PROVE  Unlock(v) \/ UNCHANGED lock \/ \E k \in Job : Claim(v, k)
    BY <2>3 DEF Finish, WorkerStep, ListCandidates, SkipCandidate, SendStatus, SaveStatus, Submit,
         SubmitRejected, SaveSubmitted, CallCancel, QueryActive, QueryTerminal, EditProgress,
         Reschedule, SaveResult, CallAck, SaveAck, PickPart, NoPartLeft, SendPart, SaveReceipt,
         Complete, Retry, FencedOut, Goto
  <2>4. ASSUME NEW v \in Worker, EditUploadProgress(v) \/ WorkerFault(v)
        PROVE  Unlock(v) \/ UNCHANGED lock
    BY <2>4 DEF Finish, LoseConnection, WorkerFault, EditUploadProgress, CallFails, StoreFails, IterationFails, Crash, Goto
  <2>5. ASSUME NEW k \in Job, Surroundings(k)
        PROVE  UNCHANGED lock
    BY <2>5 DEF Surroundings, Admit, RequestCancel, BecomeDue, BackendFinishes, BackendForgets,
                DeleteStatusMessage
  <2> QED
    BY <2>1, <2>2, <2>3, <2>4, <2>5 DEF Next, Quiescent
<1>3. \A v \in Worker : Claim(v, job[w]) /\ v = w => FALSE
  BY DEF Claim, Stage
<1> QED
  BY <1>1, <1>2, <1>3 DEF Holds

(* An owner that is about to send a part has picked it under its lock, and  *)
(* nobody else could store the receipt since.                              *)
LEMMA OwnerSendsNew ==
  ASSUME IInv, OwnersDoNoHarm, [Next]_vars, NEW w \in Worker, Holds(w)', pc'[w] = "send"
  PROVE  part'[w] \notin receipt'[job'[w]]
<1> USE DEF IInv
<1>1. CASE pc[w] = "send" /\ job'[w] = job[w] /\ part'[w] = part[w]
  <2>1. Holds(w) /\ job[w] \in Job
    BY <1>1, OwnerBefore DEF Holds, LocksInv
  <2>2. part[w] \notin receipt[job[w]] /\ lock[job[w]] = w
    BY <1>1, <2>1 DEF OwnersDoNoHarm, Holds
  <2>3. ASSUME NEW v \in Worker, Holds(v), job[v] = job[w], pc[v] = "save_receipt"
        PROVE  FALSE
    BY <1>1, <2>2, <2>3 DEF Holds
  <2>4. receipt'[job[w]] = receipt[job[w]]
    BY <2>1, <2>3, ReceiptStep
  <2> QED
    BY <1>1, <2>2, <2>4
<1>2. CASE /\ job'[w] = job[w] /\ UNCHANGED receipt
           /\ part'[w] \notin receipt[job[w]]
  BY <1>2
<1> QED
  BY <1>1, <1>2, SendingStep

(* A job whose status message an owner may still fill with progress texts  *)
(* has no outcome, hence nothing of it has been shown.                     *)
LEMMA NothingShownYet ==
  ASSUME IInv, NEW w \in Worker, Holds(w), pc[w] = "edit_progress" \/ ReportingProgress(w)
  PROVE  shown[job[w]] = {}
<1> USE DEF IInv
<1>1. job[w] \in Job
  BY DEF Holds, LocksInv
<1>2. state[job[w]] \in {"upload", "poll"}
  BY DEF WorkerInv, StepInv, Fresh, ReportingProgress, UploadPc, PollPc
<1>3. result[job[w]] = "none" /\ outbox[job[w]] = {}
  BY <1>1, <1>2 DEF JobsInv, RowInv, Decided
<1> QED
  BY <1>1, <1>3 DEF JobsInv, PartsInv

(* Whatever fails and whoever has lost a lock, the worker that owns the     *)
(* lock of a job repeats no confirmed part of it and hides no outcome.     *)
THEOREM OwnerSafety == Spec => []OwnersDoNoHarm
<1>1. Init => OwnersDoNoHarm
  BY DEF Init, OwnersDoNoHarm, Holds, InStep, CallPc, StorePc
<1>2. IInv => OwnersCoverNothing
  BY NothingShownYet DEF OwnersCoverNothing
<1>3. IInv' => OwnersCoverNothing'
  BY <1>2, PTL
<1>4. ASSUME IInv, IInv', OwnersDoNoHarm, [Next]_vars
      PROVE  OwnersDoNoHarm'
  <2> SUFFICES ASSUME NEW w \in Worker, Holds(w)'
               PROVE  /\ pc'[w] = "send" => part'[w] \notin receipt'[job'[w]]
                      /\ pc'[w] = "edit_progress" \/ ReportingProgress(w)' => shown'[job'[w]] = {}
    BY DEF OwnersDoNoHarm
  <2>1. pc'[w] = "send" => part'[w] \notin receipt'[job'[w]]
    BY <1>4, OwnerSendsNew
  <2>2. pc'[w] = "edit_progress" \/ ReportingProgress(w)' => shown'[job'[w]] = {}
    BY <1>3, <1>4 DEF OwnersCoverNothing
  <2> QED
    BY <2>1, <2>2
<1> QED
  BY <1>1, <1>4, InvariantHolds, PTL DEF Spec

----------------------------------------------------------------------------
(* While no session is lost. *)

LEMMA OwnershipHolds == ASSUME Connected PROVE Spec => []EveryoneOwns
<1>1. Init => EveryoneOwns
  BY DEF Init, EveryoneOwns, InStep, CallPc, StorePc
<1>2. IInv /\ EveryoneOwns /\ [Next]_vars => EveryoneOwns'
  BY OwnershipNext
<1> QED
  BY <1>1, <1>2, InvariantHolds, PTL DEF Spec

(* While no session is lost, a part with a receipt is not sent again: the   *)
(* promise of docs/durable-jobs.md:63.                                     *)
THEOREM NoRepeats ==
  ASSUME "loss" \notin FaultKinds
  PROVE  Spec => ConfirmedNotResent
<1> USE DEF Connected
<1>1. ASSUME IInv, EveryoneOwns, OwnersDoNoHarm, NEW w \in Worker, pc[w] = "send"
      PROVE  part[w] \notin receipt[job[w]]
  BY <1>1 DEF EveryoneOwns, OwnersDoNoHarm, Holds, InStep, CallPc
<1>2. IInv /\ EveryoneOwns /\ OwnersDoNoHarm /\ [Next]_vars =>
        [\A w \in Worker : pc[w] = "send" /\ pc'[w] = "save_receipt"
                             => part[w] \notin receipt[job[w]]]_vars
  BY <1>1
<1> QED
  BY <1>2, InvariantHolds, OwnershipHolds, OwnerSafety, PTL
     DEF Spec, ConfirmedNotResent

(* What an edit can do to a status message, while every worker owns its    *)
(* lock: a progress text comes only where nothing has been shown.          *)
LEMMA ScreenStep ==
  ASSUME IInv, EveryoneOwns, [Next]_vars, NEW j \in Job
  PROVE  \/ screen'[j] = screen[j]
         \/ screen'[j] \in {"final", "gone"}
         \/ shown[j] = {} /\ shown'[j] = {} /\ UNCHANGED receipt
<1> USE DEF IInv
<1> DEFINE Fine == \/ screen'[j] = screen[j]
                   \/ screen'[j] \in {"final", "gone"}
                   \/ shown[j] = {} /\ shown'[j] = {} /\ UNCHANGED receipt
<1>1. ASSUME NEW w \in Worker, ShowProgress(job[w]), UNCHANGED rowVars,
             pc[w] = "edit_progress" \/ ReportingProgress(w)
      PROVE  Fine
  <2>1. job[w] = j => shown[j] = {}
    BY <1>1, NothingShownYet DEF EveryoneOwns, Holds, InStep, ReportingProgress, CallPc, StorePc
  <2> QED
    BY <1>1, <2>1 DEF ShowProgress, TypeOK
<1>2. ASSUME NEW w \in Worker, ShowPart(job[w], part[w])
      PROVE  Fine
  BY <1>2 DEF ShowPart, TypeOK
<1>3. ASSUME NEW w \in Worker, CallTakesEffect(w) \/ UNCHANGED outsideVars, UNCHANGED rowVars
      PROVE  Fine
  BY <1>1, <1>2, <1>3 DEF CallTakesEffect, AcceptUpload, MarkCancelled, ReleaseJob
<1>4. ASSUME NEW w \in Worker, SaveStatus(w)
      PROVE  Fine
  <2>1. Holds(w) /\ job[w] \in Job /\ state[job[w]] = "status"
    BY <1>4, HolderKnows DEF SaveStatus, WorkerInv, StepInv, Fresh
  <2>2. shown[job[w]] = {}
    BY <2>1 DEF JobsInv, RowInv, PartsInv, Decided
  <2> QED
    BY <1>4, <2>1, <2>2 DEF SaveStatus, TypeOK
<1>5. ASSUME NEW w \in Worker, WorkerStep(w), ~SaveStatus(w)
      PROVE  Fine
  <2>1. CASE EditProgress(w)
    BY <1>1, <2>1 DEF EditProgress
  <2>2. CASE SendPart(w)
    BY <1>2, <2>2 DEF SendPart
  <2>3. CASE ~EditProgress(w) /\ ~SendPart(w)
    <3>1. UNCHANGED screen
      BY <1>5, <2>3 DEF WorkerStep, ListCandidates, SkipCandidate, Claim, SendStatus, Submit,
           SubmitRejected, SaveSubmitted, CallCancel, QueryActive, QueryTerminal,
           Reschedule, SaveResult, CallAck, SaveAck, PickPart, NoPartLeft, SaveReceipt, Complete,
           Retry, FencedOut, AcceptUpload, MarkCancelled, ReleaseJob
    <3> QED
      BY <3>1
  <2> QED
    BY <2>1, <2>2, <2>3
<1>6. ASSUME NEW w \in Worker, EditUploadProgress(w) \/ WorkerFault(w)
      PROVE  Fine
  BY <1>1, <1>3, <1>6 DEF WorkerFault, EditUploadProgress, CallFails, StoreFails, IterationFails,
       Crash, LoseConnection
<1>7. ASSUME NEW k \in Job, Surroundings(k)
      PROVE  Fine
  BY <1>7 DEF Surroundings, Admit, RequestCancel, BecomeDue, BackendFinishes, BackendForgets,
              DeleteStatusMessage, TypeOK
<1> QED
  BY <1>4, <1>5, <1>6, <1>7 DEF Next, Quiescent

LEMMA ResultOnScreenNext ==
  ASSUME IInv, IInv', EveryoneOwns, ResultOnScreen, [Next]_vars
  PROVE  ResultOnScreen'
<1> USE DEF IInv
<1>1. \A j \in Job : PartsInv(j) /\ PartsInv(j)'
  BY DEF JobsInv
<1>2. ASSUME NEW j \in Job, 0 \in receipt'[j]
      PROVE  screen'[j] \in {"final", "gone"}
  <2>1. CASE receipt'[j] = receipt[j]
    <3>1. 0 \in shown[j] /\ screen[j] \in {"final", "gone"}
      BY <1>1, <1>2, <2>1 DEF PartsInv, ResultOnScreen, ResultStaysVisible
    <3> QED
      BY <3>1, ScreenStep
  <2>2. CASE \E w \in Worker : /\ Holds(w) /\ job[w] = j /\ pc[w] = "save_receipt"
                               /\ receipt'[j] = receipt[j] \cup {part[w]}
                               /\ UNCHANGED outsideVars
    <3>1. PICK w \in Worker : /\ job[w] = j /\ pc[w] = "save_receipt"
                              /\ receipt'[j] = receipt[j] \cup {part[w]}
                              /\ UNCHANGED outsideVars
      BY <2>2
    <3>2. CASE 0 \in receipt[j]
      BY <3>1, <3>2 DEF ResultOnScreen, ResultStaysVisible
    <3>3. CASE part[w] = 0
      BY <3>1, <3>3 DEF ResultOnScreen
    <3> QED
      BY <1>2, <3>1, <3>2, <3>3
  <2> QED
    BY <2>1, <2>2, ReceiptStep
<1>3. ASSUME NEW w \in Worker, pc'[w] = "save_receipt", part'[w] = 0
      PROVE  screen'[job'[w]] \in {"final", "gone"}
  <2>1. CASE pc[w] = "save_receipt" /\ job'[w] = job[w] /\ part'[w] = part[w]
    <3>1. job[w] \in Job /\ 0 \in shown[job[w]]
      BY <1>3, <2>1 DEF LocksInv, InStep, StorePc, WorkerInv, AnswerInv
    <3>2. screen[job[w]] \in {"final", "gone"}
      BY <1>3, <2>1 DEF ResultOnScreen
    <3> QED
      BY <2>1, <3>1, <3>2, ScreenStep
  <2>2. CASE /\ pc[w] = "send" /\ job'[w] = job[w] /\ part'[w] = part[w]
             /\ job[w] \in Job /\ ShowPart(job[w], part[w])
    BY <1>3, <2>2 DEF ShowPart, TypeOK
  <2> QED
    BY <1>3, <2>1, <2>2, SendingStep
<1> QED
  BY <1>2, <1>3 DEF ResultOnScreen, ResultStaysVisible

(* While no session is lost, a delivered outcome stays in the status        *)
(* message: no progress text of an upload or of a poll takes its place.    *)
THEOREM OutcomeVisible ==
  ASSUME "loss" \notin FaultKinds
  PROVE  Spec => []ResultStaysVisible
<1> USE DEF Connected
<1>1. Init => ResultOnScreen
  BY DEF Init, ResultOnScreen, ResultStaysVisible
<1>2. IInv /\ IInv' /\ EveryoneOwns /\ ResultOnScreen /\ [Next]_vars => ResultOnScreen'
  BY ResultOnScreenNext
<1>3. ResultOnScreen => ResultStaysVisible
  BY DEF ResultOnScreen
<1> QED
  BY <1>1, <1>2, <1>3, InvariantHolds, OwnershipHolds, PTL DEF Spec
=============================================================================

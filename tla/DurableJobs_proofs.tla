------------------------- MODULE DurableJobs_proofs -------------------------
(***************************************************************************)
(* Proofs of the safety of DurableJobs, for any number of jobs, chats,     *)
(* parts, workers and faults.                                              *)
(***************************************************************************)
EXTENDS DurableJobsInvariant, WellFoundedInduction, TLAPS

(* The ways a step of the pipeline can go, one disjunct per action: every  *)
(* invariance proof below splits along them.                               *)
LEMMA NextCases ==
  ASSUME Next
  PROVE  \/ \E w \in Worker : \/ \E s \in Stage : ListCandidates(w, s)
                              \/ \E j \in Job : SkipCandidate(w, j)
                              \/ \E j \in Job : Claim(w, j)
                              \/ SendStatus(w) \/ SaveStatus(w)
                              \/ Submit(w) \/ SubmitRejected(w) \/ SaveSubmitted(w)
                              \/ CallCancel(w) \/ QueryActive(w) \/ QueryTerminal(w)
                              \/ EditProgress(w) \/ Reschedule(w) \/ SaveResult(w)
                              \/ CallAck(w) \/ SaveAck(w) \/ NoPartLeft(w)
                              \/ \E j \in Job : \E p \in outbox[j] : PickPart(w, p)
                              \/ SendPart(w) \/ SaveReceipt(w) \/ Complete(w)
                              \/ Retry(w) \/ FencedOut(w)
                              \/ EditUploadProgress(w)
                              \/ CallFails(w) \/ StoreFails(w) \/ IterationFails(w)
                              \/ Crash(w) \/ LoseConnection(w)
         \/ \E j \in Job : \/ Admit(j) \/ (\E c \in Chat : RequestCancel(j, c))
                           \/ BecomeDue(j) \/ BackendFinishes(j) \/ BackendForgets(j)
                           \/ DeleteStatusMessage(j)
         \/ Quiescent
  BY Zenon DEF Next, WorkerStep, WorkerFault, Surroundings

USE DEF rowVars, localVars, outsideVars, vars

(* A delivery plan numbers its parts. *)
LEMMA PlanType == \A j \in Job : \A o : Plan(j, o) \in SUBSET PartNumber
<1> SUFFICES ASSUME NEW j \in Job, NEW o, NEW p \in Plan(j, o)
             PROVE  p \in Nat
  BY DEF PartNumber
<1> QED
  BY JobAssumption DEF Plan, SplitText

(* The parts of a plan are numbered without gaps. *)
LEMMA PlanGapless ==
  ASSUME NEW j \in Job, NEW o, NEW p \in Plan(j, o), NEW q \in 0 .. (p - 1)
  PROVE  q \in Plan(j, o)
<1>1. p \in Nat
  BY PlanType DEF PartNumber
<1>2. CASE o = "text" /\ j \notin Lecture
  <2> DEFINE n == TextRunes[j]
  <2>1. n \in Nat /\ MaxMsgRunes \in Nat /\ p \in 0 .. n /\ p * MaxMsgRunes < n
    BY <1>1, <1>2, JobAssumption DEF Plan, SplitText
  <2>2. q * MaxMsgRunes <= p * MaxMsgRunes
    BY <1>1, <2>1
  <2>3. q \in 0 .. n /\ q * MaxMsgRunes < n
    BY <1>1, <2>1, <2>2
  <2> QED
    BY <1>2, <2>3 DEF Plan, SplitText
<1>3. CASE ~(o = "text" /\ j \notin Lecture)
  BY <1>1, <1>3 DEF Plan
<1> QED
  BY <1>2, <1>3

(* What a call does outside the bot, answered or not, keeps the types. *)
LEMMA CallType ==
  ASSUME TypeOK, NEW w \in Worker, CallTakesEffect(w) \/ UNCHANGED outsideVars
  PROVE  /\ backend' \in [Job -> BackendState]
         /\ screen' \in [Job -> Screen]
         /\ shown' \in [Job -> SUBSET PartNumber]
<1>1. ASSUME NEW j, NEW p \in PartNumber, ShowPart(j, p)
      PROVE  shown' \in [Job -> SUBSET PartNumber] /\ screen' \in [Job -> Screen]
  <2>1. shown' \in [Job -> SUBSET PartNumber]
    BY <1>1 DEF ShowPart, TypeOK
  <2>2. screen' \in [Job -> Screen]
    BY <1>1 DEF ShowPart, TypeOK, Screen
  <2> QED
    BY <2>1, <2>2
<1>2. part[w] \in PartNumber
  BY DEF TypeOK
<1>3. CASE pc[w] = "send" /\ ShowPart(job[w], part[w])
  BY <1>1, <1>2, <1>3 DEF ShowPart, TypeOK
<1>4. CASE ShowProgress(job[w])
  BY <1>4 DEF ShowProgress, TypeOK, Screen
<1>5. CASE AcceptUpload(job[w]) \/ MarkCancelled(job[w]) \/ ReleaseJob(job[w])
  BY <1>5 DEF AcceptUpload, MarkCancelled, ReleaseJob, TypeOK, BackendState
<1>6. CASE UNCHANGED outsideVars
  BY <1>6 DEF TypeOK
<1> QED
  BY <1>3, <1>4, <1>5, <1>6 DEF CallTakesEffect

(* The variables keep their types. *)
LEMMA TypeInvariant == TypeOK /\ [Next]_vars => TypeOK'
<1> SUFFICES ASSUME TypeOK, [Next]_vars
             PROVE  TypeOK'
  OBVIOUS
<1> USE JobAssumption DEF TypeOK, PartNumber
<1>1. ASSUME NEW w \in Worker, NEW s \in Stage, ListCandidates(w, s)
      PROVE  TypeOK'
  BY <1>1 DEF ListCandidates, Candidates
<1>2. ASSUME NEW w \in Worker, NEW j \in Job, SkipCandidate(w, j)
      PROVE  TypeOK'
  BY <1>2 DEF SkipCandidate
<1>3. ASSUME NEW w \in Worker, NEW j \in Job, Claim(w, j)
      PROVE  TypeOK'
  <2>1. FirstPc(j) \in CallPc \cup StorePc
    BY <1>3 DEF Claim, Claimable, FirstPc, Stage, CallPc, StorePc
  <2>2. QED
    BY <1>3, <2>1 DEF Claim
<1>4. ASSUME NEW w \in Worker, SendStatus(w)
      PROVE  TypeOK'
  BY <1>4 DEF SendStatus, Goto, StorePc
<1>5. ASSUME NEW w \in Worker, SaveStatus(w)
      PROVE  TypeOK'
  BY <1>5 DEF SaveStatus, Finish, Park, Unlock, Stage, Screen
<1>6. ASSUME NEW w \in Worker, Submit(w)
      PROVE  TypeOK'
  BY <1>6 DEF Submit, Goto, AcceptUpload, BackendState, StorePc
<1>7. ASSUME NEW w \in Worker, SubmitRejected(w)
      PROVE  TypeOK'
  BY <1>7 DEF SubmitRejected, Outcome, StorePc
<1>8. ASSUME NEW w \in Worker, SaveSubmitted(w)
      PROVE  TypeOK'
  BY <1>8 DEF SaveSubmitted, Finish, Park, Unlock, Stage
<1>9. ASSUME NEW w \in Worker, CallCancel(w)
      PROVE  TypeOK'
  BY <1>9 DEF CallCancel, Goto, MarkCancelled, BackendState, CallPc
<1>10. ASSUME NEW w \in Worker, QueryActive(w)
      PROVE  TypeOK'
  BY <1>10 DEF QueryActive, Goto, CallPc, StorePc
<1>11. ASSUME NEW w \in Worker, QueryTerminal(w)
      PROVE  TypeOK'
  BY <1>11 DEF QueryTerminal, OutcomeOf, Outcome, StorePc
<1>12. ASSUME NEW w \in Worker, EditProgress(w)
      PROVE  TypeOK'
  BY <1>12 DEF EditProgress, Goto, ShowProgress, Screen, StorePc
<1>13. ASSUME NEW w \in Worker, Reschedule(w)
      PROVE  TypeOK'
  BY <1>13 DEF Reschedule, Finish, Park, Unlock
<1>14. ASSUME NEW w \in Worker, SaveResult(w)
      PROVE  TypeOK'
  <2>1. outbox' \in [Job -> SUBSET PartNumber]
    BY <1>14, PlanType DEF SaveResult
  <2> QED
    BY <1>14, <2>1 DEF SaveResult, Finish, Park, Unlock, Stage
<1>15. ASSUME NEW w \in Worker, CallAck(w)
      PROVE  TypeOK'
  BY <1>15 DEF CallAck, Goto, ReleaseJob, BackendState, StorePc
<1>16. ASSUME NEW w \in Worker, SaveAck(w)
      PROVE  TypeOK'
  BY <1>16 DEF SaveAck, Goto, StorePc
<1>17. ASSUME NEW w \in Worker, NoPartLeft(w)
      PROVE  TypeOK'
  BY <1>17 DEF NoPartLeft, Goto, AfterPart, StorePc
<1>18. ASSUME NEW w \in Worker, SendPart(w)
      PROVE  TypeOK'
  BY <1>18, CallType DEF SendPart, CallTakesEffect, Goto, StorePc
<1>19. ASSUME NEW w \in Worker, SaveReceipt(w)
      PROVE  TypeOK'
  <2>1. receipt' \in [Job -> SUBSET PartNumber]
    <3>1. part[w] \in PartNumber
      OBVIOUS
    <3>2. ASSUME NEW k \in Job
          PROVE  receipt[k] \cup {part[w]} \in SUBSET PartNumber
      BY <3>1
    <3> QED
      BY <1>19, <3>2 DEF SaveReceipt
  <2>2. pc' \in [Worker -> {"idle"} \cup Stage \cup CallPc \cup StorePc]
    BY <1>19 DEF SaveReceipt, Goto, AfterPart, StorePc
  <2> QED
    BY <1>19, <2>1, <2>2 DEF SaveReceipt, Goto
<1>20. ASSUME NEW w \in Worker, Complete(w)
      PROVE  TypeOK'
  BY <1>20 DEF Complete, Finish, Park, Unlock
<1>21. ASSUME NEW w \in Worker, Retry(w)
      PROVE  TypeOK'
  BY <1>21 DEF Retry, Finish, Park, Unlock
<1>22. ASSUME NEW w \in Worker, FencedOut(w)
      PROVE  TypeOK'
  BY <1>22 DEF FencedOut, Finish, Park, Unlock
<1>23. ASSUME NEW w \in Worker, EditUploadProgress(w)
      PROVE  TypeOK'
  BY <1>23 DEF EditUploadProgress, ShowProgress, Screen
<1>24. ASSUME NEW w \in Worker, CallFails(w)
      PROVE  TypeOK'
  BY <1>24, CallType DEF CallFails, AfterFailedCall, Fault, StorePc
<1>25. ASSUME NEW w \in Worker, StoreFails(w)
      PROVE  TypeOK'
  BY <1>25 DEF StoreFails, Fault, Goto, StorePc
<1>26. ASSUME NEW w \in Worker, Crash(w)
      PROVE  TypeOK'
  BY <1>26, CallType DEF Crash, Fault, Finish, Park, Unlock
<1>27. ASSUME NEW w \in Worker, LoseConnection(w)
      PROVE  TypeOK'
  BY <1>27 DEF LoseConnection, Fault, Unlock
<1>28. ASSUME NEW w \in Worker, NEW j \in Job, NEW p \in outbox[j], PickPart(w, p)
      PROVE  TypeOK'
  BY <1>28 DEF PickPart, CallPc
<1>29. ASSUME NEW j \in Job, Admit(j)
      PROVE  TypeOK'
  BY <1>29 DEF Admit, Stage
<1>30. ASSUME NEW j \in Job, NEW c \in Chat, RequestCancel(j, c)
      PROVE  TypeOK'
  BY <1>30 DEF RequestCancel
<1>31. ASSUME NEW j \in Job, BecomeDue(j)
      PROVE  TypeOK'
  BY <1>31 DEF BecomeDue
<1>32. ASSUME NEW j \in Job, BackendFinishes(j)
      PROVE  TypeOK'
  BY <1>32 DEF BackendFinishes, BackendState
<1>33. ASSUME NEW j \in Job, BackendForgets(j)
      PROVE  TypeOK'
  BY <1>33 DEF BackendForgets, Fault, BackendState
<1>34. ASSUME NEW j \in Job, DeleteStatusMessage(j)
      PROVE  TypeOK'
  BY <1>34 DEF DeleteStatusMessage, Fault, Screen
<1>35. ASSUME NEW w \in Worker, IterationFails(w)
      PROVE  TypeOK'
  BY <1>35 DEF IterationFails, Fault, Finish, Park, Unlock
<1>36. CASE UNCHANGED vars
  BY <1>36
<1> QED
  BY Zenon, NextCases, <1>1, <1>2, <1>3, <1>4, <1>5, <1>6, <1>7, <1>8, <1>9,
       <1>10, <1>11, <1>12, <1>13, <1>14, <1>15, <1>16, <1>17, <1>18, <1>19,
       <1>20, <1>21, <1>22, <1>23, <1>24, <1>25, <1>26, <1>27, <1>28, <1>29,
       <1>30, <1>31, <1>32, <1>33, <1>34, <1>35, <1>36 DEF Quiescent

(* Spec keeps every variable in its type. *)
THEOREM TypeCorrect == Spec => []TypeOK
<1>1. Init => TypeOK
  BY JobAssumption DEF Init, TypeOK, PartNumber, BackendState, Screen, NoJob
<1> QED
  BY <1>1, TypeInvariant, PTL DEF Spec

----------------------------------------------------------------------------
(* Rely: whatever another worker or the surroundings do, a worker keeps    *)
(* what it knows, unless it loses its lock.                                *)
LEMMA Rely ==
  ASSUME IInv, TypeOK', NEW v \in Worker,
         \A j \in Job : Onward(j), Undisturbed(v)
  PROVE  WorkerInv(v)'
<1> DEFINE j == job[v]
<1> USE DEF IInv
<1>1. /\ InStep(v) => j \in Job
      /\ InStep(v)' <=> InStep(v)
      /\ Holds(v)' => Holds(v) /\ state'[j] = state[j]
  BY DEF LocksInv, Undisturbed, Holds, InStep
<1>2. CandInv(v)'
  <2> SUFFICES ASSUME pc[v] \in Stage, NEW k \in cand[v]
               PROVE  /\ state'[k] # "absent"
                      /\ pc[v] \in {"status", "upload"} => Unblocked(k, pc[v])'
    BY DEF CandInv, Undisturbed
  <2>1. k \in Job /\ Onward(k) /\ \A e \in Job : Onward(e)
    BY DEF TypeOK
  <2>2. state[k] # "absent" /\ (pc[v] \in {"status", "upload"} => Unblocked(k, pc[v]))
    BY DEF WorkerInv, CandInv
  <2> QED
    BY <2>1, <2>2 DEF Unblocked, Onward, Undisturbed
<1>3. StepInv(v)'
  <2> SUFFICES ASSUME InStep(v)
               PROVE  StepInv(v)'
    BY <1>1 DEF StepInv, InStep, UploadPc, PollPc, DeliverPc, CallPc, StorePc
  <2>1. StepInv(v) /\ j \in Job /\ Onward(j)
    BY <1>1 DEF WorkerInv
  <2>2. ASSUME NEW s, Unblocked(j, s)
        PROVE  Unblocked(j, s)'
    BY <2>2 DEF Unblocked, Onward, Undisturbed
  <2> QED
    BY <1>1, <2>1, <2>2 DEF StepInv, Fresh, UploadPc, PollPc, DeliverPc, Onward, Undisturbed
<1>4. AnswerInv(v)'
  <2> SUFFICES ASSUME InStep(v)
               PROVE  AnswerInv(v)'
    BY <1>1 DEF AnswerInv, InStep, CallPc, StorePc
  <2>1. AnswerInv(v) /\ StepInv(v) /\ j \in Job /\ Onward(j)
    BY <1>1 DEF WorkerInv
  <2>2. Holds(v) /\ pc[v] = "save_result" => state[j] \notin Decided
    BY <2>1 DEF StepInv, Fresh, UploadPc, PollPc, Decided
  <2> QED
    BY <1>1, <2>1, <2>2 DEF AnswerInv, Onward, Undisturbed
<1> QED
  BY <1>2, <1>3, <1>4 DEF WorkerInv

(* A step that writes nothing but a due date, and makes no call but a       *)
(* progress edit, leaves the jobs as they are.                             *)
LEMMA LocalStep ==
  ASSUME JobsInv, OrdersInv,
         UNCHANGED <<state, jobId, cancel, result, acked, outbox, receipt, backend, shown>>
  PROVE  (\A j \in Job : Onward(j)) /\ JobsInv' /\ OrdersInv'
<1>1. ASSUME NEW j \in Job
      PROVE  Onward(j) /\ RowInv(j)' /\ OutcomeInv(j)' /\ PartsInv(j)'
  BY DEF JobsInv, Onward, RowInv, OutcomeInv, PartsInv, Evidence
<1>2. OrdersInv'
  BY DEF OrdersInv, OrderInv
<1> QED
  BY <1>1, <1>2 DEF JobsInv

(* The calls of a step: each is made on the strength of what the worker     *)
(* knows, even when it no longer owns its lock, and does no harm to any job *)
(* whether its answer arrives, is lost, or the worker dies.                 *)
LEMMA CallStep ==
  ASSUME IInv, NEW w \in Worker, UNCHANGED rowVars,
         CallTakesEffect(w) \/ UNCHANGED outsideVars
  PROVE  (\A j \in Job : Onward(j)) /\ JobsInv' /\ OrdersInv'
<1> DEFINE k == job[w]
<1> USE DEF IInv
<1>1. CASE UNCHANGED outsideVars
  BY <1>1, LocalStep
<1>2. CASE pc[w] = "edit_progress" /\ ShowProgress(k)
  <2>1. UNCHANGED <<rowVars, backend, shown>>
    BY <1>2 DEF ShowProgress
  <2>2. ASSUME NEW j \in Job
        PROVE  Onward(j) /\ RowInv(j)' /\ OutcomeInv(j)' /\ PartsInv(j)'
    BY <2>1 DEF JobsInv, Onward, RowInv, OutcomeInv, PartsInv, Evidence
  <2>3. OrdersInv'
    BY <2>1 DEF OrdersInv, OrderInv
  <2> QED
    BY <2>2, <2>3 DEF JobsInv
<1>3. CASE pc[w] = "submit" /\ AcceptUpload(k)
  <2>1. /\ k \in Job
        /\ state[k] \notin {"absent", "status"}
        /\ Unblocked(k, "upload")
    BY <1>3 DEF LocksInv, InStep, CallPc, WorkerInv, StepInv, UploadPc
  <2>2. ASSUME NEW j \in Job
        PROVE  /\ backend'[j] = backend[j] \/ (j = k /\ backend[j] = "none" /\ j \notin Rejected /\ backend'[j] = "active")
               /\ shown'[j] = shown[j]
    BY <1>3, <2>1 DEF AcceptUpload, TypeOK
  <2>3. ASSUME NEW j \in Job
        PROVE  Onward(j) /\ RowInv(j)' /\ OutcomeInv(j)' /\ PartsInv(j)'
    <3>1. RowInv(j) /\ OutcomeInv(j) /\ PartsInv(j) /\ result[j] \in Outcome \cup {"none"}
      BY DEF JobsInv, TypeOK
    <3>2. Onward(j) /\ PartsInv(j)'
      BY <2>1, <2>2, <3>1 DEF Onward, PartsInv
    <3>3. RowInv(j)'
      BY <2>1, <2>2, <3>1 DEF RowInv, NotUploaded, Decided
    <3>4. OutcomeInv(j)'
      BY <2>1, <2>2, <3>1 DEF RowInv, OutcomeInv, Evidence, BackendState, Outcome
    <3> QED
      BY <3>2, <3>3, <3>4
  <2>4. OrdersInv'
    BY <2>1, <2>2 DEF OrdersInv, OrderInv, Unblocked, Earlier
  <2> QED
    BY <2>3, <2>4 DEF JobsInv
<1>4. CASE pc[w] = "cancel" /\ MarkCancelled(k)
  <2>1. k \in Job /\ cancel[k]
    BY <1>4 DEF LocksInv, InStep, CallPc, WorkerInv, AnswerInv
  <2>2. ASSUME NEW j \in Job
        PROVE  /\ backend'[j] = backend[j] \/ (cancel[j] /\ backend[j] = "active" /\ backend'[j] = "cancelling")
               /\ shown'[j] = shown[j]
    BY <1>4, <2>1 DEF MarkCancelled, TypeOK
  <2>3. ASSUME NEW j \in Job
        PROVE  Onward(j) /\ RowInv(j)' /\ OutcomeInv(j)' /\ PartsInv(j)'
    <3>1. RowInv(j) /\ OutcomeInv(j) /\ PartsInv(j) /\ result[j] \in Outcome \cup {"none"}
      BY DEF JobsInv, TypeOK
    <3>2. Onward(j) /\ PartsInv(j)'
      BY <2>2, <3>1 DEF Onward, PartsInv
    <3>3. RowInv(j)'
      BY <2>2, <3>1 DEF RowInv, NotUploaded, Decided
    <3>4. OutcomeInv(j)'
      BY <2>2, <3>1 DEF RowInv, OutcomeInv, Evidence, BackendState, Outcome
    <3> QED
      BY <3>2, <3>3, <3>4
  <2>4. OrdersInv'
    BY <2>2 DEF OrdersInv, OrderInv
  <2> QED
    BY <2>3, <2>4 DEF JobsInv
<1>5. CASE pc[w] = "ack" /\ ReleaseJob(k)
  <2>1. k \in Job /\ state[k] \in Decided
    BY <1>5 DEF LocksInv, InStep, CallPc, WorkerInv, StepInv, DeliverPc
  <2>2. ASSUME NEW j \in Job
        PROVE  /\ backend'[j] = backend[j] \/ (state[j] \in Decided /\ backend[j] \in {"done", "failed", "cancelled"} /\ backend'[j] = "released")
               /\ shown'[j] = shown[j]
    BY <1>5, <2>1 DEF ReleaseJob, TypeOK
  <2>3. ASSUME NEW j \in Job
        PROVE  Onward(j) /\ RowInv(j)' /\ OutcomeInv(j)' /\ PartsInv(j)'
    <3>1. RowInv(j) /\ OutcomeInv(j) /\ PartsInv(j) /\ result[j] \in Outcome \cup {"none"}
      BY DEF JobsInv, TypeOK
    <3>2. Onward(j) /\ PartsInv(j)'
      BY <2>2, <3>1 DEF Onward, PartsInv
    <3>3. RowInv(j)'
      BY <2>2, <3>1 DEF RowInv, NotUploaded, Decided
    <3>4. OutcomeInv(j)'
      BY <2>2, <3>1 DEF RowInv, OutcomeInv, Evidence, BackendState, Outcome
    <3> QED
      BY <3>2, <3>3, <3>4
  <2>4. OrdersInv'
    BY <2>2 DEF OrdersInv, OrderInv
  <2> QED
    BY <2>3, <2>4 DEF JobsInv
<1>6. CASE pc[w] = "send" /\ ShowPart(k, part[w])
  <2>1. k \in Job /\ part[w] \in outbox[k] /\ 0 .. (part[w] - 1) \subseteq receipt[k]
    BY <1>6 DEF LocksInv, InStep, CallPc, WorkerInv, AnswerInv
  <2>2. ASSUME NEW j \in Job
        PROVE  /\ backend'[j] = backend[j]
               /\ shown'[j] = IF j = k THEN shown[j] \cup {part[w]} ELSE shown[j]
    BY <1>6, <2>1 DEF ShowPart, TypeOK
  <2>3. ASSUME NEW j \in Job
        PROVE  Onward(j) /\ RowInv(j)' /\ OutcomeInv(j)'
    BY <2>2 DEF JobsInv, Onward, RowInv, OutcomeInv, Evidence
  <2>4. ASSUME NEW j \in Job
        PROVE  PartsInv(j)'
    <3>1. PartsInv(j)
      BY DEF JobsInv
    <3>2. ASSUME NEW p \in shown'[j]
          PROVE  0 .. (p - 1) \subseteq receipt'[j]
      BY <2>1, <2>2, <3>1 DEF PartsInv
    <3> QED
      BY <2>1, <2>2, <3>1, <3>2 DEF PartsInv
  <2>5. OrdersInv'
    BY <2>2 DEF OrdersInv, OrderInv
  <2> QED
    BY <2>3, <2>4, <2>5 DEF JobsInv
<1> QED
  BY <1>1, <1>2, <1>3, <1>4, <1>5, <1>6 DEF CallTakesEffect

----------------------------------------------------------------------------
(* The end of an iteration, and the steps within it. *)

LEMMA ParkStep ==
  ASSUME TypeOK, LocksInv, NEW w \in Worker, Finish(w)
  PROVE  LocksInv' /\ OnlyOf(w) /\ WorkerInv(w)'
<1> USE DEF Finish, Park, Unlock, TypeOK
<1>1. OnlyOf(w)
  BY JobAssumption DEF OnlyOf
<1>2. LocksInv'
  BY JobAssumption DEF LocksInv, InStep, CallPc, StorePc
<1>3. pc'[w] = "idle"
  OBVIOUS
<1>4. WorkerInv(w)'
  BY <1>3 DEF WorkerInv, CandInv, StepInv, AnswerInv, InStep, UploadPc, PollPc,
              DeliverPc, Stage, CallPc, StorePc
<1> QED
  BY <1>1, <1>2, <1>4

LEMMA GotoStep ==
  ASSUME TypeOK, LocksInv, NEW w \in Worker, InStep(w), pc'[w] \in CallPc \cup StorePc,
         pc' = [pc EXCEPT ![w] = pc'[w]], UNCHANGED <<cand, job, lock>>,
         \A v \in Worker \ {w} : part'[v] = part[v] /\ outcome'[v] = outcome[v]
  PROVE  LocksInv' /\ OnlyOf(w)
<1>1. \A v \in Worker \ {w} : pc'[v] = pc[v]
  BY DEF TypeOK
<1>2. OnlyOf(w)
  BY <1>1 DEF OnlyOf
<1>3. \A v \in Worker : InStep(v)' <=> InStep(v)
  BY <1>1 DEF InStep
<1>4. \A j \in Job : lock[j] # NoWorker => lock[j] \in Worker
  BY DEF TypeOK
<1>5. LocksInv'
  BY <1>3, <1>4 DEF LocksInv
<1> QED
  BY <1>2, <1>5

(* A step of w that moves only jobs w has locked keeps the invariant when   *)
(* it keeps what is said of the jobs and of w itself.                      *)
LEMMA StepKeeps ==
  ASSUME IInv, TypeOK', NEW w \in Worker, LocksInv', OnlyOf(w), WorkerInv(w)',
         JobsInv', OrdersInv', \A j \in Job : Onward(j),
         \A j \in Job : state'[j] = state[j] \/ lock[j] = w
  PROVE  IInv'
<1>1. ASSUME NEW v \in Worker \ {w}
      PROVE  WorkerInv(v)'
  <2>1. Undisturbed(v)
    BY DEF OnlyOf, Undisturbed
  <2> QED
    BY <2>1, Rely
<1> QED
  BY <1>1 DEF IInv

(* The same for a step that is of no worker. *)
LEMMA OutsideKeeps ==
  ASSUME IInv, TypeOK', LocksInv', \A v \in Worker : Undisturbed(v),
         JobsInv', OrdersInv', \A j \in Job : Onward(j)
  PROVE  IInv'
<1>1. ASSUME NEW v \in Worker
      PROVE  WorkerInv(v)'
  BY Rely
<1> QED
  BY <1>1 DEF IInv

----------------------------------------------------------------------------
(* One lemma for each group of actions. *)

LEMMA ListCandidatesKeeps ==
  ASSUME IInv, TypeOK', NEW w \in Worker, NEW s \in Stage, ListCandidates(w, s)
  PROVE  IInv'
<1> USE DEF IInv
<1>1. JobsInv' /\ OrdersInv' /\ \A j \in Job : Onward(j)
  BY LocalStep DEF ListCandidates
<1>2. pc'[w] = s /\ cand'[w] = Candidates(s) /\ pc[w] = "idle"
  BY DEF ListCandidates, TypeOK
<1>3. LocksInv' /\ OnlyOf(w)
  BY DEF ListCandidates, TypeOK, LocksInv, OnlyOf, InStep, Stage, CallPc, StorePc
<1>4. CandInv(w)'
  <2> SUFFICES ASSUME NEW j \in Candidates(s)
               PROVE  state[j] # "absent" /\ (s \in {"status", "upload"} => Unblocked(j, s))
    BY <1>2 DEF CandInv, Unblocked, ListCandidates
  <2>1. j \in Job /\ state[j] = s /\ (s \in {"status", "upload"} => ~Blocked(j, s))
    BY DEF Candidates
  <2>2. ASSUME NEW e \in Job, Earlier(e, j)
        PROVE  state[e] # "absent"
    BY <2>1, <2>2 DEF OrdersInv, OrderInv, Earlier, Stage
  <2>3. state[j] # "absent"
    BY <2>1 DEF Stage
  <2> QED
    BY <2>1, <2>2, <2>3 DEF Blocked, Unblocked, Earlier, NotUploaded
<1>5. WorkerInv(w)'
  BY <1>2, <1>4 DEF WorkerInv, StepInv, AnswerInv, InStep, UploadPc, PollPc, DeliverPc,
                    Stage, CallPc, StorePc
<1> QED
  BY <1>1, <1>3, <1>5, StepKeeps DEF ListCandidates

LEMMA SkipCandidateKeeps ==
  ASSUME IInv, TypeOK', NEW w \in Worker, NEW j \in Job, SkipCandidate(w, j)
  PROVE  IInv'
<1> USE DEF IInv
<1>1. JobsInv' /\ OrdersInv' /\ \A k \in Job : Onward(k)
  BY LocalStep DEF SkipCandidate
<1>2. cand'[w] \subseteq cand[w] /\ pc'[w] \in {pc[w], "idle"} /\ pc[w] \in Stage
  BY DEF SkipCandidate, TypeOK
<1>3. LocksInv' /\ OnlyOf(w)
  BY DEF SkipCandidate, TypeOK, LocksInv, OnlyOf, InStep, Stage, CallPc, StorePc
<1>4. CandInv(w)'
  BY <1>2 DEF WorkerInv, CandInv, Unblocked, SkipCandidate, Stage
<1>5. WorkerInv(w)'
  BY <1>2, <1>4 DEF WorkerInv, StepInv, AnswerInv, InStep, UploadPc, PollPc, DeliverPc,
                    Stage, CallPc, StorePc
<1> QED
  BY <1>1, <1>3, <1>5, StepKeeps DEF SkipCandidate

LEMMA ClaimKeeps ==
  ASSUME IInv, TypeOK', NEW w \in Worker, NEW j \in Job, Claim(w, j)
  PROVE  IInv'
<1> USE DEF IInv
<1>1. JobsInv' /\ OrdersInv' /\ \A k \in Job : Onward(k)
  BY LocalStep DEF Claim
<1>2. /\ pc'[w] = FirstPc(j) /\ job'[w] = j /\ cand'[w] = {} /\ lock'[j] = w
      /\ pc[w] \in Stage /\ j \in cand[w] /\ state[j] = pc[w] /\ lock[j] = NoWorker
  BY DEF Claim, Claimable, TypeOK
<1>3. FirstPc(j) \in CallPc \cup StorePc
  BY <1>2 DEF FirstPc, Stage, CallPc, StorePc
<1>4. LocksInv' /\ OnlyOf(w)
  BY <1>2, <1>3, JobAssumption
     DEF Claim, TypeOK, LocksInv, OnlyOf, InStep, Stage, CallPc, StorePc
<1>5. pc[w] \in {"status", "upload"} => Unblocked(j, pc[w])
  BY <1>2 DEF WorkerInv, CandInv
<1>6. RowInv(j)
  BY DEF JobsInv
<1>7. CandInv(w)'
  BY <1>2 DEF CandInv
<1>8. StepInv(w)'
  BY <1>2, <1>5 DEF Claim, FirstPc, StepInv, Fresh, Unblocked, UploadPc, PollPc, DeliverPc,
                    Stage, NotUploaded, Decided
<1>9. AnswerInv(w)'
  BY <1>2, <1>6 DEF Claim, FirstPc, AnswerInv, RowInv, Stage, NotUploaded, Decided
<1> QED
  BY <1>1, <1>2, <1>4, <1>7, <1>8, <1>9, StepKeeps DEF WorkerInv, Claim

LEMMA QueryKeeps ==
  ASSUME IInv, TypeOK', NEW w \in Worker, QueryTerminal(w)
  PROVE  IInv'
<1> DEFINE k == job[w]
<1> USE DEF IInv
<1>1. JobsInv' /\ OrdersInv' /\ \A j \in Job : Onward(j)
  BY LocalStep DEF QueryTerminal
<1>2. /\ pc[w] = "query" /\ pc'[w] = "save_result" /\ job'[w] = k
      /\ outcome'[w] = OutcomeOf(backend[k]) /\ InStep(w)
      /\ Holds(w)' => Holds(w)
  BY DEF QueryTerminal, TypeOK, InStep, Holds, CallPc
<1>3. LocksInv' /\ OnlyOf(w)
  BY <1>2, GotoStep DEF QueryTerminal, TypeOK, StorePc
<1>4. k \in Job /\ state[k] \notin NotUploaded /\ Fresh(w, "poll")
  BY <1>2 DEF LocksInv, WorkerInv, StepInv, PollPc
<1>5. Holds(w) => /\ backend[k] \in {"done", "failed", "cancelled", "lost"}
                  /\ backend[k] = "cancelled" => cancel[k]
  <2> SUFFICES ASSUME Holds(w)
               PROVE  /\ backend[k] \in {"done", "failed", "cancelled", "lost"}
                      /\ backend[k] = "cancelled" => cancel[k]
    OBVIOUS
  <2>1. state[k] = "poll" /\ RowInv(k) /\ OutcomeInv(k)
    BY <1>4 DEF Fresh, JobsInv
  <2>2. result[k] = "none" /\ jobId[k] /\ backend[k] # "none"
    BY <2>1 DEF RowInv, Decided, NotUploaded
  <2> QED
    BY <2>1, <2>2 DEF OutcomeInv, Evidence, BackendState, QueryTerminal
<1>6. outcome'[w] \in {"text", "failed", "cancelled", "missing"}
  BY <1>2 DEF OutcomeOf
<1>7. StepInv(w)'
  BY <1>2, <1>4, <1>6 DEF QueryTerminal, StepInv, Fresh, InStep, UploadPc, PollPc, DeliverPc,
                          NotUploaded
<1>8. AnswerInv(w)'
  BY <1>2, <1>5, <1>6 DEF QueryTerminal, AnswerInv, OutcomeOf
<1>9. CandInv(w)'
  BY <1>2 DEF CandInv, Stage
<1> QED
  BY <1>1, <1>3, <1>7, <1>8, <1>9, StepKeeps DEF WorkerInv, QueryTerminal

LEMMA SubmitRejectedKeeps ==
  ASSUME IInv, TypeOK', NEW w \in Worker, SubmitRejected(w)
  PROVE  IInv'
<1> DEFINE k == job[w]
<1> USE DEF IInv
<1>1. JobsInv' /\ OrdersInv' /\ \A j \in Job : Onward(j)
  BY LocalStep DEF SubmitRejected
<1>2. /\ pc[w] = "submit" /\ pc'[w] = "save_result" /\ job'[w] = k
      /\ outcome'[w] = "invalid" /\ k \in Rejected /\ InStep(w)
      /\ Holds(w)' => Holds(w)
  BY DEF SubmitRejected, TypeOK, InStep, Holds, CallPc
<1>3. LocksInv' /\ OnlyOf(w)
  BY <1>2, GotoStep DEF SubmitRejected, TypeOK, StorePc
<1>4. /\ k \in Job /\ state[k] \notin {"absent", "status"}
      /\ Fresh(w, "upload") /\ Unblocked(k, "upload")
  BY <1>2 DEF LocksInv, WorkerInv, StepInv, UploadPc
<1>5. WorkerInv(w)'
  BY <1>2, <1>4 DEF SubmitRejected, WorkerInv, CandInv, StepInv, AnswerInv, Fresh, Unblocked,
                    InStep, UploadPc, PollPc, DeliverPc, Stage
<1> QED
  BY <1>1, <1>3, <1>5, StepKeeps DEF SubmitRejected

(* The steps that only move w from one place of its iteration to another. *)
LEMMA MoveKeeps ==
  ASSUME IInv, TypeOK', NEW w \in Worker,
         SendStatus(w) \/ QueryActive(w) \/ NoPartLeft(w) \/ StoreFails(w)
  PROVE  IInv'
<1> DEFINE k == job[w]
<1> USE DEF IInv
<1>1. /\ UNCHANGED <<rowVars, outsideVars, cand, job, part, outcome, lock>>
      /\ pc' = [pc EXCEPT ![w] = pc'[w]]
      /\ \/ pc[w] = "send_status" /\ pc'[w] = "save_status"
         \/ pc[w] = "query" /\ pc'[w] \in {"edit_progress", "reschedule"}
         \/ pc[w] = "next" /\ pc'[w] \in {"retry", "complete"}
         \/ pc[w] \in StorePc /\ pc'[w] = "retry"
  BY DEF SendStatus, QueryActive, NoPartLeft, StoreFails, Goto, AfterPart, AtStore, TypeOK
<1>2. JobsInv' /\ OrdersInv' /\ \A j \in Job : Onward(j)
  BY <1>1, LocalStep
<1>3. InStep(w) /\ InStep(w)' /\ (Holds(w)' => Holds(w))
  BY <1>1 DEF InStep, Holds, CallPc, StorePc
<1>4. LocksInv' /\ OnlyOf(w)
  BY <1>1, <1>3, GotoStep DEF InStep
<1>5. WorkerInv(w)'
  BY <1>1, <1>3 DEF WorkerInv, CandInv, StepInv, AnswerInv, Fresh, Unblocked, UploadPc, PollPc,
                    DeliverPc, Stage
<1> QED
  BY <1>1, <1>2, <1>4, <1>5, StepKeeps

LEMMA PickPartKeeps ==
  ASSUME IInv, TypeOK', NEW w \in Worker, NEW p \in PartNumber, PickPart(w, p)
  PROVE  IInv'
<1> DEFINE k == job[w]
<1> USE DEF IInv
<1>1. /\ pc[w] = "next" /\ pc'[w] = "send" /\ job'[w] = k /\ part'[w] = p /\ InStep(w)
      /\ Holds(w)' => Holds(w)
      /\ p \in Pending(k) /\ \A q \in Pending(k) : p <= q
  BY DEF PickPart, IsNext, TypeOK, InStep, Holds, StorePc, AtStore
<1>2. JobsInv' /\ OrdersInv' /\ \A j \in Job : Onward(j)
  BY LocalStep DEF PickPart
<1>3. LocksInv' /\ OnlyOf(w)
  BY <1>1, GotoStep DEF PickPart, TypeOK, CallPc
<1>4. k \in Job /\ state[k] \in Decided /\ Fresh(w, "deliver")
  BY <1>1 DEF LocksInv, WorkerInv, StepInv, DeliverPc
<1>5. p \in outbox[k] /\ 0 .. (p - 1) \subseteq receipt[k]
  <2>1. p \in outbox[k]
    BY <1>1 DEF Pending
  <2>2. outbox[k] = Plan(k, result[k])
    BY <1>4, <2>1 DEF JobsInv, RowInv
  <2>3. ASSUME NEW q \in 0 .. (p - 1)
        PROVE  q \in outbox[k] /\ ~(p <= q)
    BY <1>4, <2>1, <2>2, PlanGapless DEF PartNumber
  <2> QED
    BY <1>1, <2>1, <2>3 DEF Pending
<1>6. WorkerInv(w)'
  BY <1>1, <1>4, <1>5 DEF PickPart, WorkerInv, CandInv, StepInv, AnswerInv, Fresh, InStep,
                          UploadPc, PollPc, DeliverPc, Stage, Decided
<1> QED
  BY <1>2, <1>3, <1>6, StepKeeps DEF PickPart

(* A call that is answered, or that fails after or before it had its effect. *)
LEMMA CallKeeps ==
  ASSUME IInv, TypeOK', NEW w \in Worker,
         \/ Submit(w) \/ CallCancel(w) \/ EditProgress(w) \/ CallAck(w) \/ SendPart(w)
         \/ CallFails(w)
  PROVE  IInv'
<1> DEFINE k == job[w]
<1> USE DEF IInv
<1>1. UNCHANGED rowVars /\ (CallTakesEffect(w) \/ UNCHANGED outsideVars)
  BY DEF Submit, CallCancel, EditProgress, CallAck, SendPart, CallFails, CallTakesEffect
<1>2. JobsInv' /\ OrdersInv' /\ \A j \in Job : Onward(j)
  BY <1>1, CallStep
<1>3. /\ UNCHANGED <<cand, job, part, outcome, lock>>
      /\ pc' = [pc EXCEPT ![w] = pc'[w]]
      /\ \/ pc[w] = "submit" /\ pc'[w] = "save_job"
         \/ pc[w] = "cancel" /\ pc'[w] = "query"
         \/ pc[w] = "edit_progress" /\ pc'[w] = "reschedule"
         \/ pc[w] = "ack" /\ pc'[w] \in {"save_ack", "next"}
         \/ pc[w] = "send" /\ pc'[w] = "save_receipt"
         \/ pc[w] \in CallPc /\ pc'[w] = "retry"
  BY DEF Submit, CallCancel, EditProgress, CallAck, SendPart, CallFails, AfterFailedCall, Goto,
         TypeOK
<1>4. InStep(w) /\ InStep(w)' /\ (Holds(w)' => Holds(w))
  BY <1>3 DEF InStep, Holds, CallPc, StorePc
<1>5. LocksInv' /\ OnlyOf(w)
  BY <1>3, <1>4, GotoStep DEF InStep
<1>6. k \in Job /\ RowInv(k) /\ WorkerInv(w) /\ Onward(k)
  BY <1>2, <1>4 DEF LocksInv, JobsInv
<1>7. pc'[w] = "save_job" => backend'[k] # "none"
  BY <1>6 DEF Submit, CallCancel, EditProgress, CallAck, SendPart, CallFails, AfterFailedCall,
              Goto, TypeOK,
              AcceptUpload, CallPc
<1>8. pc'[w] = "save_ack" => backend'[k] \in {"released", "lost"} /\ jobId[k]
  <2> SUFFICES ASSUME pc'[w] = "save_ack"
               PROVE  backend'[k] \in {"released", "lost"} /\ jobId[k]
    OBVIOUS
  <2>1. CallAck(w)
    BY DEF Submit, CallCancel, EditProgress, SendPart, CallFails, AfterFailedCall,
              Goto, TypeOK, CallPc
  <2>2. jobId[k] /\ state[k] \in Decided /\ result[k] \in Outcome \cup {"none"}
    BY <1>6, <2>1 DEF CallAck, WorkerInv, AnswerInv, StepInv, DeliverPc, TypeOK
  <2>3. backend[k] \in {"done", "failed", "cancelled", "released", "lost"}
    BY <1>6, <2>2 DEF RowInv, JobsInv, OutcomeInv, Evidence, Outcome
  <2> QED
    BY <1>6, <2>1, <2>2, <2>3 DEF CallAck, ReleaseJob, TypeOK
<1>9. pc'[w] = "save_receipt" => part[w] \in shown'[k]
  BY <1>6 DEF Submit, CallCancel, EditProgress, CallAck, SendPart, CallFails, AfterFailedCall,
              Goto, TypeOK,
              ShowPart, CallPc
<1>10. CandInv(w)'
  BY <1>3, <1>4 DEF CandInv, InStep, Stage, CallPc, StorePc
<1>11. StepInv(w)'
  BY <1>1, <1>3, <1>4, <1>6 DEF WorkerInv, StepInv, Fresh, Unblocked, UploadPc, PollPc,
                                DeliverPc
<1>12. AnswerInv(w)'
  BY <1>1, <1>3, <1>6, <1>7, <1>8, <1>9 DEF WorkerInv, AnswerInv
<1> QED
  BY <1>1, <1>2, <1>5, <1>10, <1>11, <1>12, StepKeeps DEF WorkerInv

(* Progress edits during an upload, and the loss of a connection. *)
LEMMA UnnoticedKeeps ==
  ASSUME IInv, TypeOK', NEW w \in Worker, EditUploadProgress(w) \/ LoseConnection(w)
  PROVE  IInv'
<1> USE DEF IInv
<1>1. JobsInv' /\ OrdersInv' /\ \A j \in Job : Onward(j)
  BY LocalStep DEF EditUploadProgress, ShowProgress, LoseConnection
<1>2. \A j \in Job : lock'[j] = lock[j] \/ lock'[j] = NoWorker
  BY DEF EditUploadProgress, LoseConnection, Unlock, TypeOK
<1>3. UNCHANGED <<pc, cand, job, part, outcome, state>>
  BY DEF EditUploadProgress, LoseConnection
<1>4. LocksInv'
  BY <1>2, <1>3 DEF LocksInv, InStep
<1>5. \A v \in Worker : Undisturbed(v)
  BY <1>2, <1>3, JobAssumption DEF Undisturbed
<1> QED
  BY <1>1, <1>4, <1>5, OutsideKeeps

(* The iterations that end with nothing written but a due date. *)
LEMMA EndKeeps ==
  ASSUME IInv, TypeOK', NEW w \in Worker,
         Reschedule(w) \/ Retry(w) \/ FencedOut(w) \/ IterationFails(w) \/ Crash(w)
  PROVE  IInv'
<1> USE DEF IInv
<1>1. LocksInv' /\ OnlyOf(w) /\ WorkerInv(w)'
  BY ParkStep DEF Reschedule, Retry, FencedOut, IterationFails, Crash
<1>2. JobsInv' /\ OrdersInv' /\ (\A j \in Job : Onward(j)) /\ UNCHANGED state
  <2>1. CASE Crash(w)
    BY <2>1, CallStep DEF Crash
  <2>2. CASE Reschedule(w) \/ Retry(w) \/ FencedOut(w) \/ IterationFails(w)
    BY <2>2, LocalStep DEF Reschedule, Retry, FencedOut, IterationFails
  <2> QED
    BY <2>1, <2>2
<1> QED
  BY <1>1, <1>2, StepKeeps

(* A statement of w reaches the database only while w owns the lock. *)
LEMMA HolderKnows ==
  ASSUME TypeOK, LocksInv, NEW w \in Worker, NEW where, AtStore(w, where)
  PROVE  job[w] \in Job /\ lock[job[w]] = w /\ Holds(w) /\ InStep(w) /\ pc[w] = where
  BY DEF AtStore, Holds, InStep, LocksInv

LEMMA SaveStatusKeeps ==
  ASSUME IInv, TypeOK', NEW w \in Worker, SaveStatus(w)
  PROVE  IInv'
<1> DEFINE k == job[w]
<1> USE DEF IInv
<1>1. k \in Job /\ lock[k] = w /\ Holds(w) /\ pc[w] = "save_status"
  BY HolderKnows DEF SaveStatus
<1>2. state[k] = "status" /\ Unblocked(k, "status")
  BY <1>1 DEF WorkerInv, StepInv, Fresh
<1>3. /\ \A j \in Job : state'[j] = IF j = k THEN "upload" ELSE state[j]
      /\ UNCHANGED <<jobId, cancel, result, acked, outbox, receipt, backend, shown>>
  BY <1>1 DEF SaveStatus, TypeOK
<1>4. ASSUME NEW j \in Job
      PROVE  Onward(j) /\ RowInv(j)' /\ OutcomeInv(j)' /\ PartsInv(j)'
  BY <1>2, <1>3 DEF JobsInv, Onward, RowInv, OutcomeInv, PartsInv, Evidence, NotUploaded, Decided
<1>5. OrdersInv'
  BY <1>1, <1>2, <1>3 DEF OrdersInv, OrderInv, Unblocked, Earlier, NotUploaded
<1>6. LocksInv' /\ OnlyOf(w) /\ WorkerInv(w)'
  BY ParkStep DEF SaveStatus
<1> QED
  BY <1>1, <1>3, <1>4, <1>5, <1>6, StepKeeps DEF JobsInv

LEMMA SaveSubmittedKeeps ==
  ASSUME IInv, TypeOK', NEW w \in Worker, SaveSubmitted(w)
  PROVE  IInv'
<1> DEFINE k == job[w]
<1> USE DEF IInv
<1>1. k \in Job /\ lock[k] = w /\ Holds(w) /\ pc[w] = "save_job"
  BY HolderKnows DEF SaveSubmitted
<1>2. state[k] = "upload" /\ Unblocked(k, "upload") /\ backend[k] # "none"
  BY <1>1 DEF WorkerInv, StepInv, AnswerInv, UploadPc, Fresh
<1>3. /\ \A j \in Job : state'[j] = IF j = k THEN "poll" ELSE state[j]
      /\ \A j \in Job : jobId'[j] = IF j = k THEN TRUE ELSE jobId[j]
      /\ UNCHANGED <<cancel, result, acked, outbox, receipt, backend, shown>>
  BY <1>1 DEF SaveSubmitted, TypeOK
<1>4. ASSUME NEW j \in Job
      PROVE  Onward(j) /\ RowInv(j)' /\ OutcomeInv(j)' /\ PartsInv(j)'
  BY <1>2, <1>3 DEF JobsInv, Onward, RowInv, OutcomeInv, PartsInv, Evidence, NotUploaded, Decided
<1>5. OrdersInv'
  BY <1>1, <1>2, <1>3 DEF OrdersInv, OrderInv, Unblocked, Earlier, NotUploaded
<1>6. LocksInv' /\ OnlyOf(w) /\ WorkerInv(w)'
  BY ParkStep DEF SaveSubmitted
<1> QED
  BY <1>1, <1>3, <1>4, <1>5, <1>6, StepKeeps DEF JobsInv

LEMMA SaveResultKeeps ==
  ASSUME IInv, TypeOK', NEW w \in Worker, SaveResult(w)
  PROVE  IInv'
<1> DEFINE k == job[w]
           o == outcome[w]
<1> USE DEF IInv
<1>1. k \in Job /\ lock[k] = w /\ Holds(w) /\ pc[w] = "save_result"
  BY HolderKnows DEF SaveResult
<1>2. RowInv(k) /\ OutcomeInv(k) /\ PartsInv(k) /\ WorkerInv(w)
  BY <1>1 DEF JobsInv
<1>3. /\ o = "invalid" => state[k] = "upload" /\ Unblocked(k, "upload") /\ k \in Rejected
      /\ o # "invalid" => state[k] = "poll"
      /\ o \in Outcome
  BY <1>1, <1>2 DEF WorkerInv, StepInv, AnswerInv, UploadPc, PollPc, Fresh, TypeOK
<1>4. /\ state[k] \notin Decided /\ state[k] \notin {"absent", "status"}
      /\ result[k] = "none" /\ outbox[k] = {} /\ shown[k] = {} /\ receipt[k] = {}
      /\ jobId[k] <=> o # "invalid"
  BY <1>2, <1>3 DEF RowInv, PartsInv, Decided, NotUploaded
<1>5. /\ \A j \in Job : state'[j] = IF j = k THEN "deliver" ELSE state[j]
      /\ \A j \in Job : result'[j] = IF j = k THEN o ELSE result[j]
      /\ \A j \in Job : acked'[j] = IF j = k THEN ~jobId[k] ELSE acked[j]
      /\ \A j \in Job : outbox'[j] = IF j = k THEN Plan(k, o) ELSE outbox[j]
      /\ UNCHANGED <<jobId, cancel, receipt, backend, shown>>
  BY <1>1, <1>4 DEF SaveResult, TypeOK
<1>6. ASSUME NEW j \in Job
      PROVE  Onward(j) /\ RowInv(j)' /\ OutcomeInv(j)' /\ PartsInv(j)'
  <2>1. CASE j # k
    <3>1. RowInv(j) /\ OutcomeInv(j) /\ PartsInv(j)
      BY DEF JobsInv
    <3>2. Onward(j) /\ PartsInv(j)'
      BY <1>5, <2>1, <3>1 DEF Onward, PartsInv
    <3>3. Plan(j, result[j])' = Plan(j, result[j])
      BY <1>5, <2>1 DEF Plan
    <3>4. RowInv(j)'
      BY <1>5, <2>1, <3>1, <3>3 DEF RowInv
    <3>5. OutcomeInv(j)'
      BY <1>5, <2>1, <3>1 DEF OutcomeInv, Evidence
    <3> QED
      BY <3>2, <3>4, <3>5
  <2>2. CASE j = k
    <3>1. Onward(j) /\ PartsInv(j)'
      BY <1>3, <1>4, <1>5, <2>2 DEF Onward, PartsInv, Decided, NotUploaded
    <3>2. RowInv(j)'
      BY <1>2, <1>3, <1>4, <1>5, <2>2 DEF RowInv, Decided, NotUploaded, Outcome
    <3>3. OutcomeInv(j)'
      BY <1>1, <1>2, <1>3, <1>5, <2>2
         DEF WorkerInv, AnswerInv, RowInv, OutcomeInv, Evidence, Outcome
    <3> QED
      BY <3>1, <3>2, <3>3
  <2> QED
    BY <2>1, <2>2
<1>7. OrdersInv'
  BY <1>1, <1>3, <1>5 DEF OrdersInv, OrderInv, Unblocked, Earlier, NotUploaded
<1>8. LocksInv' /\ OnlyOf(w) /\ WorkerInv(w)'
  BY ParkStep DEF SaveResult
<1> QED
  BY <1>1, <1>5, <1>6, <1>7, <1>8, StepKeeps DEF JobsInv

LEMMA SaveAckKeeps ==
  ASSUME IInv, TypeOK', NEW w \in Worker, SaveAck(w)
  PROVE  IInv'
<1> DEFINE k == job[w]
<1> USE DEF IInv
<1>1. k \in Job /\ lock[k] = w /\ Holds(w) /\ InStep(w) /\ pc[w] = "save_ack"
  BY HolderKnows DEF SaveAck
<1>2. state[k] = "deliver" /\ backend[k] \in {"released", "lost"}
  BY <1>1 DEF WorkerInv, StepInv, AnswerInv, DeliverPc, Fresh
<1>3. /\ \A j \in Job : acked'[j] = IF j = k THEN TRUE ELSE acked[j]
      /\ UNCHANGED <<state, jobId, cancel, result, outbox, receipt, backend, shown>>
      /\ pc' = [pc EXCEPT ![w] = "next"] /\ pc'[w] = "next"
      /\ UNCHANGED <<cand, job, part, outcome, lock>>
  BY <1>1 DEF SaveAck, Goto, TypeOK
<1>4. ASSUME NEW j \in Job
      PROVE  Onward(j) /\ RowInv(j)' /\ OutcomeInv(j)' /\ PartsInv(j)'
  BY <1>2, <1>3 DEF JobsInv, Onward, RowInv, OutcomeInv, PartsInv, Evidence, Decided
<1>5. OrdersInv'
  BY <1>3 DEF OrdersInv, OrderInv
<1>6. LocksInv' /\ OnlyOf(w)
  BY <1>1, <1>3, GotoStep DEF StorePc
<1>7. WorkerInv(w)'
  BY <1>1, <1>2, <1>3 DEF WorkerInv, CandInv, StepInv, AnswerInv, Fresh, InStep, UploadPc, PollPc,
                          DeliverPc, Stage, Decided
<1> QED
  BY <1>1, <1>3, <1>4, <1>5, <1>6, <1>7, StepKeeps DEF JobsInv

LEMMA SaveReceiptKeeps ==
  ASSUME IInv, TypeOK', NEW w \in Worker, SaveReceipt(w)
  PROVE  IInv'
<1> DEFINE k == job[w]
<1> USE DEF IInv
<1>1. k \in Job /\ lock[k] = w /\ Holds(w) /\ InStep(w) /\ pc[w] = "save_receipt"
  BY HolderKnows DEF SaveReceipt
<1>2. state[k] = "deliver" /\ part[w] \in shown[k]
  BY <1>1 DEF WorkerInv, StepInv, AnswerInv, DeliverPc, Fresh
<1>3. /\ \A j \in Job : receipt'[j] = IF j = k THEN receipt[j] \cup {part[w]} ELSE receipt[j]
      /\ UNCHANGED <<state, jobId, cancel, result, acked, outbox, backend, shown>>
      /\ pc' = [pc EXCEPT ![w] = pc'[w]] /\ pc'[w] \in {"retry", "complete"}
      /\ UNCHANGED <<cand, job, part, outcome, lock>>
  BY <1>1 DEF SaveReceipt, Goto, AfterPart, TypeOK
<1>4. ASSUME NEW j \in Job
      PROVE  Onward(j) /\ RowInv(j)' /\ OutcomeInv(j)' /\ PartsInv(j)'
  <2>1. RowInv(j) /\ OutcomeInv(j) /\ PartsInv(j)
    BY DEF JobsInv
  <2>2. Onward(j) /\ OutcomeInv(j)'
    BY <1>3, <2>1 DEF Onward, OutcomeInv, Evidence
  <2>3. RowInv(j)'
    BY <1>2, <1>3, <2>1 DEF RowInv
  <2>4. PartsInv(j)'
    BY <1>2, <1>3, <2>1 DEF PartsInv
  <2> QED
    BY <2>2, <2>3, <2>4
<1>5. OrdersInv'
  BY <1>3 DEF OrdersInv, OrderInv
<1>6. LocksInv' /\ OnlyOf(w)
  BY <1>1, <1>3, GotoStep DEF StorePc
<1>7. WorkerInv(w)'
  BY <1>1, <1>2, <1>3 DEF WorkerInv, CandInv, StepInv, AnswerInv, Fresh, InStep, UploadPc, PollPc,
                          DeliverPc, Stage, Decided
<1> QED
  BY <1>1, <1>3, <1>4, <1>5, <1>6, <1>7, StepKeeps DEF JobsInv

LEMMA CompleteKeeps ==
  ASSUME IInv, TypeOK', NEW w \in Worker, Complete(w)
  PROVE  IInv'
<1> DEFINE k == job[w]
<1> USE DEF IInv
<1>1. k \in Job /\ lock[k] = w /\ Holds(w) /\ pc[w] = "complete"
  BY HolderKnows DEF Complete
<1>2. state[k] = "deliver"
  BY <1>1 DEF WorkerInv, StepInv, DeliverPc, Fresh
<1>3. /\ \A j \in Job : state'[j] = IF j = k /\ acked[k] /\ Pending(k) = {} THEN "done" ELSE state[j]
      /\ UNCHANGED <<jobId, cancel, result, acked, outbox, receipt, backend, shown>>
  BY <1>1 DEF Complete, MayComplete, TypeOK
<1>4. ASSUME NEW j \in Job
      PROVE  Onward(j) /\ RowInv(j)' /\ OutcomeInv(j)' /\ PartsInv(j)'
  <2>1. RowInv(j) /\ OutcomeInv(j) /\ PartsInv(j)
    BY DEF JobsInv
  <2>2. Pending(j) = {} => receipt[j] = outbox[j]
    BY <2>1 DEF Pending, PartsInv
  <2> QED
    BY <1>2, <1>3, <2>1, <2>2
       DEF Onward, RowInv, OutcomeInv, PartsInv, Evidence, NotUploaded, Decided
<1>5. OrdersInv'
  BY <1>2, <1>3 DEF OrdersInv, OrderInv, NotUploaded
<1>6. LocksInv' /\ OnlyOf(w) /\ WorkerInv(w)'
  BY ParkStep DEF Complete
<1> QED
  BY <1>1, <1>3, <1>4, <1>5, <1>6, StepKeeps DEF JobsInv

(* Time, users, the backend and admission. *)
LEMMA SurroundingsKeep ==
  ASSUME IInv, TypeOK', NEW k \in Job, Surroundings(k)
  PROVE  IInv'
<1> USE DEF IInv
<1>1. UNCHANGED <<lock, localVars>> /\ \A j \in Job : lock[j] # NoWorker => state'[j] = state[j]
  BY DEF Surroundings, Admit, RequestCancel, BecomeDue, BackendFinishes, BackendForgets,
         DeleteStatusMessage, TypeOK, LocksInv, WorkerInv, StepInv
<1>2. LocksInv'
  BY <1>1 DEF LocksInv, InStep
<1>3. \A v \in Worker : Undisturbed(v)
  BY <1>1, JobAssumption DEF Undisturbed
<1>4. (\A j \in Job : Onward(j)) /\ JobsInv' /\ OrdersInv'
  <2>1. CASE BecomeDue(k) \/ DeleteStatusMessage(k)
    BY <2>1, LocalStep DEF BecomeDue, DeleteStatusMessage
  <2>2. CASE Admit(k)
    <3>1. /\ state[k] = "absent" /\ \A e \in Job : e < k => state[e] # "absent"
          /\ \A j \in Job : state'[j] = IF j = k THEN "status" ELSE state[j]
          /\ UNCHANGED <<jobId, cancel, result, acked, outbox, receipt, backend, shown>>
      BY <2>2 DEF Admit, TypeOK
    <3>2. ASSUME NEW j \in Job
          PROVE  Onward(j) /\ RowInv(j)' /\ OutcomeInv(j)' /\ PartsInv(j)'
      BY <3>1 DEF JobsInv, Onward, RowInv, OutcomeInv, PartsInv, Evidence, NotUploaded, Decided
    <3>3. OrdersInv'
      <4> SUFFICES ASSUME NEW e \in Job, NEW j \in Job, e < j
                   PROVE  OrderInv(e, j)'
        BY DEF OrdersInv
      <4>1. OrderInv(e, j) /\ (state[k] = "absent" => backend[k] = "none")
        BY DEF OrdersInv, JobsInv, RowInv
      <4>2. CASE j = k
        BY <3>1, <4>1, <4>2 DEF OrderInv, NotUploaded
      <4>3. CASE j # k
        BY <3>1, <4>1, <4>3 DEF OrderInv, NotUploaded, JobsInv, RowInv
      <4> QED
        BY <4>2, <4>3
    <3> QED
      BY <3>2, <3>3 DEF JobsInv
  <2>3. ASSUME NEW c \in Chat, RequestCancel(k, c)
        PROVE  (\A j \in Job : Onward(j)) /\ JobsInv' /\ OrdersInv'
    <3>1. /\ \A j \in Job : cancel[j] => cancel'[j]
          /\ UNCHANGED <<state, jobId, result, acked, outbox, receipt, backend, shown>>
      BY <2>3 DEF RequestCancel, TypeOK
    <3>2. ASSUME NEW j \in Job
          PROVE  Onward(j) /\ RowInv(j)' /\ OutcomeInv(j)' /\ PartsInv(j)'
      BY <3>1 DEF JobsInv, Onward, RowInv, OutcomeInv, PartsInv, Evidence
    <3>3. OrdersInv'
      BY <3>1 DEF OrdersInv, OrderInv
    <3> QED
      BY <3>2, <3>3 DEF JobsInv
  <2>4. CASE BackendFinishes(k) \/ BackendForgets(k)
    <3>1. /\ \A j \in Job : \/ backend'[j] = backend[j]
                            \/ /\ backend[j] \in {"active", "cancelling"}
                               /\ backend'[j] \in {"done", "failed", "cancelled"}
                               /\ backend'[j] = "cancelled" => backend[j] = "cancelling"
                            \/ backend[j] \notin {"none", "released"} /\ backend'[j] = "lost"
          /\ UNCHANGED <<rowVars, shown>>
      BY <2>4 DEF BackendFinishes, BackendForgets, TypeOK
    <3>2. ASSUME NEW j \in Job
          PROVE  Onward(j) /\ RowInv(j)' /\ OutcomeInv(j)' /\ PartsInv(j)'
      <4>1. RowInv(j) /\ OutcomeInv(j) /\ PartsInv(j) /\ result[j] \in Outcome \cup {"none"}
        BY DEF JobsInv, TypeOK
      <4>2. Onward(j) /\ PartsInv(j)'
        BY <3>1, <4>1 DEF Onward, PartsInv
      <4>3. RowInv(j)'
        BY <3>1, <4>1 DEF RowInv
      <4>4. OutcomeInv(j)'
        BY <3>1, <4>1 DEF OutcomeInv, Evidence, BackendState, Outcome
      <4> QED
        BY <4>2, <4>3, <4>4
    <3>3. OrdersInv'
      BY <3>1 DEF OrdersInv, OrderInv
    <3> QED
      BY <3>2, <3>3 DEF JobsInv
  <2> QED
    BY <2>1, <2>2, <2>3, <2>4 DEF Surroundings
<1> QED
  BY <1>2, <1>3, <1>4, OutsideKeeps

----------------------------------------------------------------------------
(* The inductive invariant. *)

LEMMA InitInvariant == Init => IInv
<1> SUFFICES ASSUME Init
             PROVE  IInv
  OBVIOUS
<1>1. TypeOK
  BY JobAssumption DEF Init, TypeOK, PartNumber, BackendState, Screen, NoJob
<1>2. LocksInv
  BY DEF Init, LocksInv, InStep, CallPc, StorePc
<1>3. JobsInv
  BY DEF Init, JobsInv, RowInv, OutcomeInv, PartsInv, Evidence, BackendState, NotUploaded, Decided
<1>4. OrdersInv
  BY DEF Init, OrdersInv, OrderInv, NotUploaded
<1>5. \A w \in Worker : WorkerInv(w)
  BY DEF Init, WorkerInv, CandInv, StepInv, AnswerInv, InStep, UploadPc, PollPc, DeliverPc,
         Stage, CallPc, StorePc
<1> QED
  BY <1>1, <1>2, <1>3, <1>4, <1>5 DEF IInv

LEMMA NextInvariant == IInv /\ [Next]_vars => IInv'
<1> SUFFICES ASSUME IInv, [Next]_vars
             PROVE  IInv'
  OBVIOUS
<1>1. TypeOK'
  BY TypeInvariant DEF IInv
<1>2. CASE UNCHANGED vars
  <2>1. LocksInv' /\ \A v \in Worker : Undisturbed(v)
    BY <1>2 DEF IInv, LocksInv, InStep, Undisturbed
  <2> QED
    BY <1>1, <1>2, <2>1, LocalStep, OutsideKeeps DEF IInv
<1>3. ASSUME NEW w \in Worker, NEW j \in Job, NEW p \in outbox[j], PickPart(w, p)
      PROVE  IInv'
  <2>1. p \in PartNumber
    BY DEF IInv, TypeOK
  <2> QED
    BY <1>1, <1>3, <2>1, PickPartKeeps
<1>4. ASSUME NEW w \in Worker, WorkerStep(w)
      PROVE  IInv'
  BY <1>1, <1>3, <1>4, ListCandidatesKeeps, SkipCandidateKeeps, ClaimKeeps, QueryKeeps,
     SubmitRejectedKeeps, MoveKeeps, CallKeeps, EndKeeps, SaveStatusKeeps,
     SaveSubmittedKeeps, SaveResultKeeps, SaveAckKeeps, SaveReceiptKeeps, CompleteKeeps, Zenon
     DEF WorkerStep
<1>5. ASSUME NEW w \in Worker, EditUploadProgress(w) \/ WorkerFault(w)
      PROVE  IInv'
  BY <1>1, <1>5, UnnoticedKeeps, CallKeeps, MoveKeeps, EndKeeps DEF WorkerFault
<1>6. ASSUME NEW j \in Job, Surroundings(j)
      PROVE  IInv'
  BY <1>1, <1>6, SurroundingsKeep
<1> QED
  BY <1>2, <1>4, <1>5, <1>6 DEF Next, Quiescent

(* What the invariant says of users and of the backend. *)
LEMMA InvariantImplies ==
  IInv => /\ AckAfterDurable /\ ResultTruthful /\ DoneIsComplete
          /\ FifoPerChat /\ PartsInOrder
<1> SUFFICES ASSUME IInv
             PROVE  /\ AckAfterDurable /\ ResultTruthful /\ DoneIsComplete
                    /\ FifoPerChat /\ PartsInOrder
  OBVIOUS
<1> USE DEF IInv
<1>1. ASSUME NEW j \in Job
      PROVE  /\ RowInv(j) /\ OutcomeInv(j) /\ PartsInv(j)
             /\ result[j] \in Outcome \cup {"none"} /\ outbox[j] \in SUBSET PartNumber
  BY DEF JobsInv, TypeOK
<1>2. AckAfterDurable
  BY <1>1 DEF AckAfterDurable, RowInv, OutcomeInv, Evidence
<1>3. ResultTruthful
  BY <1>1 DEF ResultTruthful, OutcomeInv
<1>4. DoneIsComplete
  BY <1>1 DEF DoneIsComplete, RowInv, PartsInv, Decided
<1>5. FifoPerChat
  BY DEF FifoPerChat, Earlier, OrdersInv, OrderInv, NotUploaded
<1>6. PartsInOrder
  BY <1>1 DEF PartsInOrder, PartsInv
<1> QED
  BY <1>2, <1>3, <1>4, <1>5, <1>6

LEMMA InvariantHolds == Spec => []IInv
  BY InitInvariant, NextInvariant, PTL DEF Spec

(* The backend drops a job only after its outcome and its delivery plan are *)
(* in the database, however many processes run, crash and lose connections. *)
THEOREM AckSafety == Spec => []AckAfterDurable
  BY InvariantHolds, InvariantImplies, PTL

(* No job is reported missing, cancelled, failed or transcribed unless it   *)
(* was.                                                                    *)
THEOREM ResultSafety == Spec => []ResultTruthful
  BY InvariantHolds, InvariantImplies, PTL

(* A finished job has shown and confirmed all its parts, and has left       *)
(* nothing at the backend.                                                 *)
THEOREM DoneSafety == Spec => []DoneIsComplete
  BY InvariantHolds, InvariantImplies, PTL

(* Status messages and uploads keep the order of their chat. *)
THEOREM FifoSafety == Spec => []FifoPerChat
  BY InvariantHolds, InvariantImplies, PTL

(* The parts of a transcript are shown in order, from the outbox only, and  *)
(* confirmed only when they have been shown.                               *)
THEOREM DeliverySafety == Spec => []PartsInOrder
  BY InvariantHolds, InvariantImplies, PTL

----------------------------------------------------------------------------
(* Progress. *)

(* Every set of jobs that is not empty has a first one. *)
LEMMA FirstOf ==
  ASSUME NEW T \in SUBSET Job, T # {}
  PROVE  \E e \in T : \A d \in T : ~(d < e)
<1>1. T \subseteq Nat
  BY JobAssumption
<1>2. \E e \in T : \A d \in T : <<d, e>> \notin OpToRel(<, Nat)
  BY <1>1, WFMin, NatLessThanWellFounded
<1>3. ASSUME NEW d \in T, NEW e \in T, d < e
      PROVE  <<d, e>> \in OpToRel(<, Nat)
  BY <1>1, <1>3 DEF OpToRel
<1> QED
  BY <1>2, <1>3

(* A job waits for nothing but an earlier one in status or upload, and the *)
(* first of those waits for none.                                          *)
LEMMA InvariantMoves == IInv => NobodyStuck
<1> SUFFICES ASSUME IInv, NEW j \in Job, state[j] \in Stage
             PROVE  \E e \in Job : (e = j \/ Earlier(e, j)) /\ state[e] \in Stage /\ Moving(e)
  BY DEF NobodyStuck
<1> USE DEF IInv
<1>1. ASSUME NEW e \in Job, lock[e] # NoWorker
      PROVE  Moving(e)
  BY <1>1 DEF LocksInv, TypeOK, Moving, Holds
<1>2. ASSUME NEW e \in Job, state[e] \in Stage,
             state[e] \in {"status", "upload"} => ~Blocked(e, state[e])
      PROVE  Moving(e)
  BY <1>1, <1>2 DEF Moving, Candidates, TypeOK
<1>3. CASE state[j] \notin {"status", "upload"}
  BY <1>2, <1>3
<1>4. CASE state[j] \in {"status", "upload"}
  <2> DEFINE T == {e \in Job : (e = j \/ Earlier(e, j)) /\ state[e] \in {"status", "upload"}}
  <2>1. PICK e \in T : \A d \in T : ~(d < e)
    BY <1>4, FirstOf
  <2>2. ASSUME NEW d \in Job, Earlier(d, e), state[d] \in {"status", "upload"}
        PROVE  FALSE
    <3>1. d < j /\ ChatOf[d] = ChatOf[j]
      BY <2>2, JobAssumption DEF Earlier
    <3>2. d \in T
      BY <2>2, <3>1 DEF Earlier
    <3> QED
      BY <2>1, <2>2, <3>2 DEF Earlier
  <2>3. ~Blocked(e, state[e])
    BY <2>2 DEF Blocked, Earlier
  <2>4. state[e] \in Stage
    BY DEF Stage
  <2> QED
    BY <1>2, <2>3, <2>4
<1> QED
  BY <1>3, <1>4

(* Of any number of jobs, chats and workers, none is ever stuck: behind a  *)
(* lock nobody gives back, or in a circle of jobs that wait.  With the     *)
(* fairness of the loops this is what AcceptedEventuallyDone rests on.     *)
THEOREM ProgressSafety == Spec => []NobodyStuck
  BY InvariantHolds, InvariantMoves, PTL

----------------------------------------------------------------------------
(* What a step may do to a row. *)

(* The stages a row may pass to. *)
Onwards(s) ==
  CASE s = "absent" -> {"status"}
    [] s = "status" -> {"upload"}
    [] s = "upload" -> {"poll", "deliver"}
    [] s = "poll" -> {"deliver"}
    [] s = "deliver" -> {"done"}
    [] OTHER -> {}

LEMMA RowChanges ==
  ASSUME IInv, Next, NEW j \in Job
  PROVE  /\ state'[j] = state[j] \/ state'[j] \in Onwards(state[j])
         /\ result[j] # "none" => result'[j] = result[j] /\ outbox'[j] = outbox[j]
<1> USE DEF IInv
<1> DEFINE Kept == state'[j] = state[j] /\ result'[j] = result[j] /\ outbox'[j] = outbox[j]
<1>1. ASSUME NEW w \in Worker, SaveStatus(w)
      PROVE  state[job[w]] = "status" /\ job[w] \in Job
  BY <1>1, HolderKnows DEF SaveStatus, WorkerInv, StepInv, Fresh
<1>2. ASSUME NEW w \in Worker, SaveSubmitted(w)
      PROVE  state[job[w]] = "upload" /\ job[w] \in Job
  BY <1>2, HolderKnows DEF SaveSubmitted, WorkerInv, StepInv, Fresh, UploadPc
<1>3. ASSUME NEW w \in Worker, SaveResult(w)
      PROVE  state[job[w]] \in {"upload", "poll"} /\ result[job[w]] = "none" /\ job[w] \in Job
  <2>1. job[w] \in Job /\ Holds(w) /\ pc[w] = "save_result"
    BY <1>3, HolderKnows DEF SaveResult
  <2>2. state[job[w]] \in {"upload", "poll"}
    BY <2>1 DEF WorkerInv, StepInv, Fresh, UploadPc, PollPc
  <2> QED
    BY <2>1, <2>2 DEF JobsInv, RowInv, Decided
<1>4. ASSUME NEW w \in Worker, Complete(w)
      PROVE  state[job[w]] = "deliver" /\ job[w] \in Job
  BY <1>4, HolderKnows DEF Complete, WorkerInv, StepInv, Fresh, DeliverPc
<1>5. ASSUME NEW w \in Worker, WorkerStep(w),
             ~SaveStatus(w), ~SaveSubmitted(w), ~SaveResult(w), ~Complete(w)
      PROVE  Kept
  BY <1>5 DEF WorkerStep, ListCandidates, SkipCandidate, Claim, SendStatus, Submit,
       SubmitRejected, CallCancel, QueryActive, QueryTerminal, EditProgress, Reschedule,
       CallAck, SaveAck, PickPart, NoPartLeft, SendPart, SaveReceipt, Retry, FencedOut
<1>6. ASSUME NEW w \in Worker, EditUploadProgress(w) \/ WorkerFault(w)
      PROVE  Kept
  BY <1>6 DEF WorkerFault, EditUploadProgress, CallFails, StoreFails, IterationFails, Crash,
              LoseConnection
<1>7. ASSUME NEW k \in Job, Surroundings(k), ~Admit(k)
      PROVE  Kept
  BY <1>7 DEF Surroundings, RequestCancel, BecomeDue, BackendFinishes, BackendForgets,
              DeleteStatusMessage
<1>8. ASSUME NEW w \in Worker, SaveStatus(w) \/ SaveSubmitted(w) \/ Complete(w)
      PROVE  /\ state'[j] = state[j] \/ state'[j] \in Onwards(state[j])
             /\ result'[j] = result[j] /\ outbox'[j] = outbox[j]
  <2>1. CASE SaveStatus(w)
    BY <1>1, <2>1 DEF SaveStatus, Onwards, TypeOK
  <2>2. CASE SaveSubmitted(w)
    BY <1>2, <2>2 DEF SaveSubmitted, Onwards, TypeOK
  <2>3. CASE Complete(w)
    BY <1>4, <2>3 DEF Complete, Onwards, TypeOK
  <2> QED
    BY <1>8, <2>1, <2>2, <2>3
<1>9. ASSUME NEW w \in Worker, SaveResult(w)
      PROVE  /\ state'[j] = state[j] \/ state'[j] \in Onwards(state[j])
             /\ result[j] # "none" => result'[j] = result[j] /\ outbox'[j] = outbox[j]
  <2>1. state'[j] = state[j] \/ state'[j] \in Onwards(state[j])
    BY <1>3, <1>9 DEF SaveResult, Onwards, TypeOK
  <2>2. result[j] # "none" => j # job[w]
    BY <1>3, <1>9
  <2>3. j # job[w] => result'[j] = result[j] /\ outbox'[j] = outbox[j]
    BY <1>9 DEF SaveResult, TypeOK
  <2> QED
    BY <2>1, <2>2, <2>3
<1>10. CASE \E k \in Job : Admit(k)
  BY <1>10 DEF Admit, Onwards, TypeOK
<1>11. CASE Quiescent
  BY <1>11 DEF Quiescent
<1> QED
  BY <1>5, <1>6, <1>7, <1>8, <1>9, <1>10, <1>11 DEF Next

(* Every rune of a text is in the part its position falls into... *)
LEMMA SplitCovers ==
  ASSUME NEW n \in Nat, NEW r \in 1 .. n
  PROVE  \E p \in SplitText(n) : p * MaxMsgRunes < r /\ r <= (p + 1) * MaxMsgRunes
<1> DEFINE M == MaxMsgRunes
           p == (r - 1) \div M
<1>1. M \in Nat /\ M > 0
  BY JobAssumption
<1>2. p \in Nat /\ M * p <= r - 1 /\ r - 1 < M * p + M
  <2> HIDE DEF M
  <2> QED
    BY <1>1
<1> HIDE DEF p
<1>3. p * M < r /\ r <= (p + 1) * M
  <2> HIDE DEF M
  <2>1. p * M = M * p /\ (p + 1) * M = M * p + M /\ M * p \in Nat
    BY <1>1, <1>2
  <2> QED
    BY <1>1, <1>2, <2>1
<1>4. p \in 0 .. n /\ p * M < n
  <2> HIDE DEF M
  <2>1. p <= M * p
    BY <1>1, <1>2
  <2> QED
    BY <1>1, <1>2, <1>3, <2>1
<1> QED
  BY <1>3, <1>4 DEF SplitText

(* ... and in no other one. *)
LEMMA SplitDisjoint ==
  ASSUME NEW p \in Nat, NEW q \in Nat, NEW r \in Nat,
         p * MaxMsgRunes < r, r <= (p + 1) * MaxMsgRunes,
         q * MaxMsgRunes < r, r <= (q + 1) * MaxMsgRunes
  PROVE  p = q
<1> DEFINE M == MaxMsgRunes
<1>1. M \in Nat
  BY JobAssumption
<1>2. ASSUME NEW a \in Nat, NEW b \in Nat, a < b
      PROVE  (a + 1) * M <= b * M
  <2> HIDE DEF M
  <2> QED
    BY <1>1, <1>2
<1>3. ~(p < q) /\ ~(q < p)
  <2>1. ASSUME p < q PROVE FALSE
    BY <1>1, <1>2, <2>1
  <2>2. ASSUME q < p PROVE FALSE
    BY <1>1, <1>2, <2>2
  <2> QED
    BY <2>1, <2>2
<1> QED
  BY <1>3

(* A finished transcript has been given to Telegram: every rune in exactly *)
(* one message, and no message empty.                                      *)
THEOREM TranscriptSafety == Spec => []TranscriptComplete
<1>1. ASSUME IInv, NEW j \in Job, state[j] = "done", result[j] = "text"
      PROVE  /\ \A r \in 1 .. TextRunes[j] :
                  \E p \in shown[j] : \A q \in shown[j] : r \in Runes(j, q) <=> q = p
             /\ \A p \in shown[j] : Runes(j, p) = {} => TextRunes[j] = 0 \/ j \in Lecture
  <2> DEFINE n == TextRunes[j]
  <2>1. n \in Nat /\ MaxMsgRunes \in Nat \ {0}
    BY JobAssumption
  <2>2. shown[j] = Plan(j, "text") /\ shown[j] \subseteq Nat
    BY <1>1, PlanType DEF IInv, JobsInv, RowInv, PartsInv, PartNumber
  <2>3. CASE j \in Lecture
    <3>1. shown[j] = {0, 1}
      BY <2>2, <2>3 DEF Plan
    <3>2. ASSUME NEW r \in 1 .. n
          PROVE  \A q \in shown[j] : r \in Runes(j, q) <=> q = 1
      BY <2>3, <3>1 DEF Runes
    <3> QED
      BY <2>3, <3>1, <3>2
  <2>4. CASE j \notin Lecture
    <3>1. shown[j] = SplitText(n)
      BY <2>2, <2>4 DEF Plan
    <3>2. ASSUME NEW r \in 1 .. n
          PROVE  \E p \in shown[j] : \A q \in shown[j] : r \in Runes(j, q) <=> q = p
      <4>1. PICK p \in shown[j] : p * MaxMsgRunes < r /\ r <= (p + 1) * MaxMsgRunes
        BY <2>1, <3>1, SplitCovers
      <4>2. ASSUME NEW q \in shown[j]
            PROVE  r \in Runes(j, q) <=> q = p
        BY <2>2, <2>4, <4>1, SplitDisjoint DEF Runes
      <4> QED
        BY <4>2
    <3>3. ASSUME NEW p \in shown[j], n # 0
          PROVE  p * MaxMsgRunes + 1 \in Runes(j, p)
      <4>1. p \in Nat /\ p * MaxMsgRunes < n
        BY <2>1, <2>2, <3>1, <3>3 DEF SplitText
      <4>2. p * MaxMsgRunes \in Nat /\ (p + 1) * MaxMsgRunes = p * MaxMsgRunes + MaxMsgRunes
        BY <2>1, <4>1
      <4> QED
        BY <2>1, <2>4, <4>1, <4>2 DEF Runes
    <3> QED
      BY <3>2, <3>3
  <2> QED
    BY <2>3, <2>4
<1>2. IInv => TranscriptComplete
  BY <1>1 DEF TranscriptComplete
<1> QED
  BY <1>2, InvariantHolds, PTL

(* A worker that lost its lock cannot take a job back to an earlier stage,  *)
(* and neither it nor anybody else rewrites a stored outcome or its plan.  *)
THEOREM RowsOnlyAdvance == Spec => NothingStale
<1>1. ASSUME IInv, Next, NEW j \in Job
      PROVE  /\ StageRank[state[j]] <= StageRank[state'[j]]
             /\ result[j] # "none" => result'[j] = result[j] /\ outbox'[j] = outbox[j]
  <2>1. state[j] \in Stage \cup {"absent", "done"}
    BY <1>1 DEF IInv, TypeOK
  <2>2. state'[j] = state[j] \/ state'[j] \in Onwards(state[j])
    BY <1>1, RowChanges
  <2>3. StageRank[state[j]] <= StageRank[state'[j]]
    BY <2>1, <2>2 DEF Onwards, StageRank, Stage
  <2> QED
    BY <1>1, <2>3, RowChanges
<1>2. IInv /\ [Next]_vars =>
        [\A j \in Job :
           /\ StageRank[state[j]] <= StageRank[state'[j]]
           /\ result[j] # "none" => result'[j] = result[j] /\ outbox'[j] = outbox[j]]_vars
  BY <1>1
<1> QED
  BY <1>2, InvariantHolds, PTL DEF Spec, NothingStale
=============================================================================

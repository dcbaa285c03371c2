---------------------------- MODULE DurableJobs ----------------------------
(***************************************************************************)
(* The durable job pipeline: bot/bot/durable.go (workLoop, step, deliver)  *)
(* over bot/store/durable.go (WithWork, Work) and its SQL.                 *)
(*                                                                         *)
(* A transcription job is a PostgreSQL row that moves                      *)
(*      status -> upload -> poll -> deliver -> done.                       *)
(* Work loops list the due rows of a stage, take the session advisory lock *)
(* of one of them, read it again under the lock and run the stage: calls   *)
(* to Telegram and to the Whisper backend, and writes that go through the  *)
(* very connection that owns the lock.  Losing that connection releases    *)
(* the lock in the server while the loop, unaware of it, goes on until its *)
(* next statement fails.                                                   *)
(*                                                                         *)
(* A Worker stands for one iteration of a work loop, of any stage and of   *)
(* any process: loops keep nothing between iterations.                     *)
(***************************************************************************)
EXTENDS Integers

CONSTANTS
  Job,        \* the updates that carry authorized media, by update id
  Chat,       \* chats
  ChatOf,     \* the chat of each job
  TextRunes,  \* how many runes the text of each job has, 0 for silence
  MaxMsgRunes, \* how many of them fit into one message
  Lecture,    \* the jobs with preset "lecture"
  Rejected,   \* the jobs whose media the backend refuses (InvalidArgument)
  Worker,     \* iterations of work loops that may run at the same time
  NoWorker,   \* the holder of a free lock
  FaultKinds, \* the kinds of faults that may happen
  MaxFaults   \* bound: how many faults happen

ASSUME JobAssumption ==
  /\ Job \subseteq Nat \ {0}
  /\ ChatOf \in [Job -> Chat]
  /\ TextRunes \in [Job -> Nat]
  /\ MaxMsgRunes \in Nat \ {0}
  /\ Lecture \subseteq Job
  /\ Rejected \subseteq Job
  /\ NoWorker \notin Worker
  /\ FaultKinds \subseteq {"call", "store", "crash", "loss", "forget", "delete"}
  /\ MaxFaults \in Nat

NoJob == 0

Stage == {"status", "upload", "poll", "deliver"}

(* The terminal results that resultParts distinguishes. *)
Outcome == {"text", "failed", "cancelled", "missing", "invalid"}

BackendState == {"none", "active", "cancelling", "done", "failed", "cancelled",
                 "released", "lost"}

(* What the status message recorded in the row shows. *)
Screen == {"none", "queued", "progress", "final", "gone"}

(* Where a step is: a call to Telegram or to the backend is in progress... *)
CallPc == {"send_status", "submit", "cancel", "query", "edit_progress", "ack", "send"}

(* ... or a statement on the connection that owns the lock is next. *)
StorePc == {"save_status", "save_job", "save_result", "reschedule", "save_ack",
            "next", "save_receipt", "complete", "retry"}

VARIABLES
  (* the row of each job, transcription_jobs and transcription_deliveries *)
  state,     \* "absent" before the row exists
  due,       \* next_attempt_at <= now()
  jobId,     \* whether job_id is recorded
  cancel,    \* cancel_requested
  result,    \* the stored outcome
  acked,     \* acknowledged
  outbox,    \* the delivery parts of the row
  receipt,   \* the parts marked delivered
  lock,      \* the worker whose session owns the job's advisory lock
  (* the local state of each worker *)
  pc, cand, job, part, outcome, ackErr,
  (* the outside world *)
  backend,   \* the backend's job for the request id of each job
  screen,    \* the status message of each job
  shown,     \* the parts Telegram has been given at least once
  faults

rowVars == <<state, due, jobId, cancel, result, acked, outbox, receipt>>
localVars == <<pc, cand, job, part, outcome, ackErr>>
outsideVars == <<backend, screen, shown>>
vars == <<rowVars, lock, localVars, outsideVars, faults>>

(* Mutant of SplitText: a part is cut off before the rest is looked at. *)
SplitTextLate(n) == {p \in 0 .. n : p * MaxMsgRunes <= n}

(* splitText: the first part is always there ("silence" takes the place of *)
(* an empty text); part p follows while p * MaxMsgRunes runes are not all. *)
SplitText(n) == {p \in 0 .. n : p = 0 \/ p * MaxMsgRunes < n}

(* Mutant of Plan: the parts are counted from one too few. *)
PlanOffByOne(j, o) == IF o = "text" THEN {p - 1 : p \in SplitText(TextRunes[j])} ELSE {0}

(* The parts resultParts plans for an outcome: every failure is one edit,  *)
(* a lecture is an edit and a document.                                    *)
Plan(j, o) ==
  CASE o # "text" -> {0}
    [] o = "text" /\ j \in Lecture -> {0, 1}
    [] OTHER -> SplitText(TextRunes[j])

(* The runes of the text of j that part p of its plan carries. *)
Runes(j, p) ==
  {r \in 1 .. TextRunes[j] :
     IF j \in Lecture THEN p = 1 ELSE p * MaxMsgRunes < r /\ r <= (p + 1) * MaxMsgRunes}

PartNumber == Nat

TypeOK ==
  /\ state \in [Job -> Stage \cup {"absent", "done"}]
  /\ due \in [Job -> BOOLEAN]
  /\ jobId \in [Job -> BOOLEAN]
  /\ cancel \in [Job -> BOOLEAN]
  /\ result \in [Job -> Outcome \cup {"none"}]
  /\ acked \in [Job -> BOOLEAN]
  /\ outbox \in [Job -> SUBSET PartNumber]
  /\ receipt \in [Job -> SUBSET PartNumber]
  /\ lock \in [Job -> Worker \cup {NoWorker}]
  /\ pc \in [Worker -> {"idle"} \cup Stage \cup CallPc \cup StorePc]
  /\ cand \in [Worker -> SUBSET Job]
  /\ job \in [Worker -> Job \cup {NoJob}]
  /\ part \in [Worker -> PartNumber]
  /\ outcome \in [Worker -> Outcome \cup {"none"}]
  /\ ackErr \in [Worker -> BOOLEAN]
  /\ backend \in [Job -> BackendState]
  /\ screen \in [Job -> Screen]
  /\ shown \in [Job -> SUBSET PartNumber]
  /\ faults \in 0 .. MaxFaults

Init ==
  /\ state = [j \in Job |-> "absent"]
  /\ due = [j \in Job |-> FALSE]
  /\ jobId = [j \in Job |-> FALSE]
  /\ cancel = [j \in Job |-> FALSE]
  /\ result = [j \in Job |-> "none"]
  /\ acked = [j \in Job |-> FALSE]
  /\ outbox = [j \in Job |-> {}]
  /\ receipt = [j \in Job |-> {}]
  /\ lock = [j \in Job |-> NoWorker]
  /\ pc = [w \in Worker |-> "idle"]
  /\ cand = [w \in Worker |-> {}]
  /\ job = [w \in Worker |-> NoJob]
  /\ part = [w \in Worker |-> 0]
  /\ outcome = [w \in Worker |-> "none"]
  /\ ackErr = [w \in Worker |-> FALSE]
  /\ backend = [j \in Job |-> "none"]
  /\ screen = [j \in Job |-> "none"]
  /\ shown = [j \in Job |-> {}]
  /\ faults = 0

----------------------------------------------------------------------------
(* Sessions and locks. *)

InStep(w) == pc[w] \in CallPc \cup StorePc

(* The connection of w is alive: its session still owns the lock. *)
Holds(w) == InStep(w) /\ lock[job[w]] = w

(* Mutant of Unlock: an early return leaves the lock with the session. *)
UnlockLeaks(w) == UNCHANGED lock

(* unlock: a session can only give up a lock it still owns. *)
Unlock(w) ==
  lock' = [j \in Job |-> IF j = job[w] /\ lock[j] = w THEN NoWorker ELSE lock[j]]

(* The iteration of the loop is over. *)
Park(w) ==
  /\ pc' = [pc EXCEPT ![w] = "idle"]
  /\ cand' = [cand EXCEPT ![w] = {}]
  /\ job' = [job EXCEPT ![w] = NoJob]
  /\ part' = [part EXCEPT ![w] = 0]
  /\ outcome' = [outcome EXCEPT ![w] = "none"]
  /\ ackErr' = [ackErr EXCEPT ![w] = FALSE]

Finish(w) == Park(w) /\ Unlock(w)

Goto(w, where) ==
  /\ pc' = [pc EXCEPT ![w] = where]
  /\ UNCHANGED <<cand, job, part, outcome, ackErr, lock>>

(* Mutant of AtStore: a write goes through any connection of the pool. *)
AtStoreUnfenced(w, where) == pc[w] = where

(* A statement of w reaches the database: pc and a live connection. *)
AtStore(w, where) == pc[w] = where /\ Holds(w)

----------------------------------------------------------------------------
(* Claiming work. *)

(* Mutant of Blocked: only the status stage is ordered. *)
BlockedByStatus(j, s) ==
  \E e \in Job :
    /\ e < j
    /\ ChatOf[e] = ChatOf[j]
    /\ state[e] = "status"

(* job_candidates.sql: an earlier job of the chat is not past this stage. *)
Blocked(j, s) ==
  \E e \in Job :
    /\ e < j
    /\ ChatOf[e] = ChatOf[j]
    /\ state[e] \in {"status", "upload"}
    /\ state[e] = s \/ (s = "upload" /\ state[e] = "status")

Candidates(s) ==
  {j \in Job : /\ state[j] = s
               /\ due[j]
               /\ s \in {"status", "upload"} => ~Blocked(j, s)}

(* WithWork reads the list of candidates on a connection of its own... *)
ListCandidates(w, s) ==
  /\ pc[w] = "idle"
  /\ Candidates(s) # {}
  /\ cand' = [cand EXCEPT ![w] = Candidates(s)]
  /\ pc' = [pc EXCEPT ![w] = s]
  /\ UNCHANGED <<rowVars, lock, job, part, outcome, ackErr, outsideVars, faults>>

(* Mutant of Claimable: the answer of pg_try_advisory_lock is ignored. *)
ClaimableLocked(j, s) == state[j] = s /\ due[j]

(* ... and passes over those that are locked, have moved on or are not due. *)
Claimable(j, s) == lock[j] = NoWorker /\ state[j] = s /\ due[j]

SkipCandidate(w, j) ==
  /\ pc[w] \in Stage
  /\ j \in cand[w]
  /\ ~Claimable(j, pc[w])
  /\ cand' = [cand EXCEPT ![w] = @ \ {j}]
  /\ pc' = [pc EXCEPT ![w] = IF cand[w] = {j} THEN "idle" ELSE @]
  /\ UNCHANGED <<rowVars, lock, job, part, outcome, ackErr, outsideVars, faults>>

(* Mutant of FirstPc: a poll forgets the cancellation stored in the row. *)
FirstPcNoCancel(j) ==
  CASE state[j] = "status" -> "send_status"
    [] state[j] = "upload" -> "submit"
    [] state[j] = "poll" -> "query"
    [] state[j] = "deliver" -> IF acked[j] THEN "next" ELSE "ack"

(* Where step begins, decided by the row as read under the lock. *)
FirstPc(j) ==
  CASE state[j] = "status" -> "send_status"
    [] state[j] = "upload" -> "submit"
    [] state[j] = "poll" -> IF cancel[j] THEN "cancel" ELSE "query"
    [] state[j] = "deliver" -> IF acked[j] THEN "next" ELSE "ack"

Claim(w, j) ==
  /\ pc[w] \in Stage
  /\ j \in cand[w]
  /\ Claimable(j, pc[w])
  /\ lock' = [lock EXCEPT ![j] = w]
  /\ pc' = [pc EXCEPT ![w] = FirstPc(j)]
  /\ job' = [job EXCEPT ![w] = j]
  /\ cand' = [cand EXCEPT ![w] = {}]
  /\ UNCHANGED <<rowVars, part, outcome, ackErr, outsideVars, faults>>

----------------------------------------------------------------------------
(* What the calls do outside the bot. *)

(* Mutant of AcceptUpload: a replay under a fresh request id. *)
AcceptUploadAgain(j) ==
  /\ backend' = [backend EXCEPT ![j] = IF j \notin Rejected THEN "active" ELSE @]
  /\ UNCHANGED <<screen, shown>>

(* Submit with a request id: a replay finds the job accepted before. *)
AcceptUpload(j) ==
  /\ backend' = [backend EXCEPT ![j] =
                   IF @ = "none" /\ j \notin Rejected THEN "active" ELSE @]
  /\ UNCHANGED <<screen, shown>>

MarkCancelled(j) ==
  /\ backend' = [backend EXCEPT ![j] = IF @ = "active" THEN "cancelling" ELSE @]
  /\ UNCHANGED <<screen, shown>>

(* Ack lets the backend drop a terminal job; a missing one is NotFound. *)
ReleaseJob(j) ==
  /\ backend' = [backend EXCEPT ![j] =
                   IF @ \in {"done", "failed", "cancelled"} THEN "released" ELSE @]
  /\ UNCHANGED <<screen, shown>>

(* editMessageText with a progress text; nothing happens to a deleted one. *)
ShowProgress(j) ==
  /\ screen' = [screen EXCEPT ![j] = IF @ = "gone" THEN @ ELSE "progress"]
  /\ UNCHANGED <<backend, shown>>

(* sendDelivery: part 0 edits the status message, or replaces a deleted one *)
(* by a new reply; the others are new messages or a document.              *)
ShowPart(j, p) ==
  /\ shown' = [shown EXCEPT ![j] = @ \cup {p}]
  /\ screen' = [screen EXCEPT ![j] = IF p = 0 /\ @ # "gone" THEN "final" ELSE @]
  /\ UNCHANGED backend

----------------------------------------------------------------------------
(* Stage "status". *)

SendStatus(w) ==
  /\ pc[w] = "send_status"
  /\ Goto(w, "save_status")
  /\ UNCHANGED <<rowVars, outsideVars, faults>>

(* job_status.sql *)
SaveStatus(w) ==
  /\ AtStore(w, "save_status")
  /\ state' = [state EXCEPT ![job[w]] = "upload"]
  /\ due' = [due EXCEPT ![job[w]] = TRUE]
  /\ screen' = [screen EXCEPT ![job[w]] = "queued"]
  /\ Finish(w)
  /\ UNCHANGED <<jobId, cancel, result, acked, outbox, receipt, backend, shown, faults>>

----------------------------------------------------------------------------
(* Stage "upload". *)

(* The progress goroutine lives from the start of the upload step to its   *)
(* end: the step joins it before the lock is released.                     *)
ReportingProgress(w) ==
  \/ pc[w] \in {"submit", "save_job"}
  \/ pc[w] = "save_result" /\ outcome[w] = "invalid"

EditUploadProgress(w) ==
  /\ ReportingProgress(w)
  /\ ShowProgress(job[w])
  /\ UNCHANGED <<rowVars, lock, localVars, faults>>

(* Download and SubmitDurable. *)
Submit(w) ==
  /\ pc[w] = "submit"
  /\ job[w] \notin Rejected
  /\ AcceptUpload(job[w])
  /\ Goto(w, "save_job")
  /\ UNCHANGED <<rowVars, faults>>

SubmitRejected(w) ==
  /\ pc[w] = "submit"
  /\ job[w] \in Rejected
  /\ pc' = [pc EXCEPT ![w] = "save_result"]
  /\ outcome' = [outcome EXCEPT ![w] = "invalid"]
  /\ UNCHANGED <<rowVars, lock, cand, job, part, ackErr, outsideVars, faults>>

(* job_submitted.sql *)
SaveSubmitted(w) ==
  /\ AtStore(w, "save_job")
  /\ jobId' = [jobId EXCEPT ![job[w]] = TRUE]
  /\ state' = [state EXCEPT ![job[w]] = "poll"]
  /\ due' = [due EXCEPT ![job[w]] = TRUE]
  /\ Finish(w)
  /\ UNCHANGED <<cancel, result, acked, outbox, receipt, outsideVars, faults>>

----------------------------------------------------------------------------
(* Stage "poll". *)

CallCancel(w) ==
  /\ pc[w] = "cancel"
  /\ MarkCancelled(job[w])
  /\ Goto(w, "query")
  /\ UNCHANGED <<rowVars, faults>>

OutcomeOf(b) ==
  CASE b = "done" -> "text"
    [] b = "failed" -> "failed"
    [] b = "cancelled" -> "cancelled"
    [] OTHER -> "missing"

(* GetStatus of a job that still runs: the text of the status message is   *)
(* edited when it differs from the one recorded.                           *)
QueryActive(w) ==
  /\ pc[w] = "query"
  /\ backend[job[w]] \in {"active", "cancelling"}
  /\ \E next \in {"edit_progress", "reschedule"} : Goto(w, next)
  /\ UNCHANGED <<rowVars, outsideVars, faults>>

QueryTerminal(w) ==
  /\ pc[w] = "query"
  /\ backend[job[w]] \notin {"active", "cancelling"}
  /\ outcome' = [outcome EXCEPT ![w] = OutcomeOf(backend[job[w]])]
  /\ pc' = [pc EXCEPT ![w] = "save_result"]
  /\ UNCHANGED <<rowVars, lock, cand, job, part, ackErr, outsideVars, faults>>

EditProgress(w) ==
  /\ pc[w] = "edit_progress"
  /\ ShowProgress(job[w])
  /\ Goto(w, "reschedule")
  /\ UNCHANGED <<rowVars, faults>>

(* job_progress.sql and job_schedule.sql *)
Reschedule(w) ==
  /\ AtStore(w, "reschedule")
  /\ due' = [due EXCEPT ![job[w]] = FALSE]
  /\ Finish(w)
  /\ UNCHANGED <<state, jobId, cancel, result, acked, outbox, receipt, outsideVars, faults>>

(* Work.Result: job_result.sql and the delivery_insert.sql of every part   *)
(* in one transaction.                                                     *)
SaveResult(w) ==
  /\ AtStore(w, "save_result")
  /\ result' = [result EXCEPT ![job[w]] = outcome[w]]
  /\ state' = [state EXCEPT ![job[w]] = "deliver"]
  /\ acked' = [acked EXCEPT ![job[w]] = ~jobId[job[w]]]
  /\ due' = [due EXCEPT ![job[w]] = TRUE]
  /\ outbox' = [outbox EXCEPT ![job[w]] = @ \cup Plan(job[w], outcome[w])]
  /\ Finish(w)
  /\ UNCHANGED <<jobId, cancel, receipt, outsideVars, faults>>

----------------------------------------------------------------------------
(* Stage "deliver". *)

CallAck(w) ==
  /\ pc[w] = "ack"
  /\ ReleaseJob(job[w])
  /\ Goto(w, "save_ack")
  /\ UNCHANGED <<rowVars, faults>>

(* job_ack.sql *)
SaveAck(w) ==
  /\ AtStore(w, "save_ack")
  /\ acked' = [acked EXCEPT ![job[w]] = TRUE]
  /\ Goto(w, "next")
  /\ UNCHANGED <<state, due, jobId, cancel, result, outbox, receipt, outsideVars, faults>>

(* Mutant of Pending: delivered parts are not left out. *)
PendingAll(j) == outbox[j]

Pending(j) == outbox[j] \ receipt[j]

(* A failed Ack is reported only after the part is delivered. *)
AfterPart(w) == IF ackErr[w] THEN "retry" ELSE "complete"

(* Mutant of IsNext: delivery_next.sql without its ORDER BY. *)
IsNextUnordered(j, p) == p \in Pending(j)

(* delivery_next.sql: the first part that has no receipt. *)
IsNext(j, p) == p \in Pending(j) /\ \A q \in Pending(j) : p <= q

PickPart(w, p) ==
  /\ AtStore(w, "next")
  /\ IsNext(job[w], p)
  /\ part' = [part EXCEPT ![w] = p]
  /\ pc' = [pc EXCEPT ![w] = "send"]
  /\ UNCHANGED <<rowVars, lock, cand, job, outcome, ackErr, outsideVars, faults>>

NoPartLeft(w) ==
  /\ AtStore(w, "next")
  /\ Pending(job[w]) = {}
  /\ Goto(w, AfterPart(w))
  /\ UNCHANGED <<rowVars, outsideVars, faults>>

SendPart(w) ==
  /\ pc[w] = "send"
  /\ ShowPart(job[w], part[w])
  /\ Goto(w, "save_receipt")
  /\ UNCHANGED <<rowVars, faults>>

(* delivery_done.sql *)
SaveReceipt(w) ==
  /\ AtStore(w, "save_receipt")
  /\ receipt' = [receipt EXCEPT ![job[w]] = @ \cup {part[w]}]
  /\ Goto(w, AfterPart(w))
  /\ UNCHANGED <<state, due, jobId, cancel, result, acked, outbox, outsideVars, faults>>

(* Mutant of MayComplete: job_done.sql does not look at the parts. *)
MayCompleteUndelivered(j) == acked[j]

(* job_done.sql changes the row only when nothing is left to do. *)
MayComplete(j) == acked[j] /\ Pending(j) = {}

Complete(w) ==
  /\ AtStore(w, "complete")
  /\ state' = [state EXCEPT ![job[w]] = IF MayComplete(job[w]) THEN "done" ELSE @]
  /\ Finish(w)
  /\ UNCHANGED <<due, jobId, cancel, result, acked, outbox, receipt, outsideVars, faults>>

----------------------------------------------------------------------------
(* Failures of a step. *)

(* workLoop: Schedule with the backoff, error code "stage_failed". *)
Retry(w) ==
  /\ AtStore(w, "retry")
  /\ due' = [due EXCEPT ![job[w]] = FALSE]
  /\ Finish(w)
  /\ UNCHANGED <<state, jobId, cancel, result, acked, outbox, receipt, outsideVars, faults>>

(* Every statement on a lost connection fails, the Schedule of the error   *)
(* path too: the iteration ends with nothing written.                      *)
FencedOut(w) ==
  /\ pc[w] \in StorePc
  /\ ~Holds(w)
  /\ Finish(w)
  /\ UNCHANGED <<rowVars, outsideVars, faults>>

Fault(kind) ==
  /\ kind \in FaultKinds
  /\ faults < MaxFaults
  /\ faults' = faults + 1

CallTakesEffect(w) ==
  \/ pc[w] = "submit" /\ AcceptUpload(job[w])
  \/ pc[w] = "cancel" /\ MarkCancelled(job[w])
  \/ pc[w] = "ack" /\ ReleaseJob(job[w])
  \/ pc[w] = "edit_progress" /\ ShowProgress(job[w])
  \/ pc[w] = "send" /\ ShowPart(job[w], part[w])

(* deliver goes on after a failed Ack, and a poll after a failed edit. *)
AfterFailedCall(where) ==
  CASE where = "ack" -> "next"
    [] where = "edit_progress" -> "reschedule"
    [] OTHER -> "retry"

(* A call fails, or it succeeds and its answer is lost. *)
CallFails(w) ==
  /\ pc[w] \in CallPc
  /\ Fault("call")
  /\ CallTakesEffect(w) \/ UNCHANGED outsideVars
  /\ pc' = [pc EXCEPT ![w] = AfterFailedCall(@)]
  /\ ackErr' = [ackErr EXCEPT ![w] = pc[w] = "ack"]
  /\ UNCHANGED <<rowVars, lock, cand, job, part, outcome>>

(* A statement fails and the connection survives (a statement timeout).    *)
StoreFails(w) ==
  /\ pc[w] \in StorePc \ {"retry"}
  /\ Holds(w)
  /\ Fault("store")
  /\ Goto(w, "retry")
  /\ UNCHANGED <<rowVars, outsideVars>>

(* The claim (the lock or the read under it) or the Schedule of the error  *)
(* path fails: workLoop gives the iteration up with nothing written.       *)
IterationFails(w) ==
  /\ pc[w] \in Stage \cup {"retry"}
  /\ Fault("store")
  /\ Finish(w)
  /\ UNCHANGED <<rowVars, outsideVars>>

(* The process dies or shuts down, in the middle of a call perhaps. *)
Crash(w) ==
  /\ pc[w] # "idle"
  /\ Fault("crash")
  /\ CallTakesEffect(w) \/ UNCHANGED outsideVars
  /\ Finish(w)
  /\ UNCHANGED rowVars

(* The server ends the session and releases its lock; w does not notice. *)
LoseConnection(w) ==
  /\ Holds(w)
  /\ Fault("loss")
  /\ Unlock(w)
  /\ UNCHANGED <<rowVars, localVars, outsideVars>>

----------------------------------------------------------------------------
(* The surroundings. *)

(* ProcessInbox inserts the jobs in update order (job_insert.sql). *)
Admit(j) ==
  /\ state[j] = "absent"
  /\ \A e \in Job : e < j => state[e] # "absent"
  /\ state' = [state EXCEPT ![j] = "status"]
  /\ due' = [due EXCEPT ![j] = TRUE]
  /\ UNCHANGED <<jobId, cancel, result, acked, outbox, receipt, lock, localVars,
                 outsideVars, faults>>

(* RequestCancel from chat c, job_cancel.sql. *)
RequestCancel(j, c) ==
  /\ state[j] = "poll"
  /\ jobId[j]
  /\ ChatOf[j] = c
  /\ cancel' = [cancel EXCEPT ![j] = TRUE]
  /\ due' = [due EXCEPT ![j] = TRUE]
  /\ UNCHANGED <<state, jobId, result, acked, outbox, receipt, lock, localVars,
                 outsideVars, faults>>

(* next_attempt_at is reached. *)
BecomeDue(j) ==
  /\ state[j] \in Stage
  /\ ~due[j]
  /\ due' = [due EXCEPT ![j] = TRUE]
  /\ UNCHANGED <<state, jobId, cancel, result, acked, outbox, receipt, lock,
                 localVars, outsideVars, faults>>

BackendFinishes(j) ==
  /\ backend[j] \in {"active", "cancelling"}
  /\ \E b \in {"done", "failed", "cancelled"} :
       /\ b = "cancelled" => backend[j] = "cancelling"
       /\ backend' = [backend EXCEPT ![j] = b]
  /\ UNCHANGED <<rowVars, lock, localVars, screen, shown, faults>>

(* The backend loses a job it should have retained. *)
BackendForgets(j) ==
  /\ backend[j] \notin {"none", "released", "lost"}
  /\ Fault("forget")
  /\ backend' = [backend EXCEPT ![j] = "lost"]
  /\ UNCHANGED <<rowVars, lock, localVars, screen, shown>>

(* Somebody deletes the status message. *)
DeleteStatusMessage(j) ==
  /\ screen[j] \notin {"none", "gone"}
  /\ Fault("delete")
  /\ screen' = [screen EXCEPT ![j] = "gone"]
  /\ UNCHANGED <<rowVars, lock, localVars, backend, shown>>

(* All the work is done: the loops keep asking for more. *)
Quiescent ==
  /\ \A j \in Job : state[j] = "done"
  /\ \A w \in Worker : pc[w] = "idle"
  /\ UNCHANGED vars

----------------------------------------------------------------------------
WorkerStep(w) ==
  \/ \E s \in Stage : ListCandidates(w, s)
  \/ \E j \in Job : SkipCandidate(w, j) \/ Claim(w, j)
  \/ SendStatus(w) \/ SaveStatus(w)
  \/ Submit(w) \/ SubmitRejected(w) \/ SaveSubmitted(w)
  \/ CallCancel(w) \/ QueryActive(w) \/ QueryTerminal(w)
  \/ EditProgress(w) \/ Reschedule(w) \/ SaveResult(w)
  \/ CallAck(w) \/ SaveAck(w) \/ NoPartLeft(w)
  \/ \E j \in Job : \E p \in outbox[j] : PickPart(w, p)
  \/ SendPart(w) \/ SaveReceipt(w) \/ Complete(w)
  \/ Retry(w) \/ FencedOut(w)

WorkerFault(w) ==
  \/ CallFails(w) \/ StoreFails(w) \/ IterationFails(w)
  \/ Crash(w) \/ LoseConnection(w)

Surroundings(j) ==
  \/ Admit(j) \/ (\E c \in Chat : RequestCancel(j, c)) \/ BecomeDue(j)
  \/ BackendFinishes(j) \/ BackendForgets(j) \/ DeleteStatusMessage(j)

Next ==
  \/ \E w \in Worker : WorkerStep(w) \/ EditUploadProgress(w) \/ WorkerFault(w)
  \/ \E j \in Job : Surroundings(j)
  \/ Quiescent

Spec == Init /\ [][Next]_vars

(* Every call and every statement of a loop has a deadline, so a loop      *)
(* always goes on; time passes.                                            *)
LoopsRun ==
  /\ \A w \in Worker : WF_vars(WorkerStep(w))
  /\ \A j \in Job : WF_vars(BecomeDue(j))

(* The backend ends what it accepted (external). *)
BackendRuns == \A j \in Job : WF_vars(BackendFinishes(j))

FairSpec == Spec /\ LoopsRun

----------------------------------------------------------------------------
(* Safety. *)

(* docs/durable-jobs.md, step 5: the backend is allowed to drop a job only  *)
(* when its outcome and everything to be sent are in the database.  An Ack  *)
(* may come from a worker whose lock is long gone.                          *)
AckAfterDurable ==
  \A j \in Job : backend[j] = "released" =>
    /\ result[j] # "none"
    /\ outbox[j] = Plan(j, result[j])

(* The stored outcome is what happened to the backend's job.  A poll that   *)
(* finds nothing because another worker has acknowledged the job meanwhile  *)
(* must not be stored as "job missing"; and nobody reads "cancelled" who    *)
(* has not asked for it.                                                    *)
Evidence(j) ==
  CASE result[j] = "none" -> BackendState \ {"released"}
    [] result[j] = "text" -> {"done", "released", "lost"}
    [] result[j] = "failed" -> {"failed", "released", "lost"}
    [] result[j] = "cancelled" -> {"cancelled", "released", "lost"}
    [] result[j] = "missing" -> {"lost"}
    [] result[j] = "invalid" -> {"none"}

ResultTruthful ==
  \A j \in Job :
    /\ backend[j] \in Evidence(j)
    /\ result[j] = "cancelled" => cancel[j]

(* docs/durable-jobs.md, step 6: a job is done only when every part it owes *)
(* has a receipt and has been shown, and the backend keeps nothing for it.  *)
DoneIsComplete ==
  \A j \in Job : state[j] = "done" =>
    /\ result[j] # "none"
    /\ receipt[j] = Plan(j, result[j])
    /\ receipt[j] \subseteq shown[j]
    /\ backend[j] \in {"none", "released", "lost"}

Earlier(e, j) == e < j /\ ChatOf[e] = ChatOf[j]

(* Status and upload are FIFO in a chat whatever fails, is retried or loses *)
(* its lock: a backend never hears of a job before the earlier ones of the  *)
(* chat are submitted or refused, and no status is recorded before theirs.  *)
FifoPerChat ==
  \A e, j \in Job : Earlier(e, j) =>
    /\ backend[j] # "none" => state[e] \notin {"absent", "status", "upload"}
    /\ state[j] \notin {"absent", "status"} => state[e] \notin {"absent", "status"}

(* The parts of a transcript appear in their order: a part is sent only     *)
(* when all the earlier ones are confirmed, and only from the outbox; and a *)
(* part is confirmed only when Telegram has been given it, though it may    *)
(* have been sent by a worker that had lost its lock.                       *)
PartsInOrder ==
  \A j \in Job :
    /\ receipt[j] \subseteq shown[j]
    /\ \A p \in shown[j] : p \in outbox[j] /\ 0 .. (p - 1) \subseteq receipt[j]

(* README.md:65, handler.go:410: the whole text of a finished job has been  *)
(* given to Telegram, every rune in exactly one message that fits, and no   *)
(* message is empty: Telegram would refuse it, for ever.                    *)
TranscriptComplete ==
  \A j \in Job : state[j] = "done" /\ result[j] = "text" =>
    /\ \A r \in 1 .. TextRunes[j] :
         \E p \in shown[j] : \A q \in shown[j] : r \in Runes(j, q) <=> q = p
    /\ \A p \in shown[j] : Runes(j, p) = {} => TextRunes[j] = 0 \/ j \in Lecture

(* progress.go:55: once the outcome is delivered into the status message,   *)
(* no progress text takes its place.                                        *)
ResultStaysVisible ==
  \A j \in Job : 0 \in receipt[j] => screen[j] \in {"final", "gone"}

(* store/durable.go:26, from the other side: whatever fails elsewhere, the  *)
(* worker whose session still owns the lock is not about to repeat a part   *)
(* with a receipt, nor to cover an outcome by a progress text.  Only those  *)
(* that have lost their lock without noticing can do that harm.             *)
OwnersDoNoHarm ==
  \A w \in Worker : Holds(w) =>
    /\ pc[w] = "send" => part[w] \notin receipt[job[w]]
    /\ pc[w] = "edit_progress" \/ ReportingProgress(w) => shown[job[w]] = {}

(* Somebody who owns its lock works on j, the time of its next attempt has  *)
(* not come, or any loop may claim it.                                      *)
Moving(j) ==
  \/ \E w \in Worker : Holds(w) /\ job[w] = j
  \/ ~due[j]
  \/ lock[j] = NoWorker /\ j \in Candidates(state[j])

(* store/sql/job_candidates.sql: an unfinished job is never stuck.  It, or   *)
(* an unfinished earlier job of its chat that it may have to wait for, can  *)
(* go on: no lock stays behind with a worker that is done with the job or   *)
(* gone, and the jobs of a chat do not wait for each other in a circle or   *)
(* for one that has no row or is past its upload.                           *)
NobodyStuck ==
  \A j \in Job : state[j] \in Stage =>
    \E e \in Job : (e = j \/ Earlier(e, j)) /\ state[e] \in Stage /\ Moving(e)

StageRank == [s \in Stage \cup {"absent", "done"} |->
  CASE s = "absent" -> 0 [] s = "status" -> 1 [] s = "upload" -> 2
    [] s = "poll" -> 3 [] s = "deliver" -> 4 [] s = "done" -> 5]

(* store/durable.go:26: a worker that lost its connection publishes nothing *)
(* stale.  A job never goes back to an earlier stage, and a stored outcome  *)
(* and its delivery plan are final: a late poll, a replay or a forgetful    *)
(* backend cannot rewrite what users are being sent.                        *)
NothingStale ==
  [][\A j \in Job :
       /\ StageRank[state[j]] <= StageRank[state'[j]]
       /\ result[j] # "none" => result'[j] = result[j] /\ outbox'[j] = outbox[j]]_vars

(* docs/durable-jobs.md:63, README.md:65: a part whose receipt is stored is *)
(* not sent again.                                                          *)
ConfirmedNotResent ==
  [][\A w \in Worker :
       pc[w] = "send" /\ pc'[w] = "save_receipt" => part[w] \notin receipt[job[w]]]_vars

----------------------------------------------------------------------------
(* Liveness. *)

(* docs/durable-jobs.md:56: no accepted work is discarded: while the backend *)
(* ends its jobs, every job is eventually done, its outcome shown and its    *)
(* backend copy released, whatever calls fail and connections get lost.      *)
AcceptedEventuallyDone ==
  BackendRuns => \A j \in Job : state[j] # "absent" ~> state[j] = "done"

(* docs/durable-jobs.md:33: a cancellation is persisted and replayed until  *)
(* the backend has it, though it races polls and reschedules of the row and *)
(* the backend may never end the job by itself.                             *)
CancelReachesBackend ==
  \A j \in Job : cancel[j] ~> backend[j] # "active"
=============================================================================

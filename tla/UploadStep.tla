----------------------------- MODULE UploadStep -----------------------------
(***************************************************************************)
(* The upload stage of one job from the inside: step of bot/bot/durable.go *)
(* with the download of bot/bot/handler.go, the gRPC stream of             *)
(* bot/whisper/client.go, the progress goroutine of bot/bot/progress.go    *)
(* and the backoff of workLoop.  DurableJobs has the stage as one call.    *)
(*                                                                         *)
(* The media flows through: what a Read of the download returns is sent    *)
(* before the next Read.  Progress texts go through a channel with one     *)
(* place to a goroutine that edits the status message once a second.       *)
(* The worker owns the job's lock all the time.                            *)
(***************************************************************************)
EXTENDS Integers

CONSTANTS
  Sizes,         \* the sizes media may have; the unit is what a slow download
                 \* delivers between two Reads
  Chunk,         \* chunkSize, the most one Read returns
  ReportStep,    \* the 5 MiB after which the reader reports progress again
  Deadline,      \* how many Reads fit into uploadTimeout
  RetryAfters,   \* the values retry_after may have in an error of Telegram
  StartAttempts, \* the failures that may have been counted before
  MaxAttempts,   \* bound: failures are counted up to here
  FaultKinds,    \* the kinds of faults that may happen
  MaxFaults      \* bound: how many faults happen

ASSUME UploadAssumption ==
  /\ Sizes \subseteq Nat
  /\ Chunk \in Nat \ {0}
  /\ ReportStep \in Nat \ {0}
  /\ Deadline \in Nat \ {0}
  /\ RetryAfters \subseteq Int
  /\ MaxAttempts \in Nat
  /\ StartAttempts \subseteq 0 .. MaxAttempts
  /\ FaultKinds \subseteq {"call", "edit", "store", "crash"}
  /\ MaxFaults \in Nat

(* What the file is: its size, whether the server announces it, whether it *)
(* is read from the volume of a local Bot API server, and whether the      *)
(* backend refuses it (InvalidArgument).                                   *)
Media == {m \in [size : Sizes, known : BOOLEAN, local : BOOLEAN, refused : BOOLEAN] :
            m.local => m.known}

(* Where the step is. *)
Streaming == {"read", "send"}
StepPc == {"file", "opened", "open", "receive", "save", "stop", "join"} \cup Streaming

(* How the RPC stands: open, or ended by the server with a status. *)
Rpc == {"none", "open", "ok", "invalid", "failed"}

(* What the backend has received: the identity with the first message, and *)
(* how much media.                                                         *)
Stream == [header : BOOLEAN, units : Nat]
EmptyStream == [header |-> FALSE, units |-> 0]
NoJob == [header |-> FALSE, units |-> -1]

VARIABLES
  media,
  (* the row *)
  row,        \* "upload", "poll" when submitted, "deliver" when refused
  attempts, delay,
  (* the step *)
  pc,
  asked,      \* the retry_after of the error, 0 if there is none
  got,        \* progressReadCloser.downloaded
  lastReported,
  reads,      \* how many Reads there have been, that is how late it is
  buf, end,   \* what the last Read returned: units; "more", "eof" or "error"
  (* progress: texts are numbered in each attempt *)
  told,       \* the newest text
  telling,    \* where a report is that has found the channel full
  mail,       \* the text in the channel, 0 if it is empty
  reporter,   \* the goroutine
  cancelled,  \* its context
  latest, last,
  screen,     \* the text that the status message shows, 0 for older ones
  (* the backend *)
  rpc, stream,
  job,        \* the stream its job for the request id was made from
  faults

rowVars == <<row, attempts, delay>>
readVars == <<got, lastReported, reads, buf, end>>
mailVars == <<told, telling, mail>>
reporterVars == <<reporter, cancelled, latest, last, screen>>
backendVars == <<rpc, stream, job>>
vars == <<media, rowVars, pc, asked, readVars, mailVars, reporterVars, backendVars, faults>>

TypeOK ==
  /\ media \in Media
  /\ row \in {"upload", "poll", "deliver"}
  /\ attempts \in 0 .. MaxAttempts
  /\ delay \in Nat
  /\ pc \in StepPc \cup {"idle", "retry", "done"}
  /\ asked \in RetryAfters \cup {0}
  /\ got \in 0 .. media.size
  /\ lastReported \in 0 .. got
  /\ reads \in 0 .. Deadline
  /\ buf \in 0 .. Chunk
  /\ end \in {"more", "eof", "error"}
  /\ told \in Nat
  /\ telling \in {"no", "drain", "put"}
  /\ mail \in 0 .. told
  /\ reporter \in {"off", "wait", "edit"}
  /\ cancelled \in BOOLEAN
  /\ latest \in 0 .. told
  /\ last \in 0 .. latest
  /\ screen \in 0 .. latest
  /\ rpc \in Rpc
  /\ stream \in Stream
  /\ job \in Stream \cup {NoJob}
  /\ faults \in 0 .. MaxFaults

(* The row has reached the stage, perhaps after failed attempts. *)
Init ==
  /\ media \in Media
  /\ row = "upload"
  /\ attempts \in StartAttempts
  /\ delay = 0
  /\ pc = "idle"
  /\ asked = 0
  /\ got = 0 /\ lastReported = 0 /\ reads = 0 /\ buf = 0 /\ end = "more"
  /\ told = 0 /\ telling = "no" /\ mail = 0
  /\ reporter = "off" /\ cancelled = FALSE /\ latest = 0 /\ last = 0 /\ screen = 0
  /\ rpc = "none" /\ stream = EmptyStream /\ job = NoJob
  /\ faults = 0

(* Mutant of ForgetTexts: all attempts share one channel. *)
ForgetTextsButMail == told' = 0 /\ telling' = "no" /\ UNCHANGED mail

ForgetTexts == told' = 0 /\ telling' = "no" /\ mail' = 0

(* What the step keeps in memory is gone when it has ended. *)
Forget ==
  /\ ForgetTexts
  /\ got' = 0 /\ lastReported' = 0 /\ reads' = 0 /\ buf' = 0 /\ end' = "more"
  /\ cancelled' = FALSE /\ latest' = 0 /\ last' = 0 /\ screen' = 0
  /\ rpc' = "none" /\ stream' = EmptyStream

Fault(kind) ==
  /\ kind \in FaultKinds
  /\ faults < MaxFaults
  /\ faults' = faults + 1

----------------------------------------------------------------------------
(* Progress texts: report of uploadProgress, called by the step alone. *)

(* Mutant of Report: the step waits for a place in the channel. *)
ReportBlocking ==
  /\ mail = 0
  /\ told' = told + 1
  /\ mail' = told + 1
  /\ UNCHANGED telling

(* The first select: the text goes into the channel, or it is full. *)
Report ==
  /\ told' = told + 1
  /\ mail' = IF mail = 0 THEN told + 1 ELSE mail
  /\ telling' = IF mail = 0 THEN "no" ELSE "drain"

(* Mutant of Drain: the newest text is dropped instead of the oldest. *)
DrainNot ==
  /\ telling = "drain"
  /\ telling' = "put"
  /\ UNCHANGED <<mail, told>>
  /\ UNCHANGED <<media, rowVars, pc, asked, readVars, reporterVars, backendVars, faults>>

(* The second select makes room, unless the goroutine has been faster... *)
Drain ==
  /\ telling = "drain"
  /\ telling' = "put"
  /\ mail' = 0
  /\ UNCHANGED told
  /\ UNCHANGED <<media, rowVars, pc, asked, readVars, reporterVars, backendVars, faults>>

(* ... and the third one fills it. *)
Put ==
  /\ telling = "put"
  /\ telling' = "no"
  /\ mail' = IF mail = 0 THEN told ELSE mail
  /\ UNCHANGED told
  /\ UNCHANGED <<media, rowVars, pc, asked, readVars, reporterVars, backendVars, faults>>

(* The goroutine. *)
TakeText ==
  /\ reporter = "wait"
  /\ mail # 0
  /\ latest' = mail
  /\ mail' = 0
  /\ UNCHANGED <<told, telling, reporter, cancelled, last, screen>>
  /\ UNCHANGED <<media, rowVars, pc, asked, readVars, backendVars, faults>>

(* A tick that is chosen although the context is cancelled starts a call   *)
(* that ends at once: it is left out.                                      *)
Tick ==
  /\ reporter = "wait"
  /\ ~cancelled
  /\ latest # last
  /\ reporter' = "edit"
  /\ UNCHANGED <<cancelled, latest, last, screen, mailVars>>
  /\ UNCHANGED <<media, rowVars, pc, asked, readVars, backendVars, faults>>

(* Done, or "message is not modified". *)
Edit ==
  /\ reporter = "edit"
  /\ screen' = latest
  /\ last' = latest
  /\ reporter' = "wait"
  /\ UNCHANGED <<cancelled, latest, mailVars>>
  /\ UNCHANGED <<media, rowVars, pc, asked, readVars, backendVars, faults>>

(* Mutant of ShownByFailedEdit: a failed edit counts as done. *)
ShownByFailedEditDone == last' = latest /\ UNCHANGED screen

(* The text may be there although the answer is not. *)
ShownByFailedEdit == screen' \in {screen, latest} /\ UNCHANGED last

(* An error, or three seconds without an answer. *)
EditFails ==
  /\ reporter = "edit"
  /\ Fault("edit")
  /\ ShownByFailedEdit
  /\ reporter' = "wait"
  /\ UNCHANGED <<cancelled, latest, mailVars>>
  /\ UNCHANGED <<media, rowVars, pc, asked, readVars, backendVars>>

(* The cancellation ends a call in progress... *)
AbortEdit ==
  /\ reporter = "edit"
  /\ cancelled
  /\ screen' \in {screen, latest}
  /\ reporter' = "wait"
  /\ UNCHANGED <<cancelled, latest, last, mailVars>>
  /\ UNCHANGED <<media, rowVars, pc, asked, readVars, backendVars, faults>>

(* ... and the goroutine. *)
ReporterEnds ==
  /\ reporter = "wait"
  /\ cancelled
  /\ reporter' = "off"
  /\ UNCHANGED <<cancelled, latest, last, screen, mailVars>>
  /\ UNCHANGED <<media, rowVars, pc, asked, readVars, backendVars, faults>>

----------------------------------------------------------------------------
(* The step. *)

Step(from) == pc = from /\ telling = "no"

(* The row is due: uploadProgress and the first text. *)
Begin ==
  /\ pc = "idle"
  /\ row = "upload"
  /\ pc' = "file"
  /\ delay' = 0 /\ asked' = 0
  /\ told' = 1 /\ mail' = 1
  /\ reporter' = "wait"
  /\ UNCHANGED <<media, row, attempts, readVars, telling, cancelled, latest, last, screen,
                 backendVars, faults>>

(* downloadFile: the file is known; a local one is there already. *)
OpenFile ==
  /\ Step("file")
  /\ pc' = "opened"
  /\ IF media.local THEN Report ELSE UNCHANGED mailVars
  /\ UNCHANGED <<media, rowVars, asked, readVars, reporterVars, backendVars, faults>>

(* getFile or the HTTP request fails; Telegram may say for how long. *)
OpenFileFails(after) ==
  /\ Step("file")
  /\ Fault("call")
  /\ asked' = after
  /\ pc' = "stop"
  /\ UNCHANGED <<media, rowVars, readVars, mailVars, reporterVars, backendVars>>

AnnounceUpload ==
  /\ Step("opened")
  /\ Report
  /\ pc' = "open"
  /\ UNCHANGED <<media, rowVars, asked, readVars, reporterVars, backendVars, faults>>

OpenStream ==
  /\ Step("open")
  /\ pc' = "read"
  /\ rpc' = "open"
  /\ UNCHANGED <<media, rowVars, asked, readVars, mailVars, reporterVars, stream, job, faults>>

OpenStreamFails ==
  /\ Step("open")
  /\ Fault("call")
  /\ pc' = "stop"
  /\ UNCHANGED <<media, rowVars, asked, readVars, mailVars, reporterVars, backendVars>>

(* progressReadCloser.Read: when n more units are worth a report. *)
WorthReport(n) ==
  /\ n > 0
  /\ ~media.local
  /\ \/ ~media.known
     \/ got + n - lastReported >= ReportStep
     \/ got + n = media.size

(* A Read returns n units, and how it ended.  The end of the file may come *)
(* with the last of them or by itself.                                     *)
ReadReturns(n, how) ==
  /\ Step("read")
  /\ got + n <= media.size
  /\ got' = got + n
  /\ lastReported' = IF WorthReport(n) THEN got + n ELSE lastReported
  /\ reads' = IF reads < Deadline THEN reads + 1 ELSE reads
  /\ buf' = n
  /\ end' = how
  /\ IF WorthReport(n) THEN Report ELSE UNCHANGED mailVars
  /\ pc' = "send"
  /\ UNCHANGED <<media, rowVars, asked, reporterVars, backendVars>>

Read(n, how) ==
  /\ how = "more" => n > 0
  /\ how = "eof" => got + n = media.size
  /\ ReadReturns(n, how)
  /\ UNCHANGED faults

(* The download breaks off, for instance after its 30 minutes. *)
ReadFails(n) == ReadReturns(n, "error") /\ Fault("call")

(* The server has not ended the RPC, and uploadTimeout is not over. *)
RpcOpen == rpc = "open" /\ reads < Deadline

First == stream = EmptyStream

(* Mutant of AtEnd: an empty file sends no message at all. *)
AtEndSilent == UNCHANGED stream

(* The end of an empty file sends the identity by itself. *)
AtEnd == stream' = [stream EXCEPT !.header = TRUE]

(* Mutant of AfterSend: the end of a broken download looks like the end.   *)
AfterSendAnyEnd == IF end = "more" THEN "read" ELSE "receive"

(* Where sendChunks goes on; an error of the reader abandons the RPC. *)
AfterSend ==
  CASE end = "more" -> "read"
    [] end = "eof" -> "receive"
    [] end = "error" -> "stop"

(* A chunk is sent; the first one carries the identity. *)
Send ==
  /\ Step("send")
  /\ RpcOpen \/ (buf = 0 /\ ~(end = "eof" /\ First))
  /\ CASE buf > 0 -> stream' = [header |-> First \/ stream.header, units |-> stream.units + buf]
       [] buf = 0 /\ end = "eof" /\ First -> AtEnd
       [] OTHER -> UNCHANGED stream
  /\ pc' = AfterSend
  /\ UNCHANGED <<media, rowVars, asked, readVars, mailVars, reporterVars, rpc, job, faults>>

(* Mutant of AfterBrokenSend: io.EOF of a Send is taken for the failure. *)
AfterBrokenSendGivesUp == "stop"

(* Send says io.EOF when the server has ended the RPC: CloseAndRecv has    *)
(* the real answer.                                                        *)
AfterBrokenSend == "receive"

SendBroken ==
  /\ Step("send")
  /\ ~RpcOpen
  /\ buf > 0 \/ (end = "eof" /\ First)
  /\ pc' = AfterBrokenSend
  /\ UNCHANGED <<media, rowVars, asked, readVars, mailVars, reporterVars, backendVars, faults>>

(* CloseAndRecv: the backend has the whole stream and answers. *)
CloseStream ==
  /\ Step("receive")
  /\ RpcOpen
  /\ IF job # NoJob \/ ~media.refused
     THEN rpc' = "ok" /\ job' = IF job = NoJob THEN stream ELSE job
     ELSE rpc' = "invalid" /\ UNCHANGED job
  /\ UNCHANGED <<media, rowVars, pc, asked, readVars, mailVars, reporterVars, stream, faults>>

(* The answer of a whole stream is lost, or comes too late. *)
CloseStreamFails ==
  /\ Step("receive")
  /\ RpcOpen
  /\ Fault("call")
  /\ rpc' = "failed"
  /\ job' \in {job, IF job = NoJob /\ ~media.refused THEN stream ELSE job}
  /\ UNCHANGED <<media, rowVars, pc, asked, readVars, mailVars, reporterVars, stream>>

(* The backend (external) ends the RPC before it has everything: it knows  *)
(* the request id, or it refuses what the first message says.              *)
ServerAnswersEarly ==
  /\ RpcOpen
  /\ stream.header
  /\ pc \in Streaming
  /\ \/ job # NoJob /\ rpc' = "ok"
     \/ job = NoJob /\ media.refused /\ rpc' = "invalid"
  /\ UNCHANGED <<media, rowVars, pc, asked, readVars, mailVars, reporterVars, stream, job, faults>>

ServerFails ==
  /\ RpcOpen
  /\ pc \in Streaming
  /\ Fault("call")
  /\ rpc' = "failed"
  /\ UNCHANGED <<media, rowVars, pc, asked, readVars, mailVars, reporterVars, stream, job>>

(* Mutant of Final: an RPC that failed is taken for a refusal. *)
FinalAny == {"ok", "invalid", "failed"}

(* The ends of the RPC that settle the matter. *)
Final == {"ok", "invalid"}

(* After the deadline an answer that is there may still lose against it. *)
Receive ==
  /\ Step("receive")
  /\ ~RpcOpen
  /\ \/ rpc \in Final /\ pc' = "save"
     \/ (rpc \notin Final \/ reads = Deadline) /\ pc' = "stop"
  /\ UNCHANGED <<media, rowVars, asked, readVars, mailVars, reporterVars, backendVars, faults>>

(* job_submitted.sql, or the outcome "upload_invalid". *)
Save ==
  /\ Step("save")
  /\ row' = IF rpc = "ok" THEN "poll" ELSE "deliver"
  /\ pc' = "stop"
  /\ UNCHANGED <<media, attempts, delay, asked, readVars, mailVars, reporterVars,
                 backendVars, faults>>

SaveFails ==
  /\ Step("save")
  /\ Fault("store")
  /\ pc' = "stop"
  /\ UNCHANGED <<media, rowVars, asked, readVars, mailVars, reporterVars, backendVars>>

(* The deferred stop: cancel... *)
Stop ==
  /\ Step("stop")
  /\ cancelled' = TRUE
  /\ pc' = "join"
  /\ UNCHANGED <<media, rowVars, asked, readVars, mailVars, reporter, latest, last, screen,
                 backendVars, faults>>

(* Mutant of Joined: stop cancels and does not wait for done. *)
JoinedAtOnce == TRUE

(* ... and wait for done. *)
Joined == reporter = "off"

Join ==
  /\ Step("join")
  /\ Joined
  /\ pc' = IF row = "upload" THEN "retry" ELSE "done"
  /\ Forget
  /\ UNCHANGED <<media, rowVars, asked, reporter, job, faults>>

----------------------------------------------------------------------------
(* The error path of workLoop. *)

Least(a, b) == IF a <= b THEN a ELSE b
Greatest(a, b) == IF a >= b THEN a ELSE b

(* Mutant of RetryDelay: the shift is not bounded.  A second shifted by 55  *)
(* bits or more leaves nothing of a Duration.                              *)
RetryDelayUnbounded(n) == IF n + 1 < 55 THEN 2 ^ (n + 1) ELSE 0

(* In seconds. *)
RetryDelay(n) == 2 ^ Least(Greatest(n, 0) + 1, 8)

OneDay == 86400

RetryAfter(n, after) == Greatest(RetryDelay(n), Least(Greatest(after, 0), OneDay))

(* job_schedule.sql with the code "stage_failed". *)
Schedule ==
  /\ pc = "retry"
  /\ delay' = RetryAfter(attempts, asked)
  /\ attempts' = Least(attempts + 1, MaxAttempts)
  /\ pc' = "idle"
  /\ UNCHANGED <<media, row, asked, readVars, mailVars, reporterVars, backendVars, faults>>

ScheduleFails ==
  /\ pc = "retry"
  /\ Fault("store")
  /\ pc' = "idle"
  /\ UNCHANGED <<media, rowVars, asked, readVars, mailVars, reporterVars, backendVars>>

(* The process dies: the goroutine and the RPC with it. *)
Crash ==
  /\ pc \in StepPc \cup {"retry"}
  /\ Fault("crash")
  /\ pc' = IF row = "upload" THEN "idle" ELSE "done"
  /\ Forget
  /\ reporter' = "off"
  /\ UNCHANGED <<media, rowVars, asked, job>>

Finished == pc = "done" /\ UNCHANGED vars

----------------------------------------------------------------------------
StepGoesOn ==
  \/ Drain \/ Put
  \/ Begin \/ OpenFile \/ AnnounceUpload \/ OpenStream
  \/ \E n \in 0 .. Chunk, how \in {"more", "eof"} : Read(n, how)
  \/ Send \/ SendBroken \/ CloseStream \/ Receive
  \/ Save \/ Stop \/ Join \/ Schedule

StepFails ==
  \/ (\E after \in RetryAfters \cup {0} : OpenFileFails(after))
  \/ OpenStreamFails \/ (\E n \in 0 .. Chunk : ReadFails(n))
  \/ CloseStreamFails \/ SaveFails \/ ScheduleFails \/ Crash

ReporterStops == AbortEdit \/ ReporterEnds

ReporterGoesOn == TakeText \/ Tick \/ Edit \/ EditFails

Server == ServerAnswersEarly \/ ServerFails

Next == StepGoesOn \/ StepFails \/ ReporterStops \/ ReporterGoesOn \/ Server \/ Finished

Spec == Init /\ [][Next]_vars

(* A Read returns in the end, calls have deadlines, and a cancelled        *)
(* goroutine ends.  Nothing is assumed of edits: Telegram may not answer.  *)
FairSpec == Spec /\ WF_vars(StepGoesOn) /\ WF_vars(ReporterStops)

----------------------------------------------------------------------------
(* client.go: the backend never makes a job of half a file, or of one that *)
(* does not say whose it is: whatever breaks, whichever end of the file    *)
(* comes with or without data, empty files too.                            *)
AcceptedWhole == job # NoJob => job = [header |-> TRUE, units |-> media.size]

(* durable.go:267: the row says that the backend has a job only when it    *)
(* has, and gives up only when it has none: an answer that was lost is     *)
(* neither.                                                                *)
RowTruthful ==
  /\ row = "poll" => job # NoJob
  /\ row = "deliver" => job = NoJob

(* progress.go:11: only the latest text matters, so it must not be lost in *)
(* the one place of the channel: when the goroutine has nothing left to    *)
(* do, the status message shows the newest text, whatever edits failed.    *)
QuietShowsNewest ==
  reporter = "wait" /\ telling = "no" /\ mail = 0 /\ latest = last => screen = told

(* What the attempt looks like to DurableJobs. *)
Phase ==
  CASE pc \in {"idle", "done"} -> "idle"
    [] pc = "save" -> IF rpc = "ok" THEN "save_job" ELSE "save_result"
    [] pc \in {"stop", "join"} -> "leave"
    [] pc = "retry" -> "retry"
    [] OTHER -> "submit"

Whole == [header |-> TRUE, units |-> media.size]

Held == IF job = NoJob THEN "nothing" ELSE IF job = Whole THEN "whole" ELSE "part"

Contract == INSTANCE UploadContract WITH
  refused <- media.refused, held <- Held, phase <- Phase, editing <- reporter = "edit"

(* The stage is what DurableJobs makes of it: however the file, the stream  *)
(* and the goroutine interleave and break, the backend takes the media as a *)
(* whole and once, only an answer of its own is recorded, and no edit is    *)
(* under way when the step has ended and its lock goes (progress.go:55).    *)
KeepsUploadContract == Contract!Spec

(* docs/durable-jobs.md:56: when an attempt has failed and the row is left  *)
(* to a later one, the delay is 2 to 256 seconds however often the job has *)
(* failed, or longer if Telegram asks for it, up to a day; it is never     *)
(* shorter than Telegram asks for.                                         *)
RetryHonest ==
  [][pc = "retry" /\ pc' = "idle" /\ faults' = faults =>
       /\ delay' \in 2 .. 256 \/ (delay' > 256 /\ delay' = Least(asked, OneDay))
       /\ delay' >= Least(asked, OneDay)]_vars

(* Media that can be read within uploadTimeout is submitted or refused in   *)
(* the end, whether the backend reads on or answers a repeated request      *)
(* early, and even if no edit is ever answered (progress.go:11: a slow      *)
(* Telegram must not stall the stream).  Media that cannot be read in time  *)
(* is tried again for ever.                                                 *)
FittingMediaSettled == media.size + 1 < Deadline ~> row # "upload"
=============================================================================

-------------------------- MODULE UploadStep_proofs --------------------------
(***************************************************************************)
(* The safety properties of UploadStep hold for media of any size, chunks, *)
(* report steps and deadlines of any length, any retry_after and any       *)
(* number of faults.                                                       *)
(*                                                                         *)
(* The argument has two halves that do not meet.  The stream: what has     *)
(* been sent is what has been read, but for the chunk at hand, and only    *)
(* the end of the file leads to the answer of an RPC that is still open.   *)
(* The texts: they only grow, the newest one is in the channel, with the   *)
(* goroutine or in the hands of a report, and what the screen shows is in  *)
(* doubt only as long as there is something newer to show.                 *)
(***************************************************************************)
EXTENDS UploadStep, TLAPS

USE UploadAssumption DEF rowVars, readVars, mailVars, reporterVars, backendVars, vars

Idle == pc \in {"idle", "retry", "done"}

(* Between two attempts nothing is left of the last one. *)
IdleInv ==
  Idle =>
    /\ got = 0 /\ lastReported = 0 /\ reads = 0 /\ buf = 0 /\ end = "more"
    /\ told = 0 /\ telling = "no" /\ mail = 0
    /\ reporter = "off" /\ ~cancelled /\ latest = 0 /\ last = 0 /\ screen = 0
    /\ rpc = "none" /\ stream = EmptyStream

(* What is in the stream when n units have been sent. *)
Sent(n) == IF n = 0 THEN EmptyStream ELSE [header |-> TRUE, units |-> n]

StreamInv ==
  /\ pc \in {"file", "opened", "open"} => got = 0 /\ stream = EmptyStream
  /\ pc = "read" => stream = Sent(got)
  /\ pc = "send" =>
       /\ buf <= got
       /\ stream = Sent(got - buf)
       /\ end = "eof" => got = media.size
       /\ end = "more" => buf > 0
  /\ pc = "receive" /\ RpcOpen => stream = [header |-> TRUE, units |-> media.size]

(* An answer is about the job there is. *)
AnswerInv ==
  /\ row # "upload" => pc \in {"stop", "join", "done"}
  /\ rpc = "ok" => job # NoJob
  /\ rpc = "invalid" => job = NoJob /\ media.refused
  /\ job # NoJob => ~media.refused
  /\ pc = "save" => rpc \in {"ok", "invalid"}

TextInv ==
  /\ telling = "no" => mail = told \/ (mail = 0 /\ latest = told)
  /\ telling # "no" => told > latest /\ told > mail
  /\ telling = "put" => mail = 0
  /\ mail # 0 => mail > latest
  /\ latest = last => screen = last
  /\ reporter = "edit" => latest # last

IInv ==
  /\ TypeOK
  /\ IdleInv
  /\ StreamInv /\ AcceptedWhole
  /\ AnswerInv /\ RowTruthful
  /\ TextInv

----------------------------------------------------------------------------
(* The numbers. *)

LEMMA Powers == \A k \in 1 .. 8 : 2 ^ k \in 2 .. 256
<1> SUFFICES ASSUME NEW k \in 1 .. 8 PROVE 2 ^ k \in 2 .. 256
  OBVIOUS
<1>1. k = 1 => 2 ^ k \in 2 .. 256
  <2>1. 2 ^ 1 = 2
    OBVIOUS
  <2> QED
    BY <2>1
<1>2. k = 2 => 2 ^ k \in 2 .. 256
  <2>1. 2 ^ 2 = 4
    OBVIOUS
  <2> QED
    BY <2>1
<1>3. k = 3 => 2 ^ k \in 2 .. 256
  <2>1. 2 ^ 3 = 8
    OBVIOUS
  <2> QED
    BY <2>1
<1>4. k = 4 => 2 ^ k \in 2 .. 256
  <2>1. 2 ^ 4 = 16
    OBVIOUS
  <2> QED
    BY <2>1
<1>5. k = 5 => 2 ^ k \in 2 .. 256
  <2>1. 2 ^ 5 = 32
    OBVIOUS
  <2> QED
    BY <2>1
<1>6. k = 6 => 2 ^ k \in 2 .. 256
  <2>1. 2 ^ 6 = 64
    OBVIOUS
  <2> QED
    BY <2>1
<1>7. k = 7 => 2 ^ k \in 2 .. 256
  <2>1. 2 ^ 7 = 128
    OBVIOUS
  <2> QED
    BY <2>1
<1>8. k = 8 => 2 ^ k \in 2 .. 256
  <2>1. 2 ^ 8 = 256
    OBVIOUS
  <2> QED
    BY <2>1
<1> QED
  BY <1>1, <1>2, <1>3, <1>4, <1>5, <1>6, <1>7, <1>8

(* retryDelay: 2 to 256 seconds, for any number of failures. *)
LEMMA RetryDelayRange == \A n \in Int : RetryDelay(n) \in 2 .. 256
<1> SUFFICES ASSUME NEW n \in Int PROVE RetryDelay(n) \in 2 .. 256
  OBVIOUS
<1>1. Least(Greatest(n, 0) + 1, 8) \in 1 .. 8
  BY DEF Least, Greatest
<1> QED
  BY <1>1, Powers DEF RetryDelay

(* retryAfter: the longer one of the two delays. *)
LEMMA RetryAfterRange ==
  ASSUME NEW n \in Int, NEW after \in Int
  PROVE  /\ RetryAfter(n, after) \in Nat
         /\ \/ RetryAfter(n, after) \in 2 .. 256
            \/ RetryAfter(n, after) > 256 /\ RetryAfter(n, after) = Least(after, OneDay)
         /\ RetryAfter(n, after) >= Least(after, OneDay)
<1>1. RetryDelay(n) \in 2 .. 256
  BY RetryDelayRange
<1> QED
  BY <1>1 DEF RetryAfter, Least, Greatest, OneDay

LEMMA MediaSize == TypeOK => media.size \in Nat
  BY DEF TypeOK, Media

----------------------------------------------------------------------------
LEMMA InitInvariant == Init => IInv
<1> SUFFICES ASSUME Init PROVE IInv
  OBVIOUS
<1>1. media.size \in Nat
  BY DEF Init, Media
<1>2. TypeOK
  <2>1. stream \in Stream
    <3>1. EmptyStream \in Stream
      BY DEF EmptyStream, Stream
    <3> QED
      BY <3>1 DEF Init
  <2>3. job \in Stream \cup {NoJob} /\ rpc \in Rpc
    BY DEF Init, Rpc
  <2>2. attempts \in 0 .. MaxAttempts
    BY DEF Init
  <2>4. /\ media \in Media /\ row = "upload" /\ delay = 0 /\ pc = "idle" /\ asked = 0
        /\ got = 0 /\ lastReported = 0 /\ reads = 0 /\ buf = 0 /\ end = "more"
        /\ told = 0 /\ telling = "no" /\ mail = 0 /\ reporter = "off" /\ cancelled = FALSE
        /\ latest = 0 /\ last = 0 /\ screen = 0 /\ faults = 0
    BY DEF Init
  <2>5. /\ got \in 0 .. media.size /\ lastReported \in 0 .. got /\ reads \in 0 .. Deadline
        /\ buf \in 0 .. Chunk /\ told \in Nat /\ mail \in 0 .. told /\ latest \in 0 .. told
        /\ last \in 0 .. latest /\ screen \in 0 .. latest /\ faults \in 0 .. MaxFaults
    BY <1>1, <2>4
  <2> QED
    BY <2>1, <2>2, <2>3, <2>4, <2>5 DEF TypeOK
<1> QED
  BY <1>2 DEF Init, IInv, IdleInv, Idle, StreamInv, AnswerInv, TextInv, AcceptedWhole,
     RowTruthful

----------------------------------------------------------------------------
(* Texts. *)

LEMMA ReportKeeps ==
  ASSUME IInv, telling = "no", Report, UNCHANGED reporterVars
  PROVE  /\ told' \in Nat /\ telling' \in {"no", "drain", "put"} /\ mail' \in 0 .. told'
         /\ latest' \in 0 .. told' /\ last' \in 0 .. latest' /\ screen' \in 0 .. latest'
         /\ TextInv'
  BY DEF IInv, TypeOK, TextInv, Report

LEMMA SameTexts ==
  ASSUME IInv, UNCHANGED <<mailVars, reporterVars>>
  PROVE  /\ told' \in Nat /\ telling' \in {"no", "drain", "put"} /\ mail' \in 0 .. told'
         /\ latest' \in 0 .. told' /\ last' \in 0 .. latest' /\ screen' \in 0 .. latest'
         /\ TextInv'
  BY DEF IInv, TypeOK, TextInv

(* What happens to the channel and in the goroutine does not touch the rest. *)
LEMMA TextStep ==
  ASSUME IInv, ReporterStops \/ ReporterGoesOn \/ Drain \/ Put
  PROVE  IInv'
<1> USE DEF IInv
<1>1. /\ UNCHANGED <<media, rowVars, pc, asked, readVars, backendVars>>
      /\ faults' \in 0 .. MaxFaults /\ cancelled' = cancelled
  BY DEF ReporterStops, ReporterGoesOn, AbortEdit, ReporterEnds, TakeText, Tick, Edit, EditFails,
     Drain, Put, Fault, TypeOK
<1>2. ~Idle
  BY DEF ReporterStops, ReporterGoesOn, AbortEdit, ReporterEnds, TakeText, Tick, Edit, EditFails,
     Drain, Put, IdleInv
<1>3. /\ told' \in Nat /\ telling' \in {"no", "drain", "put"} /\ mail' \in 0 .. told'
      /\ latest' \in 0 .. told' /\ last' \in 0 .. latest' /\ screen' \in 0 .. latest'
      /\ reporter' \in {"off", "wait", "edit"}
      /\ TextInv'
  <2> USE DEF TypeOK, TextInv
  <2>1. CASE AbortEdit \/ ReporterEnds
    BY <2>1 DEF AbortEdit, ReporterEnds
  <2>2. CASE TakeText
    BY <2>2 DEF TakeText
  <2>3. CASE Tick \/ Edit
    BY <2>3 DEF Tick, Edit
  <2>4. CASE EditFails
    BY <2>4 DEF EditFails, ShownByFailedEdit
  <2>5. CASE Drain \/ Put
    BY <2>5 DEF Drain, Put
  <2> QED
    BY <2>1, <2>2, <2>3, <2>4, <2>5 DEF ReporterStops, ReporterGoesOn
<1>4. TypeOK'
  BY <1>1, <1>3 DEF TypeOK
<1>5. IdleInv' /\ StreamInv' /\ AnswerInv'
  BY <1>1, <1>2 DEF IdleInv, Idle, StreamInv, AnswerInv, RpcOpen
<1>6. AcceptedWhole' /\ RowTruthful'
  BY <1>1 DEF AcceptedWhole, RowTruthful
<1> QED
  BY <1>3, <1>4, <1>5, <1>6

----------------------------------------------------------------------------
(* The stream. *)

(* A step that changes neither texts nor stream. *)
LEMMA PlainStep ==
  ASSUME IInv,
         \/ \E after \in RetryAfters \cup {0} : OpenFileFails(after)
         \/ OpenStream \/ OpenStreamFails \/ SendBroken \/ Receive
         \/ Save \/ SaveFails \/ Stop
  PROVE  IInv'
<1> USE DEF IInv, Step, Fault
<1>1. CASE \E after \in RetryAfters \cup {0} : OpenFileFails(after)
  BY <1>1, SameTexts DEF OpenFileFails, TypeOK, StepPc, Streaming, IdleInv, Idle, StreamInv,
     AnswerInv, AcceptedWhole, RowTruthful
<1>2. CASE OpenStream
  BY <1>2, SameTexts DEF OpenStream, TypeOK, StepPc, Streaming, Rpc, IdleInv, Idle, StreamInv,
     AnswerInv, AcceptedWhole, RowTruthful, Sent, EmptyStream
<1>3. CASE OpenStreamFails
  BY <1>3, SameTexts DEF OpenStreamFails, TypeOK, StepPc, Streaming, IdleInv, Idle, StreamInv,
     AnswerInv, AcceptedWhole, RowTruthful
<1>4. CASE SendBroken
  BY <1>4, SameTexts DEF SendBroken, AfterBrokenSend, TypeOK, StepPc, Streaming, IdleInv, Idle,
     StreamInv, RpcOpen, AnswerInv, AcceptedWhole, RowTruthful
<1>5. CASE Receive
  BY <1>5, SameTexts DEF Receive, Final, TypeOK, StepPc, Streaming, IdleInv, Idle,
     StreamInv, AnswerInv, AcceptedWhole, RowTruthful
<1>6. CASE Save
  BY <1>6, SameTexts DEF Save, TypeOK, StepPc, Streaming, IdleInv, Idle,
     StreamInv, AnswerInv, AcceptedWhole, RowTruthful
<1>7. CASE SaveFails
  BY <1>7, SameTexts DEF SaveFails, TypeOK, StepPc, Streaming, IdleInv, Idle,
     StreamInv, AnswerInv, AcceptedWhole, RowTruthful
<1>8. CASE Stop
  <2>1. TextInv'
    BY <1>8 DEF Stop, TextInv
  <2> QED
    BY <1>8, <2>1 DEF Stop, TypeOK, StepPc, Streaming, IdleInv, Idle, StreamInv, AnswerInv,
       AcceptedWhole, RowTruthful
<1> QED
  BY <1>1, <1>2, <1>3, <1>4, <1>5, <1>6, <1>7, <1>8

(* A step that reports a text. *)
LEMMA ReadStep ==
  ASSUME IInv,
         \/ OpenFile \/ AnnounceUpload
         \/ \E n \in 0 .. Chunk, how \in {"more", "eof"} : Read(n, how)
         \/ \E n \in 0 .. Chunk : ReadFails(n)
  PROVE  IInv'
<1> USE DEF IInv, Step, Fault
<1>1. CASE OpenFile
  <2>1. telling = "no" /\ (Report \/ UNCHANGED mailVars) /\ UNCHANGED reporterVars
    BY <1>1 DEF OpenFile
  <2> QED
    BY <1>1, <2>1, SameTexts, ReportKeeps DEF OpenFile, TypeOK, StepPc, Streaming, IdleInv, Idle,
       StreamInv, AnswerInv, AcceptedWhole, RowTruthful
<1>2. CASE AnnounceUpload
  <2>1. telling = "no" /\ Report /\ UNCHANGED reporterVars
    BY <1>2 DEF AnnounceUpload
  <2> QED
    BY <1>2, <2>1, ReportKeeps DEF AnnounceUpload, TypeOK, StepPc, Streaming, IdleInv, Idle,
       StreamInv, AnswerInv, AcceptedWhole, RowTruthful
<1>3. ASSUME NEW n \in 0 .. Chunk, NEW how \in {"more", "eof", "error"}, ReadReturns(n, how),
             how = "more" => n > 0, how = "eof" => got + n = media.size,
             faults' \in 0 .. MaxFaults
      PROVE  IInv'
  <2>1. /\ pc = "read" /\ telling = "no" /\ (Report \/ UNCHANGED mailVars)
        /\ UNCHANGED <<media, rowVars, asked, reporterVars, backendVars>>
        /\ pc' = "send" /\ buf' = n /\ end' = how /\ got' = got + n /\ got + n <= media.size
        /\ lastReported' \in {lastReported, got + n}
        /\ reads' \in {reads, reads + 1} /\ (reads' = reads + 1 => reads < Deadline)
    BY <1>3 DEF ReadReturns
  <2>2. /\ told' \in Nat /\ telling' \in {"no", "drain", "put"} /\ mail' \in 0 .. told'
        /\ latest' \in 0 .. told' /\ last' \in 0 .. latest' /\ screen' \in 0 .. latest'
        /\ TextInv'
    BY <2>1, SameTexts, ReportKeeps
  <2>3. /\ got' \in 0 .. media'.size /\ lastReported' \in 0 .. got' /\ reads' \in 0 .. Deadline
        /\ buf' \in 0 .. Chunk /\ got' - buf' = got /\ buf' <= got'
    BY <1>3, <2>1, MediaSize DEF TypeOK
  <2>4. TypeOK'
    BY <1>3, <2>1, <2>2, <2>3 DEF TypeOK, StepPc, Streaming
  <2>5. StreamInv'
    BY <1>3, <2>1, <2>3 DEF StreamInv, Sent
  <2> QED
    BY <2>1, <2>2, <2>4, <2>5 DEF IdleInv, Idle, AnswerInv, AcceptedWhole, RowTruthful
<1>4. CASE \E n \in 0 .. Chunk, how \in {"more", "eof"} : Read(n, how)
  BY <1>3, <1>4 DEF Read, TypeOK
<1>5. CASE \E n \in 0 .. Chunk : ReadFails(n)
  BY <1>3, <1>5 DEF ReadFails, TypeOK
<1> QED
  BY <1>1, <1>2, <1>4, <1>5

(* What has been read has been sent; the end of the file ends the stream. *)
LEMMA SendStep == ASSUME IInv, Send PROVE IInv'
<1> USE DEF IInv
<1>1. /\ pc = "send" /\ pc' = AfterSend
      /\ RpcOpen \/ (buf = 0 /\ ~(end = "eof" /\ First))
      /\ CASE buf > 0 -> stream' = [header |-> First \/ stream.header, units |-> stream.units + buf]
           [] buf = 0 /\ end = "eof" /\ First -> AtEnd
           [] OTHER -> UNCHANGED stream
      /\ UNCHANGED <<media, rowVars, asked, readVars, mailVars, reporterVars, rpc, job, faults>>
  BY DEF Send, Step
<1>2. /\ got \in Nat /\ buf \in Nat /\ buf <= got /\ media.size \in Nat
      /\ stream = Sent(got - buf) /\ end \in {"more", "eof", "error"}
      /\ end = "eof" => got = media.size
      /\ end = "more" => buf > 0
  BY <1>1, MediaSize DEF TypeOK, StreamInv
<1>3. buf > 0 => stream' = [header |-> TRUE, units |-> got]
  <2> SUFFICES ASSUME buf > 0 PROVE stream' = [header |-> TRUE, units |-> got]
    OBVIOUS
  <2>1. stream.units = got - buf /\ (First \/ stream.header)
    BY <1>2 DEF Sent, EmptyStream, First
  <2>2. stream' = [header |-> First \/ stream.header, units |-> stream.units + buf]
    BY <1>1
  <2>3. (First \/ stream.header) = TRUE /\ stream.units + buf = got
    BY <1>2, <2>1 DEF First
  <2> QED
    BY <2>2, <2>3
<1>4. buf = 0 /\ end = "eof" => stream' = [header |-> TRUE, units |-> media.size]
  <2> SUFFICES ASSUME buf = 0, end = "eof" PROVE stream' = [header |-> TRUE, units |-> media.size]
    OBVIOUS
  <2>1. stream = Sent(media.size)
    BY <1>2
  <2>2. CASE First
    BY <1>1, <1>2, <2>1, <2>2 DEF First, AtEnd, Sent, EmptyStream
  <2>3. CASE ~First
    BY <1>1, <2>1, <2>3 DEF First, Sent
  <2> QED
    BY <2>2, <2>3
<1>5. end = "error" /\ buf = 0 => stream' = stream
  BY <1>1
<1>6. stream' \in Stream
  <2>1. /\ [header |-> TRUE, units |-> got] \in Stream
        /\ [header |-> TRUE, units |-> media.size] \in Stream
        /\ stream \in Stream
    BY <1>2 DEF Stream, TypeOK
  <2>2. buf > 0 \/ (buf = 0 /\ end \in {"eof", "error"})
    BY <1>2
  <2> QED
    BY <1>3, <1>4, <1>5, <2>1, <2>2
<1>7. pc' \in {"read", "receive", "stop"}
  BY <1>1, <1>2 DEF AfterSend
<1>8. TypeOK' /\ TextInv'
  BY <1>1, <1>6, <1>7, SameTexts DEF TypeOK, StepPc, Streaming
<1>9. StreamInv'
  <2>1. CASE end = "more"
    BY <1>1, <1>2, <1>3, <2>1 DEF StreamInv, AfterSend, Sent
  <2>2. CASE end = "eof"
    <3>1. pc' = "receive"
      BY <1>1, <2>2 DEF AfterSend
    <3>2. stream' = [header |-> TRUE, units |-> media'.size]
      BY <1>1, <1>2, <1>3, <1>4, <2>2
    <3> QED
      BY <3>1, <3>2 DEF StreamInv
  <2>3. CASE end = "error"
    BY <1>1, <2>3 DEF StreamInv, AfterSend
  <2> QED
    BY <1>2, <2>1, <2>2, <2>3
<1> QED
  BY <1>1, <1>7, <1>8, <1>9 DEF IdleInv, Idle, AnswerInv, AcceptedWhole, RowTruthful

(* The backend answers, or does not. *)
LEMMA AnswerStep ==
  ASSUME IInv, CloseStream \/ CloseStreamFails \/ ServerAnswersEarly \/ ServerFails
  PROVE  IInv'
<1> USE DEF IInv, Step, Fault
<1>1. /\ UNCHANGED <<media, rowVars, pc, asked, readVars, mailVars, reporterVars, stream>>
      /\ faults' \in 0 .. MaxFaults /\ pc \in {"read", "send", "receive"} /\ RpcOpen
      /\ rpc' \in {"ok", "invalid", "failed"}
  BY DEF CloseStream, CloseStreamFails, ServerAnswersEarly, ServerFails, TypeOK, Streaming
<1>2. job' = job \/ (pc = "receive" /\ job = NoJob /\ job' = stream)
  BY DEF CloseStream, CloseStreamFails, ServerAnswersEarly, ServerFails
<1>3. pc = "receive" => stream = [header |-> TRUE, units |-> media.size]
  BY <1>1 DEF StreamInv
<1>4. /\ rpc' = "ok" => job' # NoJob
      /\ rpc' = "invalid" => job' = NoJob /\ media.refused
      /\ job' # NoJob => ~media.refused
  <2>1. CASE CloseStream
    <3>1. stream # NoJob
      BY <1>3, <2>1, MediaSize DEF CloseStream, NoJob
    <3> QED
      BY <2>1, <3>1 DEF CloseStream, AnswerInv
  <2>2. CASE CloseStreamFails
    BY <2>2 DEF CloseStreamFails, AnswerInv
  <2>3. CASE ServerAnswersEarly \/ ServerFails
    BY <2>3 DEF ServerAnswersEarly, ServerFails, AnswerInv
  <2> QED
    BY <2>1, <2>2, <2>3
<1>5. TextInv' /\ TypeOK'
  BY <1>1, <1>2, SameTexts DEF TypeOK, Rpc
<1>6. AcceptedWhole'
  BY <1>1, <1>2, <1>3 DEF AcceptedWhole
<1>7. StreamInv'
  BY <1>1 DEF StreamInv, RpcOpen
<1>8. row = "upload" /\ row' = "upload"
  BY <1>1 DEF AnswerInv, TypeOK
<1> QED
  BY <1>1, <1>4, <1>5, <1>6, <1>7, <1>8 DEF IdleInv, Idle, AnswerInv, RowTruthful

----------------------------------------------------------------------------
(* Begin and end of an attempt. *)

LEMMA BeginStep == ASSUME IInv, Begin PROVE IInv'
<1> USE DEF IInv
<1>1. /\ pc = "idle" /\ row = "upload" /\ pc' = "file" /\ delay' = 0 /\ asked' = 0
      /\ told' = 1 /\ mail' = 1 /\ reporter' = "wait"
      /\ UNCHANGED <<media, row, attempts, readVars, telling, cancelled, latest, last, screen,
                     backendVars, faults>>
  BY DEF Begin
<1>2. /\ got = 0 /\ telling = "no" /\ latest = 0 /\ last = 0 /\ screen = 0
      /\ rpc = "none" /\ stream = EmptyStream
  BY <1>1 DEF IdleInv, Idle
<1>3. TextInv'
  BY <1>1, <1>2 DEF TextInv
<1>4. TypeOK'
  BY <1>1, <1>2 DEF TypeOK, StepPc
<1> QED
  BY <1>1, <1>2, <1>3, <1>4 DEF IdleInv, Idle, StreamInv, AnswerInv, AcceptedWhole, RowTruthful

LEMMA EndStep == ASSUME IInv, Join \/ Crash PROVE IInv'
<1> USE DEF IInv
<1>1. /\ Forget /\ UNCHANGED <<media, rowVars, asked, job>> /\ reporter' = "off"
      /\ faults' \in 0 .. MaxFaults
      /\ pc' \in {"idle", "retry", "done"} /\ (row # "upload" => pc' = "done")
      /\ pc # "idle"
  BY DEF Join, Joined, Crash, Step, Fault, TypeOK, StepPc, Streaming
<1>2. /\ told' = 0 /\ telling' = "no" /\ mail' = 0 /\ got' = 0 /\ lastReported' = 0
      /\ reads' = 0 /\ buf' = 0 /\ end' = "more" /\ cancelled' = FALSE /\ latest' = 0
      /\ last' = 0 /\ screen' = 0 /\ rpc' = "none" /\ stream' = EmptyStream
  BY <1>1 DEF Forget, ForgetTexts
<1>3. stream' \in Stream /\ rpc' \in Rpc
  <2>1. EmptyStream \in Stream
    BY DEF EmptyStream, Stream
  <2> QED
    BY <1>2, <2>1 DEF Rpc
<1>4. /\ got' \in 0 .. media'.size /\ lastReported' \in 0 .. got' /\ reads' \in 0 .. Deadline
      /\ buf' \in 0 .. Chunk /\ told' \in Nat /\ mail' \in 0 .. told' /\ latest' \in 0 .. told'
      /\ last' \in 0 .. latest' /\ screen' \in 0 .. latest'
  BY <1>1, <1>2, MediaSize
<1>5. TypeOK'
  BY <1>1, <1>2, <1>3, <1>4 DEF TypeOK
<1>6. IdleInv' /\ TextInv'
  BY <1>1, <1>2 DEF IdleInv, TextInv
<1>7. StreamInv' /\ AnswerInv' /\ AcceptedWhole' /\ RowTruthful'
  BY <1>1, <1>2 DEF StreamInv, AnswerInv, AcceptedWhole, RowTruthful
<1> QED
  BY <1>5, <1>6, <1>7

LEMMA ScheduleStep == ASSUME IInv, Schedule \/ ScheduleFails PROVE IInv'
<1> USE DEF IInv, Fault
<1>1. /\ pc = "retry" /\ pc' = "idle"
      /\ UNCHANGED <<media, row, asked, readVars, mailVars, reporterVars, backendVars>>
      /\ faults' \in 0 .. MaxFaults
  BY DEF Schedule, ScheduleFails, TypeOK
<1>2. asked \in Int /\ attempts \in Int
  BY DEF TypeOK
<1>3. \/ UNCHANGED <<attempts, delay>>
      \/ delay' = RetryAfter(attempts, asked) /\ attempts' \in 0 .. MaxAttempts
  BY DEF Schedule, ScheduleFails, TypeOK, Least
<1>4. delay' \in Nat /\ attempts' \in 0 .. MaxAttempts
  BY <1>2, <1>3, RetryAfterRange DEF TypeOK
<1>5. TypeOK' /\ TextInv'
  BY <1>1, <1>4, SameTexts DEF TypeOK
<1> QED
  BY <1>1, <1>5 DEF IdleInv, Idle, StreamInv, RpcOpen, AnswerInv, AcceptedWhole, RowTruthful
----------------------------------------------------------------------------
LEMMA NextInvariant == IInv /\ [Next]_vars => IInv'
<1> SUFFICES ASSUME IInv, [Next]_vars PROVE IInv'
  OBVIOUS
<1>1. CASE UNCHANGED vars
  BY <1>1 DEF IInv, TypeOK, IdleInv, Idle, StreamInv, RpcOpen, AnswerInv, AcceptedWhole, RowTruthful,
     TextInv
<1>2. CASE StepGoesOn
  BY <1>2, TextStep, PlainStep, ReadStep, SendStep, AnswerStep, BeginStep, EndStep, ScheduleStep
     DEF StepGoesOn
<1>3. CASE StepFails
  BY <1>3, PlainStep, ReadStep, AnswerStep, EndStep, ScheduleStep DEF StepFails
<1>4. CASE ReporterStops \/ ReporterGoesOn
  BY <1>4, TextStep
<1>5. CASE Server
  BY <1>5, AnswerStep DEF Server
<1> QED
  BY <1>1, <1>2, <1>3, <1>4, <1>5 DEF Next, Finished

LEMMA InvariantHolds == Spec => []IInv
  BY InitInvariant, NextInvariant, PTL DEF Spec

----------------------------------------------------------------------------
(* The variables have the types that TypeOK gives them. *)
THEOREM TypeCorrect == Spec => []TypeOK
<1>1. IInv => TypeOK
  BY DEF IInv
<1> QED
  BY <1>1, InvariantHolds, PTL

(* client.go: no job is ever made of half a file. *)
THEOREM StreamSafety == Spec => []AcceptedWhole
<1>1. IInv => AcceptedWhole
  BY DEF IInv
<1> QED
  BY <1>1, InvariantHolds, PTL

(* durable.go:267: the row agrees with the backend, whatever answer is     *)
(* lost.                                                                   *)
THEOREM AnswerSafety == Spec => []RowTruthful
<1>1. IInv => RowTruthful
  BY DEF IInv
<1> QED
  BY <1>1, InvariantHolds, PTL

(* progress.go:11: the newest text is never lost. *)
THEOREM NewestTextSafety == Spec => []QuietShowsNewest
<1>1. IInv => QuietShowsNewest
  BY DEF IInv, TextInv, QuietShowsNewest, TypeOK
<1> QED
  BY <1>1, InvariantHolds, PTL

(* The step that leaves the row to a later attempt. *)
LEMMA RetryStep ==
  ASSUME IInv, [Next]_vars, pc = "retry", pc' = "idle", faults' = faults
  PROVE  /\ delay' \in 2 .. 256 \/ (delay' > 256 /\ delay' = Least(asked, OneDay))
         /\ delay' >= Least(asked, OneDay)
<1>1. Schedule
  <2>1. pc' # pc /\ faults' # faults + 1
    BY DEF IInv, TypeOK
  <2>2. ~StepFails
    BY <2>1 DEF StepFails, OpenFileFails, OpenStreamFails, ReadFails, CloseStreamFails, SaveFails,
       ScheduleFails, Crash, Fault, Step
  <2>3. ~ReporterStops /\ ~ReporterGoesOn /\ ~Server /\ ~Finished /\ ~UNCHANGED vars
    BY <2>1 DEF ReporterStops, AbortEdit, ReporterEnds, ReporterGoesOn, TakeText, Tick, Edit,
       EditFails, Server, ServerAnswersEarly, ServerFails, Finished
  <2>4. StepGoesOn
    BY <2>2, <2>3 DEF Next
  <2>5. ~Drain /\ ~Put
    BY <2>1 DEF Drain, Put
  <2>6. ~\E n \in 0 .. Chunk, how \in {"more", "eof"} : Read(n, how)
    BY <2>1 DEF Read, ReadReturns, Step
  <2>7. ~Begin /\ ~OpenFile /\ ~AnnounceUpload /\ ~OpenStream
    BY <2>1 DEF Begin, OpenFile, AnnounceUpload, OpenStream, Step
  <2>8. ~Send /\ ~SendBroken /\ ~CloseStream /\ ~Receive
    BY <2>1 DEF Send, SendBroken, CloseStream, Receive, Step
  <2>9. ~Save /\ ~Stop /\ ~Join
    BY <2>1 DEF Save, Stop, Join, Step
  <2> QED
    BY <2>4, <2>5, <2>6, <2>7, <2>8, <2>9 DEF StepGoesOn
<1>2. delay' = RetryAfter(attempts, asked) /\ attempts \in Int /\ asked \in Int
  BY <1>1 DEF Schedule, IInv, TypeOK
<1> QED
  BY <1>2, RetryAfterRange

(* docs/durable-jobs.md:56: a stored delay is never zero, short of what    *)
(* Telegram asks for, or endless, for any number of failed attempts and    *)
(* any retry_after.                                                        *)
THEOREM RetrySafety == Spec => RetryHonest
<1>1. IInv /\ [Next]_vars =>
        [pc = "retry" /\ pc' = "idle" /\ faults' = faults =>
           /\ delay' \in 2 .. 256 \/ (delay' > 256 /\ delay' = Least(asked, OneDay))
           /\ delay' >= Least(asked, OneDay)]_vars
  BY RetryStep
<1> QED
  BY <1>1, InvariantHolds, PTL DEF Spec, RetryHonest

----------------------------------------------------------------------------
(* The step implements UploadContract. *)

(* The row is about to be, or has been, settled by what the backend holds. *)
LEMMA HeldCases ==
  ASSUME IInv
  PROVE  /\ Held \in {"nothing", "whole"}
         /\ Held = "whole" <=> job # NoJob
<1> QED
  BY DEF IInv, AcceptedWhole, Whole, Held

LEMMA PhaseCases ==
  ASSUME IInv
  PROVE  /\ Phase \in {"submit", "save_job", "save_result", "leave", "retry", "idle"}
         /\ Phase = "idle" <=> pc \in {"idle", "done"}
         /\ Phase = "retry" <=> pc = "retry"
         /\ Phase = "leave" <=> pc \in {"stop", "join"}
         /\ Phase = "save_job" => pc = "save" /\ job # NoJob
         /\ Phase = "save_result" => pc = "save" /\ job = NoJob /\ media.refused
  BY DEF IInv, AnswerInv, Phase

LEMMA InitAllowed == Init => Contract!Init
  BY DEF Init, Media, Contract!Init, Held, Phase

(* A step within one phase that leaves the row and the backend alone.      *)
LEMMA Unseen ==
  ASSUME UNCHANGED <<media, row, job, rpc>>, Phase' = Phase,
         (reporter' = "edit") <=> (reporter = "edit")
  PROVE  UNCHANGED Contract!vars
  BY DEF Contract!vars, Held, Whole

(* The goroutine and its texts. *)
LEMMA ReporterAllowed ==
  ASSUME IInv, ReporterStops \/ ReporterGoesOn \/ Drain \/ Put
  PROVE  Contract!Next \/ UNCHANGED Contract!vars
<1>1. UNCHANGED <<media, row, pc, job, rpc>> /\ ~Idle
  BY DEF ReporterStops, ReporterGoesOn, AbortEdit, ReporterEnds, TakeText, Tick, Edit, EditFails,
     Drain, Put, IInv, IdleInv
<1>2. Phase' = Phase /\ Held' = Held
  BY <1>1 DEF Phase, Held, Whole
<1>3. CASE Tick
  <2>1. Phase \in Contract!Calling \cup {"leave"}
    BY <1>1, PhaseCases DEF Idle, Contract!Calling
  <2>2. Contract!StartEdit
    BY <1>1, <1>2, <1>3, <2>1 DEF Tick, Contract!StartEdit
  <2> QED
    BY <2>2 DEF Contract!Next
<1>4. CASE Edit \/ EditFails \/ AbortEdit
  <2>1. Contract!EndEdit
    BY <1>1, <1>2, <1>4 DEF Edit, EditFails, AbortEdit, Contract!EndEdit
  <2> QED
    BY <2>1 DEF Contract!Next
<1>5. CASE TakeText \/ ReporterEnds \/ Drain \/ Put
  BY <1>1, <1>2, <1>5, Unseen DEF TakeText, ReporterEnds, Drain, Put
<1> QED
  BY <1>3, <1>4, <1>5 DEF ReporterStops, ReporterGoesOn

(* The file and the stream, up to the answer of the backend. *)
LEMMA StreamAllowed ==
  ASSUME IInv,
         \/ OpenFile \/ AnnounceUpload \/ OpenStream \/ Send \/ SendBroken
         \/ \E n \in 0 .. Chunk, how \in {"more", "eof"} : Read(n, how)
         \/ \E n \in 0 .. Chunk : ReadFails(n)
         \/ (\E after \in RetryAfters \cup {0} : OpenFileFails(after)) \/ OpenStreamFails
  PROVE  Contract!Next \/ UNCHANGED Contract!vars
<1>1. /\ UNCHANGED <<media, row, job, reporter>>
      /\ pc \in {"file", "opened", "open", "read", "send"}
      /\ pc' \in {"file", "opened", "open", "read", "send", "receive", "stop"}
  BY DEF OpenFile, AnnounceUpload, OpenStream, Send, AfterSend, SendBroken, AfterBrokenSend, Read,
     ReadFails, ReadReturns, OpenFileFails, OpenStreamFails, Step, IInv, TypeOK
<1>2. Phase = "submit" /\ Phase' \in {"submit", "leave"} /\ Held' = Held
  BY <1>1 DEF Phase, Held, Whole
<1>3. CASE Phase' = "submit"
  BY <1>1, <1>2, <1>3 DEF Contract!vars
<1>4. CASE Phase' = "leave"
  <2>1. Contract!Fail
    BY <1>1, <1>2, <1>4 DEF Contract!Fail, Contract!Calling
  <2> QED
    BY <2>1 DEF Contract!Next
<1> QED
  BY <1>2, <1>3, <1>4

(* The backend takes the media or not; the step learns of it or not. *)
LEMMA AnswerAllowed ==
  ASSUME IInv, IInv', CloseStream \/ CloseStreamFails \/ Server
  PROVE  Contract!Next \/ UNCHANGED Contract!vars
<1>1. /\ UNCHANGED <<media, row, pc, reporter>>
      /\ pc \in {"read", "send", "receive"}
      /\ job' = job \/ (job = NoJob /\ ~media.refused)
  BY DEF CloseStream, CloseStreamFails, Server, ServerAnswersEarly, ServerFails, Step, Streaming
<1>2. Phase = "submit" /\ Phase' = "submit"
  BY <1>1 DEF Phase
<1>3. CASE job' = job
  <2>1. Held' = Held
    BY <1>1, <1>3 DEF Held, Whole
  <2> QED
    BY <1>1, <1>2, <2>1 DEF Contract!vars
<1>4. CASE job' # job
  <2>1. Held = "nothing" /\ Held' = "whole" /\ ~media.refused
    BY <1>1, <1>4 DEF Held, Whole, IInv, AcceptedWhole
  <2>2. Contract!AcceptUpload
    BY <1>1, <1>2, <2>1 DEF Contract!AcceptUpload
  <2> QED
    BY <2>2 DEF Contract!Next
<1> QED
  BY <1>3, <1>4

LEMMA ReceiveAllowed ==
  ASSUME IInv, IInv', Receive \/ Save \/ SaveFails
  PROVE  Contract!Next
<1>1. UNCHANGED <<media, job, rpc, reporter>> /\ Held' = Held
  BY DEF Receive, Save, SaveFails, Held, Whole
<1>2. CASE Receive
  <2>1. Phase = "submit" /\ UNCHANGED row /\ pc' \in {"save", "stop"}
    BY <1>2 DEF Receive, Step, Phase
  <2>2. CASE pc' = "stop"
    <3>1. Phase' = "leave"
      BY <2>2 DEF Phase
    <3>2. Contract!Fail
      BY <1>1, <2>1, <3>1 DEF Contract!Fail, Contract!Calling
    <3> QED
      BY <3>2 DEF Contract!Next
  <2>3. CASE pc' = "save"
    <3>1. rpc \in {"ok", "invalid"}
      BY <1>2, <2>3 DEF Receive, Final
    <3>2. Phase' = IF rpc = "ok" THEN "save_job" ELSE "save_result"
      BY <1>1, <2>3 DEF Phase
    <3>3. IF rpc = "ok" THEN Held = "whole" ELSE media.refused /\ Held = "nothing"
      BY <3>1, HeldCases DEF IInv, AnswerInv
    <3>4. Contract!Answer
      BY <1>1, <2>1, <3>2, <3>3 DEF Contract!Answer
    <3> QED
      BY <3>4 DEF Contract!Next
  <2> QED
    BY <2>1, <2>2, <2>3
<1>3. CASE Save
  <2>1. pc = "save" /\ pc' = "stop" /\ row' = IF rpc = "ok" THEN "poll" ELSE "deliver"
    BY <1>3 DEF Save, Step
  <2>2. Phase = (IF rpc = "ok" THEN "save_job" ELSE "save_result") /\ Phase' = "leave"
    BY <2>1 DEF Phase
  <2>3. Contract!Save
    BY <1>1, <2>1, <2>2 DEF Contract!Save
  <2> QED
    BY <2>3 DEF Contract!Next
<1>4. CASE SaveFails
  <2>1. UNCHANGED row /\ pc = "save" /\ pc' = "stop"
    BY <1>4 DEF SaveFails, Step
  <2>2. Phase \in Contract!Calling /\ Phase' = "leave"
    BY <2>1 DEF Phase, Contract!Calling
  <2>3. Contract!Fail
    BY <1>1, <2>1, <2>2 DEF Contract!Fail
  <2> QED
    BY <2>3 DEF Contract!Next
<1> QED
  BY <1>2, <1>3, <1>4

(* Begin and end of an attempt. *)
LEMMA AttemptAllowed ==
  ASSUME IInv, Begin \/ Stop \/ Join \/ Schedule \/ ScheduleFails \/ Crash
  PROVE  Contract!Next \/ UNCHANGED Contract!vars
<1>1. UNCHANGED <<media, row, job>> /\ Held' = Held
  BY DEF Begin, Stop, Join, Schedule, ScheduleFails, Crash, Held, Whole
<1>2. CASE Begin
  <2>1. Phase = "idle" /\ Phase' = "submit" /\ reporter = "off" /\ reporter' = "wait" /\ row = "upload"
    BY <1>2 DEF Begin, Phase, IInv, IdleInv, Idle
  <2>2. Contract!Claim
    BY <1>1, <2>1 DEF Contract!Claim
  <2> QED
    BY <2>2 DEF Contract!Next
<1>3. CASE Stop
  <2>1. Phase = "leave" /\ Phase' = "leave" /\ UNCHANGED reporter
    BY <1>3 DEF Stop, Step, Phase
  <2> QED
    BY <1>1, <2>1 DEF Contract!vars
<1>4. CASE Join
  <2>1. /\ Phase = "leave" /\ Phase' = IF row = "upload" THEN "retry" ELSE "idle"
        /\ reporter = "off" /\ UNCHANGED reporter
    BY <1>4 DEF Join, Joined, Step, Phase
  <2>2. Contract!Leave
    BY <1>1, <2>1 DEF Contract!Leave
  <2> QED
    BY <2>2 DEF Contract!Next
<1>5. CASE Schedule \/ ScheduleFails
  <2>1. Phase = "retry" /\ Phase' = "idle" /\ UNCHANGED reporter
    BY <1>5 DEF Schedule, ScheduleFails, Phase
  <2>2. Contract!Retry
    BY <1>1, <2>1 DEF Contract!Retry
  <2> QED
    BY <2>2 DEF Contract!Next
<1>6. CASE Crash
  <2>1. Phase # "idle" /\ Phase' = "idle" /\ reporter' = "off"
    BY <1>6, PhaseCases DEF Crash, StepPc, Streaming, Phase
  <2>2. Contract!Crash
    BY <1>1, <2>1 DEF Contract!Crash
  <2> QED
    BY <2>2 DEF Contract!Next
<1> QED
  BY <1>2, <1>3, <1>4, <1>5, <1>6

(* The stage as it is written does what DurableJobs makes of it: whatever  *)
(* the file, the stream, the backend and the goroutine do, every step is   *)
(* one of UploadContract, or changes nothing that it speaks of.            *)
THEOREM StepKeepsUploadContract == Spec => KeepsUploadContract
<1>1. ASSUME IInv, IInv', [Next]_vars
      PROVE  [Contract!Next]_Contract!vars
  <2>1. CASE UNCHANGED vars
    BY <2>1 DEF Contract!vars, Held, Whole, Phase
  <2>2. CASE Next
    BY <1>1, <2>2, ReporterAllowed, StreamAllowed, AnswerAllowed, ReceiveAllowed, AttemptAllowed, <2>1
       DEF Next, StepGoesOn, StepFails, ReporterStops, ReporterGoesOn, Finished
  <2> QED
    BY <1>1, <2>1, <2>2
<1> QED
  BY <1>1, InitAllowed, InvariantHolds, PTL DEF Spec, KeepsUploadContract, Contract!Spec
=============================================================================

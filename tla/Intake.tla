------------------------------- MODULE Intake -------------------------------
(***************************************************************************)
(* How updates enter the database: RunContext, intake and persistBatch of  *)
(* bot/bot/durable.go over the Poller of bot/store/durable.go.             *)
(*                                                                         *)
(* Instances of the bot compete for the poller lock of the database.  The  *)
(* owner reads the cursor, asks Telegram for the updates from there on -   *)
(* which tells Telegram to forget the earlier ones - and commits the batch *)
(* together with the next cursor, always on the connection that owns the   *)
(* lock.  The server may end that session at any time (it is idle during   *)
(* the request); the process notices at its next statement only, and       *)
(* meanwhile another instance may have taken over.  The other way round,   *)
(* the session of a peer that vanished keeps the lock until the server     *)
(* gives it up, and every instance waits for it.                           *)
(***************************************************************************)
EXTENDS Integers

CONSTANTS
  Process,     \* instances of the bot
  NoProcess,   \* the holder of a free poller lock
  Ghost,       \* the holder of a lock whose session has lost its peer
  MaxUpdates,  \* bound: how many updates Telegram produces
  MaxBatch,    \* how many updates a response holds at most
  FaultKinds,  \* the kinds of faults that may happen
  MaxFaults    \* bound: how many faults happen

ASSUME IntakeAssumption ==
  /\ NoProcess \notin Process
  /\ Ghost \notin Process \cup {NoProcess}
  /\ MaxUpdates \in Nat
  /\ MaxBatch \in Nat \ {0}
  /\ FaultKinds \subseteq {"call", "store", "session", "crash"}
  /\ MaxFaults \in Nat

Update == 1 .. MaxUpdates

(* The updates of a response: from first on, next is the one after them. *)
Batch == [first : 1 .. MaxUpdates + 1, next : 1 .. MaxUpdates + 1]
NoBatch == [first |-> 1, next |-> 1]

VARIABLES
  (* Telegram *)
  sent,       \* the ids of the updates so far are 1 .. sent
  forgotten,  \* the updates with a smaller id are confirmed and gone
  (* the database *)
  inbox,      \* the ids of the rows of bot_inbox
  cursor,     \* next_update_id
  owner,      \* whose session owns the poller lock
  (* the processes *)
  pc, offset, batch,
  faults

telegramVars == <<sent, forgotten>>
rowVars == <<inbox, cursor>>
localVars == <<pc, offset, batch>>
vars == <<telegramVars, rowVars, owner, localVars, faults>>

TypeOK ==
  /\ sent \in 0 .. MaxUpdates
  /\ forgotten \in 1 .. MaxUpdates + 1
  /\ inbox \subseteq Update
  /\ cursor \in 0 .. MaxUpdates + 1
  /\ owner \in Process \cup {NoProcess, Ghost}
  /\ pc \in [Process -> {"down", "open", "cursor", "request", "wait", "persist"}]
  /\ offset \in [Process -> 0 .. MaxUpdates + 1]
  /\ batch \in [Process -> Batch]
  /\ faults \in 0 .. MaxFaults

Init ==
  /\ sent = 0
  /\ forgotten = 1
  /\ inbox = {}
  /\ cursor = 0
  /\ owner = NoProcess
  /\ pc = [p \in Process |-> "down"]
  /\ offset = [p \in Process |-> 0]
  /\ batch = [p \in Process |-> NoBatch]
  /\ faults = 0

----------------------------------------------------------------------------
Exit(p) ==
  /\ pc' = [pc EXCEPT ![p] = "down"]
  /\ offset' = [offset EXCEPT ![p] = 0]
  /\ batch' = [batch EXCEPT ![p] = NoBatch]

(* RunContext returns and closes the poller, and the process exits. *)
Stop(p) ==
  /\ Exit(p)
  /\ owner' = IF owner = p THEN NoProcess ELSE owner

(* The session of p is gone from its end.  The server ends it at once, or  *)
(* has not heard of it.                                                    *)
Disconnect(p) ==
  owner' \in IF owner = p THEN {NoProcess, Ghost} ELSE {owner}

Goto(p, where) ==
  /\ pc' = [pc EXCEPT ![p] = where]
  /\ UNCHANGED <<offset, batch, owner>>

(* A statement of p on the poller's session reaches the database. *)
AtStore(p, where) == pc[p] = where /\ owner = p

(* The supervisor starts the process, or starts it again. *)
Start(p) ==
  /\ pc[p] = "down"
  /\ Goto(p, "open")
  /\ UNCHANGED <<telegramVars, rowVars, faults>>

(* ErrPollerOwned: RunContext tries again, for as long as it takes. *)
AwaitPoller(p) ==
  /\ pc[p] = "open"
  /\ owner # NoProcess
  /\ UNCHANGED vars

(* OpenPoller gets the lock. *)
OpenPoller(p) ==
  /\ pc[p] = "open"
  /\ owner = NoProcess
  /\ owner' = p
  /\ pc' = [pc EXCEPT ![p] = "cursor"]
  /\ UNCHANGED <<telegramVars, rowVars, offset, batch, faults>>

(* Mutant of NextOffset: asks for what follows the last update of all. *)
NextOffsetNewest == sent + 1

(* The offset of the next request, cursor_read.sql. *)
NextOffset == cursor

ReadCursor(p) ==
  /\ AtStore(p, "cursor")
  /\ offset' = [offset EXCEPT ![p] = NextOffset]
  /\ pc' = [pc EXCEPT ![p] = "request"]
  /\ UNCHANGED <<telegramVars, rowVars, owner, batch, faults>>

(* getUpdates reaches Telegram: what precedes the offset is confirmed. *)
Confirm(o) ==
  /\ forgotten' = IF o > forgotten THEN o ELSE forgotten
  /\ UNCHANGED sent

Request(p) ==
  /\ pc[p] = "request"
  /\ Confirm(offset[p])
  /\ Goto(p, "wait")
  /\ UNCHANGED <<rowVars, faults>>

(* Up to MaxBatch updates, as Telegram had them at some time since the      *)
(* request, and perhaps some before the offset once more; it waits for a    *)
(* new one, so a response has none only when nothing was left.              *)
Respond(p) ==
  /\ pc[p] = "wait"
  /\ \E first \in 1 .. forgotten, next \in 1 .. sent + 1 :
       /\ first < next \/ first = sent + 1
       /\ offset[p] < next \/ next = sent + 1
       /\ next \in first .. first + MaxBatch
       /\ batch' = [batch EXCEPT ![p] = [first |-> first, next |-> next]]
  /\ pc' = [pc EXCEPT ![p] = "persist"]
  /\ UNCHANGED <<telegramVars, rowVars, owner, offset, faults>>

(* persistBatch: updates before the offset are skipped. *)
Records(p) == {i \in batch[p].first .. batch[p].next - 1 : i >= offset[p]}

(* Mutant of NextCursor: the offset is the last update, not the one after. *)
NextCursorSameUpdate(p) ==
  IF Records(p) = {} THEN offset[p] ELSE batch[p].next - 1

(* Mutant of NextCursor: the offset skips the update after the batch. *)
NextCursorSkips(p) == IF Records(p) = {} THEN offset[p] ELSE batch[p].next + 1

(* persistBatch: one past the last record, or the offset itself. *)
NextCursor(p) == IF Records(p) = {} THEN offset[p] ELSE batch[p].next

(* cursor_write.sql never moves the cursor back. *)
Greatest(a, b) == IF a >= b THEN a ELSE b

(* Mutant of StoreBatch: the cursor is committed before the batch. *)
StoreBatchCursorOnly(p) ==
  /\ cursor' = Greatest(cursor, NextCursor(p))
  /\ UNCHANGED inbox

(* Poller.Accept: the rows (inbox_insert.sql skips those that exist) and   *)
(* the cursor, in one transaction.                                         *)
StoreBatch(p) ==
  /\ inbox' = inbox \cup Records(p)
  /\ cursor' = Greatest(cursor, NextCursor(p))

PersistBatch(p) ==
  /\ AtStore(p, "persist")
  /\ StoreBatch(p)
  /\ pc' = [pc EXCEPT ![p] = "cursor"]
  /\ batch' = [batch EXCEPT ![p] = NoBatch]
  /\ UNCHANGED <<telegramVars, offset, owner, faults>>

(* Any statement on a session that has ended fails, and intake with it. *)
SessionLost(p) ==
  /\ pc[p] \in {"cursor", "persist"}
  /\ owner # p
  /\ Stop(p)
  /\ UNCHANGED <<telegramVars, rowVars, faults>>

----------------------------------------------------------------------------
Fault(kind) ==
  /\ kind \in FaultKinds
  /\ faults < MaxFaults
  /\ faults' = faults + 1

(* getUpdates fails, before or after it reached Telegram: tried again from *)
(* the stored cursor.                                                      *)
CallFails(p) ==
  /\ pc[p] \in {"request", "wait"}
  /\ Fault("call")
  /\ Confirm(offset[p]) \/ UNCHANGED telegramVars
  /\ Goto(p, "cursor")
  /\ UNCHANGED rowVars

(* A statement fails on a live session: RunContext gives up. *)
StoreFails(p) ==
  /\ pc[p] \in {"open", "cursor", "persist"}
  /\ Fault("store")
  /\ Stop(p)
  /\ UNCHANGED <<telegramVars, rowVars>>

(* The process dies or is told to stop, in the middle of anything. *)
Crash(p) ==
  /\ pc[p] # "down"
  /\ Fault("crash")
  /\ Exit(p)
  /\ Disconnect(p)
  /\ UNCHANGED <<telegramVars, rowVars>>

(* The poller's session ends, or its connection breaks without the server  *)
(* noticing; its process does not notice either.                           *)
EndSession(p) ==
  /\ owner = p
  /\ Fault("session")
  /\ Disconnect(p)
  /\ UNCHANGED <<telegramVars, rowVars, localVars>>

(* Mutant of GhostEnds: a session without a peer may idle for ever. *)
GhostStays == FALSE /\ UNCHANGED vars

(* poller_settings.sql: the server ends a poller's session that is idle     *)
(* for two minutes, whoever was at the other end.                           *)
GhostEnds ==
  /\ owner = Ghost
  /\ owner' = NoProcess
  /\ UNCHANGED <<telegramVars, rowVars, localVars, faults>>

NewUpdate ==
  /\ sent < MaxUpdates
  /\ sent' = sent + 1
  /\ UNCHANGED <<forgotten, rowVars, owner, localVars, faults>>

----------------------------------------------------------------------------
(* What a process does by itself. *)
Run(p) ==
  \/ Start(p) \/ AwaitPoller(p) \/ OpenPoller(p) \/ ReadCursor(p)
  \/ Request(p) \/ Respond(p) \/ PersistBatch(p) \/ SessionLost(p)

Disturb(p) == CallFails(p) \/ StoreFails(p) \/ Crash(p) \/ EndSession(p)

Next ==
  \/ \E p \in Process : Run(p) \/ Disturb(p)
  \/ GhostEnds
  \/ NewUpdate

Spec == Init /\ [][Next]_vars

(* Every request and every statement has a deadline, and the supervisor    *)
(* starts processes again.                                                 *)
ProcessesRun == \A p \in Process : WF_vars(Run(p))

(* The server keeps to its idle limit and to its keepalives.               *)
ServerRuns == WF_vars(GhostEnds)

FairSpec == Spec /\ ProcessesRun /\ ServerRuns

----------------------------------------------------------------------------
(* docs/durable-jobs.md, step 1: Telegram is never asked to forget an      *)
(* update that is not in the database, whichever process asks, and with    *)
(* whatever offset it has read, before or after it lost its session.       *)
NothingForgotten == \A i \in 1 .. sent : i < forgotten => i \in inbox

(* store/durable.go:96: a batch and its cursor commit together, so the      *)
(* cursor says exactly which updates are stored, across all takeovers.      *)
CursorTruthful ==
  /\ inbox \subseteq 1 .. sent
  /\ \A i \in 1 .. sent : i \in inbox <=> i < cursor

Feed == INSTANCE UpdateFeed

(* The intake feeds the inbox in order, without gaps or duplicates. *)
KeepsFeed == Feed!Spec

(* An instance that is down, waits for the lock or has lost it does not    *)
(* keep the updates from being stored, and neither does the session that   *)
(* one has left behind (store/durable.go:67).                              *)
EveryUpdateStored == \A i \in Update : sent >= i ~> i \in inbox
=============================================================================

# TLA+ specification of transcriber-bot

The repository is a Telegram bot (Go) that turns voice messages and videos into
text with the help of a Whisper backend (gRPC).  Its core is a set of durable
protocols over PostgreSQL: no update may be lost between Telegram and the
database, admission must be serial, and a transcription must reach the user
exactly as far as Telegram permits, through crashes, restarts, lost database
connections and calls whose answer never comes.  This directory models those
protocols and what they stand on (the upload itself, the connection pool, the
migrations at start-up), checks them with TLC and proves their safety with
TLAPS.  Paths below are relative to the repository.

## 1. The system

### Components

| Component | State | Operations | Interacts with |
|---|---|---|---|
| update intake (`bot/bot/durable.go` `RunContext`, `intake`, `persistBatch`; `bot/store/durable.go` `Poller`) | `bot_cursors`, `bot_inbox`, the poller's session lock | open the poller, read the cursor, getUpdates, commit batch and cursor, close | Telegram (an offset confirms), another instance of the bot |
| admission (`inboxLoop`, `acceptUpdate`, `Store.ProcessInbox`) | `bot_inbox.handled`, `chats`, `bot_presets`, the inbox lock | take the first update, write membership, preset or cancellation through the pool, insert the job and mark the update in one transaction | intake (reads its rows), pipeline (inserts its jobs) |
| job pipeline (`workLoop`, `step`, `deliver`, `Store.WithWork`, `Work`) | `transcription_jobs`, `transcription_deliveries`, one session lock per job | list and claim due jobs; stages `status → upload → poll → deliver → done`; retry with backoff | Telegram, the backend, admission, other workers |
| cancellation (`RequestCancel`, stage `poll`) | `cancel_requested` | written without the job's lock, replayed by the poll stage | pipeline |
| upload progress (`bot/bot/progress.go`) | a one-place channel, a goroutine per upload | edit the status message while the media is downloaded and submitted | pipeline (joined before the unlock) |
| media download (`bot/bot/handler.go` `downloadFile`) | the reader's byte count | getFile, open the local file or the HTTP body, report every 5 MiB | backend client (reads it), progress |
| backend client (`bot/whisper/client.go`) | none | the stream of SubmitDurable, GetStatus, Cancel, Ack | backend |
| connection pool (`bot/store/store.go`, `Acquire` and `Release` in `store/durable.go`, `RunContext`, `bot/main.go`) | idle connections, session locks and settings of each | acquire, lock, unlock, release; shut down in order | every goroutine |
| database start-up (`bot/store/store.go`, `migrate.go`) | schema and its ledger, the migration lock | connect with retries, migrate in one transaction under a lock | all of the above |
| message formatting (`bot/bot/handler.go`, `bot/tgfmt`) | none | split a text at the message limit, HTML, commands, keyboards | pipeline, admission |
| deployment (`scripts/images.py`) | `current.json`, `previous.json`, a lock file | build, activate, roll back | host |
| configuration, logging, telemetry, protocol snapshot | none of the protocol's | | |

### What is hard

* Locks are PostgreSQL *session* advisory locks.  When the server ends a session it
  frees the lock at once, and the process that held it finds out at its
  next statement **on that connection** — a download, a gRPC call or a Telegram
  call later.  Until then it is a *zombie*: it acts on what it has read, next to
  the worker that took the lock over.  The other way round, the session of a process
  that vanished keeps its lock until the server notices.
* Calls have effects outside the database that can happen without an answer.
* A crash can come between any two steps.
* Cancellation, memberships and presets are written without the job's or the
  inbox's connection.
* Two workers per stage, backoff and retries against FIFO per chat.
* Telegram forgets updates on request; the request is sent before the batch it
  answers is stored.
* An upload is read and sent at the same time, under a deadline, while the server
  may answer before the end, and a goroutine edits the status message meanwhile.
* Session locks and session settings stay with a pooled connection, and one
  goroutine needs two connections at once.
* Processes of several releases may start on one database.

`hazards` in `PROJECT.json` lists each of these at its line, with the
properties that would catch it.

### What makes each component correct

* intake: Telegram forgets only what is stored; the cursor says exactly what is
  stored; every update is stored in the end, whoever polls.
* admission: as if updates were applied one by one; a job stays what it was admitted
  as, one per message, and has its reasons in earlier updates even when connections
  are lost; a handled cancellation has taken effect; no update waits for ever.
* pipeline: the backend drops a job only after its outcome is stored; the
  stored outcome is the true one and final; parts in order, receipts true; FIFO per
  chat; a worker that owns its lock repeats and covers nothing; a done job is
  complete, every rune of its text in one message; no job is ever stuck, and an
  accepted one is done in the end.
* upload: the backend never makes a job of half a file; the row says that it has a
  job only when it has; the newest progress text is the one that stays, and none
  comes after the join; delays are neither too short nor endless.
* pool: nobody waits for a connection; what goes back is as good as new; the
  process ends when it should.
* start-up: the ledger says what the schema is, every migration once and in order;
  a bot that serves has all it needs; every bot serves in the end.

## 2. The modules

| Module | What it is |
|---|---|
| `DurableJobs` | the pipeline, the core of the system |
| `JobContract` | abstract: what the bot promises for a job, without workers, locks and stages |
| `DurableJobsRefinement` | `DurableJobs` implements `JobContract` (refinement mapping) |
| `DurableJobsInvariant` | the inductive invariant and the rely/guarantee relations |
| `DurableJobs_proofs` | its proofs |
| `DurableJobsRefinement_proofs` | the proof that `DurableJobs` implements `JobContract` |
| `DurableJobsOwner_proofs` | what owners of a lock do, and what holds while no connection is lost |
| `Intake` | the intake, several instances of the bot |
| `UpdateFeed` | abstract: updates reach the inbox in order, gapless, once, and are forgotten afterwards |
| `Intake_proofs` | invariant and refinement proofs |
| `Admission` | the admission, several loops |
| `SerialInbox` | abstract: stored updates are applied one after the other, each in one step |
| `Admission_proofs` | invariant and proofs, of the refinement too |
| `UploadStep` | the upload stage of one job from the inside: download, stream, progress, backoff |
| `UploadContract` | abstract: what a visit to the stage `upload` does for the rest of the bot |
| `UploadStep_proofs` | invariant and proofs, of the refinement too |
| `ConnectionPool` | the connections of one process and who holds them, from start to exit |
| `ConnectionPool_proofs` | invariant and proofs |
| `Migrations` | processes of several releases that start on one database |
| `Migrations_proofs` | invariant and proofs |
| `MCDurableJobs`, `MCIntake`, `MCAdmission`, `MCUploadStep`, `MCConnectionPool`, `MCMigrations` | instances for TLC |

`Intake`, `Admission` and `DurableJobs` meet at the tables: `Intake` fills `bot_inbox`
(`Admission!Arrive` appends what `Intake!PersistBatch` stores, in id order, by
`KeepsFeed`), `Admission` inserts jobs (`DurableJobs!Admit` takes one at a time
in update order and never changes it, by `HandledInOrder` and `JobsStand`) and runs
`job_cancel.sql` (`DurableJobs!RequestCancel`).  `UploadStep` is one visit of
`DurableJobs` to the stage `upload`, where it is the steps from `Submit` to
`SaveSubmitted` or `SaveResult`; `AcceptedWhole` and `RowTruthful` are what
`DurableJobs!Submit` takes for granted, and `UploadContract`, which `UploadStep`
implements, has the order of those steps: the backend answers, the row is written,
the goroutine's last edit ends, the step ends.  `ConnectionPool` has the locks of the
other modules seen from the sessions that own them, for one process: that a lock
is free again when its holder is done, which they take for granted, is its
`CleanSessions`.

Definitions named "Mutant of X" are faulty versions of X used to show that a
property can fail; no specification uses them.

### DurableJobs and the code

Variables of a row are the columns of `0002_durable_jobs.sql`: `state`,
`due` (`next_attempt_at <= now()`), `jobId` (`job_id <> ''`), `cancel`
(`cancel_requested`), `result`, `acked`, `outbox` and `receipt` (the rows of
`transcription_deliveries`, and those marked delivered).  `lock[j]` is the worker
whose session owns the advisory lock.  A *worker* is one iteration of
`workLoop`, of any stage and process: loops keep nothing between iterations.
`pc` says which call or which statement is next, so that two workers interleave
between any two of them; `cand` is the candidate list read without a lock,
`part`, `outcome`, `ackErr` are locals of `deliver` and `step`.  `backend`,
`screen` and `shown` are the backend's job for the request id, the status
message, and the parts Telegram has been given.

Actions: `ListCandidates`, `SkipCandidate`, `Claim` are `WithWork`; `SendStatus`
... `SaveSubmitted` and `CallCancel` ... `SaveResult` are `step`; `CallAck` ...
`Complete` are `deliver`; `Retry` is the error path of `workLoop`; `FencedOut` is
any statement of a worker that does not own its lock any more.  `CallFails` is a
call that fails before or after its effect, `StoreFails` a statement that fails
while the session survives (`statement_timeout`, `store.go:41`),
`IterationFails` an error before the claim, `Crash` and `LoseConnection` the rest.

### Intake and the code

`owner` is the session that holds the poller lock, `offset` and `batch` are
locals of `intake`, `forgotten` what Telegram has been told to drop.  The session
may end during the long poll (`EndSession`), another instance takes over
(`OpenPoller`), and the first one goes on to `Request` and `Respond` until
`SessionLost`.  A process that returns closes its session (`Stop`); one that dies, or
whose connection breaks, may leave it to the server (`Disconnect`): then `owner` is
`Ghost`, every instance waits (`AwaitPoller`, the loop over `ErrPollerOwned`), and only
`GhostEnds`, which is `poller_settings.sql`, frees the lock.

### Admission and the code

`inbox` keeps the content of handled updates as history (the code replaces it by
`'{}'`) so that properties can refer to it.  `pc` is the next statement of an
iteration: those of `PoolPc` run through the pool, whoever owns the lock, and
only `Commit` runs on the connection that owns it.  `lost` is a history variable.
Each instance of the bot has one inbox loop (`RunContext`, durable.go): two loops of
the model exist when an instance whose session has ended, and which has not noticed
yet, still runs beside the one that took over.

### UploadStep and the code

`pc` is the place in `step` (stage `upload`), `downloadFile` and `SubmitDurable`:
`read` and `send` alternate as in the loop of `client.go`, because nothing is
buffered between the download and the stream.  A unit of `media.size` is what a
slow download delivers between two Reads, `Chunk` what one Read can take;
`reads` counts them against `uploadTimeout`, so that a deadline can expire
anywhere.  A Read returns data, data with the end, the end alone, or an error
(`ReadReturns`); a server may answer or fail before the end (`Server`), after
which a Send breaks and `Receive` has the reason.  `told` numbers the progress
texts, `telling` is where a report stands between its two selects (`Drain`,
`Put`), `mail` is the channel, `latest` and `last` are the locals of the
goroutine.  `attempts` and `delay` are the columns the backoff is computed from
(`RetryDelay` has the shift and its cap, `RetryAfter` what Telegram asks for).

### ConnectionPool and the code

`pc` is where each goroutine is: `main` is `RunContext` with `Poller` and the end
of `main.go`, `inbox` the loop over `ProcessInbox`, a worker `workLoop` over
`WithWork`.  A *seat* is a place in the code that may hold a connection; `inbox`
and `admit` are two seats of one goroutine, which takes a connection for
`acceptUpdate` while it holds the one with the inbox lock.  `held` has the session
of each seat: its locks, whether it has the idle limit of a poller, whether it is
alive.  `idle` is the pool.  `PutBack` drops a dead connection as pgxpool does;
`Discard` is `Hijack` and `Close`, or a connection closed by `unlock` when its
statement fails.

### Migrations and the code

`pc` runs through `store.New` and `migrate`: begin, `migrate_lock.sql`,
`migrate_init.sql`, then for each entry `check`, `exec`, `record`, then commit.
`executed` and `recorded` are what an open transaction has done, `schema` and
`ledger` what is committed.  `Ghost` holds the lock of a process that died before
PostgreSQL has noticed it.

## 3. What is checked

| Run | Instance | Properties |
|---|---|---|
| `faults` | 1 job whose text of 4 runes takes 2 messages of 2, 2 workers, ≤ 4 faults of every kind | type, `AckAfterDurable`, `ResultTruthful`, `DoneIsComplete`, `PartsInOrder`, `TranscriptComplete`, `OwnersDoNoHarm`, `NothingStale`, refinement of `JobContract` |
| `chat` | 2 jobs of a chat, the first refused by the backend, 2 faults | `FifoPerChat`, `NobodyStuck` |
| `connected` | 1 job with preset "lecture", every fault but a lost connection, ≤ 4 | `ResultStaysVisible`, `ConfirmedNotResent` |
| `live` | 2 jobs of a chat, 1 failed call or lost connection, fair loops | `AcceptedEventuallyDone`, `CancelReachesBackend` |
| `zombie_progress` | 1 lost connection | `ResultStaysVisible` is **violated** |
| `zombie_delivery` | 1 lost connection | `ConfirmedNotResent` is **violated** |
| `intake` | 2 instances, 4 updates, batches ≤ 2, ≤ 3 faults, fair | type, `NothingForgotten`, `CursorTruthful`, refinement of `UpdateFeed`, `EveryUpdateStored` |
| `admission` | 2 loops, 3 updates of 7 contents, ≤ 2 faults, fair | type, `SerialUnlessLost`, `HandledInOrder`, `CancelNotLost`, `JobsStand`, refinement of `SerialInbox` while no connection is lost (`AppliesInOrder`), `EveryUpdateHandled` |
| `admission_zombie` | 1 lost connection | `SerialAdmission` is **violated** |
| `upload` | files of 0, 2 and 3 units, chunks of 2, 4 Reads in the deadline, every kind of media, ≤ 2 faults, a fair step | type, `AcceptedWhole`, `RowTruthful`, `QuietShowsNewest`, `RetryHonest`, refinement of `UploadContract`, `FittingMediaSettled` |
| `pool` | 2 workers, 2 jobs, 4 connections configured and 5 enforced | type, `NobodyWaits`, `CleanSessions`, `ShutdownEnds` |
| `migrations` | 2 bots and a `bot migrate`, of releases with 1 and 3 migrations, ≤ 4 starts, ≤ 2 faults, fair | `SchemaTruthful`, `EveryoneServes` |

Bounds, and why they are enough:

* Two workers (instances, loops): every hazard here is one zombie against one
  successor.  Loops keep nothing, so a third worker only repeats what a later
  iteration of the second one does.  The proofs do not depend on the number.
* One job in `faults`: the only conditions between jobs are those of
  `job_candidates.sql` in a chat, which `chat` and `live` have, with a first job
  that may be refused (that path skips `poll`).
* Two parts: one that edits the status message, one that follows it.
* Four faults in a job's life let a connection be lost, a crash follow, and a
  call fail on either side; two in a chat of two jobs.
* Four updates in batches of two: an empty batch, a full one, and one behind it.
* Three updates: one to change a setting, one to change it back, one message
  that depends on it.  The contents are a message sent in two updates, one of
  the owner, a group joined and left, a preset, a cancellation.
* Four runes in messages of two: the text ends where a message ends, which is
  where an empty part would come from; a lecture has the other plan.
* An empty file, one that fits a chunk, one that does not; four Reads are enough for
  the first two and not always for the last, so the deadline does expire in the
  middle of a stream.  `StartAttempts` is 60, long past the cap of the backoff and
  where a shift without it leaves 64 bits; `RetryAfters` has a value below, between and above the limits.
* Five connections for two workers are the twelve for eight of `store.go`: one to
  spare.  Two jobs let two workers take different ones or meet at one.
* Releases of one and of three migrations: one that leaves nothing to do to the
  other, in either order, with a middle entry that can fail.
* `MaxFaults`, `MaxUpdates`, `MaxStarts`, `MaxAttempts` and the sets of jobs bound the models; no run has a
  state constraint.

Deadlock is checked in every run; `Quiescent` says that idle loops go on asking.

### Fairness

`LoopsRun` and `ProcessesRun` are weak fairness of each worker's own steps: every
call has a deadline (70 s for getUpdates, context deadlines and
`statement_timeout` elsewhere), an iteration that fails is followed by another
after a second or a backoff, and a process that exits is started again
(`restart: unless-stopped` in the compose file).  `WF(BecomeDue)` is the
passing of time.  `BackendRuns` (the backend ends what it has accepted) is
external, and is a premise of `AcceptedEventuallyDone` only.  `ServerRuns` is the
server's idle limit, which `OpenPoller` sets, and its keepalives, which `store.go`
sets for every connection; without it (mutant `GhostStays`) `EveryUpdateStored`
fails.  Faults are finite in
number by `MaxFaults`, so liveness says what happens once they stop.  Nothing
forces updates, cancellations or faults to happen.

In `UploadStep` the step goes on (`StepGoesOn`: Reads and Sends end by the
deadline of the RPC at the latest, statements by theirs) and a cancelled goroutine
ends (`ReporterStops`); nothing is assumed of edits, so `FittingMediaSettled` also
says that a Telegram that does not answer cannot stall the stream.
In `ConnectionPool` a goroutine is assumed to get on only once its context is
cancelled (`Stopping`): calls return then.  In `Migrations` statements end, Docker
restarts a bot (`GoesOn`) and PostgreSQL ends the session of a process that is gone
(`GhostEnds`).

## 4. Where documentation and code differ

The three that a run shows come from a connection lost in the middle of an
iteration.

* `zombie_progress`: `progress.go:55` says the join keeps old progress from
  overwriting a result.  It orders the goroutine before the worker's own unlock;
  a lost connection unlocks earlier.
* `zombie_delivery`: `docs/durable-jobs.md:63` and `README.md:65` say confirmed
  parts are not sent again.  A worker that has picked a part does not look at its
  lock before it sends it.
* `admission_zombie`: `store/durable.go:134` says preferences and membership are
  serialized in update order.  They are written through the pool, so the late
  write of an iteration that lost its lock lands on top of later updates.  The second
  loop is that of another instance, which has taken over while the first one has not
  noticed the end of its sessions.

With connections that stay (`connected`, and by proof: `NoRepeats`,
`OutcomeVisible`) or while none has been lost (`SerialUnlessLost`,
`AppliesInOrder`) each of the three
holds.  The harm is the zombie's alone: `OwnersDoNoHarm` holds with lost connections
too, so whoever still owns the lock repeats no confirmed part and covers no outcome.  What the database itself stores of
jobs (`NothingStale`, `HandledInOrder`, ...) holds in any case.

One more was seen while modelling and has no run, since no line states it as a
property: `downloadTimeout` in `handler.go` is 30 minutes and
`docs/durable-jobs.md:46` says that downloads can take much longer than a poll,
but the download is read inside the RPC, whose `uploadTimeout` of 120 s
(`client.go:22`) therefore covers all of it.  Media that cannot be read within
that time is tried again for ever, and blocks its chat.  `FittingMediaSettled` is
about the media that fits.

## 5. What is proved

For all values of the constants, from the assumptions named at the constants
(`JobAssumption`, `IntakeAssumption`, `AdmissionAssumption`, `UploadAssumption`,
`PoolAssumption`, `MigrationAssumption`):

* `DurableJobs_proofs`: `TypeCorrect`, `AckSafety`, `ResultSafety`, `DoneSafety`,
  `FifoSafety`, `DeliverySafety` (parts in order, receipts true), `ProgressSafety`
  (no job is stuck), `TranscriptSafety` (the whole text, every rune once),
  `RowsOnlyAdvance` (no row goes back, no outcome is rewritten).
* `DurableJobsRefinement_proofs`: `PipelineKeepsContract` (every step is a step or a
  stutter of `JobContract`).
* `DurableJobsOwner_proofs`: `OwnerSafety`; and, with `"loss" \notin FaultKinds` as a
  hypothesis, `NoRepeats` (`ConfirmedNotResent`) and `OutcomeVisible`
  (`ResultStaysVisible`), which section 4 shows to be violated without it.
* `Intake_proofs`: `TypeCorrect`, `NothingLost`, `CursorSafety`, `IntakeKeepsFeed`
  (every step is a step or a stutter of `UpdateFeed`).
* `Admission_proofs`: `SerialSafety`, `OrderSafety`, `JobSafety`,
  `CancelSafety`, `TypeCorrect`, `AdmissionAppliesInOrder` (until the first lost
  connection every step is a step or a stutter of `SerialInbox`).
* `UploadStep_proofs`: `TypeCorrect`, `StreamSafety`, `AnswerSafety`,
  `NewestTextSafety`, `RetrySafety`, `StepKeepsUploadContract` (every step is a step or
  a stutter of `UploadContract`).
* `ConnectionPool_proofs`: `TypeCorrect`, `CapacitySafety`, `SessionSafety`.
* `Migrations_proofs`: `TypeCorrect`, `SchemaSafety`.

**Pipeline.**  None of the safety properties is inductive: that an Ack comes
after the outcome depends on what an acknowledging worker knows, even when its
lock is gone.  `IInv` has a part per row (`RowInv`, `OutcomeInv`, `PartsInv`), per
pair of jobs (`OrderInv`) and per worker (`CandInv`, `StepInv`, `AnswerInv`).  A
worker's part separates facts that stay true without the lock (the job has left
`upload`, a part and its predecessors are in the outbox) from those that need it
(`Fresh`: the row is still in the stage that was read).  The proof is by rely and
guarantee: every step satisfies `Onward` (what it leaves of a job to others) and
`Undisturbed`, and both preserve the invariant of every other worker; then
only the acting worker's own part remains, per action.

**Progress.**  `NobodyStuck` is the part of `AcceptedEventuallyDone` that is a state
property, for any number of jobs.  A lock is owned by a worker in a step of that job
(`LocksInv`); a job that is blocked waits for earlier ones of its chat in `status` or
`upload`, and the first of those (`FirstOf`, by well-foundedness of the naturals) is
blocked by none.

**Owners.**  An owner knows that its row is still in the stage it was read in
(`Fresh`), hence that nothing is in the outbox before the result, and a part it has
picked is confirmed by nobody else while it owns the lock (`ReceiptStep`,
`SendingStep`).  `EveryoneOwns` (who is in a step owns its lock) is an invariant
where no connection is lost, and what is true of owners is then true of all.  That an
outcome stays on the screen needs one more fact, `ResultOnScreen`: it is there from
the moment part 0 is sent, before its receipt.

That a split text is complete is arithmetic: rune `r` is in part
`(r - 1) \div MaxMsgRunes` (`SplitCovers`) and in no other (`SplitDisjoint`).

**Contract.**  `IInv` is what each step of `JobContract` asks for: `Take` that the
earlier jobs of the chat are past their upload (`Unblocked`), `Decide` that the
outcome is what the backend has (`AnswerInv`), `Show` that the earlier parts are
confirmed, `Complete` that the outbox is the plan.  A call has one lemma for its
effect (`AcceptUploadAllowed`, `ReleaseJobAllowed`, `ShowPartAllowed`, ...), used
where it is answered, where its answer is lost, and where the process dies.

**Intake.**  `ProcessInv`: no process holds an offset ahead of the cursor, the
owner's is the cursor and its batch begins there.  What a zombie holds does not
matter for the tables, which it cannot write, but its offset does for Telegram:
it only ever confirms what is stored.

**Admission.**  `IInv` gives order and uniqueness in every behaviour.  `SerialInv`
is about behaviours without a lost connection: the settings are those of the
updates handled so far *or of one more*, because an iteration may have written
its setting and failed before the mark; the one iteration at work is the owner
of the lock; and from the moment it decides, the settings are those of its own
update.  That an effect may be applied twice is lemma `EffectDone`: from
either of the two settings it leads to the second.  The decision about a
message is then right by `ServesNext` and `ChosenNext`, which say what one more
update changes.  That the *first* admissible update of a message has the job
(`SerialConclusion`) comes from `JobOf`, which avoids an induction over updates.

**Jobs.**  `JobsStand` is for behaviours with lost connections, where the settings may
be old.  `FoundedInv` says what is left of them: each was made by an update that is
handled or the first in line (`MadeMember`, `MadeChoice`), because even a zombie works
on such an update.  An owner of the inbox lock that asks for a preset works on a media
that is not handled; it makes no setting itself, so what it finds comes from earlier
updates (`MadeBefore`), and its verdict keeps that reason until `Commit`, which needs
the lock (`FoundedLoop`).  `CommitNext` has the rest: the update is the first one not
handled, and has no job.

**Serial inbox.**  `Served` and `ChosenSoFar` map the settings to what the handled
updates amount to, not to the tables, which may be one update ahead: an update takes
effect in the step `Commit`, whatever its iteration, or an earlier one that failed, has
written before.  That step is `Apply` (`ApplyAllowed`): `ServesNext`, `ChosenNext` and
`ChosenLast` are what the update does to the settings, and `Right`, from `SerialInv`,
says that the verdict read from the tables is the one the mapped settings give.
`Arrive` is `Store` (`StoreAllowed`), the rest stutters (`Unseen`).

**Upload.**  Two halves that do not meet.  `StreamInv`: what has been sent is what has
been read but for the chunk at hand, and only the end of the file leads to an
answer of an RPC that is still open.  `TextInv`: texts only grow; the newest is in
the channel, with the goroutine, or in the hands of a report that has found the
channel full; what the screen shows is in doubt only while something newer is to
be shown.  `RetryHonest` speaks of the step that leaves the row to a later attempt:
the delay it stores is arithmetic (`RetryStep`), for every number of attempts.

**Upload contract.**  `Phase`, `Whole` and `Held` map the step to `UploadContract`.  The
reports and the reads are stutters (`ReporterAllowed`, `StreamAllowed`); the steps with
an effect are the server's answer, the row (`AnswerInv`: an answer was received before
it is written) and the join, which waits until no edit is under way.

**Pool.**  Which seats hold a connection follows from where the goroutines are
(`MainInv`, `InboxInv`, `WorkerInv`), so whoever wants one leaves a seat empty, and
there are at most `Cardinality(Worker) + 2` others: fewer than `MinConns`, by
`PoolAssumption`.  A session is clean before its lock is granted and after its
release, and a pool of clean sessions stays one.

**Migrations.**  Whoever is past `migrate_lock.sql` has the lock (`Exclusive`), so at
most one transaction has written anything; what it has written continues the
committed schema without a gap (`Continues`), because the entries are looked at in
order.

The invariants have been checked with TLC on the runs' instances before they
were proved.

**Only model-checked:** the liveness properties (fairness and ENABLED are out of the
prover's reach; no module declares a recursive operator or needs induction over data): `EveryUpdateStored`, `EveryUpdateHandled`, `AcceptedEventuallyDone`,
`CancelReachesBackend`, `FittingMediaSettled`, `ShutdownEnds`, `EveryoneServes`.  Every
other property of a passing run is stated by a theorem.

## 6. Assumptions about the outside

* The backend remembers the request ids of jobs it has released: the same
  request id never starts a second transcription.  Cancel for a job it does not
  know returns `cancelled=false` and no error.
* A request that was abandoned by its caller is not applied after that: an
  effect of a failed call happens before the failure is seen.
* Telegram's update ids increase and unconfirmed updates are kept; a response may
  have updates before the offset once more.
* Telegram takes a part that is within `maxMsgRunes`: `TranscriptComplete` counts in
  the splitter's own unit, runes, and cannot see that Telegram may count in another.
* PostgreSQL frees the session locks of a connection when it ends, not before;
  a transaction is atomic.  The session of a peer that vanished without a word is
  kept for a while in `Intake` and `Migrations`, where it makes everybody wait; the
  keepalives that end such a session of a job or of the inbox are taken to act at once,
  which shortens a wait of a minute and changes no safety property.  A `pg_try_advisory_lock` that fails with an error has
  taken no lock, or its connection is closed.
* pgxpool hands out the connection that was released last, and drops closed ones.
* A truncated HTTP body is a read error; a Read returns something or an end.

Abstracted: texts, wording and keyboards; how long delays are (`due` becomes true
at some time); `attempts`, `progress_text`, `LIMIT 32` and the order of the candidate
list (any candidate may be tried first, which allows more than the code does);
retention of old rows; replies to commands and callbacks, which are best effort.
In `Intake`, either the fenced connection or `GREATEST` with `ON CONFLICT` alone
would keep the tables right; the code has both, and the properties cannot tell
them apart.

## 7. Plan

Done, in order of importance: the pipeline with its contract and proofs, the
intake with its feed and proofs, the admission with its proofs, the upload from
the inside, the connection pool with the shutdown, the migrations, the
refinement proofs of the pipeline, of the upload step and of the admission, the owners
of locks, and that no job is stuck.

Next:

1. The composition of intake, admission and pipeline over their tables, which
   section 2 only argues.
2. Liveness of the intake and the pipeline with larger instances.

## 8. Not modelled

* Configuration, logging, telemetry, the protocol snapshot tool and the test
  database: no state of the protocols.
* `scripts/images.py`: a sequential script around Docker and git.  What a
  restart finds is the state of containers, images and a registry, which the
  script only sees through their commands; a model would be one of Docker.  The
  hazard is listed in `PROJECT.json` without a property.
* HTML escaping, wording, formats of numbers, keyboards and the replies to
  commands: layout, or best effort without a stored state.
* Trace headers of the gRPC client.

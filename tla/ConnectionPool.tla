--------------------------- MODULE ConnectionPool ---------------------------
(***************************************************************************)
(* The database connections of one process from RunContext to its end:     *)
(* the pool of bot/store/store.go, the session locks of                    *)
(* bot/store/durable.go, and the goroutines of bot/bot/durable.go and      *)
(* bot/main.go that take connections from it.  Session locks and           *)
(* session settings stay with a connection, so what goes back into the     *)
(* pool matters as much as that there is one left to take.                 *)
(*                                                                         *)
(* A seat is a place in the code that may hold a connection.  What the     *)
(* statements do to the tables is left out: Admission, Intake and          *)
(* DurableJobs have it.                                                    *)
(***************************************************************************)
EXTENDS Naturals, Sequences, FiniteSets

CONSTANTS
  Worker,    \* the goroutines that run workLoop
  Job,       \* the jobs they may find
  DsnConns,  \* MaxConns as configured
  MinConns   \* what openWithRetry raises it to

Key == {"poller", "inbox"} \cup Job
Seat == {"poller", "inbox", "admit"} \cup Worker
Task == {"main", "inbox"} \cup Worker

ASSUME PoolAssumption ==
  /\ IsFiniteSet(Worker)
  /\ DsnConns \in Nat
  /\ MinConns \in Nat
  /\ Worker \cap {"main", "poller", "inbox", "admit", "none"} = {}
  /\ Job \cap {"poller", "inbox", "none"} = {}
  \* Twelve for eight workers: store.go has one to spare.
  /\ MinConns >= Cardinality(Worker) + 3

(* A connection: the advisory locks of its session, whether the session    *)
(* has the idle limit of a poller, and whether it still exists.            *)
Session == [locks : SUBSET Key, limited : BOOLEAN, alive : BOOLEAN]
Fresh == [locks |-> {}, limited |-> FALSE, alive |-> TRUE]
NoSession == [locks |-> {}, limited |-> FALSE, alive |-> FALSE]
Nothing == "none"

VARIABLES
  pc,        \* where each goroutine is
  job,       \* the job a worker has found, or Nothing
  held,      \* the connections in use, by seat
  used,      \* the seats that hold one
  idle,      \* the connections in the pool, the last one released first
  sigterm    \* the context of main is cancelled

vars == <<pc, job, held, used, idle, sigterm>>

MainPc == {"open", "try", "again", "setup", "intake", "join", "close", "fail", "pool", "exited"}
InboxPc == {"off", "take", "try", "work", "store", "storing", "unlock"}
WorkerPc == {"off", "list", "listing", "claim", "try", "run", "skip", "unlock"}

(* Mutant of PoolSize: what is configured is taken as it is. *)
PoolSizeDsn == DsnConns

PoolSize == IF DsnConns >= MinConns THEN DsnConns ELSE MinConns

TypeOK ==
  /\ pc \in [Task -> MainPc \cup InboxPc \cup WorkerPc]
  /\ pc["main"] \in MainPc
  /\ pc["inbox"] \in InboxPc
  /\ \A w \in Worker : pc[w] \in WorkerPc
  /\ job \in [Worker -> Job \cup {Nothing}]
  /\ held \in [Seat -> Session]
  /\ used \in SUBSET Seat
  /\ \A s \in Seat \ used : held[s] = NoSession
  /\ idle \in Seq(Session)
  /\ Len(idle) + Cardinality(used) <= PoolSize
  /\ sigterm \in BOOLEAN

Init ==
  /\ pc = [t \in Task |-> IF t = "main" THEN "open" ELSE "off"]
  /\ job = [w \in Worker |-> Nothing]
  /\ held = [s \in Seat |-> NoSession]
  /\ used = {}
  /\ idle = <<Fresh>>          \* the one that pinged and migrated
  /\ sigterm = FALSE

(* The context of RunContext. *)
Stopping == sigterm \/ pc["main"] \in {"join", "close", "fail", "pool", "exited"}

----------------------------------------------------------------------------
(* pgxpool (external), as far as the code depends on it. *)

CanAcquire == idle # <<>> \/ Cardinality(used) < PoolSize

(* Mutant of RestOfIdle: one connection is handed out twice. *)
RestOfIdleAll == idle

RestOfIdle == Tail(idle)

(* An idle connection, or a new one; a cancelled context gets none. *)
Acquire(seat) ==
  /\ ~Stopping
  /\ CanAcquire
  /\ used' = used \cup {seat}
  /\ IF idle # <<>>
     THEN held' = [held EXCEPT ![seat] = Head(idle)] /\ idle' = RestOfIdle
     ELSE held' = [held EXCEPT ![seat] = Fresh] /\ UNCHANGED idle

Leave(seat) ==
  /\ used' = used \ {seat}
  /\ held' = [held EXCEPT ![seat] = NoSession]

PutBack(s) == idle' = IF s.alive THEN <<s>> \o idle ELSE idle

Release(seat) == Leave(seat) /\ PutBack(held[seat])

(* Hijack().Close: the connection leaves the pool and the session ends. *)
Discard(seat) == Leave(seat) /\ UNCHANGED idle

Goto(t, place) == pc' = [pc EXCEPT ![t] = place]

----------------------------------------------------------------------------
(* Session locks. *)

(* No other session of this process has the lock: an own one is granted    *)
(* again by PostgreSQL.                                                    *)
Grantable(seat, key) ==
  /\ held[seat].alive
  /\ \A s \in Seat \ {seat} : key \notin held[s].locks
  /\ \A i \in DOMAIN idle : key \notin idle[i].locks

Lock(seat, key) ==
  /\ Grantable(seat, key)
  /\ held' = [held EXCEPT ![seat].locks = @ \cup {key}]
  /\ UNCHANGED <<used, idle>>

(* Mutant of Unlocked: the connection is released as it is. *)
UnlockedNot(s, key) == s

Unlocked(s, key) == [s EXCEPT !.locks = @ \ {key}]

(* lock_release.sql works and the connection goes back, or it does not. *)
Unlock(seat, key) ==
  \/ held[seat].alive /\ Leave(seat) /\ PutBack(Unlocked(held[seat], key))
  \/ Discard(seat)

----------------------------------------------------------------------------
(* RunContext and main. *)

OpenPoller ==
  /\ pc["main"] = "open"
  /\ Acquire("poller")
  /\ Goto("main", "try")
  /\ UNCHANGED <<job, sigterm>>

(* os.Exit ends every session. *)
Exit ==
  /\ Goto("main", "exited")
  /\ used' = {}
  /\ held' = [s \in Seat |-> NoSession]
  /\ idle' = <<>>
  /\ UNCHANGED <<job, sigterm>>

(* The database cannot be reached, or the context is cancelled. *)
OpenPollerFails == pc["main"] \in {"open", "try"} /\ Exit

LockPoller ==
  /\ pc["main"] = "try"
  /\ Lock("poller", "poller")
  /\ Goto("main", "setup")
  /\ UNCHANGED <<job, sigterm>>

(* ErrPollerOwned: another process has the lock. *)
PollerOwned ==
  /\ pc["main"] = "try"
  /\ Release("poller")
  /\ Goto("main", "again")
  /\ UNCHANGED <<job, sigterm>>

(* Three seconds later, unless the context is cancelled. *)
Again ==
  /\ pc["main"] = "again"
  /\ Goto("main", IF sigterm THEN "pool" ELSE "open")
  /\ UNCHANGED <<job, held, used, idle, sigterm>>

(* poller_settings.sql and cursor_init.sql; then the goroutines start. *)
SetUpPoller ==
  /\ pc["main"] = "setup"
  /\ held["poller"].alive
  /\ held' = [held EXCEPT !["poller"].limited = TRUE]
  /\ pc' = [t \in Task |-> CASE t = "main" -> "intake"
                             [] t = "inbox" -> "take"
                             [] t \in Worker -> "list"]
  /\ UNCHANGED <<job, used, idle, sigterm>>

(* One of the two fails: Close, and an error of RunContext. *)
SetUpPollerFails == pc["main"] = "setup" /\ Exit

(* The session is lost, a batch is not stored, or the context is cancelled. *)
EndIntake ==
  /\ pc["main"] = "intake"
  /\ Goto("main", "join")
  /\ UNCHANGED <<job, held, used, idle, sigterm>>

(* workers.Wait, and which way RunContext returns. *)
Join ==
  /\ pc["main"] = "join"
  /\ \A t \in Task \ {"main"} : pc[t] = "off"
  /\ Goto("main", IF sigterm THEN "close" ELSE "fail")
  /\ UNCHANGED <<job, held, used, idle, sigterm>>

(* The deferred Close of the poller. *)
ClosePoller ==
  /\ pc["main"] \in {"close", "fail"}
  /\ Discard("poller")
  /\ Goto("main", IF pc["main"] = "close" THEN "pool" ELSE "exited")
  /\ UNCHANGED <<job, sigterm>>

(* The deferred Close of the store waits for every connection. *)
ClosePool ==
  /\ pc["main"] = "pool"
  /\ used = {}
  /\ Exit

----------------------------------------------------------------------------
(* inboxLoop: ProcessInbox holds a connection while acceptUpdate takes     *)
(* another one from the pool for each of its queries.                      *)

TakeInbox ==
  /\ pc["inbox"] = "take"
  /\ Acquire("inbox")
  /\ Goto("inbox", "try")
  /\ UNCHANGED <<job, sigterm>>

LockInbox ==
  /\ pc["inbox"] = "try"
  /\ Lock("inbox", "inbox")
  /\ Goto("inbox", "work")
  /\ UNCHANGED <<job, sigterm>>

(* Another process has the lock, or the query fails. *)
InboxTaken ==
  /\ pc["inbox"] = "try"
  /\ Release("inbox")
  /\ Goto("inbox", "take")
  /\ UNCHANGED <<job, sigterm>>

(* acceptUpdate asks the store something. *)
AskStore ==
  /\ pc["inbox"] = "work"
  /\ Goto("inbox", "store")
  /\ UNCHANGED <<job, held, used, idle, sigterm>>

AcquireForStore ==
  /\ pc["inbox"] = "store"
  /\ Acquire("admit")
  /\ Goto("inbox", "storing")
  /\ UNCHANGED <<job, sigterm>>

StoreUnavailable ==
  /\ pc["inbox"] = "store"
  /\ Goto("inbox", "unlock")
  /\ UNCHANGED <<job, held, used, idle, sigterm>>

(* The query is done, or has failed. *)
StoreAnswers ==
  /\ pc["inbox"] = "storing"
  /\ Release("admit")
  /\ \E place \in {"work", "unlock"} : Goto("inbox", place)
  /\ UNCHANGED <<job, sigterm>>

(* Nothing to admit, admitted, or failed. *)
EndInbox ==
  /\ pc["inbox"] = "work"
  /\ Goto("inbox", "unlock")
  /\ UNCHANGED <<job, held, used, idle, sigterm>>

UnlockInbox ==
  /\ pc["inbox"] = "unlock"
  /\ Unlock("inbox", "inbox")
  /\ Goto("inbox", "take")
  /\ UNCHANGED <<job, sigterm>>

----------------------------------------------------------------------------
(* workLoop: WithWork. *)

(* job_candidates.sql, with a connection of its own that goes back before  *)
(* a job is locked.                                                        *)
AcquireToList(w) ==
  /\ pc[w] = "list"
  /\ Acquire(w)
  /\ Goto(w, "listing")
  /\ UNCHANGED <<job, sigterm>>

(* The next candidate, or no more of them. *)
NextCandidate(w) ==
  \/ \E j \in Job : job' = [job EXCEPT ![w] = j] /\ Goto(w, "claim")
  \/ job' = [job EXCEPT ![w] = Nothing] /\ Goto(w, "list")

EndListing(w) ==
  /\ pc[w] = "listing"
  /\ Release(w)
  /\ NextCandidate(w)
  /\ UNCHANGED sigterm

AcquireToClaim(w) ==
  /\ pc[w] = "claim"
  /\ Acquire(w)
  /\ Goto(w, "try")
  /\ UNCHANGED <<job, sigterm>>

(* The database cannot be reached. *)
ClaimFails(w) ==
  /\ pc[w] = "claim"
  /\ job' = [job EXCEPT ![w] = Nothing]
  /\ Goto(w, "list")
  /\ UNCHANGED <<held, used, idle, sigterm>>

LockJob(w) ==
  /\ pc[w] = "try"
  /\ Lock(w, job[w])
  /\ Goto(w, "run")
  /\ UNCHANGED <<job, sigterm>>

(* Another session has the job, or the query fails. *)
JobTaken(w) ==
  /\ pc[w] = "try"
  /\ Release(w)
  /\ NextCandidate(w)
  /\ UNCHANGED sigterm

(* readJob: the job is not due any more. *)
NotReady(w) ==
  /\ pc[w] = "run"
  /\ Goto(w, "skip")
  /\ UNCHANGED <<job, held, used, idle, sigterm>>

(* The stage has run, or something has failed. *)
EndRun(w) ==
  /\ pc[w] = "run"
  /\ Goto(w, "unlock")
  /\ UNCHANGED <<job, held, used, idle, sigterm>>

UnlockJob(w) ==
  /\ pc[w] \in {"skip", "unlock"}
  /\ Unlock(w, job[w])
  /\ IF pc[w] = "skip"
     THEN NextCandidate(w)
     ELSE job' = [job EXCEPT ![w] = Nothing] /\ Goto(w, "list")
  /\ UNCHANGED sigterm

(* Mutant of AfterStop: the loop takes the error for one of the database. *)
AfterStopRetry == "list"

AfterStop == "off"

(* A cancelled context: no connection is to be had, and the loop ends. *)
StopWorker(w) ==
  /\ pc[w] \in {"list", "claim"}
  /\ Stopping
  /\ job' = [job EXCEPT ![w] = Nothing]
  /\ Goto(w, AfterStop)
  /\ UNCHANGED <<held, used, idle, sigterm>>

StopInbox ==
  /\ pc["inbox"] = "take"
  /\ Stopping
  /\ Goto("inbox", "off")
  /\ UNCHANGED <<job, held, used, idle, sigterm>>

----------------------------------------------------------------------------
(* A session ends on the server, for instance because PostgreSQL restarts  *)
(* or a poller has been idle for too long.                                 *)
LoseSession(seat) ==
  /\ seat \in used
  /\ held[seat].alive
  /\ held' = [held EXCEPT ![seat] = NoSession]
  /\ UNCHANGED <<pc, job, used, idle, sigterm>>

Terminate ==
  /\ ~sigterm
  /\ pc["main"] # "exited"
  /\ sigterm' = TRUE
  /\ UNCHANGED <<pc, job, held, used, idle>>

Finished == pc["main"] = "exited" /\ UNCHANGED vars

MainStep ==
  \/ OpenPoller \/ OpenPollerFails \/ LockPoller \/ PollerOwned \/ Again
  \/ SetUpPoller \/ SetUpPollerFails \/ EndIntake \/ Join \/ ClosePoller \/ ClosePool

InboxStep ==
  \/ TakeInbox \/ LockInbox \/ InboxTaken \/ AskStore \/ AcquireForStore
  \/ StoreUnavailable \/ StoreAnswers \/ EndInbox \/ UnlockInbox \/ StopInbox

WorkerStep(w) ==
  \/ AcquireToList(w) \/ EndListing(w) \/ AcquireToClaim(w) \/ ClaimFails(w)
  \/ LockJob(w) \/ JobTaken(w)
  \/ NotReady(w) \/ EndRun(w) \/ UnlockJob(w) \/ StopWorker(w)

Next ==
  \/ MainStep
  \/ InboxStep
  \/ \E w \in Worker : WorkerStep(w)
  \/ \E seat \in Seat : LoseSession(seat)
  \/ Terminate
  \/ Finished

Spec == Init /\ [][Next]_vars

(* Once its context is cancelled, a goroutine gets on: calls end.  Nothing *)
(* is assumed of one that waits for the network otherwise.                 *)
FairSpec ==
  /\ Spec
  /\ WF_vars(Stopping /\ MainStep)
  /\ WF_vars(Stopping /\ InboxStep)
  /\ \A w \in Worker : WF_vars(Stopping /\ WorkerStep(w))

----------------------------------------------------------------------------
(* store.go:39, docs/durable-jobs.md:50: the pool is large enough for      *)
(* everyone at once.  A goroutine that wants a connection need not wait    *)
(* for another to give one back, which may take as long as a download, or  *)
(* for ever: admission holds one and needs a second.                       *)
Wants(seat) ==
  \/ seat = "poller" /\ pc["main"] = "open"
  \/ seat = "inbox" /\ pc["inbox"] = "take"
  \/ seat = "admit" /\ pc["inbox"] = "store"
  \/ seat \in Worker /\ pc[seat] \in {"list", "claim"}

NobodyWaits == \A seat \in Seat : Wants(seat) => CanAcquire

(* durable.go:26, 67 and 80: what goes back into the pool is as good as     *)
(* new, though everybody locks on sessions that others get next.  A lock    *)
(* left behind would keep a job from everyone, or let in a second worker    *)
(* that gets that session; an idle limit would end a long download.         *)
LocksOf(seat) ==
  CASE seat = "poller" -> {"poller"}
    [] seat = "inbox" -> {"inbox"}
    [] seat = "admit" -> {}
    [] seat \in Worker -> {job[seat]} \ {Nothing}

CleanSessions ==
  /\ \A i \in DOMAIN idle : idle[i] = Fresh
  /\ \A seat \in Seat :
       /\ held[seat].limited => seat = "poller"
       /\ held[seat].locks \subseteq LocksOf(seat)

(* durable.go:65: after a signal, or when the poller has lost its session, *)
(* the process ends: nobody keeps a connection that the pool waits for.    *)
ShutdownEnds == Stopping ~> pc["main"] = "exited"
=============================================================================

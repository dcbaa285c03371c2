----------------------------- MODULE Migrations -----------------------------
(***************************************************************************)
(* Processes of several releases that start on one database: store.New of  *)
(* bot/store/store.go with the migration of bot/store/migrate.go, started  *)
(* as the bot or as "bot migrate" (bot/main.go).  A release has the        *)
(* migrations 1 .. r, in the order of their file names: applied migrations *)
(* are never edited (docs/durable-jobs.md:79).                             *)
(*                                                                         *)
(* Transactions are READ COMMITTED: a query sees what has been committed   *)
(* and what its own transaction has done.                                  *)
(***************************************************************************)
EXTENDS Naturals, Sequences

CONSTANTS
  Bot,        \* processes that serve, and are restarted when they fail
  Cli,        \* runs of "bot migrate"
  Release,    \* the releases there are
  FaultKinds, \* the kinds of faults that may happen
  MaxStarts,  \* bound: how often somebody starts a process
  MaxFaults   \* bound: how many faults happen

Proc == Bot \cup Cli
Nobody == "nobody"
Ghost == "ghost"

ASSUME MigrationAssumption ==
  /\ Bot \cap Cli = {}
  /\ Proc \cap {Nobody, Ghost} = {}
  /\ Release \subseteq Nat
  /\ FaultKinds \subseteq {"statement", "crash"}
  /\ MaxStarts \in Nat
  /\ MaxFaults \in Nat

VARIABLES
  pc, release,  \* of each process
  entry,        \* the migration it has come to
  (* the database *)
  ledger,       \* bot_schema_migrations
  schema,       \* the migrations executed, in order
  recorded, executed, \* what each open transaction has added to them
  lock,         \* who has the advisory lock
  starts, faults

procVars == <<pc, release, entry>>
txVars == <<recorded, executed>>
vars == <<procVars, ledger, schema, txVars, lock, starts, faults>>

InTransaction == {"lock", "init", "check", "exec", "record", "commit"}

TypeOK ==
  /\ pc \in [Proc -> {"off", "open", "serving", "failed"} \cup InTransaction]
  /\ release \in [Proc -> Release \cup {0}]
  /\ entry \in [Proc -> Nat]
  /\ ledger \in SUBSET Nat
  /\ schema \in Seq(Nat)
  /\ recorded \in [Proc -> SUBSET Nat]
  /\ executed \in [Proc -> Seq(Nat)]
  /\ lock \in Proc \cup {Nobody, Ghost}
  /\ starts \in 0 .. MaxStarts
  /\ faults \in 0 .. MaxFaults

(* An empty database. *)
Init ==
  /\ pc = [p \in Proc |-> "off"]
  /\ release = [p \in Proc |-> 0]
  /\ entry = [p \in Proc |-> 0]
  /\ ledger = {}
  /\ schema = <<>>
  /\ recorded = [p \in Proc |-> {}]
  /\ executed = [p \in Proc |-> <<>>]
  /\ lock = Nobody
  /\ starts = 0
  /\ faults = 0

Fault(kind) ==
  /\ kind \in FaultKinds
  /\ faults < MaxFaults
  /\ faults' = faults + 1

Goto(p, place) == pc' = [pc EXCEPT ![p] = place]

(* docker compose up or an operator: any release, at any time; a running   *)
(* bot is stopped before.  Its session has no transaction then.            *)
Start(p, r) ==
  /\ starts < MaxStarts
  /\ pc[p] \in {"off", "serving", "failed"}
  /\ Goto(p, "open")
  /\ release' = [release EXCEPT ![p] = r]
  /\ starts' = starts + 1
  /\ UNCHANGED <<entry, ledger, schema, txVars, lock, faults>>

(* restart: unless-stopped *)
Restart(p) ==
  /\ p \in Bot
  /\ pc[p] = "failed"
  /\ Goto(p, "open")
  /\ UNCHANGED <<release, entry, ledger, schema, txVars, lock, starts, faults>>

(* openWithRetry, Begin and migrate_settings.sql. *)
Open(p) ==
  /\ pc[p] = "open"
  /\ Goto(p, "lock")
  /\ UNCHANGED <<release, entry, ledger, schema, txVars, lock, starts, faults>>

(* Ten attempts have failed. *)
OpenFails(p) ==
  /\ pc[p] = "open"
  /\ Fault("statement")
  /\ Goto(p, "failed")
  /\ UNCHANGED <<release, entry, ledger, schema, txVars, lock, starts>>

(* migrate_lock.sql *)
TakeLock(p) ==
  /\ pc[p] = "lock"
  /\ lock = Nobody
  /\ lock' = p
  /\ Goto(p, "init")
  /\ UNCHANGED <<release, entry, ledger, schema, txVars, starts, faults>>

(* migrate_init.sql and the list of the entries. *)
InitLedger(p) ==
  /\ pc[p] = "init"
  /\ entry' = [entry EXCEPT ![p] = 1]
  /\ Goto(p, "check")
  /\ UNCHANGED <<release, ledger, schema, txVars, lock, starts, faults>>

(* migrate_applied.sql *)
Applied(p, n) == n \in ledger \cup recorded[p]

Check(p) ==
  /\ pc[p] = "check"
  /\ entry[p] <= release[p]
  /\ IF Applied(p, entry[p])
     THEN entry' = [entry EXCEPT ![p] = @ + 1] /\ UNCHANGED pc
     ELSE Goto(p, "exec") /\ UNCHANGED entry
  /\ UNCHANGED <<release, ledger, schema, txVars, lock, starts, faults>>

EndOfEntries(p) ==
  /\ pc[p] = "check"
  /\ entry[p] > release[p]
  /\ Goto(p, "commit")
  /\ UNCHANGED <<release, entry, ledger, schema, txVars, lock, starts, faults>>

(* The migration itself. *)
Exec(p) ==
  /\ pc[p] = "exec"
  /\ executed' = [executed EXCEPT ![p] = Append(@, entry[p])]
  /\ Goto(p, "record")
  /\ UNCHANGED <<release, entry, ledger, schema, recorded, lock, starts, faults>>

(* migrate_record.sql: the version is the primary key. *)
Record(p) ==
  /\ pc[p] = "record"
  /\ ~Applied(p, entry[p])
  /\ recorded' = [recorded EXCEPT ![p] = @ \cup {entry[p]}]
  /\ entry' = [entry EXCEPT ![p] = @ + 1]
  /\ Goto(p, "check")
  /\ UNCHANGED <<release, ledger, schema, executed, lock, starts, faults>>

(* What a transaction leaves when it ends. *)
Keep(p) ==
  /\ ledger' = ledger \cup recorded[p]
  /\ schema' = schema \o executed[p]

(* Mutant of Drop: what has been executed stays when the transaction is    *)
(* given up, as if every statement were committed by itself.               *)
DropRecordsOnly(p) == schema' = schema \o executed[p] /\ UNCHANGED ledger

Drop(p) == UNCHANGED <<ledger, schema>>

Empty(p) ==
  /\ entry' = [entry EXCEPT ![p] = 0]
  /\ recorded' = [recorded EXCEPT ![p] = {}]
  /\ executed' = [executed EXCEPT ![p] = <<>>]

(* Mutant of Unlock: a lock of the session, which goes back into the pool. *)
UnlockNot(p) == UNCHANGED lock

(* The lock ends with the transaction. *)
Unlock(p) == lock' = IF lock = p THEN Nobody ELSE lock

(* A bot goes on to serve, "bot migrate" is done. *)
Commit(p) ==
  /\ pc[p] = "commit"
  /\ Keep(p)
  /\ Empty(p)
  /\ Unlock(p)
  /\ Goto(p, IF p \in Bot THEN "serving" ELSE "off")
  /\ UNCHANGED <<release, starts, faults>>

(* Any statement fails, or the two minutes are over: Rollback, and the     *)
(* process ends.                                                           *)
Fail(p) ==
  /\ pc[p] \in InTransaction
  /\ Fault("statement")
  /\ Drop(p)
  /\ Empty(p)
  /\ Unlock(p)
  /\ Goto(p, "failed")
  /\ UNCHANGED <<release, starts>>

(* Somebody else has had the lock for 30 seconds. *)
LockTimeout(p) ==
  /\ pc[p] = "lock"
  /\ lock # Nobody
  /\ Goto(p, "failed")
  /\ UNCHANGED <<release, entry, ledger, schema, txVars, lock, starts, faults>>

(* The process dies, or its connection, which it takes for a failure.  The *)
(* session may live on with the lock for a while, and a commit that was    *)
(* sent may have been done.                                                *)
Crash(p) ==
  /\ pc[p] \notin {"off", "failed"}
  /\ Fault("crash")
  /\ Drop(p) \/ (pc[p] = "commit" /\ Keep(p))
  /\ Empty(p)
  /\ Unlock(p) \/ (lock = p /\ lock' = Ghost)
  /\ Goto(p, "failed")
  /\ UNCHANGED <<release, starts>>

GhostEnds ==
  /\ lock = Ghost
  /\ lock' = Nobody
  /\ UNCHANGED <<procVars, ledger, schema, txVars, starts, faults>>

GoesOn(p) ==
  \/ Restart(p) \/ Open(p) \/ TakeLock(p) \/ InitLedger(p)
  \/ Check(p) \/ EndOfEntries(p) \/ Exec(p) \/ Record(p) \/ Commit(p)

Fails(p) == OpenFails(p) \/ Fail(p) \/ LockTimeout(p) \/ Crash(p)

(* Nobody starts anything any more. *)
Quiet ==
  /\ \A p \in Proc : pc[p] \in {"off", "serving"} \cup (IF p \in Cli THEN {"failed"} ELSE {})
  /\ UNCHANGED vars

Next ==
  \/ \E p \in Proc, r \in Release : Start(p, r)
  \/ \E p \in Proc : GoesOn(p) \/ Fails(p)
  \/ GhostEnds
  \/ Quiet

Spec == Init /\ [][Next]_vars

(* Docker restarts a bot, statements end, and PostgreSQL notices that a    *)
(* client is gone.                                                         *)
FairSpec ==
  /\ Spec
  /\ \A p \in Proc : WF_vars(GoesOn(p))
  /\ WF_vars(GhostEnds)

----------------------------------------------------------------------------
(* migrate.go:10: migrations and their ledger commit together, whoever     *)
(* else migrates and wherever a start breaks off.  So the database has     *)
(* every migration up to some point exactly once, in order, and the ledger *)
(* says so; a bot that serves finds all it needs, also one of an older     *)
(* release than another has migrated to.                                   *)
SchemaTruthful ==
  /\ schema = [n \in 1 .. Len(schema) |-> n]
  /\ ledger = 1 .. Len(schema)
  /\ \A p \in Bot : pc[p] = "serving" => release[p] <= Len(schema)

(* docs/durable-jobs.md:79: startup applies migrations.  However starts    *)
(* overlap and fail, a bot serves in the end, and nothing is left to run.  *)
EveryoneServes ==
  /\ \A p \in Bot : pc[p] = "open" ~> pc[p] = "serving"
  /\ \A p \in Cli : pc[p] = "open" ~> pc[p] \in {"off", "failed"}
=============================================================================

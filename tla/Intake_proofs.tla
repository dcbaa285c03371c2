---------------------------- MODULE Intake_proofs ----------------------------
(***************************************************************************)
(* Intake loses no update, for any number of processes, updates, faults    *)
(* and any size of batches, and implements UpdateFeed.                     *)
(***************************************************************************)
EXTENDS Intake, TLAPS

USE IntakeAssumption DEF telegramVars, rowVars, localVars, vars, Update

(* The database and Telegram: what is stored is what precedes the cursor,  *)
(* and nothing else has been confirmed.                                    *)
StoredInv ==
  /\ cursor <= sent + 1
  /\ inbox = {i \in Update : i < cursor}
  /\ forgotten <= Greatest(cursor, 1)

(* A process: no offset is ahead of the cursor; the owner's is the cursor, *)
(* and its batch begins there or before.  What others hold does not matter, for they *)
(* cannot write it.                                                        *)
ProcessInv(p) ==
  /\ offset[p] <= cursor
  /\ owner = p => pc[p] \in {"cursor", "request", "wait", "persist"}
  /\ owner = p /\ pc[p] \in {"request", "wait", "persist"} => offset[p] = cursor
  /\ pc[p] = "persist" => /\ batch[p].first <= Greatest(cursor, 1)
                          /\ batch[p].first <= batch[p].next
                          /\ batch[p].next <= sent + 1

IInv == TypeOK /\ StoredInv /\ \A p \in Process : ProcessInv(p)

(* What the owner writes: the rows from the cursor to the end of the batch. *)
LEMMA OwnersBatch ==
  ASSUME IInv, NEW p \in Process, owner = p, pc[p] = "persist"
  PROVE  /\ NextCursor(p) \in cursor .. sent + 1
         /\ inbox \cup Records(p) = {i \in Update : i < NextCursor(p)}
         /\ Records(p) # {} => 1 <= NextCursor(p) - 1
<1> USE DEF IInv, TypeOK, StoredInv, Batch
<1> DEFINE b == batch[p]
<1>1. /\ b.first \in Nat \ {0} /\ b.next \in Nat \ {0} /\ cursor \in Nat
      /\ offset[p] = cursor /\ b.first <= Greatest(cursor, 1)
      /\ b.first <= b.next /\ b.next <= sent + 1
  BY DEF ProcessInv
<1>2. Records(p) = {i \in b.first .. b.next - 1 : i >= cursor}
  BY <1>1 DEF Records
<1>3. CASE b.first = b.next \/ b.next <= cursor
  <2>1. Records(p) = {}
    BY <1>1, <1>2, <1>3
  <2> QED
    BY <1>1, <2>1 DEF NextCursor
<1>4. CASE b.first < b.next /\ b.next > cursor
  <2>1. Records(p) # {}
    <3>1. Greatest(cursor, b.first) \in {i \in b.first .. b.next - 1 : i >= cursor}
      BY <1>1, <1>4 DEF Greatest
    <3> QED
      BY <1>2, <3>1
  <2>2. NextCursor(p) = b.next
    BY <2>1 DEF NextCursor
  <2>3. inbox \cup Records(p) = {i \in Update : i < b.next}
    BY <1>1, <1>2, <1>4 DEF Greatest
  <2> QED
    BY <1>1, <1>4, <2>2, <2>3
<1> QED
  BY <1>1, <1>3, <1>4

(* A process goes down, and its session with it or not. *)
Leaves(p) == Exit(p) /\ owner' \in IF owner = p THEN {NoProcess, Ghost} ELSE {owner}

LEMMA Leaving ==
  ASSUME NEW p \in Process, SessionLost(p) \/ StoreFails(p) \/ Crash(p)
  PROVE  Leaves(p)
  BY DEF SessionLost, StoreFails, Crash, Stop, Disconnect, Leaves

LEMMA InitInvariant == Init => IInv
  BY DEF Init, IInv, TypeOK, StoredInv, ProcessInv, Greatest, Batch, NoBatch

LEMMA TypeInvariant == IInv /\ [Next]_vars => TypeOK'
<1> SUFFICES ASSUME IInv, [Next]_vars
             PROVE  TypeOK'
  OBVIOUS
<1> USE DEF IInv, TypeOK
<1>1. ASSUME NEW p \in Process, Start(p) \/ OpenPoller(p)
      PROVE  TypeOK'
  BY <1>1 DEF Start, OpenPoller, Goto
<1>2. ASSUME NEW p \in Process, ReadCursor(p)
      PROVE  TypeOK'
  BY <1>2 DEF ReadCursor, NextOffset
<1>3. ASSUME NEW p \in Process, Request(p) \/ CallFails(p)
      PROVE  TypeOK'
  <2>1. forgotten' \in 1 .. MaxUpdates + 1 /\ sent' = sent
    BY <1>3 DEF Request, CallFails, Confirm
  <2>2. pc' \in [Process -> {"down", "open", "cursor", "request", "wait", "persist"}]
    BY <1>3 DEF Request, CallFails, Goto
  <2>3. UNCHANGED <<rowVars, owner, offset, batch>> /\ faults' \in 0 .. MaxFaults
    BY <1>3 DEF Request, CallFails, Goto, Fault
  <2> QED
    BY <2>1, <2>2, <2>3
<1>4. ASSUME NEW p \in Process, Respond(p)
      PROVE  TypeOK'
  BY <1>4 DEF Respond, Batch
<1>5. ASSUME NEW p \in Process, PersistBatch(p)
      PROVE  TypeOK'
  <2>1. NextCursor(p) \in 0 .. MaxUpdates + 1 /\ inbox \cup Records(p) \subseteq Update
    BY <1>5, OwnersBatch DEF PersistBatch, AtStore
  <2> QED
    BY <1>5, <2>1 DEF PersistBatch, StoreBatch, Greatest, NoBatch, Batch
<1>6. ASSUME NEW p \in Process, SessionLost(p) \/ StoreFails(p) \/ Crash(p)
      PROVE  TypeOK'
  <2>1. Leaves(p) /\ UNCHANGED <<telegramVars, rowVars>> /\ faults' \in 0 .. MaxFaults
    BY <1>6, Leaving DEF SessionLost, StoreFails, Crash, Fault
  <2> QED
    BY <2>1 DEF Leaves, Exit, NoBatch, Batch
<1>7. ASSUME NEW p \in Process, EndSession(p)
      PROVE  TypeOK'
  <2>1. owner' \in {NoProcess, Ghost} /\ faults' \in 0 .. MaxFaults
    BY <1>7 DEF EndSession, Disconnect, Fault
  <2> QED
    BY <1>7, <2>1 DEF EndSession
<1>8. CASE NewUpdate
  BY <1>8 DEF NewUpdate
<1>9. CASE GhostEnds
  BY <1>9 DEF GhostEnds
<1> QED
  BY <1>1, <1>2, <1>3, <1>4, <1>5, <1>6, <1>7, <1>8, <1>9 DEF Next, Run, Disturb, AwaitPoller

LEMMA NextInvariant == IInv /\ [Next]_vars => IInv'
<1> SUFFICES ASSUME IInv, [Next]_vars
             PROVE  IInv'
  OBVIOUS
<1>0. TypeOK'
  BY TypeInvariant
<1> USE DEF IInv, TypeOK, ProcessInv
<1>1. ASSUME NEW p \in Process, Start(p) \/ OpenPoller(p)
      PROVE  IInv'
  <2>1. StoredInv'
    BY <1>1 DEF Start, OpenPoller, Goto, StoredInv
  <2>2. ASSUME NEW q \in Process
        PROVE  ProcessInv(q)'
    BY <1>1 DEF Start, OpenPoller, Goto
  <2> QED
    BY <1>0, <2>1, <2>2
<1>2. ASSUME NEW p \in Process, ReadCursor(p)
      PROVE  IInv'
  BY <1>0, <1>2 DEF ReadCursor, AtStore, NextOffset, StoredInv
<1>3. ASSUME NEW p \in Process, Request(p) \/ CallFails(p)
      PROVE  IInv'
  <2>1. StoredInv'
    BY <1>3 DEF Request, CallFails, Goto, Confirm, StoredInv, Greatest
  <2>2. ASSUME NEW q \in Process
        PROVE  ProcessInv(q)'
    BY <1>3, <2>2 DEF Request, CallFails, Goto, Confirm
  <2> QED
    BY <1>0, <2>1, <2>2
<1>4. ASSUME NEW p \in Process, Respond(p)
      PROVE  IInv'
  <2>1. StoredInv'
    BY <1>4 DEF Respond, StoredInv
  <2>2. ASSUME NEW q \in Process
        PROVE  ProcessInv(q)'
    <3>1. CASE q = p
      BY <1>4, <3>1 DEF Respond, StoredInv, Greatest
    <3>2. CASE q # p
      BY <1>4, <3>2 DEF Respond
    <3> QED
      BY <3>1, <3>2
  <2> QED
    BY <1>0, <2>1, <2>2
<1>5. ASSUME NEW p \in Process, PersistBatch(p)
      PROVE  IInv'
  <2>1. /\ NextCursor(p) \in cursor .. sent + 1
        /\ inbox \cup Records(p) = {i \in Update : i < NextCursor(p)}
    BY <1>5, OwnersBatch DEF PersistBatch, AtStore
  <2>2. cursor' = NextCursor(p) /\ inbox' = inbox \cup Records(p) /\ UNCHANGED <<sent, forgotten>>
    BY <1>5, <2>1 DEF PersistBatch, StoreBatch, Greatest
  <2>3. StoredInv'
    BY <2>1, <2>2 DEF StoredInv, Greatest
  <2>4. ASSUME NEW q \in Process
        PROVE  ProcessInv(q)'
    BY <1>5, <2>1, <2>2 DEF PersistBatch, AtStore, Greatest, Batch
  <2> QED
    BY <1>0, <2>3, <2>4
<1>6. ASSUME NEW p \in Process, SessionLost(p) \/ StoreFails(p) \/ Crash(p)
      PROVE  IInv'
  <2>1. Leaves(p) /\ UNCHANGED <<telegramVars, rowVars>>
    BY <1>6, Leaving DEF SessionLost, StoreFails, Crash
  <2>2. StoredInv'
    BY <2>1 DEF StoredInv
  <2>3. ASSUME NEW q \in Process
        PROVE  ProcessInv(q)'
    BY <2>1 DEF Leaves, Exit
  <2> QED
    BY <1>0, <2>2, <2>3
<1>7. ASSUME NEW p \in Process, EndSession(p)
      PROVE  IInv'
  <2>1. owner' \in {NoProcess, Ghost}
    BY <1>7 DEF EndSession, Disconnect
  <2> QED
    BY <1>0, <1>7, <2>1 DEF EndSession, StoredInv
<1>8. CASE NewUpdate
  BY <1>0, <1>8 DEF NewUpdate, StoredInv, Batch
<1>9. CASE GhostEnds
  BY <1>0, <1>9 DEF GhostEnds, StoredInv
<1>10. CASE UNCHANGED vars
  BY <1>10 DEF StoredInv, Greatest
<1> QED
  BY <1>1, <1>2, <1>3, <1>4, <1>5, <1>6, <1>7, <1>8, <1>9, <1>10 DEF Next, Run, Disturb, AwaitPoller

LEMMA InvariantHolds == Spec => []IInv
  BY InitInvariant, NextInvariant, PTL DEF Spec

(* The variables have the types that TypeOK gives them.                    *)
THEOREM TypeCorrect == Spec => []TypeOK
<1>1. IInv => TypeOK
  BY DEF IInv
<1> QED
  BY <1>1, InvariantHolds, PTL

(* Telegram is never asked to forget what is not stored.                   *)
THEOREM NothingLost == Spec => []NothingForgotten
<1>1. IInv => NothingForgotten
  BY DEF IInv, TypeOK, StoredInv, NothingForgotten, Greatest
<1> QED
  BY <1>1, InvariantHolds, PTL

(* A batch and its cursor commit together, across all takeovers.           *)
THEOREM CursorSafety == Spec => []CursorTruthful
<1>1. IInv => CursorTruthful
  BY DEF IInv, TypeOK, StoredInv, CursorTruthful
<1> QED
  BY <1>1, InvariantHolds, PTL

(* The intake implements UpdateFeed: a commit stores a run of updates, a   *)
(* request forgets only stored ones, and every other step is a stutter.    *)
THEOREM IntakeKeepsFeed == Spec => KeepsFeed
<1>1. Init => Feed!Init
  BY DEF Init, Feed!Init
<1>2. IInv /\ [Next]_vars => [Feed!Next]_(Feed!vars)
  <2> SUFFICES ASSUME IInv, [Next]_vars
               PROVE  [Feed!Next]_(Feed!vars)
    OBVIOUS
  <2> USE DEF IInv, Feed!vars
  <2>1. ASSUME NEW p \in Process, Request(p) \/ CallFails(p)
        PROVE  [Feed!Next]_(Feed!vars)
    <3>1. \/ UNCHANGED <<sent, forgotten, inbox>>
          \/ forgotten' = offset[p] /\ offset[p] > forgotten /\ UNCHANGED <<sent, inbox>>
      <4>1. UNCHANGED inbox
        BY <2>1 DEF Request, CallFails
      <4>2. Confirm(offset[p]) \/ UNCHANGED telegramVars
        BY <2>1 DEF Request, CallFails
      <4>3. CASE offset[p] > forgotten
        BY <4>1, <4>2, <4>3 DEF Confirm
      <4>4. CASE ~(offset[p] > forgotten)
        BY <4>1, <4>2, <4>4 DEF Confirm
      <4> QED
        BY <4>3, <4>4
    <3>2. offset[p] \in 1 .. sent + 1 \/ offset[p] <= forgotten
      BY DEF TypeOK, StoredInv, ProcessInv
    <3>3. 1 .. (offset[p] - 1) \subseteq inbox
      BY DEF TypeOK, StoredInv, ProcessInv
    <3> QED
      BY <3>1, <3>2, <3>3 DEF Feed!Next, Feed!Forget, TypeOK
  <2>2. ASSUME NEW p \in Process, PersistBatch(p)
        PROVE  [Feed!Next]_(Feed!vars)
    <3>1. /\ NextCursor(p) \in cursor .. sent + 1
          /\ inbox' = {i \in Update : i < NextCursor(p)}
          /\ Records(p) # {} => 1 <= NextCursor(p) - 1
          /\ UNCHANGED <<sent, forgotten>>
      BY <2>2, OwnersBatch DEF PersistBatch, AtStore, StoreBatch
    <3>2. CASE Records(p) = {}
      BY <2>2, <3>2 DEF PersistBatch, StoreBatch
    <3>3. CASE Records(p) # {}
      <4> DEFINE n == NextCursor(p) - 1
      <4>1. n \in 1 .. sent
        BY <3>1, <3>3 DEF TypeOK
      <4>2. inbox \subseteq 1 .. n /\ inbox' = 1 .. n
        BY <3>1, <4>1 DEF TypeOK, StoredInv
      <4>3. Feed!Store(n)
        BY <3>1, <4>1, <4>2 DEF Feed!Store
      <4> QED
        BY <4>1, <4>3 DEF Feed!Next
    <3> QED
      BY <3>2, <3>3
  <2>3. CASE NewUpdate
    BY <2>3 DEF NewUpdate, Feed!Next, Feed!Arrive
  <2>4. ASSUME NEW p \in Process,
               \/ Start(p) \/ OpenPoller(p) \/ ReadCursor(p) \/ Respond(p)
               \/ SessionLost(p) \/ StoreFails(p) \/ Crash(p) \/ EndSession(p)
        PROVE  UNCHANGED <<sent, inbox, forgotten>>
    BY <2>4 DEF Start, OpenPoller, ReadCursor, Respond, SessionLost, StoreFails, Crash, EndSession
  <2>5. CASE GhostEnds \/ UNCHANGED vars
    BY <2>5 DEF GhostEnds
  <2> QED
    BY <2>1, <2>2, <2>3, <2>4, <2>5 DEF Next, Run, Disturb, AwaitPoller
<1> QED
  BY <1>1, <1>2, InvariantHolds, PTL DEF Spec, KeepsFeed, Feed!Spec
=============================================================================

-------------------------- MODULE Migrations_proofs --------------------------
(***************************************************************************)
(* SchemaTruthful of Migrations holds for any number of processes,         *)
(* releases, migrations, starts and faults.                                *)
(*                                                                         *)
(* The argument: whoever is past migrate_lock.sql has the lock, so at most *)
(* one transaction has written anything.  What it has written continues    *)
(* the committed schema without a gap, because it looks at the entries in  *)
(* order and stops at none that has not been applied.                      *)
(***************************************************************************)
EXTENDS Migrations, SequenceTheorems, TLAPS

Holding == {"init", "check", "exec", "record", "commit"}

(* Whoever writes has the lock. *)
Exclusive == \A p \in Proc : pc[p] \in Holding => lock = p

(* Nobody else has written, and not before the list of the entries. *)
OthersEmpty ==
  \A p \in Proc :
    pc[p] \notin {"check", "exec", "record", "commit"} =>
      recorded[p] = {} /\ executed[p] = <<>>

Gapless ==
  /\ \A n \in 1 .. Len(schema) : schema[n] = n
  /\ ledger = 1 .. Len(schema)

(* What a transaction has done continues the schema. *)
Reached(p) == Len(schema) + Len(executed[p])

Continues(p) ==
  /\ \A n \in 1 .. Len(executed[p]) : executed[p][n] = Len(schema) + n
  /\ recorded[p] = IF pc[p] = "record"
                   THEN Len(schema) + 1 .. Reached(p) - 1
                   ELSE Len(schema) + 1 .. Reached(p)
  /\ pc[p] \in {"check", "exec"} => entry[p] \in 1 .. Reached(p) + 1
  /\ pc[p] = "exec" => entry[p] = Reached(p) + 1
  /\ pc[p] = "record" => entry[p] = Reached(p) /\ executed[p] # <<>>
  /\ pc[p] = "commit" => release[p] <= Reached(p)

WritersContinue ==
  \A p \in Proc : pc[p] \in {"check", "exec", "record", "commit"} => Continues(p)

Served == \A p \in Bot : pc[p] = "serving" => release[p] <= Len(schema)

Inv == TypeOK /\ Exclusive /\ OthersEmpty /\ Gapless /\ WritersContinue /\ Served

LEMMA InitInv == Init => Inv
BY MigrationAssumption
DEF Init, Inv, TypeOK, Exclusive, OthersEmpty, Gapless, WritersContinue, Served,
    InTransaction, Holding, Nobody, Ghost, Proc

----------------------------------------------------------------------------
(* Types. *)

LEMMA Types ==
  ASSUME TypeOK, NEW p \in Proc
  PROVE  /\ release[p] \in Nat /\ entry[p] \in Nat
         /\ recorded[p] \subseteq Nat /\ executed[p] \in Seq(Nat)
         /\ Len(executed[p]) \in Nat /\ Len(schema) \in Nat
<1>1. release[p] \in Release \cup {0}
  BY DEF TypeOK
<1>2. release[p] \in Nat
  <2>1. \A r \in Release : r \in Nat
    BY ZenonT(30), MigrationAssumption
  <2>2. CASE release[p] \in Release
    BY ZenonT(30), <2>1, <2>2
  <2>3. CASE release[p] = 0
    BY <2>3
  <2> QED
    BY <1>1, <2>2, <2>3
<1>3. /\ entry[p] \in Nat /\ recorded[p] \subseteq Nat /\ executed[p] \in Seq(Nat)
      /\ schema \in Seq(Nat)
  BY DEF TypeOK
<1> QED
  BY <1>2, <1>3

LEMMA KeepTypes ==
  ASSUME TypeOK, NEW p \in Proc, Keep(p)
  PROVE  ledger' \in SUBSET Nat /\ schema' \in Seq(Nat)
<1>1. recorded[p] \subseteq Nat /\ executed[p] \in Seq(Nat)
  BY Types
<1>2. ledger \subseteq Nat /\ schema \in Seq(Nat)
  BY DEF TypeOK
<1>3. schema \o executed[p] \in Seq(Nat)
  BY <1>1, <1>2, ConcatProperties
<1> QED
  BY <1>1, <1>2, <1>3 DEF Keep

LEMMA TypeStep == TypeOK /\ [Next]_vars => TypeOK'
<1> SUFFICES ASSUME TypeOK, [Next]_vars PROVE TypeOK'
  OBVIOUS
<1> USE MigrationAssumption DEF TypeOK, InTransaction, Goto, Fault
<1>1. CASE UNCHANGED vars
  BY <1>1 DEF vars, procVars, txVars
<1>2. ASSUME NEW p \in Proc, NEW r \in Release, Start(p, r) PROVE TypeOK'
  BY <1>2 DEF Start, txVars
<1>3. ASSUME NEW p \in Proc, GoesOn(p) PROVE TypeOK'
  <2>1. CASE Restart(p)
    BY <2>1 DEF Restart, txVars
  <2>2. CASE Open(p)
    BY <2>2 DEF Open, txVars
  <2>3. CASE TakeLock(p)
    BY <2>3 DEF TakeLock, txVars
  <2>4. CASE InitLedger(p)
    BY <2>4 DEF InitLedger, txVars
  <2>5. CASE Check(p)
    <3>1. CASE Applied(p, entry[p])
      <4>1. entry' = [entry EXCEPT ![p] = entry[p] + 1] /\ entry[p] + 1 \in Nat
        BY <2>5, <3>1 DEF Check
      <4> QED
        BY <2>5, <3>1, <4>1 DEF Check, txVars
    <3>2. CASE ~Applied(p, entry[p])
      BY <2>5, <3>2 DEF Check, txVars
    <3> QED
      BY <3>1, <3>2
  <2>6. CASE EndOfEntries(p)
    BY <2>6 DEF EndOfEntries, txVars
  <2>7. CASE Exec(p)
    BY <2>7 DEF Exec
  <2>8. CASE Record(p)
    BY <2>8 DEF Record
  <2>9. CASE Commit(p)
    <3>1. ledger' \in SUBSET Nat /\ schema' \in Seq(Nat)
      BY <2>9, KeepTypes DEF Commit
    <3> QED
      BY <2>9, <3>1 DEF Commit, Empty, Unlock
  <2> QED
    BY <1>3, <2>1, <2>2, <2>3, <2>4, <2>5, <2>6, <2>7, <2>8, <2>9 DEF GoesOn
<1>4. ASSUME NEW p \in Proc, Fails(p) PROVE TypeOK'
  <2>1. CASE OpenFails(p)
    BY <2>1 DEF OpenFails, txVars
  <2>2. CASE Fail(p)
    BY <2>2 DEF Fail, Drop, Empty, Unlock
  <2>3. CASE LockTimeout(p)
    BY <2>3 DEF LockTimeout, txVars
  <2>4. CASE Crash(p)
    <3>1. ledger' \in SUBSET Nat /\ schema' \in Seq(Nat)
      BY <2>4, KeepTypes DEF Crash, Drop
    <3>2. lock' \in Proc \cup {Nobody, Ghost}
      BY <2>4 DEF Crash, Unlock
    <3> QED
      BY <2>4, <3>1, <3>2 DEF Crash, Empty
  <2> QED
    BY <1>4, <2>1, <2>2, <2>3, <2>4 DEF Fails
<1>5. CASE GhostEnds
  BY <1>5 DEF GhostEnds, procVars, txVars
<1> QED
  BY <1>1, <1>2, <1>3, <1>4, <1>5 DEF Next, Quiet

----------------------------------------------------------------------------
(* A step of p outside of a transaction, or one that only moves on in it,  *)
(* leaves what others have as it is.                                       *)

Frame(p) ==
  /\ \A q \in Proc \ {p} :
       /\ pc'[q] = pc[q] /\ release'[q] = release[q] /\ entry'[q] = entry[q]
       /\ recorded'[q] = recorded[q] /\ executed'[q] = executed[q]
  /\ UNCHANGED <<ledger, schema>>

LEMMA FrameKeepsOthers ==
  ASSUME Inv, NEW p \in Proc, Frame(p)
  PROVE  /\ Gapless'
         /\ \A q \in Proc \ {p} :
              /\ pc'[q] \notin {"check", "exec", "record", "commit"} =>
                   recorded'[q] = {} /\ executed'[q] = <<>>
              /\ pc'[q] \in {"check", "exec", "record", "commit"} => Continues(q)'
              /\ q \in Bot /\ pc'[q] = "serving" => release'[q] <= Len(schema')
<1> USE DEF Inv, Frame
<1>1. Gapless'
  BY DEF Gapless
<1>2. ASSUME NEW q \in Proc \ {p}
      PROVE /\ pc'[q] \notin {"check", "exec", "record", "commit"} =>
                 recorded'[q] = {} /\ executed'[q] = <<>>
            /\ pc'[q] \in {"check", "exec", "record", "commit"} => Continues(q)'
            /\ q \in Bot /\ pc'[q] = "serving" => release'[q] <= Len(schema')
  <2>1. /\ pc'[q] = pc[q] /\ release'[q] = release[q] /\ entry'[q] = entry[q]
        /\ recorded'[q] = recorded[q] /\ executed'[q] = executed[q] /\ schema' = schema
    OBVIOUS
  <2>2. Continues(q)' <=> Continues(q)
    BY <2>1 DEF Continues, Reached
  <2> QED
    BY <2>1, <2>2 DEF OthersEmpty, WritersContinue, Served
<1> QED
  BY <1>1, <1>2

(* So an invariant of such a step is one of p alone. *)
LEMMA FrameStep ==
  ASSUME Inv, TypeOK', Exclusive', NEW p \in Proc, Frame(p),
         pc'[p] \notin {"check", "exec", "record", "commit"} =>
           recorded'[p] = {} /\ executed'[p] = <<>>,
         pc'[p] \in {"check", "exec", "record", "commit"} => Continues(p)',
         p \in Bot /\ pc'[p] = "serving" => release'[p] <= Len(schema')
  PROVE  Inv'
BY FrameKeepsOthers DEF Inv, OthersEmpty, WritersContinue, Served, Proc

(* The end of a transaction of p that is kept: nobody else had one. *)
LEMMA KeptStep ==
  ASSUME Inv, TypeOK', Exclusive', NEW p \in Proc, pc[p] = "commit", Keep(p), Empty(p),
         \A q \in Proc \ {p} : pc'[q] = pc[q],
         UNCHANGED release,
         pc'[p] \in {"serving", "off", "failed"}
  PROVE  Inv'
<1> USE DEF Inv
<1>1. Continues(p) /\ lock = p
  BY DEF WritersContinue, Exclusive, Holding
<1>2. \A q \in Proc \ {p} : pc[q] \notin {"check", "exec", "record", "commit"}
  BY <1>1 DEF Exclusive, Holding
<1>3. /\ schema \in Seq(Nat) /\ executed[p] \in Seq(Nat)
      /\ Len(schema') = Len(schema) + Len(executed[p])
      /\ \A n \in 1 .. Len(schema') :
           schema'[n] = IF n <= Len(schema) THEN schema[n] ELSE executed[p][n - Len(schema)]
  BY DEF TypeOK, Keep
<1>4. \A n \in 1 .. Len(schema') : schema'[n] = n
  BY <1>1, <1>3 DEF Gapless, Continues
<1>5. ledger' = 1 .. Len(schema')
  BY <1>1, <1>3 DEF Gapless, Continues, Reached, Keep
<1>6. Served'
  <2>1. ASSUME NEW q \in Bot, pc'[q] = "serving" PROVE release'[q] <= Len(schema')
    <3>1. CASE q = p
      BY <3>1, <1>1, <1>3 DEF Continues, Reached
    <3>2. CASE q # p
      <4>1. q \in Proc /\ release'[q] = release[q] /\ release[q] <= Len(schema)
        BY <3>2, <2>1 DEF Served, Proc
      <4> QED
        BY <4>1, <1>3, Types
    <3> QED
      BY <3>1, <3>2
  <2> QED
    BY <2>1 DEF Served
<1>7. OthersEmpty' /\ WritersContinue'
  BY <1>2 DEF OthersEmpty, WritersContinue, Empty, TypeOK
<1> QED
  BY <1>4, <1>5, <1>6, <1>7 DEF Gapless

LEMMA ExclusiveStep == Inv /\ [Next]_vars => Exclusive'
<1> SUFFICES ASSUME Inv, [Next]_vars PROVE Exclusive'
  OBVIOUS
<1> USE MigrationAssumption DEF Inv, TypeOK, Exclusive, Holding, InTransaction, Goto
<1>1. CASE UNCHANGED vars
  BY <1>1 DEF vars, procVars
<1>2. ASSUME NEW p \in Proc, NEW r \in Release, Start(p, r) PROVE Exclusive'
  BY <1>2 DEF Start
<1>3. ASSUME NEW p \in Proc, GoesOn(p) PROVE Exclusive'
  <2>1. CASE Restart(p) \/ Open(p) \/ TakeLock(p) \/ InitLedger(p)
    BY <2>1 DEF Restart, Open, TakeLock, InitLedger, Nobody
  <2>2. CASE Check(p) \/ EndOfEntries(p) \/ Exec(p) \/ Record(p)
    BY <2>2 DEF Check, EndOfEntries, Exec, Record
  <2>3. CASE Commit(p)
    BY <2>3 DEF Commit, Unlock
  <2> QED
    BY <1>3, <2>1, <2>2, <2>3 DEF GoesOn
<1>4. ASSUME NEW p \in Proc, Fails(p) PROVE Exclusive'
  BY <1>4 DEF Fails, OpenFails, Fail, LockTimeout, Crash, Unlock
<1>5. CASE GhostEnds
  BY <1>5 DEF GhostEnds, procVars, Nobody, Ghost
<1> QED
  BY <1>1, <1>2, <1>3, <1>4, <1>5 DEF Next, Quiet

LEMMA InvStep == Inv /\ [Next]_vars => Inv'
<1> SUFFICES ASSUME Inv, [Next]_vars PROVE Inv'
  OBVIOUS
<1>t. TypeOK' /\ Exclusive'
  BY TypeStep, ExclusiveStep DEF Inv
<1> USE <1>t, MigrationAssumption
<1>1. CASE UNCHANGED vars
  BY <1>1 DEF vars, procVars, txVars, Inv, OthersEmpty, Gapless, WritersContinue, Continues,
              Reached, Served
<1>2. ASSUME NEW p \in Proc, NEW r \in Release, Start(p, r) PROVE Inv'
  <2>1. Frame(p) /\ pc'[p] = "open" /\ recorded'[p] = {} /\ executed'[p] = <<>>
    BY <1>2 DEF Start, Goto, txVars, Inv, TypeOK, Frame, OthersEmpty
  <2> QED
    BY <2>1, FrameStep
<1>3. ASSUME NEW p \in Proc, GoesOn(p) PROVE Inv'
  <2>1. CASE Restart(p) \/ Open(p) \/ TakeLock(p)
    <3>1. /\ Frame(p) /\ pc'[p] \in {"open", "lock", "init"}
          /\ recorded'[p] = {} /\ executed'[p] = <<>>
      BY <2>1 DEF Restart, Open, TakeLock, Goto, txVars, Inv, TypeOK, Frame, OthersEmpty
    <3> QED
      BY <3>1, FrameStep
  <2>2. CASE InitLedger(p)
    <3>1. /\ Frame(p) /\ pc'[p] = "check" /\ entry'[p] = 1
          /\ recorded'[p] = {} /\ executed'[p] = <<>>
      BY <2>2 DEF InitLedger, Goto, txVars, Inv, TypeOK, Frame, OthersEmpty
    <3>2. Len(schema) \in Nat /\ Len(executed'[p]) = 0
      BY <3>1 DEF Inv, TypeOK
    <3>3. Continues(p)'
      BY <3>1, <3>2 DEF Continues, Reached, Frame
    <3> QED
      BY <3>1, <3>3, FrameStep
  <2>3. CASE Check(p)
    <3>1. Continues(p) /\ Frame(p) /\ pc'[p] \in {"check", "exec"}
      BY <2>3 DEF Check, Goto, txVars, Inv, TypeOK, Frame, WritersContinue
    <3>2. /\ Len(schema) \in Nat /\ Len(executed[p]) \in Nat
          /\ ledger \cup recorded[p] = 1 .. Reached(p)
      BY <2>3, <3>1 DEF Check, Inv, TypeOK, Continues, Gapless, Reached
    <3>3. Continues(p)'
      <4>1. /\ entry[p] \in 1 .. Reached(p) + 1 /\ Reached(p) \in Nat
            /\ Reached(p)' = Reached(p)
            /\ UNCHANGED <<schema, recorded, executed>>
        BY <2>3, <3>1, <3>2 DEF Check, txVars, Continues, Reached
      <4>2. CASE Applied(p, entry[p])
        <5>1. entry[p] <= Reached(p) /\ entry'[p] = entry[p] + 1 /\ pc'[p] = "check"
          BY <2>3, <3>2, <4>1, <4>2 DEF Check, Applied, Inv, TypeOK
        <5>2. pc[p] = "check"
          BY <2>3 DEF Check
        <5> QED
          BY <3>1, <3>2, <4>1, <5>1, <5>2 DEF Continues, Reached
      <4>3. CASE ~Applied(p, entry[p])
        <5>1. entry[p] = Reached(p) + 1 /\ entry'[p] = entry[p] /\ pc'[p] = "exec"
          BY <2>3, <3>2, <4>1, <4>3 DEF Check, Applied, Goto, Inv, TypeOK
        <5>2. pc[p] = "check"
          BY <2>3 DEF Check
        <5> QED
          BY <3>1, <3>2, <4>1, <5>1, <5>2 DEF Continues, Reached
      <4> QED
        BY <4>2, <4>3
    <3> QED
      BY <3>1, <3>3, FrameStep
  <2>4. CASE EndOfEntries(p)
    <3>1. Continues(p) /\ Frame(p) /\ pc'[p] = "commit"
      BY <2>4 DEF EndOfEntries, Goto, txVars, Inv, TypeOK, Frame, WritersContinue
    <3>2. /\ Len(schema) \in Nat /\ Len(executed[p]) \in Nat /\ release[p] \in Nat
          /\ entry[p] \in Nat
      BY Types DEF Inv
    <3>3. Continues(p)'
      <4>1. /\ pc[p] = "check" /\ entry[p] > release[p]
            /\ UNCHANGED <<schema, recorded, executed, release>>
        BY <2>4 DEF EndOfEntries, txVars
      <4>2. entry[p] <= Reached(p) + 1 /\ Reached(p) \in Nat /\ Reached(p)' = Reached(p)
        BY <3>1, <3>2, <4>1 DEF Continues, Reached
      <4>3. release'[p] <= Reached(p)'
        BY <3>2, <4>1, <4>2
      <4> QED
        BY <3>1, <4>1, <4>2, <4>3 DEF Continues
    <3> QED
      BY <3>1, <3>3, FrameStep
  <2>5. CASE Exec(p)
    <3>1. Continues(p) /\ Frame(p) /\ pc'[p] = "record" /\ pc[p] = "exec"
      BY <2>5 DEF Exec, Goto, Inv, TypeOK, Frame, WritersContinue
    <3>2. /\ Len(schema) \in Nat /\ executed[p] \in Seq(Nat) /\ entry[p] \in Nat
          /\ executed'[p] = Append(executed[p], entry[p])
          /\ UNCHANGED <<schema, recorded, entry>>
      BY <2>5, Types DEF Exec, Inv, TypeOK
    <3>3. /\ Len(executed'[p]) = Len(executed[p]) + 1
          /\ \A n \in 1 .. Len(executed[p]) + 1 :
               executed'[p][n] = IF n = Len(executed[p]) + 1 THEN entry[p] ELSE executed[p][n]
      BY <3>2
    <3>4. Continues(p)'
      <4>1. /\ \A n \in 1 .. Len(executed[p]) : executed[p][n] = Len(schema) + n
            /\ entry[p] = Len(schema) + Len(executed[p]) + 1
            /\ recorded[p] = Len(schema) + 1 .. Len(schema) + Len(executed[p])
            /\ Len(executed[p]) \in Nat
        BY <3>1, <3>2 DEF Continues, Reached
      <4>2. ASSUME NEW n \in 1 .. Len(executed'[p])
            PROVE  executed'[p][n] = Len(schema') + n
        <5>1. n \in 1 .. Len(executed[p]) + 1 /\ n \in Nat /\ schema' = schema
          BY <3>2, <3>3, <4>1
        <5>2. CASE n = Len(executed[p]) + 1
          BY <3>2, <3>3, <4>1, <5>1, <5>2
        <5>3. CASE n # Len(executed[p]) + 1
          <6>1. n \in 1 .. Len(executed[p])
            BY <4>1, <5>1, <5>3
          <6>2. executed'[p][n] = executed[p][n]
            BY <3>3, <5>1, <5>3
          <6> QED
            BY <4>1, <5>1, <6>1, <6>2
        <5> QED
          BY <5>2, <5>3
      <4>3. /\ recorded'[p] = Len(schema') + 1 .. Reached(p)' - 1
            /\ entry'[p] = Reached(p)'
        BY <3>2, <3>3, <4>1 DEF Reached
      <4> QED
        <5>1. executed'[p] # <<>>
          <6>1. Len(executed'[p]) # 0
            BY <3>3, <4>1
          <6> QED
            BY <6>1, EmptySeq
        <5> QED
          BY <3>1, <4>2, <4>3, <5>1 DEF Continues
    <3> QED
      BY <3>1, <3>4, FrameStep
  <2>6. CASE Record(p)
    <3>1. Continues(p) /\ Frame(p) /\ pc'[p] = "check" /\ pc[p] = "record"
      BY <2>6 DEF Record, Goto, Inv, TypeOK, Frame, WritersContinue
    <3>2. /\ Len(schema) \in Nat /\ Len(executed[p]) \in Nat /\ entry[p] \in Nat
          /\ recorded'[p] = recorded[p] \cup {entry[p]} /\ entry'[p] = entry[p] + 1
          /\ UNCHANGED <<schema, executed>>
      BY <2>6 DEF Record, Inv, TypeOK
    <3>3. Continues(p)'
      <4>1. /\ \A n \in 1 .. Len(executed[p]) : executed[p][n] = Len(schema) + n
            /\ recorded[p] = Len(schema) + 1 .. Len(schema) + Len(executed[p]) - 1
            /\ entry[p] = Len(schema) + Len(executed[p])
        BY <3>1, <3>2 DEF Continues, Reached
      <4>2. Len(executed[p]) # 0
        BY <3>1, EmptySeq, Types DEF Continues, Inv
      <4>3. recorded'[p] = Len(schema') + 1 .. Reached(p)'
        <5> DEFINE l == Len(schema)
                   e == Len(executed[p])
        <5>1. recorded'[p] = (l + 1 .. l + e - 1) \cup {l + e}
          BY <3>2, <4>1
        <5>2. (l + 1 .. l + e - 1) \cup {l + e} = l + 1 .. l + e
          <6>1. l \in Nat /\ e \in Nat \ {0}
            BY <3>2, <4>2
          <6> HIDE DEF l, e
          <6> QED
            BY <6>1
        <5>3. Len(schema') = l /\ Reached(p)' = l + e
          BY <3>2 DEF Reached
        <5> QED
          BY <5>1, <5>2, <5>3
      <4>4. entry'[p] \in 1 .. Reached(p)' + 1
        BY <3>2, <4>1 DEF Reached
      <4> QED
        BY <3>1, <3>2, <4>1, <4>3, <4>4 DEF Continues
    <3> QED
      BY <3>1, <3>3, FrameStep
  <2>7. CASE Commit(p)
    <3>1. /\ pc[p] = "commit" /\ Keep(p) /\ Empty(p) /\ UNCHANGED release
          /\ \A q \in Proc \ {p} : pc'[q] = pc[q]
          /\ pc'[p] \in {"serving", "off"}
      BY <2>7 DEF Commit, Goto, Inv, TypeOK
    <3> QED
      BY <3>1, KeptStep
  <2> QED
    BY <1>3, <2>1, <2>2, <2>3, <2>4, <2>5, <2>6, <2>7 DEF GoesOn
<1>4. ASSUME NEW p \in Proc, Fails(p) PROVE Inv'
  <2>1. CASE OpenFails(p) \/ LockTimeout(p)
    <3>1. Frame(p) /\ pc'[p] = "failed" /\ recorded'[p] = {} /\ executed'[p] = <<>>
      BY <2>1 DEF OpenFails, LockTimeout, Goto, txVars, Inv, TypeOK, Frame, OthersEmpty
    <3> QED
      BY <3>1, FrameStep
  <2>2. CASE Fail(p) \/ (Crash(p) /\ Drop(p))
    <3>1. Frame(p) /\ pc'[p] = "failed" /\ recorded'[p] = {} /\ executed'[p] = <<>>
      BY <2>2 DEF Fail, Crash, Drop, Empty, Goto, Inv, TypeOK, Frame
    <3> QED
      BY <3>1, FrameStep
  <2>3. CASE Crash(p) /\ ~Drop(p)
    <3>1. /\ pc[p] = "commit" /\ Keep(p) /\ Empty(p) /\ UNCHANGED release
          /\ \A q \in Proc \ {p} : pc'[q] = pc[q]
          /\ pc'[p] = "failed"
      BY <2>3 DEF Crash, Goto, Inv, TypeOK
    <3> QED
      BY <3>1, KeptStep
  <2> QED
    BY <1>4, <2>1, <2>2, <2>3 DEF Fails
<1>5. CASE GhostEnds
  BY <1>5 DEF GhostEnds, procVars, txVars, Inv, OthersEmpty, Gapless, WritersContinue,
              Continues, Reached, Served
<1> QED
  BY <1>1, <1>2, <1>3, <1>4, <1>5 DEF Next, Quiet

----------------------------------------------------------------------------
(* migrate.go:10: the schema is what the ledger says, without a gap and    *)
(* without a migration done twice, and a serving bot finds its own.        *)
THEOREM SchemaSafety == Spec => []SchemaTruthful
<1>1. Inv => SchemaTruthful
  BY DEF Inv, TypeOK, Gapless, Served, SchemaTruthful
<1> QED
  BY InitInv, InvStep, <1>1, PTL DEF Spec

(* The variables keep their types. *)
THEOREM TypeCorrect == Spec => []TypeOK
<1>1. Inv => TypeOK
  BY DEF Inv
<1> QED
  BY InitInv, InvStep, <1>1, PTL DEF Spec
=============================================================================

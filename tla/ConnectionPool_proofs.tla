------------------------ MODULE ConnectionPool_proofs ------------------------
(***************************************************************************)
(* NobodyWaits and CleanSessions of ConnectionPool hold for any number of  *)
(* workers and jobs, and any pool size from MinConns on.                   *)
(*                                                                         *)
(* The argument: which seats hold a connection follows from where the      *)
(* goroutines are, so whoever wants one leaves a seat empty, and there are *)
(* fewer other seats than connections.  A session is clean before its lock *)
(* is granted and after it has been released, and everything in between is *)
(* what its seat may have.                                                 *)
(***************************************************************************)
EXTENDS ConnectionPool, FiniteSetTheorems, SequenceTheorems, TLAPS

(* What each goroutine has, by where it is. *)
MainInv ==
  /\ pc["main"] \in MainPc
  /\ "poller" \in used <=> pc["main"] \in {"try", "setup", "intake", "join", "close", "fail"}
  /\ held["poller"].locks \subseteq {"poller"}
  /\ pc["main"] = "try" => held["poller"].locks = {} /\ ~held["poller"].limited

InboxInv ==
  /\ pc["inbox"] \in InboxPc
  /\ "inbox" \in used <=> pc["inbox"] \in {"try", "work", "store", "storing", "unlock"}
  /\ "admit" \in used <=> pc["inbox"] = "storing"
  /\ held["inbox"].locks \subseteq {"inbox"}
  /\ ~held["inbox"].limited
  /\ pc["inbox"] = "try" => held["inbox"].locks = {}
  /\ held["admit"].locks = {}
  /\ ~held["admit"].limited

WorkerInv(w) ==
  /\ pc[w] \in WorkerPc
  /\ w \in used <=> pc[w] \in {"listing", "try", "run", "skip", "unlock"}
  /\ pc[w] \in {"claim", "try", "run", "skip", "unlock"} => job[w] \in Job
  /\ held[w].locks \subseteq {job[w]} \ {Nothing}
  /\ ~held[w].limited
  /\ pc[w] \in {"listing", "try"} => held[w].locks = {}

(* The goroutines run only while main waits for them. *)
Waited ==
  pc["main"] \notin {"intake", "join"} => \A t \in Task \ {"main"} : pc[t] = "off"

AllFresh == \A i \in DOMAIN idle : idle[i] = Fresh

PoolInv ==
  /\ pc \in [Task -> MainPc \cup InboxPc \cup WorkerPc]
  /\ job \in [Worker -> Job \cup {Nothing}]
  /\ held \in [Seat -> Session]
  /\ used \in SUBSET Seat
  /\ \A s \in Seat \ used : held[s] = NoSession
  /\ idle \in Seq(Session)
  /\ Len(idle) + Cardinality(used) <= PoolSize
  /\ sigterm \in BOOLEAN
  /\ AllFresh

Inv ==
  /\ PoolInv
  /\ Waited
  /\ MainInv
  /\ InboxInv
  /\ \A w \in Worker : WorkerInv(w)

----------------------------------------------------------------------------
(* Seats. *)

LEMMA SeatsFinite ==
  IsFiniteSet(Seat) /\ Cardinality(Seat) \in Nat /\ Cardinality(Seat) <= Cardinality(Worker) + 3
<1>1. IsFiniteSet(Worker) /\ Cardinality(Worker) \in Nat
  BY PoolAssumption, FS_CardinalityType
<1>2. IsFiniteSet(Worker \cup {"poller"}) /\ Cardinality(Worker \cup {"poller"}) \in Nat
      /\ Cardinality(Worker \cup {"poller"}) <= Cardinality(Worker) + 1
  BY <1>1, FS_AddElement
<1> DEFINE s2 == Worker \cup {"poller"} \cup {"inbox"}
<1>3. IsFiniteSet(s2) /\ Cardinality(s2) \in Nat /\ Cardinality(s2) <= Cardinality(Worker) + 2
  BY <1>1, <1>2, FS_AddElement
<1>4. IsFiniteSet(s2 \cup {"admit"}) /\ Cardinality(s2 \cup {"admit"}) \in Nat
      /\ Cardinality(s2 \cup {"admit"}) <= Cardinality(Worker) + 3
  BY <1>1, <1>3, FS_AddElement
<1>5. Seat = s2 \cup {"admit"}
  BY DEF Seat
<1> QED
  BY <1>4, <1>5

LEMMA SizeEnough ==
  /\ PoolSize \in Nat /\ Cardinality(Worker) \in Nat
  /\ PoolSize >= Cardinality(Worker) + 3
BY PoolAssumption, FS_CardinalityType DEF PoolSize

(* Whoever has an empty seat finds a connection. *)
LEMMA RoomForOneMore ==
  ASSUME NEW seat \in Seat, used \in SUBSET Seat, seat \notin used
  PROVE  CanAcquire
<1>1. IsFiniteSet(Seat \ {seat}) /\ Cardinality(Seat \ {seat}) = Cardinality(Seat) - 1
  BY SeatsFinite, FS_RemoveElement
<1>2. Cardinality(used) <= Cardinality(Seat \ {seat})
  BY <1>1, FS_Subset
<1>3. Cardinality(used) \in Nat
  BY SeatsFinite, FS_Subset, FS_CardinalityType
<1> QED
  BY <1>1, <1>2, <1>3, SeatsFinite, SizeEnough DEF CanAcquire

LEMMA UsedFinite ==
  ASSUME used \in SUBSET Seat
  PROVE  IsFiniteSet(used) /\ Cardinality(used) \in Nat
BY SeatsFinite, FS_Subset, FS_CardinalityType

LEMMA SessionValues == Fresh \in Session /\ NoSession \in Session
BY DEF Fresh, NoSession, Session

(* A connection taken from the pool is as good as new. *)
LEMMA AcquireStep ==
  ASSUME PoolInv, NEW seat \in Seat, seat \notin used, Acquire(seat)
  PROVE  /\ used' = used \cup {seat}
         /\ used' \in SUBSET Seat
         /\ held' = [held EXCEPT ![seat] = Fresh]
         /\ held' \in [Seat -> Session]
         /\ \A s \in Seat \ used' : held'[s] = NoSession
         /\ idle' \in Seq(Session)
         /\ Len(idle') + Cardinality(used') <= PoolSize
         /\ AllFresh'
<1> USE DEF PoolInv
<1>1. used' = used \cup {seat} /\ used' \in SUBSET Seat
  BY DEF Acquire
<1>2. Cardinality(used') = Cardinality(used) + 1 /\ Cardinality(used) \in Nat
  BY <1>1, UsedFinite, FS_AddElement
<1>3. CASE idle # <<>>
  <2>1. /\ held' = [held EXCEPT ![seat] = Head(idle)]
        /\ idle' = Tail(idle)
    BY <1>3 DEF Acquire, RestOfIdle
  <2>2. Len(idle) \in Nat \ {0} /\ 1 \in DOMAIN idle /\ Head(idle) = Fresh
    BY <1>3 DEF AllFresh
  <2>3. /\ idle' \in Seq(Session) /\ Len(idle') = Len(idle) - 1
        /\ \A i \in 1 .. Len(idle') : idle'[i] = idle[i + 1]
    BY <1>3, <2>1, HeadTailProperties
  <2>4. AllFresh'
    <3>1. ASSUME NEW i \in DOMAIN idle' PROVE idle'[i] = Fresh
      <4>1. i \in 1 .. Len(idle') /\ i + 1 \in DOMAIN idle
        BY <2>2, <2>3
      <4> QED
        BY <4>1, <2>3 DEF AllFresh
    <3> QED
      BY <3>1 DEF AllFresh
  <2>5. Len(idle') + Cardinality(used') <= PoolSize
    BY <1>2, <2>2, <2>3, SizeEnough
  <2> QED
    BY <1>1, <2>1, <2>2, <2>3, <2>4, <2>5, SessionValues
<1>4. CASE idle = <<>>
  <2>1. held' = [held EXCEPT ![seat] = Fresh] /\ idle' = idle /\ Cardinality(used) < PoolSize
    BY <1>4 DEF Acquire, CanAcquire
  <2>2. Len(idle') + Cardinality(used') <= PoolSize
    BY <1>2, <1>4, <2>1, SizeEnough
  <2> QED
    BY <1>1, <2>1, <2>2, SessionValues DEF AllFresh
<1> QED
  BY <1>3, <1>4

(* A connection that is left goes back as good as new, or not at all. *)
LEMMA LeaveStep ==
  ASSUME PoolInv, NEW seat \in Seat, seat \in used, Leave(seat),
         idle' = idle \/ idle' = <<Fresh>> \o idle
  PROVE  /\ used' = used \ {seat}
         /\ used' \in SUBSET Seat
         /\ held' = [held EXCEPT ![seat] = NoSession]
         /\ held' \in [Seat -> Session]
         /\ \A s \in Seat \ used' : held'[s] = NoSession
         /\ idle' \in Seq(Session)
         /\ Len(idle') + Cardinality(used') <= PoolSize
         /\ AllFresh'
<1> USE DEF PoolInv, Leave
<1>1. Cardinality(used') = Cardinality(used) - 1 /\ Cardinality(used) \in Nat
  BY UsedFinite, FS_RemoveElement
<1>2. CASE idle' = idle
  BY <1>1, <1>2, SessionValues, SizeEnough DEF AllFresh
<1>3. CASE idle' = <<Fresh>> \o idle
  <2>1. <<Fresh>> \in Seq(Session) /\ Len(<<Fresh>>) = 1 /\ <<Fresh>>[1] = Fresh
    BY SessionValues
  <2>2. /\ idle' \in Seq(Session) /\ Len(idle') = Len(idle) + 1
        /\ \A i \in 1 .. Len(idle') :
             idle'[i] = IF i <= 1 THEN <<Fresh>>[i] ELSE idle[i - 1]
    BY <1>3, <2>1, ConcatProperties
  <2>3. AllFresh'
    <3>1. ASSUME NEW i \in DOMAIN idle' PROVE idle'[i] = Fresh
      <4>1. i \in 1 .. Len(idle) + 1
        BY <2>2
      <4>2. CASE i = 1
        BY <2>1, <2>2, <4>1, <4>2
      <4>3. CASE i # 1
        <5>1. i - 1 \in DOMAIN idle /\ ~(i <= 1)
          BY <4>1, <4>3
        <5> QED
          BY <2>2, <4>1, <5>1 DEF AllFresh
      <4> QED
        BY <4>2, <4>3
    <3> QED
      BY <3>1 DEF AllFresh
  <2>4. Len(idle') + Cardinality(used') <= PoolSize
    BY <1>1, <2>2, SizeEnough
  <2> QED
    BY <2>2, <2>3, <2>4, SessionValues
<1> QED
  BY <1>2, <1>3

LEMMA FreshWhenClean ==
  ASSUME NEW s \in Session, s.locks = {}, ~s.limited, s.alive
  PROVE  s = Fresh
BY DEF Session, Fresh

LEMMA ReleaseClean ==
  ASSUME PoolInv, NEW seat \in Seat, Release(seat),
         held[seat].locks = {}, ~held[seat].limited
  PROVE  Leave(seat) /\ (idle' = idle \/ idle' = <<Fresh>> \o idle)
<1>1. held[seat] \in Session
  BY DEF PoolInv
<1> QED
  BY <1>1, FreshWhenClean DEF Release, PutBack

LEMMA UnlockClean ==
  ASSUME PoolInv, NEW seat \in Seat, NEW key, Unlock(seat, key),
         held[seat].locks \subseteq {key}, ~held[seat].limited
  PROVE  Leave(seat) /\ (idle' = idle \/ idle' = <<Fresh>> \o idle)
<1>1. held[seat] \in Session
  BY DEF PoolInv
<1>2. CASE Discard(seat)
  BY <1>2 DEF Discard
<1>3. CASE held[seat].alive /\ Leave(seat) /\ PutBack(Unlocked(held[seat], key))
  <2>1. Unlocked(held[seat], key) = [held[seat] EXCEPT !.locks = held[seat].locks \ {key}]
    BY DEF Unlocked
  <2>2. held[seat].locks \ {key} = {}
    OBVIOUS
  <2>3. Unlocked(held[seat], key) = Fresh
    BY <1>1, <1>3, <2>1, <2>2 DEF Session, Fresh
  <2> QED
    BY <1>3, <2>3 DEF PutBack
<1> QED
  BY <1>2, <1>3 DEF Unlock

(* A lock is granted to a session in use. *)
LEMMA LockStep ==
  ASSUME PoolInv, NEW seat \in used, NEW key \in Key, Lock(seat, key)
  PROVE  /\ held' = [held EXCEPT ![seat].locks = @ \cup {key}]
         /\ held' \in [Seat -> Session]
         /\ \A s \in Seat \ used' : held'[s] = NoSession
         /\ UNCHANGED <<used, idle>>
         /\ AllFresh'
<1>1. held[seat] \in Session /\ seat \in Seat
  BY DEF PoolInv
<1>2. [held[seat] EXCEPT !.locks = held[seat].locks \cup {key}] \in Session
  BY <1>1 DEF Session
<1> QED
  BY <1>1, <1>2 DEF Lock, PoolInv, AllFresh

----------------------------------------------------------------------------
(* A step of one goroutine concerns its own seats. *)

SeatsOf(t) == CASE t = "main" -> {"poller"}
                [] t = "inbox" -> {"inbox", "admit"}
                [] t \in Worker -> {t}

LEMMA Distinct ==
  /\ \A w \in Worker : w \notin {"main", "poller", "inbox", "admit", "none"}
  /\ \A j \in Job : j \notin {"poller", "inbox", "none"}
BY PoolAssumption

Alone(t) ==
  /\ \A u \in Task \ {t} : pc'[u] = pc[u]
  /\ \A s \in Seat \ SeatsOf(t) : held'[s] = held[s] /\ (s \in used' <=> s \in used)
  /\ \A w \in Worker \ {t} : job'[w] = job[w]

LEMMA OthersKeep ==
  ASSUME Inv, NEW t \in Task, Alone(t)
  PROVE  /\ t # "main" => MainInv'
         /\ t # "inbox" => InboxInv'
         /\ \A w \in Worker \ {t} : WorkerInv(w)'
<1> USE Distinct DEF Inv
<1>1. ASSUME t # "main" PROVE MainInv'
  <2>1. "poller" \in Seat \ SeatsOf(t) /\ "main" \in Task \ {t}
    BY <1>1 DEF Seat, Task, SeatsOf
  <2> QED
    BY <2>1 DEF Alone, MainInv
<1>2. ASSUME t # "inbox" PROVE InboxInv'
  <2>1. {"inbox", "admit"} \subseteq Seat \ SeatsOf(t) /\ "inbox" \in Task \ {t}
    BY <1>2 DEF Seat, Task, SeatsOf
  <2> QED
    BY <2>1 DEF Alone, InboxInv
<1>3. ASSUME NEW w \in Worker \ {t} PROVE WorkerInv(w)'
  <2>1. w \in Seat \ SeatsOf(t) /\ w \in Task \ {t}
    BY DEF Seat, Task, SeatsOf
  <2> QED
    BY <2>1 DEF Alone, WorkerInv
<1> QED
  BY <1>1, <1>2, <1>3

(* The step of a goroutine that main has started. *)
LEMMA StartedStep ==
  ASSUME Inv, NEW t \in Task \ {"main"}, pc[t] # "off", Alone(t), PoolInv',
         t = "inbox" => InboxInv',
         t \in Worker => WorkerInv(t)'
  PROVE  Inv'
<1>1. Waited'
  <2>1. pc["main"] \in {"intake", "join"}
    BY DEF Inv, Waited
  <2>2. pc'["main"] = pc["main"]
    BY DEF Alone, Task
  <2> QED
    BY <2>1, <2>2 DEF Waited
<1>2. t = "inbox" \/ t \in Worker
  BY DEF Task
<1> QED
  BY <1>1, <1>2, OthersKeep, Distinct DEF Inv

LEMMA InboxStepInv == Inv /\ InboxStep => Inv'
<1> SUFFICES ASSUME Inv, InboxStep PROVE Inv'
  OBVIOUS
<1> USE Distinct DEF Inv, Goto
<1>0. "inbox" \in Task \ {"main"} /\ {"inbox", "admit"} \subseteq Seat
  BY DEF Task, Seat
<1>s. SeatsOf("inbox") = {"inbox", "admit"}
  BY DEF SeatsOf
<1>p. pc \in [Task -> MainPc \cup InboxPc \cup WorkerPc]
  BY DEF PoolInv
<1>1. CASE AskStore \/ StoreUnavailable \/ EndInbox \/ StopInbox
  <2>1. /\ pc["inbox"] # "off" /\ UNCHANGED <<job, held, used, idle, sigterm>>
        /\ \E place \in {"store", "unlock", "off"} : pc' = [pc EXCEPT !["inbox"] = place]
    BY <1>1 DEF AskStore, StoreUnavailable, EndInbox, StopInbox
  <2>2. PoolInv'
    BY <2>1, <1>p, <1>0 DEF PoolInv, InboxPc, AllFresh
  <2>3. Alone("inbox")
    BY <2>1, <1>p DEF Alone
  <2>4. InboxInv'
    BY <1>1, <1>p, <1>0 DEF AskStore, StoreUnavailable, EndInbox, StopInbox, InboxInv, InboxPc
  <2> QED
    BY <2>1, <2>2, <2>3, <2>4, <1>0, StartedStep
<1>2. CASE TakeInbox
  <2>1. /\ pc["inbox"] = "take" /\ Acquire("inbox") /\ UNCHANGED <<job, sigterm>>
        /\ pc' = [pc EXCEPT !["inbox"] = "try"] /\ "inbox" \notin used
    BY <1>2 DEF TakeInbox, InboxInv
  <2>2. /\ used' = used \cup {"inbox"} /\ used' \in SUBSET Seat
        /\ held' = [held EXCEPT !["inbox"] = Fresh] /\ held' \in [Seat -> Session]
        /\ \A s \in Seat \ used' : held'[s] = NoSession
        /\ idle' \in Seq(Session) /\ Len(idle') + Cardinality(used') <= PoolSize /\ AllFresh'
    BY <2>1, <1>0, AcquireStep
  <2>3. PoolInv'
    BY <2>1, <2>2, <1>p, <1>0 DEF PoolInv, InboxPc
  <2>4. Alone("inbox")
    BY <2>1, <2>2, <1>p, <1>s DEF Alone, PoolInv
  <2>5. InboxInv'
    BY <2>1, <2>2, <1>p, <1>0 DEF InboxInv, InboxPc, Fresh, PoolInv
  <2> QED
    BY <2>1, <2>3, <2>4, <2>5, <1>0, StartedStep
<1>3. CASE LockInbox
  <2>1. /\ pc["inbox"] = "try" /\ Lock("inbox", "inbox") /\ UNCHANGED <<job, sigterm>>
        /\ pc' = [pc EXCEPT !["inbox"] = "work"] /\ "inbox" \in used /\ "inbox" \in Key
    BY <1>3 DEF LockInbox, InboxInv, Key
  <2>2. /\ held' = [held EXCEPT !["inbox"].locks = @ \cup {"inbox"}]
        /\ held' \in [Seat -> Session]
        /\ \A s \in Seat \ used' : held'[s] = NoSession
        /\ UNCHANGED <<used, idle>> /\ AllFresh'
    BY <2>1, LockStep
  <2>3. PoolInv'
    BY <2>1, <2>2, <1>p, <1>0 DEF PoolInv, InboxPc
  <2>4. Alone("inbox")
    BY <2>1, <2>2, <1>p, <1>s DEF Alone, PoolInv
  <2>5. InboxInv'
    BY <2>1, <2>2, <1>p, <1>0 DEF InboxInv, InboxPc, PoolInv, Session
  <2> QED
    BY <2>1, <2>3, <2>4, <2>5, <1>0, StartedStep
<1>4. CASE InboxTaken \/ UnlockInbox
  <2>1. /\ pc["inbox"] \in {"try", "unlock"} /\ UNCHANGED <<job, sigterm>>
        /\ pc' = [pc EXCEPT !["inbox"] = "take"] /\ "inbox" \in used
    BY <1>4 DEF InboxTaken, UnlockInbox, InboxInv
  <2>2. Leave("inbox") /\ (idle' = idle \/ idle' = <<Fresh>> \o idle)
    BY <1>4, <1>0, ReleaseClean, UnlockClean DEF InboxTaken, UnlockInbox, InboxInv
  <2>3. /\ used' = used \ {"inbox"} /\ used' \in SUBSET Seat
        /\ held' = [held EXCEPT !["inbox"] = NoSession] /\ held' \in [Seat -> Session]
        /\ \A s \in Seat \ used' : held'[s] = NoSession
        /\ idle' \in Seq(Session) /\ Len(idle') + Cardinality(used') <= PoolSize /\ AllFresh'
    BY <2>1, <2>2, <1>0, LeaveStep
  <2>4. PoolInv'
    BY <2>1, <2>3, <1>p, <1>0 DEF PoolInv, InboxPc
  <2>5. Alone("inbox")
    BY <2>1, <2>3, <1>p, <1>s DEF Alone, PoolInv
  <2>6. InboxInv'
    BY <2>1, <2>3, <1>p, <1>0 DEF InboxInv, InboxPc, NoSession, PoolInv
  <2> QED
    BY <2>1, <2>4, <2>5, <2>6, <1>0, StartedStep
<1>5. CASE AcquireForStore
  <2>1. /\ pc["inbox"] = "store" /\ Acquire("admit") /\ UNCHANGED <<job, sigterm>>
        /\ pc' = [pc EXCEPT !["inbox"] = "storing"] /\ "admit" \notin used
    BY <1>5 DEF AcquireForStore, InboxInv
  <2>2. /\ used' = used \cup {"admit"} /\ used' \in SUBSET Seat
        /\ held' = [held EXCEPT !["admit"] = Fresh] /\ held' \in [Seat -> Session]
        /\ \A s \in Seat \ used' : held'[s] = NoSession
        /\ idle' \in Seq(Session) /\ Len(idle') + Cardinality(used') <= PoolSize /\ AllFresh'
    BY <2>1, <1>0, AcquireStep
  <2>3. PoolInv'
    BY <2>1, <2>2, <1>p, <1>0 DEF PoolInv, InboxPc
  <2>4. Alone("inbox")
    BY <2>1, <2>2, <1>p, <1>s DEF Alone, PoolInv
  <2>5. InboxInv'
    BY <2>1, <2>2, <1>p, <1>0 DEF InboxInv, InboxPc, Fresh, PoolInv
  <2> QED
    BY <2>1, <2>3, <2>4, <2>5, <1>0, StartedStep
<1>6. CASE StoreAnswers
  <2>1. /\ pc["inbox"] = "storing" /\ Release("admit") /\ UNCHANGED <<job, sigterm>>
        /\ \E place \in {"work", "unlock"} : pc' = [pc EXCEPT !["inbox"] = place]
        /\ "admit" \in used
    BY <1>6 DEF StoreAnswers, InboxInv
  <2>2. Leave("admit") /\ (idle' = idle \/ idle' = <<Fresh>> \o idle)
    BY <2>1, <1>0, ReleaseClean DEF InboxInv
  <2>3. /\ used' = used \ {"admit"} /\ used' \in SUBSET Seat
        /\ held' = [held EXCEPT !["admit"] = NoSession] /\ held' \in [Seat -> Session]
        /\ \A s \in Seat \ used' : held'[s] = NoSession
        /\ idle' \in Seq(Session) /\ Len(idle') + Cardinality(used') <= PoolSize /\ AllFresh'
    BY <2>1, <2>2, <1>0, LeaveStep
  <2>4. PoolInv'
    BY <2>1, <2>3, <1>p, <1>0 DEF PoolInv, InboxPc
  <2>5. Alone("inbox")
    BY <2>1, <2>3, <1>p, <1>s DEF Alone, PoolInv
  <2>6. InboxInv'
    BY <2>1, <2>3, <1>p, <1>0 DEF InboxInv, InboxPc, NoSession, PoolInv
  <2> QED
    BY <2>1, <2>4, <2>5, <2>6, <1>0, StartedStep
<1> QED
  BY <1>1, <1>2, <1>3, <1>4, <1>5, <1>6 DEF InboxStep

LEMMA WorkerStepInv == ASSUME Inv, NEW w \in Worker, WorkerStep(w) PROVE Inv'
<1> USE Distinct DEF Inv, Goto
<1>0. w \in Task \ {"main"} /\ w \in Seat /\ w # "inbox"
  BY DEF Task, Seat
<1>s. SeatsOf(w) = {w}
  BY <1>0 DEF SeatsOf
<1>p. /\ pc \in [Task -> MainPc \cup InboxPc \cup WorkerPc]
      /\ job \in [Worker -> Job \cup {Nothing}]
      /\ held \in [Seat -> Session]
  BY DEF PoolInv
<1>w. WorkerInv(w)
  OBVIOUS
<1>1. CASE NotReady(w) \/ EndRun(w) \/ ClaimFails(w) \/ StopWorker(w)
  <2>1. /\ pc[w] # "off" /\ UNCHANGED <<held, used, idle, sigterm>>
        /\ \E place \in {"skip", "unlock", "list", "off"} : pc' = [pc EXCEPT ![w] = place]
        /\ job' = job \/ job' = [job EXCEPT ![w] = Nothing]
    BY <1>1 DEF NotReady, EndRun, ClaimFails, StopWorker, AfterStop
  <2>2. PoolInv'
    BY <2>1, <1>p, <1>0 DEF PoolInv, WorkerPc, AllFresh
  <2>3. Alone(w)
    BY <2>1, <1>p DEF Alone
  <2>4. WorkerInv(w)'
    <3>1. CASE NotReady(w) \/ EndRun(w)
      BY <3>1, <1>p, <1>0, <1>w DEF NotReady, EndRun, WorkerInv, WorkerPc
    <3>2. CASE ClaimFails(w) \/ StopWorker(w)
      <4>1. /\ w \notin used /\ held' = held /\ used' = used
            /\ pc'[w] \in {"list", "off"}
        BY <3>2, <1>p, <1>0, <1>w DEF ClaimFails, StopWorker, AfterStop, WorkerInv
      <4>2. held[w] = NoSession
        BY <4>1, <1>0 DEF PoolInv
      <4> QED
        BY <4>1, <4>2 DEF WorkerInv, WorkerPc, NoSession
    <3> QED
      BY <1>1, <3>1, <3>2
  <2> QED
    BY <2>1, <2>2, <2>3, <2>4, <1>0, StartedStep
<1>2. CASE AcquireToList(w) \/ AcquireToClaim(w)
  <2>1. /\ pc[w] \in {"list", "claim"} /\ Acquire(w) /\ UNCHANGED <<job, sigterm>>
        /\ pc' = [pc EXCEPT ![w] = IF pc[w] = "list" THEN "listing" ELSE "try"]
        /\ w \notin used
    BY <1>2, <1>w DEF AcquireToList, AcquireToClaim, WorkerInv
  <2>2. /\ used' = used \cup {w} /\ used' \in SUBSET Seat
        /\ held' = [held EXCEPT ![w] = Fresh] /\ held' \in [Seat -> Session]
        /\ \A s \in Seat \ used' : held'[s] = NoSession
        /\ idle' \in Seq(Session) /\ Len(idle') + Cardinality(used') <= PoolSize /\ AllFresh'
    BY <2>1, <1>0, AcquireStep
  <2>3. PoolInv'
    BY <2>1, <2>2, <1>p, <1>0 DEF PoolInv, WorkerPc
  <2>4. Alone(w)
    BY <2>1, <2>2, <1>p, <1>s DEF Alone, PoolInv
  <2>5. WorkerInv(w)'
    BY <2>1, <2>2, <1>p, <1>0, <1>w DEF WorkerInv, WorkerPc, Fresh
  <2> QED
    BY <2>1, <2>3, <2>4, <2>5, <1>0, StartedStep
<1>3. CASE LockJob(w)
  <2>1. /\ pc[w] = "try" /\ Lock(w, job[w]) /\ UNCHANGED <<job, sigterm>>
        /\ pc' = [pc EXCEPT ![w] = "run"] /\ w \in used /\ job[w] \in Key /\ job[w] \in Job
    BY <1>3, <1>w DEF LockJob, WorkerInv, Key
  <2>2. /\ held' = [held EXCEPT ![w].locks = @ \cup {job[w]}]
        /\ held' \in [Seat -> Session]
        /\ \A s \in Seat \ used' : held'[s] = NoSession
        /\ UNCHANGED <<used, idle>> /\ AllFresh'
    BY <2>1, LockStep
  <2>3. PoolInv'
    BY <2>1, <2>2, <1>p, <1>0 DEF PoolInv, WorkerPc
  <2>4. Alone(w)
    BY <2>1, <2>2, <1>p, <1>s DEF Alone
  <2>5. WorkerInv(w)'
    <3>1. /\ held'[w].locks = held[w].locks \cup {job[w]}
          /\ held'[w].limited = held[w].limited /\ job[w] # Nothing
      BY <2>1, <2>2, <1>p, <1>0 DEF Session, Nothing
    <3> QED
      BY <2>1, <2>2, <3>1, <1>p, <1>0, <1>w DEF WorkerInv, WorkerPc
  <2> QED
    BY <2>1, <2>3, <2>4, <2>5, <1>0, StartedStep
<1>4. CASE EndListing(w) \/ JobTaken(w) \/ UnlockJob(w)
  <2>1. /\ pc[w] \in {"listing", "try", "skip", "unlock"} /\ UNCHANGED sigterm /\ w \in used
    BY <1>4, <1>w DEF EndListing, JobTaken, UnlockJob, WorkerInv
  <2>2. \/ \E j \in Job : job' = [job EXCEPT ![w] = j] /\ pc' = [pc EXCEPT ![w] = "claim"]
        \/ job' = [job EXCEPT ![w] = Nothing] /\ pc' = [pc EXCEPT ![w] = "list"]
    BY <1>4 DEF EndListing, JobTaken, UnlockJob, NextCandidate
  <2>3. Leave(w) /\ (idle' = idle \/ idle' = <<Fresh>> \o idle)
    <3>1. CASE EndListing(w) \/ JobTaken(w)
      BY <3>1, <1>0, <1>w, ReleaseClean DEF EndListing, JobTaken, WorkerInv
    <3>2. CASE UnlockJob(w)
      BY <3>2, <1>0, <1>w, UnlockClean DEF UnlockJob, WorkerInv
    <3> QED
      BY <1>4, <3>1, <3>2
  <2>4. /\ used' = used \ {w} /\ used' \in SUBSET Seat
        /\ held' = [held EXCEPT ![w] = NoSession] /\ held' \in [Seat -> Session]
        /\ \A s \in Seat \ used' : held'[s] = NoSession
        /\ idle' \in Seq(Session) /\ Len(idle') + Cardinality(used') <= PoolSize /\ AllFresh'
    BY <2>1, <2>3, <1>0, LeaveStep
  <2>5. PoolInv'
    <3>1. pc' \in [Task -> MainPc \cup InboxPc \cup WorkerPc]
      BY <2>2, <1>p, <1>0 DEF WorkerPc
    <3>2. job' \in [Worker -> Job \cup {Nothing}]
      BY <2>2, <1>p
    <3>3. sigterm' \in BOOLEAN
      BY <2>1 DEF PoolInv
    <3> QED
      BY <2>4, <3>1, <3>2, <3>3 DEF PoolInv
  <2>6. Alone(w)
    BY <2>2, <2>4, <1>p, <1>s DEF Alone
  <2>7. WorkerInv(w)'
    <3>1. held'[w].locks = {} /\ ~held'[w].limited /\ w \notin used'
      BY <2>4, <1>p, <1>0 DEF NoSession
    <3>2. pc'[w] \in {"claim", "list"} /\ (pc'[w] = "claim" => job'[w] \in Job)
      BY <2>2, <1>p, <1>0
    <3> QED
      BY <3>1, <3>2 DEF WorkerInv, WorkerPc
  <2> QED
    BY <2>1, <2>5, <2>6, <2>7, <1>0, StartedStep
<1> QED
  BY <1>1, <1>2, <1>3, <1>4 DEF WorkerStep

----------------------------------------------------------------------------
(* Main. *)

(* The process has ended. *)
LEMMA ExitInv ==
  ASSUME Inv, Exit, \A t \in Task \ {"main"} : pc[t] = "off"
  PROVE  Inv'
<1> USE Distinct DEF Inv, Exit, Goto
<1>1. "main" \in Task
  BY DEF Task
<1>2. \A t \in Task \ {"main"} : pc'[t] = "off"
  BY <1>1 DEF PoolInv
<1>3. pc'["main"] = "exited"
  BY <1>1 DEF PoolInv
<1>4. PoolInv'
  <2>1. Cardinality({}) = 0
    BY FS_EmptySet
  <2>2. idle' \in Seq(Session) /\ Len(idle') = 0 /\ AllFresh'
    BY DEF AllFresh
  <2>3. Len(idle') + Cardinality(used') <= PoolSize
    BY <2>1, <2>2, SizeEnough
  <2> QED
    BY <1>1, <2>2, <2>3, SessionValues DEF PoolInv, MainPc
<1>5. MainInv'
  BY <1>3 DEF MainInv, MainPc, Seat, NoSession
<1>6. InboxInv'
  BY <1>2 DEF InboxInv, InboxPc, Seat, Task, NoSession
<1>7. ASSUME NEW w \in Worker PROVE WorkerInv(w)'
  <2>1. w \in Seat /\ w \in Task \ {"main"}
    BY DEF Seat, Task
  <2> QED
    BY <2>1, <1>2 DEF WorkerInv, WorkerPc, NoSession
<1> QED
  BY <1>2, <1>4, <1>5, <1>6, <1>7 DEF Waited

(* A step of main that leaves the other goroutines alone. *)
LEMMA MainOnly ==
  ASSUME Inv, Alone("main"), PoolInv', MainInv', Waited'
  PROVE  Inv'
<1>1. "main" \in Task /\ "main" \notin Worker
  BY Distinct DEF Task
<1> QED
  BY <1>1, OthersKeep DEF Inv

LEMMA MainStepInv == Inv /\ MainStep => Inv'
<1> SUFFICES ASSUME Inv, MainStep PROVE Inv'
  OBVIOUS
<1> USE Distinct DEF Inv, Goto
<1>0. "main" \in Task /\ "poller" \in Seat
  BY DEF Task, Seat
<1>s. SeatsOf("main") = {"poller"}
  BY DEF SeatsOf
<1>p. /\ pc \in [Task -> MainPc \cup InboxPc \cup WorkerPc]
      /\ held \in [Seat -> Session]
  BY DEF PoolInv
<1>1. CASE OpenPollerFails \/ SetUpPollerFails \/ ClosePool
  <2>1. Exit /\ pc["main"] \in {"open", "try", "setup", "pool"}
    BY <1>1 DEF OpenPollerFails, SetUpPollerFails, ClosePool
  <2> QED
    BY <2>1, ExitInv DEF Waited
<1>2. CASE Again \/ EndIntake \/ Join
  <2>1. /\ UNCHANGED <<job, held, used, idle, sigterm>>
        /\ \E place \in MainPc : pc' = [pc EXCEPT !["main"] = place]
    BY <1>2 DEF Again, EndIntake, Join, MainPc
  <2>2. PoolInv'
    BY <2>1, <1>p, <1>0 DEF PoolInv, AllFresh
  <2>3. Alone("main")
    BY <2>1, <1>p DEF Alone
  <2>4. MainInv' /\ Waited'
    BY <1>2, <1>p, <1>0 DEF Again, EndIntake, Join, MainInv, MainPc, Waited
  <2> QED
    BY <2>2, <2>3, <2>4, MainOnly
<1>3. CASE OpenPoller
  <2>1. /\ pc["main"] = "open" /\ Acquire("poller") /\ UNCHANGED <<job, sigterm>>
        /\ pc' = [pc EXCEPT !["main"] = "try"] /\ "poller" \notin used
    BY <1>3 DEF OpenPoller, MainInv
  <2>2. /\ used' = used \cup {"poller"} /\ used' \in SUBSET Seat
        /\ held' = [held EXCEPT !["poller"] = Fresh] /\ held' \in [Seat -> Session]
        /\ \A s \in Seat \ used' : held'[s] = NoSession
        /\ idle' \in Seq(Session) /\ Len(idle') + Cardinality(used') <= PoolSize /\ AllFresh'
    BY <2>1, <1>0, AcquireStep
  <2>3. PoolInv'
    BY <2>1, <2>2, <1>p, <1>0 DEF PoolInv, MainPc
  <2>4. Alone("main")
    BY <2>1, <2>2, <1>p, <1>s DEF Alone
  <2>5. MainInv' /\ Waited'
    BY <2>1, <2>2, <1>p, <1>0 DEF MainInv, MainPc, Fresh, Waited
  <2> QED
    BY <2>3, <2>4, <2>5, MainOnly
<1>4. CASE LockPoller
  <2>1. /\ pc["main"] = "try" /\ Lock("poller", "poller") /\ UNCHANGED <<job, sigterm>>
        /\ pc' = [pc EXCEPT !["main"] = "setup"] /\ "poller" \in used /\ "poller" \in Key
    BY <1>4 DEF LockPoller, MainInv, Key
  <2>2. /\ held' = [held EXCEPT !["poller"].locks = @ \cup {"poller"}]
        /\ held' \in [Seat -> Session]
        /\ \A s \in Seat \ used' : held'[s] = NoSession
        /\ UNCHANGED <<used, idle>> /\ AllFresh'
    BY <2>1, LockStep
  <2>3. PoolInv'
    BY <2>1, <2>2, <1>p, <1>0 DEF PoolInv, MainPc
  <2>4. Alone("main")
    BY <2>1, <2>2, <1>p, <1>s DEF Alone
  <2>5. MainInv' /\ Waited'
    <3>1. held'["poller"].locks = held["poller"].locks \cup {"poller"}
      BY <2>2, <1>p, <1>0 DEF Session
    <3> QED
      BY <2>1, <2>2, <3>1, <1>p, <1>0 DEF MainInv, MainPc, Waited
  <2> QED
    BY <2>3, <2>4, <2>5, MainOnly
<1>5. CASE PollerOwned \/ ClosePoller
  <2>1. /\ pc["main"] \in {"try", "close", "fail"} /\ UNCHANGED <<job, sigterm>>
        /\ \E place \in {"again", "pool", "exited"} : pc' = [pc EXCEPT !["main"] = place]
        /\ "poller" \in used
    BY <1>5 DEF PollerOwned, ClosePoller, MainInv
  <2>2. Leave("poller") /\ (idle' = idle \/ idle' = <<Fresh>> \o idle)
    <3>1. CASE PollerOwned
      BY <3>1, <1>0, ReleaseClean DEF PollerOwned, MainInv
    <3>2. CASE ClosePoller
      BY <3>2 DEF ClosePoller, Discard
    <3> QED
      BY <1>5, <3>1, <3>2
  <2>3. /\ used' = used \ {"poller"} /\ used' \in SUBSET Seat
        /\ held' = [held EXCEPT !["poller"] = NoSession] /\ held' \in [Seat -> Session]
        /\ \A s \in Seat \ used' : held'[s] = NoSession
        /\ idle' \in Seq(Session) /\ Len(idle') + Cardinality(used') <= PoolSize /\ AllFresh'
    BY <2>1, <2>2, <1>0, LeaveStep
  <2>4. PoolInv'
    BY <2>1, <2>3, <1>p, <1>0 DEF PoolInv, MainPc
  <2>5. Alone("main")
    BY <2>1, <2>3, <1>p, <1>s DEF Alone
  <2>6. MainInv' /\ Waited'
    BY <2>1, <2>3, <1>p, <1>0 DEF MainInv, MainPc, NoSession, Waited
  <2> QED
    BY <2>4, <2>5, <2>6, MainOnly
<1>6. CASE SetUpPoller
  <2>1. /\ pc["main"] = "setup" /\ held["poller"].alive /\ "poller" \in used
        /\ held' = [held EXCEPT !["poller"].limited = TRUE]
        /\ UNCHANGED <<job, used, idle, sigterm>>
    BY <1>6 DEF SetUpPoller, MainInv
  <2>2. /\ pc' \in [Task -> MainPc \cup InboxPc \cup WorkerPc]
        /\ pc'["main"] = "intake" /\ pc'["inbox"] = "take" /\ \A w \in Worker : pc'[w] = "list"
    BY <1>6 DEF SetUpPoller, Task, MainPc, InboxPc, WorkerPc
  <2>3. held["poller"] \in Session /\ held' \in [Seat -> Session]
    BY <2>1, <1>p, <1>0 DEF Session
  <2>4. \A t \in Task \ {"main"} : pc[t] = "off"
    BY <2>1 DEF Waited
  <2>5. PoolInv'
    BY <2>1, <2>2, <2>3, <1>0 DEF PoolInv, AllFresh
  <2>6. MainInv'
    BY <2>1, <2>2, <2>3, <1>p, <1>0 DEF MainInv, MainPc, Session
  <2>7. InboxInv'
    <3>1. pc["inbox"] = "off" /\ {"inbox", "admit"} \subseteq Seat
      BY <2>4 DEF Task, Seat
    <3>2. held'["inbox"] = held["inbox"] /\ held'["admit"] = held["admit"]
      BY <2>1, <3>1, <1>p
    <3> QED
      BY <2>1, <2>2, <3>1, <3>2 DEF InboxInv, InboxPc
  <2>8. ASSUME NEW w \in Worker PROVE WorkerInv(w)'
    <3>1. pc[w] = "off" /\ w \in Seat /\ w # "poller"
      BY <2>4 DEF Task, Seat
    <3>2. held'[w] = held[w] /\ w \notin used
      BY <2>1, <3>1, <1>p DEF WorkerInv
    <3>3. held[w] = NoSession
      BY <3>1, <3>2 DEF PoolInv
    <3> QED
      BY <2>1, <2>2, <3>1, <3>2, <3>3 DEF WorkerInv, WorkerPc, NoSession
  <2> QED
    BY <2>2, <2>5, <2>6, <2>7, <2>8 DEF Waited
<1> QED
  BY <1>1, <1>2, <1>3, <1>4, <1>5, <1>6 DEF MainStep

LEMMA LoseSessionInv ==
  ASSUME Inv, NEW seat \in Seat, LoseSession(seat)
  PROVE  Inv'
<1> USE Distinct DEF Inv, LoseSession
<1>1. PoolInv'
  BY SessionValues DEF PoolInv, AllFresh
<1>2. \A s \in Seat : /\ held'[s].locks \subseteq held[s].locks
                      /\ held'[s].limited => held[s].limited
  BY DEF PoolInv, NoSession
<1>3. MainInv' /\ InboxInv'
  BY <1>2 DEF MainInv, InboxInv, Seat
<1>4. ASSUME NEW w \in Worker PROVE WorkerInv(w)'
  BY <1>2 DEF WorkerInv, Seat
<1> QED
  BY <1>1, <1>3, <1>4 DEF Waited

LEMMA InitInv == Init => Inv
<1> SUFFICES ASSUME Init PROVE Inv
  OBVIOUS
<1> USE Distinct DEF Init
<1>1. PoolInv
  <2>1. Cardinality({}) = 0
    BY FS_EmptySet
  <2>2. idle \in Seq(Session) /\ Len(idle) = 1 /\ AllFresh
    BY SessionValues DEF AllFresh
  <2>3. Len(idle) + Cardinality(used) <= PoolSize
    BY <2>1, <2>2, SizeEnough
  <2>4. pc \in [Task -> MainPc \cup InboxPc \cup WorkerPc]
    BY DEF MainPc, InboxPc
  <2> QED
    BY <2>2, <2>3, <2>4, SessionValues DEF PoolInv
<1>2. MainInv /\ InboxInv
  BY DEF MainInv, InboxInv, MainPc, InboxPc, NoSession, Task, Seat
<1>3. ASSUME NEW w \in Worker PROVE WorkerInv(w)
  <2>1. w \in Task /\ w \in Seat /\ w # "main"
    BY DEF Task, Seat
  <2> QED
    BY <2>1 DEF WorkerInv, WorkerPc, NoSession, Nothing
<1> QED
  BY <1>1, <1>2, <1>3 DEF Inv, Waited

LEMMA InvStep == Inv /\ [Next]_vars => Inv'
<1> SUFFICES ASSUME Inv, [Next]_vars PROVE Inv'
  OBVIOUS
<1>1. CASE UNCHANGED vars \/ Terminate
  BY <1>1 DEF vars, Terminate, Inv, PoolInv, AllFresh, Waited, MainInv, InboxInv, WorkerInv
<1>2. CASE MainStep
  BY <1>2, MainStepInv
<1>3. CASE InboxStep
  BY <1>3, InboxStepInv
<1>4. ASSUME NEW w \in Worker, WorkerStep(w) PROVE Inv'
  BY <1>4, WorkerStepInv
<1>5. ASSUME NEW seat \in Seat, LoseSession(seat) PROVE Inv'
  BY <1>5, LoseSessionInv
<1> QED
  BY <1>1, <1>2, <1>3, <1>4, <1>5 DEF Next, Finished

----------------------------------------------------------------------------
(* The variables keep their types, and no more connections are open than   *)
(* the pool allows.                                                        *)
THEOREM TypeCorrect == Spec => []TypeOK
<1>1. Inv => TypeOK
  BY DEF Inv, PoolInv, MainInv, InboxInv, WorkerInv, TypeOK
<1> QED
  BY InitInv, InvStep, <1>1, PTL DEF Spec

(* store.go:39: a pool of three more connections than there are workers is *)
(* enough for everyone at once.                                            *)
THEOREM CapacitySafety == Spec => []NobodyWaits
<1>1. Inv => NobodyWaits
  <2> SUFFICES ASSUME Inv, NEW seat \in Seat, Wants(seat) PROVE CanAcquire
    BY DEF NobodyWaits
  <2>1. used \in SUBSET Seat
    BY DEF Inv, PoolInv
  <2>2. seat \notin used
    <3>1. CASE seat \in Worker
      BY <3>1, Distinct DEF Wants, Inv, WorkerInv
    <3>2. CASE seat \notin Worker
      BY <3>2 DEF Wants, Inv, MainInv, InboxInv
    <3> QED
      BY <3>1, <3>2
  <2> QED
    BY <2>1, <2>2, RoomForOneMore
<1> QED
  BY InitInv, InvStep, <1>1, PTL DEF Spec

(* durable.go:26 and 80: what goes back into the pool has no lock and no   *)
(* idle limit, and what is in use has none that it should not have.        *)
THEOREM SessionSafety == Spec => []CleanSessions
<1>1. Inv => CleanSessions
  <2> SUFFICES ASSUME Inv PROVE CleanSessions
    OBVIOUS
  <2>1. ASSUME NEW seat \in Seat
        PROVE  /\ held[seat].limited => seat = "poller"
               /\ held[seat].locks \subseteq LocksOf(seat)
    <3>1. CASE seat \in Worker
      BY <3>1, Distinct DEF Inv, WorkerInv, LocksOf
    <3>2. CASE seat = "poller"
      <4>1. LocksOf("poller") = {"poller"}
        BY Distinct DEF LocksOf
      <4> QED
        BY <3>2, <4>1 DEF Inv, MainInv
    <3>3. CASE seat = "inbox"
      <4>1. LocksOf("inbox") = {"inbox"}
        BY Distinct DEF LocksOf
      <4> QED
        BY <3>3, <4>1 DEF Inv, InboxInv
    <3>4. CASE seat = "admit"
      BY <3>4 DEF Inv, InboxInv
    <3> QED
      BY <3>1, <3>2, <3>3, <3>4 DEF Seat
  <2> QED
    BY <2>1 DEF CleanSessions, Inv, PoolInv, AllFresh
<1> QED
  BY InitInv, InvStep, <1>1, PTL DEF Spec
=============================================================================

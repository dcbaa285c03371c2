-------------------------- MODULE Admission_proofs --------------------------
(***************************************************************************)
(* Admission is serial, for any number of users, chats, updates, loops and *)
(* faults.                                                                 *)
(***************************************************************************)
EXTENDS Admission, TLAPS

USE AdmissionAssumption DEF settingVars, localVars, vars, Id, NoUpdate, PoolPc

Stored == 1 .. Len(inbox)

(* Updates are handled one after the other, jobs are inserted for handled  *)
(* ones, and a cancel button names a job.                                  *)
TablesInv ==
  /\ \E n \in 0 .. Len(inbox) : handled = 1 .. n
  /\ \A i \in Id : jobs[i] # "none" => i \in handled
  /\ \A i \in Stored : inbox[i].kind = "cancel" =>
       inbox[i].job \in Id /\ jobs[inbox[i].job] # "none"

AsksFor(i) ==
  /\ inbox[i].kind = "cancel"
  /\ inbox[i].user = Root
  /\ inbox[inbox[i].job].chat = inbox[i].chat

(* An iteration works on a stored update after all handled ones, at a      *)
(* statement that fits it.                                                 *)
LoopInv(l) ==
  /\ pc[l] # "idle" => update[l] \in Stored /\ 1 .. update[l] - 1 \subseteq handled
  /\ lock = l => pc[l] # "idle" /\ update[l] \notin handled
  /\ verdict[l] # "none" => pc[l] = "commit" /\ Current(l).kind = "media"
  /\ pc[l] \in {"exists", "get_preset"} => IsMessage(Current(l))
  /\ pc[l] \in {"exists", "add", "remove"} => Current(l).chat \in Group
  /\ pc[l] = "add" => \/ Current(l).kind = "joined"
                      \/ IsMessage(Current(l)) /\ Current(l).user = Root
  /\ pc[l] = "remove" => Current(l).kind = "left"
  /\ pc[l] = "set_preset" => Current(l).kind = "preset"
  /\ pc[l] = "request_cancel" => Current(l).kind = "cancel"
  /\ pc[l] = "commit" /\ AsksFor(update[l]) => Current(l).job \in asked

(* No message has two jobs. *)
JobUnique ==
  \A i, j \in Id : jobs[i] # "none" /\ jobs[j] # "none" /\ SameMessage(i, j) => i = j

IInv ==
  /\ TypeOK
  /\ TablesInv
  /\ CancelNotLost
  /\ JobUnique
  /\ \A l \in Loop : LoopInv(l)

(* What the kind of an update says about its fields. *)
LEMMA ContentFields ==
  ASSUME NEW u \in Content
  PROVE  /\ u.kind \in {"joined", "left", "preset", "cancel", "text", "media"}
         /\ u.kind = "preset" => u.user \in User /\ u.preset \in Preset
         /\ u.kind = "media" => u.user \in User /\ u.detected \in {"voice", "lecture"}
<1>1. u \in Update
  OBVIOUS
<1> USE DEF Update
<1>2. CASE u \in [kind : {"joined", "left"}, chat : Chat]
  BY <1>2
<1>3. CASE u \in [kind : {"preset"}, user : User, preset : Preset]
  BY <1>3
<1>4. CASE u \in [kind : {"cancel"}, user : User, chat : Chat, job : Nat \ {0}]
  BY <1>4
<1>5. CASE u \in [kind : {"text"}, user : User, chat : Chat]
  BY <1>5
<1>6. CASE u \in [kind : {"media"}, user : User, chat : Chat, message : Nat,
                  detected : {"voice", "lecture"}]
  BY <1>6
<1> QED
  BY <1>1, <1>2, <1>3, <1>4, <1>5, <1>6

LEMMA InitInvariant == Init => IInv
<1> SUFFICES ASSUME Init
             PROVE  IInv
  OBVIOUS
<1>1. TypeOK
  <2>1. inbox \in Seq(Content) /\ Len(inbox) = 0
    BY DEF Init
  <2>2. presets \in [User -> Preset]
    BY DEF Init, Preset
  <2>3. handled \subseteq 1 .. Len(inbox) /\ members \subseteq Group /\ asked \subseteq Id
    BY DEF Init
  <2>4. /\ jobs \in [Id -> Resolved \cup {"none"}]
        /\ verdict \in [Loop -> Resolved \cup {"none"}]
    BY DEF Init
  <2>5. /\ pc \in [Loop -> {"idle", "commit"} \cup PoolPc]
        /\ update \in [Loop -> Id \cup {NoUpdate}]
    BY DEF Init
  <2>6. lock \in Loop \cup {NoLoop} /\ faults \in 0 .. MaxFaults
    BY DEF Init
  <2>7. lost \in BOOLEAN
    BY DEF Init
  <2>8. Len(inbox) <= MaxUpdates
    BY <2>1
  <2> QED
    BY <2>1, <2>2, <2>3, <2>4, <2>5, <2>6, <2>7, <2>8 DEF TypeOK
<1>2. handled = 1 .. 0 /\ Len(inbox) = 0
  BY DEF Init
<1>3. TablesInv
  BY <1>2 DEF Init, TablesInv, Stored
<1>4. CancelNotLost /\ JobUnique
  BY DEF Init, CancelNotLost, JobUnique
<1>5. ASSUME NEW l \in Loop
      PROVE  LoopInv(l)
  BY DEF Init, LoopInv
<1> QED
  BY <1>1, <1>3, <1>4, <1>5 DEF IInv

(* The verdict of a media is a preset a job may have. *)
LEMMA VerdictType ==
  ASSUME TypeOK, NEW i \in Stored
  PROVE  /\ inbox[i] \in Content
         /\ inbox[i].kind = "media" =>
              ResolvePreset(presets[inbox[i].user], inbox[i]) \in Resolved
<1>1. inbox[i] \in Content
  BY DEF TypeOK, Stored
<1>2. ASSUME inbox[i].kind = "media"
      PROVE  ResolvePreset(presets[inbox[i].user], inbox[i]) \in Resolved
  <2>1. inbox[i].user \in User /\ inbox[i].detected \in {"voice", "lecture"}
    BY <1>1, <1>2, ContentFields
  <2>2. presets[inbox[i].user] \in Preset
    BY <2>1 DEF TypeOK
  <2> QED
    BY <2>1, <2>2 DEF ResolvePreset, Resolved, Preset
<1> QED
  BY <1>1, <1>2

----------------------------------------------------------------------------
(* The steps, in classes that the proofs treat alike. *)

(* A statement through the pool takes effect and the iteration goes on. *)
Effect(l) ==
  /\ pc[l] \in {"add", "remove", "set_preset", "request_cancel"}
  /\ TakesEffect(l)
  /\ Goto(l, IF pc[l] = "add" /\ IsMessage(Current(l)) THEN "get_preset" ELSE "commit")
  /\ UNCHANGED <<inbox, handled, jobs, lock, lost, faults>>

(* An iteration ends early, maybe after a last effect. *)
Abandon(l) ==
  /\ pc[l] # "idle"
  /\ TakesEffect(l) \/ UNCHANGED settingVars
  /\ Finish(l)
  /\ faults' \in 0 .. MaxFaults
  /\ UNCHANGED <<inbox, handled, jobs, lost>>

LoopStep(l) ==
  \/ \E i \in Id : Take(l, i)
  \/ Exists(l)
  \/ Effect(l)
  \/ GetPreset(l)
  \/ Commit(l)
  \/ Abandon(l)
  \/ LoseConnection(l)

LEMMA StepClasses ==
  ASSUME TypeOK, [Next]_vars
  PROVE  \/ \E l \in Loop : LoopStep(l)
         \/ \E u \in Content : Arrive(u)
         \/ UNCHANGED vars
<1>1. CASE UNCHANGED vars
  BY <1>1
<1>2. ASSUME NEW u \in Content, Arrive(u)
      PROVE  \E w \in Content : Arrive(w)
  BY <1>2
<1>3. CASE Quiescent
  BY <1>3 DEF Quiescent
<1>4. ASSUME NEW l \in Loop, Iterate(l) \/ Disturb(l)
      PROVE  LoopStep(l)
  <2>1. ASSUME \E i \in Id : Take(l, i)
        PROVE  LoopStep(l)
    BY <2>1 DEF LoopStep
  <2>2. CASE Exists(l) \/ GetPreset(l) \/ Commit(l) \/ LoseConnection(l)
    BY <2>2 DEF LoopStep
  <2>3. CASE Add(l) \/ Remove(l) \/ SetPreset(l) \/ RequestCancel(l)
    <3>1. Effect(l)
      BY <2>3 DEF Add, Remove, SetPreset, RequestCancel, Effect, TakesEffect
    <3> QED
      BY <3>1 DEF LoopStep
  <2>4. CASE FencedOut(l)
    <3>1. faults \in 0 .. MaxFaults
      BY DEF TypeOK
    <3>2. Abandon(l)
      BY <2>4, <3>1 DEF FencedOut, Abandon
    <3> QED
      BY <3>2 DEF LoopStep
  <2>5. CASE StoreFails(l) \/ Crash(l)
    <3>1. \E kind \in {"store", "crash"} : Fault(kind)
      BY <2>5 DEF StoreFails, Crash
    <3>2. faults' \in 0 .. MaxFaults
      BY <3>1 DEF TypeOK, Fault
    <3>3. Abandon(l)
      BY <2>5, <3>2 DEF StoreFails, Crash, AfterFailure, Abandon
    <3> QED
      BY <3>3 DEF LoopStep
  <2> QED
    BY <1>4, <2>1, <2>2, <2>3, <2>4, <2>5 DEF Iterate, Disturb
<1> QED
  BY <1>1, <1>2, <1>3, <1>4 DEF Next

LEMMA EffectType ==
  ASSUME TypeOK, NEW l \in Loop, LoopInv(l), pc[l] # "idle", TakesEffect(l)
  PROVE  members' \subseteq Group /\ presets' \in [User -> Preset] /\ asked' \subseteq Id
<1>1. Current(l) \in Content /\ update[l] \in Stored
  BY DEF LoopInv, TypeOK, Current, Stored
<1>2. CASE pc[l] = "add" /\ AddChat(l)
  BY <1>2 DEF AddChat, LoopInv, TypeOK
<1>3. CASE pc[l] = "remove" /\ RemoveChat(l)
  BY <1>3 DEF RemoveChat, TypeOK
<1>4. CASE pc[l] = "set_preset" /\ StorePreset(l)
  <2>1. Current(l).user \in User /\ Current(l).preset \in Preset
    BY <1>1, <1>4, ContentFields DEF LoopInv
  <2> QED
    BY <1>4, <2>1 DEF StorePreset, TypeOK
<1>5. CASE pc[l] = "request_cancel" /\ AskCancel(l)
  BY <1>5 DEF AskCancel, TypeOK
<1> QED
  BY <1>2, <1>3, <1>4, <1>5 DEF TakesEffect

LEMMA TypeInvariant == IInv /\ [Next]_vars => TypeOK'
<1> SUFFICES ASSUME IInv, [Next]_vars
             PROVE  TypeOK'
  OBVIOUS
<1>0. TypeOK /\ \A l \in Loop : LoopInv(l)
  BY DEF IInv
<1>1. ASSUME NEW l \in Loop, NEW i \in Id, Take(l, i)
      PROVE  TypeOK'
  <2>1. FirstPc(inbox[i]) \in {"idle", "commit"} \cup PoolPc
    BY DEF FirstPc
  <2> QED
    BY <1>0, <1>1, <2>1 DEF Take, TypeOK
<1>2. ASSUME NEW l \in Loop, Exists(l)
      PROVE  TypeOK'
  <2>1. AfterExists(Current(l)) \in {"idle", "commit"} \cup PoolPc
    BY DEF AfterExists
  <2> QED
    BY <1>0, <1>2, <2>1 DEF Exists, Goto, TypeOK
<1>3. ASSUME NEW l \in Loop, Effect(l)
      PROVE  TypeOK'
  <2>1. members' \subseteq Group /\ presets' \in [User -> Preset] /\ asked' \subseteq Id
    BY <1>0, <1>3, EffectType DEF Effect
  <2>2. pc' \in [Loop -> {"idle", "commit"} \cup PoolPc]
    BY <1>0, <1>3 DEF Effect, Goto, TypeOK
  <2> QED
    BY <1>0, <1>3, <2>1, <2>2 DEF Effect, Goto, TypeOK
<1>4. ASSUME NEW l \in Loop, GetPreset(l)
      PROVE  TypeOK'
  <2>1. verdict' \in [Loop -> Resolved \cup {"none"}]
    <3>1. update[l] \in Stored
      BY <1>0, <1>4 DEF GetPreset, LoopInv
    <3>2. Current(l).kind = "media" =>
            ResolvePreset(presets[Current(l).user], Current(l)) \in Resolved
      BY <1>0, <3>1, VerdictType DEF Current
    <3> QED
      BY <1>0, <1>4, <3>2 DEF GetPreset, TypeOK
  <2>2. pc' \in [Loop -> {"idle", "commit"} \cup PoolPc]
    BY <1>0, <1>4 DEF GetPreset, TypeOK
  <2> QED
    BY <1>0, <1>4, <2>1, <2>2 DEF GetPreset, TypeOK
<1>5. ASSUME NEW l \in Loop, Commit(l)
      PROVE  TypeOK'
  <2>1. update[l] \in Stored /\ Stored \subseteq Id
    BY <1>0, <1>5 DEF Commit, AtStore, LoopInv, TypeOK, Stored
  <2>2. jobs' \in [Id -> Resolved \cup {"none"}]
    BY <1>0, <1>5 DEF Commit, TypeOK
  <2>3. handled' \subseteq Stored
    BY <1>0, <1>5, <2>1 DEF Commit, TypeOK, Stored
  <2> QED
    BY <1>0, <1>5, <2>2, <2>3 DEF Commit, Finish, TypeOK, Stored
<1>6. ASSUME NEW l \in Loop, Abandon(l)
      PROVE  TypeOK'
  <2>1. members' \subseteq Group /\ presets' \in [User -> Preset] /\ asked' \subseteq Id
    BY <1>0, <1>6, EffectType DEF Abandon, TypeOK
  <2> QED
    BY <1>0, <1>6, <2>1 DEF Abandon, Finish, TypeOK
<1>7. ASSUME NEW l \in Loop, LoseConnection(l)
      PROVE  TypeOK'
  BY <1>0, <1>7 DEF LoseConnection, Fault, TypeOK
<1>8. ASSUME NEW u \in Content, Arrive(u)
      PROVE  TypeOK'
  <2>1. inbox' \in Seq(Content) /\ Len(inbox') = Len(inbox) + 1
    BY <1>0, <1>8 DEF Arrive, TypeOK
  <2>2. Len(inbox') <= MaxUpdates
    BY <1>0, <1>8, <2>1 DEF Arrive, TypeOK
  <2>3. handled' \subseteq 1 .. Len(inbox')
    BY <1>0, <1>8, <2>1 DEF Arrive, TypeOK
  <2> QED
    BY <1>0, <1>8, <2>1, <2>2, <2>3 DEF Arrive, TypeOK
<1>9. CASE UNCHANGED vars
  BY <1>0, <1>9 DEF TypeOK
<1> QED
  BY <1>0, <1>1, <1>2, <1>3, <1>4, <1>5, <1>6, <1>7, <1>8, <1>9, StepClasses DEF LoopStep

----------------------------------------------------------------------------
(* Nothing but Commit adds to the handled updates and to the jobs: one     *)
(* update, the first one not handled.                                      *)
LEMMA CommitNext ==
  ASSUME TypeOK, TablesInv, NEW l \in Loop, LoopInv(l), Commit(l)
  PROVE  /\ update[l] \in Stored
         /\ handled = 1 .. update[l] - 1
         /\ handled' = 1 .. update[l]
         /\ jobs[update[l]] = "none"
         /\ inbox' = inbox /\ settingVars' = settingVars /\ lost' = lost
<1>1. update[l] \in Stored /\ 1 .. update[l] - 1 \subseteq handled /\ update[l] \notin handled
  BY DEF Commit, AtStore, LoopInv
<1>2. PICK n \in 0 .. Len(inbox) : handled = 1 .. n
  BY DEF TablesInv
<1>3. Len(inbox) \in Nat
  BY DEF TypeOK
<1>4. n = update[l] - 1
  <2>1. n < update[l]
    BY <1>1, <1>2, <1>3 DEF Stored
  <2>2. CASE update[l] = 1
    BY <2>1, <2>2, <1>2, <1>3
  <2>3. CASE update[l] > 1
    <3>1. update[l] - 1 \in 1 .. n
      BY <1>1, <1>2, <1>3, <2>3 DEF Stored
    <3> QED
      BY <2>1, <3>1, <1>1, <1>3 DEF Stored
  <2> QED
    BY <1>1, <2>2, <2>3, <1>3 DEF Stored
<1>5. handled' = 1 .. update[l]
  <2>1. handled' = handled \cup {update[l]}
    BY DEF Commit
  <2> QED
    BY <1>1, <1>2, <1>3, <1>4, <2>1 DEF Stored
<1>6. jobs[update[l]] = "none"
  <2>1. update[l] \in Id
    BY <1>1, <1>3 DEF TypeOK, Stored
  <2> QED
    BY <1>1, <2>1 DEF TablesInv
<1> QED
  BY <1>1, <1>2, <1>4, <1>5, <1>6 DEF Commit

(* A stored update never changes. *)
LEMMA InboxGrows ==
  ASSUME TypeOK, NEW u \in Content, Arrive(u)
  PROVE  /\ Len(inbox') = Len(inbox) + 1
         /\ \A i \in Stored : i \in Stored' /\ inbox'[i] = inbox[i]
         /\ \A i \in Stored' : i \notin Stored => inbox'[i] = u
         /\ Stored \subseteq Id /\ Stored' \subseteq Id
<1>1. inbox \in Seq(Content) /\ inbox' = Append(inbox, u) /\ Len(inbox) < MaxUpdates
  BY DEF TypeOK, Arrive
<1>2. Len(inbox') = Len(inbox) + 1 /\ Len(inbox) \in Nat
  BY <1>1
<1> QED
  BY <1>1, <1>2 DEF Stored

LEMMA TablesInvariant == IInv /\ [Next]_vars => TablesInv' /\ CancelNotLost' /\ JobUnique'
<1> SUFFICES ASSUME IInv, [Next]_vars
             PROVE  TablesInv' /\ CancelNotLost' /\ JobUnique'
  OBVIOUS
<1>0. /\ TypeOK /\ TablesInv /\ CancelNotLost /\ JobUnique
      /\ \A l \in Loop : LoopInv(l)
  BY DEF IInv
<1>1. ASSUME UNCHANGED <<inbox, handled, jobs>>, asked \subseteq asked'
      PROVE  TablesInv' /\ CancelNotLost' /\ JobUnique'
  BY <1>0, <1>1 DEF TablesInv, CancelNotLost, JobUnique, SameMessage, Stored
<1>2. ASSUME NEW l \in Loop, LoopStep(l), ~Commit(l)
      PROVE  UNCHANGED <<inbox, handled, jobs>> /\ asked \subseteq asked'
  <2>1. CASE \E i \in Id : Take(l, i)
    BY <2>1 DEF Take
  <2>2. CASE Exists(l) \/ GetPreset(l) \/ LoseConnection(l)
    BY <2>2 DEF Exists, GetPreset, LoseConnection
  <2>3. ASSUME TakesEffect(l)
        PROVE  asked \subseteq asked'
    BY <2>3 DEF TakesEffect, AddChat, RemoveChat, StorePreset, AskCancel
  <2>4. CASE Effect(l) \/ Abandon(l)
    BY <2>3, <2>4 DEF Effect, Abandon
  <2> QED
    BY <1>2, <2>1, <2>2, <2>4 DEF LoopStep
<1>3. ASSUME NEW l \in Loop, Commit(l)
      PROVE  TablesInv' /\ CancelNotLost' /\ JobUnique'
  <2> DEFINE i == update[l]
  <2>1. /\ i \in Stored /\ handled = 1 .. i - 1 /\ handled' = 1 .. i
        /\ jobs[i] = "none" /\ inbox' = inbox /\ asked' = asked
    BY <1>0, <1>3, CommitNext
  <2>2. i \in Id /\ Len(inbox) \in Nat
    BY <1>0, <2>1 DEF TypeOK, Stored
  <2>3. \A e \in Id : e # i => jobs'[e] = jobs[e]
    BY <1>0, <1>3, <2>2 DEF Commit, TypeOK
  <2>4. jobs'[i] # "none" => ~HasJob(i)
    BY <1>0, <1>3, <2>1, <2>2 DEF Commit, TypeOK
  <2>5. TablesInv'
    BY <1>0, <2>1, <2>2, <2>3 DEF TablesInv, Stored
  <2>6. CancelNotLost'
    <3>1. AsksFor(i) => inbox[i].job \in asked
      BY <1>0, <1>3 DEF Commit, AtStore, LoopInv, Current
    <3> QED
      BY <1>0, <2>1, <2>2, <3>1 DEF CancelNotLost, AsksFor, Stored
  <2>7. JobUnique'
    <3> SUFFICES ASSUME NEW e \in Id, NEW f \in Id, jobs'[e] # "none", jobs'[f] # "none",
                        SameMessage(e, f)
                 PROVE  e = f
      BY <2>1 DEF JobUnique, SameMessage
    <3>1. SameMessage(f, e)
      BY DEF SameMessage
    <3>2. CASE e = i
      BY <2>1, <2>3, <2>4, <3>1, <3>2 DEF HasJob
    <3>3. CASE f = i
      BY <2>1, <2>3, <2>4, <3>3 DEF HasJob
    <3>4. CASE e # i /\ f # i
      BY <1>0, <2>3, <3>4 DEF JobUnique
    <3> QED
      BY <3>2, <3>3, <3>4
  <2> QED
    BY <2>5, <2>6, <2>7
<1>4. ASSUME NEW u \in Content, Arrive(u)
      PROVE  TablesInv' /\ CancelNotLost' /\ JobUnique'
  <2>1. /\ UNCHANGED <<handled, jobs, asked>>
        /\ u.kind = "cancel" => u.job \in Id /\ jobs[u.job] # "none"
    BY <1>4 DEF Arrive
  <2>2. handled \subseteq Stored /\ \A e \in Id : jobs[e] # "none" => e \in Stored
    BY <1>0 DEF TypeOK, TablesInv, Stored
  <2>3. TablesInv'
    <3>1. \E n \in 0 .. Len(inbox') : handled' = 1 .. n
      <4>1. PICK n \in 0 .. Len(inbox) : handled = 1 .. n
        BY <1>0 DEF TablesInv
      <4>2. n \in 0 .. Len(inbox')
        BY <1>0, <1>4, InboxGrows DEF TypeOK
      <4> QED
        BY <2>1, <4>1, <4>2
    <3>2. \A i \in Stored' : inbox'[i].kind = "cancel" =>
             inbox'[i].job \in Id /\ jobs'[inbox'[i].job] # "none"
      BY <1>0, <1>4, <2>1, InboxGrows DEF TablesInv
    <3> QED
      BY <1>0, <2>1, <3>1, <3>2 DEF TablesInv
  <2>4. CancelNotLost'
    <3> SUFFICES ASSUME NEW i \in handled, inbox'[i].kind = "cancel", inbox'[i].user = Root,
                        inbox'[inbox'[i].job].chat = inbox'[i].chat
                 PROVE  inbox'[i].job \in asked'
      BY <2>1 DEF CancelNotLost
    <3>1. inbox'[i] = inbox[i] /\ i \in Stored
      BY <1>0, <1>4, <2>2, InboxGrows
    <3>2. inbox[i].job \in Stored
      BY <1>0, <2>2, <3>1 DEF TablesInv
    <3>3. inbox'[inbox[i].job] = inbox[inbox[i].job]
      BY <1>0, <1>4, <3>2, InboxGrows
    <3> QED
      BY <1>0, <2>1, <3>1, <3>3 DEF CancelNotLost
  <2>5. JobUnique'
    BY <1>0, <1>4, <2>1, <2>2, InboxGrows DEF JobUnique, SameMessage
  <2> QED
    BY <2>3, <2>4, <2>5
<1> QED
  BY <1>0, <1>1, <1>2, <1>3, <1>4, StepClasses

----------------------------------------------------------------------------
(* What the others do does not disturb an iteration: only it can handle    *)
(* its update while it owns the lock.                                      *)
LEMMA Undisturbed ==
  ASSUME TypeOK, TablesInv, NEW l \in Loop, LoopInv(l),
         pc'[l] = pc[l], update'[l] = update[l], verdict'[l] = verdict[l],
         \A i \in Stored : i \in Stored' /\ inbox'[i] = inbox[i],
         handled \subseteq handled', asked \subseteq asked',
         lock' = l => lock = l /\ update[l] \notin handled'
  PROVE  LoopInv(l)'
<1>1. CASE pc[l] = "idle"
  BY <1>1 DEF LoopInv
<1>2. CASE pc[l] # "idle"
  <2>1. update[l] \in Stored /\ Current(l)' = Current(l)
    BY <1>2 DEF LoopInv, Current
  <2>2. AsksFor(update[l])' => AsksFor(update[l])
    <3> SUFFICES ASSUME inbox'[update[l]].kind = "cancel", inbox'[update[l]].user = Root,
                        inbox'[inbox'[update[l]].job].chat = inbox'[update[l]].chat
                 PROVE  AsksFor(update[l])
      BY DEF AsksFor
    <3>1. inbox'[update[l]] = inbox[update[l]]
      BY <2>1
    <3>2. inbox[update[l]].job \in Stored
      BY <2>1, <3>1 DEF TablesInv, TypeOK, Stored
    <3> QED
      BY <3>1, <3>2 DEF AsksFor
  <2> QED
    BY <2>1, <2>2 DEF LoopInv, IsMessage
<1> QED
  BY <1>1, <1>2

LEMMA LoopInvariant == IInv /\ [Next]_vars => \A m \in Loop : LoopInv(m)'
<1> SUFFICES ASSUME IInv, [Next]_vars, NEW m \in Loop
             PROVE  LoopInv(m)'
  OBVIOUS
<1>0. /\ TypeOK /\ TablesInv
      /\ \A l \in Loop : LoopInv(l)
      /\ NoLoop \notin Loop
  BY DEF IInv
<1>1. ASSUME NEW l \in Loop, LoopStep(l), l # m
      PROVE  LoopInv(m)'
  <2>1. /\ pc'[m] = pc[m] /\ update'[m] = update[m] /\ verdict'[m] = verdict[m]
        /\ inbox' = inbox /\ Stored' = Stored
    BY <1>0, <1>1 DEF LoopStep, Take, Exists, Effect, GetPreset, Commit, Abandon,
       LoseConnection, Goto, Finish, TypeOK, Stored
  <2>2. lock' = m => lock = m
    BY <1>0, <1>1 DEF LoopStep, Take, Exists, Effect, GetPreset, Commit, Abandon,
       LoseConnection, Finish
  <2>3. handled' = handled \/ Commit(l)
    BY <1>1 DEF LoopStep, Take, Exists, Effect, GetPreset, Abandon, LoseConnection
  <2>4. asked \subseteq asked'
    <3>1. ASSUME TakesEffect(l)
          PROVE  asked \subseteq asked'
      BY <3>1 DEF TakesEffect, AddChat, RemoveChat, StorePreset, AskCancel
    <3> QED
      BY <1>1, <3>1 DEF LoopStep, Take, Exists, Effect, GetPreset, Commit, Abandon,
         LoseConnection
  <2>5. CASE handled' = handled
    BY <1>0, <2>1, <2>2, <2>4, <2>5, Undisturbed DEF LoopInv
  <2>6. CASE Commit(l)
    <3>1. lock = l /\ (lock' = NoLoop) /\ handled \subseteq handled'
      BY <2>6 DEF Commit, AtStore, Finish
    <3> QED
      BY <1>0, <2>1, <2>4, <3>1, Undisturbed
  <2> QED
    BY <2>3, <2>5, <2>6
<1>2. ASSUME NEW i \in Id, Take(m, i)
      PROVE  LoopInv(m)'
  <2>1. /\ pc'[m] = FirstPc(inbox[i]) /\ update'[m] = i /\ verdict'[m] = verdict[m]
        /\ UNCHANGED <<inbox, handled, asked>> /\ Current(m)' = inbox[i]
        /\ i \in Stored /\ i \notin handled /\ 1 .. i - 1 \subseteq handled
    BY <1>0, <1>2 DEF Take, IsNext, Current, TypeOK, Stored
  <2>2. verdict[m] = "none" /\ FirstPc(inbox[i]) # "idle" /\ Stored' = Stored
    BY <1>0, <1>2, <2>1 DEF Take, LoopInv, FirstPc, Stored
  <2>3. inbox[i].kind \in {"joined", "left", "preset", "cancel", "text", "media"}
    BY <1>0, <2>1, ContentFields DEF TypeOK, Stored
  <2> QED
    BY <2>1, <2>2, <2>3 DEF LoopInv, FirstPc, IsMessage, AsksFor
<1>3. CASE Exists(m)
  <2>1. /\ pc[m] = "exists" /\ pc'[m] = AfterExists(Current(m))
        /\ UNCHANGED <<inbox, handled, asked, lock, update, verdict>>
        /\ Current(m)' = Current(m) /\ Stored' = Stored
    BY <1>0, <1>3 DEF Exists, Goto, Current, TypeOK, Stored
  <2>2. IsMessage(Current(m)) /\ Current(m).chat \in Group
    BY <1>0, <2>1 DEF LoopInv
  <2>3. ~AsksFor(update[m])'
    BY <2>1, <2>2 DEF AsksFor, IsMessage, Current
  <2> QED
    BY <1>0, <2>1, <2>2, <2>3 DEF LoopInv, AfterExists, IsMessage
<1>4. CASE Effect(m)
  <2>1. /\ pc[m] \in {"add", "remove", "set_preset", "request_cancel"} /\ TakesEffect(m)
        /\ pc'[m] = IF pc[m] = "add" /\ IsMessage(Current(m)) THEN "get_preset" ELSE "commit"
        /\ UNCHANGED <<inbox, handled, jobs, lock, update, verdict>>
        /\ Current(m)' = Current(m) /\ Stored' = Stored
    BY <1>0, <1>4 DEF Effect, Goto, Current, TypeOK, Stored
  <2>2. AsksFor(update[m])' => Current(m).job \in asked'
    <3> SUFFICES ASSUME AsksFor(update[m])
                 PROVE  Current(m).job \in asked'
      BY <2>1 DEF AsksFor
    <3>1. pc[m] = "request_cancel" /\ AskCancel(m)
      BY <1>0, <2>1 DEF AsksFor, LoopInv, IsMessage, Current, TakesEffect
    <3>2. Current(m).job \in Id /\ jobs[Current(m).job] # "none"
      BY <1>0, <2>1 DEF AsksFor, LoopInv, TablesInv, Current
    <3> QED
      BY <3>1, <3>2 DEF AskCancel, AsksFor, Current
  <2> QED
    BY <1>0, <2>1, <2>2 DEF LoopInv, IsMessage
<1>5. CASE GetPreset(m)
  <2>1. /\ pc[m] = "get_preset" /\ pc'[m] = "commit"
        /\ verdict'[m] # "none" => Current(m).kind = "media"
        /\ UNCHANGED <<inbox, handled, asked, lock, update>>
        /\ Current(m)' = Current(m) /\ Stored' = Stored
    BY <1>0, <1>5 DEF GetPreset, Current, TypeOK, Stored
  <2>2. ~AsksFor(update[m])'
    BY <1>0, <2>1 DEF AsksFor, LoopInv, IsMessage, Current
  <2> QED
    BY <1>0, <2>1, <2>2 DEF LoopInv
<1>6. CASE Commit(m) \/ Abandon(m)
  <2>1. pc'[m] = "idle" /\ verdict'[m] = "none" /\ lock' # m
    BY <1>0, <1>6 DEF Commit, Abandon, Finish, TypeOK
  <2> QED
    BY <2>1 DEF LoopInv
<1>7. CASE LoseConnection(m)
  <2>1. UNCHANGED <<inbox, handled, asked, localVars>> /\ lock' = NoLoop
    BY <1>7 DEF LoseConnection
  <2> QED
    BY <1>0, <2>1, Undisturbed DEF Stored
<1>8. ASSUME NEW u \in Content, Arrive(u)
      PROVE  LoopInv(m)'
  <2>1. UNCHANGED <<handled, asked, lock, localVars>>
    BY <1>8 DEF Arrive
  <2> QED
    BY <1>0, <1>8, <2>1, InboxGrows, Undisturbed DEF LoopInv
<1>9. CASE UNCHANGED vars
  BY <1>0, <1>9, Undisturbed DEF LoopInv, Stored
<1>10. ASSUME LoopStep(m)
       PROVE  LoopInv(m)'
  BY <1>2, <1>3, <1>4, <1>5, <1>6, <1>7, <1>10 DEF LoopStep
<1> QED
  BY <1>0, <1>1, <1>8, <1>9, <1>10, StepClasses

----------------------------------------------------------------------------
(* Whatever connections are lost, a setting is what an update made it that *)
(* is handled or the first in line, and the iteration that owns the lock   *)
(* has its verdict from the updates before its own: the first in line, if  *)
(* it made a setting, is no media.                                         *)
MadeMember(c) ==
  \E k \in Stored : 1 .. k - 1 \subseteq handled /\ Settles(k, c) /\ inbox[k].kind # "left"

MadeChoice(u, p) ==
  \/ p = "auto"
  \/ \E k \in Stored : 1 .. k - 1 \subseteq handled /\ Chooses(k, u) /\ inbox[k].preset = p

FoundedLoop(l) ==
  lock = l =>
    /\ pc[l] = "get_preset" /\ Current(l).kind = "media" =>
         Current(l).user = Root \/ ServedBefore(update[l], Current(l).chat)
    /\ verdict[l] # "none" => Founded(update[l], verdict[l])

FoundedInv ==
  /\ \A c \in members : MadeMember(c)
  /\ \A u \in User : MadeChoice(u, presets[u])
  /\ \A l \in Loop : FoundedLoop(l)

(* More updates, and more handled ones, take no reason away. *)
LEMMA ReasonsStay ==
  ASSUME TypeOK, \A i \in Stored : i \in Stored' /\ inbox'[i] = inbox[i],
         handled \subseteq handled'
  PROVE  /\ \A c \in Group : MadeMember(c) => MadeMember(c)'
         /\ \A u \in User : \A p \in Preset : MadeChoice(u, p) => MadeChoice(u, p)'
         /\ \A i \in Stored : \A c \in Chat : ServedBefore(i, c) => ServedBefore(i, c)'
         /\ \A i \in Stored : \A r \in Resolved : Founded(i, r) => Founded(i, r)'
<1>0. Len(inbox) \in Nat /\ \A i \in Stored : \A k \in 1 .. i - 1 : k \in Stored
  BY DEF TypeOK, Stored
<1>1. ASSUME NEW c \in Group, MadeMember(c)
      PROVE  MadeMember(c)'
  BY <1>1 DEF MadeMember, Settles, IsMessage
<1>2. ASSUME NEW u \in User, NEW p \in Preset, MadeChoice(u, p)
      PROVE  MadeChoice(u, p)'
  BY <1>2 DEF MadeChoice, Chooses
<1>3. ASSUME NEW i \in Stored, NEW c, ServedBefore(i, c)
      PROVE  ServedBefore(i, c)'
  BY <1>0, <1>3 DEF ServedBefore, Settles, IsMessage
<1>4. ASSUME NEW i \in Stored, NEW r \in Resolved, Founded(i, r)
      PROVE  Founded(i, r)'
  <2>1. inbox'[i] = inbox[i]
    OBVIOUS
  <2>2. ServedBefore(i, inbox[i].chat) => ServedBefore(i, inbox[i].chat)'
    BY <1>0, <2>1 DEF ServedBefore, Settles, IsMessage
  <2>3. ASSUME NEW p \in Preset, ChosenBefore(i, inbox[i].user, p)
        PROVE  ChosenBefore(i, inbox[i].user, p)'
    BY <1>0, <2>1, <2>3 DEF ChosenBefore, Chooses
  <2> QED
    BY <1>4, <2>1, <2>2, <2>3 DEF Founded, ResolvePreset
<1> QED
  BY <1>1, <1>2, <1>3, <1>4

(* A write through the pool, a late one too, makes of a setting what the   *)
(* update of its iteration says, after handled updates only.               *)
LEMMA EffectMade ==
  ASSUME TypeOK, FoundedInv, NEW l \in Loop, LoopInv(l), pc[l] # "idle", TakesEffect(l)
  PROVE  /\ \A c \in members' : MadeMember(c)
         /\ \A u \in User : MadeChoice(u, presets'[u])
<1>1. update[l] \in Stored /\ 1 .. update[l] - 1 \subseteq handled
  BY DEF LoopInv
<1>2. CASE pc[l] = "add" /\ AddChat(l)
  <2>1. Settles(update[l], Current(l).chat) /\ Current(l).kind # "left"
    BY <1>2 DEF LoopInv, Settles, IsMessage, Current
  <2>2. MadeMember(Current(l).chat)
    BY <1>1, <2>1 DEF MadeMember, Current
  <2> QED
    BY <1>2, <2>2 DEF AddChat, FoundedInv
<1>3. CASE pc[l] = "remove" /\ RemoveChat(l)
  BY <1>3 DEF RemoveChat, FoundedInv
<1>4. CASE pc[l] = "set_preset" /\ StorePreset(l)
  <2>1. Chooses(update[l], Current(l).user)
    BY <1>4 DEF LoopInv, Chooses, Current
  <2>2. MadeChoice(Current(l).user, Current(l).preset)
    BY <1>1, <2>1 DEF MadeChoice, Current
  <2>3. \A u \in User : presets'[u] = IF u = Current(l).user THEN Current(l).preset ELSE presets[u]
    BY <1>4 DEF StorePreset, TypeOK
  <2> QED
    BY <1>4, <2>2, <2>3 DEF StorePreset, FoundedInv
<1>5. CASE pc[l] = "request_cancel" /\ AskCancel(l)
  BY <1>5 DEF AskCancel, FoundedInv
<1> QED
  BY <1>2, <1>3, <1>4, <1>5 DEF TakesEffect

(* What a media of the first in line finds was made before it. *)
LEMMA MadeBefore ==
  ASSUME TypeOK, NEW i \in Stored, i \notin handled, inbox[i].kind = "media"
  PROVE  /\ \A c : MadeMember(c) /\ inbox[i].user # Root => ServedBefore(i, c)
         /\ \A u, p : MadeChoice(u, p) => ChosenBefore(i, u, p)
<1>0. Len(inbox) \in Nat
  BY DEF TypeOK
<1>1. ASSUME NEW k \in Stored, 1 .. k - 1 \subseteq handled, k # i
      PROVE  k \in 1 .. i - 1
  BY <1>0, <1>1 DEF Stored
<1>2. ASSUME NEW c, MadeMember(c), inbox[i].user # Root
      PROVE  ServedBefore(i, c)
  <2>1. PICK k \in Stored : /\ 1 .. k - 1 \subseteq handled
                            /\ Settles(k, c) /\ inbox[k].kind # "left"
    BY <1>2 DEF MadeMember
  <2>2. k # i
    BY <1>2, <2>1 DEF Settles
  <2> QED
    BY <1>1, <2>1, <2>2 DEF ServedBefore
<1>3. ASSUME NEW u, NEW p, MadeChoice(u, p), p # "auto"
      PROVE  ChosenBefore(i, u, p)
  <2>1. PICK k \in Stored : /\ 1 .. k - 1 \subseteq handled
                            /\ Chooses(k, u) /\ inbox[k].preset = p
    BY <1>3 DEF MadeChoice
  <2>2. k # i
    BY <2>1 DEF Chooses
  <2> QED
    BY <1>1, <2>1, <2>2 DEF ChosenBefore
<1>4. \A u : ChosenBefore(i, u, "auto")
  BY DEF ChosenBefore
<1> QED
  BY <1>2, <1>3, <1>4

LEMMA FoundedInit == Init => FoundedInv
BY DEF Init, FoundedInv, FoundedLoop, MadeChoice

LEMMA FoundedSettings == IInv /\ FoundedInv /\ [Next]_vars =>
                           /\ \A c \in members' : MadeMember(c)'
                           /\ \A u \in User : \A p \in Preset :
                                presets'[u] = p => MadeChoice(u, p)'
<1> SUFFICES ASSUME IInv, FoundedInv, [Next]_vars
             PROVE  /\ \A c \in members' : MadeMember(c)'
                    /\ \A u \in User : \A p \in Preset : presets'[u] = p => MadeChoice(u, p)'
  OBVIOUS
<1>0. TypeOK /\ TypeOK' /\ TablesInv /\ \A l \in Loop : LoopInv(l)
  BY TypeInvariant DEF IInv
<1>1. members' \subseteq Group /\ presets' \in [User -> Preset]
  BY <1>0 DEF TypeOK
<1>2. /\ \A i \in Stored : i \in Stored' /\ inbox'[i] = inbox[i]
      /\ handled \subseteq handled'
  <2>1. ASSUME NEW l \in Loop, LoopStep(l)
        PROVE  inbox' = inbox /\ handled \subseteq handled'
    BY <2>1 DEF LoopStep, Take, Exists, Effect, GetPreset, Commit, Abandon, LoseConnection
  <2>2. ASSUME NEW u \in Content, Arrive(u)
        PROVE  /\ \A i \in Stored : i \in Stored' /\ inbox'[i] = inbox[i]
               /\ handled' = handled
    BY <1>0, <2>2, InboxGrows DEF Arrive
  <2> QED
    BY <1>0, <2>1, <2>2, StepClasses DEF Stored
<1>3. /\ \A c \in Group : MadeMember(c) => MadeMember(c)'
      /\ \A u \in User : \A p \in Preset : MadeChoice(u, p) => MadeChoice(u, p)'
  BY <1>0, <1>2, ReasonsStay
<1>4. /\ \A c \in members' : MadeMember(c)
      /\ \A u \in User : MadeChoice(u, presets'[u])
  <2>1. ASSUME UNCHANGED <<members, presets>>
        PROVE  /\ \A c \in members' : MadeMember(c)
               /\ \A u \in User : MadeChoice(u, presets'[u])
    BY <2>1 DEF FoundedInv
  <2>2. ASSUME NEW l \in Loop, LoopStep(l)
        PROVE  \/ UNCHANGED <<members, presets>>
               \/ pc[l] # "idle" /\ TakesEffect(l)
    BY <2>2 DEF LoopStep, Take, Exists, Effect, GetPreset, Commit, Abandon, LoseConnection
  <2>3. ASSUME NEW u \in Content, Arrive(u)
        PROVE  UNCHANGED <<members, presets>>
    BY <2>3 DEF Arrive
  <2> QED
    BY <1>0, <2>1, <2>2, <2>3, EffectMade, StepClasses
<1> QED
  BY <1>1, <1>3, <1>4

LEMMA FoundedLoops == IInv /\ FoundedInv /\ [Next]_vars => \A m \in Loop : FoundedLoop(m)'
<1> SUFFICES ASSUME IInv, FoundedInv, [Next]_vars, NEW m \in Loop, lock' = m
             PROVE  FoundedLoop(m)'
  BY DEF FoundedLoop
<1>0. TypeOK /\ \A l \in Loop : LoopInv(l)
  BY DEF IInv
<1>1. NoLoop \notin Loop
  OBVIOUS
(* The reasons of an iteration that goes on where it is. *)
<1>2. ASSUME lock = m, UNCHANGED <<pc[m], update[m], verdict[m]>>,
             \A i \in Stored : i \in Stored' /\ inbox'[i] = inbox[i],
             handled \subseteq handled'
      PROVE  FoundedLoop(m)'
  <2>1. update[m] \in Stored /\ verdict[m] \in Resolved \cup {"none"}
    BY <1>0, <1>2 DEF LoopInv, TypeOK
  <2>2. Current(m)' = Current(m)
    BY <1>2, <2>1 DEF Current
  <2>3. ASSUME pc[m] = "get_preset", Current(m).kind = "media", Current(m).user # Root
        PROVE  ServedBefore(update[m], Current(m).chat)'
    <3>1. Current(m) \in Update
      BY <1>0, <2>1 DEF TypeOK, Stored, Current
    <3>2. Current(m).chat \in Chat
      BY <2>3, <3>1 DEF Update
    <3>3. ServedBefore(update[m], Current(m).chat)
      BY <1>2, <2>3 DEF FoundedInv, FoundedLoop
    <3>4. \A i \in Stored : \A c \in Chat : ServedBefore(i, c) => ServedBefore(i, c)'
      BY <1>0, <1>2, ReasonsStay
    <3> QED
      BY <1>2, <2>1, <2>2, <3>2, <3>3, <3>4
  <2>4. ASSUME verdict[m] # "none"
        PROVE  Founded(update[m], verdict[m])'
    <3>1. Founded(update[m], verdict[m])
      BY <1>2, <2>4 DEF FoundedInv, FoundedLoop
    <3>2. \A i \in Stored : \A r \in Resolved : Founded(i, r) => Founded(i, r)'
      BY <1>0, <1>2, ReasonsStay
    <3> QED
      BY <1>2, <2>1, <2>4, <3>1, <3>2
  <2> QED
    BY <1>2, <2>2, <2>3, <2>4 DEF FoundedLoop
<1>3. ASSUME NEW l \in Loop, LoopStep(l), l # m
      PROVE  FoundedLoop(m)'
  <2>1. pc'[m] = pc[m] /\ update'[m] = update[m] /\ verdict'[m] = verdict[m]
    BY <1>0, <1>3 DEF LoopStep, Take, Exists, Effect, GetPreset, Commit, Abandon,
       LoseConnection, Goto, Finish, TypeOK
  <2>2. inbox' = inbox /\ handled \subseteq handled' /\ lock = m
    BY <1>1, <1>3 DEF LoopStep, Take, Exists, Effect, GetPreset, Commit, Abandon,
       LoseConnection, Finish
  <2> QED
    BY <1>2, <2>1, <2>2 DEF Stored
<1>4. ASSUME NEW i \in Id, Take(m, i)
      PROVE  FoundedLoop(m)'
  <2>1. /\ pc'[m] = FirstPc(inbox[i]) /\ update'[m] = i /\ verdict'[m] = "none"
        /\ Current(m)' = inbox[i] /\ i \in Stored
    BY <1>0, <1>4 DEF Take, IsNext, Current, LoopInv, TypeOK, Stored
  <2>2. inbox[i].kind = "media" /\ pc'[m] = "get_preset" => inbox[i].user = Root
    BY <2>1 DEF FirstPc
  <2> QED
    BY <2>1, <2>2 DEF FoundedLoop
<1>5. ASSUME LoopStep(m), lock = m
      PROVE  update[m] \in Stored /\ update[m] \notin handled
  BY <1>0, <1>5 DEF LoopInv
<1>6. CASE Exists(m)
  <2>1. /\ lock = m /\ LoopStep(m) /\ pc'[m] = AfterExists(Current(m))
        /\ UNCHANGED <<inbox, update, verdict>> /\ Current(m)' = Current(m)
    BY <1>0, <1>6 DEF Exists, Goto, Current, LoopStep, TypeOK
  <2>2. verdict[m] = "none"
    BY <1>0, <1>6 DEF Exists, LoopInv
  <2>3. ASSUME pc'[m] = "get_preset", Current(m).kind = "media", Current(m).user # Root
        PROVE  ServedBefore(update[m], Current(m).chat)
    <3>1. Current(m).chat \in members
      BY <2>1, <2>3 DEF AfterExists
    <3>2. MadeMember(Current(m).chat)
      BY <3>1 DEF FoundedInv
    <3> QED
      BY <1>0, <1>5, <2>1, <2>3, <3>2, MadeBefore DEF Current
  <2>4. ServedBefore(update[m], Current(m).chat)' = ServedBefore(update[m], Current(m).chat)
    BY <2>1 DEF ServedBefore, Settles, IsMessage
  <2> QED
    BY <2>1, <2>2, <2>3, <2>4 DEF FoundedLoop
<1>7. CASE Effect(m)
  <2>1. /\ verdict[m] = "none" /\ verdict' = verdict /\ Current(m)' = Current(m)
    BY <1>0, <1>7 DEF Effect, Goto, Current, LoopInv
  <2>2. Current(m).kind = "media" /\ pc'[m] = "get_preset" => Current(m).user = Root
    BY <1>0, <1>7 DEF Effect, Goto, LoopInv, TypeOK, IsMessage
  <2> QED
    BY <2>1, <2>2 DEF FoundedLoop
<1>8. CASE GetPreset(m)
  <2>1. /\ lock = m /\ LoopStep(m) /\ pc[m] = "get_preset" /\ pc'[m] = "commit"
        /\ UNCHANGED <<inbox, update>> /\ Current(m)' = Current(m)
        /\ verdict'[m] = IF Current(m).kind = "media"
                         THEN ResolvePreset(presets[Current(m).user], Current(m)) ELSE "none"
    BY <1>0, <1>8 DEF GetPreset, Current, LoopStep, TypeOK
  <2>2. ASSUME Current(m).kind = "media"
        PROVE  Founded(update[m], verdict'[m])
    <3>1. Current(m).user = Root \/ ServedBefore(update[m], Current(m).chat)
      BY <2>1, <2>2 DEF FoundedInv, FoundedLoop
    <3>2. Current(m) \in Content
      BY <1>0, <1>5, <2>1 DEF TypeOK, Stored, Current
    <3>3. Current(m).user \in User
      BY <2>2, <3>2, ContentFields
    <3>4. presets[Current(m).user] \in Preset
      BY <1>0, <3>3 DEF TypeOK
    <3>5. ChosenBefore(update[m], Current(m).user, presets[Current(m).user])
      BY <1>0, <1>5, <2>1, <2>2, <3>3, MadeBefore DEF FoundedInv, Current
    <3> QED
      BY <2>1, <2>2, <3>1, <3>4, <3>5 DEF Founded, Current
  <2>3. Founded(update[m], verdict[m])' = Founded(update[m], verdict'[m])
    BY <2>1 DEF Founded, ServedBefore, Settles, IsMessage, ChosenBefore, Chooses, ResolvePreset
  <2> QED
    BY <2>1, <2>2, <2>3 DEF FoundedLoop
<1>9. CASE Commit(m) \/ Abandon(m) \/ LoseConnection(m)
  BY <1>0, <1>1, <1>9 DEF Commit, Abandon, LoseConnection, Finish
<1>10. ASSUME NEW u \in Content, Arrive(u)
       PROVE  FoundedLoop(m)'
  <2>1. UNCHANGED <<handled, lock, pc, update, verdict>>
    BY <1>10 DEF Arrive
  <2> QED
    BY <1>0, <1>2, <1>10, <2>1, InboxGrows
<1>11. CASE UNCHANGED vars
  BY <1>2, <1>11 DEF Stored
<1>12. ASSUME LoopStep(m)
       PROVE  FoundedLoop(m)'
  BY <1>4, <1>6, <1>7, <1>8, <1>9, <1>12 DEF LoopStep
<1> QED
  BY <1>0, <1>3, <1>10, <1>11, <1>12, StepClasses

LEMMA FoundedNext == IInv /\ FoundedInv /\ [Next]_vars => FoundedInv'
<1> SUFFICES ASSUME IInv, FoundedInv, [Next]_vars
             PROVE  FoundedInv'
  OBVIOUS
<1>1. /\ \A c \in members' : MadeMember(c)'
      /\ \A u \in User : \A p \in Preset : presets'[u] = p => MadeChoice(u, p)'
  BY FoundedSettings
<1>2. \A u \in User : MadeChoice(u, presets[u])'
  <2>1. presets' \in [User -> Preset]
    BY TypeInvariant DEF TypeOK
  <2> QED
    BY <1>1, <2>1 DEF MadeChoice
<1> QED
  BY <1>1, <1>2, FoundedLoops DEF FoundedInv

----------------------------------------------------------------------------
(* As long as no connection is lost, the settings are those of the handled *)
(* updates, or those with the next one, applied already by the iteration   *)
(* that works on it or by one that failed; and that iteration is the only  *)
(* one.                                                                    *)
MembersAt(n) == \A c \in Group : c \in members <=> Serves(n, c)
PresetsAt(n) == \A u \in User : Chosen(n, u, presets[u])

(* A verdict that is right for update i. *)
Right(i, v) ==
  /\ Admissible(i) => v # "none"
  /\ v # "none" =>
       /\ Admissible(i)
       /\ \E p \in Preset : /\ Chosen(i - 1, inbox[i].user, p)
                            /\ v = ResolvePreset(p, inbox[i])

SerialLoop(l, i) ==
  /\ lock = l /\ update[l] = i
  /\ pc[l] \in {"get_preset", "commit"} => MembersAt(i)
  /\ pc[l] = "get_preset" /\ inbox[i].kind = "media" => Admissible(i)
  /\ pc[l] = "commit" => PresetsAt(i) /\ Right(i, verdict[l])

JobOf(i) ==
  /\ jobs[i] # "none" => Right(i, jobs[i])
  /\ Admissible(i) => \E e \in 1 .. i : jobs[e] # "none" /\ SameMessage(e, i)

SerialAt(n) ==
  /\ MembersAt(n) \/ (n < Len(inbox) /\ MembersAt(n + 1))
  /\ PresetsAt(n) \/ (n < Len(inbox) /\ PresetsAt(n + 1))
  /\ \A l \in Loop : pc[l] # "idle" => SerialLoop(l, n + 1)
  /\ \A i \in 1 .. n : JobOf(i)

SerialInv == ~lost => \A n \in 0 .. Len(inbox) : handled = 1 .. n => SerialAt(n)

(* What one more update changes. *)
LEMMA ServesNext ==
  ASSUME NEW n \in Nat, NEW c
  PROVE  Serves(n + 1, c) <=>
           IF Settles(n + 1, c) THEN inbox[n + 1].kind # "left" ELSE Serves(n, c)
<1>1. CASE Settles(n + 1, c)
  <2>1. \A k \in n + 2 .. n + 1 : ~Settles(k, c)
    OBVIOUS
  <2>2. ASSUME Serves(n + 1, c)
        PROVE  inbox[n + 1].kind # "left"
    <3>1. PICK i \in 1 .. n + 1 : /\ inbox[i].kind # "left"
                                  /\ \A k \in i + 1 .. n + 1 : ~Settles(k, c)
      BY <2>2 DEF Serves
    <3>2. i = n + 1
      <4>1. CASE i < n + 1
        <5>1. n + 1 \in i + 1 .. n + 1
          BY <4>1
        <5> QED
          BY <1>1, <3>1, <5>1
      <4> QED
        BY <4>1
    <3> QED
      BY <3>1, <3>2
  <2>3. ASSUME inbox[n + 1].kind # "left"
        PROVE  Serves(n + 1, c)
    <3>1. n + 1 \in 1 .. n + 1 /\ (n + 1) + 1 = n + 2
      OBVIOUS
    <3> QED
      BY <1>1, <2>1, <2>3, <3>1 DEF Serves
  <2> QED
    BY <1>1, <2>2, <2>3
<1>2. CASE ~Settles(n + 1, c)
  <2>1. ASSUME Serves(n + 1, c)
        PROVE  Serves(n, c)
    <3>1. PICK i \in 1 .. n + 1 : /\ Settles(i, c) /\ inbox[i].kind # "left"
                                  /\ \A k \in i + 1 .. n + 1 : ~Settles(k, c)
      BY <2>1 DEF Serves
    <3>2. i \in 1 .. n
      BY <1>2, <3>1
    <3> QED
      BY <3>1, <3>2 DEF Serves
  <2>2. ASSUME Serves(n, c)
        PROVE  Serves(n + 1, c)
    <3>1. PICK i \in 1 .. n : /\ Settles(i, c) /\ inbox[i].kind # "left"
                              /\ \A k \in i + 1 .. n : ~Settles(k, c)
      BY <2>2 DEF Serves
    <3>2. i \in 1 .. n + 1 /\ \A k \in i + 1 .. n + 1 : ~Settles(k, c)
      BY <1>2, <3>1
    <3> QED
      BY <3>1, <3>2 DEF Serves
  <2> QED
    BY <1>2, <2>1, <2>2
<1> QED
  BY <1>1, <1>2

LEMMA ChosenNext ==
  ASSUME NEW n \in Nat, NEW u, NEW p
  PROVE  /\ ~Chooses(n + 1, u) => (Chosen(n + 1, u, p) <=> Chosen(n, u, p))
         /\ Chooses(n + 1, u) /\ inbox[n + 1].preset = p => Chosen(n + 1, u, p)
<1>1. ASSUME ~Chooses(n + 1, u), Chosen(n + 1, u, p)
      PROVE  Chosen(n, u, p)
  <2>1. CASE p = "auto" /\ \A i \in 1 .. n + 1 : ~Chooses(i, u)
    BY <2>1 DEF Chosen
  <2>2. ASSUME NEW i \in 1 .. n + 1, Chooses(i, u), inbox[i].preset = p,
               \A k \in i + 1 .. n + 1 : ~Chooses(k, u)
        PROVE  Chosen(n, u, p)
    <3>1. i \in 1 .. n
      BY <1>1, <2>2
    <3> QED
      BY <2>2, <3>1 DEF Chosen
  <2> QED
    BY <1>1, <2>1, <2>2 DEF Chosen
<1>2. ASSUME ~Chooses(n + 1, u), Chosen(n, u, p)
      PROVE  Chosen(n + 1, u, p)
  <2>1. CASE p = "auto" /\ \A i \in 1 .. n : ~Chooses(i, u)
    BY <1>2, <2>1 DEF Chosen
  <2>2. ASSUME NEW i \in 1 .. n, Chooses(i, u), inbox[i].preset = p,
               \A k \in i + 1 .. n : ~Chooses(k, u)
        PROVE  Chosen(n + 1, u, p)
    <3>1. i \in 1 .. n + 1 /\ \A k \in i + 1 .. n + 1 : ~Chooses(k, u)
      BY <1>2, <2>2
    <3> QED
      BY <2>2, <3>1 DEF Chosen
  <2> QED
    BY <1>2, <2>1, <2>2 DEF Chosen
<1>3. ASSUME Chooses(n + 1, u), inbox[n + 1].preset = p
      PROVE  Chosen(n + 1, u, p)
  <2>1. n + 1 \in 1 .. n + 1 /\ \A k \in (n + 1) + 1 .. n + 1 : ~Chooses(k, u)
    OBVIOUS
  <2> QED
    BY <1>3, <2>1 DEF Chosen
<1> QED
  BY <1>1, <1>2, <1>3

(* What is said of the first updates depends on them alone. *)
LEMMA SamePrefix ==
  ASSUME NEW n \in Nat, \A i \in 1 .. n : inbox'[i] = inbox[i]
  PROVE  /\ \A k \in 0 .. n : \A c : Serves(k, c)' <=> Serves(k, c)
         /\ \A k \in 0 .. n : \A u, p : Chosen(k, u, p)' <=> Chosen(k, u, p)
         /\ \A i \in 1 .. n : Admissible(i)' <=> Admissible(i)
         /\ \A i \in 1 .. n : \A v : Right(i, v)' <=> Right(i, v)
         /\ \A e, i \in 1 .. n : SameMessage(e, i)' <=> SameMessage(e, i)
<1>1. ASSUME NEW k \in 0 .. n, NEW c
      PROVE  Serves(k, c)' <=> Serves(k, c)
  <2>1. \A i \in 1 .. k : /\ Settles(i, c)' <=> Settles(i, c)
                          /\ inbox'[i] = inbox[i]
    BY DEF Settles, IsMessage
  <2> QED
    BY <2>1 DEF Serves
<1>2. ASSUME NEW k \in 0 .. n, NEW u, NEW p
      PROVE  Chosen(k, u, p)' <=> Chosen(k, u, p)
  <2>1. \A i \in 1 .. k : /\ Chooses(i, u)' <=> Chooses(i, u)
                          /\ inbox'[i] = inbox[i]
    BY DEF Chooses
  <2> QED
    BY <2>1 DEF Chosen
<1>3. ASSUME NEW i \in 1 .. n
      PROVE  Admissible(i)' <=> Admissible(i)
  BY <1>1 DEF Admissible
<1>4. ASSUME NEW i \in 1 .. n, NEW v
      PROVE  Right(i, v)' <=> Right(i, v)
  BY <1>2, <1>3 DEF Right, ResolvePreset
<1>5. ASSUME NEW e \in 1 .. n, NEW i \in 1 .. n
      PROVE  SameMessage(e, i)' <=> SameMessage(e, i)
  BY DEF SameMessage
<1> QED
  BY <1>1, <1>2, <1>3, <1>4, <1>5

(* An update that is about no group leaves the memberships as they were,   *)
(* one that is no preset the presets.                                      *)
LEMMA NextSettings ==
  ASSUME NEW n \in Nat
  PROVE  /\ (\A c \in Group : ~Settles(n + 1, c)) => (MembersAt(n + 1) <=> MembersAt(n))
         /\ inbox[n + 1].kind # "preset" => (PresetsAt(n + 1) <=> PresetsAt(n))
<1>1. (\A c \in Group : ~Settles(n + 1, c)) => (MembersAt(n + 1) <=> MembersAt(n))
  BY ServesNext DEF MembersAt
<1>2. inbox[n + 1].kind # "preset" => (PresetsAt(n + 1) <=> PresetsAt(n))
  BY ChosenNext DEF PresetsAt, Chooses
<1> QED
  BY <1>1, <1>2

Settled(n) ==
  /\ MembersAt(n) \/ MembersAt(n + 1)
  /\ PresetsAt(n) \/ PresetsAt(n + 1)

(* Whether it is the first time or a repetition, after its effect the      *)
(* settings are those with the update.                                     *)
LEMMA EffectDone ==
  ASSUME TypeOK, NEW l \in Loop, LoopInv(l), pc[l] # "idle", TakesEffect(l),
         NEW n \in Nat, update[l] = n + 1, Settled(n), inbox' = inbox
  PROVE  MembersAt(n + 1)' /\ PresetsAt(n + 1)'
<1> DEFINE u == Current(l)
<1>1. u = inbox[n + 1] /\ n + 1 \in Stored /\ u \in Content
  BY DEF LoopInv, Current, TypeOK, Stored
<1>2. /\ \A k \in 0 .. n + 1 : \A c : Serves(k, c)' <=> Serves(k, c)
      /\ \A k \in 0 .. n + 1 : \A v, p : Chosen(k, v, p)' <=> Chosen(k, v, p)
  BY SamePrefix
<1>3. n + 1 \in 0 .. n + 1
  OBVIOUS
<1>4. ASSUME u.kind # "preset", presets' = presets
      PROVE  PresetsAt(n + 1)'
  <2>1. PresetsAt(n + 1)
    BY <1>1, <1>4, NextSettings DEF Settled
  <2> QED
    BY <1>2, <1>3, <1>4, <2>1 DEF PresetsAt
<1>5. CASE pc[l] = "add" /\ AddChat(l)
  <2>1. /\ members' = members \cup {u.chat} /\ presets' = presets /\ u.chat \in Group
        /\ u.kind # "preset" /\ u.kind # "left" /\ Settles(n + 1, u.chat)
    BY <1>1, <1>5 DEF AddChat, LoopInv, Settles, IsMessage
  <2>2. \A c \in Group : c # u.chat => ~Settles(n + 1, c)
    BY <1>1 DEF Settles
  <2>3. MembersAt(n + 1)'
    <3> SUFFICES ASSUME NEW c \in Group
                 PROVE  c \in members' <=> Serves(n + 1, c)
      BY <1>2, <1>3 DEF MembersAt
    <3>1. CASE c = u.chat
      BY <1>1, <2>1, <3>1, ServesNext
    <3>2. CASE c # u.chat
      BY <2>1, <2>2, <3>2, ServesNext DEF Settled, MembersAt
    <3> QED
      BY <3>1, <3>2
  <2> QED
    BY <1>4, <2>1, <2>3
<1>6. CASE pc[l] = "remove" /\ RemoveChat(l)
  <2>1. /\ members' = members \ {u.chat} /\ presets' = presets /\ u.chat \in Group
        /\ u.kind = "left" /\ Settles(n + 1, u.chat)
    BY <1>1, <1>6 DEF RemoveChat, LoopInv, Settles
  <2>2. \A c \in Group : c # u.chat => ~Settles(n + 1, c)
    BY <1>1 DEF Settles
  <2>3. MembersAt(n + 1)'
    <3> SUFFICES ASSUME NEW c \in Group
                 PROVE  c \in members' <=> Serves(n + 1, c)
      BY <1>2, <1>3 DEF MembersAt
    <3>1. CASE c = u.chat
      BY <1>1, <2>1, <3>1, ServesNext
    <3>2. CASE c # u.chat
      BY <2>1, <2>2, <3>2, ServesNext DEF Settled, MembersAt
    <3> QED
      BY <3>1, <3>2
  <2> QED
    BY <1>4, <2>1, <2>3
<1>7. CASE pc[l] \in {"set_preset", "request_cancel"} /\ members' = members
  <2>1. u.kind \in {"preset", "cancel"}
    BY <1>7 DEF LoopInv
  <2>2. \A c \in Group : ~Settles(n + 1, c)
    BY <1>1, <2>1 DEF Settles, IsMessage
  <2>3. MembersAt(n + 1)
    BY <2>2, NextSettings DEF Settled
  <2>4. MembersAt(n + 1)'
    BY <1>2, <1>3, <1>7, <2>3 DEF MembersAt
  <2>5. CASE pc[l] = "set_preset" /\ StorePreset(l)
    <3>1. presets' = [presets EXCEPT ![u.user] = u.preset] /\ u.kind = "preset"
      BY <2>5 DEF StorePreset, LoopInv
    <3> SUFFICES ASSUME NEW v \in User
                 PROVE  Chosen(n + 1, v, presets'[v])
      BY <1>2, <1>3, <2>4 DEF PresetsAt
    <3>2. CASE v = u.user
      <4>1. presets'[v] = inbox[n + 1].preset /\ Chooses(n + 1, v)
        BY <1>1, <3>1, <3>2 DEF TypeOK, Chooses
      <4> QED
        BY <4>1, ChosenNext
    <3>3. CASE v # u.user
      <4>1. presets'[v] = presets[v] /\ ~Chooses(n + 1, v)
        BY <1>1, <3>1, <3>3 DEF TypeOK, Chooses
      <4> QED
        BY <4>1, ChosenNext DEF Settled, PresetsAt
    <3> QED
      BY <3>2, <3>3
  <2>6. CASE pc[l] = "request_cancel" /\ presets' = presets
    <3>1. u.kind # "preset"
      BY <2>6 DEF LoopInv
    <3> QED
      BY <1>4, <2>4, <2>6, <3>1
  <2>7. \/ pc[l] = "set_preset" /\ StorePreset(l)
        \/ pc[l] = "request_cancel" /\ presets' = presets
    BY <1>7 DEF TakesEffect, AskCancel
  <2> QED
    BY <2>5, <2>6, <2>7
<1> QED
  BY <1>5, <1>6, <1>7 DEF TakesEffect, StorePreset, AskCancel

(* The steps of the one iteration at work, but its commit. *)
LEMMA SerialLoopStep ==
  ASSUME IInv, NEW l \in Loop, LoopStep(l), ~Commit(l), ~lost, ~lost',
         NEW n \in 0 .. Len(inbox), handled = 1 .. n, SerialAt(n)
  PROVE  SerialAt(n)'
<1>0. /\ TypeOK /\ TablesInv /\ NoLoop \notin Loop /\ Len(inbox) \in Nat
      /\ \A m \in Loop : LoopInv(m)
  BY DEF IInv, TypeOK
<1>1. UNCHANGED <<inbox, handled, jobs>> /\ ~LoseConnection(l)
  BY DEF LoopStep, Take, Exists, Effect, GetPreset, Abandon, LoseConnection
<1>2. /\ \A k \in 0 .. Len(inbox) : \A c : Serves(k, c)' <=> Serves(k, c)
      /\ \A k \in 0 .. Len(inbox) : \A u, p : Chosen(k, u, p)' <=> Chosen(k, u, p)
      /\ \A i \in Stored : Admissible(i)' <=> Admissible(i)
      /\ \A i \in Stored : \A v : Right(i, v)' <=> Right(i, v)
      /\ \A e, i \in Stored : SameMessage(e, i)' <=> SameMessage(e, i)
  BY <1>0, <1>1, SamePrefix DEF Stored
<1>3. \A i \in 1 .. n : JobOf(i)'
  <2> SUFFICES ASSUME NEW i \in 1 .. n
               PROVE  JobOf(i)'
    OBVIOUS
  <2>1. JobOf(i) /\ i \in Stored /\ \A e \in 1 .. i : e \in Stored
    BY DEF SerialAt, Stored
  <2> QED
    BY <1>1, <1>2, <2>1 DEF JobOf
<1>4. Settled(n)
  BY DEF SerialAt, Settled
<1>5. \A k \in 0 .. Len(inbox) : members' = members => (MembersAt(k)' <=> MembersAt(k))
  BY <1>2 DEF MembersAt
<1>6. \A k \in 0 .. Len(inbox) : presets' = presets => (PresetsAt(k)' <=> PresetsAt(k))
  BY <1>2 DEF PresetsAt
<1>7. ASSUME UNCHANGED settingVars
      PROVE  /\ MembersAt(n)' \/ (n < Len(inbox') /\ MembersAt(n + 1)')
             /\ PresetsAt(n)' \/ (n < Len(inbox') /\ PresetsAt(n + 1)')
  <2>1. n < Len(inbox) => n + 1 \in 0 .. Len(inbox)
    BY <1>0
  <2> QED
    BY <1>1, <1>5, <1>6, <1>7, <2>1 DEF SerialAt
<1>8. ASSUME NEW i \in Id, Take(l, i)
      PROVE  SerialAt(n)'
  <2>1. i = n + 1 /\ i \in Stored /\ n < Len(inbox)
    <3>1. i \in 1 .. Len(inbox) /\ i \notin 1 .. n /\ \A e \in 1 .. i - 1 : e \in 1 .. n
      BY <1>8 DEF Take, IsNext
    <3>2. i > n
      BY <3>1
    <3>3. CASE i > n + 1
      <4>1. n + 1 \in 1 .. i - 1 /\ n + 1 \notin 1 .. n
        BY <3>1, <3>3
      <4> QED
        BY <3>1, <4>1
    <3> QED
      BY <3>1, <3>2, <3>3 DEF Stored
  <2>2. /\ UNCHANGED settingVars /\ lock' = l /\ update'[l] = n + 1
        /\ pc'[l] = FirstPc(inbox[n + 1])
    BY <1>0, <1>8, <2>1 DEF Take, TypeOK
  <2>3. \A m \in Loop : m # l => pc'[m] = "idle"
    BY <1>0, <1>8 DEF Take, LockFree, SerialAt, SerialLoop, TypeOK
  <2>4. /\ FirstPc(inbox[n + 1]) \in {"get_preset", "commit"} =>
             /\ \A c \in Group : ~Settles(n + 1, c)
             /\ inbox[n + 1].kind # "preset"
        /\ FirstPc(inbox[n + 1]) = "get_preset" => inbox[n + 1].user = Root
        /\ FirstPc(inbox[n + 1]) = "commit" => ~Admissible(n + 1)
    <3>1. inbox[n + 1].kind \in {"joined", "left", "preset", "cancel", "text", "media"}
      BY <1>0, <2>1, ContentFields DEF TypeOK, Stored
    <3>2. \A c : c \notin Group => ~Serves(n, c)
      BY DEF Serves, Settles
    <3>3. FirstPc(inbox[n + 1]) \in {"get_preset", "commit"} =>
            /\ \A c \in Group : ~Settles(n + 1, c)
            /\ inbox[n + 1].kind # "preset"
      BY <3>1 DEF FirstPc, Settles, IsMessage
    <3>4. FirstPc(inbox[n + 1]) = "get_preset" => inbox[n + 1].user = Root
      BY <3>1 DEF FirstPc
    <3>5. ASSUME FirstPc(inbox[n + 1]) = "commit", inbox[n + 1].kind = "media"
          PROVE  inbox[n + 1].chat \notin Group /\ inbox[n + 1].user # Root
      BY <3>5 DEF FirstPc
    <3>6. FirstPc(inbox[n + 1]) = "commit" => ~Admissible(n + 1)
      <4>1. (n + 1) - 1 = n
        OBVIOUS
      <4> QED
        BY <3>2, <3>5, <4>1 DEF Admissible
    <3> QED
      BY <3>3, <3>4, <3>6
  <2>5. ASSUME pc'[l] \in {"get_preset", "commit"}
        PROVE  MembersAt(n + 1)' /\ PresetsAt(n + 1)'
    <3>1. MembersAt(n + 1) /\ PresetsAt(n + 1)
      BY <1>4, <2>2, <2>4, <2>5, NextSettings DEF Settled
    <3>2. n + 1 \in 0 .. Len(inbox)
      BY <1>0, <2>1
    <3> QED
      BY <1>5, <1>6, <2>2, <3>1, <3>2
  <2>6. SerialLoop(l, n + 1)'
    <3>1. pc'[l] = "get_preset" /\ inbox'[n + 1].kind = "media" => Admissible(n + 1)'
      BY <1>1, <1>2, <2>1, <2>2, <2>4 DEF Admissible
    <3>2. verdict'[l] = "none"
      BY <1>0, <1>8 DEF Take, LoopInv
    <3>3. pc'[l] = "commit" => Right(n + 1, verdict[l])'
      BY <1>2, <2>1, <2>2, <2>4, <3>2 DEF Right
    <3> QED
      BY <2>2, <2>5, <3>1, <3>3 DEF SerialLoop
  <2> QED
    BY <1>3, <1>7, <2>2, <2>3, <2>6 DEF SerialAt
<1>9. ASSUME ~(\E i \in Id : Take(l, i))
      PROVE  /\ pc[l] # "idle" /\ lock = l /\ update[l] = n + 1 /\ n + 1 \in Stored
             /\ n < Len(inbox) /\ n + 1 \in 0 .. Len(inbox) /\ Current(l) = inbox[n + 1]
             /\ SerialLoop(l, n + 1)
             /\ \A m \in Loop : m # l => pc[m] = "idle" /\ pc'[m] = "idle"
  <2>1. pc[l] # "idle"
    BY <1>1, <1>9 DEF LoopStep, Exists, Effect, GetPreset, Abandon
  <2>2. SerialLoop(l, n + 1) /\ lock = l /\ update[l] = n + 1
    BY <2>1 DEF SerialAt, SerialLoop
  <2>3. n + 1 \in Stored
    BY <1>0, <2>1, <2>2 DEF LoopInv
  <2>4. n < Len(inbox) /\ n + 1 \in 0 .. Len(inbox)
    BY <1>0, <2>3 DEF Stored
  <2>5. \A m \in Loop : m # l => pc[m] = "idle"
    BY <2>2 DEF SerialAt, SerialLoop
  <2>6. \A m \in Loop : m # l => pc'[m] = pc[m]
    BY <1>0, <1>1, <1>9 DEF LoopStep, Exists, Effect, GetPreset, Abandon, Goto, Finish, TypeOK
  <2> QED
    BY <2>1, <2>2, <2>3, <2>4, <2>5, <2>6 DEF Current
<1>10. ASSUME Exists(l)
       PROVE  SerialAt(n)'
  <2>1. /\ lock = l /\ update[l] = n + 1 /\ n + 1 \in Stored /\ n + 1 \in 0 .. Len(inbox)
        /\ Current(l) = inbox[n + 1] /\ pc[l] = "exists"
        /\ \A m \in Loop : m # l => pc'[m] = "idle"
    BY <1>9, <1>10 DEF Exists, Take
  <2>2. /\ UNCHANGED settingVars /\ lock' = l /\ update'[l] = n + 1
        /\ pc'[l] = AfterExists(inbox[n + 1]) /\ verdict'[l] = "none"
    BY <1>0, <1>10, <2>1 DEF Exists, Goto, LoopInv, TypeOK
  <2>3. IsMessage(inbox[n + 1]) /\ inbox[n + 1].chat \in Group /\ (n + 1) - 1 = n
    BY <1>0, <2>1 DEF LoopInv
  <2>4. PresetsAt(n + 1)
    BY <1>4, <2>3, NextSettings DEF Settled, IsMessage
  <2>5. ASSUME inbox[n + 1].user # Root
        PROVE  MembersAt(n + 1) /\ (Serves(n, inbox[n + 1].chat) <=> inbox[n + 1].chat \in members)
    <3>1. \A c \in Group : ~Settles(n + 1, c)
      BY <2>3, <2>5 DEF Settles, IsMessage
    <3>2. MembersAt(n + 1) /\ MembersAt(n)
      BY <1>4, <3>1, NextSettings DEF Settled
    <3> QED
      BY <2>3, <3>2 DEF MembersAt
  <2>6. ASSUME inbox[n + 1].user = Root, inbox[n + 1].chat \in members
        PROVE  MembersAt(n + 1)
    <3> SUFFICES ASSUME NEW c \in Group
                 PROVE  c \in members <=> Serves(n + 1, c)
      BY DEF MembersAt
    <3>1. CASE c = inbox[n + 1].chat
      BY <2>3, <2>6, <3>1, ServesNext DEF Settles, IsMessage
    <3>2. CASE c # inbox[n + 1].chat
      BY <1>4, <2>3, <3>2, ServesNext DEF Settled, MembersAt, Settles, IsMessage
    <3> QED
      BY <3>1, <3>2
  <2>7. SerialLoop(l, n + 1)'
    <3>1. CASE inbox[n + 1].chat \in members
      <4>1. pc'[l] = "get_preset"
        BY <2>2, <3>1 DEF AfterExists
      <4>2. MembersAt(n + 1)'
        BY <1>5, <2>1, <2>2, <2>5, <2>6, <3>1
      <4>3. inbox[n + 1].kind = "media" => Admissible(n + 1)'
        BY <1>2, <2>1, <2>3, <2>5, <3>1 DEF Admissible
      <4> QED
        BY <1>1, <2>2, <4>1, <4>2, <4>3 DEF SerialLoop
    <3>2. CASE inbox[n + 1].chat \notin members /\ inbox[n + 1].user = Root
      <4>1. pc'[l] = "add"
        BY <2>2, <3>2 DEF AfterExists
      <4> QED
        BY <2>2, <4>1 DEF SerialLoop
    <3>3. CASE inbox[n + 1].chat \notin members /\ inbox[n + 1].user # Root
      <4>1. pc'[l] = "commit"
        BY <2>2, <3>3 DEF AfterExists
      <4>2. MembersAt(n + 1)' /\ PresetsAt(n + 1)'
        BY <1>5, <1>6, <2>1, <2>2, <2>4, <2>5, <3>3
      <4>3. ~Admissible(n + 1)
        BY <2>3, <2>5, <3>3 DEF Admissible
      <4>4. Right(n + 1, verdict[l])'
        BY <1>2, <2>1, <2>2, <4>3 DEF Right
      <4> QED
        BY <2>2, <4>1, <4>2, <4>4 DEF SerialLoop
    <3> QED
      BY <3>1, <3>2, <3>3
  <2> QED
    BY <1>3, <1>7, <2>1, <2>2, <2>7 DEF SerialAt
<1>11. ASSUME Effect(l)
       PROVE  SerialAt(n)'
  <2>1. /\ lock = l /\ update[l] = n + 1 /\ n + 1 \in Stored /\ pc[l] # "idle"
        /\ Current(l) = inbox[n + 1] /\ n < Len(inbox)
        /\ \A m \in Loop : m # l => pc'[m] = "idle"
    BY <1>9, <1>11 DEF Effect, Take
  <2>2. MembersAt(n + 1)' /\ PresetsAt(n + 1)'
    BY <1>0, <1>1, <1>4, <1>11, <2>1, EffectDone DEF Effect
  <2>3. /\ lock' = l /\ update'[l] = n + 1 /\ verdict'[l] = "none"
        /\ pc'[l] = IF pc[l] = "add" /\ IsMessage(inbox[n + 1]) THEN "get_preset" ELSE "commit"
    BY <1>0, <1>11, <2>1 DEF Effect, Goto, LoopInv, TypeOK
  <2>4. SerialLoop(l, n + 1)'
    <3>1. CASE pc'[l] = "get_preset"
      <4>1. inbox[n + 1].user = Root
        BY <1>0, <2>1, <2>3, <3>1 DEF LoopInv, IsMessage
      <4>2. inbox[n + 1].kind = "media" => Admissible(n + 1)'
        BY <1>2, <2>1, <4>1 DEF Admissible
      <4> QED
        BY <1>1, <2>2, <2>3, <3>1, <4>2 DEF SerialLoop
    <3>2. CASE pc'[l] = "commit"
      <4>1. inbox[n + 1].kind # "media"
        BY <1>0, <1>11, <2>1, <2>3, <3>2 DEF Effect, LoopInv, IsMessage
      <4>2. Right(n + 1, verdict[l])'
        BY <1>2, <2>1, <2>3, <4>1 DEF Right, Admissible
      <4> QED
        BY <2>2, <2>3, <3>2, <4>2 DEF SerialLoop
    <3> QED
      BY <2>3, <3>1, <3>2
  <2> QED
    BY <1>1, <1>3, <2>1, <2>2, <2>4 DEF SerialAt
<1>12. ASSUME GetPreset(l)
       PROVE  SerialAt(n)'
  <2>1. /\ lock = l /\ update[l] = n + 1 /\ n + 1 \in Stored /\ n + 1 \in 0 .. Len(inbox)
        /\ Current(l) = inbox[n + 1] /\ pc[l] = "get_preset" /\ SerialLoop(l, n + 1)
        /\ \A m \in Loop : m # l => pc'[m] = "idle"
    BY <1>9, <1>12 DEF GetPreset, Take
  <2>2. /\ UNCHANGED settingVars /\ lock' = l /\ update'[l] = n + 1 /\ pc'[l] = "commit"
        /\ verdict'[l] = IF inbox[n + 1].kind = "media"
                         THEN ResolvePreset(presets[inbox[n + 1].user], inbox[n + 1])
                         ELSE "none"
    BY <1>0, <1>12, <2>1 DEF GetPreset, TypeOK
  <2>3. IsMessage(inbox[n + 1]) /\ (n + 1) - 1 = n
    BY <1>0, <2>1 DEF LoopInv
  <2>4. PresetsAt(n + 1) /\ PresetsAt(n)
    BY <1>4, <2>3, NextSettings DEF Settled, IsMessage
  <2>5. MembersAt(n + 1)' /\ PresetsAt(n + 1)'
    BY <1>5, <1>6, <2>1, <2>2, <2>4 DEF SerialLoop
  <2>6. Right(n + 1, verdict'[l])
    <3>1. CASE inbox[n + 1].kind = "media"
      <4>1. Admissible(n + 1)
        BY <2>1, <3>1 DEF SerialLoop
      <4>2. /\ inbox[n + 1].user \in User
            /\ verdict'[l] = ResolvePreset(presets[inbox[n + 1].user], inbox[n + 1])
            /\ verdict'[l] \in Resolved
        BY <1>0, <2>1, <2>2, <3>1, VerdictType, ContentFields
      <4>3. verdict'[l] # "none"
        BY <4>2 DEF Resolved, Preset
      <4>4. presets[inbox[n + 1].user] \in Preset
        BY <1>0, <4>2 DEF TypeOK
      <4>5. Chosen(n, inbox[n + 1].user, presets[inbox[n + 1].user])
        BY <2>4, <4>2 DEF PresetsAt
      <4> QED
        BY <2>3, <4>1, <4>2, <4>3, <4>4, <4>5 DEF Right
    <3>2. CASE inbox[n + 1].kind # "media"
      BY <2>2, <3>2 DEF Right, Admissible
    <3> QED
      BY <3>1, <3>2
  <2>7. SerialLoop(l, n + 1)'
    BY <1>2, <2>1, <2>2, <2>5, <2>6 DEF SerialLoop
  <2> QED
    BY <1>3, <1>7, <2>1, <2>2, <2>7 DEF SerialAt
<1>13. ASSUME Abandon(l)
       PROVE  SerialAt(n)'
  <2>1. /\ update[l] = n + 1 /\ pc[l] # "idle" /\ n < Len(inbox)
        /\ \A m \in Loop : m # l => pc'[m] = "idle"
    BY <1>9, <1>13 DEF Abandon, Take
  <2>2. \A m \in Loop : pc'[m] = "idle"
    BY <1>0, <1>13, <2>1 DEF Abandon, Finish, TypeOK
  <2>3. CASE TakesEffect(l)
    <3>1. MembersAt(n + 1)' /\ PresetsAt(n + 1)'
      BY <1>0, <1>1, <1>4, <2>1, <2>3, EffectDone
    <3> QED
      BY <1>1, <1>3, <2>1, <2>2, <3>1 DEF SerialAt
  <2>4. CASE UNCHANGED settingVars
    BY <1>3, <1>7, <2>2, <2>4 DEF SerialAt
  <2> QED
    BY <1>13, <2>3, <2>4 DEF Abandon
<1> QED
  BY <1>1, <1>8, <1>10, <1>11, <1>12, <1>13 DEF LoopStep

(* The commit of the one iteration at work. *)
LEMMA SerialCommit ==
  ASSUME IInv, NEW l \in Loop, Commit(l),
         NEW n \in Nat, update[l] = n + 1, handled = 1 .. n, SerialAt(n)
  PROVE  SerialAt(n + 1)'
<1>0. /\ TypeOK /\ TablesInv /\ NoLoop \notin Loop /\ Len(inbox) \in Nat
      /\ \A m \in Loop : LoopInv(m)
  BY DEF IInv, TypeOK
<1>1. /\ n + 1 \in Stored /\ jobs[n + 1] = "none" /\ n + 1 \in 0 .. Len(inbox)
      /\ UNCHANGED <<inbox, settingVars>>
  BY <1>0, CommitNext DEF Stored
<1>2. /\ \A k \in 0 .. Len(inbox) : \A c : Serves(k, c)' <=> Serves(k, c)
      /\ \A k \in 0 .. Len(inbox) : \A u, p : Chosen(k, u, p)' <=> Chosen(k, u, p)
      /\ \A i \in Stored : Admissible(i)' <=> Admissible(i)
      /\ \A i \in Stored : \A v : Right(i, v)' <=> Right(i, v)
      /\ \A e, i \in Stored : SameMessage(e, i)' <=> SameMessage(e, i)
  BY <1>0, <1>1, SamePrefix DEF Stored
<1>3. pc[l] = "commit" /\ lock = l /\ SerialLoop(l, n + 1)
  BY DEF Commit, AtStore, SerialAt
<1>4. MembersAt(n + 1)' /\ PresetsAt(n + 1)'
  BY <1>1, <1>2, <1>3 DEF SerialLoop, MembersAt, PresetsAt
<1>5. \A m \in Loop : pc'[m] = "idle"
  <2>1. pc'[l] = "idle"
    BY <1>0 DEF Commit, Finish, TypeOK
  <2>2. ASSUME NEW m \in Loop, m # l
        PROVE  pc'[m] = "idle"
    <3>1. pc[m] = "idle"
      BY <1>3, <2>2 DEF SerialAt, SerialLoop
    <3> QED
      BY <1>0, <2>2, <3>1 DEF Commit, Finish, TypeOK
  <2> QED
    BY <2>1, <2>2
<1>6. /\ \A e \in Id : e # n + 1 => jobs'[e] = jobs[e]
      /\ jobs'[n + 1] = IF verdict[l] # "none" /\ ~HasJob(n + 1) THEN verdict[l] ELSE "none"
      /\ n + 1 \in Id /\ \A e \in Stored : e \in Id
  <2>1. Stored \subseteq Id
    BY <1>0 DEF TypeOK, Stored
  <2> QED
    BY <1>0, <1>1, <2>1 DEF Commit, TypeOK
<1>7. ASSUME NEW i \in 1 .. n
      PROVE  JobOf(i)'
  <2>1. JobOf(i) /\ i \in Stored /\ i # n + 1
    BY <1>0, <1>1 DEF SerialAt, Stored
  <2>2. \A e \in 1 .. i : e \in Stored /\ e # n + 1
    BY <1>0, <1>1 DEF Stored
  <2> QED
    BY <1>2, <1>6, <2>1, <2>2 DEF JobOf
<1>8. JobOf(n + 1)'
  <2>1. Right(n + 1, verdict[l])
    BY <1>3 DEF SerialLoop
  <2>2. jobs'[n + 1] # "none" => Right(n + 1, jobs'[n + 1])
    BY <1>6, <2>1
  <2>3. jobs'[n + 1] # "none" => Right(n + 1, jobs[n + 1])'
    BY <1>1, <1>2, <2>2
  <2>4. ASSUME Admissible(n + 1)
        PROVE  \E e \in 1 .. n + 1 : jobs'[e] # "none" /\ SameMessage(e, n + 1)
    <3>1. verdict[l] # "none"
      BY <2>1, <2>4 DEF Right
    <3>2. CASE HasJob(n + 1)
      <4>1. PICK e \in Id : jobs[e] # "none" /\ SameMessage(e, n + 1)
        BY <3>2 DEF HasJob
      <4>2. e \in 1 .. n
        BY <1>0, <4>1 DEF TablesInv
      <4>3. e \in 1 .. n + 1 /\ jobs'[e] # "none"
        BY <1>6, <4>1, <4>2
      <4> QED
        BY <4>1, <4>3
    <3>3. CASE ~HasJob(n + 1)
      <4>1. jobs'[n + 1] # "none" /\ n + 1 \in 1 .. n + 1
        BY <1>6, <3>1, <3>3
      <4>2. SameMessage(n + 1, n + 1)
        BY DEF SameMessage
      <4> QED
        BY <4>1, <4>2
    <3> QED
      BY <3>2, <3>3
  <2>5. \A e \in 1 .. n + 1 : e \in Stored
    BY <1>0, <1>1 DEF Stored
  <2> QED
    BY <1>1, <1>2, <2>3, <2>4, <2>5 DEF JobOf
<1>9. \A i \in 1 .. n + 1 : JobOf(i)'
  BY <1>7, <1>8
<1> QED
  BY <1>4, <1>5, <1>9 DEF SerialAt

(* An update that arrives is behind everything the iterations look at. *)
LEMMA SerialArrive ==
  ASSUME IInv, UNCHANGED <<jobs, settingVars, lock, localVars>>,
         Len(inbox') \in Nat, Len(inbox') >= Len(inbox),
         \A i \in Stored : inbox'[i] = inbox[i],
         NEW n \in 0 .. Len(inbox), SerialAt(n)
  PROVE  SerialAt(n)'
<1>0. TypeOK /\ Len(inbox) \in Nat /\ \A m \in Loop : LoopInv(m)
  BY DEF IInv, TypeOK
<1>1. /\ UNCHANGED <<jobs, settingVars, lock, localVars>>
      /\ Len(inbox') \in Nat /\ Len(inbox') >= Len(inbox)
      /\ \A i \in Stored : inbox'[i] = inbox[i]
  OBVIOUS
<1>2. /\ \A k \in 0 .. Len(inbox) : \A c : Serves(k, c)' <=> Serves(k, c)
      /\ \A k \in 0 .. Len(inbox) : \A v, p : Chosen(k, v, p)' <=> Chosen(k, v, p)
      /\ \A i \in Stored : Admissible(i)' <=> Admissible(i)
      /\ \A i \in Stored : \A v : Right(i, v)' <=> Right(i, v)
      /\ \A e, i \in Stored : SameMessage(e, i)' <=> SameMessage(e, i)
  BY <1>0, <1>1, SamePrefix DEF Stored
<1>3. ASSUME NEW i \in 1 .. n
      PROVE  JobOf(i)'
  <2>1. JobOf(i) /\ i \in Stored /\ \A e \in 1 .. i : e \in Stored
    BY <1>0 DEF SerialAt, Stored
  <2> QED
    BY <1>1, <1>2, <2>1 DEF JobOf
<1>4. \A k \in 0 .. Len(inbox) : /\ MembersAt(k)' <=> MembersAt(k)
                                 /\ PresetsAt(k)' <=> PresetsAt(k)
  BY <1>1, <1>2 DEF MembersAt, PresetsAt
<1>5. /\ MembersAt(n)' \/ (n < Len(inbox') /\ MembersAt(n + 1)')
      /\ PresetsAt(n)' \/ (n < Len(inbox') /\ PresetsAt(n + 1)')
  <2>1. n < Len(inbox) => n + 1 \in 0 .. Len(inbox) /\ n < Len(inbox')
    BY <1>0, <1>1
  <2>2. (MembersAt(n)' <=> MembersAt(n)) /\ (PresetsAt(n)' <=> PresetsAt(n))
    BY <1>4
  <2>3. n < Len(inbox) => /\ MembersAt(n + 1)' <=> MembersAt(n + 1)
                          /\ PresetsAt(n + 1)' <=> PresetsAt(n + 1)
    BY <1>4, <2>1
  <2> QED
    BY <2>1, <2>2, <2>3 DEF SerialAt
<1>6. ASSUME NEW m \in Loop, pc'[m] # "idle"
      PROVE  SerialLoop(m, n + 1)'
  <2>1. pc[m] # "idle" /\ SerialLoop(m, n + 1)
    BY <1>1, <1>6 DEF SerialAt
  <2>2. n + 1 \in Stored
    BY <1>0, <2>1 DEF LoopInv, SerialLoop
  <2>3. n + 1 \in 0 .. Len(inbox)
    BY <1>0, <2>2 DEF Stored
  <2>4. pc[m] = "commit" => Right(n + 1, verdict[m])'
    BY <1>1, <1>2, <2>1, <2>2 DEF SerialLoop
  <2>5. inbox'[n + 1] = inbox[n + 1] /\ (Admissible(n + 1)' <=> Admissible(n + 1))
    BY <1>1, <1>2, <2>2
  <2>6. (MembersAt(n + 1)' <=> MembersAt(n + 1)) /\ (PresetsAt(n + 1)' <=> PresetsAt(n + 1))
    BY <1>4, <2>3
  <2> QED
    BY <1>1, <2>1, <2>4, <2>5, <2>6 DEF SerialLoop
<1> QED
  BY <1>3, <1>5, <1>6 DEF SerialAt

LEMMA SerialInvariant == IInv /\ SerialInv /\ [Next]_vars => SerialInv'
<1> SUFFICES ASSUME IInv, SerialInv, [Next]_vars, ~lost',
                    NEW n \in 0 .. Len(inbox'), handled' = 1 .. n
             PROVE  SerialAt(n)'
  BY DEF SerialInv
<1>0. TypeOK /\ TablesInv /\ Len(inbox) \in Nat /\ \A m \in Loop : LoopInv(m)
  BY DEF IInv, TypeOK
<1>1. PICK o \in 0 .. Len(inbox) : handled = 1 .. o
  BY <1>0 DEF TablesInv
<1>2. \A a, b \in Nat : 1 .. a = 1 .. b => a = b
  <2> SUFFICES ASSUME NEW a \in Nat, NEW b \in Nat, 1 .. a = 1 .. b, a < b
               PROVE  FALSE
    OBVIOUS
  <2>1. b \in 1 .. b /\ b \notin 1 .. a
    OBVIOUS
  <2> QED
    BY <2>1
<1>3. n \in Nat /\ o \in Nat
  BY <1>1
<1>4. ASSUME NEW l \in Loop, LoopStep(l)
      PROVE  SerialAt(n)'
  <2>1. ~lost
    BY <1>4 DEF LoopStep, Take, Exists, Effect, GetPreset, Commit, Abandon, LoseConnection
  <2>2. SerialAt(o)
    BY <1>1, <2>1 DEF SerialInv
  <2>3. CASE Commit(l)
    <3>1. update[l] \in Stored /\ handled = 1 .. update[l] - 1 /\ handled' = 1 .. update[l]
      BY <1>0, <2>3, CommitNext
    <3>2. update[l] \in Nat /\ update[l] - 1 \in Nat
      BY <1>0, <3>1 DEF Stored
    <3>3. update[l] - 1 = o /\ update[l] = n
      BY <1>1, <1>2, <1>3, <3>1, <3>2
    <3>4. n = o + 1 /\ update[l] = o + 1
      BY <3>2, <3>3
    <3> QED
      BY <1>1, <1>3, <2>2, <2>3, <3>4, SerialCommit
  <2>4. CASE ~Commit(l)
    <3>1. handled' = handled
      BY <1>4, <2>4 DEF LoopStep, Take, Exists, Effect, GetPreset, Abandon, LoseConnection
    <3>2. n = o
      BY <1>1, <1>2, <1>3, <3>1
    <3> QED
      BY <1>1, <1>4, <2>1, <2>2, <2>4, <3>2, SerialLoopStep
  <2> QED
    BY <2>3, <2>4
<1>5. ASSUME \/ \E u \in Content : Arrive(u)
             \/ UNCHANGED vars
      PROVE  SerialAt(n)'
  <2>1. UNCHANGED <<handled, jobs, settingVars, lock, localVars, lost>>
    BY <1>5 DEF Arrive
  <2>2. /\ Len(inbox') \in Nat /\ Len(inbox') >= Len(inbox)
        /\ \A i \in Stored : inbox'[i] = inbox[i]
    BY <1>0, <1>5, InboxGrows
  <2>3. n = o
    BY <1>1, <1>2, <1>3, <2>1
  <2>4. SerialAt(o)
    BY <1>1, <2>1 DEF SerialInv
  <2> QED
    BY <1>1, <2>1, <2>2, <2>3, <2>4, SerialArrive
<1> QED
  BY <1>0, <1>4, <1>5, StepClasses

LEMMA SerialInit == Init => SerialInv
<1> SUFFICES ASSUME Init, NEW n \in 0 .. Len(inbox), handled = 1 .. n
             PROVE  SerialAt(n)
  BY DEF SerialInv
<1>1. n = 0 /\ Len(inbox) = 0
  BY DEF Init
<1>2. MembersAt(0)
  BY DEF Init, MembersAt, Serves
<1>3. PresetsAt(0)
  <2>1. \A u \in User : presets[u] = "auto"
    BY DEF Init
  <2>2. \A u : Chosen(0, u, "auto")
    BY DEF Chosen
  <2> QED
    BY <2>1, <2>2 DEF PresetsAt
<1>4. \A l \in Loop : pc[l] = "idle"
  BY DEF Init
<1> QED
  BY <1>1, <1>2, <1>3, <1>4 DEF SerialAt

(* Of the admissible updates about one message the first has the job. *)
LEMMA SerialConclusion == IInv /\ SerialInv => SerialUnlessLost
<1> SUFFICES ASSUME IInv, SerialInv, ~lost, NEW i \in handled
             PROVE  /\ jobs[i] # "none" <=>
                         /\ Admissible(i)
                         /\ ~\E e \in 1 .. i - 1 : Admissible(e) /\ SameMessage(e, i)
                    /\ jobs[i] # "none" =>
                         \E p \in Preset : /\ Chosen(i - 1, inbox[i].user, p)
                                            /\ jobs[i] = ResolvePreset(p, inbox[i])
  BY DEF SerialUnlessLost, SerialAdmission
<1>0. TypeOK /\ Len(inbox) \in Nat /\ JobUnique
  BY DEF IInv, TypeOK
<1>1. PICK n \in 0 .. Len(inbox) : handled = 1 .. n /\ SerialAt(n)
  BY DEF IInv, TablesInv, SerialInv
<1>2. JobOf(i) /\ i \in Id /\ \A e \in 1 .. i : e \in Id /\ JobOf(e)
  BY <1>0, <1>1 DEF SerialAt, TypeOK
<1>3. ASSUME jobs[i] # "none"
      PROVE  /\ Admissible(i)
             /\ ~\E e \in 1 .. i - 1 : Admissible(e) /\ SameMessage(e, i)
  <2>1. Admissible(i)
    BY <1>2, <1>3 DEF JobOf, Right
  <2>2. ASSUME NEW e \in 1 .. i - 1, Admissible(e), SameMessage(e, i)
        PROVE  FALSE
    <3>1. e \in 1 .. i
      BY <1>1
    <3>2. PICK f \in 1 .. e : jobs[f] # "none" /\ SameMessage(f, e)
      BY <1>2, <2>2, <3>1 DEF JobOf
    <3>3. f \in Id /\ f # i /\ SameMessage(f, i)
      BY <1>1, <1>2, <2>2, <3>2 DEF SameMessage
    <3> QED
      BY <1>0, <1>2, <1>3, <3>2, <3>3 DEF JobUnique
  <2> QED
    BY <2>1, <2>2
<1>4. ASSUME Admissible(i), ~\E e \in 1 .. i - 1 : Admissible(e) /\ SameMessage(e, i)
      PROVE  jobs[i] # "none"
  <2>1. PICK e \in 1 .. i : jobs[e] # "none" /\ SameMessage(e, i)
    BY <1>2, <1>4 DEF JobOf
  <2>2. Admissible(e)
    BY <1>2, <2>1 DEF JobOf, Right
  <2>3. e = i
    BY <1>1, <1>4, <2>1, <2>2
  <2> QED
    BY <2>1, <2>3
<1>5. jobs[i] # "none" =>
        \E p \in Preset : Chosen(i - 1, inbox[i].user, p) /\ jobs[i] = ResolvePreset(p, inbox[i])
  BY <1>2 DEF JobOf, Right
<1> QED
  BY <1>3, <1>4, <1>5

LEMMA Invariant == Spec => [](IInv /\ FoundedInv /\ SerialInv)
<1>1. Init => IInv /\ FoundedInv /\ SerialInv
  BY InitInvariant, FoundedInit, SerialInit
<1>2. IInv /\ [Next]_vars => IInv'
  BY TypeInvariant, TablesInvariant, LoopInvariant DEF IInv
<1>3. IInv /\ FoundedInv /\ SerialInv /\ [Next]_vars => IInv' /\ FoundedInv' /\ SerialInv'
  BY <1>2, FoundedNext, SerialInvariant
<1> QED
  BY <1>1, <1>3, PTL DEF Spec

(* The tables are always well formed. *)
THEOREM TypeCorrect == Spec => []TypeOK
<1>1. IInv => TypeOK
  BY DEF IInv
<1> QED
  BY <1>1, Invariant, PTL

(* Updates are handled one after the other and a job exists only for a     *)
(* handled one, whatever connections are lost.                             *)
THEOREM OrderSafety == Spec => []HandledInOrder
<1>1. IInv => HandledInOrder
  <2> SUFFICES ASSUME IInv
               PROVE  HandledInOrder
    OBVIOUS
  <2>1. PICK n \in 0 .. Len(inbox) : handled = 1 .. n
    BY DEF IInv, TablesInv
  <2>2. Len(inbox) \in Nat
    BY DEF IInv, TypeOK
  <2>3. \A i \in handled : 1 .. i \subseteq handled
    BY <2>1, <2>2
  <2> QED
    BY <2>3 DEF IInv, TablesInv, HandledInOrder
<1> QED
  BY <1>1, Invariant, PTL

(* Whatever connections are lost, a job that is inserted never changes; it *)
(* comes with the mark of its update, to a message without a job, with a   *)
(* preset and a membership that earlier updates made.                      *)
THEOREM JobSafety == Spec => JobsStand
<1> DEFINE Stands(i) ==
      jobs'[i] # jobs[i] =>
        /\ jobs[i] = "none"
        /\ i \in handled' \ handled
        /\ Founded(i, jobs'[i])
        /\ \A e \in Id : jobs[e] # "none" => ~SameMessage(e, i)
<1>1. ASSUME IInv, FoundedInv, Next, NEW i \in Id
      PROVE  Stands(i)
  <2>0. TypeOK /\ TablesInv /\ \A l \in Loop : LoopInv(l)
    BY <1>1 DEF IInv
  <2>1. ASSUME NEW l \in Loop, Commit(l), jobs'[i] # jobs[i]
        PROVE  Stands(i)
    <3>1. i = update[l] /\ verdict[l] # "none" /\ ~HasJob(i) /\ jobs'[i] = verdict[l]
      BY <2>0, <2>1 DEF Commit, TypeOK
    <3>2. jobs[i] = "none"
      BY <2>0, <2>1, <3>1, CommitNext
    <3>3. i \in handled' \ handled
      BY <2>0, <2>1, <3>1 DEF Commit, AtStore, LoopInv
    <3>4. Founded(i, jobs'[i])
      BY <1>1, <2>1, <3>1 DEF Commit, AtStore, FoundedInv, FoundedLoop
    <3> QED
      BY <3>1, <3>2, <3>3, <3>4 DEF HasJob
  <2>2. ASSUME NEW l \in Loop, LoopStep(l), ~Commit(l)
        PROVE  jobs' = jobs
    BY <2>2 DEF LoopStep, Take, Exists, Effect, GetPreset, Abandon, LoseConnection
  <2>3. ASSUME NEW u \in Content, Arrive(u)
        PROVE  jobs' = jobs
    BY <2>3 DEF Arrive
  <2> QED
    BY <1>1, <2>0, <2>1, <2>2, <2>3, StepClasses
<1>2. IInv /\ FoundedInv /\ [Next]_vars => [\A i \in Id : Stands(i)]_vars
  BY <1>1
<1> QED
  BY <1>2, Invariant, PTL DEF Spec, JobsStand

(* A handled cancellation has reached the job. *)
THEOREM CancelSafety == Spec => []CancelNotLost
<1>1. IInv => CancelNotLost
  BY DEF IInv
<1> QED
  BY <1>1, Invariant, PTL

(* As long as no iteration loses its connection, admission is as if the    *)
(* updates had been applied one after the other.                           *)
THEOREM SerialSafety == Spec => []SerialUnlessLost
  BY Invariant, SerialConclusion, PTL

----------------------------------------------------------------------------
(* Updates are applied as if each were one step. *)

(* The settings that SerialInbox has when the updates up to n are applied. *)
SettledSoFar ==
  \A n \in 0 .. Len(inbox) : handled = 1 .. n =>
    /\ Served = {c \in Group : Serves(n, c)}
    /\ ChosenSoFar = {c \in User \X Preset : Chosen(n, c[1], c[2])}

LEMMA SettledNow == TypeOK => SettledSoFar
<1> SUFFICES ASSUME TypeOK, NEW n \in 0 .. Len(inbox), handled = 1 .. n
             PROVE  /\ Served = {c \in Group : Serves(n, c)}
                    /\ ChosenSoFar = {c \in User \X Preset : Chosen(n, c[1], c[2])}
  BY DEF SettledSoFar
<1>1. ASSUME NEW m \in 0 .. Len(inbox), HandledUpTo(m)
      PROVE  m = n
  <2>1. Len(inbox) \in Nat /\ 1 .. m = 1 .. n
    BY <1>1 DEF TypeOK, HandledUpTo
  <2>2. m \in 1 .. m \/ m = 0
    BY <2>1
  <2>3. n \in 1 .. n \/ n = 0
    BY <2>1
  <2> QED
    BY <2>1, <2>2, <2>3
<1>2. HandledUpTo(n)
  BY DEF HandledUpTo
<1>3. Served = {c \in Group : Serves(n, c)}
  BY <1>1, <1>2 DEF Served
<1>4. ChosenSoFar = {c \in User \X Preset : Chosen(n, c[1], c[2])}
  BY <1>1, <1>2 DEF ChosenSoFar
<1> QED
  BY <1>3, <1>4

LEMMA SettledNext == TypeOK' => SettledSoFar'
  BY SettledNow, PTL

(* The last choice of a user is the one that counts. *)
LEMMA ChosenLast ==
  ASSUME NEW n \in Nat, NEW u, NEW p, Chooses(n + 1, u), Chosen(n + 1, u, p)
  PROVE  p = inbox[n + 1].preset
<1>1. n + 1 \in 1 .. n + 1
  OBVIOUS
<1>2. PICK i \in 1 .. n + 1 : /\ Chooses(i, u) /\ inbox[i].preset = p
                              /\ \A k \in i + 1 .. n + 1 : ~Chooses(k, u)
  BY <1>1 DEF Chosen
<1>3. CASE i < n + 1
  <2>1. n + 1 \in i + 1 .. n + 1
    BY <1>3
  <2> QED
    BY <1>2, <2>1
<1>4. CASE i = n + 1
  BY <1>2, <1>4
<1> QED
  BY <1>3, <1>4

(* What leaves inbox, marks and jobs alone cannot be seen. *)
LEMMA Unseen ==
  ASSUME UNCHANGED <<inbox, handled, jobs>>
  PROVE  UNCHANGED Serial!vars
<1>1. \A n, c : Serves(n, c)' <=> Serves(n, c)
  BY DEF Serves, Settles, IsMessage
<1>2. \A n, u, p : Chosen(n, u, p)' <=> Chosen(n, u, p)
  BY DEF Chosen, Chooses
<1>3. \A n : HandledUpTo(n)' <=> HandledUpTo(n)
  BY DEF HandledUpTo
<1>4. Served' = Served
  BY <1>1, <1>3 DEF Served
<1>5. ChosenSoFar' = ChosenSoFar
  BY <1>2, <1>3 DEF ChosenSoFar
<1> QED
  BY <1>4, <1>5 DEF Serial!vars

(* A stored update changes no setting before it is applied. *)
LEMMA StoreAllowed ==
  ASSUME IInv, TypeOK', NEW u \in Content, Arrive(u)
  PROVE  Serial!Store(u)
<1>0. TypeOK /\ Len(inbox) \in Nat
  BY DEF IInv, TypeOK
<1>1. PICK n \in 0 .. Len(inbox) : handled = 1 .. n
  BY DEF IInv, TablesInv
<1>2. /\ UNCHANGED <<handled, jobs>> /\ inbox' = Append(inbox, u)
      /\ \A i \in 1 .. n : inbox'[i] = inbox[i]
      /\ n \in 0 .. Len(inbox')
  BY <1>0, InboxGrows DEF Arrive, Stored
<1>3. /\ \A c : Serves(n, c)' <=> Serves(n, c)
      /\ \A v, p : Chosen(n, v, p)' <=> Chosen(n, v, p)
  <2>1. n \in Nat /\ n \in 0 .. n
    BY <1>0
  <2> QED
    BY <1>2, <2>1, SamePrefix
<1>4. /\ Served = {c \in Group : Serves(n, c)}
      /\ ChosenSoFar = {c \in User \X Preset : Chosen(n, c[1], c[2])}
  BY <1>0, <1>1, SettledNow DEF SettledSoFar
<1>5. /\ Served' = {c \in Group : Serves(n, c)'}
      /\ ChosenSoFar' = {c \in User \X Preset : Chosen(n, c[1], c[2])'}
  BY <1>1, <1>2, SettledNext DEF SettledSoFar
<1> QED
  BY <1>2, <1>3, <1>4, <1>5 DEF Serial!Store

(* The commit is the step in which an update takes effect. *)
LEMMA ApplyAllowed ==
  ASSUME IInv, SerialInv, ~lost, TypeOK', NEW l \in Loop, Commit(l),
         NEW n \in Nat, update[l] = n + 1
  PROVE  Serial!Apply(n + 1)
<1>0. TypeOK /\ TablesInv /\ Len(inbox) \in Nat /\ LoopInv(l)
  BY DEF IInv, TypeOK
<1> DEFINE i == n + 1
           u == inbox[i]
<1>1. /\ i \in Stored /\ handled = 1 .. n /\ handled' = 1 .. i
      /\ jobs[i] = "none" /\ inbox' = inbox
  BY <1>0, CommitNext
<1>2. /\ n \in 0 .. Len(inbox) /\ n \in Nat /\ n + 1 = i /\ i \in Id
      /\ i \in 0 .. Len(inbox) /\ u \in Content
  BY <1>0, <1>1 DEF TypeOK, Stored
<1>3. Right(i, verdict[l])
  <2>1. SerialAt(n)
    BY <1>1, <1>2 DEF SerialInv
  <2> QED
    BY <1>2, <2>1 DEF SerialAt, SerialLoop, Commit, AtStore
<1>4. /\ Served = {c \in Group : Serves(n, c)}
      /\ ChosenSoFar = {c \in User \X Preset : Chosen(n, c[1], c[2])}
  BY <1>0, <1>1, <1>2, SettledNow DEF SettledSoFar
<1>5. /\ Served' = {c \in Group : Serves(i, c)}
      /\ ChosenSoFar' = {c \in User \X Preset : Chosen(i, c[1], c[2])}
  <2>1. /\ Served' = {c \in Group : Serves(i, c)'}
        /\ ChosenSoFar' = {c \in User \X Preset : Chosen(i, c[1], c[2])'}
    BY <1>1, <1>2, SettledNext DEF SettledSoFar
  <2>2. /\ \A c : Serves(i, c)' <=> Serves(i, c)
        /\ \A v, p : Chosen(i, v, p)' <=> Chosen(i, v, p)
    <3>1. i \in Nat /\ i \in 0 .. i
      BY <1>2
    <3> QED
      BY <1>1, <3>1, SamePrefix
  <2> QED
    BY <2>1, <2>2
<1>6. u.kind \in {"joined", "left", "preset", "cancel", "text", "media"}
  BY <1>2, ContentFields
<1>7. Served' = Serial!ServedAfter(u)
  <2>1. \A c : Serves(i, c) <=> IF Settles(i, c) THEN u.kind # "left" ELSE Serves(n, c)
    BY <1>2, ServesNext
  <2> QED
    BY <1>4, <1>5, <1>6, <2>1 DEF Serial!ServedAfter, Settles, IsMessage
<1>8. ChosenSoFar' = Serial!ChosenAfter(u)
  <2>1. CASE u.kind # "preset"
    <3>1. \A v, p : Chosen(i, v, p) <=> Chosen(n, v, p)
      BY <1>2, <2>1, ChosenNext DEF Chooses
    <3> QED
      BY <1>4, <1>5, <2>1, <3>1 DEF Serial!ChosenAfter
  <2>2. CASE u.kind = "preset"
    <3>1. u.user \in User /\ u.preset \in Preset
      BY <1>2, <2>2, ContentFields
    <3>2. \A v, p : v # u.user => (Chosen(i, v, p) <=> Chosen(n, v, p))
      BY <1>2, ChosenNext DEF Chooses
    <3>3. \A p : Chosen(i, u.user, p) <=> p = u.preset
      <4>1. Chooses(i, u.user)
        BY <2>2 DEF Chooses
      <4> QED
        BY <4>1, ChosenNext, ChosenLast
    <3> QED
      BY <1>4, <1>5, <2>2, <3>1, <3>2, <3>3 DEF Serial!ChosenAfter
  <2> QED
    BY <2>1, <2>2
<1>9. Serial!Welcome(i) <=> Admissible(i) /\ ~HasJob(i)
  <2>1. DOMAIN jobs = Id
    BY <1>0 DEF TypeOK
  <2>2. Serves(n, u.chat) => u.chat \in Group
    BY DEF Serves, Settles
  <2> QED
    BY <1>4, <2>1, <2>2 DEF Serial!Welcome, Admissible, HasJob, SameMessage
<1>10. jobs' = [jobs EXCEPT ![i] = IF verdict[l] # "none" /\ ~HasJob(i) THEN verdict[l] ELSE @]
  BY DEF Commit
<1>11. CASE Serial!Welcome(i)
  <2>1. verdict[l] # "none" /\ u.user \in User
    BY <1>2, <1>3, <1>9, <1>11, ContentFields DEF Right, Admissible
  <2>2. PICK p \in Preset : Chosen(n, u.user, p) /\ verdict[l] = ResolvePreset(p, u)
    BY <1>3, <2>1 DEF Right
  <2>3. <<u.user, p>> \in ChosenSoFar
    BY <1>4, <2>1, <2>2
  <2>4. jobs' = [jobs EXCEPT ![i] = Serial!PresetOf(u, p)]
    BY <1>9, <1>10, <1>11, <2>1, <2>2 DEF Serial!PresetOf, ResolvePreset
  <2>5. \E c \in ChosenSoFar :
          c[1] = u.user /\ jobs' = [jobs EXCEPT ![i] = Serial!PresetOf(u, c[2])]
    BY <2>3, <2>4
  <2> QED
    <3>1. i \in 1 .. Len(inbox) /\ handled = 1 .. i - 1
      BY <1>1, <1>2 DEF Stored
    <3> QED
      BY <1>1, <1>7, <1>8, <1>11, <2>5, <3>1, Zenon DEF Serial!Apply
<1>12. CASE ~Serial!Welcome(i)
  <2>1. verdict[l] = "none" \/ HasJob(i)
    BY <1>3, <1>9, <1>12 DEF Right
  <2>2. jobs' = jobs
    BY <1>0, <1>10, <2>1 DEF TypeOK
  <2> QED
    BY <1>1, <1>2, <1>7, <1>8, <1>12, <2>2 DEF Serial!Apply, Stored
<1> QED
  BY <1>11, <1>12

LEMMA SerialStep ==
  IInv /\ SerialInv /\ TypeOK' /\ [Next]_vars => (~lost' => [Serial!Next]_(Serial!vars))
<1> SUFFICES ASSUME IInv, SerialInv, TypeOK', [Next]_vars, ~lost'
             PROVE  Serial!Next \/ UNCHANGED Serial!vars
  OBVIOUS
<1>0. TypeOK
  BY DEF IInv
<1>1. ASSUME NEW l \in Loop, Commit(l)
      PROVE  Serial!Next
  <2>1. ~lost /\ update[l] \in 1 .. Len(inbox) /\ Len(inbox) \in Nat
    BY <1>0, <1>1, CommitNext DEF IInv, Stored, TypeOK
  <2>2. PICK n \in Nat : update[l] = n + 1 /\ n + 1 \in 1 .. Len(inbox)
    <3>1. update[l] - 1 \in Nat /\ update[l] = (update[l] - 1) + 1
      BY <2>1
    <3> QED
      BY <2>1, <3>1
  <2>3. Serial!Apply(n + 1)
    BY <1>1, <2>1, <2>2, ApplyAllowed
  <2> QED
    BY <2>2, <2>3 DEF Serial!Next
<1>2. ASSUME NEW l \in Loop, LoopStep(l), ~Commit(l)
      PROVE  UNCHANGED Serial!vars
  <2>1. UNCHANGED <<inbox, handled, jobs>>
    BY <1>2 DEF LoopStep, Take, Exists, Effect, GetPreset, Abandon, LoseConnection
  <2> QED
    BY <2>1, Unseen
<1>3. ASSUME NEW u \in Content, Arrive(u)
      PROVE  Serial!Next
  <2>1. Serial!Store(u)
    BY <1>3, StoreAllowed
  <2> QED
    BY <2>1 DEF Serial!Next
<1>4. CASE UNCHANGED vars
  BY <1>4, Unseen
<1> QED
  BY <1>0, <1>1, <1>2, <1>3, <1>4, StepClasses

LEMMA SerialStart == Init => Serial!Init
<1> SUFFICES ASSUME Init
             PROVE  Serial!Init
  OBVIOUS
<1>1. /\ inbox = <<>> /\ handled = {} /\ Len(inbox) = 0 /\ 0 .. Len(inbox) = {0}
      /\ handled = 1 .. 0
  BY DEF Init
<1>2. TypeOK
  BY InitInvariant DEF IInv
<1>3. /\ Served = {c \in Group : Serves(0, c)}
      /\ ChosenSoFar = {c \in User \X Preset : Chosen(0, c[1], c[2])}
  BY <1>1, <1>2, SettledNow DEF SettledSoFar
<1>4. Served = {}
  BY <1>3 DEF Serves
<1>5. ChosenSoFar = User \X {"auto"}
  BY <1>3 DEF Chosen, Preset
<1>6. \A i \in DOMAIN jobs : jobs[i] = "none"
  BY DEF Init
<1> QED
  BY <1>1, <1>4, <1>5, <1>6 DEF Serial!Init

(* Admission implements SerialInbox until the first connection is lost:    *)
(* through any interleaving of loops, crashes, and statements that fail or *)
(* are repeated, every update takes effect in one step and in its turn.    *)
THEOREM AdmissionAppliesInOrder == Spec => AppliesInOrder
<1>1. IInv => TypeOK
  BY DEF IInv
<1>2. IInv /\ SerialInv /\ TypeOK' /\ [Next]_vars =>
        [~lost' => [Serial!Next]_(Serial!vars)]_vars
  BY SerialStep
<1> QED
  BY <1>1, <1>2, SerialStart, Invariant, PTL DEF Spec, AppliesInOrder
=============================================================================

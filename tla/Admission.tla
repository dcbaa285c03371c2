----------------------------- MODULE Admission -----------------------------
(***************************************************************************)
(* What becomes of stored updates: inboxLoop and acceptUpdate of           *)
(* bot/bot/durable.go over ProcessInbox of bot/store/durable.go.           *)
(*                                                                         *)
(* One iteration at a time owns the inbox lock.  It takes the first update *)
(* not handled yet and applies it: memberships, presets and cancellations  *)
(* are written through the connection pool, the job and the handled mark   *)
(* in one transaction of the connection that owns the lock.  An iteration  *)
(* whose connection is lost goes on to write through the pool.             *)
(***************************************************************************)
EXTENDS Integers, Sequences

CONSTANTS
  User,        \* users
  Root,        \* the owner of the bot
  Group,       \* group chats
  Chat,        \* all chats, the private ones too
  Content,     \* what an update may hold
  Loop,        \* iterations of inbox loops that may run at the same time
  NoLoop,      \* the holder of a free inbox lock
  FaultKinds,  \* the kinds of faults that may happen
  MaxUpdates,  \* bound: how many updates are stored
  MaxFaults    \* bound: how many faults happen

Preset == {"auto", "voice", "lecture", "meeting"}
Resolved == Preset \ {"auto"}

(* An update, as far as admission tells updates apart. "media" is a message *)
(* with a file the bot transcribes in that chat, detected is the preset its *)
(* kind and length suggest; "text" is any other message, commands too.      *)
Update ==
  [kind : {"joined", "left"}, chat : Chat]
    \cup [kind : {"preset"}, user : User, preset : Preset]
    \cup [kind : {"cancel"}, user : User, chat : Chat, job : Nat \ {0}]
    \cup [kind : {"text"}, user : User, chat : Chat]
    \cup [kind : {"media"}, user : User, chat : Chat, message : Nat,
          detected : {"voice", "lecture"}]

ASSUME AdmissionAssumption ==
  /\ Root \in User
  /\ Group \subseteq Chat
  /\ Content \subseteq Update
  /\ NoLoop \notin Loop
  /\ FaultKinds \subseteq {"store", "crash", "loss"}
  /\ MaxUpdates \in Nat
  /\ MaxFaults \in Nat

NoUpdate == 0
Id == 1 .. MaxUpdates

(* The statements that run through the pool. *)
PoolPc == {"exists", "add", "remove", "set_preset", "request_cancel", "get_preset"}

VARIABLES
  (* the database *)
  inbox,     \* the stored updates, by id; kept here after they are handled
  handled,   \* the ids of the handled ones
  members,   \* the table chats
  presets,   \* the table bot_presets
  jobs,      \* the preset of the job of each update, "none" without a job
  asked,     \* the jobs job_cancel.sql has been run for
  lock,      \* the iteration whose session owns the inbox lock
  (* the iterations *)
  pc,        \* the statement an iteration runs next; "idle" without an update
  update,    \* the update it works on
  verdict,   \* the preset of the job it will insert, "none" without a job
  lost,      \* some iteration has lost its connection: a history variable
  faults     \* how many faults have happened

settingVars == <<members, presets, asked>>
localVars == <<pc, update, verdict>>
vars == <<inbox, handled, jobs, settingVars, lock, localVars, lost, faults>>

TypeOK ==
  /\ inbox \in Seq(Content)
  /\ Len(inbox) <= MaxUpdates
  /\ handled \subseteq 1 .. Len(inbox)
  /\ members \subseteq Group
  /\ presets \in [User -> Preset]
  /\ jobs \in [Id -> Resolved \cup {"none"}]
  /\ asked \subseteq Id
  /\ lock \in Loop \cup {NoLoop}
  /\ pc \in [Loop -> {"idle", "commit"} \cup PoolPc]
  /\ update \in [Loop -> Id \cup {NoUpdate}]
  /\ verdict \in [Loop -> Resolved \cup {"none"}]
  /\ lost \in BOOLEAN
  /\ faults \in 0 .. MaxFaults

Init ==
  /\ inbox = <<>>
  /\ handled = {}
  /\ members = {}
  /\ presets = [u \in User |-> "auto"]
  /\ jobs = [i \in Id |-> "none"]
  /\ asked = {}
  /\ lock = NoLoop
  /\ pc = [l \in Loop |-> "idle"]
  /\ update = [l \in Loop |-> NoUpdate]
  /\ verdict = [l \in Loop |-> "none"]
  /\ lost = FALSE
  /\ faults = 0

----------------------------------------------------------------------------
IsMessage(u) == u.kind \in {"text", "media"}

(* Where acceptUpdate goes first, by what the update is. *)
FirstPc(u) ==
  CASE u.kind = "cancel" -> IF u.user = Root THEN "request_cancel" ELSE "commit"
    [] u.kind = "preset" -> "set_preset"
    [] u.kind = "joined" -> IF u.chat \in Group THEN "add" ELSE "commit"
    [] u.kind = "left" -> IF u.chat \in Group THEN "remove" ELSE "commit"
    [] OTHER -> IF u.chat \in Group THEN "exists"
                ELSE IF u.user = Root THEN "get_preset" ELSE "commit"

(* Mutant of IsNext: inbox_next.sql without its ORDER BY. *)
IsNextUnordered(i) == i \in 1 .. Len(inbox) /\ i \notin handled

(* inbox_next.sql *)
IsNext(i) ==
  /\ i \in 1 .. Len(inbox)
  /\ i \notin handled
  /\ \A e \in 1 .. i - 1 : e \in handled

LockFree == lock = NoLoop

Take(l, i) ==
  /\ pc[l] = "idle"
  /\ LockFree
  /\ IsNext(i)
  /\ lock' = l
  /\ pc' = [pc EXCEPT ![l] = FirstPc(inbox[i])]
  /\ update' = [update EXCEPT ![l] = i]
  /\ UNCHANGED <<inbox, handled, jobs, settingVars, verdict, lost, faults>>

(* The update the iteration works on. *)
Current(l) == inbox[update[l]]

Goto(l, where) ==
  /\ pc' = [pc EXCEPT ![l] = where]
  /\ UNCHANGED <<update, verdict>>

(* Mutant of Finish: an iteration returns without its deferred unlock. *)
FinishLeaks(l) ==
  /\ pc' = [pc EXCEPT ![l] = "idle"]
  /\ update' = [update EXCEPT ![l] = NoUpdate]
  /\ verdict' = [verdict EXCEPT ![l] = "none"]
  /\ UNCHANGED lock

(* unlock: a session can only give up a lock it still owns. *)
Finish(l) ==
  /\ pc' = [pc EXCEPT ![l] = "idle"]
  /\ update' = [update EXCEPT ![l] = NoUpdate]
  /\ verdict' = [verdict EXCEPT ![l] = "none"]
  /\ lock' = IF lock = l THEN NoLoop ELSE lock

(* Mutant of AfterExists: everybody may use the bot in a group. *)
AfterExistsOpen(u) == "get_preset"

(* A message in a group is let through in a known group; the owner's makes *)
(* the group known.                                                        *)
AfterExists(u) ==
  CASE u.chat \in members -> "get_preset"
    [] u.chat \notin members /\ u.user = Root -> "add"
    [] OTHER -> "commit"

Exists(l) ==
  /\ pc[l] = "exists"
  /\ Goto(l, AfterExists(Current(l)))
  /\ UNCHANGED <<inbox, handled, jobs, settingVars, lock, lost, faults>>

(* What the statements through the pool do, whoever owns the lock. *)
AddChat(l) == members' = members \cup {Current(l).chat} /\ UNCHANGED <<presets, asked>>
RemoveChat(l) == members' = members \ {Current(l).chat} /\ UNCHANGED <<presets, asked>>
StorePreset(l) ==
  /\ presets' = [presets EXCEPT ![Current(l).user] = Current(l).preset]
  /\ UNCHANGED <<members, asked>>

(* job_cancel.sql finds a job by its id and chat; what it does with it is  *)
(* in DurableJobs.                                                         *)
AskCancel(l) ==
  /\ asked' = asked \cup {j \in {Current(l).job} \cap Id :
                            jobs[j] # "none" /\ inbox[j].chat = Current(l).chat}
  /\ UNCHANGED <<members, presets>>

Add(l) ==
  /\ pc[l] = "add"
  /\ AddChat(l)
  /\ Goto(l, IF IsMessage(Current(l)) THEN "get_preset" ELSE "commit")
  /\ UNCHANGED <<inbox, handled, jobs, lock, lost, faults>>

Remove(l) ==
  /\ pc[l] = "remove"
  /\ RemoveChat(l)
  /\ Goto(l, "commit")
  /\ UNCHANGED <<inbox, handled, jobs, lock, lost, faults>>

SetPreset(l) ==
  /\ pc[l] = "set_preset"
  /\ StorePreset(l)
  /\ Goto(l, "commit")
  /\ UNCHANGED <<inbox, handled, jobs, lock, lost, faults>>

RequestCancel(l) ==
  /\ pc[l] = "request_cancel"
  /\ AskCancel(l)
  /\ Goto(l, "commit")
  /\ UNCHANGED <<inbox, handled, jobs, lock, lost, faults>>

(* Mutant of ResolvePreset: "auto" is stored in the job. *)
ResolvePresetLate(p, u) == p

ResolvePreset(p, u) == IF p # "auto" THEN p ELSE u.detected

(* Only media become jobs. *)
GetPreset(l) ==
  /\ pc[l] = "get_preset"
  /\ verdict' = [verdict EXCEPT ![l] =
                   IF Current(l).kind = "media"
                   THEN ResolvePreset(presets[Current(l).user], Current(l)) ELSE "none"]
  /\ pc' = [pc EXCEPT ![l] = "commit"]
  /\ UNCHANGED <<inbox, handled, jobs, settingVars, lock, update, lost, faults>>

SameMessage(i, j) ==
  inbox[i].chat = inbox[j].chat /\ inbox[i].message = inbox[j].message

(* job_insert.sql: a message that has a job does not get a second one. *)
HasJob(i) == \E e \in Id : jobs[e] # "none" /\ SameMessage(e, i)

(* Mutant of AtStore: any connection of the pool will do. *)
AtStoreUnfenced(l, where) == pc[l] = where

(* A statement of l on the connection that owns the lock. *)
AtStore(l, where) == pc[l] = where /\ lock = l

Commit(l) ==
  /\ AtStore(l, "commit")
  /\ jobs' = [jobs EXCEPT ![update[l]] =
                IF verdict[l] # "none" /\ ~HasJob(update[l]) THEN verdict[l] ELSE @]
  /\ handled' = handled \cup {update[l]}
  /\ Finish(l)
  /\ UNCHANGED <<inbox, settingVars, lost, faults>>

FencedOut(l) ==
  /\ pc[l] = "commit"
  /\ lock # l
  /\ Finish(l)
  /\ UNCHANGED <<inbox, handled, jobs, settingVars, lost, faults>>

----------------------------------------------------------------------------
Fault(kind) ==
  /\ kind \in FaultKinds
  /\ faults < MaxFaults
  /\ faults' = faults + 1

TakesEffect(l) ==
  \/ pc[l] = "add" /\ AddChat(l)
  \/ pc[l] = "remove" /\ RemoveChat(l)
  \/ pc[l] = "set_preset" /\ StorePreset(l)
  \/ pc[l] = "request_cancel" /\ AskCancel(l)

(* Mutant of AfterFailure: the error of a statement is only logged. *)
AfterFailureIgnored(l) == Goto(l, "commit") /\ UNCHANGED lock

(* An error ends the iteration; the update stays first in line. *)
AfterFailure(l) == Finish(l)

(* A statement fails, or takes effect and its answer is lost (for the last *)
(* transaction that is Commit: its iteration ends either way).             *)
StoreFails(l) ==
  /\ pc[l] # "idle"
  /\ Fault("store")
  /\ TakesEffect(l) \/ UNCHANGED settingVars
  /\ AfterFailure(l)
  /\ UNCHANGED <<inbox, handled, jobs, lost>>

(* The process dies or shuts down. *)
Crash(l) ==
  /\ pc[l] # "idle"
  /\ Fault("crash")
  /\ TakesEffect(l) \/ UNCHANGED settingVars
  /\ Finish(l)
  /\ UNCHANGED <<inbox, handled, jobs, lost>>

(* The server ends the session and releases its lock; l does not notice. *)
LoseConnection(l) ==
  /\ lock = l
  /\ Fault("loss")
  /\ lock' = NoLoop
  /\ lost' = TRUE
  /\ UNCHANGED <<inbox, handled, jobs, settingVars, localVars>>

(* The intake stores an update.  A cancel button names a job that exists. *)
Arrive(u) ==
  /\ Len(inbox) < MaxUpdates
  /\ u.kind = "cancel" => u.job \in Id /\ jobs[u.job] # "none"
  /\ inbox' = Append(inbox, u)
  /\ UNCHANGED <<handled, jobs, settingVars, lock, localVars, lost, faults>>

(* Everything is handled: the loops keep asking. *)
Quiescent ==
  /\ handled = Id
  /\ \A l \in Loop : pc[l] = "idle"
  /\ UNCHANGED vars

----------------------------------------------------------------------------
Iterate(l) ==
  \/ \E i \in Id : Take(l, i)
  \/ Exists(l) \/ Add(l) \/ Remove(l) \/ SetPreset(l) \/ RequestCancel(l)
  \/ GetPreset(l) \/ Commit(l) \/ FencedOut(l)

Disturb(l) == StoreFails(l) \/ Crash(l) \/ LoseConnection(l)

Next ==
  \/ \E l \in Loop : Iterate(l) \/ Disturb(l)
  \/ \E u \in Content : Arrive(u)
  \/ Quiescent

Spec == Init /\ [][Next]_vars

(* Every statement has a deadline, and a loop tries again every second. *)
LoopsRun == \A l \in Loop : WF_vars(Iterate(l))

FairSpec == Spec /\ LoopsRun

----------------------------------------------------------------------------
(* What the updates up to n say, applied one after the other. *)

(* Update i settles whether the bot serves group c. *)
Settles(i, c) ==
  /\ c \in Group
  /\ \/ inbox[i].kind \in {"joined", "left"} /\ inbox[i].chat = c
     \/ IsMessage(inbox[i]) /\ inbox[i].user = Root /\ inbox[i].chat = c

Serves(n, c) ==
  \E i \in 1 .. n : /\ Settles(i, c)
                     /\ inbox[i].kind # "left"
                     /\ \A k \in i + 1 .. n : ~Settles(k, c)

Chooses(i, u) == inbox[i].kind = "preset" /\ inbox[i].user = u

Chosen(n, u, p) ==
  \/ p = "auto" /\ \A i \in 1 .. n : ~Chooses(i, u)
  \/ \E i \in 1 .. n : /\ Chooses(i, u)
                        /\ inbox[i].preset = p
                        /\ \A k \in i + 1 .. n : ~Chooses(k, u)

Admissible(i) ==
  /\ inbox[i].kind = "media"
  /\ inbox[i].user = Root \/ Serves(i - 1, inbox[i].chat)

(* store/durable.go:134: admission, preferences and membership included, is *)
(* as if the updates had been applied one after the other: a message has a  *)
(* job when the bot served its chat by then, with the preset its user had   *)
(* chosen by then.                                                          *)
SerialAdmission ==
  \A i \in handled :
    /\ jobs[i] # "none" <=>
         /\ Admissible(i)
         /\ ~\E e \in 1 .. i - 1 : Admissible(e) /\ SameMessage(e, i)
    /\ jobs[i] # "none" =>
         \E p \in Preset : /\ Chosen(i - 1, inbox[i].user, p)
                            /\ jobs[i] = ResolvePreset(p, inbox[i])

(* It holds while no iteration loses its connection, through crashes and   *)
(* statements that fail or whose answer is lost.                           *)
SerialUnlessLost == ~lost => SerialAdmission

(* The same as steps: Admission implements SerialInbox, where an update is  *)
(* applied at once, with the settings that the handled updates amount to,  *)
(* until the first connection is lost.                                     *)
HandledUpTo(n) == n \in 0 .. Len(inbox) /\ handled = 1 .. n

Served == {c \in Group : \E n \in 0 .. Len(inbox) : HandledUpTo(n) /\ Serves(n, c)}

ChosenSoFar ==
  {c \in User \X Preset : \E n \in 0 .. Len(inbox) : HandledUpTo(n) /\ Chosen(n, c[1], c[2])}

Serial == INSTANCE SerialInbox WITH
  applied <- handled, serves <- Served, chosen <- ChosenSoFar

AppliesInOrder ==
  Serial!Init /\ [][~lost' => [Serial!Next]_(Serial!vars)]_vars

(* docs/durable-jobs.md, step 2: updates are handled in their order, and a *)
(* job exists only for a handled one, even if connections are lost.        *)
HandledInOrder ==
  /\ \A i \in handled : 1 .. i \subseteq handled
  /\ \A i \in Id : jobs[i] # "none" => i \in handled

(* The mark comes after the effect: a cancellation by the owner, in the    *)
(* chat of the job, has reached the table of jobs by the time its update   *)
(* counts as handled.                                                      *)
CancelNotLost ==
  \A i \in handled :
    inbox[i].kind = "cancel" /\ inbox[i].user = Root
      /\ inbox[inbox[i].job].chat = inbox[i].chat => inbox[i].job \in asked

(* What updates before i have made of the settings, at one time or another. *)
ServedBefore(i, c) == \E k \in 1 .. i - 1 : Settles(k, c) /\ inbox[k].kind # "left"

ChosenBefore(i, u, p) ==
  p = "auto" \/ \E k \in 1 .. i - 1 : Chooses(k, u) /\ inbox[k].preset = p

(* A reason for a job with preset r. *)
Founded(i, r) ==
  /\ inbox[i].kind = "media"
  /\ inbox[i].user = Root \/ ServedBefore(i, inbox[i].chat)
  /\ \E p \in Preset : /\ ChosenBefore(i, inbox[i].user, p)
                         /\ r = ResolvePreset(p, inbox[i])

(* docs/durable-jobs.md:11-14: even if connections are lost, a job that is  *)
(* inserted never changes.  It comes with the mark of its update and to a  *)
(* message without one, and rests on settings that earlier updates made: a *)
(* late write of a lost iteration may make them old, but nothing makes     *)
(* them up or takes them from updates to come.                             *)
JobsStand ==
  [][\A i \in Id : jobs'[i] # jobs[i] =>
       /\ jobs[i] = "none"
       /\ i \in handled' \ handled
       /\ Founded(i, jobs'[i])
       /\ \A e \in Id : jobs[e] # "none" => ~SameMessage(e, i)]_vars

(* No update stays first in line for ever. *)
EveryUpdateHandled == \A i \in Id : Len(inbox) >= i ~> i \in handled
=============================================================================

---------------------------- MODULE SerialInbox ----------------------------
(***************************************************************************)
(* What "serialized in update order" (store/durable.go:134) means: stored  *)
(* updates are applied one after the other, each in one step, its effect   *)
(* on the settings and its job together.  No loop, lock or statement       *)
(* appears.                                                                *)
(***************************************************************************)
EXTENDS Integers, Sequences

CONSTANTS
  User, Root, Group,
  Content    \* what an update may hold

VARIABLES
  inbox,     \* the stored updates
  applied,   \* the ids of those that have been applied
  serves,    \* the groups the bot serves
  chosen,    \* the preset of each user, as a set of pairs
  jobs       \* the preset of the job of each update, "none" without a job

vars == <<inbox, applied, serves, chosen, jobs>>

Init ==
  /\ inbox = <<>>
  /\ applied = {}
  /\ serves = {}
  /\ chosen = User \X {"auto"}
  /\ \A i \in DOMAIN jobs : jobs[i] = "none"

Store(u) ==
  /\ inbox' = Append(inbox, u)
  /\ UNCHANGED <<applied, serves, chosen, jobs>>

(* The groups that update u leaves served. *)
ServedAfter(u) ==
  CASE u.kind = "left" -> serves \ {u.chat}
    [] u.kind = "joined" \/ (u.kind \in {"text", "media"} /\ u.user = Root) ->
         serves \cup ({u.chat} \cap Group)
    [] OTHER -> serves

ChosenAfter(u) ==
  IF u.kind = "preset"
  THEN {c \in chosen : c[1] # u.user} \cup {<<u.user, u.preset>>}
  ELSE chosen

(* The bot transcribes the media of update i: it is the owner's or of a    *)
(* group the bot serves, and no job exists for the same message.           *)
Welcome(i) ==
  LET u == inbox[i]
  IN  /\ u.kind = "media"
      /\ u.user = Root \/ u.chat \in serves
      /\ \A e \in DOMAIN jobs :
           jobs[e] # "none" => inbox[e].chat # u.chat \/ inbox[e].message # u.message

(* The preset of the job: chosen by the user, or as the media suggests. *)
PresetOf(u, p) == IF p = "auto" THEN u.detected ELSE p

Apply(i) ==
  /\ i \in 1 .. Len(inbox)
  /\ applied = 1 .. i - 1
  /\ applied' = 1 .. i
  /\ serves' = ServedAfter(inbox[i])
  /\ chosen' = ChosenAfter(inbox[i])
  /\ IF Welcome(i)
     THEN \E c \in chosen :
            /\ c[1] = inbox[i].user
            /\ jobs' = [jobs EXCEPT ![i] = PresetOf(inbox[i], c[2])]
     ELSE jobs' = jobs
  /\ inbox' = inbox

Next ==
  \/ \E u \in Content : Store(u)
  \/ \E i \in 1 .. Len(inbox) : Apply(i)
=============================================================================

---------------------------- MODULE JobContract ----------------------------
(***************************************************************************)
(* What the bot promises for a transcription job, whatever happens to its  *)
(* processes, connections and calls: the promises of docs/durable-jobs.md  *)
(* that DurableJobs keeps.  No worker, lock or stage appears here.         *)
(***************************************************************************)
EXTENDS Integers

CONSTANTS
  Job,        \* jobs, in the order of their updates
  ChatOf,     \* the chat of each job
  Rejected,   \* the jobs whose media the backend refuses
  TextParts   \* the messages the text of each job is delivered in, by number

VARIABLES
  accepted,   \* the jobs taken on
  held,       \* what the backend has of each job
  verdict,    \* the outcome of each job, decided once
  shown,      \* the parts users may have seen
  confirmed,  \* the parts they have certainly been given
  finished    \* the jobs nothing is left to do for

vars == <<accepted, held, verdict, shown, confirmed, finished>>

Owed(j) == IF verdict[j] = "text" THEN TextParts[j] ELSE {0}

Init ==
  /\ accepted = {}
  /\ held = [j \in Job |-> "nothing"]
  /\ verdict = [j \in Job |-> "none"]
  /\ shown = [j \in Job |-> {}]
  /\ confirmed = [j \in Job |-> {}]
  /\ finished = {}

Accept(j) ==
  /\ j \notin accepted
  /\ \A e \in Job : e < j => e \in accepted
  /\ accepted' = accepted \cup {j}
  /\ UNCHANGED <<held, verdict, shown, confirmed, finished>>

(* The backend takes the media of a job, in the order of its chat. *)
Take(j) ==
  /\ j \in accepted
  /\ held[j] = "nothing"
  /\ verdict[j] = "none"
  /\ \A e \in Job :
       e < j /\ ChatOf[e] = ChatOf[j] => held[e] # "nothing" \/ verdict[e] # "none"
  /\ held' = [held EXCEPT ![j] = "kept"]
  /\ UNCHANGED <<accepted, verdict, shown, confirmed, finished>>

Lose(j) ==
  /\ held[j] = "kept"
  /\ held' = [held EXCEPT ![j] = "lost"]
  /\ UNCHANGED <<accepted, verdict, shown, confirmed, finished>>

(* The outcome is decided from what the backend still keeps of the job... *)
Decide(j, v) ==
  /\ j \in accepted
  /\ verdict[j] = "none"
  /\ CASE v = "invalid" -> j \in Rejected /\ held[j] = "nothing"
       [] v = "missing" -> held[j] = "lost"
       [] OTHER -> held[j] \in {"kept", "lost"}
  /\ verdict' = [verdict EXCEPT ![j] = v]
  /\ UNCHANGED <<accepted, held, shown, confirmed, finished>>

(* ... which it may drop only then. *)
Release(j) ==
  /\ verdict[j] # "none"
  /\ held[j] = "kept"
  /\ held' = [held EXCEPT ![j] = "released"]
  /\ UNCHANGED <<accepted, verdict, shown, confirmed, finished>>

(* A part may be shown again, never before the ones it follows. *)
Show(j, p) ==
  /\ verdict[j] # "none"
  /\ p \in Owed(j)
  /\ 0 .. (p - 1) \subseteq confirmed[j]
  /\ shown' = [shown EXCEPT ![j] = @ \cup {p}]
  /\ UNCHANGED <<accepted, held, verdict, confirmed, finished>>

Confirm(j, p) ==
  /\ p \in shown[j]
  /\ confirmed' = [confirmed EXCEPT ![j] = @ \cup {p}]
  /\ UNCHANGED <<accepted, held, verdict, shown, finished>>

Complete(j) ==
  /\ verdict[j] # "none"
  /\ confirmed[j] = Owed(j)
  /\ held[j] # "kept"
  /\ finished' = finished \cup {j}
  /\ UNCHANGED <<accepted, held, verdict, shown, confirmed>>

Next ==
  \E j \in Job :
    \/ Accept(j) \/ Take(j) \/ Lose(j) \/ Release(j) \/ Complete(j)
    \/ \E v \in {"text", "failed", "cancelled", "missing", "invalid"} : Decide(j, v)
    \/ \E p \in Owed(j) : Show(j, p) \/ Confirm(j, p)

Spec == Init /\ [][Next]_vars
=============================================================================

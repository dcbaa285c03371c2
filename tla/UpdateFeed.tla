----------------------------- MODULE UpdateFeed -----------------------------
(***************************************************************************)
(* What the intake promises: the updates Telegram has produced reach the   *)
(* inbox in their order and without gaps, each once, and Telegram is told  *)
(* to forget only those that are there.  No process or session appears.    *)
(***************************************************************************)
EXTENDS Integers

VARIABLES
  sent,       \* how many updates there have been so far
  inbox,      \* the ids of the stored updates
  forgotten   \* the updates with a smaller id will never be returned again

vars == <<sent, inbox, forgotten>>

Init == sent = 0 /\ inbox = {} /\ forgotten = 1

Arrive ==
  /\ sent' = sent + 1
  /\ UNCHANGED <<inbox, forgotten>>

(* All the updates up to n are stored, together. *)
Store(n) ==
  /\ n \in 1 .. sent
  /\ inbox \subseteq 1 .. n
  /\ inbox' = 1 .. n
  /\ UNCHANGED <<sent, forgotten>>

Forget(n) ==
  /\ n >= forgotten
  /\ 1 .. (n - 1) \subseteq inbox
  /\ forgotten' = n
  /\ UNCHANGED <<sent, inbox>>

Next ==
  \/ Arrive
  \/ \E n \in 1 .. sent : Store(n)
  \/ \E n \in 1 .. sent + 1 : Forget(n)

Spec == Init /\ [][Next]_vars
=============================================================================

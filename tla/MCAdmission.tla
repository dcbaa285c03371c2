---------------------------- MODULE MCAdmission ----------------------------
(***************************************************************************)
(* Instances of Admission for TLC: one group, the owner and a member.      *)
(***************************************************************************)
EXTENDS Admission

CONSTANTS member, group, private

Media(u, c, m, d) ==
  [kind |-> "media", user |-> u, chat |-> c, message |-> m, detected |-> d]

(* A member's voice message, sent twice in two updates; the owner's video;  *)
(* the group joined and left; a preset; a cancellation of the first job.    *)
MCContent ==
  {Media(member, group, 1, "voice"), Media(Root, private, 1, "lecture"),
   [kind |-> "text", user |-> Root, chat |-> group],
   [kind |-> "joined", chat |-> group], [kind |-> "left", chat |-> group],
   [kind |-> "preset", user |-> member, preset |-> "meeting"],
   [kind |-> "cancel", user |-> Root, chat |-> private, job |-> 1]}
=============================================================================

---------------------------- MODULE MCUploadStep ----------------------------
(* Values for TLC to check UploadStep with. *)
EXTENDS UploadStep

\* Nonsense, shorter than any backoff of many failures, longer, and longer than
\* the code accepts.
MCRetryAfters == {-1, 7, 600, 90000}
=============================================================================

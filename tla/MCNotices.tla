----------------------------- MODULE MCNotices -----------------------------
(* Notices with two users; liveness is checked, so that none are symmetric. *)
EXTENDS Notices, TLC
=============================================================================

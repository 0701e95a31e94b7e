----------------------------- MODULE MCInvitations -----------------------------
(* Invitations on small instances.                                           *)
EXTENDS Invitations, TLC

\* Slots and ids are interchangeable.
Symmetry == Permutations(Reqs) \cup Permutations(Invites) \cup Permutations(Links)
================================================================================

------------------------------ MODULE MCCardEdit ------------------------------
(* CardEdit on small instances.                                              *)
EXTENDS CardEdit, TLC

\* Slots are interchangeable.
Symmetry == Permutations(Reqs)
===============================================================================

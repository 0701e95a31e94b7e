---------------------------- MODULE MCSession ----------------------------
(* Session on small instances: the model values of the sets come from the   *)
(* cfg files, which also choose the bounds.                                  *)
EXTENDS Session, TLC

\* Token pairs, slots and reset tokens are interchangeable.
Symmetry == Permutations(Sess) \cup Permutations(Reqs) \cup Permutations(ResetTokens)
=============================================================================

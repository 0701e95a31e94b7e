------------------------ MODULE MCBoardMembership ------------------------
(* BoardMembership on small instances; the cfg files choose which methods    *)
(* are called, so that each run covers one group of them.                    *)
EXTENDS BoardMembership, TLC

\* Users, cards and slots are interchangeable.
Symmetry == Permutations(Users) \cup Permutations(Cards) \cup Permutations(Reqs)
=============================================================================

--------------------------- MODULE MCBoardContent ---------------------------
(* BoardContent with few rows of each kind; those of a focus are alike. *)
EXTENDS BoardContent, TLC

CONSTANTS b1, b2, u1, l1, l2, c1, c2, c3, g1, g2, g3, k1, m1, a1, o1

FiveFocuses == {{l1, l2, c1, c2, g1, g2},
                {l1, l2, c1, c2, u1},
                {b1, b2, l1, l2, c3, g3},
                {b1, b2, l1, l2, c3, k1, m1},
                {l1, l2, c3, a1, o1}}
Symmetry == Permutations(Reqs) \cup Permutations({b1, b2}) \cup Permutations({l1, l2})
              \cup Permutations({c1, c2}) \cup Permutations({g1, g2})
=============================================================================

------------------------------ MODULE MCOrdering ------------------------------
(* Ordering on small instances.                                              *)
EXTENDS Ordering

Symmetry == Permutations(Items) \cup Permutations(Shelves) \cup Permutations(Reqs)
===============================================================================

------------------------------ MODULE MCTemplates ------------------------------
(* Templates on small instances.  No symmetry: the run checks liveness.      *)
EXTENDS Templates, TLC
================================================================================

------------------------------- MODULE MCSockets -------------------------------
(* Sockets on small instances.                                               *)
EXTENDS Sockets, TLC

\* Sockets, users, sessions and slots are interchangeable.
Symmetry == Permutations(Reqs) \cup Permutations(SocketIds)
            \cup Permutations(Accounts) \cup Permutations(Sessions)
================================================================================

---------------------------- MODULE EditConflict ----------------------------
(***************************************************************************)
(* What the version number of a card promises to the people who edit it:   *)
(* an edit is accepted only if it was made on the latest content, and      *)
(* accepting it outdates every other edit that was made on that content.   *)
(* Card versions, requests and the database do not appear here.            *)
(***************************************************************************)
EXTENDS Naturals

CONSTANT Edits    \* edits that can be under way at the same time

VARIABLES
    basis,     \* what an edit under way was made on: "latest", "old";
               \* "none" when there is no such edit
    accepted   \* how many edits have been accepted

vars == <<basis, accepted>>

Outdated(e) == IF basis[e] = "latest" THEN "old" ELSE basis[e]

Init == basis = [e \in Edits |-> "none"] /\ accepted = 0

Submit(e) ==
    /\ basis[e] = "none"
    /\ \E b \in {"latest", "old"} : basis' = [basis EXCEPT ![e] = b]
    /\ UNCHANGED accepted

Accept(e) ==
    /\ basis[e] = "latest"
    /\ basis' = [d \in Edits |-> IF d = e THEN "none" ELSE Outdated(d)]
    /\ accepted' = accepted + 1

Refuse(e) ==
    /\ basis[e] # "none"
    /\ basis' = [basis EXCEPT ![e] = "none"]
    /\ UNCHANGED accepted

\* The card is deleted: there is no latest content any more.
Delete ==
    /\ basis' = [e \in Edits |-> Outdated(e)]
    /\ UNCHANGED accepted

Next == Delete \/ \E e \in Edits : Submit(e) \/ Accept(e) \/ Refuse(e)

Spec == Init /\ [][Next]_vars
=============================================================================

------------------------------ MODULE Ordering ------------------------------
(***************************************************************************)
(* The order of cards in lists and of lists on boards.  Both are kept the  *)
(* same way: an item has a shelf and a number, a shelf is shown sorted by  *)
(* number, and an operation reads the numbers around the place it wants    *)
(* and writes one of its own, in separate statements without a             *)
(* transaction.  The items are the cards of one board, with its lists as   *)
(* shelves, or the lists of some boards; `kind` says which, for a whole    *)
(* behaviour.                                                              *)
(*                                                                         *)
(* A number is a Float in the code.  Here it counts the smallest           *)
(* difference that is left between two numbers, so that half of an odd sum *)
(* is rounded; ORDER_STEP is Step of these units.                          *)
(***************************************************************************)
EXTENDS Integers, FiniteSets, SequencesExt

CONSTANTS
    Items, Shelves,
    Reqs,        \* slots for requests in flight
    Kinds,       \* which of "card" and "list" the items may be
    Step,        \* ORDER_STEP
    MaxOrder,    \* bound on the numbers when a request arrives: 0..MaxOrder
    Narrow,      \* bound: no request arrives while another one is outdated, or
                 \* after a careless write, when nothing is claimed any more
    None

ASSUME OrderingAssumption ==
    /\ IsFiniteSet(Items) /\ Kinds \subseteq {"card", "list"}
    /\ Step \in Nat \ {0} /\ MaxOrder \in Nat /\ Narrow \in BOOLEAN
    /\ None \notin Items /\ None \notin Shelves /\ None \notin Int
    /\ {"unborn", "deleted"} \cap Shelves = {}

VARIABLES
    kind,    \* what the items are
    shelf,   \* Card.listId or List.boardId; "unborn" before, "deleted" after
    order,   \* Card.order or List.order
    open,    \* the shelves that exist
    req,     \* the requests in flight, by slot
    tidy     \* history: every write so far was careful

rows == <<shelf, order, open>>
vars == <<kind, rows, req, tidy>>

----------------------------------------------------------------------------
(* Shelves and numbers                                                       *)

On(s) == {i \in Items : shelf[i] = s}

\* The number of the last and of the first of some items, as findFirst and
\* findMany find them: the only element of these sets, None without items.
LastOf(S) == IF S = {} THEN {None}
             ELSE {n \in {order[i] : i \in S} : \A i \in S : order[i] <= n}
FirstOf(S) == IF S = {} THEN {None}
              ELSE {n \in {order[i] : i \in S} : \A i \in S : n <= order[i]}

\* The number of a place after low and before high, either of which may be
\* None: at the end, at the start, in the middle, or alone.
NumberFor(low, high) ==
    IF low = None /\ high = None THEN Step
    ELSE IF high = None THEN low + Step
    ELSE IF low = None THEN high - Step
    ELSE (low + high) \div 2

\* Mutant: position is taken as an index.
Clamp_FromZero(position, n) == IF position > n THEN n ELSE position
\* position counts from 1; more than there is means the end.
Clamp(position, n) == IF position - 1 > n THEN n ELSE position - 1

----------------------------------------------------------------------------
(* Requests                                                                  *)

Ids == Items \cup {None}
Orders == Int \cup {None}
Request == [method: {"none", "create", "move", "place", "transfer", "copy", "pour"},
            at: {"idle", "before", "after", "readMany", "read", "write"},
            item: Ids, to: Shelves \cup {None}, from: Shelves \cup {None},
            before: Ids, after: Ids, low: Orders, number: Orders, top: BOOLEAN,
            position: Nat, many: Seq(Items), sound: BOOLEAN]
Idle == [method |-> "none", at |-> "idle", item |-> None, to |-> None, from |-> None,
         before |-> None, after |-> None, low |-> None, number |-> None, top |-> FALSE,
         position |-> 0, many |-> <<>>, sound |-> TRUE]

Free(r) == req[r] = Idle
At(r, methods, stage) == req[r].method \in methods /\ req[r].at = stage
Become(r, rec) == req' = [req EXCEPT ![r] = rec]
Finish(r) == Become(r, Idle)
ReadOnly == UNCHANGED <<kind, rows, tidy>>

\* The place is known, and whether there is a number left in it.
Computed(r, lows, highs) ==
    \E low \in lows, high \in highs :
        Become(r, [req[r] EXCEPT !.at = "write", !.low = None, !.number = NumberFor(low, high),
                       !.sound = @ /\ (low # None /\ high # None => high - low > 1)])

RoomForOrder == \A i \in Items : order[i] \in 0..MaxOrder
Arrive(r) ==
    /\ Free(r) /\ RoomForOrder /\ ReadOnly
    /\ Narrow => tidy /\ \A q \in Reqs : req[q].sound

----------------------------------------------------------------------------
(* Arrivals: what the request names exists.                                  *)

\* Only a card can be created at the top.
ArriveCreate(r) ==
    /\ Arrive(r) /\ On("unborn") # {}
    /\ \E s \in open, top \in BOOLEAN :
         /\ top => kind = "card"
         /\ Become(r, [Idle EXCEPT !.method = "create", !.at = "read", !.to = s, !.top = top])

\* A card may change its list; a list needs a neighbour.  That the item is its
\* own neighbour is refused.
ArriveMove(r) ==
    /\ Arrive(r)
    /\ \E i \in Items, s \in open, b, a \in Ids \ On("unborn") :
         /\ shelf[i] \in open /\ i \notin {b, a}
         /\ kind = "list" => s = shelf[i] /\ {b, a} # {None}
         /\ Become(r, [Idle EXCEPT !.method = "move", !.at = "before", !.item = i,
                           !.to = s, !.before = b, !.after = a])

\* ListsService.move by position, "place" on its board and "transfer"
\* (moveToOtherBoard) to another one.
ArrivePlace(r) ==
    /\ kind = "list" /\ Arrive(r)
    /\ \E i \in Items, s \in open, p \in 1..(Cardinality(Items) + 1) :
         /\ shelf[i] \in open
         /\ Become(r, [Idle EXCEPT !.method = IF s = shelf[i] THEN "place" ELSE "transfer",
                           !.at = "read", !.item = i, !.to = s, !.position = p])

\* copyList reads its source, with its number, first.
ArriveCopy(r) ==
    /\ kind = "list" /\ Arrive(r) /\ On("unborn") # {}
    /\ \E i \in Items :
         /\ shelf[i] \in open
         /\ Become(r, [Idle EXCEPT !.method = "copy", !.at = "read", !.to = shelf[i],
                           !.before = i, !.low = order[i]])

\* moveAllCards.
ArrivePour(r) ==
    /\ kind = "card" /\ Arrive(r)
    /\ \E s, t \in open :
         /\ s # t
         /\ Become(r, [Idle EXCEPT !.method = "pour", !.at = "readMany", !.from = s, !.to = t])

----------------------------------------------------------------------------
(* Reads                                                                     *)

CreateRead(r) ==
    /\ At(r, {"create"}, "read")
    /\ IF req[r].top THEN Computed(r, {None}, FirstOf(On(req[r].to)))
       ELSE Computed(r, LastOf(On(req[r].to)), {None})
    /\ ReadOnly

\* getNeighborCardOrder: a neighbour must be on the target shelf.
BeforeRead(r) ==
    LET b == req[r].before IN
    /\ At(r, {"move"}, "before")
    /\ \/ b = None /\ Become(r, [req[r] EXCEPT !.at = "after"])
       \/ /\ b # None /\ shelf[b] = req[r].to
          /\ Become(r, [req[r] EXCEPT !.at = "after", !.low = order[b]])
       \/ b # None /\ shelf[b] # req[r].to /\ Finish(r)
    /\ ReadOnly

\* Without neighbours the place is the end.
AfterRead(r) ==
    LET a == req[r].after
        low == req[r].low
        refused == shelf[a] # req[r].to \/ (low # None /\ low >= order[a])
    IN
    /\ At(r, {"move"}, "after")
    /\ \/ a = None /\ low = None /\ Computed(r, LastOf(On(req[r].to)), {None})
       \/ a = None /\ low # None /\ Computed(r, {low}, {None})
       \/ a # None /\ ~refused /\ Computed(r, {low}, {order[a]})
       \/ a # None /\ refused /\ Finish(r)
    /\ ReadOnly

\* computeOrderByPosition: after the first k of the others.
PlaceRead(r) ==
    LET others == On(req[r].to) \ (IF req[r].method = "place" THEN {req[r].item} ELSE {})
        k == Clamp(req[r].position, Cardinality(others))
    IN
    /\ At(r, {"place", "transfer"}, "read")
    /\ \E first \in SUBSET others :
         /\ Cardinality(first) = k
         /\ \A i \in first, j \in others \ first : order[i] <= order[j]
         /\ Computed(r, LastOf(first), FirstOf(others \ first))
    /\ ReadOnly

\* The list that comes next on the board.
CopyRead(r) ==
    /\ At(r, {"copy"}, "read")
    /\ Computed(r, {req[r].low}, FirstOf({i \in On(req[r].to) : order[i] > req[r].low}))
    /\ ReadOnly

\* Sorted by number; equal numbers come in any order.
PourReadMany(r) ==
    /\ At(r, {"pour"}, "readMany")
    /\ \E many \in SetToSeqs(On(req[r].from)) :
         /\ \A j, k \in DOMAIN many : j < k => order[many[j]] <= order[many[k]]
         /\ Become(r, [req[r] EXCEPT !.at = "read", !.many = many])
    /\ ReadOnly

PourRead(r) ==
    /\ At(r, {"pour"}, "read")
    /\ Computed(r, LastOf(On(req[r].to)), {None})
    /\ ReadOnly

----------------------------------------------------------------------------
(* Writes                                                                    *)

\* The neighbours that a move names have nothing between them.
Adjacent(q) ==
    LET others == On(q.to) \ {q.item}
        above == IF q.before = None THEN {} ELSE {i \in others : order[i] > order[q.before]}
        below == IF q.after = None THEN {} ELSE {i \in others : order[i] < order[q.after]}
    IN /\ q.after = None => above = {}
       /\ q.before = None => below = {}
       /\ above \cap below = {}

\* No write touched the shelves of the request since it arrived, there was a
\* number left, and neighbours it named were next to each other.
Careful(q) == q.sound /\ (q.method = "move" => Adjacent(q))

\* The shelves whose row a write changes.
Touched == {s \in Shelves : \E i \in Items :
    (shelf'[i] # shelf[i] \/ order'[i] # order[i]) /\ s \in {shelf[i], shelf'[i]}}
Outdated(q) == [q EXCEPT !.sound = @ /\ {q.to, q.from} \cap Touched = {}]

\* The writer answers; others in flight may have become outdated.
Written(r) ==
    /\ req' = [q \in Reqs |-> IF q = r THEN Idle
                              ELSE IF Free(q) THEN Idle ELSE Outdated(req[q])]
    /\ tidy' = (tidy /\ Careful(req[r]))
    /\ UNCHANGED <<kind, open>>

Refused(r) == Finish(r) /\ ReadOnly

\* A new row, of copyList too; its shelf must still exist.
CreateWrite(r) ==
    /\ At(r, {"create", "copy"}, "write")
    /\ IF req[r].to \in open /\ On("unborn") # {}
       THEN \E i \in On("unborn") :
              /\ shelf' = [shelf EXCEPT ![i] = req[r].to]
              /\ order' = [order EXCEPT ![i] = req[r].number]
              /\ Written(r)
       ELSE Refused(r)

\* update by id, wherever the item is now, of the number only when a list stays
\* on its board; it fails if item or shelf is gone.
MoveWrite(r) ==
    LET i == req[r].item
        to == IF kind = "card" \/ req[r].method = "transfer" THEN req[r].to ELSE shelf[i]
    IN
    /\ At(r, {"move", "place", "transfer"}, "write")
    /\ IF shelf[i] \in open /\ to \in open
       THEN /\ shelf' = [shelf EXCEPT ![i] = to]
            /\ order' = [order EXCEPT ![i] = req[r].number]
            /\ Written(r)
       ELSE Refused(r)

\* Mutant: nextOrder is not increased.
PourWrite_SameOrder(r) ==
    LET many == ToSet(req[r].many) IN
    /\ At(r, {"pour"}, "write")
    /\ IF \A i \in many : shelf[i] \in open /\ req[r].to \in open
       THEN /\ shelf' = [i \in Items |-> IF i \in many THEN req[r].to ELSE shelf[i]]
            /\ order' = [i \in Items |-> IF i \in many THEN req[r].number ELSE order[i]]
            /\ Written(r)
       ELSE Refused(r)

\* One transaction: each card in turn, wherever it is now, Step after the one
\* before.  It rolls back if a row is gone.
PourWrite(r) ==
    LET many == ToSet(req[r].many)
        index(i) == CHOOSE k \in DOMAIN req[r].many : req[r].many[k] = i
    IN
    /\ At(r, {"pour"}, "write")
    /\ IF \A i \in many : shelf[i] \in open /\ req[r].to \in open
       THEN /\ shelf' = [i \in Items |-> IF i \in many THEN req[r].to ELSE shelf[i]]
            /\ order' = [i \in Items |-> IF i \in many
                             THEN req[r].number + (index(i) - 1) * Step ELSE order[i]]
            /\ Written(r)
       ELSE Refused(r)

\* Removals are by id; a list takes its cards with it, a board its lists.
Delete(gone, closed) ==
    /\ shelf' = [i \in Items |-> IF i \in gone THEN "deleted" ELSE shelf[i]]
    /\ order' = [i \in Items |-> IF i \in gone THEN 0 ELSE order[i]]
    /\ open' = open \ closed
    /\ UNCHANGED <<kind, tidy>>
    /\ req' = [q \in Reqs |-> IF Free(q) THEN Idle ELSE Outdated(req[q])]
RemoveItem == \E i \in Items : shelf[i] \in open /\ Delete({i}, {})

\* Mutant: no cascade.
RemoveShelf_NoCascade == \E s \in open : Delete({}, {s})
RemoveShelf == \E s \in open : Delete(On(s), {s})

\* A statement fails or the process dies; no handler writes twice.
Abort(r) == ~Free(r) /\ Finish(r) /\ ReadOnly

Init ==
    /\ kind \in Kinds /\ open = Shelves
    /\ shelf = [i \in Items |-> "unborn"] /\ order = [i \in Items |-> 0]
    /\ req = [r \in Reqs |-> Idle] /\ tidy = TRUE

Next ==
    \/ \E r \in Reqs :
         \/ ArriveCreate(r) \/ ArriveMove(r) \/ ArrivePlace(r) \/ ArriveCopy(r) \/ ArrivePour(r)
         \/ CreateRead(r) \/ BeforeRead(r) \/ AfterRead(r) \/ PlaceRead(r) \/ CopyRead(r)
         \/ PourReadMany(r) \/ PourRead(r)
         \/ CreateWrite(r) \/ MoveWrite(r) \/ PourWrite(r) \/ Abort(r)
    \/ RemoveItem \/ RemoveShelf

Spec == Init /\ [][Next]_vars

----------------------------------------------------------------------------
(* Properties *)

Equipped(q) ==
    /\ q.at # "idle" => q.to \in Shelves
    /\ q.at = "write" => q.number \in Int
    /\ q.method \in {"move", "place", "transfer"} => q.item \in Items
    /\ q.method = "copy" => q.before \in Items /\ (q.at = "read" => q.low \in Int)

\* Every variable keeps its type, and a request in flight names what it needs.
TypeOK ==
    /\ kind \in Kinds /\ open \subseteq Shelves /\ tidy \in BOOLEAN
    /\ shelf \in [Items -> open \cup {"unborn", "deleted"}]
    /\ order \in [Items -> Int]
    /\ req \in [Reqs -> Request]
    /\ \A r \in Reqs : Equipped(req[r])

\* As long as every write was careful, no two items of a shelf have the same
\* number: requests on other shelves, reads in between and deletions do no harm.
OrdersDistinct ==
    tidy => \A i, j \in Items : i # j /\ shelf[i] \in open /\ shelf[i] = shelf[j]
                                  => order[i] # order[j]

\* Which of the others on its shelf a request asks to be before its item.
Asked(q, others, ahead) ==
    /\ q.method = "create" => ahead = IF q.top THEN {} ELSE others
    /\ q.method \in {"place", "transfer"} =>
         Cardinality(ahead) = IF q.position > Cardinality(others) THEN Cardinality(others)
                              ELSE q.position - 1
    /\ q.method = "copy" => ahead = {i \in others : order[i] <= order[q.before]}
    /\ q.method = "move" =>
         /\ q.before # None => ahead = {i \in others : order[i] <= order[q.before]}
         /\ q.after # None => ahead = {i \in others : order[i] < order[q.after]}
         /\ q.before = None /\ q.after = None => ahead = others

\* One item is put where it was asked to go, and nothing else moves.
Inserted(q, new) ==
    LET others == On(q.to) \ {new} IN
    /\ shelf'[new] = q.to
    /\ \A i \in Items \ {new} : shelf'[i] = shelf[i] /\ order'[i] = order[i]
    /\ Asked(q, others, {i \in others : order'[i] < order'[new]})

\* All cards of a list come after those of another one, in the order they had.
Appended(q) ==
    /\ \A i \in Items \ On(q.from) : shelf'[i] = shelf[i] /\ order'[i] = order[i]
    /\ \A i \in On(q.from) : /\ shelf'[i] = q.to
                             /\ \A j \in On(q.to) : order'[j] < order'[i]
                             /\ \A j \in On(q.from) : order[j] < order[i] => order'[j] < order'[i]

\* A careful write that is not refused puts the item exactly where it was asked
\* to go, and moves nothing else: between its neighbours, at its position, after
\* its source, at an end; moveAllCards appends the cards in the order they had.
\* Where the numbers are distinct, as OrdersDistinct says they are, this is the
\* row that findAll shows.
Answered(r) == req[r].at = "write" /\ Free(r)'
ArrangedAsAsked ==
    [][\A r \in Reqs : Answered(r) /\ Careful(req[r]) /\ tidy' =>
          \/ UNCHANGED rows
          \/ req[r].method = "pour" /\ Appended(req[r])
          \/ req[r].method \in {"create", "copy"} /\ \E i \in On("unborn") : Inserted(req[r], i)
          \/ req[r].method \in {"move", "place", "transfer"} /\ Inserted(req[r], req[r].item)]_vars
=============================================================================

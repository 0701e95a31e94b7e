--------------------------- MODULE OrderingProofs ---------------------------
(* Theorems about Ordering: its types, that careful requests never give two *)
(* items of a shelf the same number, and that they put items exactly where  *)
(* they were asked to, for any items, shelves and step.                     *)
EXTENDS Ordering, FiniteSetTheorems, TLAPS

USE DEF Become, Finish

LEMMA Constants ==
    /\ Step \in Int /\ Step > 0 /\ None \notin Int /\ None \notin Items /\ None \notin Shelves
    /\ "unborn" \notin Shelves /\ "deleted" \notin Shelves
  BY OrderingAssumption

LEMMA IdleType == Idle \in Request /\ Equipped(Idle) /\ Idle.at = "idle"
<1>1. <<>> \in Seq(Items)
  OBVIOUS
<1> QED
  BY <1>1, Constants DEF Idle, Request, Ids, Orders, Equipped

----------------------------------------------------------------------------
(* Types                                                                     *)

LEMMA EndTypes ==
  ASSUME TypeOK, NEW S \in SUBSET Items
  PROVE  LastOf(S) \subseteq Orders /\ FirstOf(S) \subseteq Orders
  BY DEF TypeOK, LastOf, FirstOf, Orders

LEMMA NumberType ==
  ASSUME NEW low \in Orders, NEW high \in Orders
  PROVE  NumberFor(low, high) \in Int
  BY Constants DEF NumberFor, Orders

\* A step that reads gives its slot a well-typed record.
LEMMA SlotType ==
  ASSUME TypeOK, NEW r \in Reqs, NEW rec \in Request, Equipped(rec),
         req' = [req EXCEPT ![r] = rec], ReadOnly
  PROVE  TypeOK'
<1>1. req' \in [Reqs -> Request]
  BY DEF TypeOK
<1>2. \A q \in Reqs : Equipped(req'[q])
  BY DEF TypeOK
<1>3. (\A q \in Reqs : Equipped(req[q]))'
  BY <1>2 DEF Equipped
<1> QED
  BY <1>1, <1>3 DEF TypeOK, ReadOnly, rows

LEMMA FinishType ==
  ASSUME TypeOK, NEW r \in Reqs, Finish(r), ReadOnly
  PROVE  TypeOK'
  BY IdleType, SlotType

LEMMA ComputedType ==
  ASSUME TypeOK, NEW r \in Reqs, req[r].at # "idle", NEW lows \in SUBSET Orders,
         NEW highs \in SUBSET Orders, Computed(r, lows, highs), ReadOnly
  PROVE  TypeOK'
<1>1. PICK low \in lows, high \in highs :
        req' = [req EXCEPT ![r] = [req[r] EXCEPT !.at = "write", !.low = None,
                  !.number = NumberFor(low, high),
                  !.sound = @ /\ (low # None /\ high # None => high - low > 1)]]
  BY DEF Computed
<1> DEFINE sound == req[r].sound /\ (low # None /\ high # None => high - low > 1)
           rec == [req[r] EXCEPT !.at = "write", !.low = None,
                     !.number = NumberFor(low, high), !.sound = sound]
<1>2. req[r] \in Request /\ Equipped(req[r])
  BY DEF TypeOK
<1>3. req' = [req EXCEPT ![r] = rec]
  BY <1>1, <1>2 DEF Request
<1>4. NumberFor(low, high) \in Int
  BY NumberType
<1>5. sound \in BOOLEAN
  OBVIOUS
<1> HIDE DEF sound
<1>6. rec \in Request
  BY <1>2, <1>4, <1>5 DEF Request, Orders
<1>7. Equipped(rec)
  BY <1>2, <1>4 DEF Equipped, Request
<1> HIDE DEF rec
<1> QED
  BY <1>3, <1>6, <1>7, SlotType

\* A step that changes rows leaves the other requests in flight well-typed.
LEMMA OthersType ==
  ASSUME TypeOK, NEW q \in Reqs
  PROVE  Outdated(req[q]) \in Request /\ Equipped(Outdated(req[q]))
<1> DEFINE sound == req[q].sound /\ {req[q].to, req[q].from} \cap Touched = {}
<1>1. req[q] \in Request /\ Equipped(req[q]) /\ sound \in BOOLEAN
  BY DEF TypeOK
<1>2. Outdated(req[q]) = [req[q] EXCEPT !.sound = sound]
  BY <1>1 DEF Outdated, Request
<1> HIDE DEF sound
<1> QED
  BY <1>1, <1>2 DEF Request, Equipped

LEMMA WrittenType ==
  ASSUME TypeOK, NEW r \in Reqs, Written(r),
         shelf' \in [Items -> open \cup {"unborn", "deleted"}], order' \in [Items -> Int]
  PROVE  TypeOK'
<1>1. \A q \in Reqs : req'[q] \in Request /\ Equipped(req'[q])
  BY OthersType, IdleType DEF Written
<1>2. req' \in [Reqs -> Request]
  BY <1>1 DEF Written
<1>3. (\A q \in Reqs : Equipped(req[q]))'
  BY <1>1 DEF Equipped
<1>4. tidy' \in BOOLEAN /\ kind' = kind /\ open' = open
  BY DEF Written, TypeOK
<1> QED
  BY <1>2, <1>3, <1>4 DEF TypeOK

LEMMA DeleteType ==
  ASSUME TypeOK, NEW gone \in SUBSET Items, NEW closed \in SUBSET Shelves,
         \A i \in Items : shelf[i] \in closed => i \in gone, Delete(gone, closed)
  PROVE  TypeOK'
<1>1. \A q \in Reqs : req'[q] \in Request /\ Equipped(req'[q])
  BY OthersType, IdleType DEF Delete
<1>2. req' \in [Reqs -> Request]
  BY <1>1 DEF Delete
<1>3. (\A q \in Reqs : Equipped(req[q]))'
  BY <1>1 DEF Equipped
<1>4. shelf' \in [Items -> open' \cup {"unborn", "deleted"}] /\ open' \subseteq Shelves
  BY DEF Delete, TypeOK
<1>5. order' \in [Items -> Int] /\ tidy' = tidy /\ kind' = kind
  BY DEF Delete, TypeOK
<1> QED
  BY <1>2, <1>3, <1>4, <1>5 DEF TypeOK

\* The arrivals.
LEMMA ArriveType ==
  ASSUME TypeOK, NEW r \in Reqs,
         \/ ArriveCreate(r) \/ ArriveMove(r) \/ ArrivePlace(r) \/ ArriveCopy(r) \/ ArrivePour(r)
  PROVE  TypeOK'
<1> USE IdleType, Constants
<1>1. open \subseteq Shelves /\ \A i \in Items : shelf[i] \in open => shelf[i] \in Shelves
  BY DEF TypeOK
<1>2. ReadOnly
  BY DEF Arrive, ArriveCreate, ArriveMove, ArrivePlace, ArriveCopy, ArrivePour
<1>3. CASE ArriveCreate(r)
  <2>1. PICK s \in open, top \in BOOLEAN : req' = [req EXCEPT ![r] =
          [Idle EXCEPT !.method = "create", !.at = "read", !.to = s, !.top = top]]
    BY <1>3 DEF ArriveCreate
  <2> DEFINE rec == [Idle EXCEPT !.method = "create", !.at = "read", !.to = s, !.top = top]
  <2>2. rec \in Request /\ Equipped(rec)
    BY <1>1 DEF Request, Equipped, Idle
  <2> QED
    BY <1>2, <2>1, <2>2, SlotType
<1>4. CASE ArriveMove(r)
  <2>1. PICK i \in Items, s \in open, b, a \in Ids \ On("unborn") : req' = [req EXCEPT ![r] =
          [Idle EXCEPT !.method = "move", !.at = "before", !.item = i,
                       !.to = s, !.before = b, !.after = a]]
    BY <1>4 DEF ArriveMove
  <2> DEFINE rec == [Idle EXCEPT !.method = "move", !.at = "before", !.item = i,
                                 !.to = s, !.before = b, !.after = a]
  <2>2. rec \in Request /\ Equipped(rec)
    BY <1>1 DEF Request, Equipped, Idle, Ids
  <2> QED
    BY <1>2, <2>1, <2>2, SlotType
<1>5. CASE ArrivePlace(r)
  <2>1. PICK i \in Items, s \in open, p \in 1..(Cardinality(Items) + 1) :
          req' = [req EXCEPT ![r] =
            [Idle EXCEPT !.method = IF s = shelf[i] THEN "place" ELSE "transfer",
                         !.at = "read", !.item = i, !.to = s, !.position = p]]
    BY <1>5 DEF ArrivePlace
  <2> DEFINE m == IF s = shelf[i] THEN "place" ELSE "transfer"
             rec == [Idle EXCEPT !.method = m, !.at = "read", !.item = i, !.to = s,
                                 !.position = p]
  <2>2. m \in {"place", "transfer"} /\ p \in Nat
    OBVIOUS
  <2>3. req' = [req EXCEPT ![r] = rec]
    BY <2>1
  <2> HIDE DEF m
  <2>4. rec \in Request /\ Equipped(rec)
    BY <1>1, <2>2 DEF Request, Equipped, Idle, Ids
  <2> HIDE DEF rec
  <2> QED
    BY <1>2, <2>3, <2>4, SlotType
<1>6. CASE ArriveCopy(r)
  <2>1. PICK i \in Items : shelf[i] \in open /\ req' = [req EXCEPT ![r] =
          [Idle EXCEPT !.method = "copy", !.at = "read", !.to = shelf[i],
                       !.before = i, !.low = order[i]]]
    BY <1>6 DEF ArriveCopy
  <2> DEFINE rec == [Idle EXCEPT !.method = "copy", !.at = "read", !.to = shelf[i],
                                 !.before = i, !.low = order[i]]
  <2>2. order[i] \in Int
    BY DEF TypeOK
  <2>3. rec \in Request /\ Equipped(rec)
    BY <1>1, <2>1, <2>2 DEF Request, Equipped, Idle, Ids, Orders
  <2> QED
    BY <1>2, <2>1, <2>3, SlotType
<1>7. CASE ArrivePour(r)
  <2>1. PICK s, t \in open : req' = [req EXCEPT ![r] =
          [Idle EXCEPT !.method = "pour", !.at = "readMany", !.from = s, !.to = t]]
    BY <1>7 DEF ArrivePour
  <2> DEFINE rec == [Idle EXCEPT !.method = "pour", !.at = "readMany", !.from = s, !.to = t]
  <2>2. rec \in Request /\ Equipped(rec)
    BY <1>1 DEF Request, Equipped, Idle
  <2> QED
    BY <1>2, <2>1, <2>2, SlotType
<1> QED
  BY <1>3, <1>4, <1>5, <1>6, <1>7

\* The reads.
LEMMA ReadType ==
  ASSUME TypeOK, NEW r \in Reqs,
         \/ CreateRead(r) \/ BeforeRead(r) \/ AfterRead(r) \/ PlaceRead(r) \/ CopyRead(r)
         \/ PourReadMany(r) \/ PourRead(r)
  PROVE  TypeOK'
<1>1. /\ req[r] \in Request /\ Equipped(req[r]) /\ {None} \subseteq Orders
      /\ \A i \in Items : order[i] \in Orders
  BY DEF TypeOK, Orders
<1>2. ReadOnly /\ req[r].at # "idle"
  BY DEF CreateRead, BeforeRead, AfterRead, PlaceRead, CopyRead, PourReadMany, PourRead, At
<1>3. \A s : On(s) \in SUBSET Items
  BY DEF On
<1>4. CASE CreateRead(r)
  BY <1>1, <1>2, <1>3, <1>4, EndTypes, ComputedType DEF CreateRead
<1>5. ASSUME NEW low \in Orders, Become(r, [req[r] EXCEPT !.at = "after", !.low = low])
      PROVE  TypeOK'
  <2> DEFINE rec == [req[r] EXCEPT !.at = "after", !.low = low]
  <2>1. rec \in Request /\ Equipped(rec)
    BY <1>1, <1>2, <1>5, ZenonT(60) DEF Request, Equipped
  <2> QED
    BY <1>2, <1>5, <2>1, SlotType
<1>6. CASE BeforeRead(r)
  <2>1. CASE Finish(r)
    BY <1>2, <2>1, FinishType
  <2>2. CASE Become(r, [req[r] EXCEPT !.at = "after"])
    <3>1. [req[r] EXCEPT !.at = "after", !.low = req[r].low] = [req[r] EXCEPT !.at = "after"]
      BY <1>1 DEF Request
    <3> QED
      BY <1>1, <1>5, <2>2, <3>1 DEF Request
  <2>3. CASE /\ req[r].before # None
             /\ Become(r, [req[r] EXCEPT !.at = "after", !.low = order[req[r].before]])
    <3>1. order[req[r].before] \in Orders
      BY <1>1, <2>3 DEF Request, Ids
    <3> QED
      BY <1>5, <2>3, <3>1
  <2> QED
    BY <1>6, <2>1, <2>2, <2>3 DEF BeforeRead
<1>7. CASE AfterRead(r)
  <2>1. CASE Finish(r)
    BY <1>2, <2>1, FinishType
  <2>2. {req[r].low} \subseteq Orders
    BY <1>1 DEF Request
  <2>3. req[r].after # None => {order[req[r].after]} \subseteq Orders
    BY <1>1 DEF Request, Ids
  <2>4. ASSUME NEW lows \in SUBSET Orders, NEW highs \in SUBSET Orders,
               Computed(r, lows, highs)
        PROVE  TypeOK'
    BY <1>2, <2>4, ComputedType
  <2> QED
    BY <1>1, <1>3, <1>7, <2>1, <2>2, <2>3, <2>4, EndTypes DEF AfterRead
<1>8. CASE PlaceRead(r)
  <2> DEFINE others == On(req[r].to) \ (IF req[r].method = "place" THEN {req[r].item} ELSE {})
  <2>1. PICK first \in SUBSET others : Computed(r, LastOf(first), FirstOf(others \ first))
    BY <1>8 DEF PlaceRead
  <2>2. first \in SUBSET Items /\ others \ first \in SUBSET Items
    BY <1>3
  <2> QED
    BY <1>2, <2>1, <2>2, EndTypes, ComputedType
<1>9. CASE CopyRead(r)
  <2>1. {req[r].low} \subseteq Orders
    BY <1>1 DEF Request
  <2>2. {i \in On(req[r].to) : order[i] > req[r].low} \in SUBSET Items
    BY <1>3
  <2> QED
    BY <1>2, <1>9, <2>1, <2>2, EndTypes, ComputedType DEF CopyRead
<1>10. CASE PourReadMany(r)
  <2>1. PICK many \in SetToSeqs(On(req[r].from)) :
          req' = [req EXCEPT ![r] = [req[r] EXCEPT !.at = "read", !.many = many]]
    BY <1>10 DEF PourReadMany
  <2>2. many \in Seq(Items)
    <3>1. On(req[r].to) \subseteq Items /\ IsFiniteSet(On(req[r].from))
      BY OrderingAssumption, FS_Subset DEF On
    <3>2. Cardinality(On(req[r].from)) \in Nat
      BY <3>1, FS_CardinalityType
    <3>3. many \in [1..Cardinality(On(req[r].from)) -> Items]
      BY <2>1 DEF SetToSeqs, On
    <3> QED
      BY <3>2, <3>3
  <2> DEFINE rec == [req[r] EXCEPT !.at = "read", !.many = many]
  <2>3. rec \in Request /\ Equipped(rec)
    BY <1>1, <1>2, <1>10, <2>2 DEF Request, Equipped, PourReadMany, At
  <2> QED
    BY <1>2, <2>1, <2>3, SlotType
<1>11. CASE PourRead(r)
  BY <1>1, <1>2, <1>3, <1>11, EndTypes, ComputedType DEF PourRead
<1> QED
  BY <1>4, <1>6, <1>7, <1>8, <1>9, <1>10, <1>11

\* The writes.
LEMMA WriteType ==
  ASSUME TypeOK, NEW r \in Reqs, CreateWrite(r) \/ MoveWrite(r) \/ PourWrite(r)
  PROVE  TypeOK'
<1>1. req[r] \in Request /\ Equipped(req[r]) /\ req[r].at = "write" /\ req[r].number \in Int
  BY DEF TypeOK, Equipped, CreateWrite, MoveWrite, PourWrite, At
<1>2. shelf \in [Items -> open \cup {"unborn", "deleted"}] /\ order \in [Items -> Int]
  BY DEF TypeOK
<1>3. CASE Refused(r)
  BY <1>3, FinishType DEF Refused
<1>4. CASE CreateWrite(r)
  <2>1. ASSUME NEW i \in Items, req[r].to \in open, Written(r),
               shelf' = [shelf EXCEPT ![i] = req[r].to],
               order' = [order EXCEPT ![i] = req[r].number]
        PROVE  TypeOK'
    BY <1>1, <1>2, <2>1, WrittenType
  <2> QED
    BY <1>3, <1>4, <2>1 DEF CreateWrite, On
<1>5. CASE MoveWrite(r)
  <2> DEFINE i == req[r].item
             to == IF kind = "card" \/ req[r].method = "transfer" THEN req[r].to ELSE shelf[i]
  <2>1. CASE /\ to \in open /\ Written(r) /\ shelf' = [shelf EXCEPT ![i] = to]
             /\ order' = [order EXCEPT ![i] = req[r].number]
    BY <1>1, <1>2, <2>1, WrittenType
  <2> QED
    BY <1>3, <1>5, <2>1 DEF MoveWrite
<1>6. CASE PourWrite(r)
  <2> DEFINE many == ToSet(req[r].many)
             index(i) == CHOOSE k \in DOMAIN req[r].many : req[r].many[k] = i
             offset == [i \in Items |-> IF i \in many THEN (index(i) - 1) * Step ELSE 0]
  <2>1. CASE /\ \A i \in many : shelf[i] \in open /\ req[r].to \in open
             /\ shelf' = [i \in Items |-> IF i \in many THEN req[r].to ELSE shelf[i]]
             /\ order' = [i \in Items |-> IF i \in many
                             THEN req[r].number + (index(i) - 1) * Step ELSE order[i]]
             /\ Written(r)
    <3>1. \A i \in many : (index(i) - 1) * Step \in Int
      <4>1. \A i \in many : index(i) \in DOMAIN req[r].many
        BY DEF ToSet
      <4>2. req[r].many \in Seq(Items)
        BY <1>1 DEF Request
      <4>3. DOMAIN req[r].many \subseteq Int
        BY <4>2
      <4> QED
        BY <4>1, <4>3, Constants
    <3>2. order' \in [Items -> Int]
      BY <1>1, <1>2, <2>1, <3>1
    <3>3. shelf' \in [Items -> open \cup {"unborn", "deleted"}]
      BY <1>2, <2>1
    <3> QED
      BY <2>1, <3>2, <3>3, WrittenType
  <2> QED
    BY <1>3, <1>6, <2>1 DEF PourWrite
<1> QED
  BY <1>4, <1>5, <1>6

LEMMA TypeInit == Init => TypeOK
  BY IdleType, OrderingAssumption DEF Init, TypeOK

LEMMA TypeStep == TypeOK /\ [Next]_vars => TypeOK'
<1> SUFFICES ASSUME TypeOK, [Next]_vars PROVE TypeOK'
  OBVIOUS
<1>1. CASE RemoveItem
  <2>1. PICK i \in Items : shelf[i] \in open /\ Delete({i}, {})
    BY <1>1 DEF RemoveItem
  <2> QED
    BY <2>1, DeleteType
<1>2. CASE RemoveShelf
  <2>1. PICK s \in open : Delete(On(s), {s})
    BY <1>2 DEF RemoveShelf
  <2>2. On(s) \in SUBSET Items /\ {s} \in SUBSET Shelves
        /\ \A i \in Items : shelf[i] \in {s} => i \in On(s)
    BY DEF On, TypeOK
  <2> QED
    BY <2>1, <2>2, DeleteType
<1>3. ASSUME NEW r \in Reqs, Abort(r) PROVE TypeOK'
  BY <1>3, FinishType DEF Abort
<1>4. CASE UNCHANGED vars
  BY <1>4 DEF vars, rows, TypeOK, Equipped
<1> QED
  BY <1>1, <1>2, <1>3, <1>4, ArriveType, ReadType, WriteType DEF Next

----------------------------------------------------------------------------
(* Distinct numbers                                                          *)

Others(q) == On(q.to) \ {q.item}

\* A number is where the request wants to go; a move knows it only by the
\* neighbours that it names.
Fits(q, n) ==
    /\ q.method = "create" => \A i \in On(q.to) : IF q.top THEN n < order[i] ELSE order[i] < n
    /\ q.method = "copy" =>
         /\ shelf[q.before] = q.to
         /\ \A i \in On(q.to) : IF order[i] <= order[q.before] THEN order[i] < n ELSE n < order[i]
    /\ q.method \in {"place", "transfer"} =>
         /\ \A i \in Others(q) : order[i] # n
         /\ Cardinality({i \in Others(q) : order[i] < n}) = Clamp(q.position, Cardinality(Others(q)))
    /\ q.method = "pour" => \A i \in On(q.to) : order[i] < n
    /\ q.method = "move" =>
         /\ q.before # None => shelf[q.before] = q.to /\ order[q.before] < n
         /\ q.after # None => shelf[q.after] = q.to /\ n < order[q.after]
         /\ q.before = None /\ q.after = None => \A i \in On(q.to) : order[i] < n

\* The cards to pour are those of the list, in their order.
Lined(many, s) ==
    /\ ToSet(many) = On(s)
    /\ \A j, k \in DOMAIN many : j < k => many[j] # many[k] /\ order[many[j]] <= order[many[k]]

\* What a request has read is still so.
Expected(q) ==
    /\ kind = "list" /\ q.method \in {"move", "place"} => shelf[q.item] = q.to
    /\ q.method = "transfer" => shelf[q.item] # q.to
    /\ q.method = "pour" => /\ q.from \in Shelves /\ q.from # q.to
                            /\ q.at \in {"read", "write"} => Lined(q.many, q.from)
    /\ q.method = "copy" /\ q.at = "read" =>
         shelf[q.before] = q.to /\ q.low = order[q.before]
    /\ q.at = "before" => q.method = "move" /\ q.low = None
    /\ q.at = "after" =>
         /\ q.method = "move"
         /\ q.before = None => q.low = None
         /\ q.before # None => shelf[q.before] = q.to /\ q.low = order[q.before]
    /\ q.at = "write" => Fits(q, q.number)

Prepared == \A r \in Reqs : /\ req[r].at = "idle" => Free(r)
                            /\ req[r].sound => Expected(req[r])
Inv == TypeOK /\ OrdersDistinct /\ Prepared

LEMMA IdlePrepared ==
  ASSUME NEW r \in Reqs, req'[r] = Idle
  PROVE  Free(r)' /\ Expected(req[r])'
  BY DEF Free, Expected, Idle

\* A shelf that no changed row is or was on has the items and numbers it had.
LEMMA Untouched ==
  ASSUME TypeOK, NEW s \in Shelves, s \notin Touched, NEW i \in Items
  PROVE  /\ shelf'[i] = s <=> shelf[i] = s
         /\ shelf[i] = s => order'[i] = order[i]
  BY DEF Touched

LEMMA SameShelf ==
  ASSUME TypeOK, NEW s \in Shelves, s \notin Touched
  PROVE  /\ On(s)' = On(s) /\ On(s) \subseteq Items
         /\ \A i \in On(s) : order'[i] = order[i]
<1>1. \A i \in Items : /\ shelf'[i] = s <=> shelf[i] = s
                       /\ shelf[i] = s => order'[i] = order[i]
  BY Untouched
<1> QED
  BY <1>1 DEF On

LEMMA FitsKept ==
  ASSUME TypeOK, NEW q \in Request, q.to \in Shelves, q.to \notin Touched, NEW n \in Int,
         q.method = "copy" => q.before \in Items, Fits(q, n)
  PROVE  Fits(q, n)'
<1>1. /\ On(q.to)' = On(q.to) /\ On(q.to) \subseteq Items
      /\ \A i \in On(q.to) : order'[i] = order[i]
  BY SameShelf
<1>2. \A i \in Items : /\ shelf'[i] = q.to <=> shelf[i] = q.to
                       /\ shelf[i] = q.to => order'[i] = order[i]
  BY Untouched
<1>3. /\ q.before # None => q.before \in Items
      /\ q.after # None => q.after \in Items
  BY DEF Request, Ids
<1>4. Others(q)' = Others(q)
  BY <1>1 DEF Others
<1>5. \A i \in Others(q) : order'[i] = order[i]
  BY <1>1 DEF Others
<1>6. {i \in Others(q)' : order'[i] < n} = {i \in Others(q) : order[i] < n}
  BY <1>4, <1>5
<1>7. CASE q.method \in {"place", "transfer"}
  BY <1>4, <1>5, <1>6, <1>7 DEF Fits
<1>8. CASE q.method = "copy"
  BY <1>1, <1>2, <1>8 DEF Fits
<1>9. CASE q.method \notin {"place", "transfer", "copy"}
  BY <1>1, <1>2, <1>3, <1>9 DEF Fits
<1> QED
  BY <1>7, <1>8, <1>9

LEMMA LinedKept ==
  ASSUME TypeOK, NEW s \in Shelves, s \notin Touched, NEW many, Lined(many, s)
  PROVE  Lined(many, s)'
<1>1. /\ On(s)' = On(s) /\ \A i \in On(s) : order'[i] = order[i]
  BY SameShelf
<1>2. \A k \in DOMAIN many : many[k] \in On(s)
  BY DEF Lined, ToSet
<1> QED
  BY <1>1, <1>2 DEF Lined, ToSet

LEMMA ExpectedKept ==
  ASSUME TypeOK, NEW r \in Reqs, req'[r] = req[r], req[r].at # "idle",
         {req[r].to, req[r].from} \cap Touched = {}, kind' = kind, Expected(req[r])
  PROVE  Expected(req[r])'
<1> DEFINE q == req[r]
<1>1. q \in Request /\ q.to \in Shelves /\ q.to \notin Touched /\ q.from \notin Touched
  BY DEF TypeOK, Equipped
<1>2. \A i \in Items : /\ shelf'[i] = q.to <=> shelf[i] = q.to
                       /\ shelf[i] = q.to => order'[i] = order[i]
  BY <1>1, Untouched
<1>3. /\ q.before # None => q.before \in Items
      /\ q.method \in {"move", "place", "transfer"} => q.item \in Items
      /\ q.method = "copy" => q.before \in Items
      /\ q.at = "write" => q.number \in Int
  BY <1>1 DEF Request, Ids, TypeOK, Equipped
<1>4. q.at = "write" => Fits(q, q.number)'
  BY <1>1, <1>3, FitsKept DEF Expected
<1>5. q.method = "pour" /\ q.at \in {"read", "write"} => Lined(q.many, q.from)'
  BY <1>1, LinedKept DEF Expected
<1>7. q.at = "write" => Fits(req[r], req[r].number)'
  BY <1>4 DEF Fits, Others, On
<1>8. q.method = "pour" /\ q.at \in {"read", "write"} => Lined(req[r].many, req[r].from)'
  BY <1>5 DEF Lined, ToSet, On
<1> QED
  BY <1>2, <1>3, <1>7, <1>8 DEF Expected

\* A step that changes rows: the other requests stay prepared or are outdated.
LEMMA OthersPrepared ==
  ASSUME TypeOK, Prepared, kind' = kind,
         \A r \in Reqs : req'[r] = Idle \/ (~Free(r) /\ req'[r] = Outdated(req[r]))
  PROVE  Prepared'
<1>1. ASSUME NEW r \in Reqs, req'[r] = Outdated(req[r]), ~Free(r)
      PROVE  /\ (req[r].at = "idle" => Free(r))'
             /\ (req[r].sound => Expected(req[r]))'
  <2> DEFINE ok == {req[r].to, req[r].from} \cap Touched = {}
  <2>1. req[r] \in Request /\ req[r].at # "idle" /\ req'[r] \in Request
    BY <1>1, OthersType DEF TypeOK, Prepared
  <2>2. req'[r].at = req[r].at /\ req'[r].sound = (req[r].sound /\ ok)
    BY <1>1, <2>1 DEF Outdated, Request
  <2>3. CASE req'[r].sound
    <3>1. req[r].sound /\ ok
      BY <2>1, <2>2, <2>3
    <3>2. req'[r] = req[r]
      BY <1>1, <2>1, <3>1 DEF Outdated, Request
    <3>3. Expected(req[r])
      BY <3>1 DEF Prepared
    <3> QED
      BY <2>1, <2>2, <3>1, <3>2, <3>3, ExpectedKept
  <2>4. CASE ~req'[r].sound
    BY <2>1, <2>2, <2>4
  <2> QED
    BY <2>3, <2>4
<1> QED
  BY <1>1, IdlePrepared DEF Prepared

\* A step that reads: the request that takes it is prepared for the next one.
LEMMA SlotPrepared ==
  ASSUME TypeOK, OrdersDistinct, Prepared, ReadOnly, NEW r \in Reqs, NEW rec,
         req' = [req EXCEPT ![r] = rec],
         rec = Idle \/ (rec.at # "idle" /\ (rec.sound => Expected(rec)))
  PROVE  OrdersDistinct' /\ Prepared'
<1>1. req'[r] = rec /\ \A q \in Reqs \ {r} : req'[q] = req[q]
  BY DEF TypeOK
<1>2. UNCHANGED <<kind, shelf, order, open, tidy>>
  BY DEF ReadOnly, rows
<1>3. OrdersDistinct'
  BY <1>2 DEF OrdersDistinct
<1>4. Expected(req[r])' <=> Expected(rec)
  BY <1>1, <1>2 DEF Expected, Fits, Others, Lined, On
<1>5. \A q \in Reqs \ {r} : Expected(req[q])' <=> Expected(req[q])
  BY <1>1, <1>2 DEF Expected, Fits, Others, Lined, On
<1>6. Expected(Idle)
  BY DEF Expected, Idle
<1> QED
  BY <1>1, <1>3, <1>4, <1>5, <1>6 DEF Prepared, Free

LEMMA FinishPrepared ==
  ASSUME TypeOK, OrdersDistinct, Prepared, ReadOnly, NEW r \in Reqs, Finish(r)
  PROVE  OrdersDistinct' /\ Prepared'
  BY SlotPrepared

LEMMA ArrivePrepared ==
  ASSUME TypeOK, OrdersDistinct, Prepared, NEW r \in Reqs,
         \/ ArriveCreate(r) \/ ArriveMove(r) \/ ArrivePlace(r) \/ ArriveCopy(r) \/ ArrivePour(r)
  PROVE  OrdersDistinct' /\ Prepared'
<1>1. ReadOnly
  BY DEF Arrive, ArriveCreate, ArriveMove, ArrivePlace, ArriveCopy, ArrivePour
<1>2. CASE ArriveCreate(r)
  <2>1. PICK s \in open, top \in BOOLEAN : req' = [req EXCEPT ![r] =
          [Idle EXCEPT !.method = "create", !.at = "read", !.to = s, !.top = top]]
    BY <1>2 DEF ArriveCreate
  <2> DEFINE rec == [Idle EXCEPT !.method = "create", !.at = "read", !.to = s, !.top = top]
  <2>2. rec.at # "idle" /\ Expected(rec)
    BY DEF Expected, Idle
  <2> QED
    BY <1>1, <2>1, <2>2, SlotPrepared
<1>3. CASE ArriveMove(r)
  <2>1. PICK i \in Items, s \in open, b, a \in Ids \ On("unborn") :
          /\ kind = "list" => s = shelf[i]
          /\ req' = [req EXCEPT ![r] =
               [Idle EXCEPT !.method = "move", !.at = "before", !.item = i,
                            !.to = s, !.before = b, !.after = a]]
    BY <1>3 DEF ArriveMove
  <2> DEFINE rec == [Idle EXCEPT !.method = "move", !.at = "before", !.item = i,
                                 !.to = s, !.before = b, !.after = a]
  <2>2. rec.at # "idle" /\ Expected(rec)
    BY <2>1 DEF Expected, Idle
  <2> QED
    BY <1>1, <2>1, <2>2, SlotPrepared
<1>4. CASE ArrivePlace(r)
  <2>1. PICK i \in Items, s \in open, p \in 1..(Cardinality(Items) + 1) :
          req' = [req EXCEPT ![r] =
            [Idle EXCEPT !.method = IF s = shelf[i] THEN "place" ELSE "transfer",
                         !.at = "read", !.item = i, !.to = s, !.position = p]]
    BY <1>4 DEF ArrivePlace
  <2> DEFINE m == IF s = shelf[i] THEN "place" ELSE "transfer"
             rec == [Idle EXCEPT !.method = m, !.at = "read", !.item = i, !.to = s,
                                 !.position = p]
  <2>2. req' = [req EXCEPT ![r] = rec]
    BY <2>1
  <2>3. rec.at = "read" /\ rec.method = m /\ rec.item = i /\ rec.to = s
    BY DEF Idle
  <2> HIDE DEF rec
  <2>4. Expected(rec)
    BY <2>3 DEF Expected
  <2> QED
    BY <1>1, <2>2, <2>3, <2>4, SlotPrepared
<1>5. CASE ArriveCopy(r)
  <2>1. PICK i \in Items : shelf[i] \in open /\ req' = [req EXCEPT ![r] =
          [Idle EXCEPT !.method = "copy", !.at = "read", !.to = shelf[i],
                       !.before = i, !.low = order[i]]]
    BY <1>5 DEF ArriveCopy
  <2> DEFINE rec == [Idle EXCEPT !.method = "copy", !.at = "read", !.to = shelf[i],
                                 !.before = i, !.low = order[i]]
  <2>2. rec.at # "idle" /\ Expected(rec)
    BY DEF Expected, Idle
  <2> QED
    BY <1>1, <2>1, <2>2, SlotPrepared
<1>6. CASE ArrivePour(r)
  <2>1. PICK s, t \in open : s # t /\ req' = [req EXCEPT ![r] =
          [Idle EXCEPT !.method = "pour", !.at = "readMany", !.from = s, !.to = t]]
    BY <1>6 DEF ArrivePour
  <2> DEFINE rec == [Idle EXCEPT !.method = "pour", !.at = "readMany", !.from = s, !.to = t]
  <2>2. rec.at # "idle" /\ Expected(rec)
    BY <2>1 DEF Expected, Idle, TypeOK
  <2> QED
    BY <1>1, <2>1, <2>2, SlotPrepared
<1> QED
  BY <1>2, <1>3, <1>4, <1>5, <1>6

\* Half of a difference of at least two lies strictly inside it.
LEMMA Halfway ==
  ASSUME NEW low \in Int, NEW high \in Int, high - low > 1
  PROVE  low < (low + high) \div 2 /\ (low + high) \div 2 < high
  OBVIOUS

\* The number that is computed, as it stands to the ends it was computed from.
LEMMA NumberPlace ==
  ASSUME NEW low \in Orders, NEW high \in Orders,
         low # None /\ high # None => high - low > 1
  PROVE  /\ low # None => low < NumberFor(low, high)
         /\ high # None => NumberFor(low, high) < high
<1>1. CASE low = None \/ high = None
  BY <1>1, Constants DEF NumberFor, Orders
<1>2. CASE low # None /\ high # None
  BY <1>2, Halfway DEF NumberFor, Orders
<1> QED
  BY <1>1, <1>2

LEMMA EndPlace ==
  ASSUME TypeOK, NEW S \in SUBSET Items
  PROVE  /\ \A n \in LastOf(S) : n # None => \A i \in S : order[i] <= n
         /\ \A n \in FirstOf(S) : n # None => \A i \in S : n <= order[i]
         /\ None \in LastOf(S) \cup FirstOf(S) => S = {}
  BY Constants DEF TypeOK, LastOf, FirstOf

LEMMA AfterLast ==
  ASSUME TypeOK, NEW S \in SUBSET Items, NEW i \in S, NEW low \in LastOf(S),
         NEW high \in Orders, high # None => high - low > 1
  PROVE  order[i] < NumberFor(low, high)
<1>1. low \in Orders /\ low # None /\ order[i] <= low
  BY EndTypes, EndPlace
<1>2. low < NumberFor(low, high) /\ NumberFor(low, high) \in Int
  BY <1>1, NumberPlace, NumberType
<1>3. order[i] \in Int /\ low \in Int
  BY <1>1 DEF TypeOK, Orders
<1> QED
  BY <1>1, <1>2, <1>3

LEMMA BeforeFirst ==
  ASSUME TypeOK, NEW S \in SUBSET Items, NEW i \in S, NEW high \in FirstOf(S),
         NEW low \in Orders, low # None => high - low > 1
  PROVE  NumberFor(low, high) < order[i]
<1>1. high \in Orders /\ high # None /\ high <= order[i]
  BY EndTypes, EndPlace
<1>2. NumberFor(low, high) < high /\ NumberFor(low, high) \in Int
  BY <1>1, NumberPlace, NumberType
<1>3. order[i] \in Int /\ high \in Int
  BY <1>1 DEF TypeOK, Orders
<1> QED
  BY <1>1, <1>2, <1>3

LEMMA ComputedPrepared ==
  ASSUME TypeOK, OrdersDistinct, Prepared, ReadOnly, NEW r \in Reqs, req[r].at # "idle",
         req[r].method = "pour" => req[r].at = "read", NEW lows \in SUBSET Orders,
         NEW highs \in SUBSET Orders, Computed(r, lows, highs),
         \A low \in lows, high \in highs :
            req[r].sound /\ (low # None /\ high # None => high - low > 1)
              => Fits(req[r], NumberFor(low, high))
  PROVE  OrdersDistinct' /\ Prepared'
<1>1. PICK low \in lows, high \in highs :
        req' = [req EXCEPT ![r] = [req[r] EXCEPT !.at = "write", !.low = None,
                  !.number = NumberFor(low, high),
                  !.sound = @ /\ (low # None /\ high # None => high - low > 1)]]
  BY DEF Computed
<1> DEFINE n == NumberFor(low, high)
           sound == req[r].sound /\ (low # None /\ high # None => high - low > 1)
           rec == [req[r] EXCEPT !.at = "write", !.low = None, !.number = n, !.sound = sound]
<1>2. req[r] \in Request
  BY DEF TypeOK
<1>3. req' = [req EXCEPT ![r] = rec]
  BY <1>1, <1>2 DEF Request
<1>4. sound => Fits(req[r], n) /\ Expected(req[r])
  BY DEF Prepared
<1> HIDE DEF n, sound
<1>5. /\ rec.at = "write" /\ rec.number = n /\ rec.sound = sound
      /\ rec.method = req[r].method /\ rec.item = req[r].item /\ rec.to = req[r].to
      /\ rec.before = req[r].before /\ rec.after = req[r].after /\ rec.top = req[r].top
      /\ rec.position = req[r].position /\ rec.many = req[r].many /\ rec.from = req[r].from
  BY <1>2 DEF Request
<1> HIDE DEF rec
<1>6. sound => Fits(rec, n)
  BY <1>4, <1>5 DEF Fits, Others
<1>7. sound => Expected(rec)
  BY <1>4, <1>5, <1>6 DEF Expected
<1> QED
  BY <1>3, <1>5, <1>7, SlotPrepared

\* SetToSeqs lines up all of a set.
LEMMA AllInRow ==
  ASSUME NEW S, IsFiniteSet(S), NEW many \in SetToSeqs(S)
  PROVE  ToSet(many) = S /\ \A j, k \in DOMAIN many : j # k => many[j] # many[k]
<1> DEFINE D == 1..Cardinality(S)
<1>1. Cardinality(S) \in Nat
  BY FS_CardinalityType
<1>2. many \in [D -> S] /\ \A j, k \in D : j # k => many[j] # many[k]
  BY DEF SetToSeqs
<1>3. IsFiniteSet(D) /\ Cardinality(D) = Cardinality(S)
  BY <1>1, FS_Interval
<1> HIDE DEF D
<1>4. many \in Injection(D, S)
  BY <1>2 DEF Injection, IsInjective
<1>5. many \in Surjection(D, S)
  BY <1>3, <1>4, FS_Injection
<1> QED
  BY <1>2, <1>5 DEF Surjection, ToSet

LEMMA ReadPrepared ==
  ASSUME TypeOK, OrdersDistinct, Prepared, NEW r \in Reqs,
         \/ CreateRead(r) \/ BeforeRead(r) \/ AfterRead(r) \/ PlaceRead(r) \/ CopyRead(r)
         \/ PourReadMany(r) \/ PourRead(r)
  PROVE  OrdersDistinct' /\ Prepared'
<1> DEFINE q == req[r]
<1>1. ReadOnly /\ q.at # "idle" /\ q \in Request /\ Equipped(q)
  BY DEF CreateRead, BeforeRead, AfterRead, PlaceRead, CopyRead, PourReadMany, PourRead, At,
         TypeOK
<1>2. q.sound => Expected(q)
  BY DEF Prepared
<1>3. /\ \A i \in Items : order[i] \in Int /\ order[i] \in Orders
      /\ {None} \in SUBSET Orders /\ None \notin Int
  BY Constants DEF TypeOK, Orders
<1>4. \A s : On(s) \in SUBSET Items
  BY DEF On
<1>5. CASE Finish(r)
  BY <1>1, <1>5, FinishPrepared
<1>6. CASE CreateRead(r) \/ PourRead(r)
  <2> DEFINE S == On(q.to)
  <2>1. S \in SUBSET Items /\ LastOf(S) \in SUBSET Orders /\ FirstOf(S) \in SUBSET Orders
    BY <1>4, EndTypes
  <2>2. q.method \in {"create", "pour"} /\ (q.method = "pour" => q.at = "read")
    BY <1>6 DEF CreateRead, PourRead, At
  <2>3. CASE Computed(r, LastOf(S), {None}) /\ (q.method = "create" => ~q.top)
    <3>1. ASSUME NEW low \in LastOf(S), NEW high \in {None}, NEW i \in S
          PROVE  order[i] < NumberFor(low, high)
      BY <1>3, <2>1, AfterLast
    <3>2. \A low \in LastOf(S), high \in {None} : Fits(q, NumberFor(low, high))
      <4> SUFFICES ASSUME NEW low \in LastOf(S), NEW high \in {None}
                   PROVE  Fits(q, NumberFor(low, high))
        OBVIOUS
      <4>1. NumberFor(low, high) \in Int
        BY <1>3, <2>1, NumberType
      <4> QED
        BY <1>3, <2>1, <2>2, <2>3, <3>1, <4>1 DEF Fits
    <3> QED
      BY <1>1, <1>3, <2>1, <2>2, <2>3, <3>2, ComputedPrepared
  <2>4. CASE Computed(r, {None}, FirstOf(S)) /\ q.method = "create" /\ q.top
    <3>1. ASSUME NEW low \in {None}, NEW high \in FirstOf(S), NEW i \in S
          PROVE  NumberFor(low, high) < order[i]
      BY <1>3, <2>1, BeforeFirst
    <3>2. \A low \in {None}, high \in FirstOf(S) : Fits(q, NumberFor(low, high))
      <4> SUFFICES ASSUME NEW low \in {None}, NEW high \in FirstOf(S)
                   PROVE  Fits(q, NumberFor(low, high))
        OBVIOUS
      <4>1. NumberFor(low, high) \in Int
        BY <1>3, <2>1, NumberType
      <4> QED
        BY <1>3, <2>1, <2>4, <3>1, <4>1 DEF Fits
    <3> QED
      BY <1>1, <1>3, <2>1, <2>4, <3>2, ComputedPrepared
  <2> QED
    BY <1>6, <2>3, <2>4 DEF CreateRead, PourRead, At
<1>7. CASE PlaceRead(r)
  <2> DEFINE others == On(q.to) \ (IF q.method = "place" THEN {q.item} ELSE {})
  <2>1. PICK first \in SUBSET others :
          /\ Cardinality(first) = Clamp(q.position, Cardinality(others))
          /\ Computed(r, LastOf(first), FirstOf(others \ first))
    BY <1>7 DEF PlaceRead
  <2>2. first \in SUBSET Items /\ others \ first \in SUBSET Items
    BY <1>4
  <2>3. LastOf(first) \in SUBSET Orders /\ FirstOf(others \ first) \in SUBSET Orders
    BY <2>2, EndTypes
  <2>4. ASSUME NEW low \in LastOf(first), NEW high \in FirstOf(others \ first), q.sound,
               low # None /\ high # None => high - low > 1
        PROVE  Fits(q, NumberFor(low, high))
    <3>1. NumberFor(low, high) \in Int
      BY <2>3, NumberType
    <3>2. \A i \in first : order[i] < NumberFor(low, high)
      <4>1. ASSUME NEW i \in first PROVE low # None
        BY <2>2, <2>3, EndPlace
      <4> QED
        BY <2>2, <2>3, <2>4, <4>1, AfterLast
    <3>3. \A i \in others \ first : NumberFor(low, high) < order[i]
      <4>1. ASSUME NEW i \in others \ first PROVE high # None
        BY <2>2, <2>3, EndPlace
      <4> QED
        BY <2>2, <2>3, <2>4, <4>1, BeforeFirst
    <3>4. \A i \in others : order[i] # NumberFor(low, high)
      BY <1>3, <2>2, <3>1, <3>2, <3>3
    <3>5. q.method \in {"place", "transfer"} /\ others = Others(q)
      BY <1>2, <1>7, <2>4 DEF PlaceRead, At, Expected, Others, On
    <3>6. {i \in others : order[i] < NumberFor(low, high)} = first
      <4>1. \A i \in others \ first : ~(order[i] < NumberFor(low, high))
        BY <1>3, <2>2, <3>1, <3>3
      <4> QED
        BY <3>2, <4>1
    <3> QED
      BY <2>1, <3>4, <3>5, <3>6 DEF Fits
  <2>5. \A low \in LastOf(first), high \in FirstOf(others \ first) :
          q.sound /\ (low # None /\ high # None => high - low > 1)
            => Fits(q, NumberFor(low, high))
    BY <2>4
  <2>6. q.method # "pour"
    BY <1>7 DEF PlaceRead, At
  <2> HIDE DEF others
  <2> QED
    BY <1>1, <2>1, <2>3, <2>5, <2>6, ComputedPrepared
<1>8. CASE CopyRead(r)
  <2> DEFINE later == {i \in On(q.to) : order[i] > q.low}
  <2>1. /\ Computed(r, {q.low}, FirstOf(later)) /\ q.method = "copy" /\ q.low \in Int
        /\ later \in SUBSET Items
    BY <1>1, <1>4, <1>8 DEF CopyRead, At, Equipped
  <2>2. {q.low} \in SUBSET Orders /\ FirstOf(later) \in SUBSET Orders
    BY <2>1, EndTypes DEF Orders
  <2>3. ASSUME NEW high \in FirstOf(later), q.sound, high # None => high - q.low > 1
        PROVE  Fits(q, NumberFor(q.low, high))
    <3>1. NumberFor(q.low, high) \in Int /\ q.low < NumberFor(q.low, high)
      BY <1>3, <2>1, <2>2, <2>3, NumberType, NumberPlace
    <3>2. \A i \in later : NumberFor(q.low, high) < order[i]
      <4>1. ASSUME NEW i \in later PROVE high # None
        BY <2>1, <2>2, EndPlace
      <4> QED
        BY <2>1, <2>2, <2>3, <4>1, BeforeFirst
    <3>3. \A i \in On(q.to) : i \in later \/ order[i] <= q.low
      BY <1>3, <1>4, <2>1
    <3>4. \A i \in On(q.to) : IF order[i] <= q.low THEN order[i] < NumberFor(q.low, high)
                              ELSE NumberFor(q.low, high) < order[i]
      BY <1>3, <1>4, <2>1, <3>1, <3>2, <3>3
    <3>5. shelf[q.before] = q.to /\ q.low = order[q.before]
      BY <1>2, <1>8, <2>3 DEF CopyRead, At, Expected
    <3> QED
      BY <2>1, <3>4, <3>5 DEF Fits
  <2> QED
    BY <1>1, <1>3, <2>1, <2>2, <2>3, ComputedPrepared
<1>9. CASE PourReadMany(r)
  <2>1. PICK many \in SetToSeqs(On(q.from)) :
          /\ \A j, k \in DOMAIN many : j < k => order[many[j]] <= order[many[k]]
          /\ req' = [req EXCEPT ![r] = [q EXCEPT !.at = "read", !.many = many]]
    BY <1>9 DEF PourReadMany
  <2> DEFINE rec == [q EXCEPT !.at = "read", !.many = many]
  <2>2. /\ rec.at = "read" /\ rec.method = "pour" /\ rec.many = many /\ rec.from = q.from
        /\ rec.to = q.to /\ rec.sound = q.sound /\ q.method = "pour"
    BY <1>1, <1>9 DEF PourReadMany, At, Request
  <2>3. req' = [req EXCEPT ![r] = rec]
    BY <2>1
  <2> HIDE DEF rec
  <2>4. IsFiniteSet(On(q.from))
    BY <1>4, OrderingAssumption, FS_Subset
  <2>5. /\ ToSet(many) = On(q.from)
        /\ \A j, k \in DOMAIN many : j # k => many[j] # many[k]
    BY <2>4, AllInRow
  <2>6. DOMAIN many \subseteq Int
    BY <2>4, FS_CardinalityType DEF SetToSeqs
  <2>7. Lined(many, q.from)
    BY <2>1, <2>5, <2>6 DEF Lined
  <2>8. rec.sound => Expected(rec)
    BY <1>2, <2>2, <2>7 DEF Expected
  <2> QED
    BY <1>1, <2>2, <2>3, <2>8, SlotPrepared
<1>10. ASSUME NEW low \in Orders, Become(r, [q EXCEPT !.at = "after", !.low = low]),
              q.method = "move",
              q.sound => /\ kind = "list" => shelf[q.item] = q.to
                         /\ q.before = None => low = None
                         /\ q.before # None => shelf[q.before] = q.to /\ low = order[q.before]
       PROVE  OrdersDistinct' /\ Prepared'
  <2> DEFINE rec == [q EXCEPT !.at = "after", !.low = low]
  <2>1. /\ rec.at = "after" /\ rec.method = "move" /\ rec.low = low /\ rec.to = q.to
        /\ rec.item = q.item /\ rec.before = q.before /\ rec.sound = q.sound
    BY <1>1, <1>10 DEF Request
  <2>2. req' = [req EXCEPT ![r] = rec]
    BY <1>10
  <2> HIDE DEF rec
  <2>3. rec.sound => Expected(rec)
    BY <1>10, <2>1 DEF Expected
  <2> QED
    BY <1>1, <2>1, <2>2, <2>3, SlotPrepared
<1>11. CASE BeforeRead(r)
  <2>1. /\ q.method = "move" /\ q.at = "before"
        /\ q.sound => q.low = None /\ (kind = "list" => shelf[q.item] = q.to)
    BY <1>2, <1>11 DEF BeforeRead, At, Expected
  <2>2. CASE q.before = None /\ Become(r, [q EXCEPT !.at = "after"])
    <3>1. [q EXCEPT !.at = "after", !.low = q.low] = [q EXCEPT !.at = "after"]
          /\ q.low \in Orders
      BY <1>1 DEF Request
    <3> QED
      BY <1>10, <2>1, <2>2, <3>1
  <2>3. CASE /\ q.before # None /\ shelf[q.before] = q.to
             /\ Become(r, [q EXCEPT !.at = "after", !.low = order[q.before]])
    <3>1. order[q.before] \in Orders
      BY <1>1, <1>3, <2>3 DEF Request, Ids
    <3> QED
      BY <1>10, <2>1, <2>3, <3>1
  <2> QED
    BY <1>5, <1>11, <2>2, <2>3 DEF BeforeRead
<1>12. CASE AfterRead(r)
  <2> DEFINE S == On(q.to)
             a == q.after
  <2>1. /\ q.method = "move" /\ q.at = "after" /\ q.low \in Orders
        /\ q.before # None => order[q.before] \in Int
        /\ a # None => order[a] \in Int /\ order[a] \in Orders
    BY <1>1, <1>3, <1>12 DEF AfterRead, At, Request, Ids
  <2>2. q.sound => /\ q.before = None <=> q.low = None
                   /\ q.before # None => shelf[q.before] = q.to /\ q.low = order[q.before]
    BY <1>2, <1>3, <2>1 DEF Expected
  <2>3. ASSUME NEW low \in Orders, NEW high \in Orders, q.sound, q.low # None => low = q.low,
               low # None /\ high # None => high - low > 1,
               a # None => shelf[a] = q.to /\ high = order[a],
               q.before = None /\ a = None =>
                 \A i \in S : order[i] < NumberFor(low, high)
        PROVE  Fits(q, NumberFor(low, high))
    <3>1. q.before # None => order[q.before] < NumberFor(low, high)
      BY <1>3, <2>1, <2>2, <2>3, NumberPlace
    <3>2. a # None => NumberFor(low, high) < order[a]
      BY <1>3, <2>1, <2>3, NumberPlace
    <3> QED
      BY <2>1, <2>2, <2>3, <3>1, <3>2 DEF Fits
  <2>4. CASE a = None /\ q.low = None /\ Computed(r, LastOf(S), {None})
    <3>1. S \in SUBSET Items /\ LastOf(S) \in SUBSET Orders
      BY <1>4, EndTypes
    <3>2. \A low \in LastOf(S), i \in S : order[i] < NumberFor(low, None)
      BY <1>3, <3>1, AfterLast
    <3>3. \A low \in LastOf(S), high \in {None} : q.sound => Fits(q, NumberFor(low, high))
      BY <1>3, <2>3, <2>4, <3>1, <3>2
    <3> QED
      BY <1>1, <1>3, <2>1, <2>4, <3>1, <3>3, ComputedPrepared
  <2>5. CASE a = None /\ q.low # None /\ Computed(r, {q.low}, {None})
    <3>1. \A low \in {q.low}, high \in {None} : q.sound => Fits(q, NumberFor(low, high))
      BY <1>3, <2>1, <2>2, <2>3, <2>5
    <3>2. {q.low} \in SUBSET Orders
      BY <2>1
    <3> QED
      BY <1>1, <1>3, <2>1, <2>5, <3>1, <3>2, ComputedPrepared
  <2>6. CASE a # None /\ shelf[a] = q.to /\ Computed(r, {q.low}, {order[a]})
    <3>1. \A low \in {q.low}, high \in {order[a]} :
            q.sound /\ (low # None /\ high # None => high - low > 1)
              => Fits(q, NumberFor(low, high))
      BY <2>1, <2>3, <2>6
    <3>2. {q.low} \in SUBSET Orders /\ {order[a]} \in SUBSET Orders
      BY <2>1, <2>6
    <3> QED
      BY <1>1, <2>1, <2>6, <3>1, <3>2, ComputedPrepared
  <2> QED
    BY <1>5, <1>12, <2>4, <2>5, <2>6 DEF AfterRead
<1> QED
  BY <1>6, <1>7, <1>8, <1>9, <1>11, <1>12

\* A row that gets a number without an equal on the shelf it goes to.
LEMMA OneRow ==
  ASSUME TypeOK, OrdersDistinct, NEW i \in Items, NEW t, NEW n \in Int,
         shelf' = [shelf EXCEPT ![i] = t], order' = [order EXCEPT ![i] = n], open' = open,
         tidy' => tidy /\ \A j \in On(t) \ {i} : order[j] # n
  PROVE  OrdersDistinct'
<1>1. /\ shelf'[i] = t /\ order'[i] = n
      /\ \A j \in Items \ {i} : shelf'[j] = shelf[j] /\ order'[j] = order[j]
  BY DEF TypeOK
<1>2. \A j \in Items \ {i} : shelf[j] = t => j \in On(t) \ {i}
  BY DEF On
<1>3. ASSUME tidy', NEW j \in Items, NEW k \in Items, j # k, shelf'[j] \in open',
             shelf'[j] = shelf'[k]
      PROVE  order'[j] # order'[k]
  <2>1. CASE j = i
    BY <1>1, <1>2, <1>3, <2>1
  <2>2. CASE k = i
    BY <1>1, <1>2, <1>3, <2>2
  <2>3. CASE j # i /\ k # i
    BY <1>1, <1>3, <2>3 DEF OrdersDistinct
  <2> QED
    BY <2>1, <2>2, <2>3
<1> QED
  BY <1>3 DEF OrdersDistinct

\* Multiples of ORDER_STEP.
LEMMA NaturalProduct ==
  ASSUME NEW a \in Nat, NEW b \in Nat
  PROVE  a * b \in Nat
  OBVIOUS

LEMMA GrowingMultiples ==
  ASSUME NEW a \in Int, NEW b \in Int, a < b
  PROVE  (a - 1) * Step < (b - 1) * Step
<1> DEFINE x == a - 1
           y == b - 1
<1>1. x \in Int /\ y \in Int /\ y - x \in Nat /\ y - x > 0 /\ Step \in Nat /\ Step > 0
  BY Constants
<1> HIDE DEF x, y
<1>2. (y - x) * Step > 0
  BY <1>1
<1>3. y * Step = x * Step + (y - x) * Step
  BY <1>1
<1>4. x * Step \in Int /\ y * Step \in Int /\ (y - x) * Step \in Int
  BY <1>1
<1>5. x * Step < y * Step
  BY <1>2, <1>3, <1>4
<1> QED
  BY <1>5 DEF x, y

LEMMA DistinctMultiples ==
  ASSUME NEW a \in Int, NEW b \in Int, a # b
  PROVE  (a - 1) * Step # (b - 1) * Step
<1>1. (a - 1) * Step \in Int /\ (b - 1) * Step \in Int
  BY Constants
<1>2. a < b \/ b < a
  OBVIOUS
<1> QED
  BY <1>1, <1>2, GrowingMultiples

LEMMA WritePrepared ==
  ASSUME TypeOK, OrdersDistinct, Prepared, NEW r \in Reqs,
         CreateWrite(r) \/ MoveWrite(r) \/ PourWrite(r)
  PROVE  OrdersDistinct' /\ Prepared'
<1> DEFINE q == req[r]
<1>1. q.at = "write" /\ q \in Request /\ Equipped(q) /\ q.number \in Int
  BY DEF CreateWrite, MoveWrite, PourWrite, At, TypeOK, Equipped
<1>2. q.sound => Expected(q) /\ Fits(q, q.number)
  BY <1>1 DEF Prepared, Expected
<1>3. CASE Refused(r)
  BY <1>3, FinishPrepared DEF Refused
<1>4. ASSUME Written(r) PROVE Prepared' /\ open' = open /\ (tidy' => tidy /\ q.sound /\ Careful(q))
  <2>1. kind' = kind /\ \A p \in Reqs : req'[p] = Idle \/ (~Free(p) /\ req'[p] = Outdated(req[p]))
    BY <1>4 DEF Written
  <2>2. Prepared'
    BY <2>1, OthersPrepared
  <2> QED
    BY <1>4, <2>2 DEF Written, Careful
<1>5. CASE CreateWrite(r)
  <2>1. CASE Refused(r)
    BY <1>3, <2>1
  <2>2. CASE \E i \in On("unborn") : /\ shelf' = [shelf EXCEPT ![i] = q.to]
                                     /\ order' = [order EXCEPT ![i] = q.number]
                                     /\ Written(r)
    <3>1. PICK i \in Items : /\ shelf' = [shelf EXCEPT ![i] = q.to]
                             /\ order' = [order EXCEPT ![i] = q.number]
                             /\ Written(r)
      BY <2>2 DEF On
    <3>2. q.sound => \A j \in On(q.to) : order[j] # q.number
      <4>1. ASSUME q.sound, NEW j \in On(q.to) PROVE order[j] # q.number
        <5>1. order[j] \in Int
          BY DEF TypeOK, On
        <5> QED
          BY <1>1, <1>2, <1>5, <4>1, <5>1 DEF CreateWrite, At, Fits
      <4> QED
        BY <4>1
    <3> QED
      BY <1>1, <1>4, <3>1, <3>2, OneRow
  <2> QED
    BY <1>5, <2>1, <2>2 DEF CreateWrite
<1>6. CASE MoveWrite(r)
  <2> DEFINE i == q.item
             to == IF kind = "card" \/ q.method = "transfer" THEN q.to ELSE shelf[i]
  <2>1. CASE Refused(r)
    BY <1>3, <2>1
  <2>2. CASE /\ shelf' = [shelf EXCEPT ![i] = to] /\ order' = [order EXCEPT ![i] = q.number]
             /\ Written(r)
    <3>1. i \in Items /\ q.method \in {"move", "place", "transfer"} /\ kind \in {"card", "list"}
      BY <1>1, <1>6, OrderingAssumption DEF MoveWrite, At, Equipped, TypeOK
    <3>2. q.sound => to = q.to
      BY <1>2, <3>1 DEF Expected
    <3>3. ASSUME q.sound, Careful(q), NEW j \in On(q.to) \ {i} PROVE order[j] # q.number
      <4>1. CASE q.method \in {"place", "transfer"}
        BY <1>2, <3>3, <4>1 DEF Fits, Others
      <4>2. CASE q.method = "move"
        <5> DEFINE b == q.before
                   a == q.after
        <5>1. Adjacent(q) /\ j \in Items
          BY <3>3, <4>2 DEF Careful, On
        <5>2. /\ b # None => b \in Items /\ order[b] < q.number
              /\ a # None => a \in Items /\ q.number < order[a]
              /\ b = None /\ a = None => order[j] < q.number
          BY <1>1, <1>2, <3>3, <4>2 DEF Fits, Request, Ids
        <5>3. /\ order[j] \in Int
              /\ b # None => order[b] \in Int
              /\ a # None => order[a] \in Int
          BY <5>1, <5>2 DEF TypeOK
        <5>4. \/ b = None /\ a = None
              \/ b # None /\ ~(order[j] > order[b])
              \/ a # None /\ ~(order[j] < order[a])
          <6> DEFINE others == On(q.to) \ {q.item}
                     above == IF b = None THEN {} ELSE {k \in others : order[k] > order[b]}
                     below == IF a = None THEN {} ELSE {k \in others : order[k] < order[a]}
          <6>1. /\ a = None => above = {}
                /\ b = None => below = {}
                /\ above \cap below = {}
            BY <5>1 DEF Adjacent
          <6> QED
            BY <3>3, <6>1
        <5> QED
          BY <1>1, <5>2, <5>3, <5>4
      <4> QED
        BY <3>1, <4>1, <4>2
    <3>4. tidy' => tidy /\ \A j \in On(to) \ {i} : order[j] # q.number
      BY <1>4, <2>2, <3>2, <3>3
    <3> HIDE DEF i, to
    <3> QED
      BY <1>1, <1>4, <2>2, <3>1, <3>4, OneRow
  <2> QED
    BY <1>6, <2>1, <2>2 DEF MoveWrite
<1>7. CASE PourWrite(r)
  <2> DEFINE many == ToSet(q.many)
             index(i) == CHOOSE k \in DOMAIN q.many : q.many[k] = i
  <2>1. CASE Refused(r)
    BY <1>3, <2>1
  <2>2. CASE /\ shelf' = [i \in Items |-> IF i \in many THEN q.to ELSE shelf[i]]
             /\ order' = [i \in Items |-> IF i \in many
                             THEN q.number + (index(i) - 1) * Step ELSE order[i]]
             /\ Written(r)
    <3>1. \A i \in many : index(i) \in Nat \ {0} /\ q.many[index(i)] = i
      <4>1. \A i \in many : \E k \in DOMAIN q.many : q.many[k] = i
        BY DEF ToSet
      <4>2. q.many \in Seq(Items)
        BY <1>1 DEF Request
      <4>3. DOMAIN q.many \subseteq Nat \ {0}
        BY <4>2
      <4> QED
        BY <4>1, <4>3
    <3> HIDE DEF index
    <3> DEFINE number(i) == q.number + (index(i) - 1) * Step
    <3>2. ASSUME NEW i \in many PROVE number(i) \in Int /\ q.number <= number(i)
      <4>1. index(i) - 1 \in Nat /\ Step \in Nat
        BY <3>1, Constants
      <4>2. (index(i) - 1) * Step \in Nat
        BY <4>1, NaturalProduct
      <4> QED
        BY <1>1, <4>2
    <3>3. ASSUME NEW i \in many, NEW j \in many, i # j PROVE number(i) # number(j)
      <4>1. index(i) \in Nat \ {0} /\ index(j) \in Nat \ {0} /\ index(i) # index(j)
        BY <3>1, <3>3
      <4>2. (index(i) - 1) * Step # (index(j) - 1) * Step
        BY <4>1, DistinctMultiples
      <4>3. (index(i) - 1) * Step \in Int /\ (index(j) - 1) * Step \in Int
        BY <4>1, Constants
      <4> DEFINE x == (index(i) - 1) * Step
                 y == (index(j) - 1) * Step
      <4>4. x # y /\ x \in Int /\ y \in Int
        BY <4>2, <4>3
      <4> HIDE DEF x, y
      <4>5. q.number + x # q.number + y
        BY <1>1, <4>4
      <4> QED
        BY <4>5 DEF x, y
    <3>4. q.sound => \A i \in On(q.to) : order[i] < q.number
      BY <1>2, <1>7 DEF PourWrite, At, Fits
    <3>5. \A i \in Items : /\ shelf'[i] = IF i \in many THEN q.to ELSE shelf[i]
                           /\ order'[i] = IF i \in many THEN number(i) ELSE order[i]
      BY <2>2
    <3>6. tidy' => tidy /\ q.sound
      BY <1>4, <2>2
    <3> HIDE DEF many, number
    <3>7. ASSUME tidy', NEW i \in Items, NEW j \in Items, i # j, i \in many, j \notin many,
                 shelf'[i] = shelf'[j]
          PROVE  order'[i] # order'[j]
      <4>1. j \in On(q.to)
        BY <3>5, <3>7 DEF On
      <4>2. order[j] < q.number /\ q.number <= number(i) /\ order[j] \in Int
        BY <3>2, <3>4, <3>6, <3>7, <4>1 DEF TypeOK
      <4> QED
        BY <1>1, <3>2, <3>5, <3>7, <4>2
    <3>8. ASSUME tidy', NEW i \in Items, NEW j \in Items, i # j, shelf'[i] \in open',
                 shelf'[i] = shelf'[j]
          PROVE  order'[i] # order'[j]
      <4>1. CASE i \in many /\ j \in many
        BY <3>3, <3>5, <3>8, <4>1
      <4>2. CASE i \in many <=> j \notin many
        BY <3>7, <3>8, <4>2
      <4>3. CASE i \notin many /\ j \notin many
        BY <1>4, <2>2, <3>5, <3>6, <3>8, <4>3 DEF OrdersDistinct
      <4> QED
        BY <4>1, <4>2, <4>3
    <3> QED
      BY <1>4, <2>2, <3>8 DEF OrdersDistinct
  <2> QED
    BY <1>7, <2>1, <2>2 DEF PourWrite
<1> QED
  BY <1>5, <1>6, <1>7

LEMMA DeletePrepared ==
  ASSUME TypeOK, OrdersDistinct, Prepared, NEW gone, NEW closed, Delete(gone, closed)
  PROVE  OrdersDistinct' /\ Prepared'
<1>1. \A q \in Reqs : req'[q] = Idle \/ (~Free(q) /\ req'[q] = Outdated(req[q]))
  BY DEF Delete
<1>2. Prepared'
  BY <1>1, OthersPrepared DEF Delete
<1>3. \A i \in Items : shelf'[i] \in open' =>
        i \notin gone /\ shelf'[i] = shelf[i] /\ order'[i] = order[i] /\ shelf[i] \in open
  BY Constants DEF Delete, TypeOK
<1>4. tidy' = tidy
  BY DEF Delete
<1> QED
  BY <1>2, <1>3, <1>4 DEF OrdersDistinct

LEMMA InvInit == Init => Inv
<1> SUFFICES ASSUME Init PROVE Inv
  OBVIOUS
<1>1. OrdersDistinct
  BY Constants DEF Init, OrdersDistinct
<1>2. Prepared
  BY DEF Init, Prepared, Free, Expected, Idle
<1> QED
  BY <1>1, <1>2, TypeInit DEF Inv

LEMMA InvStep == Inv /\ [Next]_vars => Inv'
<1> SUFFICES ASSUME TypeOK, OrdersDistinct, Prepared, [Next]_vars
             PROVE  OrdersDistinct' /\ Prepared'
  BY TypeStep DEF Inv
<1>1. CASE RemoveItem \/ RemoveShelf
  BY <1>1, DeletePrepared DEF RemoveItem, RemoveShelf
<1>2. ASSUME NEW r \in Reqs, Abort(r) PROVE OrdersDistinct' /\ Prepared'
  BY <1>2, FinishPrepared DEF Abort
<1>3. CASE UNCHANGED vars
  <2>1. UNCHANGED <<kind, shelf, order, open, req, tidy>>
    BY <1>3 DEF vars, rows
  <2>2. \A q \in Reqs : Expected(req[q])' <=> Expected(req[q])
    BY <2>1 DEF Expected, Fits, Others, Lined, On
  <2> QED
    BY <2>1, <2>2 DEF OrdersDistinct, Prepared, Free
<1> QED
  BY <1>1, <1>2, <1>3, ArrivePrepared, ReadPrepared, WritePrepared DEF Next

----------------------------------------------------------------------------
(* Where items are put                                                       *)

Arranged(r) ==
    \/ UNCHANGED rows
    \/ req[r].method = "pour" /\ Appended(req[r])
    \/ req[r].method \in {"create", "copy"} /\ \E i \in On("unborn") : Inserted(req[r], i)
    \/ req[r].method \in {"move", "place", "transfer"} /\ Inserted(req[r], req[r].item)

\* What a careful request knows when it writes.
LEMMA Known ==
  ASSUME Inv, NEW r \in Reqs, req[r].at = "write", Careful(req[r])
  PROVE  /\ req[r] \in Request /\ Equipped(req[r]) /\ req[r].number \in Int
         /\ req[r].to \in Shelves /\ Expected(req[r]) /\ Fits(req[r], req[r].number)
         /\ \A i \in Items : order[i] \in Int
<1>1. req[r] \in Request /\ Equipped(req[r]) /\ \A i \in Items : order[i] \in Int
  BY DEF Inv, TypeOK
<1>2. req[r].number \in Int /\ req[r].to \in Shelves
  BY <1>1 DEF Equipped
<1>3. Expected(req[r])
  BY DEF Inv, Prepared, Careful
<1> QED
  BY <1>1, <1>2, <1>3 DEF Expected

LEMMA ArrangedCreate ==
  ASSUME Inv, NEW r \in Reqs, Careful(req[r]), CreateWrite(r)
  PROVE  Arranged(r)
<1> DEFINE q == req[r]
           n == q.number
<1>1. q.at = "write" /\ q.method \in {"create", "copy"}
  BY DEF CreateWrite, At
<1>2. /\ q \in Request /\ Equipped(q) /\ n \in Int /\ q.to \in Shelves /\ Fits(q, n)
      /\ \A i \in Items : order[i] \in Int
  BY <1>1, Known
<1>3. CASE Refused(r)
  BY <1>3 DEF Refused, ReadOnly, Arranged
<1>4. ASSUME NEW i \in On("unborn"), shelf' = [shelf EXCEPT ![i] = q.to],
             order' = [order EXCEPT ![i] = n]
      PROVE  Arranged(r)
  <2> DEFINE others == On(q.to) \ {i}
             ahead == {j \in others : order'[j] < order'[i]}
  <2>1. i \in Items /\ i \notin On(q.to)
    BY <1>2, Constants DEF On
  <2>2. /\ shelf'[i] = q.to /\ order'[i] = n
        /\ \A j \in Items \ {i} : shelf'[j] = shelf[j] /\ order'[j] = order[j]
    BY <1>4, <2>1 DEF Inv, TypeOK
  <2>3. others = On(q.to) /\ others \subseteq Items \ {i}
    BY <2>1 DEF On
  <2>4. ahead = {j \in others : order[j] < n}
    BY <2>2, <2>3
  <2>5. \A j \in others : order[j] \in Int
    BY <1>2, <2>3
  <2> HIDE DEF others, ahead
  <2>6. ASSUME q.method = "create" PROVE Asked(q, others, ahead)
    <3>1. \A j \in others : IF q.top THEN n < order[j] ELSE order[j] < n
      BY <1>2, <2>3, <2>6 DEF Fits
    <3>2. ahead = IF q.top THEN {} ELSE others
      BY <1>2, <2>4, <2>5, <3>1
    <3> QED
      BY <2>6, <3>2 DEF Asked
  <2>7. ASSUME q.method = "copy" PROVE Asked(q, others, ahead)
    <3>1. \A j \in others : IF order[j] <= order[q.before] THEN order[j] < n ELSE n < order[j]
      BY <1>2, <2>3, <2>7 DEF Fits
    <3>2. ahead = {j \in others : order[j] <= order[q.before]}
      BY <1>2, <2>4, <2>5, <3>1
    <3> QED
      BY <2>7, <3>2 DEF Asked
  <2>8. Asked(q, others, ahead)
    BY <1>1, <2>6, <2>7
  <2>9. Inserted(q, i)
    BY <2>2, <2>8 DEF Inserted, others, ahead
  <2> QED
    BY <1>1, <1>4, <2>9 DEF Arranged
<1> QED
  BY <1>3, <1>4 DEF CreateWrite

\* Between neighbours with nothing between them there is one place.
LEMMA AskedMove ==
  ASSUME Inv, NEW r \in Reqs, req[r].at = "write", Careful(req[r]), req[r].method = "move"
  PROVE  Asked(req[r], Others(req[r]), {j \in Others(req[r]) : order[j] < req[r].number})
<1> DEFINE q == req[r]
           n == q.number
           b == q.before
           a == q.after
           others == Others(q)
           ahead == {j \in others : order[j] < n}
<1>1. /\ q \in Request /\ n \in Int /\ Fits(q, n)
      /\ \A i \in Items : order[i] \in Int
  BY Known
<1>2. /\ b # None => b \in Items /\ order[b] \in Int /\ order[b] < n
      /\ a # None => a \in Items /\ order[a] \in Int /\ n < order[a]
      /\ b = None /\ a = None => \A i \in On(q.to) : order[i] < n
  BY <1>1 DEF Fits, Request, Ids
<1>3. \A j \in others : j \in On(q.to) /\ order[j] \in Int
  BY <1>1 DEF Others, On
<1> DEFINE above == IF b = None THEN {} ELSE {i \in others : order[i] > order[b]}
           below == IF a = None THEN {} ELSE {i \in others : order[i] < order[a]}
<1>4. /\ a = None => above = {}
      /\ b = None => below = {}
      /\ above \cap below = {}
  BY DEF Careful, Adjacent, Others
<1>5. ASSUME NEW j \in others, b # None PROVE order[j] < n <=> order[j] <= order[b]
  <2>1. order[j] > order[b] => j \in above
    BY <1>5
  <2>2. a # None /\ j \notin below => ~(order[j] < order[a])
    BY <1>5
  <2>3. order[j] > order[b] => a # None /\ j \notin below
    BY <1>4, <2>1
  <2> HIDE DEF above, below
  <2> QED
    BY <1>1, <1>2, <1>3, <1>5, <2>2, <2>3
<1>6. ASSUME NEW j \in others, a # None PROVE order[j] < n <=> order[j] < order[a]
  <2>1. order[j] < order[a] => j \in below
    BY <1>6
  <2>2. b # None /\ j \notin above => ~(order[j] > order[b])
    BY <1>6
  <2>3. order[j] < order[a] => b # None /\ j \notin above
    BY <1>4, <2>1
  <2> HIDE DEF above, below
  <2> QED
    BY <1>1, <1>2, <1>3, <1>6, <2>2, <2>3
<1>7. b # None => ahead = {j \in others : order[j] <= order[b]}
  BY <1>5
<1>8. a # None => ahead = {j \in others : order[j] < order[a]}
  BY <1>6
<1>9. b = None /\ a = None => ahead = others
  BY <1>2, <1>3
<1> HIDE DEF others, ahead
<1>10. Asked(q, others, ahead)
  BY <1>7, <1>8, <1>9 DEF Asked
<1> QED
  BY <1>10 DEF others, ahead

LEMMA AskedPlace ==
  ASSUME Inv, NEW r \in Reqs, req[r].at = "write", Careful(req[r]),
         req[r].method \in {"place", "transfer"}
  PROVE  Asked(req[r], Others(req[r]), {j \in Others(req[r]) : order[j] < req[r].number})
<1> DEFINE q == req[r]
<1>1. q \in Request /\ Fits(q, q.number)
  BY Known
<1>2. q.position \in Nat /\ Cardinality(Others(q)) \in Nat
  <2>1. Others(q) \in SUBSET Items
    BY DEF Others, On
  <2>2. IsFiniteSet(Others(q))
    BY <2>1, OrderingAssumption, FS_Subset
  <2> QED
    BY <1>1, <2>2, FS_CardinalityType DEF Request
<1>3. \A p, c \in Nat : Clamp(p, c) = IF p > c THEN c ELSE p - 1
  BY DEF Clamp
<1>4. Cardinality({j \in Others(q) : order[j] < q.number}) = Clamp(q.position, Cardinality(Others(q)))
  BY <1>1 DEF Fits
<1> QED
  BY <1>2, <1>3, <1>4 DEF Asked

LEMMA ArrangedMove ==
  ASSUME Inv, NEW r \in Reqs, Careful(req[r]), MoveWrite(r)
  PROVE  Arranged(r)
<1> DEFINE q == req[r]
           n == q.number
           i == q.item
           to == IF kind = "card" \/ q.method = "transfer" THEN q.to ELSE shelf[i]
<1>1. q.at = "write" /\ q.method \in {"move", "place", "transfer"}
  BY DEF MoveWrite, At
<1>2. q \in Request /\ Equipped(q) /\ n \in Int /\ q.to \in Shelves /\ Expected(q)
  BY <1>1, Known
<1>3. i \in Items /\ kind \in {"card", "list"}
  BY <1>1, <1>2, OrderingAssumption DEF Equipped, Inv, TypeOK
<1>4. to = q.to
  BY <1>1, <1>2, <1>3 DEF Expected
<1>5. CASE Refused(r)
  BY <1>5 DEF Refused, ReadOnly, Arranged
<1>6. CASE shelf' = [shelf EXCEPT ![i] = to] /\ order' = [order EXCEPT ![i] = n]
  <2>1. /\ shelf'[i] = q.to /\ order'[i] = n
        /\ \A j \in Items \ {i} : shelf'[j] = shelf[j] /\ order'[j] = order[j]
    BY <1>3, <1>4, <1>6 DEF Inv, TypeOK
  <2>2. Others(q) = On(q.to) \ {i} /\ Others(q) \subseteq Items \ {i}
    BY DEF Others, On
  <2>3. Asked(q, Others(q), {j \in Others(q) : order[j] < n})
    BY <1>1, AskedMove, AskedPlace
  <2>4. {j \in Others(q) : order'[j] < order'[i]} = {j \in Others(q) : order[j] < n}
    BY <2>1, <2>2
  <2>5. Inserted(q, i)
    BY <2>1, <2>2, <2>3, <2>4 DEF Inserted
  <2> QED
    BY <1>1, <2>5 DEF Arranged
<1> QED
  BY <1>5, <1>6 DEF MoveWrite

LEMMA ArrangedPour ==
  ASSUME Inv, NEW r \in Reqs, Careful(req[r]), PourWrite(r)
  PROVE  Arranged(r)
<1> DEFINE q == req[r]
           n == q.number
           many == ToSet(q.many)
           index(i) == CHOOSE k \in DOMAIN q.many : q.many[k] = i
<1>1. q.at = "write" /\ q.method = "pour"
  BY DEF PourWrite, At
<1>2. /\ q \in Request /\ n \in Int /\ Expected(q) /\ Fits(q, n)
      /\ \A i \in Items : order[i] \in Int
  BY <1>1, Known
<1>3. /\ q.from # q.to /\ many = On(q.from)
      /\ \A j, k \in DOMAIN q.many : j < k => order[q.many[j]] <= order[q.many[k]]
  BY <1>1, <1>2 DEF Expected, Lined
<1>4. \A i \in On(q.to) : order[i] < n
  BY <1>1, <1>2 DEF Fits
<1>5. CASE Refused(r)
  BY <1>5 DEF Refused, ReadOnly, Arranged
<1>6. CASE /\ shelf' = [i \in Items |-> IF i \in many THEN q.to ELSE shelf[i]]
           /\ order' = [i \in Items |-> IF i \in many THEN n + (index(i) - 1) * Step
                                        ELSE order[i]]
  <2>1. \A i \in many : index(i) \in DOMAIN q.many /\ q.many[index(i)] = i
    <3>1. \A i \in many : \E k \in DOMAIN q.many : q.many[k] = i
      BY DEF ToSet
    <3> QED
      BY <3>1
  <2>2. DOMAIN q.many \subseteq Nat \ {0}
    <3>1. q.many \in Seq(Items)
      BY <1>2 DEF Request
    <3> QED
      BY <3>1
  <2> HIDE DEF index
  <2>3. \A i \in many : index(i) \in Nat \ {0} /\ (index(i) - 1) * Step \in Nat
    <3>1. ASSUME NEW i \in many PROVE index(i) - 1 \in Nat /\ Step \in Nat
      BY <2>1, <2>2, Constants
    <3> QED
      BY <2>1, <2>2, <3>1, NaturalProduct
  <2>4. ASSUME NEW i \in many, NEW j \in many, order[j] < order[i]
        PROVE  (index(j) - 1) * Step < (index(i) - 1) * Step
    <3>1. order[i] \in Int /\ order[j] \in Int
      BY <1>2, <1>3, <2>4 DEF On
    <3>2. index(j) < index(i)
      BY <1>3, <2>1, <2>3, <2>4, <3>1
    <3> QED
      BY <2>3, <3>2, GrowingMultiples
  <2> DEFINE offset(i) == (index(i) - 1) * Step
  <2>5. \A i \in Items : /\ shelf'[i] = IF i \in many THEN q.to ELSE shelf[i]
                         /\ order'[i] = IF i \in many THEN n + offset(i) ELSE order[i]
    BY <1>6
  <2>6. /\ \A i \in many : i \in Items /\ offset(i) \in Nat
        /\ \A i, j \in many : order[j] < order[i] => offset(j) < offset(i)
    BY <1>3, <2>3, <2>4 DEF On
  <2> HIDE DEF offset, many
  <2>7. ASSUME NEW i \in many
        PROVE  /\ shelf'[i] = q.to
               /\ \A j \in On(q.to) : order'[j] < order'[i]
               /\ \A j \in many : order[j] < order[i] => order'[j] < order'[i]
    <3>1. \A j \in On(q.to) : j \in Items /\ j \notin many /\ order[j] \in Int
      BY <1>2, <1>3 DEF On
    <3> QED
      BY <1>2, <1>4, <2>5, <2>6, <3>1
  <2>8. Appended(q)
    BY <1>3, <2>5, <2>7 DEF Appended
  <2> QED
    BY <1>1, <2>8 DEF Arranged
<1> QED
  BY <1>5, <1>6 DEF PourWrite

\* Only a request's own write answers it.
LEMMA NextArranged ==
  ASSUME Inv, [Next]_vars, NEW r \in Reqs, Answered(r), Careful(req[r])
  PROVE  Arranged(r)
<1>1. req[r] \in Request /\ req[r].at = "write" /\ req'[r] = Idle /\ Idle.at = "idle"
  BY IdleType DEF Inv, TypeOK, Answered, Free
<1>2. ~Free(r) /\ req'[r] # Outdated(req[r])
  BY <1>1 DEF Free, Outdated, Request
<1>3. CASE ReadOnly \/ UNCHANGED vars
  BY <1>3 DEF ReadOnly, vars, Arranged
<1>4. ASSUME NEW q \in Reqs, CreateWrite(q) \/ MoveWrite(q) \/ PourWrite(q) PROVE Arranged(r)
  <2>1. CASE q = r
    BY <1>4, <2>1, ArrangedCreate, ArrangedMove, ArrangedPour
  <2>2. CASE Refused(q)
    BY <1>3, <2>2 DEF Refused
  <2>3. CASE q # r /\ Written(q)
    BY <1>2, <2>3 DEF Written
  <2> QED
    BY <1>4, <2>1, <2>2, <2>3 DEF CreateWrite, MoveWrite, PourWrite
<1>5. CASE RemoveItem \/ RemoveShelf
  BY <1>2, <1>5 DEF RemoveItem, RemoveShelf, Delete
<1>6. ASSUME NEW q \in Reqs,
             \/ ArriveCreate(q) \/ ArriveMove(q) \/ ArrivePlace(q) \/ ArriveCopy(q) \/ ArrivePour(q)
      PROVE  Arranged(r)
  BY <1>3, <1>6 DEF Arrive, ArriveCreate, ArriveMove, ArrivePlace, ArriveCopy, ArrivePour
<1>7. ASSUME NEW q \in Reqs,
             \/ CreateRead(q) \/ BeforeRead(q) \/ AfterRead(q) \/ PlaceRead(q) \/ CopyRead(q)
             \/ PourReadMany(q) \/ PourRead(q) \/ Abort(q)
      PROVE  Arranged(r)
  BY <1>3, <1>7 DEF CreateRead, BeforeRead, AfterRead, PlaceRead, CopyRead, PourReadMany,
     PourRead, Abort
<1> QED
  BY <1>3, <1>4, <1>5, <1>6, <1>7 DEF Next

----------------------------------------------------------------------------
(* The theorems                                                              *)

\* Every variable of Ordering keeps its type, and a request in flight names the
\* shelf, item and number that its next statement uses.
THEOREM TypeCorrect == Spec => []TypeOK
<1> QED
  BY TypeInit, TypeStep, PTL DEF Spec

\* Careful requests never give two cards of a list, or two lists of a board,
\* the same number, for any number of items, shelves and requests in flight and
\* any ORDER_STEP.
THEOREM OrderSafe == Spec => []OrdersDistinct
<1>1. Inv => OrdersDistinct
  BY DEF Inv
<1> QED
  BY <1>1, InvInit, InvStep, PTL DEF Spec

\* A careful write puts its item exactly where the request asked, between its
\* neighbours, at its position, after the list it copies or at an end, and moves
\* nothing else; moveAllCards appends the cards in the order they had.
THEOREM ArrangementSafe == Spec => ArrangedAsAsked
<1>1. Inv /\ [Next]_vars
      => [\A r \in Reqs : Answered(r) /\ Careful(req[r]) /\ tidy' =>
            \/ UNCHANGED rows
            \/ req[r].method = "pour" /\ Appended(req[r])
            \/ req[r].method \in {"create", "copy"} /\ \E i \in On("unborn") : Inserted(req[r], i)
            \/ req[r].method \in {"move", "place", "transfer"} /\ Inserted(req[r], req[r].item)]_vars
  BY NextArranged DEF Arranged
<1> QED
  BY <1>1, InvInit, InvStep, PTL DEF Spec, ArrangedAsAsked
=============================================================================

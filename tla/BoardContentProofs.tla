------------------------ MODULE BoardContentProofs ------------------------
(* Theorems about BoardContent, for any number of rows, users and requests, *)
(* whatever takes part, and also when requests arrive after a late write:   *)
(* the rows form trees below their boards, a request writes on the board it *)
(* was admitted to, labels and assignees are at home, and a public template *)
(* is frozen.                                                               *)
EXTENDS BoardContent, SequenceTheorems, TLAPS

(***************************************************************************)
(* Trees.  A write replaces parent as a whole, so what is known of trees   *)
(* is stated of any function f, and of a tree f that becomes a tree g.     *)
(***************************************************************************)

Over(f, x) == IF x \in Rows THEN f[x] ELSE x
Root(f, x) == Over(f, Over(f, Over(f, Over(f, x))))

\* The part of TypeOK that is about parent.
Tree(f) ==
    /\ f \in [Rows -> Nodes]
    /\ \A x \in Rows : f[x] # None => f[x] \in Above(x) /\ Over(f, f[x]) # None

LEMMA HomeIsRoot ==
  /\ \A x : Up(x) = Over(parent, x) /\ Home(x) = Root(parent, x)
  /\ \A x : Up(x)' = Over(parent', x) /\ Home(x)' = Root(parent', x)
BY DEF Up, Home, Over, Root

LEMMA Apart ==
  /\ Lists \cap Cards = {} /\ Lists \cap Labels = {} /\ Lists \cap Checklists = {}
  /\ Lists \cap Items = {} /\ Lists \cap Attachments = {} /\ Lists \cap Comments = {}
  /\ Cards \cap Labels = {} /\ Cards \cap Checklists = {} /\ Cards \cap Items = {}
  /\ Cards \cap Attachments = {} /\ Cards \cap Comments = {}
  /\ Labels \cap Checklists = {} /\ Labels \cap Items = {} /\ Labels \cap Attachments = {}
  /\ Labels \cap Comments = {} /\ Checklists \cap Items = {}
  /\ Checklists \cap Attachments = {} /\ Checklists \cap Comments = {}
  /\ Items \cap Attachments = {} /\ Items \cap Comments = {}
  /\ Attachments \cap Comments = {}
  /\ Boards \cap Rows = {} /\ Users \cap Rows = {} /\ Boards \cap Users = {}
  /\ None \notin Rows /\ None \notin Boards /\ None \notin Users
<1>1. /\ Ids("board") = Boards /\ Ids("user") = Users /\ Ids("list") = Lists
      /\ Ids("card") = Cards /\ Ids("label") = Labels /\ Ids("checklist") = Checklists
      /\ Ids("item") = Items /\ Ids("attachment") = Attachments /\ Ids("comment") = Comments
  BY DEF Ids
<1>2. \A j, k \in Kinds : j # k => Ids(j) \cap Ids(k) = {}
  BY ContentAssumption
<1>3. /\ Ids("list") \cap Ids("card") = {} /\ Ids("list") \cap Ids("label") = {}
      /\ Ids("list") \cap Ids("checklist") = {} /\ Ids("list") \cap Ids("item") = {}
      /\ Ids("list") \cap Ids("attachment") = {} /\ Ids("list") \cap Ids("comment") = {}
  BY <1>2 DEF Kinds
<1>4. /\ Ids("card") \cap Ids("label") = {} /\ Ids("card") \cap Ids("checklist") = {}
      /\ Ids("card") \cap Ids("item") = {} /\ Ids("card") \cap Ids("attachment") = {}
      /\ Ids("card") \cap Ids("comment") = {}
  BY <1>2 DEF Kinds
<1>5. /\ Ids("label") \cap Ids("checklist") = {} /\ Ids("label") \cap Ids("item") = {}
      /\ Ids("label") \cap Ids("attachment") = {} /\ Ids("label") \cap Ids("comment") = {}
  BY <1>2 DEF Kinds
<1>6. /\ Ids("checklist") \cap Ids("item") = {} /\ Ids("checklist") \cap Ids("attachment") = {}
      /\ Ids("checklist") \cap Ids("comment") = {} /\ Ids("item") \cap Ids("attachment") = {}
      /\ Ids("item") \cap Ids("comment") = {} /\ Ids("attachment") \cap Ids("comment") = {}
  BY <1>2 DEF Kinds
<1>7. \A k \in Kinds \ {"board"} : Ids("board") \cap Ids(k) = {}
  BY <1>2 DEF Kinds
<1>8. \A k \in Kinds \ {"user"} : Ids("user") \cap Ids(k) = {}
  BY <1>2 DEF Kinds
<1>9. Boards \cap Rows = {} /\ Users \cap Rows = {} /\ Boards \cap Users = {}
  BY <1>1, <1>7, <1>8 DEF Rows, Kinds
<1> QED
  BY <1>1, <1>3, <1>4, <1>5, <1>6, <1>9, ContentAssumption

\* Which kind of row is above which.
LEMMA AboveKinds ==
  /\ \A x \in Lists \cup Labels : Above(x) = Boards
  /\ \A x \in Cards : Above(x) = Lists
  /\ \A x \in Items : Above(x) = Checklists
  /\ \A x \in Checklists \cup Attachments \cup Comments : Above(x) = Cards
  /\ \A x \in Rows : Above(x) \subseteq Boards \cup Rows
  /\ Rows = Lists \cup Cards \cup Labels \cup Checklists \cup Items \cup Attachments \cup Comments
<1>1. /\ \A x \in Lists \cup Labels : Above(x) = Boards
      /\ \A x \in Cards : Above(x) = Lists
      /\ \A x \in Items : Above(x) = Checklists
      /\ \A x \in Checklists \cup Attachments \cup Comments : Above(x) = Cards
  BY Apart DEF Above
<1> QED
  BY <1>1 DEF Rows

\* A property of rows that a row inherits from the one above holds of all.
\* It is stated of a set S of rows, and E is the part of it that has the
\* property: lists and labels first, then cards, what is on cards, and items.
LEMMA Inherited ==
  ASSUME NEW f, Tree(f), NEW S \in SUBSET Rows, NEW E \in SUBSET S,
         \A x \in S : x \notin E => f[x] # None /\ f[x] \in S /\ (f[x] \in E => x \in E)
  PROVE  S = E
<1>1. \A x \in S \cap (Lists \cup Labels) : x \in E
  BY AboveKinds, Apart DEF Tree
<1>2. \A x \in S \cap Cards : x \in E
  BY <1>1, AboveKinds, Apart DEF Tree
<1>3. \A x \in S \cap (Checklists \cup Attachments \cup Comments) : x \in E
  BY <1>2, AboveKinds, Apart DEF Tree
<1>4. \A x \in S \cap Items : x \in E
  BY <1>3, AboveKinds, Apart DEF Tree
<1> QED
  BY <1>1, <1>2, <1>3, <1>4, AboveKinds

\* The board of a row is the board of the row above it.
LEMMA RootOf ==
  ASSUME NEW f, Tree(f)
  PROVE  /\ \A b \in Boards : Root(f, b) = b
         /\ Root(f, None) = None
         /\ \A x \in Rows : f[x] = None => Root(f, x) = None
         /\ \A x \in Rows : f[x] # None => Root(f, x) = Root(f, f[x]) /\ Root(f, x) \in Boards
         /\ \A x \in Rows : f[x] # None => f[x] \in Boards \cup Rows
         /\ \A x \in Lists \cup Labels : Root(f, x) = f[x]
<1>1. /\ \A b \in Boards : Over(f, b) = b
      /\ Over(f, None) = None /\ \A x \in Rows : Over(f, x) = f[x]
  BY Apart DEF Over
<1>2. /\ \A b \in Boards : Root(f, b) = b
      /\ Root(f, None) = None
      /\ \A x \in Rows : f[x] = None => Root(f, x) = None
  BY <1>1 DEF Root
<1>3. ASSUME NEW x \in Rows, f[x] # None PROVE f[x] \in Above(x) /\ Over(f, f[x]) # None
  BY <1>3 DEF Tree
<1>4. ASSUME NEW x \in Lists \cup Labels, f[x] # None
      PROVE  f[x] \in Boards /\ Root(f, x) = f[x] /\ Over(f, Over(f, x)) = f[x]
  BY <1>1, <1>3, <1>4, AboveKinds DEF Root
<1>5. ASSUME NEW x \in Cards, f[x] # None
      PROVE  /\ f[x] \in Lists /\ Root(f, x) = Root(f, f[x]) /\ Root(f, x) \in Boards
             /\ Over(f, Over(f, x)) \in Boards
  <2>1. f[x] \in Lists /\ f[f[x]] # None
    BY <1>1, <1>3, <1>5, AboveKinds
  <2> QED
    BY <1>1, <1>4, <2>1, <1>5, AboveKinds DEF Root
<1>6. ASSUME NEW x \in Checklists \cup Attachments \cup Comments, f[x] # None
      PROVE  /\ f[x] \in Cards /\ Root(f, x) = Root(f, f[x]) /\ Root(f, x) \in Boards
             /\ Over(f, Over(f, Over(f, x))) \in Boards
  <2>1. f[x] \in Cards /\ f[f[x]] # None
    BY <1>1, <1>3, <1>6, AboveKinds
  <2> QED
    BY <1>1, <1>5, <2>1, <1>6, AboveKinds DEF Root
<1>7. ASSUME NEW x \in Items, f[x] # None
      PROVE  f[x] \in Checklists /\ Root(f, x) = Root(f, f[x]) /\ Root(f, x) \in Boards
  <2>1. f[x] \in Checklists /\ f[f[x]] # None
    BY <1>1, <1>3, <1>7, AboveKinds
  <2> QED
    BY <1>1, <1>6, <2>1, <1>7, AboveKinds DEF Root
<1>8. \A x \in Rows : f[x] # None => Root(f, x) = Root(f, f[x]) /\ Root(f, x) \in Boards
  BY <1>2, <1>4, <1>5, <1>6, <1>7, AboveKinds
<1> QED
  BY <1>2, <1>3, <1>4, <1>8, AboveKinds

\* Where nothing changed up to the board, the board is the same.
LEMMA SameRoots ==
  ASSUME NEW f, NEW g, Tree(f), Tree(g), NEW S \in SUBSET Rows,
         \A x \in S : g[x] = f[x] /\ (f[x] # None => f[x] \in Boards \cup S)
  PROVE  \A x \in S : Root(g, x) = Root(f, x)
<1> DEFINE E == {x \in S : Root(g, x) = Root(f, x)}
<1>1. ASSUME NEW x \in S, x \notin E
      PROVE  f[x] # None /\ f[x] \in S /\ (f[x] \in E => x \in E)
  <2>1. f[x] # None
    BY <1>1, RootOf
  <2>2. Root(f, x) = Root(f, f[x]) /\ Root(g, x) = Root(g, f[x])
    BY <2>1, RootOf
  <2>3. f[x] \in S
    BY <1>1, <2>1, <2>2, RootOf
  <2> QED
    BY <2>1, <2>2, <2>3
<1>3. E \in SUBSET S
  OBVIOUS
<1> HIDE DEF E
<1>2. S = E
  BY ONLY <1>1, <1>3, Tree(f), S \in SUBSET Rows, Inherited
<1> QED
  BY <1>2 DEF E

\* What hangs together below top is on the board of top.
LEMMA CommonRoot ==
  ASSUME NEW f, Tree(f), NEW S \in SUBSET Rows, NEW top \in S,
         \A x \in S : x = top \/ f[x] \in S
  PROVE  \A x \in S : Root(f, x) = Root(f, top)
<1> DEFINE E == {x \in S : Root(f, x) = Root(f, top)}
<1>0. E \in SUBSET S
  OBVIOUS
<1>1. ASSUME NEW x \in S, x \notin E
      PROVE  f[x] # None /\ f[x] \in S /\ (f[x] \in E => x \in E)
  <2>1. f[x] \in S /\ f[x] # None
    BY <1>1, Apart
  <2>2. Root(f, x) = Root(f, f[x])
    BY <2>1, RootOf
  <2> QED
    BY <2>1, <2>2
<1> HIDE DEF E
<1>2. S = E
  BY <1>0, <1>1, Inherited
<1> QED
  BY <1>2 DEF E

BelowIn(f, x) == {y \in Rows : f[y] # None /\ x \in {y, Over(f, y), Over(f, Over(f, y)),
                                                     Over(f, Over(f, Over(f, y)))}}

LEMMA BelowIsIn == \A x : Below(x) = BelowIn(parent, x)
BY HomeIsRoot DEF Below, BelowIn, Over

\* A row with what is below it.
LEMMA BelowOf ==
  ASSUME NEW f, Tree(f), NEW x \in Rows, f[x] # None
  PROVE  /\ x \in BelowIn(f, x)
         /\ \A y \in BelowIn(f, x) : y = x \/ f[y] \in BelowIn(f, x)
         /\ \A y \in Rows \ BelowIn(f, x) : f[y] # None => f[y] \notin BelowIn(f, x)
         /\ \A y \in BelowIn(f, x) : f[y] # None /\ Root(f, y) = Root(f, x)
<1>1. x \in BelowIn(f, x)
  BY DEF BelowIn
<1>2. ASSUME NEW y \in BelowIn(f, x) PROVE y = x \/ f[y] \in BelowIn(f, x)
  <2>1. y \in Rows /\ f[y] # None /\ Over(f, y) = f[y] /\ f[y] \in Boards \cup Rows
    BY RootOf DEF BelowIn, Over
  <2>2. f[y] \in Rows => Over(f, f[y]) = f[f[y]] /\ f[f[y]] # None
    BY <2>1 DEF Tree, Over
  <2>3. f[y] \in Boards => Over(f, f[y]) = f[y]
    BY Apart DEF Over
  <2>4. f[y] \notin Boards \/ y = x
    BY <2>1, <2>3, Apart DEF BelowIn
  <2> QED
    BY <2>1, <2>2, <2>4 DEF BelowIn
<1>3. ASSUME NEW y \in Rows \ BelowIn(f, x), f[y] # None, f[y] \in BelowIn(f, x) PROVE FALSE
  <2>1. Over(f, y) = f[y]
    BY DEF Over
  <2>2. x = Root(f, y)
    BY <1>3, <2>1 DEF BelowIn, Root
  <2> QED
    BY <1>3, <2>2, RootOf, Apart
<1>4. \A y \in BelowIn(f, x) : Root(f, y) = Root(f, x)
  <2>1. BelowIn(f, x) \in SUBSET Rows
    BY DEF BelowIn
  <2> QED
    BY <1>1, <1>2, <2>1, CommonRoot
<1> QED
  BY <1>1, <1>2, <1>3, <1>4 DEF BelowIn

\* A row is inserted below another one.
LEMMA TreeInsert ==
  ASSUME NEW f, Tree(f), NEW x \in Rows, f[x] = None, NEW w \in Above(x),
         Over(f, w) # None, NEW g \in [Rows -> Nodes],
         \A y \in Rows : g[y] = IF y = x THEN w ELSE f[y]
  PROVE  /\ Tree(g)
         /\ \A y \in Rows : f[y] # None => g[y] = f[y] /\ Root(g, y) = Root(f, y)
         /\ Root(g, x) = Root(f, w)
<1>1. w \in Boards \cup Rows /\ w # None
  BY AboveKinds, Apart
<1>2. w # x
  BY DEF Over
<1>4. Over(g, w) = Over(f, w)
  BY <1>1, <1>2 DEF Over
<1>5. ASSUME NEW y \in Rows, f[y] # None PROVE f[y] # x /\ Over(g, f[y]) # None
  <2>1. Over(f, f[y]) # None /\ f[y] \in Boards \cup Rows
    BY <1>5, RootOf DEF Tree
  <2> QED
    BY <2>1 DEF Over
<1>6. Tree(g)
  <2>1. ASSUME NEW y \in Rows, g[y] # None PROVE g[y] \in Above(y) /\ Over(g, g[y]) # None
    BY <1>4, <1>5, <2>1 DEF Tree
  <2> QED
    BY <2>1 DEF Tree
<1>7. \A y \in Rows : f[y] # None => g[y] = f[y] /\ Root(g, y) = Root(f, y)
  <2> DEFINE S == {y \in Rows : f[y] # None}
  <2>1. \A y \in S : g[y] = f[y] /\ f[y] \in Boards \cup S
    <3> SUFFICES ASSUME NEW y \in S PROVE g[y] = f[y] /\ f[y] \in Boards \cup S
      OBVIOUS
    <3>1. f[y] \in Boards \cup Rows /\ Over(f, f[y]) # None
      BY RootOf DEF Tree
    <3> QED
      BY <3>1 DEF Over
  <2>3. S \in SUBSET Rows
    OBVIOUS
  <2> HIDE DEF S
  <2>2. \A y \in S : Root(g, y) = Root(f, y)
    BY ONLY <1>6, <2>1, <2>3, Tree(f), SameRoots
  <2> QED
    BY <2>1, <2>2 DEF S
<1>8. Root(g, x) = Root(g, w) /\ Root(g, w) = Root(f, w)
  <2>3. /\ \A y \in Rows : g[y] # None => Root(g, y) = Root(g, g[y])
        /\ \A b \in Boards : Root(g, b) = b /\ Root(f, b) = b
    BY <1>6, RootOf
  <2>1. Root(g, x) = Root(g, w)
    BY <1>1, <2>3
  <2>2. w \in Rows => f[w] # None
    BY DEF Over
  <2> QED
    BY <1>1, <1>7, <2>1, <2>2, <2>3
<1> QED
  BY <1>6, <1>7, <1>8

\* A row is removed with what is below it.
LEMMA TreeRemove ==
  ASSUME NEW f, Tree(f), NEW gone \in SUBSET Rows,
         \A y \in Rows \ gone : f[y] # None => f[y] \notin gone,
         NEW g \in [Rows -> Nodes],
         \A y \in Rows : g[y] = IF y \in gone THEN None ELSE f[y]
  PROVE  /\ Tree(g)
         /\ \A y \in Rows \ gone : g[y] = f[y] /\ Root(g, y) = Root(f, y)
         /\ \A y \in gone : g[y] = None /\ Root(g, y) = None
<1>2. ASSUME NEW y \in Rows, g[y] # None
      PROVE  y \notin gone /\ g[y] = f[y] /\ f[y] \in Boards \cup (Rows \ gone)
  BY <1>2, RootOf
<1>3. Tree(g)
  <2>2. ASSUME NEW y \in Rows, g[y] # None PROVE g[y] \in Above(y) /\ Over(g, g[y]) # None
    <3>1. f[y] \in Above(y) /\ Over(f, f[y]) # None
      BY <1>2, <2>2 DEF Tree
    <3> QED
      BY <1>2, <2>2, <3>1 DEF Over
  <2> QED
    BY <2>2 DEF Tree
<1>4. \A y \in Rows \ gone : Root(g, y) = Root(f, y)
  <2> DEFINE S == Rows \ gone
  <2>1. \A y \in S : g[y] = f[y] /\ (f[y] # None => f[y] \in Boards \cup S)
    BY <1>2, RootOf
  <2> HIDE DEF S
  <2>2. S \in SUBSET Rows
    BY DEF S
  <2>3. \A y \in S : Root(g, y) = Root(f, y)
    BY <1>3, <2>1, <2>2, SameRoots
  <2> QED
    BY <2>3 DEF S
<1> QED
  BY <1>3, <1>4, RootOf

\* Cards are moved to a list.
LEMMA TreeMove ==
  ASSUME NEW f, Tree(f), NEW moved \in SUBSET Cards, \A c \in moved : f[c] # None,
         NEW l \in Lists, f[l] # None, NEW g \in [Rows -> Nodes],
         \A y \in Rows : g[y] = IF y \in moved THEN l ELSE f[y]
  PROVE  /\ Tree(g)
         /\ \A y \in Rows : g[y] = None <=> f[y] = None
         /\ (\A c \in moved : Root(f, c) = Root(f, l))
            => \A y \in Rows : Root(g, y) = Root(f, y)
<1>1. l \in Rows /\ l \notin moved /\ l # None /\ g[l] = f[l]
  BY AboveKinds, Apart
<1>2. \A y \in Rows : g[y] = None <=> f[y] = None
  BY <1>1
<1>3. \A x : Over(g, x) = None <=> Over(f, x) = None
  BY <1>2 DEF Over
<1>4. Tree(g)
  <2>1. ASSUME NEW y \in Rows, g[y] # None PROVE g[y] \in Above(y) /\ Over(g, g[y]) # None
    <3>1. CASE y \in moved
      BY <1>1, <3>1, AboveKinds DEF Over
    <3>2. CASE y \notin moved
      BY <1>3, <2>1, <3>2 DEF Tree
    <3> QED
      BY <3>1, <3>2
  <2> QED
    BY <2>1 DEF Tree
<1>5. ASSUME \A c \in moved : Root(f, c) = Root(f, l)
      PROVE  \A y \in Rows : Root(g, y) = Root(f, y)
  <2> DEFINE E == {y \in Rows : Root(g, y) = Root(f, y)}
  <2>1. Root(g, l) = Root(f, l)
    <3>1. Root(g, l) = g[l] /\ Root(f, l) = f[l]
      BY <1>4, RootOf
    <3> QED
      BY <1>1, <3>1
  <2>2. \A y \in Rows : g[y] # None => Root(g, y) = Root(g, g[y])
    BY <1>4, RootOf
  <2>3. \A y \in moved : y \in Rows /\ Root(g, y) = Root(f, y)
    BY <1>1, <1>5, <2>1, <2>2, AboveKinds
  <2>4. ASSUME NEW y \in Rows, y \notin E
        PROVE  f[y] # None /\ f[y] \in Rows /\ (f[y] \in E => y \in E)
    <3>1. g[y] = f[y]
      BY <2>3, <2>4
    <3>2. f[y] # None
      <4>1. g[y] = None => Root(g, y) = None
        BY <1>4, RootOf
      <4> QED
        BY <2>4, <3>1, <4>1, RootOf
    <3>3. Root(f, y) = Root(f, f[y]) /\ Root(g, y) = Root(g, f[y])
      BY <2>2, <3>1, <3>2, RootOf
    <3>4. f[y] \notin Boards
      <4>1. \A b \in Boards : Root(g, b) = b /\ Root(f, b) = b
        BY <1>4, RootOf
      <4> QED
        BY <2>4, <3>3, <4>1
    <3>5. f[y] \in Boards \cup Rows
      BY <3>2, RootOf
    <3> QED
      BY <3>2, <3>3, <3>4, <3>5
  <2>5. E \in SUBSET Rows
    OBVIOUS
  <2> HIDE DEF E
  <2>6. Rows = E
    BY ONLY <2>4, <2>5, Tree(f), Inherited
  <2> QED
    BY <2>6 DEF E
<1> QED
  BY <1>2, <1>4, <1>5

\* A list moves to another board, with labels that are there or new.
LEMMA TreeTransfer ==
  ASSUME NEW f, Tree(f), NEW row \in Lists, f[row] # None, NEW to \in Boards,
         NEW S \in SUBSET Labels, \A x \in S : f[x] \in {None, to},
         NEW g \in [Rows -> Nodes],
         \A y \in Rows : g[y] = IF y = row \/ y \in S THEN to ELSE f[y]
  PROVE  /\ Tree(g)
         /\ \A y \in Rows \ (S \cup BelowIn(f, row)) : g[y] = f[y] /\ Root(g, y) = Root(f, y)
         /\ \A y \in S \cup BelowIn(f, row) : Root(g, y) = to
         /\ \A c \in Cards : c \in BelowIn(f, row) <=> f[c] = row
         /\ \A x \in Labels : x \notin BelowIn(f, row)
<1>1. row \in Rows /\ to # None /\ Above(row) = Boards /\ row \notin S /\ S \subseteq Rows
  BY AboveKinds, Apart
<1>2. \A x : Over(f, x) # None => Over(g, x) # None
  BY <1>1 DEF Over
<1>3. Tree(g)
  <2>1. ASSUME NEW y \in Rows, g[y] # None PROVE g[y] \in Above(y) /\ Over(g, g[y]) # None
    <3>1. CASE y = row \/ y \in S
      BY <1>1, <3>1, AboveKinds, Apart DEF Over
    <3>2. CASE ~(y = row \/ y \in S)
      BY <1>2, <2>1, <3>2 DEF Tree
    <3> QED
      BY <3>1, <3>2
  <2> QED
    BY <2>1 DEF Tree
<1> DEFINE B == BelowIn(f, row)
           Rest == Rows \ (S \cup B)
<1>4. /\ row \in B /\ B \in SUBSET Rows
      /\ \A y \in B : f[y] # None /\ (y = row \/ f[y] \in B)
      /\ \A y \in Rows \ B : f[y] # None => f[y] \notin B
  BY <1>1, BelowOf DEF BelowIn
<1>5. ASSUME NEW x \in Labels PROVE x \notin B /\ \A y \in Rows : f[y] # x
  <2>1. x # row /\ x \in Rows /\ (f[x] # None => f[x] \in Boards)
    BY AboveKinds, Apart DEF Tree
  <2>2. x \notin B
    BY <1>4, <2>1, Apart
  <2> QED
    BY <2>2, AboveKinds, Apart DEF Tree
<1>6. ASSUME NEW c \in Cards PROVE c \in B <=> f[c] = row
  <2>1. c \in Rows /\ c # row /\ (f[c] # None => f[c] \in Lists)
    BY AboveKinds, Apart DEF Tree
  <2>2. \A l \in Lists : l \in B => l = row
    <3> SUFFICES ASSUME NEW l \in Lists, l \in B PROVE l = row
      OBVIOUS
    <3>1. f[l] \in Boards
      BY <1>4, AboveKinds DEF Tree
    <3> QED
      BY <1>4, <3>1, Apart
  <2>3. row # None
    BY Apart, <1>1
  <2> QED
    BY <1>4, <2>1, <2>2, <2>3
<1> HIDE DEF B
<1>7. \A y \in Rest : g[y] = f[y] /\ (f[y] # None => f[y] \in Boards \cup Rest)
  <2> SUFFICES ASSUME NEW y \in Rest PROVE g[y] = f[y] /\ (f[y] # None => f[y] \in Boards \cup Rest)
    OBVIOUS
  <2>1. f[y] # None => f[y] \in Boards \cup Rows
    BY RootOf
  <2> QED
    BY <1>4, <1>5, <2>1
<1>8. Rest \in SUBSET Rows
  OBVIOUS
<1> HIDE DEF Rest
<1>9. \A y \in Rest : Root(g, y) = Root(f, y)
  BY ONLY <1>3, <1>7, <1>8, Tree(f), SameRoots
<1>10. \A y \in Lists \cup Labels : Root(g, y) = g[y]
  BY <1>3, RootOf
<1>11. \A y \in B : Root(g, y) = Root(g, row)
  <2>1. \A y \in B : y = row \/ g[y] \in B
    BY <1>1, <1>4, <1>5
  <2> QED
    BY ONLY <1>3, <1>4, <2>1, CommonRoot
<1>12. \A y \in S \cup B : Root(g, y) = to
  BY <1>1, <1>10, <1>11
<1> QED
  BY <1>3, <1>5, <1>6, <1>7, <1>9, <1>12 DEF B, Rest

\* New rows N are inserted below a new list top of board b.
LEMMA TreeCopy ==
  ASSUME NEW f, Tree(f), NEW N \in SUBSET Rows, \A x \in N : f[x] = None,
         NEW g \in [Rows -> Nodes], \A y \in Rows \ N : g[y] = f[y],
         NEW top \in N, top \in Lists, NEW b \in Boards, g[top] = b,
         \A x \in N : x = top \/ (g[x] \in N /\ g[x] \in Above(x))
  PROVE  /\ Tree(g)
         /\ \A y \in Rows \ N : g[y] = f[y] /\ Root(g, y) = Root(f, y)
         /\ \A x \in N : Root(g, x) = b
<1>1. \A x \in N : g[x] \in Boards \cup N /\ g[x] \in Above(x) /\ g[x] # None
  BY AboveKinds, Apart
<1>2. ASSUME NEW y \in Rows \ N, f[y] # None
      PROVE  f[y] \in Above(y) /\ f[y] \in Boards \cup (Rows \ N) /\ Over(f, f[y]) # None
  <2>1. f[y] \in Above(y) /\ Over(f, f[y]) # None /\ f[y] \in Boards \cup Rows
    BY <1>2, RootOf DEF Tree
  <2> QED
    BY <2>1 DEF Over
<1>3. Tree(g)
  <2>1. ASSUME NEW y \in Rows, g[y] # None PROVE g[y] \in Above(y) /\ Over(g, g[y]) # None
    <3>1. CASE y \in N
      BY <1>1, <3>1, Apart DEF Over
    <3>2. CASE y \notin N
      BY <1>2, <2>1, <3>2 DEF Over
    <3> QED
      BY <3>1, <3>2
  <2> QED
    BY <2>1 DEF Tree
<1>4. \A y \in Rows \ N : Root(g, y) = Root(f, y)
  <2> DEFINE Rest == Rows \ N
  <2>1. Rest \in SUBSET Rows /\ \A y \in Rest : g[y] = f[y] /\ (f[y] # None => f[y] \in Boards \cup Rest)
    BY <1>2
  <2> HIDE DEF Rest
  <2>2. \A y \in Rest : Root(g, y) = Root(f, y)
    BY ONLY <1>3, <2>1, Tree(f), SameRoots
  <2> QED
    BY <2>2 DEF Rest
<1>5. \A x \in N : Root(g, x) = Root(g, top)
  <2>1. \A x \in N : x = top \/ g[x] \in N
    OBVIOUS
  <2> QED
    BY ONLY <1>3, <2>1, N \in SUBSET Rows, top \in N, CommonRoot
<1>6. Root(g, top) = b
  <2>1. Root(g, top) = g[top]
    BY <1>3, RootOf
  <2> QED
    BY <2>1
<1> QED
  BY <1>3, <1>4, <1>5, <1>6

(***************************************************************************)
(* Requests                                                                *)
(***************************************************************************)

\* The statements that a list of them names.
Stages(s) == {s[i] : i \in 1..Len(s)}
Once(s) == s \in Seq(Statements) /\ \A i, j \in 1..Len(s) : s[i] = s[j] => i = j

LEMMA OnceTail ==
  ASSUME NEW s, Once(s), s # <<>>
  PROVE  Once(Tail(s)) /\ Stages(Tail(s)) = Stages(s) \ {Head(s)}
<1>1. /\ s \in Seq(Statements) /\ Len(s) \in Nat \ {0} /\ Head(s) = s[1]
      /\ Tail(s) \in Seq(Statements) /\ Len(Tail(s)) = Len(s) - 1
      /\ \A i \in 1..Len(Tail(s)) : Tail(s)[i] = s[i + 1]
  BY HeadTailProperties, EmptySeq DEF Once
<1>2. ASSUME NEW i \in 1..Len(Tail(s)), NEW j \in 1..Len(Tail(s)), Tail(s)[i] = Tail(s)[j]
      PROVE  i = j
  BY <1>1, <1>2 DEF Once
<1>3. Stages(Tail(s)) \subseteq Stages(s) \ {Head(s)}
  BY <1>1 DEF Once, Stages
<1>4. ASSUME NEW i \in 1..Len(s), s[i] # Head(s) PROVE s[i] \in Stages(Tail(s))
  <2>1. i - 1 \in 1..Len(Tail(s)) /\ Tail(s)[i - 1] = s[i]
    BY <1>1, <1>4
  <2> QED
    BY <2>1 DEF Stages
<1> QED
  BY <1>1, <1>2, <1>3, <1>4 DEF Once, Stages

LEMMA TupleSeq ==
  ASSUME NEW S, NEW a \in S, NEW b \in S, NEW c \in S, NEW d \in S
  PROVE  /\ <<a>> \in Seq(S) /\ <<a, b>> \in Seq(S)
         /\ <<a, b, c>> \in Seq(S) /\ <<a, b, c, d>> \in Seq(S)
OBVIOUS

LEMMA Short ==
  /\ Once(<<>>) /\ Stages(<<>>) = {}
  /\ \A a \in Statements : Once(<<a>>) /\ Stages(<<a>>) = {a}
  /\ \A a, b \in Statements : a # b => Once(<<a, b>>) /\ Stages(<<a, b>>) = {a, b}
  /\ \A a, b, c \in Statements : a # b /\ a # c /\ b # c =>
       Once(<<a, b, c>>) /\ Stages(<<a, b, c>>) = {a, b, c}
  /\ \A a, b, c, d \in Statements : a # b /\ a # c /\ a # d /\ b # c /\ b # d /\ c # d =>
       Once(<<a, b, c, d>>) /\ Stages(<<a, b, c, d>>) = {a, b, c, d}
<1>1. Once(<<>>) /\ Stages(<<>>) = {}
  BY DEF Once, Stages
<1>2. ASSUME NEW a \in Statements PROVE Once(<<a>>) /\ Stages(<<a>>) = {a}
  <2> DEFINE s == <<a>>
  <2>1. s \in Seq(Statements) /\ Len(s) = 1 /\ s[1] = a
    <3>1. s \in Seq(Statements)
      BY TupleSeq
    <3> QED
      BY <3>1
  <2> HIDE DEF s
  <2>2. 1..Len(s) = {1}
    BY <2>1
  <2>3. Once(s) /\ Stages(s) = {a}
    BY <2>1, <2>2 DEF Once, Stages
  <2> QED
    BY <2>3 DEF s
<1>3. ASSUME NEW a \in Statements, NEW b \in Statements, a # b
      PROVE  Once(<<a, b>>) /\ Stages(<<a, b>>) = {a, b}
  <2> DEFINE s == <<a, b>>
  <2>1. s \in Seq(Statements) /\ Len(s) = 2 /\ s[1] = a /\ s[2] = b
    <3>1. s \in Seq(Statements)
      BY TupleSeq
    <3> QED
      BY <3>1
  <2> HIDE DEF s
  <2>2. 1..Len(s) = {1, 2}
    BY <2>1
  <2>3. Once(s) /\ Stages(s) = {a, b}
    BY <1>3, <2>1, <2>2 DEF Once, Stages
  <2> QED
    BY <2>3 DEF s
<1>4. ASSUME NEW a \in Statements, NEW b \in Statements, NEW c \in Statements, a # b /\ a # c /\ b # c
      PROVE  Once(<<a, b, c>>) /\ Stages(<<a, b, c>>) = {a, b, c}
  <2> DEFINE s == <<a, b, c>>
  <2>1. s \in Seq(Statements) /\ Len(s) = 3 /\ s[1] = a /\ s[2] = b /\ s[3] = c
    <3>1. s \in Seq(Statements)
      BY TupleSeq
    <3> QED
      BY <3>1
  <2> HIDE DEF s
  <2>2. 1..Len(s) = {1, 2, 3}
    BY <2>1
  <2>3. Once(s) /\ Stages(s) = {a, b, c}
    BY <1>4, <2>1, <2>2 DEF Once, Stages
  <2> QED
    BY <2>3 DEF s
<1>5. ASSUME NEW a \in Statements, NEW b \in Statements, NEW c \in Statements, NEW d \in Statements,
             a # b /\ a # c /\ a # d /\ b # c /\ b # d /\ c # d
      PROVE  Once(<<a, b, c, d>>) /\ Stages(<<a, b, c, d>>) = {a, b, c, d}
  <2> DEFINE s == <<a, b, c, d>>
  <2>1. s \in Seq(Statements) /\ Len(s) = 4 /\ s[1] = a /\ s[2] = b /\ s[3] = c /\ s[4] = d
    <3>1. s \in Seq(Statements)
      BY TupleSeq
    <3> QED
      BY <3>1
  <2> HIDE DEF s
  <2>2. 1..Len(s) = {1, 2, 3, 4}
    BY <2>1
  <2>3. Once(s)
    BY <1>5, <2>1, <2>2 DEF Once
  <2>4. Stages(s) = {a, b, c, d}
    BY <2>1, <2>2 DEF Stages
  <2> QED
    BY <2>3, <2>4 DEF s
<1> QED
  BY <1>1, <1>2, <1>3, <1>4, <1>5

LEMMA Thens ==
  /\ Once(<<>>)
  /\ Once(<<"guard">>) /\ Stages(<<"guard">>) = {"guard"}
  /\ Once(<<"member">>) /\ Stages(<<"member">>) = {"member"}
  /\ Once(<<"read">>) /\ Stages(<<"read">>) = {"read"}
  /\ Once(<<"other", "guard">>) /\ Stages(<<"other", "guard">>) = {"other", "guard"}
  /\ Once(<<"guard", "other">>) /\ Stages(<<"guard", "other">>) = {"guard", "other"}
  /\ Once(<<"read", "guard">>) /\ Stages(<<"read", "guard">>) = {"read", "guard"}
  /\ Once(<<"other", "guard", "read">>) /\ Stages(<<"other", "guard", "read">>) = {"other", "guard", "read"}
  /\ Once(<<"guard", "target", "read", "people">>) /\ Stages(<<"guard", "target", "read", "people">>) = {"guard", "target", "read", "people"}
<1>1. Once(<<"guard">>) /\ Stages(<<"guard">>) = {"guard"}
  BY Short DEF Statements
<1>2. Once(<<"member">>) /\ Stages(<<"member">>) = {"member"}
  BY Short DEF Statements
<1>3. Once(<<"read">>) /\ Stages(<<"read">>) = {"read"}
  BY Short DEF Statements
<1>4. Once(<<"other", "guard">>) /\ Stages(<<"other", "guard">>) = {"other", "guard"}
  BY Short DEF Statements
<1>5. Once(<<"guard", "other">>) /\ Stages(<<"guard", "other">>) = {"guard", "other"}
  BY Short DEF Statements
<1>6. Once(<<"read", "guard">>) /\ Stages(<<"read", "guard">>) = {"read", "guard"}
  BY Short DEF Statements
<1>7. Once(<<"other", "guard", "read">>) /\ Stages(<<"other", "guard", "read">>) = {"other", "guard", "read"}
  BY Short DEF Statements
<1>8. Once(<<"guard", "target", "read", "people">>) /\ Stages(<<"guard", "target", "read", "people">>) = {"guard", "target", "read", "people"}
  BY Short DEF Statements
<1> QED
  BY Short, <1>1, <1>2, <1>3, <1>4, <1>5, <1>6, <1>7, <1>8

AllDoes == {"create", "edit", "link", "pour", "transfer", "copy", "move",
            "assign", "unassign", "expel"}

\* What the proofs use of a method: the kinds it works with and the statements
\* it does not leave out.
RightMethod(m) ==
    /\ m.does \in AllDoes /\ m.on \in Kinds /\ m.with \in Kinds /\ Once(m.then)
    /\ m.does = "create" =>
         /\ \A x \in Ids(m.with) : x \in Rows /\ Ids(m.on) \subseteq Above(x)
         /\ m.with # "user"
         /\ m.with \notin {"comment", "attachment"} => "guard" \in Stages(m.then)
    /\ m.does = "edit" =>
         /\ Ids(m.on) \subseteq Rows /\ m.with = "board"
         /\ m.on \notin {"comment", "attachment"} => "guard" \in Stages(m.then)
    /\ m.does \in {"link", "pour", "transfer", "copy", "move"} => "guard" \in Stages(m.then)
    /\ m.does \in {"link", "pour", "move"} => "other" \in Stages(m.then)
    /\ m.does = "link" => m.on = "card" /\ m.with = "label"
    /\ m.does = "move" => m.on = "card" /\ m.with = "list"
    /\ m.does = "pour" => m.on = "list" /\ m.with = "list"
    /\ m.does \in {"transfer", "copy"} => m.on = "list" /\ m.with = "board"
    /\ m.does \in {"assign", "unassign"} => m.on = "card" /\ m.with = "user"
    /\ m.does = "expel" => m.on = "board" /\ m.with = "user"
    /\ m.does = "transfer" => "target" \in Stages(m.then)
    /\ m.does = "assign" => "member" \in Stages(m.then)
    /\ m.does \in {"transfer", "copy", "expel"} => "read" \in Stages(m.then)

LEMMA IdsAre ==
  /\ Ids("board") = Boards /\ Ids("user") = Users /\ Ids("list") = Lists
  /\ Ids("card") = Cards /\ Ids("label") = Labels /\ Ids("checklist") = Checklists
  /\ Ids("item") = Items /\ Ids("attachment") = Attachments /\ Ids("comment") = Comments
BY DEF Ids

LEMMA CreateRight ==
  ASSUME NEW on \in Kinds, NEW with \in Kinds \ {"user"}, NEW then, Once(then),
         \A x \in Ids(with) : x \in Rows /\ Ids(on) \subseteq Above(x),
         with \notin {"comment", "attachment"} => "guard" \in Stages(then)
  PROVE  RightMethod(Method("create", on, with, then))
<1> DEFINE m == Method("create", on, with, then)
<1>1. m.does = "create" /\ m.on = on /\ m.with = with /\ m.then = then
  BY DEF Method
<1> HIDE DEF m
<1>2. RightMethod(m)
  BY <1>1 DEF RightMethod, AllDoes
<1> QED
  BY <1>2 DEF m

LEMMA EditRight ==
  ASSUME NEW on \in Kinds, NEW then, Once(then), Ids(on) \subseteq Rows,
         on \notin {"comment", "attachment"} => "guard" \in Stages(then)
  PROVE  RightMethod(Edit(on, then))
<1> DEFINE m == Edit(on, then)
<1>1. m.does = "edit" /\ m.on = on /\ m.with = "board" /\ m.then = then
  BY DEF Method, Edit
<1> HIDE DEF m
<1>2. RightMethod(m)
  BY <1>1 DEF RightMethod, AllDoes, Kinds
<1> QED
  BY <1>2 DEF m

LEMMA OtherRight ==
  ASSUME NEW m, m \in {Method("link", "card", "label", <<"other", "guard">>),
                       Method("pour", "list", "list", <<"other", "guard", "read">>),
                       Method("transfer", "list", "board", <<"guard", "target", "read", "people">>),
                       Method("copy", "list", "board", <<"read", "guard">>),
                       Method("move", "card", "list", <<"guard", "other">>),
                       Method("assign", "card", "user", <<"member">>),
                       Method("unassign", "card", "user", <<>>),
                       Method("expel", "board", "user", <<"read">>)}
  PROVE  RightMethod(m)
<1>1. CASE m = Method("link", "card", "label", <<"other", "guard">>)
  <2>1. m.does = "link" /\ m.on = "card" /\ m.with = "label" /\ m.then = <<"other", "guard">>
    BY <1>1 DEF Method
  <2> QED
    BY <2>1, Thens DEF RightMethod, AllDoes, Kinds
<1>2. CASE m = Method("pour", "list", "list", <<"other", "guard", "read">>)
  <2>1. m.does = "pour" /\ m.on = "list" /\ m.with = "list" /\ m.then = <<"other", "guard", "read">>
    BY <1>2 DEF Method
  <2> QED
    BY <2>1, Thens DEF RightMethod, AllDoes, Kinds
<1>3. CASE m = Method("transfer", "list", "board", <<"guard", "target", "read", "people">>)
  <2>1. /\ m.does = "transfer" /\ m.on = "list" /\ m.with = "board"
        /\ m.then = <<"guard", "target", "read", "people">>
    BY <1>3 DEF Method
  <2> QED
    BY <2>1, Thens DEF RightMethod, AllDoes, Kinds
<1>4. CASE m = Method("copy", "list", "board", <<"read", "guard">>)
  <2>1. m.does = "copy" /\ m.on = "list" /\ m.with = "board" /\ m.then = <<"read", "guard">>
    BY <1>4 DEF Method
  <2> QED
    BY <2>1, Thens DEF RightMethod, AllDoes, Kinds
<1>5. CASE m = Method("move", "card", "list", <<"guard", "other">>)
  <2>1. m.does = "move" /\ m.on = "card" /\ m.with = "list" /\ m.then = <<"guard", "other">>
    BY <1>5 DEF Method
  <2> QED
    BY <2>1, Thens DEF RightMethod, AllDoes, Kinds
<1>6. CASE m = Method("assign", "card", "user", <<"member">>)
  <2>1. m.does = "assign" /\ m.on = "card" /\ m.with = "user" /\ m.then = <<"member">>
    BY <1>6 DEF Method
  <2> QED
    BY <2>1, Thens DEF RightMethod, AllDoes, Kinds
<1>7. CASE m = Method("unassign", "card", "user", <<>>)
  <2>1. m.does = "unassign" /\ m.on = "card" /\ m.with = "user" /\ m.then = <<>>
    BY <1>7 DEF Method
  <2> QED
    BY <2>1, Thens DEF RightMethod, AllDoes, Kinds
<1>8. CASE m = Method("expel", "board", "user", <<"read">>)
  <2>1. m.does = "expel" /\ m.on = "board" /\ m.with = "user" /\ m.then = <<"read">>
    BY <1>8 DEF Method
  <2> QED
    BY <2>1, Thens DEF RightMethod, AllDoes, Kinds
<1> QED
  BY <1>1, <1>2, <1>3, <1>4, <1>5, <1>6, <1>7, <1>8

LEMMA MethodsRight == \A m \in Methods : RightMethod(m)
<1>1. /\ Once(<<"guard">>) /\ "guard" \in Stages(<<"guard">>) /\ Once(<<>>)
      /\ \A k \in {"board", "card", "list", "label", "checklist", "item", "attachment", "comment"} :
           k \in Kinds /\ (k # "board" => Ids(k) \subseteq Rows)
  BY Thens, IdsAre DEF Kinds, Rows
<1>2. /\ \A x \in Ids("label") \cup Ids("list") : x \in Rows /\ Ids("board") \subseteq Above(x)
      /\ \A x \in Ids("card") : x \in Rows /\ Ids("list") \subseteq Above(x)
      /\ \A x \in Ids("item") : x \in Rows /\ Ids("checklist") \subseteq Above(x)
      /\ \A x \in Ids("checklist") \cup Ids("attachment") \cup Ids("comment") :
           x \in Rows /\ Ids("card") \subseteq Above(x)
  BY IdsAre, AboveKinds
<1>3. \A m \in LabelsService : RightMethod(m)
  BY <1>1, <1>2, CreateRight, EditRight, OtherRight DEF LabelsService
<1>4. \A m \in ChecklistsService : RightMethod(m)
  BY <1>1, <1>2, CreateRight, EditRight DEF ChecklistsService
<1>5. \A m \in CommentsService : RightMethod(m)
  BY <1>1, <1>2, CreateRight, EditRight DEF CommentsService
<1>6. \A m \in AttachmentsService : RightMethod(m)
  BY <1>1, <1>2, CreateRight, EditRight DEF AttachmentsService
<1>7. \A m \in ListsService : RightMethod(m)
  BY <1>1, <1>2, CreateRight, EditRight, OtherRight DEF ListsService
<1>8. \A m \in CardsService : RightMethod(m)
  BY <1>1, <1>2, CreateRight, EditRight, OtherRight DEF CardsService
<1>9. \A m \in BoardsService : RightMethod(m)
  BY OtherRight DEF BoardsService
<1> QED
  BY <1>3, <1>4, <1>5, <1>6, <1>7, <1>8, <1>9 DEF Methods

(***************************************************************************)
(* What a request holds                                                    *)
(***************************************************************************)

Busy(q) == q.does # "none"
Awaits(q, stage) == stage \in Stages(q.left)

\* The methods that write what a template consists of.
Guarded(q) ==
    \/ q.does \in {"link", "pour", "transfer", "copy", "move"}
    \/ q.does = "create" /\ q.new \notin {"comment", "attachment"}
    \/ q.does = "edit" /\ q.row \notin Comments \cup Attachments

\* The rows a method works with are of its kinds.
RightKinds(q) ==
    /\ q.does = "create" => /\ \A x \in Ids(q.new) : x \in Rows /\ q.row \in Above(x)
                            /\ q.other = None
    /\ q.does = "edit" => q.row \in Rows /\ q.other = None
    /\ q.does = "link" => q.row \in Cards /\ q.other \in Labels
    /\ q.does = "move" => q.row \in Cards /\ q.other \in Lists
    /\ q.does = "pour" => q.row \in Lists /\ q.other \in Lists
    /\ q.does \in {"transfer", "copy"} => q.row \in Lists /\ q.other = None
    /\ q.does \in {"assign", "unassign"} => q.row \in Cards /\ q.other \in Users
    /\ q.does = "expel" => q.row = q.board /\ q.other \in Users

\* What a copy has read is its list with rows below it, each with one parent.
RightTree(q) ==
    /\ \A p \in q.tree : /\ p[1] \in Rows /\ (p[1] \in Lists => p[1] = q.row)
                         /\ p[1] # q.row => /\ p[2] \in Above(p[1])
                                            /\ \E o \in q.tree : o[1] = p[2]
    /\ \A p, o \in q.tree : p[1] = o[1] => p = o
    /\ \A p \in q.links \cup q.jobs : \E o \in q.tree : o[1] = p[1]

\* Of every request, late or not.
Shaped(q) ==
    /\ q.does \in AllDoes /\ q.board \in Boards /\ q.to \in Boards
    /\ q.row \in Rows \cup {q.board}
    /\ q.does # "transfer" => q.to = q.board
    /\ Once(q.left)
    /\ RightKinds(q)
    /\ q.does = "copy" => RightTree(q) /\ (Awaits(q, "read") \/ \E p \in q.tree : p[1] = q.row)
    /\ q.does = "transfer" => \A p \in q.links \cup q.jobs : p[1] \in q.cards

ShapeInv == \A r \in Reqs : req[r] # Idle => Shaped(req[r])

\* The fields of a request.
LEMMA FieldTypes ==
  ASSUME NEW q \in Request
  PROVE  /\ q = [does |-> q.does, new |-> q.new, left |-> q.left, board |-> q.board, to |-> q.to,
                 row |-> q.row, other |-> q.other, cards |-> q.cards, tree |-> q.tree,
                 links |-> q.links, people |-> q.people, jobs |-> q.jobs, late |-> q.late]
         /\ q.does \in {m.does : m \in Methods} \cup {"none"} /\ q.new \in Kinds
         /\ q.left \in Seq(Statements) /\ q.board \in Boards \cup {None}
         /\ q.to \in Boards \cup {None} /\ q.row \in Nodes /\ q.other \in Nodes \cup Users
         /\ q.cards \in SUBSET Cards /\ q.tree \in SUBSET (Rows \X Nodes)
         /\ q.links \in SUBSET (Cards \X Labels) /\ q.people \in SUBSET Users
         /\ q.jobs \in SUBSET (Cards \X Users) /\ q.late \in BOOLEAN
BY DEF Request

LEMMA IdleType == Idle \in Request /\ Idle.does = "none" /\ Idle.late = FALSE
BY TupleSeq DEF Idle, Request, Kinds, Nodes

LEMMA TypeTree ==
  /\ TypeOK => Tree(parent)
  /\ TypeOK' => Tree(parent')
BY HomeIsRoot DEF TypeOK, Tree

\* The same request, but for how far it is and whether it is late.
Alike(p, q) ==
    /\ p.does = q.does /\ p.new = q.new /\ p.board = q.board /\ p.to = q.to /\ p.row = q.row
    /\ p.other = q.other /\ p.cards = q.cards /\ p.tree = q.tree /\ p.links = q.links
    /\ p.people = q.people /\ p.jobs = q.jobs

\* A request that was overtaken is the same one, if a late one.
LEMMA OvertakenIs ==
  ASSUME NEW q \in Request, NEW p, p = Overtaken(q)
  PROVE  /\ p \in Request
         /\ q = Idle => p = Idle
         /\ q # Idle => /\ Alike(p, q) /\ p.left = q.left
                        /\ ~p.late => ~q.late /\ ~Outdates(q)
<1>1. q = Idle => p = Idle
  BY DEF Overtaken
<1>2. CASE q # Idle
  <2>1. PICK late : late = (q.late \/ Outdates(q))
    OBVIOUS
  <2>2. p = [q EXCEPT !.late = late]
    BY <1>2, <2>1 DEF Overtaken
  <2>3. late \in BOOLEAN
    BY <2>1
  <2>4. p \in Request
    BY <2>2, <2>3 DEF Request
  <2>5. /\ p.does = q.does /\ p.new = q.new /\ p.left = q.left /\ p.board = q.board
        /\ p.to = q.to /\ p.row = q.row /\ p.other = q.other /\ p.cards = q.cards
        /\ p.tree = q.tree /\ p.links = q.links /\ p.people = q.people /\ p.jobs = q.jobs
        /\ p.late = late
    BY <2>2, FieldTypes
  <2>6. ~p.late => ~q.late /\ ~Outdates(q)
    BY <2>1, <2>5
  <2> QED
    BY <1>2, <2>4, <2>5, <2>6 DEF Alike
<1> QED
  BY <1>1, <1>2, IdleType

\* The next statement has succeeded.
LEMMA ContinuedIs ==
  ASSUME NEW q \in Request, NEW p, p = [q EXCEPT !.left = Tail(@)], Once(q.left), q.left # <<>>
  PROVE  /\ p \in Request /\ Once(p.left) /\ Stages(p.left) = Stages(q.left) \ {Head(q.left)}
         /\ Alike(p, q) /\ p.late = q.late
<1>1. PICK s : s = Tail(q.left)
  OBVIOUS
<1>2. p = [q EXCEPT !.left = s]
  BY <1>1
<1>3. Once(s) /\ Stages(s) = Stages(q.left) \ {Head(q.left)} /\ s \in Seq(Statements)
  <2>1. Once(Tail(q.left)) /\ Stages(Tail(q.left)) = Stages(q.left) \ {Head(q.left)}
    BY ONLY Once(q.left), q.left # <<>>, OnceTail
  <2> QED
    BY <1>1, <2>1 DEF Once
<1>4. p \in Request
  BY <1>2, <1>3 DEF Request
<1>5. /\ p.does = q.does /\ p.new = q.new /\ p.left = s /\ p.board = q.board
      /\ p.to = q.to /\ p.row = q.row /\ p.other = q.other /\ p.cards = q.cards
      /\ p.tree = q.tree /\ p.links = q.links /\ p.people = q.people /\ p.jobs = q.jobs
      /\ p.late = q.late
  BY <1>2, FieldTypes
<1> QED
  BY <1>3, <1>4, <1>5 DEF Alike

LEMMA SlotType ==
  ASSUME TypeOK, NEW r \in Reqs
  PROVE  req[r] \in Request
BY DEF TypeOK

LEMMA OvertakenShape ==
  ASSUME NEW q \in Request, NEW p, p = Overtaken(q), q # Idle => Shaped(q)
  PROVE  p \in Request /\ (p # Idle => q # Idle /\ Shaped(p) /\ Alike(p, q) /\ p.left = q.left)
<1>1. CASE q = Idle
  BY <1>1, OvertakenIs
<1>2. CASE q # Idle
  <2>1. p \in Request /\ Alike(p, q) /\ p.left = q.left
    BY <1>2, OvertakenIs
  <2> QED
    BY <1>2, <2>1 DEF Alike, Shaped, RightKinds, RightTree, Awaits
<1> QED
  BY <1>1, <1>2, IdleType

\* A request that has found its row.
LEMMA ArrivedIs ==
  ASSUME TypeOK, NEW m \in Methods, RightMethod(m), NEW b \in Boards, NEW t \in Boards,
         (t # b) = (m.does = "transfer"),
         NEW x, x \in Ids(m.on), OnBoard(x, b), NEW o, o \in Others(m, b), NEW p,
         p = [does |-> m.does, new |-> m.with, left |-> m.then, board |-> b, to |-> t, row |-> x,
              other |-> o, cards |-> {}, tree |-> {}, links |-> {}, people |-> {},
              jobs |-> {}, late |-> FALSE]
  PROVE  /\ p \in Request /\ Shaped(p)
         /\ p.does = m.does /\ p.new = m.with /\ p.left = m.then /\ p.board = b /\ p.to = t
         /\ p.row = x /\ p.other = o /\ p.cards = {} /\ p.links = {} /\ p.jobs = {}
         /\ p.people = {} /\ ~p.late
<1>2. /\ p.does = m.does /\ p.new = m.with /\ p.left = m.then /\ p.board = b /\ p.to = t
      /\ p.row = x /\ p.other = o /\ p.cards = {} /\ p.tree = {} /\ p.links = {} /\ p.jobs = {}
      /\ p.people = {} /\ p.late = FALSE
  OBVIOUS
<1>3. x \in Nodes /\ (x \in Rows \/ x = b) /\ x \in Ids(m.on) /\ Home(x) = b
  <2>1. \A y \in Boards \cup Users : Home(y) = y
    BY Apart, HomeIsRoot DEF Root, Over
  <2>2. m.on \in Kinds /\ x \in Ids(m.on) /\ Home(x) = b
    BY DEF RightMethod, OnBoard
  <2>3. x \in Boards \cup Users \cup Rows
    BY <2>2, IdsAre DEF Kinds, Rows
  <2> QED
    BY <2>1, <2>2, <2>3, Apart DEF Nodes
<1>4. o \in Nodes \cup Users
  <2>1. members[b] \subseteq Users /\ m.with \in Kinds
    BY DEF TypeOK, RightMethod
  <2>2. \A k \in Kinds : Ids(k) \subseteq Nodes \cup Users
    BY IdsAre DEF Kinds, Nodes, Rows
  <2> QED
    BY <2>1, <2>2 DEF Others, Nodes
<1>5. p \in Request
  <2>1. p.does \in {n.does : n \in Methods} \cup {"none"}
    BY <1>2
  <2>2. p.left \in Seq(Statements) /\ p.new \in Kinds
    BY <1>2 DEF RightMethod, Once
  <2> QED
    BY <1>2, <1>3, <1>4, <2>1, <2>2 DEF Request
<1>6. RightKinds(p)
  <2>1. p.does = "create" => /\ \A y \in Ids(p.new) : y \in Rows /\ p.row \in Above(y)
                             /\ p.other = None
    BY <1>2, <1>3 DEF RightMethod, Others
  <2>2. p.does = "edit" => p.row \in Rows /\ p.other = None
    BY <1>2, <1>3 DEF RightMethod, Others
  <2>3. p.does = "link" => p.row \in Cards /\ p.other \in Labels
    BY <1>2, <1>3, IdsAre DEF RightMethod, Others
  <2>4. p.does = "move" => p.row \in Cards /\ p.other \in Lists
    BY <1>2, <1>3, IdsAre DEF RightMethod, Others
  <2>5. p.does = "pour" => p.row \in Lists /\ p.other \in Lists
    BY <1>2, <1>3, IdsAre DEF RightMethod, Others
  <2>6. p.does \in {"transfer", "copy"} => p.row \in Lists /\ p.other = None
    BY <1>2, <1>3, IdsAre DEF RightMethod, Others
  <2>7. p.does \in {"assign", "unassign"} => p.row \in Cards /\ p.other \in Users
    BY <1>2, <1>3, IdsAre DEF RightMethod, Others
  <2>8. p.does = "expel" => p.row = p.board /\ p.other \in Users
    <3>1. members[b] \subseteq Users
      BY DEF TypeOK
    <3> QED
      BY <1>2, <1>3, <3>1, IdsAre, Apart DEF RightMethod, Others, Rows
  <2> QED
    BY <2>1, <2>2, <2>3, <2>4, <2>5, <2>6, <2>7, <2>8 DEF RightKinds
<1>7. Shaped(p)
  <2>1. p.does \in AllDoes /\ Once(p.left)
    BY <1>2 DEF RightMethod
  <2>2. RightTree(p) /\ \A y \in p.links \cup p.jobs : y[1] \in p.cards
    BY <1>2 DEF RightTree
  <2>3. p.does = "copy" => Awaits(p, "read")
    BY <1>2 DEF RightMethod, Awaits
  <2> QED
    BY <1>2, <1>3, <1>6, <2>1, <2>2, <2>3 DEF Shaped
<1> QED
  BY <1>2, <1>5, <1>7

\* A step of one request that is no write.
LEMMA SlotStep ==
  ASSUME TypeOK, ShapeInv, NEW r \in Reqs, NEW p, Become(r, p), ReadOnly,
         p = Idle \/ (p \in Request /\ Shaped(p))
  PROVE  /\ TypeOK' /\ ShapeInv' /\ req'[r] = p /\ \A q \in Reqs : q # r => req'[q] = req[q]
<1>1. /\ \A q \in Reqs : req'[q] = IF q = r THEN p ELSE req[q]
      /\ req' \in [Reqs -> Request]
  BY IdleType DEF Become, TypeOK
<1>2. TypeOK'
  BY <1>1 DEF TypeOK, ReadOnly, rows, Up
<1>3. ShapeInv'
  BY <1>1 DEF ShapeInv
<1> QED
  BY <1>1, <1>2, <1>3

\* A write, or a change of the visibility of a template.
LEMMA OthersShape ==
  ASSUME TypeOK, ShapeInv, Tree(parent'), focus' = focus,
         linked' \subseteq Cards \X Labels, assigned' \subseteq Cards \X Users,
         members' \in [Boards -> SUBSET Users], public' \subseteq Boards, tidy' \in BOOLEAN,
         req' = [q \in Reqs |-> req'[q]],
         \A q \in Reqs : req'[q] \in {Idle, Overtaken(req[q])}
  PROVE  /\ TypeOK' /\ ShapeInv'
<1>1. ASSUME NEW q \in Reqs PROVE req'[q] \in Request /\ (req'[q] # Idle => Shaped(req'[q]))
  <2>1. CASE req'[q] = Idle
    BY <2>1, IdleType
  <2>2. CASE req'[q] = Overtaken(req[q])
    <3>1. PICK o, p : o = req[q] /\ p = req'[q]
      OBVIOUS
    <3>2. o \in Request /\ (o # Idle => Shaped(o))
      BY <3>1, SlotType DEF ShapeInv
    <3>3. p = Overtaken(o)
      BY <2>2, <3>1
    <3> QED
      BY <3>1, <3>2, <3>3, OvertakenShape
  <2> QED
    BY <2>1, <2>2
<1>2. req' \in [Reqs -> Request]
  BY <1>1
<1>3. TypeOK'
  BY <1>2, HomeIsRoot DEF TypeOK, Tree
<1>4. ShapeInv'
  BY <1>1 DEF ShapeInv
<1> QED
  BY <1>3, <1>4

\* The rows of a list that are copied, with their parents.
Copied(x) == Below(x) \ Comments

LEMMA CopiedIs ==
  ASSUME Tree(parent), NEW x \in Lists, Home(x) \in Boards
  PROVE  /\ x \in Copied(x) /\ Copied(x) \subseteq Rows
         /\ \A y \in Copied(x) : /\ parent[y] \in Nodes /\ (y \in Lists => y = x)
                                 /\ y # x => parent[y] \in Above(y) /\ parent[y] \in Copied(x)
                                 /\ Home(y) = Home(x)
<1>1. x \in Rows /\ parent[x] # None /\ x \notin Comments
  <2>1. x \in Rows /\ x \notin Comments
    BY AboveKinds, Apart
  <2> QED
    BY <2>1, HomeIsRoot, RootOf, Apart
<1> DEFINE B == BelowIn(parent, x)
<1>2. /\ x \in B /\ B \subseteq Rows
      /\ \A y \in B : y = x \/ parent[y] \in B
      /\ \A y \in B : parent[y] # None /\ Root(parent, y) = Root(parent, x)
  BY <1>1, BelowOf DEF BelowIn
<1> HIDE DEF B
<1>3. ASSUME NEW y \in B PROVE parent[y] \in Above(y) /\ parent[y] \in Nodes
  BY <1>2 DEF Tree
<1>4. ASSUME NEW y \in B, y \in Lists PROVE y = x
  <2>1. parent[y] \in Boards
    BY <1>3, <1>4, AboveKinds
  <2> QED
    BY <1>2, <2>1, Apart
<1>5. ASSUME NEW y \in B, y # x PROVE parent[y] \in B \ Comments
  <2>1. Above(y) \cap Comments = {}
    BY <1>2, AboveKinds, Apart
  <2> QED
    BY <1>2, <1>3, <1>5, <2>1
<1>6. Copied(x) = B \ Comments
  BY BelowIsIn DEF Copied, B
<1> QED
  BY <1>1, <1>2, <1>3, <1>4, <1>5, <1>6, HomeIsRoot

Earmarked(q) ==
    IF q.does = "expel"
    THEN {c \in Cards : Home(c) = q.board /\ <<c, q.other>> \in assigned}
    ELSE CardsOf(q.row)

\* What a request holds after it has read.
LEMMA ReadIs ==
  ASSUME TypeOK, ShapeInv, NEW r \in Reqs, Read(r), NEW q, q = req[r]
  PROVE  \E p : /\ Become(r, p) /\ ReadOnly
                /\ \/ p = Idle
                   \/ /\ p \in Request /\ Shaped(p) /\ Stages(p.left) = Stages(q.left) \ {"read"}
                      /\ p.does = q.does /\ p.new = q.new /\ p.board = q.board /\ p.to = q.to
                      /\ p.row = q.row /\ p.other = q.other /\ p.people = q.people
                      /\ p.late = q.late
                      /\ p.does = "copy" =>
                           /\ OnBoard(p.row, p.board)
                           /\ p.links = linked \cap (Copied(p.row) \X Labels)
                           /\ p.jobs = assigned \cap (Copied(p.row) \X Users)
                      /\ p.does # "copy" => p.cards = Earmarked(q)
<1>1. /\ q \in Request /\ Shaped(q) /\ q.left # <<>> /\ Head(q.left) = "read" /\ ReadOnly
      /\ q # Idle /\ Once(q.left)
  <2>1. q \in Request /\ q.left # <<>> /\ Head(q.left) = "read" /\ ReadOnly /\ q # Idle
    BY SlotType DEF Read, Next1, Idle
  <2> QED
    BY <2>1 DEF ShapeInv, Shaped
<1>2. PICK s : s = Tail(q.left)
  OBVIOUS
<1>3. Once(s) /\ Stages(s) = Stages(q.left) \ {"read"} /\ s \in Seq(Statements)
  <2>1. Once(Tail(q.left)) /\ Stages(Tail(q.left)) = Stages(q.left) \ {Head(q.left)}
    BY ONLY <1>1, OnceTail
  <2>2. Once(s) /\ Stages(s) = Stages(q.left) \ {"read"}
    BY ONLY <1>1, <1>2, <2>1
  <2> QED
    BY <2>2 DEF Once
<1>4. Tree(parent) /\ linked \subseteq Cards \X Labels /\ assigned \subseteq Cards \X Users
  BY TypeTree DEF TypeOK
<1>5. CASE q.does = "copy" /\ OnBoard(q.row, q.board)
  <2>1. PICK t, k, j : /\ t = {<<x, parent[x]>> : x \in Copied(q.row)}
                       /\ k = linked \cap (Copied(q.row) \X Labels)
                       /\ j = assigned \cap (Copied(q.row) \X Users)
    OBVIOUS
  <2>2. PICK p : p = [q EXCEPT !.left = s, !.tree = t, !.links = k, !.jobs = j]
    OBVIOUS
  <2>3. Become(r, p)
    BY <1>1, <1>2, <1>5, <2>1, <2>2 DEF Read, Copied
  <2>4. q.row \in Lists /\ Home(q.row) \in Boards
    BY <1>1, <1>5 DEF Shaped, RightKinds, OnBoard
  <2>5. /\ q.row \in Copied(q.row) /\ Copied(q.row) \subseteq Rows
        /\ \A y \in Copied(q.row) :
             /\ parent[y] \in Nodes /\ (y \in Lists => y = q.row)
             /\ y # q.row => parent[y] \in Above(y) /\ parent[y] \in Copied(q.row)
    BY <1>4, <2>4, CopiedIs
  <2>6. /\ t \subseteq Rows \X Nodes
        /\ k \subseteq Cards \X Labels /\ j \subseteq Cards \X Users
    BY <1>4, <2>1, <2>5
  <2>7. p \in Request
    <3>1. p = [does |-> q.does, new |-> q.new, left |-> s, board |-> q.board, to |-> q.to,
               row |-> q.row, other |-> q.other, cards |-> q.cards, tree |-> t, links |-> k,
               people |-> q.people, jobs |-> j, late |-> q.late]
      BY ONLY <1>1, <2>2 DEF Request
    <3> QED
      BY ONLY <1>1, <1>3, <2>6, <3>1, FieldTypes DEF Request
  <2>8. /\ p.does = q.does /\ p.new = q.new /\ p.left = s /\ p.board = q.board
        /\ p.to = q.to /\ p.row = q.row /\ p.other = q.other /\ p.people = q.people
        /\ p.late = q.late /\ p.tree = t /\ p.links = k /\ p.jobs = j
    BY <1>1, <2>2, FieldTypes
  <2>9. RightTree(p) /\ \E o \in p.tree : o[1] = p.row
    <3>0. \A x \in Copied(q.row) : \E o \in p.tree : o[1] = x
      <4> SUFFICES ASSUME NEW x \in Copied(q.row) PROVE \E o \in p.tree : o[1] = x
        OBVIOUS
      <4>1. <<x, parent[x]>> \in p.tree /\ <<x, parent[x]>>[1] = x
        BY <2>1, <2>8
      <4> QED
        BY <4>1
    <3>1. ASSUME NEW y \in p.tree
          PROVE  /\ y[1] \in Rows /\ (y[1] \in Lists => y[1] = p.row)
                 /\ y[1] # p.row => y[2] \in Above(y[1]) /\ \E o \in p.tree : o[1] = y[2]
      <4>1. PICK x \in Copied(q.row) : y = <<x, parent[x]>>
        BY <2>1, <2>8
      <4>2. y[1] = x /\ y[2] = parent[x]
        BY <4>1
      <4> QED
        BY <2>5, <2>8, <3>0, <4>2
    <3>2. \A y, o \in p.tree : y[1] = o[1] => y = o
      BY <2>1, <2>8
    <3>3. \A y \in p.links \cup p.jobs : \E o \in p.tree : o[1] = y[1]
      <4>1. \A y \in p.links \cup p.jobs : y[1] \in Copied(q.row)
        BY <2>1, <2>8
      <4> QED
        BY <3>0, <4>1
    <3>4. \E o \in p.tree : o[1] = p.row
      BY <2>5, <2>8, <3>0
    <3> QED
      BY <3>1, <3>2, <3>3, <3>4 DEF RightTree
  <2>10. Shaped(p)
    BY <1>1, <1>3, <1>5, <2>8, <2>9 DEF Shaped, RightKinds
  <2> QED
    BY <1>1, <1>3, <1>5, <2>1, <2>3, <2>7, <2>8, <2>10
<1>6. CASE q.does = "copy" /\ ~OnBoard(q.row, q.board)
  BY <1>1, <1>6 DEF Read, Finish
<1>7. CASE q.does # "copy"
  <2>1. PICK c, k, j : /\ c = Earmarked(q)
                       /\ k = IF q.does = "transfer" THEN linked \cap (c \X Labels) ELSE {}
                       /\ j = IF q.does = "transfer" THEN assigned \cap (c \X Users) ELSE {}
    OBVIOUS
  <2>2. PICK p : p = [q EXCEPT !.left = s, !.cards = c, !.links = k, !.jobs = j]
    OBVIOUS
  <2>3. Become(r, p)
    BY <1>1, <1>2, <1>7, <2>1, <2>2 DEF Read, Earmarked
  <2>4. /\ c \subseteq Cards /\ k \subseteq Cards \X Labels /\ j \subseteq Cards \X Users
        /\ \A y \in k \cup j : y[1] \in c
    BY <1>4, <2>1 DEF Earmarked, CardsOf
  <2>5. p \in Request
    <3>1. p = [does |-> q.does, new |-> q.new, left |-> s, board |-> q.board, to |-> q.to,
               row |-> q.row, other |-> q.other, cards |-> c, tree |-> q.tree, links |-> k,
               people |-> q.people, jobs |-> j, late |-> q.late]
      BY ONLY <1>1, <2>2 DEF Request
    <3> QED
      BY ONLY <1>1, <1>3, <2>4, <3>1, FieldTypes DEF Request
  <2>6. /\ p.does = q.does /\ p.new = q.new /\ p.left = s /\ p.board = q.board
        /\ p.to = q.to /\ p.row = q.row /\ p.other = q.other /\ p.people = q.people
        /\ p.late = q.late /\ p.cards = c /\ p.links = k /\ p.jobs = j
    BY <1>1, <2>2, FieldTypes
  <2>7. Shaped(p)
    BY <1>1, <1>3, <1>7, <2>4, <2>6 DEF Shaped, RightKinds
  <2> QED
    BY <1>1, <1>3, <1>7, <2>1, <2>3, <2>5, <2>6, <2>7
<1> QED
  BY <1>5, <1>6, <1>7

\* A statement that lets a request go on or refuses it.
LEMMA ProceedIs ==
  ASSUME TypeOK, ShapeInv, NEW r \in Reqs, NEW q, q = req[r], NEW stage, stage # "read",
         Next1(r, stage), NEW allowed \in BOOLEAN, Proceed(r, allowed)
  PROVE  \E p : /\ Become(r, p) /\ ReadOnly
                /\ \/ p = Idle
                   \/ /\ allowed /\ p \in Request /\ Shaped(p)
                      /\ Stages(p.left) = Stages(q.left) \ {stage}
                      /\ Alike(p, q) /\ p.late = q.late /\ q # Idle
<1>1. q \in Request /\ Shaped(q) /\ q.left # <<>> /\ Head(q.left) = stage /\ q # Idle /\ Once(q.left)
  <2>1. q \in Request /\ q.left # <<>> /\ Head(q.left) = stage /\ q # Idle
    BY SlotType DEF Next1, Idle
  <2> QED
    BY <2>1 DEF ShapeInv, Shaped
<1>2. CASE allowed
  <2>1. PICK p : p = [q EXCEPT !.left = Tail(@)]
    OBVIOUS
  <2>2. Become(r, p) /\ ReadOnly
    BY <1>2, <2>1 DEF Proceed, Continue
  <2>3. /\ p \in Request /\ Once(p.left) /\ Stages(p.left) = Stages(q.left) \ {stage}
        /\ Alike(p, q) /\ p.late = q.late
    BY ONLY <1>1, <2>1, ContinuedIs
  <2>4. Shaped(p)
    BY <1>1, <2>3 DEF Alike, Shaped, RightKinds, RightTree, Awaits
  <2> QED
    BY <1>1, <1>2, <2>2, <2>3, <2>4
<1>3. CASE ~allowed
  BY <1>3 DEF Proceed, Finish
<1> QED
  BY <1>2, <1>3

\* The steps of a request that find out and change nothing, and what they tell.
LEMMA LookIs ==
  ASSUME TypeOK, ShapeInv, NEW r \in Reqs, NEW q, q = req[r],
         CheckOther(r) \/ Guard(r) \/ CheckMember(r) \/ ReadPeople(r)
  PROVE  \E p, stage : /\ Become(r, p) /\ ReadOnly
                /\ \/ p = Idle
                   \/ /\ p \in Request /\ Shaped(p) /\ q # Idle /\ p.late = q.late
                      /\ Stages(p.left) = Stages(q.left) \ {stage}
                      /\ \/ /\ Alike(p, q)
                            /\ \/ /\ stage = "other"
                                  /\ \/ OnBoard(q.other, q.board)
                                     \/ q.does = "move" /\ Up(q.row) = q.other
                               \/ stage = "guard" /\ Editable(q.board)
                               \/ stage = "target" /\ Editable(q.to)
                               \/ stage = "member" /\ q.other \in members[q.board]
                         \/ stage = "people" /\ Alike(p, [q EXCEPT !.people = members[q.to]])
<1>1. CASE CheckOther(r)
  <2>1. PICK allowed \in BOOLEAN :
          allowed = (OnBoard(q.other, q.board) \/ (q.does = "move" /\ Up(q.row) = q.other))
    OBVIOUS
  <2>2. Next1(r, "other") /\ Proceed(r, allowed)
    BY <1>1, <2>1 DEF CheckOther, Does
  <2>3. "other" # "read"
    OBVIOUS
  <2>4. PICK p : /\ Become(r, p) /\ ReadOnly
                 /\ \/ p = Idle
                    \/ /\ allowed /\ p \in Request /\ Shaped(p)
                       /\ Stages(p.left) = Stages(q.left) \ {"other"}
                       /\ Alike(p, q) /\ p.late = q.late /\ q # Idle
    BY <2>2, <2>3, ProceedIs
  <2> QED
    BY <2>1, <2>4
<1>2. CASE Next1(r, "guard") /\ Proceed(r, Editable(q.board))
  <2>1. PICK allowed \in BOOLEAN : allowed = Editable(q.board)
    BY DEF Editable
  <2>2. Next1(r, "guard") /\ Proceed(r, allowed) /\ "guard" # "read"
    BY <1>2, <2>1
  <2>4. PICK p : /\ Become(r, p) /\ ReadOnly
                 /\ \/ p = Idle
                    \/ /\ allowed /\ p \in Request /\ Shaped(p)
                       /\ Stages(p.left) = Stages(q.left) \ {"guard"}
                       /\ Alike(p, q) /\ p.late = q.late /\ q # Idle
    BY <2>2, ProceedIs
  <2> QED
    BY <2>1, <2>4
<1>3. CASE Next1(r, "target") /\ Proceed(r, Editable(q.to))
  <2>1. PICK allowed \in BOOLEAN : allowed = Editable(q.to)
    BY DEF Editable
  <2>2. Next1(r, "target") /\ Proceed(r, allowed) /\ "target" # "read"
    BY <1>3, <2>1
  <2>4. PICK p : /\ Become(r, p) /\ ReadOnly
                 /\ \/ p = Idle
                    \/ /\ allowed /\ p \in Request /\ Shaped(p)
                       /\ Stages(p.left) = Stages(q.left) \ {"target"}
                       /\ Alike(p, q) /\ p.late = q.late /\ q # Idle
    BY <2>2, ProceedIs
  <2> QED
    BY <2>1, <2>4
<1>4. CASE CheckMember(r)
  <2>1. PICK allowed \in BOOLEAN : allowed <=> q.other \in members[q.board]
    OBVIOUS
  <2>2. Next1(r, "member") /\ Proceed(r, allowed) /\ "member" # "read"
    BY <1>4, <2>1 DEF CheckMember, Proceed
  <2>4. PICK p : /\ Become(r, p) /\ ReadOnly
                 /\ \/ p = Idle
                    \/ /\ allowed /\ p \in Request /\ Shaped(p)
                       /\ Stages(p.left) = Stages(q.left) \ {"member"}
                       /\ Alike(p, q) /\ p.late = q.late /\ q # Idle
    BY <2>2, ProceedIs
  <2> QED
    BY <2>1, <2>4
<1>5. CASE ReadPeople(r)
  <2>1. /\ q \in Request /\ Shaped(q) /\ q.left # <<>> /\ Head(q.left) = "people" /\ q # Idle
        /\ Once(q.left) /\ q.to \in Boards
    <3>1. q \in Request /\ q.left # <<>> /\ Head(q.left) = "people" /\ q # Idle
      BY <1>5, SlotType DEF ReadPeople, Next1, Idle
    <3> QED
      BY <3>1 DEF ShapeInv, Shaped
  <2>2. PICK m : m = members[q.to]
    OBVIOUS
  <2>3. PICK s : s = Tail(q.left)
    OBVIOUS
  <2>4. PICK p : p = [q EXCEPT !.left = s, !.people = m]
    OBVIOUS
  <2>5. Become(r, p) /\ ReadOnly
    BY <1>5, <2>2, <2>3, <2>4 DEF ReadPeople
  <2>6. Once(s) /\ Stages(s) = Stages(q.left) \ {"people"}
    <3>1. Once(Tail(q.left)) /\ Stages(Tail(q.left)) = Stages(q.left) \ {Head(q.left)}
      BY ONLY <2>1, OnceTail
    <3> QED
      BY ONLY <2>1, <2>3, <3>1
  <2>7. m \in SUBSET Users /\ s \in Seq(Statements)
    BY <2>1, <2>2, <2>6 DEF TypeOK, Once
  <2>8. p \in Request
    BY <2>1, <2>4, <2>7 DEF Request
  <2>9. /\ p.does = q.does /\ p.new = q.new /\ p.board = q.board /\ p.to = q.to /\ p.row = q.row
        /\ p.other = q.other /\ p.cards = q.cards /\ p.tree = q.tree /\ p.links = q.links
        /\ p.people = m /\ p.jobs = q.jobs /\ p.left = s /\ p.late = q.late
    BY <2>1, <2>4, FieldTypes
  <2>10. Shaped(p)
    BY <2>1, <2>6, <2>9 DEF Shaped, RightKinds, RightTree, Awaits
  <2>11. Alike(p, [q EXCEPT !.people = m])
    BY <2>1, <2>9, FieldTypes DEF Alike
  <2> QED
    BY <2>1, <2>2, <2>5, <2>6, <2>8, <2>9, <2>10, <2>11
<1> QED
  BY <1>1, <1>2, <1>3, <1>4, <1>5 DEF Guard

(***************************************************************************)
(* What a request counts on                                                *)
(***************************************************************************)

OnOrGone(x, b) == Home(x) \in {b, None}

\* What the statements so far have shown, of a request that is not late.
Holds(q) ==
    /\ q.row \in Rows => OnOrGone(q.row, q.board)
    /\ q.other \in Rows /\ ~Awaits(q, "other") => OnOrGone(q.other, q.board)
    /\ q.does = "pour" => \A c \in q.cards : OnOrGone(c, q.board)
    /\ Guarded(q) /\ ~Awaits(q, "guard") => Editable(q.board)
    /\ q.does = "transfer" /\ ~Awaits(q, "target") => Editable(q.to)
    /\ q.does = "transfer" /\ ~Awaits(q, "read") => q.cards = CardsOf(q.row)
    /\ q.does = "transfer" => q.people \subseteq members[q.to]
    /\ q.does = "assign" /\ ~Awaits(q, "member") => q.other \in members[q.board]
    /\ q.does = "expel" /\ ~Awaits(q, "read") => Earmarked(q) \subseteq q.cards
    /\ q.does = "copy" /\ tidy => \A p \in q.jobs : p[2] \in members[q.board]

ClaimInv == \A r \in Reqs : req[r] # Idle /\ ~req[r].late => Holds(req[r])

\* The labels that a copy has read are of its board, or gone.
LabelsHold(q) ==
    q.does = "copy" /\ tidy => \A p \in q.links : OnOrGone(p[2], q.board)

LabelInv == \A r \in Reqs : LabelsHold(req[r])

\* Nothing that is counted on changes when nothing is written and nobody leaves.
LEMMA HoldsStill ==
  ASSUME UNCHANGED <<rows, public>>, tidy' => tidy,
         \A b \in Boards : members[b] \subseteq members'[b]
  PROVE  /\ \A q : Shaped(q) /\ Holds(q) => Holds(q)'
         /\ \A q : LabelsHold(q) => LabelsHold(q)'
<1>1. /\ \A x : Home(x)' = Home(x)
      /\ \A x, b : OnOrGone(x, b)' = OnOrGone(x, b)
      /\ \A b : Editable(b)' = Editable(b)
      /\ \A x : CardsOf(x)' = CardsOf(x)
  BY DEF Home, Up, OnOrGone, Editable, CardsOf, rows
<1>2. \A q : Earmarked(q)' = Earmarked(q)
  BY <1>1 DEF Earmarked, rows
<1>3. ASSUME NEW q, Shaped(q), Holds(q) PROVE Holds(q)'
  <2>1. q.board \in Boards /\ q.to \in Boards
    BY <1>3 DEF Shaped
  <2>2. members[q.board] \subseteq members'[q.board] /\ members[q.to] \subseteq members'[q.to]
    BY <2>1
  <2> QED
    BY <1>1, <1>2, <1>3, <2>2 DEF Holds
<1>4. ASSUME NEW q, LabelsHold(q) PROVE LabelsHold(q)'
  BY <1>1, <1>4 DEF LabelsHold
<1> QED
  BY <1>3, <1>4

\* What a request counts on when it arrives.
LEMMA ArrivedHolds ==
  ASSUME TypeOK, NEW m \in Methods, RightMethod(m), NEW b \in Boards, NEW p,
         p.does = m.does, p.new = m.with, p.left = m.then, p.board = b, Shaped(p),
         p.row \in Ids(m.on), OnBoard(p.row, b), p.cards = {}, p.links = {}, p.jobs = {},
         p.people = {}
  PROVE  Holds(p) /\ LabelsHold(p)
<1>1. OnOrGone(p.row, p.board)
  BY DEF OnOrGone, OnBoard
<1>2. p.other \in Rows => Awaits(p, "other")
  <2>1. ASSUME p.other \in Rows PROVE p.does \in {"link", "move", "pour"}
    <3>1. p.other # None /\ p.other \notin Users
      BY <2>1, Apart
    <3> QED
      BY <3>1 DEF Shaped, RightKinds, AllDoes
  <2> QED
    BY <2>1 DEF RightMethod, Awaits
<1>3. Guarded(p) => Awaits(p, "guard")
  <2>1. p.does = "edit" /\ p.row \notin Comments \cup Attachments
        => m.on \notin {"comment", "attachment"}
    BY IdsAre
  <2> QED
    BY <2>1 DEF Guarded, RightMethod, Awaits
<1>4. /\ p.does \in {"transfer", "expel"} => Awaits(p, "read")
      /\ p.does = "transfer" => Awaits(p, "target")
      /\ p.does = "assign" => Awaits(p, "member")
  BY DEF RightMethod, Awaits
<1> QED
  BY <1>1, <1>2, <1>3, <1>4 DEF Holds, LabelsHold

\* A request that has looked counts on what it has seen.
LEMMA LookHolds ==
  ASSUME TypeOK, NEW q \in Request, NEW p, NEW stage, Holds(q), Shaped(q), Alike(p, q),
         Stages(p.left) = Stages(q.left) \ {stage},
         \/ stage = "other" /\ \/ OnBoard(q.other, q.board)
                               \/ q.does = "move" /\ Up(q.row) = q.other
         \/ stage = "guard" /\ Editable(q.board)
         \/ stage = "target" /\ Editable(q.to)
         \/ stage = "member" /\ q.other \in members[q.board]
  PROVE  Holds(p)
<1>1. /\ p.does = q.does /\ p.new = q.new /\ p.board = q.board /\ p.to = q.to /\ p.row = q.row
      /\ p.other = q.other /\ p.cards = q.cards /\ p.people = q.people /\ p.jobs = q.jobs
      /\ Guarded(p) <=> Guarded(q)
      /\ Earmarked(p) = Earmarked(q)
  BY DEF Alike, Guarded, Earmarked
<1>2. \A s : ~Awaits(p, s) => s = stage \/ ~Awaits(q, s)
  BY DEF Awaits
<1>3. stage = "other" /\ q.other \in Rows => OnOrGone(q.other, q.board)
  <2>1. CASE OnBoard(q.other, q.board)
    BY <2>1 DEF OnBoard, OnOrGone
  <2>2. CASE q.does = "move" /\ Up(q.row) = q.other
    <3>1. q.row \in Cards /\ q.row \in Rows /\ q.other \in Lists /\ q.other # None
      BY <2>2, AboveKinds, Apart DEF Shaped, RightKinds
    <3>2. OnOrGone(q.row, q.board) /\ parent[q.row] = q.other
      BY <2>2, <3>1 DEF Holds, Up
    <3>3. Home(q.row) = Home(q.other)
      BY <3>1, <3>2, TypeTree, RootOf, HomeIsRoot
    <3> QED
      BY <3>2, <3>3 DEF OnOrGone
  <2> QED
    BY <2>1, <2>2
<1>4. p.other \in Rows /\ ~Awaits(p, "other") => OnOrGone(p.other, p.board)
  BY <1>1, <1>2, <1>3 DEF Holds
<1>5. Guarded(p) /\ ~Awaits(p, "guard") => Editable(p.board)
  BY <1>1, <1>2 DEF Holds
<1>6. p.does = "transfer" /\ ~Awaits(p, "target") => Editable(p.to)
  BY <1>1, <1>2 DEF Holds
<1>7. p.does = "transfer" /\ ~Awaits(p, "read") => p.cards = CardsOf(p.row)
  BY <1>1, <1>2 DEF Holds
<1>8. p.does = "assign" /\ ~Awaits(p, "member") => p.other \in members[p.board]
  BY <1>1, <1>2 DEF Holds
<1>9. p.does = "expel" /\ ~Awaits(p, "read") => Earmarked(p) \subseteq p.cards
  BY <1>1, <1>2 DEF Holds
<1> QED
  BY <1>1, <1>4, <1>5, <1>6, <1>7, <1>8, <1>9 DEF Holds

LEMMA PeopleHolds ==
  ASSUME NEW q, NEW p, Holds(q), Shaped(q), Stages(p.left) = Stages(q.left) \ {"people"},
         Alike(p, [q EXCEPT !.people = members[q.to]]), q \in Request
  PROVE  Holds(p)
<1>1. /\ p.does = q.does /\ p.new = q.new /\ p.board = q.board /\ p.to = q.to /\ p.row = q.row
      /\ p.other = q.other /\ p.cards = q.cards /\ p.people = members[q.to] /\ p.jobs = q.jobs
      /\ Guarded(p) <=> Guarded(q)
      /\ Earmarked(p) = Earmarked(q)
  <2>1. /\ p.does = q.does /\ p.new = q.new /\ p.board = q.board /\ p.to = q.to /\ p.row = q.row
        /\ p.other = q.other /\ p.cards = q.cards /\ p.people = members[q.to] /\ p.jobs = q.jobs
    BY FieldTypes DEF Alike
  <2> QED
    BY <2>1 DEF Guarded, Earmarked
<1>2. \A s \in {"other", "guard", "target", "read", "member"} : Awaits(p, s) <=> Awaits(q, s)
  BY DEF Awaits
<1> QED
  BY <1>1, <1>2 DEF Holds

\* What a request counts on when it has read.
LEMMA ReadHolds ==
  ASSUME TypeOK, LinksAtHome, NEW q \in Request, NEW p, q.late \/ Holds(q), ~q.late, Shaped(q),
         Shaped(p), Stages(p.left) = Stages(q.left) \ {"read"},
         p.does = q.does, p.new = q.new, p.board = q.board, p.to = q.to, p.row = q.row,
         p.other = q.other, p.people = q.people,
         p.does = "copy" => /\ OnBoard(p.row, p.board)
                            /\ p.jobs = assigned \cap (Copied(p.row) \X Users),
         p.does # "copy" => p.cards = Earmarked(q)
  PROVE  Holds(p)
<1>1. (Guarded(p) <=> Guarded(q)) /\ Earmarked(p) = Earmarked(q)
  BY DEF Guarded, Earmarked
<1>2. \A s \in {"other", "guard", "target", "member"} : Awaits(p, s) <=> Awaits(q, s)
  BY DEF Awaits
<1>3. p.does = "pour" => \A c \in p.cards : OnOrGone(c, p.board)
  <2> SUFFICES ASSUME p.does = "pour", NEW c \in p.cards PROVE OnOrGone(c, p.board)
    OBVIOUS
  <2>1. p.row \in Lists /\ p.row \in Rows /\ p.row # None
    BY AboveKinds, Apart DEF Shaped, RightKinds
  <2>2. c \in Cards /\ c \in Rows /\ parent[c] = p.row
    BY AboveKinds DEF Earmarked, CardsOf
  <2>3. Home(c) = Home(p.row)
    BY <2>1, <2>2, TypeTree, RootOf, HomeIsRoot
  <2>4. OnOrGone(p.row, p.board)
    BY <2>1 DEF Holds
  <2> QED
    BY <2>3, <2>4 DEF OnOrGone
<1>4. p.does = "copy" /\ tidy => \A y \in p.jobs : y[2] \in members[p.board]
  <2> SUFFICES ASSUME p.does = "copy", tidy, NEW y \in p.jobs PROVE y[2] \in members[p.board]
    OBVIOUS
  <2>1. p.row \in Lists /\ Home(p.row) = p.board /\ p.board \in Boards
    BY DEF Shaped, RightKinds, OnBoard
  <2>2. y \in assigned /\ y[1] \in Copied(p.row)
    OBVIOUS
  <2>3. Home(y[1]) = Home(p.row)
    BY <2>1, <2>2, TypeTree, CopiedIs
  <2> QED
    BY <2>1, <2>2, <2>3 DEF LinksAtHome
<1>5. /\ p.does = "transfer" => p.cards = CardsOf(p.row)
      /\ p.does = "expel" => Earmarked(p) \subseteq p.cards
  BY <1>1 DEF Earmarked
<1> QED
  BY <1>1, <1>2, <1>3, <1>4, <1>5 DEF Holds

LEMMA ReadLabels ==
  ASSUME TypeOK, LinksAtHome, NEW p, Shaped(p),
         p.does = "copy" => /\ OnBoard(p.row, p.board)
                            /\ p.links = linked \cap (Copied(p.row) \X Labels)
  PROVE  LabelsHold(p)
<1> SUFFICES ASSUME p.does = "copy", tidy, NEW y \in p.links PROVE OnOrGone(y[2], p.board)
  BY DEF LabelsHold
<1>1. p.row \in Lists /\ Home(p.row) = p.board /\ p.board \in Boards
  BY DEF Shaped, RightKinds, OnBoard
<1>2. y \in linked /\ y[1] \in Copied(p.row)
  OBVIOUS
<1>3. Home(y[1]) = Home(p.row)
  BY <1>1, <1>2, TypeTree, CopiedIs
<1> QED
  BY <1>1, <1>2, <1>3 DEF LinksAtHome, OnOrGone

\* The inductive invariant.
Inv == TypeOK /\ ShapeInv /\ ClaimInv /\ LabelInv /\ LinksAtHome

\* One request has a new record, and nothing else changes.
LEMMA SlotInv ==
  ASSUME Inv, NEW r \in Reqs, NEW p, Become(r, p), ReadOnly,
         \/ p = Idle
         \/ p \in Request /\ Shaped(p) /\ (p.late \/ Holds(p)) /\ LabelsHold(p)
  PROVE  Inv' /\ ReadOnly
<1>1. /\ TypeOK' /\ ShapeInv' /\ req'[r] = p
      /\ \A q \in Reqs : q # r => req'[q] = req[q]
  BY SlotStep DEF Inv
<1>2. /\ UNCHANGED <<rows, public>> /\ tidy' = tidy
      /\ \A b \in Boards : members[b] \subseteq members'[b]
  BY DEF ReadOnly, rows
<1>3. ASSUME NEW o \in Reqs
      PROVE  \E q : /\ q = req'[o] /\ LabelsHold(q)'
                    /\ q # Idle /\ ~q.late => Holds(q)'
  <2>1. PICK q : q = req'[o]
    OBVIOUS
  <2>2. CASE o = r
    <3>1. q = p
      BY <1>1, <2>1, <2>2
    <3>2. LabelsHold(Idle)
      BY IdleType DEF LabelsHold
    <3>3. q # Idle /\ ~q.late => Shaped(q) /\ Holds(q)
      BY <3>1
    <3>4. LabelsHold(q)
      BY <3>1, <3>2
    <3>5. (q # Idle /\ ~q.late => Holds(q)') /\ LabelsHold(q)'
      BY <1>2, <3>3, <3>4, HoldsStill
    <3> QED
      BY <2>1, <3>5
  <2>3. CASE o # r
    <3>1. q = req[o]
      BY <1>1, <2>1, <2>3
    <3>3. q # Idle /\ ~q.late => Shaped(q) /\ Holds(q)
      BY <3>1 DEF Inv, ShapeInv, ClaimInv
    <3>4. LabelsHold(q)
      BY <3>1 DEF Inv, LabelInv
    <3>5. (q # Idle /\ ~q.late => Holds(q)') /\ LabelsHold(q)'
      BY <1>2, <3>3, <3>4, HoldsStill
    <3> QED
      BY <2>1, <3>5
  <2> QED
    BY <2>2, <2>3
<1>4. ClaimInv' /\ LabelInv'
  BY <1>3 DEF ClaimInv, LabelInv
<1>5. LinksAtHome'
  BY <1>2, HomeIsRoot DEF Inv, LinksAtHome, ReadOnly, rows
<1> QED
  BY <1>1, <1>4, <1>5 DEF Inv

LEMMA ArriveInv ==
  ASSUME Inv, NEW r \in Reqs, NEW methods \in SUBSET Methods, Arrive(r, methods)
  PROVE  Inv' /\ ReadOnly
<1>1. PICK m \in methods, b \in Boards, t \in Boards :
        /\ (t # b) = (m.does = "transfer")
        /\ \E x \in {y \in Ids(m.on) : OnBoard(y, b)}, o \in Others(m, b) :
              Become(r, [Idle EXCEPT !.does = m.does, !.new = m.with, !.left = m.then, !.board = b,
                                     !.to = t, !.row = x, !.other = o])
  BY ZenonT(60) DEF Arrive
<1>2. PICK x \in {y \in Ids(m.on) : OnBoard(y, b)}, o \in Others(m, b) :
        Become(r, [Idle EXCEPT !.does = m.does, !.new = m.with, !.left = m.then, !.board = b,
                               !.to = t, !.row = x, !.other = o])
  BY <1>1
<1>3. PICK p : p = [Idle EXCEPT !.does = m.does, !.new = m.with, !.left = m.then, !.board = b,
                                !.to = t, !.row = x, !.other = o]
  OBVIOUS
<1>4. Become(r, p) /\ ReadOnly
  BY <1>2, <1>3 DEF Arrive
<1>5. /\ m \in Methods /\ RightMethod(m) /\ TypeOK
      /\ x \in Ids(m.on) /\ OnBoard(x, b) /\ o \in Others(m, b)
  BY MethodsRight DEF Inv
<1>6. p = [does |-> m.does, new |-> m.with, left |-> m.then, board |-> b, to |-> t, row |-> x,
           other |-> o, cards |-> {}, tree |-> {}, links |-> {}, people |-> {},
           jobs |-> {}, late |-> FALSE]
  BY ONLY <1>3 DEF Idle
<1>7. /\ p \in Request /\ Shaped(p)
      /\ p.does = m.does /\ p.new = m.with /\ p.left = m.then /\ p.board = b /\ p.to = t
      /\ p.row = x /\ p.other = o /\ p.cards = {} /\ p.links = {} /\ p.jobs = {}
      /\ p.people = {} /\ ~p.late
  BY ONLY <1>1, <1>5, <1>6, b \in Boards, t \in Boards, ArrivedIs
<1>8. p.row \in Ids(m.on) /\ OnBoard(p.row, b)
  BY <1>7
<1>9. Holds(p) /\ LabelsHold(p)
  BY ONLY <1>5, <1>7, <1>8, b \in Boards, ArrivedHolds
<1> QED
  BY <1>4, <1>7, <1>9, SlotInv

LEMMA LookInv ==
  ASSUME Inv, NEW r \in Reqs, CheckOther(r) \/ Guard(r) \/ CheckMember(r) \/ ReadPeople(r)
  PROVE  Inv' /\ ReadOnly
<1>1. PICK q : q = req[r]
  OBVIOUS
<1>2. q \in Request /\ TypeOK /\ ShapeInv
  BY <1>1, SlotType DEF Inv
<1>3. q # Idle => Shaped(q) /\ (q.late \/ Holds(q)) /\ LabelsHold(q)
  BY <1>1 DEF Inv, ShapeInv, ClaimInv, LabelInv
<1>4. PICK p, stage : /\ Become(r, p) /\ ReadOnly
                /\ \/ p = Idle
                   \/ /\ p \in Request /\ Shaped(p) /\ q # Idle /\ p.late = q.late
                      /\ Stages(p.left) = Stages(q.left) \ {stage}
                      /\ \/ /\ Alike(p, q)
                            /\ \/ /\ stage = "other"
                                  /\ \/ OnBoard(q.other, q.board)
                                     \/ q.does = "move" /\ Up(q.row) = q.other
                               \/ stage = "guard" /\ Editable(q.board)
                               \/ stage = "target" /\ Editable(q.to)
                               \/ stage = "member" /\ q.other \in members[q.board]
                         \/ stage = "people" /\ Alike(p, [q EXCEPT !.people = members[q.to]])
  BY <1>1, <1>2, LookIs
<1>5. CASE p = Idle
  BY <1>4, <1>5, SlotInv
<1>6. CASE p # Idle
  <2>1. p.late \/ Holds(p)
    BY <1>2, <1>3, <1>4, <1>6, LookHolds, PeopleHolds
  <2>2. LabelsHold(p)
    <3>1. p.does = q.does /\ p.links = q.links /\ p.board = q.board
      BY <1>2, <1>4, <1>6, FieldTypes DEF Alike
    <3> QED
      BY <1>3, <1>4, <1>6, <3>1 DEF LabelsHold
  <2> QED
    BY <1>4, <1>6, <2>1, <2>2, SlotInv
<1> QED
  BY <1>5, <1>6

LEMMA ReadInv ==
  ASSUME Inv, NEW r \in Reqs, Read(r)
  PROVE  Inv' /\ ReadOnly
<1>1. PICK q : q = req[r]
  OBVIOUS
<1>2. q \in Request /\ TypeOK /\ ShapeInv /\ LinksAtHome
  BY <1>1, SlotType DEF Inv
<1>3. q # Idle /\ Shaped(q) /\ (q.late \/ Holds(q))
  <2>1. q # Idle
    BY <1>1 DEF Read, Next1, Idle
  <2> QED
    BY <1>1, <2>1 DEF Inv, ShapeInv, ClaimInv
<1>4. PICK p : /\ Become(r, p) /\ ReadOnly
               /\ \/ p = Idle
                  \/ /\ p \in Request /\ Shaped(p) /\ Stages(p.left) = Stages(q.left) \ {"read"}
                     /\ p.does = q.does /\ p.new = q.new /\ p.board = q.board /\ p.to = q.to
                     /\ p.row = q.row /\ p.other = q.other /\ p.people = q.people
                     /\ p.late = q.late
                     /\ p.does = "copy" =>
                          /\ OnBoard(p.row, p.board)
                          /\ p.links = linked \cap (Copied(p.row) \X Labels)
                          /\ p.jobs = assigned \cap (Copied(p.row) \X Users)
                     /\ p.does # "copy" => p.cards = Earmarked(q)
  BY <1>1, <1>2, ReadIs
<1>5. CASE p = Idle
  BY <1>4, <1>5, SlotInv
<1>6. CASE p # Idle
  <2>1. p.late \/ Holds(p)
    BY <1>2, <1>3, <1>4, <1>6, ReadHolds
  <2>2. LabelsHold(p)
    BY <1>2, <1>4, <1>6, ReadLabels
  <2> QED
    BY <1>4, <1>6, <2>1, <2>2, SlotInv
<1> QED
  BY <1>5, <1>6

LEMMA StopInv ==
  ASSUME Inv, NEW r \in Reqs, Stop(r)
  PROVE  Inv' /\ ReadOnly
<1>1. Become(r, Idle) /\ ReadOnly
  BY DEF Stop, Finish
<1> QED
  BY <1>1, SlotInv

\* Nobody does anything, or somebody joins a board.
LEMMA StillInv ==
  ASSUME Inv, UNCHANGED <<focus, rows, public, req, tidy>>,
         members' \in [Boards -> SUBSET Users],
         \A c \in Boards : members[c] \subseteq members'[c]
  PROVE  Inv'
<1>1. UNCHANGED <<focus, rows, public, req, tidy>>
  OBVIOUS
<1>2. TypeOK' /\ ShapeInv'
  BY <1>1 DEF Inv, TypeOK, ShapeInv, rows, Up
<1>3. ASSUME NEW o \in Reqs
      PROVE  \E q : /\ q = req'[o] /\ LabelsHold(q)'
                    /\ q # Idle /\ ~q.late => Holds(q)'
  <2>1. PICK q : q = req[o]
    OBVIOUS
  <2>2. (q # Idle /\ ~q.late => Shaped(q) /\ Holds(q)) /\ LabelsHold(q)
    BY <2>1 DEF Inv, ShapeInv, ClaimInv, LabelInv
  <2>3. (q # Idle /\ ~q.late => Holds(q)') /\ LabelsHold(q)'
    BY <1>1, <2>2, HoldsStill DEF rows
  <2> QED
    BY <1>1, <2>1, <2>3
<1>4. ClaimInv' /\ LabelInv'
  BY <1>3 DEF ClaimInv, LabelInv
<1>5. LinksAtHome'
  <2>1. \A x : Home(x)' = Home(x)
    BY <1>1 DEF Home, Up, rows
  <2> QED
    BY <1>1, <2>1 DEF Inv, LinksAtHome, rows
<1> QED
  BY <1>2, <1>4, <1>5 DEF Inv

(***************************************************************************)
(* Writes                                                                  *)
(***************************************************************************)

\* What a request counts on still holds after the step of another one that has
\* not made it late.
LEMMA Bystander ==
  ASSUME Tree(parent'), tidy' => tidy, NEW q \in Request, NEW p, p = Overtaken(q),
         q # Idle, Shaped(q), Holds(q), ~p.late
  PROVE  Holds(p)'
<1>1. Alike(p, q) /\ p.left = q.left /\ ~Outdates(q)
  BY OvertakenIs
<1>2. /\ p.does = q.does /\ p.new = q.new /\ p.board = q.board /\ p.to = q.to /\ p.row = q.row
      /\ p.other = q.other /\ p.cards = q.cards /\ p.people = q.people /\ p.jobs = q.jobs
      /\ p.left = q.left /\ (Guarded(p) <=> Guarded(q))
      /\ \A s : Awaits(p, s) <=> Awaits(q, s)
  BY <1>1 DEF Alike, Guarded, Awaits
<1>3. /\ \A x \in Named(q) : parent'[x] = None \/ Home(x)' = Home(x)
      /\ {q.board, q.to} \cap (public' \ public) = {}
      /\ q.does \in {"assign", "copy", "transfer"} => members[q.to] \subseteq members'[q.to]
      /\ q.does = "transfer" => \A c \in Cards : (parent'[c] = q.row) = (parent[c] = q.row)
      /\ q.does = "expel" =>
           \A c \in Cards : Home(c)' = q.board /\ <<c, q.other>> \in assigned'
                            => Home(c) = q.board /\ <<c, q.other>> \in assigned
  BY <1>1 DEF Outdates
<1>4. ASSUME NEW x \in Named(q), OnOrGone(x, q.board) PROVE OnOrGone(x, q.board)'
  <2>1. x \in Rows
    BY AboveKinds DEF Named, Request
  <2>2. parent'[x] = None => Home(x)' = None
    BY <2>1, HomeIsRoot, RootOf
  <2> QED
    BY <1>3, <1>4, <2>2 DEF OnOrGone
<1>5. (p.row \in Rows => OnOrGone(p.row, p.board)')
  BY <1>2, <1>4 DEF Holds, Named
<1>6. p.other \in Rows /\ ~Awaits(p, "other") => OnOrGone(p.other, p.board)'
  BY <1>2, <1>4 DEF Holds, Named
<1>7. p.does = "pour" => \A c \in p.cards : OnOrGone(c, p.board)'
  BY <1>2, <1>4 DEF Holds, Named
<1>8. /\ Guarded(p) /\ ~Awaits(p, "guard") => Editable(p.board)'
      /\ p.does = "transfer" /\ ~Awaits(p, "target") => Editable(p.to)'
  BY <1>2, <1>3 DEF Holds, Editable
<1>9. p.does = "transfer" /\ ~Awaits(p, "read") => p.cards = CardsOf(p.row)'
  BY <1>2, <1>3 DEF Holds, CardsOf
<1>10. p.does = "transfer" => p.people \subseteq members'[p.to]
  BY <1>2, <1>3 DEF Holds
<1>11. p.does \in {"assign", "copy"} => members[p.board] \subseteq members'[p.board]
  BY <1>2, <1>3 DEF Shaped
<1>12. p.does = "assign" /\ ~Awaits(p, "member") => p.other \in members'[p.board]
  BY <1>2, <1>11 DEF Holds
<1>13. p.does = "expel" /\ ~Awaits(p, "read") => (Earmarked(p) \subseteq p.cards)'
  BY <1>2, <1>3 DEF Holds, Earmarked
<1>14. p.does = "copy" /\ tidy' => \A y \in p.jobs : y[2] \in members'[p.board]
  BY <1>2, <1>11 DEF Holds
<1> QED
  BY <1>5, <1>6, <1>7, <1>8, <1>9, <1>10, <1>12, <1>13, <1>14 DEF Holds

\* A label that a copy mentions does not come to another board.
LEMMA BystanderLabels ==
  ASSUME TypeOK, Tree(parent'), tidy' => tidy, NEW o \in Reqs, NEW q, q = req[o],
         \A x \in Labels : x \notin Fresh => parent'[x] \in {parent[x], None},
         NEW p, p.links = q.links, p.does = q.does, p.board = q.board, LabelsHold(q)
  PROVE  LabelsHold(p)'
<1> SUFFICES ASSUME p.does = "copy", tidy', NEW y \in p.links PROVE OnOrGone(y[2], p.board)'
  BY DEF LabelsHold
<1>1. y[2] \in Labels /\ y[2] \in Rows /\ y \in q.links
  BY SlotType, AboveKinds, FieldTypes
<1>2. y[2] \in Mentioned(q)
  BY <1>1 DEF Mentioned
<1>3. y[2] \notin Fresh
  BY <1>2 DEF Fresh
<1>4. Home(y[2]) = parent[y[2]] /\ Home(y[2])' = parent'[y[2]]
  BY <1>1, TypeTree, HomeIsRoot, RootOf
<1> QED
  BY <1>1, <1>3, <1>4 DEF LabelsHold, OnOrGone

LEMMA WriteInv ==
  ASSUME Inv, Tree(parent'), focus' = focus,
         linked' \subseteq Cards \X Labels, assigned' \subseteq Cards \X Users,
         members' \in [Boards -> SUBSET Users], public' \subseteq Boards,
         tidy' \in BOOLEAN, tidy' => tidy,
         req' = [q \in Reqs |-> req'[q]],
         \A q \in Reqs : req'[q] \in {Idle, Overtaken(req[q])},
         \A x \in Labels : x \notin Fresh => parent'[x] \in {parent[x], None},
         LinksAtHome'
  PROVE  Inv'
<1>1. TypeOK /\ ShapeInv /\ ClaimInv /\ LabelInv
  BY DEF Inv
<1>2. TypeOK' /\ ShapeInv'
  BY <1>1, OthersShape
<1>3. ASSUME NEW o \in Reqs
      PROVE  \E p : /\ p = req'[o] /\ LabelsHold(p)'
                    /\ p # Idle /\ ~p.late => Holds(p)'
  <2>1. PICK p, q : p = req'[o] /\ q = req[o]
    OBVIOUS
  <2>2. /\ q \in Request /\ LabelsHold(q)
        /\ q # Idle => Shaped(q) /\ (q.late \/ Holds(q))
    BY <1>1, <2>1, SlotType DEF ShapeInv, ClaimInv, LabelInv
  <2>3. CASE p = Idle
    BY <2>1, <2>3, IdleType DEF LabelsHold
  <2>4. CASE p # Idle
    <3>1. p = Overtaken(q)
      BY <2>1, <2>4
    <3>2. q # Idle /\ Alike(p, q) /\ (~p.late => ~q.late)
      BY <2>2, <2>4, <3>1, OvertakenIs
    <3>3. ~p.late => Holds(p)'
      BY <2>2, <3>1, <3>2, Bystander
    <3>4. p.links = q.links /\ p.does = q.does /\ p.board = q.board
      BY <3>2 DEF Alike
    <3>5. LabelsHold(p)'
      BY <1>1, <2>1, <2>2, <3>4, BystanderLabels
    <3> QED
      BY <2>1, <3>3, <3>5
  <2> QED
    BY <2>3, <2>4
<1>4. ClaimInv' /\ LabelInv'
  BY <1>3 DEF ClaimInv, LabelInv
<1> QED
  BY <1>2, <1>4 DEF Inv

\* What is written of the requests.
LEMMA WrittenIs ==
  ASSUME Inv, NEW r \in Reqs, Written(r)
  PROVE  /\ focus' = focus /\ public' = public /\ public' \subseteq Boards
         /\ tidy' \in BOOLEAN /\ (tidy' => tidy /\ ~req[r].late)
         /\ req' = [q \in Reqs |-> req'[q]]
         /\ \A q \in Reqs : req'[q] \in {Idle, Overtaken(req[q])}
<1>1. focus' = focus /\ public' = public /\ public' \subseteq Boards
  BY DEF Written, Inv, TypeOK
<1>2. tidy' \in BOOLEAN /\ (tidy' => tidy /\ ~req[r].late)
  BY DEF Written
<1>3. \A q \in Reqs : req'[q] = IF q = r THEN Idle ELSE Overtaken(req[q])
  BY DEF Written
<1>4. req' = [q \in Reqs |-> req'[q]]
  BY DEF Written
<1> QED
  BY <1>1, <1>2, <1>3, <1>4

LEMMA SetVisibilityInv ==
  ASSUME Inv, NEW b \in Boards, SetVisibility(b)
  PROVE  Inv'
<1>1. /\ UNCHANGED <<focus, parent, linked, assigned, members, tidy>>
      /\ public' \subseteq Boards
      /\ req' = [r \in Reqs |-> Overtaken(req[r])]
  BY DEF SetVisibility, Inv, TypeOK, rows
<1>2. TypeOK
  BY DEF Inv
<1>3. /\ focus' = focus /\ Tree(parent') /\ parent' = parent
      /\ linked' \subseteq Cards \X Labels /\ assigned' \subseteq Cards \X Users
      /\ members' \in [Boards -> SUBSET Users] /\ tidy' \in BOOLEAN /\ (tidy' => tidy)
  BY <1>1, <1>2, TypeTree DEF TypeOK
<1>4. /\ \A r \in Reqs : req'[r] \in {Idle, Overtaken(req[r])}
      /\ req' = [r \in Reqs |-> req'[r]]
  BY <1>1
<1>5. LinksAtHome'
  BY <1>1, HomeIsRoot DEF Inv, LinksAtHome
<1> QED
  BY <1>1, <1>3, <1>4, <1>5, WriteInv

\* What is known of a request that writes.
LEMMA WriterIs ==
  ASSUME Inv, NEW r \in Reqs, NEW q, q = req[r], q.does \in AllDoes, q.left = <<>>
  PROVE  /\ q \in Request /\ q # Idle /\ Shaped(q) /\ (q.late \/ Holds(q)) /\ LabelsHold(q)
         /\ \A s : ~Awaits(q, s)
<1>1. q \in Request /\ q # Idle
  BY SlotType, IdleType DEF Inv, AllDoes
<1>2. Stages(q.left) = {}
  BY DEF Stages
<1> QED
  BY <1>1, <1>2 DEF Inv, ShapeInv, ClaimInv, LabelInv, Awaits

LEMMA LiveIs ==
  ASSUME Tree(parent), NEW x, Live(x)
  PROVE  Home(x) \in Boards /\ Over(parent, x) # None /\ (x \in Rows => parent[x] # None)
<1>1. CASE x \in Boards
  BY <1>1, HomeIsRoot, RootOf, Apart DEF Over
<1>2. CASE x \in Rows /\ Home(x) \in Boards
  <2>1. parent[x] # None
    BY <1>2, HomeIsRoot, RootOf, Apart
  <2> QED
    BY <1>2, <2>1 DEF Over
<1> QED
  BY <1>1, <1>2 DEF Live

\* The rows of links, and that a row on a board is there.
LEMMA LinkTypes ==
  ASSUME TypeOK
  PROVE  /\ \A p \in linked : /\ p \in Cards \X Labels /\ p = <<p[1], p[2]>>
                              /\ p[1] \in Cards /\ p[1] \in Rows
                              /\ p[2] \in Labels /\ p[2] \in Rows
         /\ \A p \in assigned : /\ p \in Cards \X Users /\ p = <<p[1], p[2]>>
                                /\ p[1] \in Cards /\ p[1] \in Rows /\ p[2] \in Users
         /\ \A x \in Rows : Home(x) \in Boards => parent[x] # None
         /\ \A x \in Rows : parent[x] # None => Home(x) \in Boards
         /\ \A x \in Rows : parent[x] = None => Home(x) = None
<1>1. linked \subseteq Cards \X Labels /\ assigned \subseteq Cards \X Users
  BY DEF TypeOK
<1>2. /\ \A x \in Rows : Home(x) \in Boards => parent[x] # None
      /\ \A x \in Rows : parent[x] # None => Home(x) \in Boards
      /\ \A x \in Rows : parent[x] = None => Home(x) = None
  BY TypeTree, HomeIsRoot, RootOf, Apart
<1> QED
  BY <1>1, <1>2, AboveKinds

\* A step that leaves every public template as it is.
Frozen == \A b \in public : Content(b)' = Content(b)

LEMMA SameContent ==
  ASSUME TypeOK, NEW b,
         \A y \in Rows \ (Comments \cup Attachments) :
            (Home(y)' = b <=> Home(y) = b) /\ (Home(y) = b => parent'[y] = parent[y]),
         linked' \subseteq Cards \X Labels,
         \A p \in Cards \X Labels : Home(p[1]) = b => (p \in linked' <=> p \in linked)
  PROVE  Content(b)' = Content(b)
<1>1. PICK on : on = {x \in Rows \ (Comments \cup Attachments) : Home(x) = b}
  OBVIOUS
<1>2. on = {x \in Rows \ (Comments \cup Attachments) : Home(x)' = b}
  BY <1>1
<1>3. {<<x, parent'[x]>> : x \in on} = {<<x, parent[x]>> : x \in on}
  BY <1>1
<1>4. {p \in linked' : p[1] \in on} = {p \in linked : p[1] \in on}
  BY <1>1 DEF TypeOK
<1>5. Content(b) = <<{<<x, parent[x]>> : x \in on}, {p \in linked : p[1] \in on}>>
  BY <1>1 DEF Content
<1>6. Content(b)' = <<{<<x, parent'[x]>> : x \in on}, {p \in linked' : p[1] \in on}>>
  BY <1>2 DEF Content
<1> QED
  BY <1>3, <1>4, <1>5, <1>6

LEMMA CreateInv ==
  ASSUME Inv, NEW r \in Reqs, CreateWrite(r)
  PROVE  Inv' /\ (tidy' => Frozen)
<1>1. PICK q : q = req[r]
  OBVIOUS
<1>2. /\ q.does = "create" /\ q.left = <<>> /\ Live(q.row) /\ Written(r) /\ TypeOK
      /\ linked' = linked /\ assigned' = assigned /\ members' = members
  BY <1>1 DEF CreateWrite, Ready, Does, Inv
<1>3. q \in Request /\ Shaped(q) /\ (q.late \/ Holds(q)) /\ \A s : ~Awaits(q, s)
  BY <1>1, <1>2, WriterIs DEF AllDoes
<1>4. PICK x \in Fresh \cap Ids(q.new) : parent' = [parent EXCEPT ![x] = q.row]
  BY <1>1 DEF CreateWrite
<1>5. x \in Rows /\ q.row \in Above(x) /\ parent[x] = None /\ q.row \in Nodes
  BY <1>2, <1>3, FieldTypes DEF Shaped, RightKinds, Fresh
<1>6. /\ Tree(parent) /\ Over(parent, q.row) # None /\ Home(q.row) \in Boards
  BY <1>2, TypeTree, LiveIs
<1>7. /\ parent' \in [Rows -> Nodes]
      /\ \A y \in Rows : parent'[y] = IF y = x THEN q.row ELSE parent[y]
  BY <1>4, <1>5, <1>6 DEF Tree
<1>8. /\ Tree(parent')
      /\ \A y \in Rows : parent[y] # None => parent'[y] = parent[y] /\ Home(y)' = Home(y)
      /\ Home(x)' = Home(q.row)
  BY <1>5, <1>6, <1>7, TreeInsert, HomeIsRoot
<1>9. LinksAtHome'
  BY <1>2, <1>8, WrittenIs, LinkTypes DEF Inv, LinksAtHome
<1>10. Inv'
  <2>1. \A y \in Labels : y \notin Fresh => parent'[y] \in {parent[y], None}
    BY <1>7, AboveKinds
  <2> QED
    BY <1>2, <1>8, <1>9, <2>1, WrittenIs, WriteInv DEF TypeOK
<1>11. ASSUME tidy', NEW b \in public PROVE Content(b)' = Content(b)
  <2>1. Holds(q) /\ b \in Boards
    BY <1>1, <1>2, <1>3, <1>11, WrittenIs DEF TypeOK
  <2>2. x \in Comments \cup Attachments \/ Home(x)' # b
    <3>1. q.new \notin {"comment", "attachment"} => q.board \notin public
      BY <1>2, <1>3, <2>1 DEF Holds, Guarded, Editable
    <3>2. q.new \in {"comment", "attachment"} => x \in Comments \cup Attachments
      BY IdsAre
    <3>3. Home(q.row) = q.board
      <4>1. q.row \in Rows => Home(q.row) = q.board
        BY <1>6, <2>1, Apart DEF Holds, OnOrGone
      <4>2. q.row = q.board => Home(q.row) = q.board
        BY <1>3, <1>6, HomeIsRoot, RootOf DEF Shaped
      <4> QED
        BY <1>3, <4>1, <4>2 DEF Shaped
    <3> QED
      BY <1>8, <1>11, <3>1, <3>2, <3>3
  <2>3. Home(x) # b
    BY <1>2, <1>5, <2>1, LinkTypes, Apart
  <2>4. \A y \in Rows \ {x} : Home(y)' = Home(y) /\ parent'[y] = parent[y]
    <3>1. \A y \in Rows \ {x} : parent'[y] = None => Home(y)' = None
      BY <1>8, HomeIsRoot, RootOf
    <3> QED
      BY <1>2, <1>7, <1>8, <3>1, LinkTypes
  <2> QED
    BY <1>2, <2>2, <2>3, <2>4, SameContent DEF TypeOK
<1> QED
  BY <1>10, <1>11 DEF Frozen

\* Nothing is below a comment or an attachment.
LEMMA BelowLeaf ==
  ASSUME NEW f, Tree(f), NEW x \in Comments \cup Attachments, f[x] # None
  PROVE  BelowIn(f, x) \subseteq {x}
<1> DEFINE S == BelowIn(f, x) \ {x}
<1> PICK E : E = {}
  OBVIOUS
<1>1. S \in SUBSET Rows /\ E \in SUBSET S
  BY DEF BelowIn
<1>2. \A y \in S : y \notin E => f[y] # None /\ f[y] \in S /\ (f[y] \in E => y \in E)
  <2> SUFFICES ASSUME NEW y \in S PROVE f[y] # None /\ f[y] \in S
    OBVIOUS
  <2>1. x \in Rows
    BY AboveKinds
  <2>2. f[y] # None /\ f[y] \in BelowIn(f, x) /\ y \in Rows
    BY <2>1, BelowOf DEF BelowIn
  <2>3. f[y] \in Above(y)
    BY <2>2 DEF Tree
  <2>4. f[y] # x
    BY <2>2, <2>3, AboveKinds, Apart
  <2> QED
    BY <2>2, <2>4
<1> HIDE DEF S
<1>3. S = E
  BY ONLY <1>1, <1>2, Tree(f), Inherited
<1> QED
  BY <1>3 DEF S

LEMMA EditInv ==
  ASSUME Inv, NEW r \in Reqs, EditWrite(r)
  PROVE  Inv' /\ (tidy' => Frozen)
<1>1. PICK q : q = req[r]
  OBVIOUS
<1>2. /\ q.does = "edit" /\ q.left = <<>> /\ Live(q.row) /\ Written(r) /\ TypeOK
      /\ members' = members
  BY <1>1 DEF EditWrite, Ready, Does, Inv
<1>3. q \in Request /\ Shaped(q) /\ (q.late \/ Holds(q)) /\ \A s : ~Awaits(q, s)
  BY <1>1, <1>2, WriterIs DEF AllDoes
<1>4. PICK gone \in {{}, Below(q.row)} :
         /\ parent' = [x \in Rows |-> IF x \in gone THEN None ELSE parent[x]]
         /\ linked' = {p \in linked : p[1] \notin gone /\ p[2] \notin gone}
         /\ assigned' = {p \in assigned : p[1] \notin gone}
  BY <1>1 DEF EditWrite
<1>5. Tree(parent) /\ Home(q.row) \in Boards /\ q.row \in Rows /\ parent[q.row] # None
  BY <1>2, <1>3, TypeTree, LiveIs DEF Shaped, RightKinds
<1>6. /\ gone \in SUBSET Rows
      /\ \A y \in Rows \ gone : parent[y] # None => parent[y] \notin gone
      /\ \A y \in gone : Home(y) = Home(q.row)
  <2>1. CASE gone = {}
    BY <2>1
  <2>2. CASE gone = BelowIn(parent, q.row)
    BY <1>5, <2>2, BelowOf, HomeIsRoot DEF BelowIn
  <2> QED
    BY <1>4, <2>1, <2>2, BelowIsIn
<1>7. /\ parent' \in [Rows -> Nodes]
      /\ \A y \in Rows : parent'[y] = IF y \in gone THEN None ELSE parent[y]
  BY <1>4, <1>5 DEF Tree, Nodes
<1>8. /\ Tree(parent')
      /\ \A y \in Rows \ gone : parent'[y] = parent[y] /\ Home(y)' = Home(y)
      /\ \A y \in gone : parent'[y] = None /\ Home(y)' = None
  BY <1>5, <1>6, <1>7, TreeRemove, HomeIsRoot
<1>9. LinksAtHome'
  <2> SUFFICES ASSUME tidy'
               PROVE  /\ \A p \in linked' : Home(p[1])' \in Boards /\ Home(p[1])' = Home(p[2])'
                      /\ \A p \in assigned' : Home(p[1])' \in Boards /\ p[2] \in members'[Home(p[1])']
    BY DEF LinksAtHome
  <2>1. /\ \A p \in linked : Home(p[1]) \in Boards /\ Home(p[1]) = Home(p[2])
        /\ \A p \in assigned : Home(p[1]) \in Boards /\ p[2] \in members[Home(p[1])]
    BY <1>2, WrittenIs DEF Inv, LinksAtHome
  <2> QED
    BY <1>2, <1>4, <1>8, <2>1, LinkTypes
<1>10. Inv'
  <2>1. \A y \in Labels : y \notin Fresh => parent'[y] \in {parent[y], None}
    BY <1>7, AboveKinds
  <2>2. linked' \subseteq Cards \X Labels /\ assigned' \subseteq Cards \X Users
    BY <1>2, <1>4 DEF TypeOK
  <2> QED
    BY <1>2, <1>8, <1>9, <2>1, <2>2, WrittenIs, WriteInv DEF TypeOK
<1>11. ASSUME tidy', NEW b \in public PROVE Content(b)' = Content(b)
  <2>1. Holds(q) /\ b \in Boards /\ tidy
    BY <1>1, <1>2, <1>3, <1>11, WrittenIs DEF TypeOK
  <2>2. ASSUME NEW y \in gone PROVE y \in Comments \cup Attachments \/ Home(y) # b
    <3>1. CASE q.row \in Comments \cup Attachments
      BY <1>4, <1>5, <2>2, <3>1, BelowLeaf, BelowIsIn
    <3>2. CASE q.row \notin Comments \cup Attachments
      <4>1. q.board \notin public
        BY <1>2, <1>3, <2>1, <3>2 DEF Holds, Guarded, Editable
      <4>2. Home(q.row) = q.board
        BY <1>5, <2>1, Apart DEF Holds, OnOrGone
      <4> QED
        BY <1>6, <1>11, <2>2, <4>1, <4>2
    <3> QED
      BY <3>1, <3>2
  <2>3. \A y \in Rows \ (Comments \cup Attachments) :
           (Home(y)' = b <=> Home(y) = b) /\ (Home(y) = b => parent'[y] = parent[y])
    BY <1>8, <2>1, <2>2, Apart
  <2>4. ASSUME NEW p \in Cards \X Labels, Home(p[1]) = b
        PROVE  p \in linked' <=> p \in linked
    <3>1. ASSUME p \in linked PROVE p[1] \notin gone /\ p[2] \notin gone
      <4>1. Home(p[2]) = b
        BY <2>1, <2>4, <3>1 DEF Inv, LinksAtHome
      <4>2. p[1] \notin Comments \cup Attachments /\ p[2] \notin Comments \cup Attachments
        BY Apart
      <4> QED
        BY <2>2, <2>4, <4>1, <4>2
    <3> QED
      BY <1>4, <3>1
  <2>5. linked' \subseteq Cards \X Labels
    BY <1>2, <1>4 DEF TypeOK
  <2> QED
    BY <1>2, <2>3, <2>4, <2>5, SameContent
<1> QED
  BY <1>10, <1>11 DEF Frozen

LEMMA LinkInv ==
  ASSUME Inv, NEW r \in Reqs, LinkWrite(r)
  PROVE  Inv' /\ (tidy' => Frozen)
<1>1. PICK q : q = req[r]
  OBVIOUS
<1>2. /\ q.does = "link" /\ q.left = <<>> /\ Live(q.row) /\ Written(r) /\ TypeOK
      /\ parent' = parent /\ assigned' = assigned /\ members' = members
      /\ \/ Live(q.other) /\ linked' = linked \cup {<<q.row, q.other>>}
         \/ linked' = linked \ {<<q.row, q.other>>}
  BY <1>1 DEF LinkWrite, Ready, Does, Inv
<1>3. q \in Request /\ Shaped(q) /\ (q.late \/ Holds(q)) /\ \A s : ~Awaits(q, s)
  BY <1>1, <1>2, WriterIs DEF AllDoes
<1>4. /\ Tree(parent) /\ Tree(parent') /\ \A x : Home(x)' = Home(x)
      /\ Home(q.row) \in Boards /\ q.row \in Rows /\ q.row \in Cards
      /\ q.other \in Rows /\ q.other \in Labels /\ (Live(q.other) => Home(q.other) \in Boards)
  BY <1>2, <1>3, TypeTree, LiveIs, HomeIsRoot, AboveKinds DEF Shaped, RightKinds
<1>5. ASSUME tidy' PROVE Holds(q) /\ tidy /\ Home(q.row) = q.board /\ q.board \notin public
  <2>1. Holds(q) /\ tidy
    BY <1>1, <1>2, <1>3, <1>5, WrittenIs
  <2> QED
    BY <1>2, <1>3, <1>4, <2>1, Apart DEF Holds, OnOrGone, Guarded, Editable
<1>6. LinksAtHome'
  <2> SUFFICES ASSUME tidy'
               PROVE  /\ \A p \in linked' : Home(p[1]) \in Boards /\ Home(p[1]) = Home(p[2])
                      /\ \A p \in assigned' : Home(p[1]) \in Boards /\ p[2] \in members'[Home(p[1])]
    BY <1>4 DEF LinksAtHome
  <2>1. /\ \A p \in linked : Home(p[1]) \in Boards /\ Home(p[1]) = Home(p[2])
        /\ \A p \in assigned : Home(p[1]) \in Boards /\ p[2] \in members[Home(p[1])]
    BY <1>5 DEF Inv, LinksAtHome
  <2>2. Live(q.other) => Home(q.other) = q.board
    BY <1>3, <1>4, <1>5, Apart DEF Holds, OnOrGone
  <2> QED
    BY <1>2, <1>4, <1>5, <2>1, <2>2
<1>7. linked' \subseteq Cards \X Labels
  BY <1>2, <1>4 DEF TypeOK
<1>8. Inv'
  BY <1>2, <1>4, <1>6, <1>7, WrittenIs, WriteInv DEF TypeOK
<1>9. ASSUME tidy', NEW b \in public PROVE Content(b)' = Content(b)
  <2>1. \A p \in Cards \X Labels : Home(p[1]) = b => (p \in linked' <=> p \in linked)
    BY <1>2, <1>5, <1>9
  <2> QED
    BY <1>2, <1>4, <1>7, <2>1, SameContent
<1> QED
  BY <1>8, <1>9 DEF Frozen

LEMMA AssignInv ==
  ASSUME Inv, NEW r \in Reqs, AssignWrite(r)
  PROVE  Inv' /\ (tidy' => Frozen)
<1>1. PICK q : q = req[r]
  OBVIOUS
<1>2. /\ q.does \in {"assign", "unassign"} /\ q.left = <<>> /\ Live(q.row) /\ Written(r) /\ TypeOK
      /\ parent' = parent /\ linked' = linked /\ members' = members
      /\ assigned' = IF q.does = "assign" THEN assigned \cup {<<q.row, q.other>>}
                     ELSE assigned \ {<<q.row, q.other>>}
  BY <1>1 DEF AssignWrite, Ready, Does, Inv
<1>3. q \in Request /\ Shaped(q) /\ (q.late \/ Holds(q)) /\ \A s : ~Awaits(q, s)
  BY <1>1, <1>2, WriterIs DEF AllDoes
<1>4. /\ Tree(parent) /\ Tree(parent') /\ \A x : Home(x)' = Home(x)
      /\ Home(q.row) \in Boards /\ q.row \in Rows /\ q.row \in Cards /\ q.other \in Users
  BY <1>2, <1>3, TypeTree, LiveIs, HomeIsRoot, AboveKinds DEF Shaped, RightKinds
<1>5. ASSUME tidy'
      PROVE  tidy /\ Home(q.row) = q.board /\ (q.does = "assign" => q.other \in members[q.board])
  <2>1. Holds(q) /\ tidy
    BY <1>1, <1>2, <1>3, <1>5, WrittenIs
  <2> QED
    BY <1>2, <1>3, <1>4, <2>1, Apart DEF Holds, OnOrGone
<1>6. LinksAtHome'
  <2> SUFFICES ASSUME tidy'
               PROVE  /\ \A p \in linked' : Home(p[1]) \in Boards /\ Home(p[1]) = Home(p[2])
                      /\ \A p \in assigned' : Home(p[1]) \in Boards /\ p[2] \in members'[Home(p[1])]
    BY <1>4 DEF LinksAtHome
  <2>1. /\ \A p \in linked : Home(p[1]) \in Boards /\ Home(p[1]) = Home(p[2])
        /\ \A p \in assigned : Home(p[1]) \in Boards /\ p[2] \in members[Home(p[1])]
    BY <1>5 DEF Inv, LinksAtHome
  <2> QED
    BY <1>2, <1>4, <1>5, <2>1
<1>7. assigned' \subseteq Cards \X Users /\ linked' \subseteq Cards \X Labels
  BY <1>2, <1>4 DEF TypeOK
<1>8. Inv'
  BY <1>2, <1>4, <1>6, <1>7, WrittenIs, WriteInv DEF TypeOK
<1>9. ASSUME NEW b \in public PROVE Content(b)' = Content(b)
  BY <1>2, <1>4, <1>7, SameContent
<1> QED
  BY <1>8, <1>9 DEF Frozen

LEMMA ExpelInv ==
  ASSUME Inv, NEW r \in Reqs, ExpelWrite(r)
  PROVE  Inv' /\ (tidy' => Frozen)
<1>1. PICK q : q = req[r]
  OBVIOUS
<1>2. /\ q.does = "expel" /\ q.left = <<>> /\ Written(r) /\ TypeOK
      /\ parent' = parent /\ linked' = linked
      /\ members' = [members EXCEPT ![q.board] = @ \ {q.other}]
      /\ assigned' = {p \in assigned : ~(p[1] \in q.cards /\ p[2] = q.other)}
  BY <1>1 DEF ExpelWrite, Ready, Does, Inv
<1>3. q \in Request /\ Shaped(q) /\ (q.late \/ Holds(q)) /\ \A s : ~Awaits(q, s)
  BY <1>1, <1>2, WriterIs DEF AllDoes
<1>4. /\ Tree(parent) /\ Tree(parent') /\ \A x : Home(x)' = Home(x)
  BY <1>2, TypeTree, HomeIsRoot
<1>5. /\ members' \in [Boards -> SUBSET Users]
      /\ \A b \in Boards : members'[b] = IF b = q.board THEN members[b] \ {q.other} ELSE members[b]
  BY <1>2 DEF TypeOK
<1>6. LinksAtHome'
  <2> SUFFICES ASSUME tidy'
               PROVE  /\ \A p \in linked' : Home(p[1]) \in Boards /\ Home(p[1]) = Home(p[2])
                      /\ \A p \in assigned' : Home(p[1]) \in Boards /\ p[2] \in members'[Home(p[1])]
    BY <1>4 DEF LinksAtHome
  <2>1. Holds(q) /\ tidy
    BY <1>1, <1>2, <1>3, WrittenIs
  <2>2. /\ \A p \in linked : Home(p[1]) \in Boards /\ Home(p[1]) = Home(p[2])
        /\ \A p \in assigned : Home(p[1]) \in Boards /\ p[2] \in members[Home(p[1])]
    BY <2>1 DEF Inv, LinksAtHome
  <2>3. \A c \in Cards : Home(c) = q.board /\ <<c, q.other>> \in assigned => c \in q.cards
    BY <1>2, <1>3, <2>1 DEF Holds, Earmarked
  <2>4. ASSUME NEW p \in assigned' PROVE Home(p[1]) \in Boards /\ p[2] \in members'[Home(p[1])]
    <3>1. p \in assigned /\ p[1] \in Cards /\ p = <<p[1], p[2]>>
      BY <1>2, LinkTypes
    <3>2. ~(Home(p[1]) = q.board /\ p[2] = q.other)
      BY <1>2, <2>3, <3>1
    <3> QED
      BY <1>5, <2>2, <3>1, <3>2
  <2> QED
    BY <1>2, <2>2, <2>4
<1>7. assigned' \subseteq Cards \X Users /\ linked' \subseteq Cards \X Labels
  BY <1>2 DEF TypeOK
<1>8. Inv'
  BY <1>2, <1>4, <1>5, <1>6, <1>7, WrittenIs, WriteInv
<1>9. ASSUME NEW b \in public PROVE Content(b)' = Content(b)
  BY <1>2, <1>4, <1>7, SameContent
<1> QED
  BY <1>8, <1>9 DEF Frozen

LEMMA MoveInv ==
  ASSUME Inv, NEW r \in Reqs, MoveWrite(r)
  PROVE  Inv' /\ (tidy' => Frozen)
<1>1. PICK q, moved : q = req[r] /\ moved = IF q.does = "move" THEN {q.row} ELSE q.cards
  OBVIOUS
<1>2. /\ q.does \in {"move", "pour"} /\ q.left = <<>> /\ Written(r) /\ TypeOK
      /\ Live(q.other) /\ \A c \in moved : Live(c)
      /\ parent' = [x \in Rows |-> IF x \in moved THEN q.other ELSE parent[x]]
      /\ linked' = linked /\ assigned' = assigned /\ members' = members
  BY <1>1 DEF MoveWrite, Ready, Does, Inv
<1>3. q \in Request /\ Shaped(q) /\ (q.late \/ Holds(q)) /\ \A s : ~Awaits(q, s)
  BY <1>1, <1>2, WriterIs DEF AllDoes
<1>4. /\ moved \in SUBSET Cards /\ moved \subseteq Rows
      /\ q.other \in Lists /\ q.other \in Rows /\ q.other \in Nodes
  BY <1>1, <1>2, <1>3, FieldTypes, AboveKinds DEF Shaped, RightKinds, Nodes
<1>5. /\ Tree(parent) /\ parent[q.other] # None /\ Home(q.other) \in Boards
      /\ \A c \in moved : parent[c] # None /\ Home(c) \in Boards
  BY <1>2, <1>4, TypeTree, LiveIs
<1>6. /\ parent' \in [Rows -> Nodes]
      /\ \A y \in Rows : parent'[y] = IF y \in moved THEN q.other ELSE parent[y]
  BY <1>2, <1>4, <1>5 DEF Tree
<1>7. /\ Tree(parent')
      /\ (\A c \in moved : Home(c) = Home(q.other)) => \A y \in Rows : Home(y)' = Home(y)
  <2>1. /\ Tree(parent')
        /\ (\A c \in moved : Root(parent, c) = Root(parent, q.other))
           => \A y \in Rows : Root(parent', y) = Root(parent, y)
    BY ONLY <1>4, <1>5, <1>6, TreeMove
  <2> QED
    BY <2>1, HomeIsRoot
<1>8. ASSUME tidy'
      PROVE  /\ tidy /\ q.board \notin public /\ \A c \in moved : Home(c) = q.board
             /\ \A y \in Rows : Home(y)' = Home(y)
  <2>1. Holds(q) /\ tidy
    BY <1>1, <1>2, <1>3, <1>8, WrittenIs
  <2>2. \A c \in moved : OnOrGone(c, q.board)
    BY <1>1, <1>2, <1>4, <2>1 DEF Holds
  <2>3. OnOrGone(q.other, q.board)
    BY <1>3, <1>4, <2>1 DEF Holds
  <2>4. Home(q.other) = q.board /\ \A c \in moved : Home(c) = q.board
    BY <1>5, <2>2, <2>3, Apart DEF OnOrGone
  <2>5. q.board \notin public
    BY <1>2, <1>3, <2>1 DEF Holds, Guarded, Editable
  <2> QED
    BY <1>7, <2>1, <2>4, <2>5
<1>9. LinksAtHome'
  <2> SUFFICES ASSUME tidy'
               PROVE  /\ \A p \in linked' : Home(p[1])' \in Boards /\ Home(p[1])' = Home(p[2])'
                      /\ \A p \in assigned' : Home(p[1])' \in Boards /\ p[2] \in members'[Home(p[1])']
    BY DEF LinksAtHome
  <2>1. /\ \A p \in linked : Home(p[1]) \in Boards /\ Home(p[1]) = Home(p[2])
        /\ \A p \in assigned : Home(p[1]) \in Boards /\ p[2] \in members[Home(p[1])]
    BY <1>8 DEF Inv, LinksAtHome
  <2> QED
    BY <1>2, <1>8, <2>1, LinkTypes
<1>10. Inv'
  <2>1. \A y \in Labels : y \notin Fresh => parent'[y] \in {parent[y], None}
    BY <1>4, <1>6, AboveKinds, Apart
  <2> QED
    BY <1>2, <1>7, <1>9, <2>1, WrittenIs, WriteInv DEF TypeOK
<1>11. ASSUME tidy', NEW b \in public PROVE Content(b)' = Content(b)
  <2>1. \A y \in Rows : (Home(y)' = b <=> Home(y) = b) /\ (Home(y) = b => parent'[y] = parent[y])
    BY <1>6, <1>8, <1>11
  <2> QED
    BY <1>2, <2>1, SameContent DEF TypeOK
<1> QED
  BY <1>10, <1>11 DEF Frozen

LEMMA TransferInv ==
  ASSUME Inv, NEW r \in Reqs, TransferWrite(r)
  PROVE  Inv' /\ (tidy' => Frozen)
<1>1. PICK q : q = req[r]
  OBVIOUS
<1>2. /\ q.does = "transfer" /\ q.left = <<>> /\ Written(r) /\ TypeOK
      /\ Live(q.row) /\ \A c \in q.cards : Live(c)
      /\ assigned' = {p \in assigned : p[1] \notin q.cards} \cup Staying(q) /\ members' = members
  BY <1>1 DEF TransferWrite, Ready, Does, Inv
<1>3. q \in Request /\ Shaped(q) /\ (q.late \/ Holds(q)) /\ \A s : ~Awaits(q, s)
  BY <1>1, <1>2, WriterIs DEF AllDoes
<1>4. PICK same, S :
         /\ S = {same[p[2]] : p \in q.links}
         /\ \A x \in S : x \in Labels /\ (parent[x] = q.to \/ x \in Fresh)
         /\ parent' = [x \in Rows |-> IF x = q.row \/ x \in S THEN q.to ELSE parent[x]]
         /\ linked' = {p \in linked : p[1] \notin q.cards} \cup {<<p[1], same[p[2]]>> : p \in q.links}
  <2>1. PICK same \in [{p[2] : p \in req[r].links} ->
                      {g \in Labels : parent[g] = req[r].to} \cup (Fresh \cap focus \cap Labels)] :
           /\ parent' = [x \in Rows |->
                            IF x = req[r].row \/ (\E g \in {p[2] : p \in req[r].links} : x = same[g])
                            THEN req[r].to ELSE parent[x]]
           /\ linked' = {p \in linked : p[1] \notin req[r].cards}
                            \cup {<<p[1], same[p[2]]>> : p \in req[r].links}
    BY DEF TransferWrite
  <2>2. PICK S : S = {same[p[2]] : p \in q.links}
    OBVIOUS
  <2>3. \A x \in S : x \in Labels /\ (parent[x] = q.to \/ x \in Fresh)
    BY <1>1, <2>1, <2>2
  <2>4. \A x : (\E g \in {p[2] : p \in req[r].links} : x = same[g]) <=> x \in S
    BY <1>1, <2>2
  <2>5. parent' = [x \in Rows |-> IF x = q.row \/ x \in S THEN q.to ELSE parent[x]]
    BY <1>1, <2>1, <2>4
  <2>6. linked' = {p \in linked : p[1] \notin q.cards} \cup {<<p[1], same[p[2]]>> : p \in q.links}
    BY <1>1, <2>1
  <2> QED
    BY <2>2, <2>3, <2>5, <2>6
<1>6. /\ Tree(parent) /\ q.row \in Lists /\ q.row \in Rows /\ parent[q.row] # None
      /\ Home(q.row) \in Boards /\ q.to \in Boards
      /\ q.cards \subseteq Cards /\ \A p \in q.links \cup q.jobs : p[1] \in q.cards
      /\ q.links \subseteq Cards \X Labels /\ q.jobs \subseteq Cards \X Users
  BY <1>2, <1>3, TypeTree, LiveIs, FieldTypes, AboveKinds DEF Shaped, RightKinds
<1>7. /\ S \in SUBSET Labels /\ \A x \in S : parent[x] \in {None, q.to} /\ (x \in Fresh \/ parent[x] = q.to)
      /\ \A p \in q.links : same[p[2]] \in S
  BY <1>4 DEF Fresh
<1>8. /\ parent' \in [Rows -> Nodes]
      /\ \A y \in Rows : parent'[y] = IF y = q.row \/ y \in S THEN q.to ELSE parent[y]
  BY <1>4, <1>6 DEF Tree, Nodes
<1>9. /\ Tree(parent')
      /\ \A y \in Rows \ (S \cup Below(q.row)) : parent'[y] = parent[y] /\ Home(y)' = Home(y)
      /\ \A y \in S \cup Below(q.row) : Home(y)' = q.to
      /\ \A c \in Cards : c \in Below(q.row) <=> parent[c] = q.row
      /\ \A x \in Labels : x \notin Below(q.row)
  <2>1. PICK B : B = BelowIn(parent, q.row)
    OBVIOUS
  <2>2. /\ Tree(parent')
        /\ \A y \in Rows \ (S \cup BelowIn(parent, q.row)) :
              parent'[y] = parent[y] /\ Root(parent', y) = Root(parent, y)
        /\ \A y \in S \cup BelowIn(parent, q.row) : Root(parent', y) = q.to
        /\ \A c \in Cards : c \in BelowIn(parent, q.row) <=> parent[c] = q.row
        /\ \A x \in Labels : x \notin BelowIn(parent, q.row)
    <3>1. PICK f, g, l, b : f = parent /\ g = parent' /\ l = q.row /\ b = q.to
      OBVIOUS
    <3>2. /\ Tree(f) /\ l \in Lists /\ f[l] # None /\ b \in Boards /\ S \in SUBSET Labels
          /\ \A x \in S : f[x] \in {None, b}
      BY <1>6, <1>7, <3>1
    <3>3. /\ g \in [Rows -> Nodes]
          /\ \A y \in Rows : g[y] = IF y = l \/ y \in S THEN b ELSE f[y]
      BY <1>8, <3>1
    <3>4. /\ Tree(g)
          /\ \A y \in Rows \ (S \cup BelowIn(f, l)) : g[y] = f[y] /\ Root(g, y) = Root(f, y)
          /\ \A y \in S \cup BelowIn(f, l) : Root(g, y) = b
          /\ \A c \in Cards : c \in BelowIn(f, l) <=> f[c] = l
          /\ \A x \in Labels : x \notin BelowIn(f, l)
      BY ONLY <3>2, <3>3, TreeTransfer
    <3> QED
      BY <3>1, <3>4
  <2> QED
    BY ONLY <2>2, HomeIsRoot, BelowIsIn
<1>10. \A y \in Below(q.row) : y \in Rows /\ Home(y) = Home(q.row)
  BY <1>6, BelowOf, BelowIsIn, HomeIsRoot DEF BelowIn
<1>11. ASSUME tidy'
       PROVE  /\ Holds(q) /\ tidy /\ Home(q.row) = q.board /\ q.board \notin public /\ q.to \notin public
              /\ \A c \in Cards : c \in q.cards <=> c \in Below(q.row)
  <2>1. Holds(q) /\ tidy
    BY <1>1, <1>2, <1>3, <1>11, WrittenIs
  <2>2. Home(q.row) = q.board /\ q.board \notin public /\ q.to \notin public
    BY <1>2, <1>3, <1>6, <2>1, Apart DEF Holds, OnOrGone, Guarded, Editable
  <2>3. q.cards = CardsOf(q.row)
    BY <1>2, <1>3, <2>1 DEF Holds
  <2> QED
    BY <1>9, <2>1, <2>2, <2>3 DEF CardsOf
<1>12. ASSUME tidy', NEW y \in Rows, Home(y) \in Boards, y \notin Below(q.row)
       PROVE  Home(y)' = Home(y)
  <2>1. CASE y \in S
    <3>1. parent[y] = q.to
      BY <1>2, <1>7, <1>12, <2>1, LinkTypes
    <3>2. Home(y) = parent[y]
      BY <1>6, <1>7, <2>1, RootOf, HomeIsRoot
    <3> QED
      BY <1>9, <2>1, <3>1, <3>2
  <2>2. CASE y \notin S
    BY <1>9, <1>12, <2>2
  <2> QED
    BY <2>1, <2>2
<1>13. LinksAtHome'
  <2> SUFFICES ASSUME tidy'
               PROVE  /\ \A p \in linked' : Home(p[1])' \in Boards /\ Home(p[1])' = Home(p[2])'
                      /\ \A p \in assigned' : Home(p[1])' \in Boards /\ p[2] \in members'[Home(p[1])']
    BY DEF LinksAtHome
  <2>1. /\ \A p \in linked : Home(p[1]) \in Boards /\ Home(p[1]) = Home(p[2])
        /\ \A p \in assigned : Home(p[1]) \in Boards /\ p[2] \in members[Home(p[1])]
    BY <1>11 DEF Inv, LinksAtHome
  <2>2. ASSUME NEW p \in linked, p[1] \notin q.cards
        PROVE  Home(p[1])' \in Boards /\ Home(p[1])' = Home(p[2])'
    <3>1. p[1] \notin Below(q.row) /\ p[2] \notin Below(q.row) /\ p[1] \in Rows /\ p[2] \in Rows
      BY <1>2, <1>9, <1>11, <2>2, LinkTypes
    <3> QED
      BY <1>12, <2>1, <3>1
  <2>3. ASSUME NEW p \in q.links
        PROVE  Home(p[1])' = q.to /\ Home(same[p[2]])' = q.to
    BY <1>6, <1>7, <1>9, <1>11
  <2>4. \A p \in linked' : Home(p[1])' \in Boards /\ Home(p[1])' = Home(p[2])'
    BY <1>4, <1>6, <2>2, <2>3
  <2>5. ASSUME NEW p \in assigned, p[1] \notin q.cards
        PROVE  Home(p[1])' \in Boards /\ p[2] \in members'[Home(p[1])']
    <3>1. p[1] \notin Below(q.row) /\ p[1] \in Rows
      BY <1>2, <1>11, <2>5, LinkTypes
    <3> QED
      BY <1>2, <1>12, <2>1, <3>1
  <2>6. ASSUME NEW p \in Staying(q)
        PROVE  Home(p[1])' \in Boards /\ p[2] \in members'[Home(p[1])']
    BY <1>2, <1>6, <1>9, <1>11, <2>6 DEF Staying, Holds
  <2> QED
    BY <1>2, <2>4, <2>5, <2>6
<1>14. linked' \subseteq Cards \X Labels /\ assigned' \subseteq Cards \X Users
  <2>1. {<<p[1], same[p[2]]>> : p \in q.links} \subseteq Cards \X Labels
    BY <1>6, <1>7
  <2>2. Staying(q) \subseteq Cards \X Users
    BY <1>6 DEF Staying
  <2> QED
    BY <1>2, <1>4, <2>1, <2>2 DEF TypeOK
<1>15. Inv'
  <2>1. \A y \in Labels : y \notin Fresh => parent'[y] \in {parent[y], None}
    BY <1>6, <1>7, <1>8, AboveKinds, Apart
  <2> QED
    BY <1>2, <1>9, <1>13, <1>14, <2>1, WrittenIs, WriteInv DEF TypeOK
<1>16. ASSUME tidy', NEW b \in public PROVE Content(b)' = Content(b)
  <2>1. b \in Boards /\ q.to # b /\ Home(q.row) # b
    BY <1>2, <1>11, <1>16 DEF TypeOK
  <2>2. ASSUME NEW y \in Rows
        PROVE  (Home(y)' = b <=> Home(y) = b) /\ (Home(y) = b => parent'[y] = parent[y])
    <3>1. CASE y \in Below(q.row)
      BY <1>9, <1>10, <2>1, <3>1
    <3>2. CASE y \in S
      <4>1. Home(y) = parent[y]
        BY <1>6, <1>7, <3>2, RootOf, HomeIsRoot
      <4> QED
        BY <1>7, <1>9, <2>1, <3>2, <4>1, Apart
    <3>3. CASE y \notin S /\ y \notin Below(q.row)
      BY <1>9, <3>3
    <3> QED
      BY <3>1, <3>2, <3>3
  <2>3. ASSUME NEW p \in Cards \X Labels, Home(p[1]) = b PROVE p \in linked' <=> p \in linked
    <3>1. p[1] \notin q.cards
      BY <1>6, <1>10, <1>11, <1>16, <2>1, <2>3
    <3>2. \A o \in q.links : o[1] \in q.cards
      BY <1>6
    <3> QED
      BY <1>4, <3>1, <3>2
  <2> QED
    BY <1>2, <1>14, <2>2, <2>3, SameContent
<1> QED
  BY <1>15, <1>16 DEF Frozen

\* Rows of the same kind are below rows of the same kind.
LEMMA SameKinds ==
  ASSUME NEW x \in Rows, NEW z, NEW k \in Kinds, x \in Ids(k), z \in Ids(k)
  PROVE  /\ z \in Rows /\ Above(z) = Above(x)
         /\ x \in Cards => z \in Cards
         /\ x \in Lists => z \in Lists
         /\ \A y, u, j : j \in Kinds /\ y \in Above(x) /\ y \in Ids(j) /\ u \in Ids(j) => u \in Above(z)
<1>1. k \in {"list", "card", "label", "checklist", "item", "attachment", "comment"}
  BY IdsAre, Apart DEF Kinds
<1>2. z \in Rows /\ Above(z) = Above(x)
  BY <1>1, IdsAre, AboveKinds
<1>3. (x \in Cards => z \in Cards) /\ (x \in Lists => z \in Lists)
  BY <1>1, IdsAre, Apart
<1>4. Above(x) \in {Boards, Lists, Cards, Checklists}
  BY AboveKinds
<1>5. \E i \in Kinds : Above(x) = Ids(i)
  BY <1>4, IdsAre DEF Kinds
<1>6. \A y, i, j : i \in Kinds /\ j \in Kinds /\ y \in Ids(i) /\ y \in Ids(j) => i = j
  BY ContentAssumption
<1> QED
  BY <1>2, <1>3, <1>5, <1>6

LEMMA CopyInv ==
  ASSUME Inv, NEW r \in Reqs, CopyWrite(r)
  PROVE  Inv' /\ (tidy' => Frozen)
<1>1. PICK q : q = req[r]
  OBVIOUS
<1>2. /\ q.does = "copy" /\ q.left = <<>> /\ Written(r) /\ TypeOK /\ members' = members
      /\ \A p \in q.links : Live(p[2])
  BY <1>1 DEF CopyWrite, Ready, Does, Inv
<1>3. /\ q \in Request /\ Shaped(q) /\ (q.late \/ Holds(q)) /\ LabelsHold(q)
      /\ \A s : ~Awaits(q, s)
  BY <1>1, <1>2, WriterIs DEF AllDoes
<1>4. /\ RightTree(q) /\ (\E p \in q.tree : p[1] = q.row)
      /\ q.row \in Lists /\ q.board \in Boards
      /\ q.tree \subseteq Rows \X Nodes /\ q.links \subseteq Cards \X Labels
      /\ q.jobs \subseteq Cards \X Users
  BY <1>2, <1>3, FieldTypes DEF Shaped, RightKinds
<1>0. PICK new \in [{p[1] : p \in req[r].tree} -> Fresh \cap focus] :
        /\ \A x \in {p[1] : p \in req[r].tree} : \E k \in Kinds : {x, new[x]} \subseteq Ids(k)
        /\ \A x, y \in {p[1] : p \in req[r].tree} : x # y => new[x] # new[y]
        /\ parent' = [z \in Rows |->
               IF \E x \in {p[1] : p \in req[r].tree} : z = new[x]
               THEN CHOOSE y \in {IF p[1] = req[r].row THEN req[r].board ELSE new[p[2]] :
                                    p \in {p \in req[r].tree : z = new[p[1]]}} : TRUE
               ELSE parent[z]]
        /\ linked' = linked \cup {<<new[p[1]], p[2]>> : p \in req[r].links}
        /\ assigned' = assigned \cup {<<new[p[1]], p[2]>> : p \in req[r].jobs}
  BY DEF CopyWrite
<1>5. /\ \A p \in q.tree : /\ new[p[1]] \in Fresh
                           /\ \E k \in Kinds : p[1] \in Ids(k) /\ new[p[1]] \in Ids(k)
                           /\ parent'[new[p[1]]] = IF p[1] = q.row THEN q.board ELSE new[p[2]]
      /\ \A p, o \in q.tree : new[p[1]] = new[o[1]] => p[1] = o[1]
      /\ \A z \in Rows : (\A p \in q.tree : z # new[p[1]]) => parent'[z] = parent[z]
      /\ parent' = [z \in Rows |-> parent'[z]]
      /\ linked' = linked \cup {<<new[p[1]], p[2]>> : p \in q.links}
      /\ assigned' = assigned \cup {<<new[p[1]], p[2]>> : p \in q.jobs}
  <2>1. \A p \in q.tree : /\ new[p[1]] \in Fresh
                          /\ \E k \in Kinds : p[1] \in Ids(k) /\ new[p[1]] \in Ids(k)
    BY <1>1, <1>0
  <2>2. \A p, o \in q.tree : new[p[1]] = new[o[1]] => p[1] = o[1]
    BY <1>1, <1>0
  <2>3. \A z \in Rows : (\A p \in q.tree : z # new[p[1]]) => parent'[z] = parent[z]
    BY <1>1, <1>0
  <2>4. ASSUME NEW p \in q.tree
        PROVE  parent'[new[p[1]]] = IF p[1] = q.row THEN q.board ELSE new[p[2]]
    <3>1. PICK z, e : z = new[p[1]] /\ e = IF p[1] = q.row THEN q.board ELSE new[p[2]]
      OBVIOUS
    <3>2. z \in Rows /\ \E x \in {o[1] : o \in req[r].tree} : z = new[x]
      BY <1>1, <2>1, <3>1 DEF Fresh
    <3>3. {o \in req[r].tree : z = new[o[1]]} = {p}
      BY <1>1, <1>4, <2>2, <3>1 DEF RightTree
    <3>4. {IF o[1] = req[r].row THEN req[r].board ELSE new[o[2]] :
             o \in {o \in req[r].tree : z = new[o[1]]}} = {e}
      BY <1>1, <3>1, <3>3
    <3>5. parent'[z] = CHOOSE y \in {e} : TRUE
      BY <1>0, <3>2, <3>4
    <3> QED
      BY <3>1, <3>5
  <2>5. parent' = [z \in Rows |-> parent'[z]]
    BY <1>0
  <2>6. linked' = linked \cup {<<new[p[1]], p[2]>> : p \in q.links}
    BY <1>1, <1>0
  <2>7. assigned' = assigned \cup {<<new[p[1]], p[2]>> : p \in q.jobs}
    BY <1>1, <1>0
  <2> QED
    BY <2>1, <2>2, <2>3, <2>4, <2>5, <2>6, <2>7
<1>6. PICK N : N = {new[p[1]] : p \in q.tree}
  OBVIOUS
<1>7. /\ N \in SUBSET Rows
      /\ \A x \in N : x \in Fresh /\ parent[x] = None
      /\ \A z \in Rows \ N : parent'[z] = parent[z]
  BY <1>5, <1>6 DEF Fresh
<1>8. new[q.row] \in N /\ new[q.row] \in Lists /\ parent'[new[q.row]] = q.board
  <2>1. PICK p \in q.tree : p[1] = q.row
    BY <1>4
  <2>2. PICK k \in Kinds : p[1] \in Ids(k) /\ new[p[1]] \in Ids(k)
    BY <1>5
  <2>3. new[p[1]] \in Lists
    BY <1>4, <2>1, <2>2, SameKinds, AboveKinds
  <2> QED
    BY <1>5, <1>6, <2>1, <2>3
<1>9. ASSUME NEW z \in N, z # new[q.row]
      PROVE  parent'[z] \in N /\ parent'[z] \in Above(z)
  <2>1. PICK p \in q.tree : z = new[p[1]]
    BY <1>6
  <2>2. p[1] \in Rows /\ p[2] \in Above(p[1]) /\ parent'[z] = new[p[2]]
    BY <1>4, <1>5, <1>9, <2>1 DEF RightTree
  <2>3. PICK o \in q.tree : o[1] = p[2]
    BY <1>4, <1>9, <2>1 DEF RightTree
  <2>4. PICK k \in Kinds : p[1] \in Ids(k) /\ z \in Ids(k)
    BY <1>5, <2>1
  <2>5. PICK j \in Kinds : p[2] \in Ids(j) /\ new[p[2]] \in Ids(j)
    BY <1>5, <2>3
  <2>6. new[p[2]] \in Above(z)
    BY <2>2, <2>4, <2>5, SameKinds
  <2> QED
    BY <1>6, <2>2, <2>3, <2>6
<1>10. parent' \in [Rows -> Nodes]
  <2>1. \A z \in Rows : parent'[z] \in Nodes
    BY <1>2, <1>4, <1>7, <1>8, <1>9 DEF TypeOK, Nodes
  <2> QED
    BY <1>5, <2>1
<1>11. /\ Tree(parent')
       /\ \A y \in Rows \ N : Home(y)' = Home(y)
       /\ \A y \in N : Home(y)' = q.board
  <2>1. PICK f, g, top, b : f = parent /\ g = parent' /\ top = new[q.row] /\ b = q.board
    OBVIOUS
  <2>2. /\ Tree(f) /\ N \in SUBSET Rows /\ \A x \in N : f[x] = None
    BY <1>2, <1>7, <2>1, TypeTree
  <2>3. /\ g \in [Rows -> Nodes] /\ \A y \in Rows \ N : g[y] = f[y]
        /\ top \in N /\ top \in Lists /\ b \in Boards /\ g[top] = b
        /\ \A x \in N : x = top \/ (g[x] \in N /\ g[x] \in Above(x))
    BY <1>4, <1>7, <1>8, <1>9, <1>10, <2>1
  <2>4. /\ Tree(g)
        /\ \A y \in Rows \ N : g[y] = f[y] /\ Root(g, y) = Root(f, y)
        /\ \A x \in N : Root(g, x) = b
    BY ONLY <2>2, <2>3, TreeCopy
  <2> QED
    BY <2>1, <2>4, HomeIsRoot
<1>12. ASSUME NEW p \in q.links \cup q.jobs PROVE new[p[1]] \in N /\ new[p[1]] \in Cards
  <2>1. PICK o \in q.tree : o[1] = p[1]
    BY <1>4 DEF RightTree
  <2>2. PICK k \in Kinds : p[1] \in Ids(k) /\ new[p[1]] \in Ids(k)
    BY <1>5, <2>1
  <2>3. p[1] \in Cards /\ p[1] \in Rows
    BY <1>4, AboveKinds
  <2> QED
    BY <1>6, <2>1, <2>2, <2>3, SameKinds
<1>13. \A y \in Rows : Home(y) \in Boards => y \notin N /\ Home(y)' = Home(y)
  BY <1>2, <1>7, <1>11, LinkTypes
<1>14. LinksAtHome'
  <2> SUFFICES ASSUME tidy'
               PROVE  /\ \A p \in linked' : Home(p[1])' \in Boards /\ Home(p[1])' = Home(p[2])'
                      /\ \A p \in assigned' : Home(p[1])' \in Boards /\ p[2] \in members'[Home(p[1])']
    BY DEF LinksAtHome
  <2>1. Holds(q) /\ tidy
    BY <1>1, <1>2, <1>3, WrittenIs
  <2>2. /\ \A p \in linked : Home(p[1]) \in Boards /\ Home(p[1]) = Home(p[2])
        /\ \A p \in assigned : Home(p[1]) \in Boards /\ p[2] \in members[Home(p[1])]
    BY <2>1 DEF Inv, LinksAtHome
  <2>3. \A p \in linked : Home(p[1])' \in Boards /\ Home(p[1])' = Home(p[2])'
    BY <1>2, <1>13, <2>2, LinkTypes
  <2>4. \A p \in assigned : Home(p[1])' \in Boards /\ p[2] \in members'[Home(p[1])']
    BY <1>2, <1>13, <2>2, LinkTypes
  <2>5. ASSUME NEW p \in q.links PROVE Home(new[p[1]])' = q.board /\ Home(p[2])' = q.board
    <3>1. p[2] \in Rows /\ Home(p[2]) \in Boards
      BY <1>2, <1>4, AboveKinds, TypeTree, LiveIs
    <3>2. Home(p[2]) = q.board
      BY <1>2, <1>3, <2>1, <3>1, Apart DEF LabelsHold, OnOrGone
    <3> QED
      BY <1>11, <1>12, <1>13, <3>1, <3>2
  <2>6. ASSUME NEW p \in q.jobs PROVE Home(new[p[1]])' = q.board /\ p[2] \in members'[q.board]
    BY <1>2, <1>11, <1>12, <2>1 DEF Holds
  <2>7. ASSUME NEW p \in linked' PROVE Home(p[1])' \in Boards /\ Home(p[1])' = Home(p[2])'
    <3>1. CASE p \in linked
      BY <2>3, <3>1
    <3>2. CASE p \notin linked
      <4>1. PICK o \in q.links : p = <<new[o[1]], o[2]>>
        BY <1>5, <3>2
      <4>2. p[1] = new[o[1]] /\ p[2] = o[2]
        BY <4>1
      <4> QED
        BY <1>4, <2>5, <4>2
    <3> QED
      BY <3>1, <3>2
  <2>8. ASSUME NEW p \in assigned' PROVE Home(p[1])' \in Boards /\ p[2] \in members'[Home(p[1])']
    <3>1. CASE p \in assigned
      BY <2>4, <3>1
    <3>2. CASE p \notin assigned
      <4>1. PICK o \in q.jobs : p = <<new[o[1]], o[2]>>
        BY <1>5, <3>2
      <4>2. p[1] = new[o[1]] /\ p[2] = o[2]
        BY <4>1
      <4> QED
        BY <1>4, <2>6, <4>2
    <3> QED
      BY <3>1, <3>2
  <2> QED
    BY <2>7, <2>8
<1>15. linked' \subseteq Cards \X Labels /\ assigned' \subseteq Cards \X Users
  BY <1>2, <1>4, <1>5, <1>12 DEF TypeOK
<1>16. Inv'
  <2>1. \A y \in Labels : y \notin Fresh => parent'[y] \in {parent[y], None}
    BY <1>7, AboveKinds
  <2> QED
    BY <1>2, <1>11, <1>14, <1>15, <2>1, WrittenIs, WriteInv DEF TypeOK
<1>17. ASSUME tidy', NEW b \in public PROVE Content(b)' = Content(b)
  <2>1. Holds(q) /\ b \in Boards
    BY <1>1, <1>2, <1>3, <1>17, WrittenIs DEF TypeOK
  <2>2. q.board # b
    BY <1>2, <1>3, <1>17, <2>1 DEF Holds, Guarded, Editable
  <2>3. \A y \in N : Home(y) # b
    BY <1>7, <1>13, <2>1
  <2>4. \A y \in Rows : (Home(y)' = b <=> Home(y) = b) /\ (Home(y) = b => parent'[y] = parent[y])
    BY <1>7, <1>11, <2>2, <2>3
  <2>5. \A p \in Cards \X Labels : Home(p[1]) = b => (p \in linked' <=> p \in linked)
    BY <1>5, <1>12, <2>3
  <2> QED
    BY <1>2, <1>15, <2>4, <2>5, SameContent
<1> QED
  BY <1>16, <1>17 DEF Frozen

LEMMA JoinInv ==
  ASSUME Inv, NEW b \in Boards, NEW u \in Users, Join(b, u)
  PROVE  Inv'
<1>1. members' \in [Boards -> SUBSET Users] /\ \A c \in Boards : members[c] \subseteq members'[c]
  BY DEF Join, Inv, TypeOK
<1> QED
  BY <1>1, StillInv DEF Join

LEMMA InitInv == Init => Inv
<1> SUFFICES ASSUME Init PROVE Inv
  OBVIOUS
<1>1. \A r \in Reqs : req[r] = Idle
  BY DEF Init
<1>2. TypeOK
  <2>1. req \in [Reqs -> Request]
    BY IdleType DEF Init
  <2> QED
    BY <2>1 DEF Init, TypeOK, Nodes
<1>3. LinksAtHome
  BY DEF Init, LinksAtHome
<1> QED
  BY <1>1, <1>2, <1>3, IdleType DEF Inv, ShapeInv, ClaimInv, LabelInv, LabelsHold

\* The templates stay as they are where no row and no link changes.
LEMMA StillFrozen ==
  ASSUME UNCHANGED rows
  PROVE  Frozen
<1>1. \A x : Home(x)' = Home(x)
  BY DEF Home, Up, rows
<1> QED
  BY <1>1 DEF Frozen, Content, rows

LEMMA StepInv ==
  ASSUME Inv, NEW r \in Reqs, Step(r)
  PROVE  Inv' /\ (tidy' => Frozen)
<1>1. /\ LabelsService \in SUBSET Methods /\ ChecklistsService \in SUBSET Methods
      /\ CommentsService \in SUBSET Methods /\ AttachmentsService \in SUBSET Methods
      /\ ListsService \in SUBSET Methods /\ CardsService \in SUBSET Methods
      /\ BoardsService \in SUBSET Methods
  BY DEF Methods
<1>2. ASSUME NEW methods \in SUBSET Methods, Arrive(r, methods) PROVE Inv' /\ Frozen
  BY <1>2, ArriveInv, StillFrozen DEF ReadOnly
<1>3. CASE LabelsController(r) \/ ChecklistsController(r) \/ CommentsController(r)
  BY <1>1, <1>2, <1>3 DEF LabelsController, ChecklistsController, CommentsController
<1>4. CASE AttachmentsController(r) \/ ListsController(r) \/ CardsController(r) \/ BoardsController(r)
  BY <1>1, <1>2, <1>4 DEF AttachmentsController, ListsController, CardsController, BoardsController
<1>5. CASE CheckOther(r) \/ Guard(r) \/ CheckMember(r) \/ ReadPeople(r)
  BY <1>5, LookInv, StillFrozen DEF ReadOnly
<1>6. CASE Read(r)
  BY <1>6, ReadInv, StillFrozen DEF ReadOnly
<1>7. CASE Stop(r)
  BY <1>7, StopInv, StillFrozen DEF ReadOnly
<1>8. CASE CreateWrite(r)
  BY <1>8, CreateInv
<1>9. CASE EditWrite(r)
  BY <1>9, EditInv
<1>10. CASE LinkWrite(r)
  BY <1>10, LinkInv
<1>11. CASE AssignWrite(r)
  BY <1>11, AssignInv
<1>12. CASE MoveWrite(r)
  BY <1>12, MoveInv
<1>13. CASE TransferWrite(r)
  BY <1>13, TransferInv
<1>14. CASE CopyWrite(r)
  BY <1>14, CopyInv
<1>15. CASE ExpelWrite(r)
  BY <1>15, ExpelInv
<1> QED
  BY <1>3, <1>4, <1>5, <1>6, <1>7, <1>8, <1>9, <1>10, <1>11, <1>12, <1>13, <1>14, <1>15 DEF Step

LEMMA NextInv ==
  ASSUME Inv, [Next]_vars
  PROVE  Inv' /\ (tidy' => Frozen)
<1>1. ASSUME NEW r \in Reqs, Step(r) PROVE Inv' /\ (tidy' => Frozen)
  BY <1>1, StepInv
<1>2. ASSUME NEW b \in Boards, NEW u \in Users, Join(b, u) PROVE Inv' /\ Frozen
  BY <1>2, JoinInv, StillFrozen DEF Join
<1>3. ASSUME NEW b \in Boards, SetVisibility(b) PROVE Inv' /\ Frozen
  BY <1>3, SetVisibilityInv, StillFrozen DEF SetVisibility
<1>4. CASE UNCHANGED vars
  <2>1. UNCHANGED <<focus, rows, members, public, req, tidy>>
    BY <1>4 DEF vars
  <2>2. members' \in [Boards -> SUBSET Users] /\ \A c \in Boards : members[c] \subseteq members'[c]
    BY <2>1 DEF Inv, TypeOK
  <2> QED
    BY <2>1, <2>2, StillInv, StillFrozen
<1> QED
  BY <1>1, <1>2, <1>3, <1>4 DEF Next

LEMMA AlwaysInv == Spec => []Inv
<1>1. Inv /\ [Next]_vars => Inv'
  BY NextInv
<1> QED
  BY <1>1, InitInv, PTL DEF Spec

(***************************************************************************)
(* Theorems                                                                *)
(***************************************************************************)

\* Every row, link and request keeps its type, and no row is left below one
\* that is gone: the cascades, moves and copies of boards, lists and cards in
\* prisma's schema and the services, in any order.
THEOREM TypeCorrect == Spec => []TypeOK
BY AlwaysInv, PTL DEF Inv

\* A request about to write writes on the board that it was admitted to, whatever
\* the others did since ensureListInBoard and the like, or it is late.
THEOREM WritesSafe == Spec => []WritesStayOnBoard
<1>1. ASSUME Inv, NEW r \in Reqs, ~Free(r), req[r].left = <<>>, ~req[r].late, NEW x \in Named(req[r])
      PROVE  Home(x) \in {req[r].board, None}
  <2>1. PICK q : q = req[r]
    OBVIOUS
  <2>2. Holds(q) /\ q.left = <<>>
    BY <1>1, <2>1 DEF Inv, ClaimInv, Free
  <2>3. ~Awaits(q, "other")
    BY <2>2 DEF Awaits, Stages
  <2>4. \/ x = q.row /\ x \in Rows
        \/ x = q.other /\ x \in Rows
        \/ q.does = "pour" /\ x \in q.cards
    BY <1>1, <2>1 DEF Named
  <2> QED
    BY <2>1, <2>2, <2>3, <2>4 DEF Holds, OnOrGone
<1>2. Inv => WritesStayOnBoard
  BY <1>1 DEF WritesStayOnBoard
<1> QED
  BY <1>2, AlwaysInv, PTL

\* The labels of a card are of its board and its assignees are members of it,
\* as moveToOtherBoard, copyList, removeMember and leaveBoard promise together.
THEOREM LinksSafe == Spec => []LinksAtHome
BY AlwaysInv, PTL DEF Inv

\* ensureTemplateContentEditable does what it is for: no write changes a public
\* template, unless it was published after the check.
THEOREM FrozenSafe == Spec => PublicFrozen
<1>1. Inv /\ [Next]_vars
      => [\A b \in Boards : b \in public => Content(b)' = Content(b) \/ ~tidy']_vars
  BY NextInv DEF Frozen
<1> QED
  BY <1>1, AlwaysInv, PTL DEF Spec, PublicFrozen
===========================================================================

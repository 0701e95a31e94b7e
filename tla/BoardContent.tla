---------------------------- MODULE BoardContent ----------------------------
(***************************************************************************)
(* What hangs on boards: lists with cards, below them checklists, items,   *)
(* attachments and comments, and beside them the labels, with the labels   *)
(* and assignees of cards.  Each handler checks in one statement that the  *)
(* row it is given is on the board of its URL, in another one that the     *)
(* board is not a public template, and then writes by id.  A list may move *)
(* to another board meanwhile, a member leave, a template be published.    *)
(*                                                                         *)
(* A service is a table: what each of its methods does, and the statements *)
(* it runs before its last one.  Titles and the like are left out, orders  *)
(* are in Ordering, the roles that the routes ask for in BoardMembership.  *)
(* A transaction, and a query with what it includes, is one step.          *)
(***************************************************************************)
EXTENDS Naturals, FiniteSets, Sequences

CONSTANTS
    Boards, Users,
    Lists, Cards, Labels, Checklists, Items, Attachments, Comments,  \* ids of rows
    Reqs,       \* slots for requests in flight
    Focuses,    \* bound: what a behaviour is about: rows and users that take part,
                \* and the boards that are templates
    Narrow,     \* bound: nothing arrives while a request is late or after a late write
    None

Rows == Lists \cup Cards \cup Labels \cup Checklists \cup Items \cup Attachments \cup Comments
Nodes == Boards \cup Rows \cup {None}
Kinds == {"board", "user", "list", "card", "label", "checklist", "item", "attachment", "comment"}

Ids(kind) == CASE kind = "board" -> Boards [] kind = "user" -> Users
               [] kind = "list" -> Lists [] kind = "card" -> Cards
               [] kind = "label" -> Labels [] kind = "checklist" -> Checklists
               [] kind = "item" -> Items [] kind = "attachment" -> Attachments
               [] kind = "comment" -> Comments

ASSUME ContentAssumption ==
    /\ \A j, k \in Kinds : j # k => Ids(j) \cap Ids(k) = {}
    /\ None \notin Boards \cup Rows \cup Users
    /\ Focuses \subseteq SUBSET (Rows \cup Users \cup Boards) /\ Narrow \in BOOLEAN

VARIABLES
    focus,     \* who takes part
    parent,    \* listId, cardId, checklistId or boardId; None without a row
    linked,    \* the labels of cards
    assigned,  \* the assignees of cards
    members,   \* the members of each board
    public,    \* the boards that are public templates
    req,       \* the requests in flight, by slot
    tidy       \* history: no write so far was late

rows == <<parent, linked, assigned>>
vars == <<focus, rows, members, public, req, tidy>>

\* From a row to the board it is on.
Up(x) == IF x \in Rows THEN parent[x] ELSE x
Home(x) == Up(Up(Up(Up(x))))
\* Mutant: no cascade.
Below_Itself(x) == {x}
Below(x) == {y \in Rows : parent[y] # None /\ x \in {y, Up(y), Up(Up(y)), Up(Up(Up(y)))}}
CardsOf(l) == {c \in Cards : parent[c] = l}

----------------------------------------------------------------------------
(* The methods: what is done, on a row of which kind, with which other kind. *)
(* Each looks for its row on the board first (ensureListInBoard and the      *)
(* like).  Then come, in this order: "other", the same for the second row;   *)
(* "guard" and "target", ensureTemplateContentEditable for the board and for *)
(* the target of a transfer; "member" and "people", the members of a board;  *)
(* "read", what the write needs.                                             *)

Method(does, on, with, then) == [does |-> does, on |-> on, with |-> with, then |-> then]

\* Two methods of each service, that change a row or remove it with all below.
Edit(kind, then) == Method("edit", kind, "board", then)

\* Mutant: assignToCard and removeFromCard do not look at the template.
LabelsService_Unguarded ==
    {Method("create", "board", "label", <<"guard">>), Edit("label", <<"guard">>),
     Method("link", "card", "label", <<"other">>)}
\* "link" is assignToCard and removeFromCard.
LabelsService ==
    {Method("create", "board", "label", <<"guard">>), Edit("label", <<"guard">>),
     Method("link", "card", "label", <<"other", "guard">>)}

\* toggleItem is one of the edits of an item.
ChecklistsService ==
    {Method("create", "card", "checklist", <<"guard">>), Edit("checklist", <<"guard">>),
     Method("create", "checklist", "item", <<"guard">>), Edit("item", <<"guard">>)}

\* Who is not the author, nor for a removal a moderator, is refused: any
\* request may stop before its write.
CommentsService == {Method("create", "card", "comment", <<>>), Edit("comment", <<>>)}

AttachmentsService == {Method("create", "card", "attachment", <<>>), Edit("attachment", <<>>)}

\* "pour" is moveAllCards, "transfer" a move to another board, which the role of
\* the caller there may refuse.
ListsService ==
    {Method("create", "board", "list", <<"guard">>), Edit("list", <<"guard">>),
     Method("pour", "list", "list", <<"other", "guard", "read">>),
     Method("transfer", "list", "board", <<"guard", "target", "read", "people">>),
     Method("copy", "list", "board", <<"read", "guard">>)}

CardsService ==
    {Method("create", "list", "card", <<"guard">>), Edit("card", <<"guard">>),
     Method("move", "card", "list", <<"guard", "other">>),
     Method("assign", "card", "user", <<"member">>),
     Method("unassign", "card", "user", <<>>)}

\* removeMember and leaveBoard: the cards of the member, then a transaction.
BoardsService == {Method("expel", "board", "user", <<"read">>)}

Methods == UNION {LabelsService, ChecklistsService, CommentsService, AttachmentsService,
                  ListsService, CardsService, BoardsService}

----------------------------------------------------------------------------
(* Requests                                                                  *)

Statements == {"other", "guard", "target", "member", "people", "read"}

\* left: the statements to come before the write; to: the board of the rows
\* that are written; cards, tree, links, people, jobs: what "read" and "people"
\* found; late: see Outdates.
Request == [does: {m.does : m \in Methods} \cup {"none"}, new: Kinds,
            left: Seq(Statements), board: Boards \cup {None},
            to: Boards \cup {None}, row: Nodes, other: Nodes \cup Users, cards: SUBSET Cards,
            tree: SUBSET (Rows \X Nodes), links: SUBSET (Cards \X Labels),
            people: SUBSET Users, jobs: SUBSET (Cards \X Users), late: BOOLEAN]
Idle == [does |-> "none", new |-> "board", left |-> <<>>, board |-> None, to |-> None, row |-> None,
         other |-> None, cards |-> {}, tree |-> {}, links |-> {}, people |-> {},
         jobs |-> {}, late |-> FALSE]

Free(r) == req[r] = Idle
Does(r, what) == req[r].does = what
Ready(r, what) == Does(r, what) /\ req[r].left = <<>>
Next1(r, stage) == req[r].left # <<>> /\ Head(req[r].left) = stage
Become(r, rec) == req' = [req EXCEPT ![r] = rec]
Finish(r) == Become(r, Idle)
Continue(r) == Become(r, [req[r] EXCEPT !.left = Tail(@)])
ReadOnly == UNCHANGED <<focus, rows, members, public, tidy>>

Mentioned(q) == {q.row, q.other} \cup q.cards
                  \cup UNION {{p[1], p[2]} : p \in q.tree \cup q.links \cup q.jobs}
\* An id that no row has and no request names.
Fresh == {x \in Rows : parent[x] = None /\ \A r \in Reqs : x \notin Mentioned(req[r])}

Quiet == Narrow => tidy /\ \A r \in Reqs : ~req[r].late

\* Mutant: the row is only looked for, on whatever board it is.
OnBoard_Anywhere(x, b) == Home(x) # None
OnBoard(x, b) == Home(x) = b

Others(m, b) == IF m.does = "expel" THEN members[b]
                ELSE IF m.with = "user" THEN Users \cap focus
                ELSE IF m.does = "create" \/ m.with = "board" THEN {None}
                ELSE {y \in Ids(m.with) : Home(y) # None}

\* A request for one of the methods that has found its row.
Arrive(r, methods) ==
    /\ Free(r) /\ Quiet
    /\ \E m \in methods, b, t \in Boards :
          /\ m.with = "board" \/ Ids(m.with) \cap focus # {}
          /\ (t # b) = (m.does = "transfer")
          /\ \E x \in {y \in Ids(m.on) : OnBoard(y, b)}, o \in Others(m, b) :
                x # o /\ Become(r, [Idle EXCEPT !.does = m.does, !.new = m.with, !.left = m.then, !.board = b, !.to = t,
                                              !.row = x, !.other = o])
    /\ ReadOnly

\* One controller for each service.
LabelsController(r) == Arrive(r, LabelsService)
ChecklistsController(r) == Arrive(r, ChecklistsService)
CommentsController(r) == Arrive(r, CommentsService)
AttachmentsController(r) == Arrive(r, AttachmentsService)
ListsController(r) == Arrive(r, ListsService)
CardsController(r) == Arrive(r, CardsService)
BoardsController(r) == Arrive(r, BoardsService)

Proceed(r, allowed) == (IF allowed THEN Continue(r) ELSE Finish(r)) /\ ReadOnly

\* A card that stays on its list is not checked twice.
CheckOther(r) == /\ Next1(r, "other")
                 /\ Proceed(r, \/ OnBoard(req[r].other, req[r].board)
                               \/ Does(r, "move") /\ Up(req[r].row) = req[r].other)

\* ensureTemplateContentEditable.
Editable(b) == b \notin public
Guard(r) == \/ Next1(r, "guard") /\ Proceed(r, Editable(req[r].board))
            \/ Next1(r, "target") /\ Proceed(r, Editable(req[r].to))

\* ensureBoardMember of an assignee.
CheckMember(r) == Next1(r, "member") /\ Proceed(r, req[r].other \in members[req[r].board])

\* The cards of a list, with labels and assignees; for a copy the whole list;
\* for a removal the cards of the member on the board.
Read(r) ==
    LET q == req[r]
        cards == IF q.does = "expel"
                 THEN {c \in Cards : Home(c) = q.board /\ <<c, q.other>> \in assigned}
                 ELSE CardsOf(q.row)
        copied == Below(q.row) \ Comments
    IN
    /\ Next1(r, "read")
    /\ IF q.does = "copy"
       THEN IF OnBoard(q.row, q.board)
            THEN Become(r, [q EXCEPT !.left = Tail(@),
                              !.tree = {<<x, parent[x]>> : x \in copied},
                              !.links = linked \cap (copied \X Labels),
                              !.jobs = assigned \cap (copied \X Users)])
            ELSE Finish(r)
       ELSE Become(r, [q EXCEPT !.left = Tail(@), !.cards = cards,
                         !.links = IF q.does = "transfer"
                                   THEN linked \cap (cards \X Labels) ELSE {},
                         !.jobs = IF q.does = "transfer"
                                  THEN assigned \cap (cards \X Users) ELSE {}])
    /\ ReadOnly

\* The members of the target board.
ReadPeople(r) == /\ Next1(r, "people")
                 /\ Become(r, [req[r] EXCEPT !.left = Tail(@), !.people = members[req[r].to]])
                 /\ ReadOnly

----------------------------------------------------------------------------
(* Writes                                                                    *)

\* The rows whose board a request has checked.
Named(q) == ({q.row, q.other} \cap Rows) \cup (IF q.does = "pour" THEN q.cards ELSE {})

\* A step that takes away what a request in flight goes by: one of its rows
\* changes board, its template becomes public, a member leaves whom it counts
\* on, a card comes or goes that a transfer or a removal of a member should
\* have seen.
Outdates(q) ==
    LET does == q.does IN
    \/ \E x \in Named(q) : parent'[x] # None /\ Home(x)' # Home(x)
    \/ {q.board, q.to} \cap (public' \ public) # {}
    \/ /\ does \in {"assign", "copy", "transfer"}
       /\ ~(members[q.to] \subseteq members'[q.to])
    \/ does = "transfer" /\ \E c \in Cards : (parent'[c] = q.row) # (parent[c] = q.row)
    \/ /\ does = "expel"
       /\ \E c \in Cards : /\ Home(c)' = q.board /\ <<c, q.other>> \in assigned'
                           /\ ~(Home(c) = q.board /\ <<c, q.other>> \in assigned)

Overtaken(q) == IF q = Idle THEN q ELSE [q EXCEPT !.late = @ \/ Outdates(q)]
Written(r) == /\ UNCHANGED <<focus, public>>
              /\ tidy' = (tidy /\ ~req[r].late)
              /\ req' = [q \in Reqs |-> IF q = r THEN Idle ELSE Overtaken(req[q])]

Live(x) == x \in Boards \/ (x \in Rows /\ Home(x) \in Boards)

CreateWrite(r) ==
    /\ Ready(r, "create") /\ Live(req[r].row)
    /\ \E x \in Fresh \cap focus \cap Ids(req[r].new) : parent' = [parent EXCEPT ![x] = req[r].row]
    /\ UNCHANGED <<linked, assigned, members>> /\ Written(r)

\* What an update changes is not represented.  A deletion takes what is below,
\* and its links.
EditWrite(r) ==
    /\ Ready(r, "edit") /\ Live(req[r].row)
    /\ \E gone \in {{}, Below(req[r].row)} :
          /\ parent' = [x \in Rows |-> IF x \in gone THEN None ELSE parent[x]]
          /\ linked' = {p \in linked : p[1] \notin gone /\ p[2] \notin gone}
          /\ assigned' = {p \in assigned : p[1] \notin gone}
    /\ UNCHANGED members /\ Written(r)

LinkWrite(r) ==
    LET link == <<req[r].row, req[r].other>> IN
    /\ Ready(r, "link") /\ Live(req[r].row)
    /\ \/ Live(req[r].other) /\ linked' = linked \cup {link}
       \/ linked' = linked \ {link}
    /\ UNCHANGED <<parent, assigned, members>> /\ Written(r)

AssignWrite(r) ==
    LET job == <<req[r].row, req[r].other>> IN
    /\ Ready(r, "assign") \/ Ready(r, "unassign")
    /\ Live(req[r].row)
    /\ assigned' = IF Does(r, "assign") THEN assigned \cup {job} ELSE assigned \ {job}
    /\ UNCHANGED <<parent, linked, members>> /\ Written(r)

\* By id, wherever the cards are by now; none is lost.
MoveWrite(r) ==
    LET moved == IF Does(r, "move") THEN {req[r].row} ELSE req[r].cards IN
    /\ Ready(r, "move") \/ Ready(r, "pour")
    /\ Live(req[r].other) /\ \A c \in moved : Live(c)
    /\ parent' = [x \in Rows |-> IF x \in moved THEN req[r].other ELSE parent[x]]
    /\ UNCHANGED <<linked, assigned, members>> /\ Written(r)

\* Mutant: the assignees are kept.
Staying_All(q) == q.jobs
\* The assignees that are members of the target board.
Staying(q) == {p \in q.jobs : p[2] \in q.people}

\* moveToOtherBoard: each label becomes one of the target board with the same
\* name and colour, which are not represented, or a new one; labels and
\* assignees of the cards that were read are set.
TransferWrite(r) ==
    LET q == req[r]
        old == {p[2] : p \in q.links}
        there == {g \in Labels : parent[g] = q.to}
    IN
    /\ Ready(r, "transfer") /\ Live(q.row) /\ \A c \in q.cards : Live(c)
    /\ \E same \in [old -> there \cup (Fresh \cap focus \cap Labels)] :
          /\ parent' = [x \in Rows |-> IF x = q.row \/ (\E g \in old : x = same[g])
                                       THEN q.to ELSE parent[x]]
          /\ linked' = {p \in linked : p[1] \notin q.cards} \cup {<<p[1], same[p[2]]>> : p \in q.links}
    /\ assigned' = {p \in assigned : p[1] \notin q.cards} \cup Staying(q)
    /\ UNCHANGED members /\ Written(r)

\* copyList: what was read is created again on the board of the URL; a label
\* that is gone makes the transaction fail.
CopyWrite(r) ==
    LET q == req[r]
        old == {p[1] : p \in q.tree}
    IN
    /\ Ready(r, "copy") /\ \A p \in q.links : Live(p[2])
    /\ \E new \in [old -> Fresh \cap focus] :
          /\ \A x \in old : \E k \in Kinds : {x, new[x]} \subseteq Ids(k)
          /\ \A x, y \in old : x # y => new[x] # new[y]
          /\ parent' = [z \in Rows |->
                 IF \E x \in old : z = new[x]
                 THEN CHOOSE y \in {IF p[1] = q.row THEN q.board ELSE new[p[2]] :
                                      p \in {p \in q.tree : z = new[p[1]]}} : TRUE
                 ELSE parent[z]]
          /\ linked' = linked \cup {<<new[p[1]], p[2]>> : p \in q.links}
          /\ assigned' = assigned \cup {<<new[p[1]], p[2]>> : p \in q.jobs}
    /\ UNCHANGED members /\ Written(r)

ExpelWrite(r) ==
    LET q == req[r] IN
    /\ Ready(r, "expel") /\ q.other \in members[q.board] /\ \A c \in q.cards : Live(c)
    /\ members' = [members EXCEPT ![q.board] = @ \ {q.other}]
    /\ assigned' = {p \in assigned : ~(p[1] \in q.cards /\ p[2] = q.other)}
    /\ UNCHANGED <<parent, linked>> /\ Written(r)

\* A check or the write fails, or the process dies: nothing is written.
Stop(r) == ~Free(r) /\ Finish(r) /\ ReadOnly

Join(b, u) ==
    /\ u \in focus /\ u \notin members[b] /\ Quiet
    /\ members' = [members EXCEPT ![b] = @ \cup {u}]
    /\ UNCHANGED <<focus, rows, public, req, tidy>>

\* updateTemplateVisibility.
SetVisibility(b) ==
    /\ Quiet /\ b \in focus
    /\ public' = IF b \in public THEN public \ {b} ELSE public \cup {b}
    /\ UNCHANGED <<focus, rows, members, tidy>>
    /\ req' = [r \in Reqs |-> Overtaken(req[r])]

----------------------------------------------------------------------------
Init ==
    /\ focus \in Focuses
    /\ parent = [x \in Rows |-> None] /\ linked = {} /\ assigned = {}
    /\ members = [b \in Boards |-> {}] /\ public = {}
    /\ req = [r \in Reqs |-> Idle] /\ tidy = TRUE

Step(r) ==
    \/ LabelsController(r) \/ ChecklistsController(r) \/ CommentsController(r)
    \/ AttachmentsController(r) \/ ListsController(r) \/ CardsController(r)
    \/ BoardsController(r)
    \/ CheckOther(r) \/ Guard(r) \/ CheckMember(r)
    \/ Read(r) \/ ReadPeople(r)
    \/ CreateWrite(r) \/ EditWrite(r) \/ LinkWrite(r) \/ AssignWrite(r)
    \/ MoveWrite(r) \/ TransferWrite(r) \/ CopyWrite(r) \/ ExpelWrite(r)
    \/ Stop(r)

Next == \/ \E r \in Reqs : Step(r)
        \/ \E b \in Boards, u \in Users : Join(b, u)
        \/ \E b \in Boards : SetVisibility(b)

Spec == Init /\ [][Next]_vars

----------------------------------------------------------------------------
(* Properties                                                                *)

\* The kinds of rows that can be right above.
Above(x) == IF x \in Lists \cup Labels THEN Boards
            ELSE IF x \in Cards THEN Lists
            ELSE IF x \in Items THEN Checklists ELSE Cards

\* Every variable keeps its type, and no row is below one that is gone.
TypeOK ==
    /\ focus \in Focuses
    /\ parent \in [Rows -> Nodes]
    /\ \A x \in Rows : parent[x] # None => parent[x] \in Above(x) /\ Up(parent[x]) # None
    /\ linked \subseteq Cards \X Labels /\ assigned \subseteq Cards \X Users
    /\ members \in [Boards -> SUBSET Users] /\ public \subseteq Boards
    /\ req \in [Reqs -> Request] /\ tidy \in BOOLEAN

\* Who is admitted to one board cannot change the rows of another one: what a
\* request is about to write is on the board of its URL, or gone, unless
\* somebody has moved it since the check.
WritesStayOnBoard ==
    \A r \in Reqs : ~Free(r) /\ req[r].left = <<>> /\ ~req[r].late =>
       \A x \in Named(req[r]) : Home(x) \in {req[r].board, None}

\* The labels of a card are of its board and its assignees are members of it,
\* whatever is moved, copied, deleted and removed at the same time, as long as
\* no write was late.
LinksAtHome ==
    tidy => /\ \A p \in linked : Home(p[1]) \in Boards /\ Home(p[1]) = Home(p[2])
            /\ \A p \in assigned : Home(p[1]) \in Boards /\ p[2] \in members[Home(p[1])]

\* What makes up a template: its rows, without comments and attachments, and
\* the labels of its cards.
Content(b) ==
    LET on == {x \in Rows \ (Comments \cup Attachments) : Home(x) = b}
    IN <<{<<x, parent[x]>> : x \in on}, {p \in linked : p[1] \in on}>>

\* A public template does not change, but by a late write.
PublicFrozen ==
    [][\A b \in Boards : b \in public => Content(b)' = Content(b) \/ ~tidy']_vars
=============================================================================

-------------------------- MODULE BoardMembership --------------------------
(***************************************************************************)
(* One board: who is a member with which role, who owns it, who is         *)
(* assigned to its cards, and BoardRolesGuard with its Redis cache in      *)
(* front of every route that changes them.                                 *)
(*                                                                         *)
(* A request takes one step per await that matters to another request: a   *)
(* read of one table, a write or a transaction, a command on Redis.  The   *)
(* transactions here only write rows named by key, in an order fixed by    *)
(* the request, and hold their row locks until the commit, so each is one  *)
(* step.  BoardRolesGuard runs after JwtAuthGuard (module Session).        *)
(***************************************************************************)
EXTENDS Naturals

CONSTANTS
    Users, Cards,
    Reqs,        \* slots for requests in flight
    Methods,     \* the service methods that are called, among AllMethods
    GivenRoles,  \* roles that dto.role of addMember and updateMemberRole takes
    JoinRoles,   \* roles that outstanding invites and invite links carry
    Failures,    \* whether a statement may fail or the process may die
    None

Roles == {"VIEWER", "MEMBER", "ADMIN", "OWNER"}
AllMethods == {"addMember", "updateMemberRole", "removeMember", "leaveBoard",
               "transferOwnership", "remove", "assignMember", "unassignMember", "join"}

ASSUME BoardAssumption ==
    /\ Methods \subseteq AllMethods
    /\ GivenRoles \subseteq Roles /\ JoinRoles \subseteq Roles
    /\ Failures \in BOOLEAN
    /\ None \notin Users /\ None \notin Roles /\ None \notin Cards

VARIABLES
    ownerId,   \* Board.ownerId; None once the board is deleted
    role,      \* role of the BoardMember row of a user, or None
    assignees, \* Card.assignees
    access,    \* board:role:<board>:<user> in Redis
    req,       \* the requests in flight, by slot
    held,      \* history: the highest level a user has had, by ownerId or by row
    owners     \* history: the users that have been ownerId

sql == <<ownerId, role, assignees>>
history == <<held, owners>>
vars == <<sql, access, req, history>>

----------------------------------------------------------------------------
(* BoardRolesGuard *)

RoleLevel == [VIEWER |-> 1, MEMBER |-> 2, ADMIN |-> 3, OWNER |-> 4]

\* The @Roles of each route.  "join" stands for the routes without @Roles that
\* make the caller a member: accepting an invite, joining by an open link.
Required == [addMember |-> "ADMIN", updateMemberRole |-> "ADMIN",
             removeMember |-> "ADMIN", leaveBoard |-> "VIEWER",
             transferOwnership |-> "OWNER", remove |-> "OWNER",
             assignMember |-> "MEMBER", unassignMember |-> "MEMBER"]

\* CachedBoardAccess; a missing key is the entry without an owner.
Access == [ownerId: Users \cup {None}, role: Roles \cup {None}]
NoAccess == [ownerId |-> None, role |-> None]
Current(u) == [ownerId |-> ownerId, role |-> role[u]]

\* The role a request is granted; None when it is refused for membership.
Granted(u, a) == IF a.ownerId = u THEN "OWNER" ELSE a.role
\* Mutant: any member will do.
Suffices_AnyMember(ro, method) == ro # None
Suffices(ro, method) == ro # None /\ RoleLevel[ro] >= RoleLevel[Required[method]]

----------------------------------------------------------------------------
(* Requests *)

Idle == [method |-> "none", at |-> "idle", caller |-> None, target |-> None,
         newRole |-> None, card |-> None, access |-> NoAccess, seen |-> None,
         cards |-> {}]

Stages == {"idle", "cacheGet", "readBoard", "fill", "run", "readCaller",
           "readCards", "write", "invalidate"}

Request == [method: AllMethods \cup {"none"}, at: Stages, caller: Users \cup {None},
            target: Users \cup {None}, newRole: Roles \cup {None},
            card: Cards \cup {None}, access: Access, seen: Roles \cup {None},
            cards: SUBSET Cards]

Free(r) == req[r] = Idle
At(r, methods, stage) == req[r].method \in methods /\ req[r].at = stage
Become(r, rec) == req' = [req EXCEPT ![r] = rec]
Finish(r) == Become(r, Idle)
Goto(r, stage) == Become(r, [req[r] EXCEPT !.at = stage])
\* An early return or exception unless the condition holds.
Proceed(r, condition, rec) == IF condition THEN Become(r, rec) ELSE Finish(r)
ReadOnly == UNCHANGED <<sql, access, history>>

Exists == ownerId # None

Level(ro) == IF ro = None THEN 0 ELSE RoleLevel[ro]
Highest(m, n) == IF m < n THEN n ELSE m

\* A commit that changes the owner or the members; the history follows.
SetMembers(newOwner, newRole) ==
    /\ ownerId' = newOwner /\ role' = newRole
    /\ held' = [u \in Users |-> Highest(held[u],
           IF newOwner = u THEN RoleLevel["OWNER"] ELSE Level(newRole[u]))]
    /\ owners' = owners \cup ({newOwner} \ {None})

----------------------------------------------------------------------------
(* A request arrives and passes the guard *)

\* Targets, roles and cards come from the path and the body.
Incoming(m, u, t, ro, c) ==
    [method |-> m, at |-> IF m = "join" THEN "run" ELSE "cacheGet", caller |-> u,
     target |-> IF m = "remove" THEN None ELSE IF m = "join" THEN u ELSE t,
     newRole |-> IF m \in {"addMember", "updateMemberRole"} THEN ro ELSE None,
     card |-> IF m \in {"assignMember", "unassignMember"} THEN c ELSE None,
     access |-> NoAccess, seen |-> None, cards |-> {}]

Arrive(r) ==
    /\ Free(r)
    /\ \E m \in Methods, u, t \in Users, ro \in GivenRoles, c \in Cards :
         /\ m = "leaveBoard" => t = u
         /\ Become(r, Incoming(m, u, t, ro, c))
    /\ ReadOnly

\* canActivate once the access is known.
Decide(r, a) == Proceed(r, Suffices(Granted(req[r].caller, a), req[r].method),
                        [req[r] EXCEPT !.at = "run", !.access = NoAccess])

GuardCacheGet(r) ==
    /\ req[r].at = "cacheGet"
    /\ IF access[req[r].caller] # NoAccess
       THEN Decide(r, access[req[r].caller])
       ELSE Goto(r, "readBoard")
    /\ ReadOnly

GuardReadBoard(r) ==
    /\ req[r].at = "readBoard"
    /\ Proceed(r, Exists, [req[r] EXCEPT !.at = "fill", !.access = Current(req[r].caller)])
    /\ ReadOnly

GuardFill(r) ==
    /\ req[r].at = "fill"
    /\ access' = [access EXCEPT ![req[r].caller] = req[r].access]
    /\ Decide(r, req[r].access)
    /\ UNCHANGED <<sql, history>>

----------------------------------------------------------------------------
(* BoardsService.addMember.  Between the check and the insert only another   *)
(* insert or the deletion of the board matter: both make the insert fail.    *)

AddMemberCheck(r) ==
    /\ At(r, {"addMember"}, "run")
    /\ Proceed(r, Exists /\ req[r].newRole # "OWNER" /\ role[req[r].target] = None,
               [req[r] EXCEPT !.at = "write"])
    /\ ReadOnly

\* boardMember.create: unique by (boardId, userId), refers to the board.
InsertMember(r, next) ==
    LET t == req[r].target IN
    IF Exists /\ role[t] = None
    THEN /\ SetMembers(ownerId, [role EXCEPT ![t] = req[r].newRole])
         /\ Become(r, next)
         /\ UNCHANGED assignees
    ELSE Finish(r) /\ UNCHANGED <<sql, history>>

AddMemberWrite(r) ==
    /\ At(r, {"addMember"}, "write")
    /\ InsertMember(r, [req[r] EXCEPT !.at = "invalidate"])
    /\ UNCHANGED access

\* InvitesService.accept and InviteLinksService.join of an open link: the
\* caller's own row, with the role of the invite; the cache is left alone.
JoinCheck(r) ==
    /\ At(r, {"join"}, "run")
    /\ \E ro \in JoinRoles :
         Proceed(r, Exists /\ role[req[r].target] = None,
                 [req[r] EXCEPT !.at = "write", !.newRole = ro])
    /\ ReadOnly

JoinWrite(r) ==
    /\ At(r, {"join"}, "write")
    /\ InsertMember(r, Idle)
    /\ UNCHANGED access

----------------------------------------------------------------------------
(* BoardsService.updateMemberRole and removeMember check the target's row,   *)
(* then the caller's; leaveBoard only its own.                               *)

\* Mutant: dto.role is not checked.
TargetCheck_AnyRole(r) ==
    /\ At(r, {"updateMemberRole", "removeMember"}, "run")
    /\ Proceed(r, Exists /\ role[req[r].target] \notin {None, "OWNER"},
               [req[r] EXCEPT !.at = "readCaller", !.seen = role[req[r].target]])
    /\ ReadOnly

TargetCheck(r) ==
    /\ At(r, {"updateMemberRole", "removeMember"}, "run")
    /\ Proceed(r, /\ Exists /\ req[r].newRole # "OWNER"
                  /\ role[req[r].target] \notin {None, "OWNER"},
               [req[r] EXCEPT !.at = "readCaller", !.seen = role[req[r].target]])
    /\ ReadOnly

\* Only an OWNER touches an ADMIN or makes one.
CallerCheck(r) ==
    /\ req[r].at = "readCaller"
    /\ Proceed(r, "ADMIN" \in {req[r].seen, req[r].newRole} => role[req[r].caller] = "OWNER",
               [req[r] EXCEPT !.seen = None,
                    !.at = IF req[r].method = "updateMemberRole" THEN "write" ELSE "readCards"])
    /\ ReadOnly

LeaveCheck(r) ==
    /\ At(r, {"leaveBoard"}, "run")
    /\ Proceed(r, role[req[r].caller] \notin {None, "OWNER"},
               [req[r] EXCEPT !.at = "readCards"])
    /\ ReadOnly

\* boardMember.update fails when the row is gone.
UpdateMemberRoleWrite(r) ==
    LET t == req[r].target IN
    /\ At(r, {"updateMemberRole"}, "write")
    /\ IF role[t] # None
       THEN /\ SetMembers(ownerId, [role EXCEPT ![t] = req[r].newRole])
            /\ Goto(r, "invalidate")
            /\ UNCHANGED assignees
       ELSE Finish(r) /\ UNCHANGED <<sql, history>>
    /\ UNCHANGED access

\* buildUnassignFromBoardCardsOps reads the cards before the transaction starts.
ReadAssignedCards(r) ==
    /\ req[r].at = "readCards"
    /\ Become(r, [req[r] EXCEPT !.at = "write",
                      !.cards = {c \in Cards : req[r].target \in assignees[c]}])
    /\ ReadOnly

\* Mutant: the cards keep their assignee.
RemoveMemberWrite_KeepsCards(r) ==
    LET t == req[r].target IN
    /\ At(r, {"removeMember", "leaveBoard"}, "write")
    /\ IF role[t] # None
       THEN /\ SetMembers(ownerId, [role EXCEPT ![t] = None])
            /\ Become(r, [req[r] EXCEPT !.at = "invalidate", !.cards = {}])
            /\ UNCHANGED assignees
       ELSE Finish(r) /\ UNCHANGED <<sql, history>>
    /\ UNCHANGED access

\* The transaction: delete the row, disconnect the user from those cards.
RemoveMemberWrite(r) ==
    LET t == req[r].target IN
    /\ At(r, {"removeMember", "leaveBoard"}, "write")
    /\ IF role[t] # None
       THEN /\ SetMembers(ownerId, [role EXCEPT ![t] = None])
            /\ assignees' = [c \in Cards |->
                   IF c \in req[r].cards THEN assignees[c] \ {t} ELSE assignees[c]]
            /\ Become(r, [req[r] EXCEPT !.at = "invalidate", !.cards = {}])
       ELSE Finish(r) /\ UNCHANGED <<sql, history>>
    /\ UNCHANGED access

\* invalidateBoardRoleCache of the target (then the removal event is emitted).
InvalidateTarget(r) ==
    /\ At(r, {"addMember", "updateMemberRole", "removeMember", "leaveBoard"}, "invalidate")
    /\ access' = [access EXCEPT ![req[r].target] = NoAccess]
    /\ Finish(r)
    /\ UNCHANGED <<sql, history>>

----------------------------------------------------------------------------
(* BoardsService.transferOwnership and remove                                *)

TransferCheck(r) ==
    /\ At(r, {"transferOwnership"}, "run")
    /\ Proceed(r, req[r].target # req[r].caller /\ role[req[r].target] # None,
               [req[r] EXCEPT !.at = "write"])
    /\ ReadOnly

\* Mutant: the old owner is not demoted.
TransferWrite_NoDemotion(r) ==
    LET c == req[r].caller
        t == req[r].target IN
    /\ At(r, {"transferOwnership"}, "write")
    /\ IF role[c] # None /\ role[t] # None
       THEN /\ SetMembers(t, [role EXCEPT ![t] = "OWNER"])
            /\ Goto(r, "invalidate")
            /\ UNCHANGED assignees
       ELSE Finish(r) /\ UNCHANGED <<sql, history>>
    /\ UNCHANGED access

\* Nothing is read again in the transaction; it rolls back if a row is gone.
TransferWrite(r) ==
    LET c == req[r].caller
        t == req[r].target IN
    /\ At(r, {"transferOwnership"}, "write")
    /\ IF role[c] # None /\ role[t] # None
       THEN /\ SetMembers(t, [role EXCEPT ![c] = "ADMIN", ![t] = "OWNER"])
            /\ Goto(r, "invalidate")
            /\ UNCHANGED assignees
       ELSE Finish(r) /\ UNCHANGED <<sql, history>>
    /\ UNCHANGED access

TransferInvalidate(r) ==
    /\ At(r, {"transferOwnership"}, "invalidate")
    /\ access' = [access EXCEPT ![req[r].caller] = NoAccess, ![req[r].target] = NoAccess]
    /\ Finish(r)
    /\ UNCHANGED <<sql, history>>

\* board.delete cascades to members, lists, cards and assignments.
RemoveWrite(r) ==
    /\ At(r, {"remove"}, "run")
    /\ IF Exists
       THEN /\ SetMembers(None, [u \in Users |-> None])
            /\ assignees' = [c \in Cards |-> {}]
            /\ Goto(r, "invalidate")
       ELSE Finish(r) /\ UNCHANGED <<sql, history>>
    /\ UNCHANGED access

\* invalidateAllBoardRoleCache: SCAN and DEL of every key of the board.
RemoveInvalidate(r) ==
    /\ At(r, {"remove"}, "invalidate")
    /\ access' = [u \in Users |-> NoAccess]
    /\ Finish(r)
    /\ UNCHANGED <<sql, history>>

----------------------------------------------------------------------------
(* CardsService.assignMember and unassignMember                              *)

AssignCheck(r) ==
    /\ At(r, {"assignMember"}, "run")
    /\ Proceed(r, Exists /\ role[req[r].target] # None, [req[r] EXCEPT !.at = "write"])
    /\ ReadOnly

\* Mutant: the link is inserted without looking at the card.
AssignWrite_NoCard(r) ==
    /\ At(r, {"assignMember"}, "write")
    /\ assignees' = [assignees EXCEPT ![req[r].card] = @ \cup {req[r].target}]
    /\ Finish(r)
    /\ UNCHANGED <<ownerId, role, access, history>>

\* card.update fails when the card is gone.
AssignWrite(r) ==
    /\ At(r, {"assignMember"}, "write")
    /\ assignees' = IF Exists
                    THEN [assignees EXCEPT ![req[r].card] = @ \cup {req[r].target}]
                    ELSE assignees
    /\ Finish(r)
    /\ UNCHANGED <<ownerId, role, access, history>>

UnassignWrite(r) ==
    /\ At(r, {"unassignMember"}, "run")
    /\ assignees' = [assignees EXCEPT ![req[r].card] = @ \ {req[r].target}]
    /\ Finish(r)
    /\ UNCHANGED <<ownerId, role, access, history>>

----------------------------------------------------------------------------
\* Mutant: SET without EX.
AccessExpire_NoTtl(u) == access[u] # NoAccess /\ access' = access /\ UNCHANGED vars

\* ROLE_CACHE_TTL_SECONDS have passed.
AccessExpire(u) ==
    /\ access[u] # NoAccess
    /\ access' = [access EXCEPT ![u] = NoAccess]
    /\ UNCHANGED <<sql, req, history>>

\* A statement or a command fails, or the process dies: what is committed stays.
Abort(r) ==
    /\ Failures /\ ~Free(r)
    /\ Finish(r)
    /\ ReadOnly

\* BoardsService.create made the board: a row with role OWNER for its owner.
Init ==
    \E u \in Users :
        /\ ownerId = u
        /\ role = [v \in Users |-> IF v = u THEN "OWNER" ELSE None]
        /\ assignees = [c \in Cards |-> {}]
        /\ access = [v \in Users |-> NoAccess]
        /\ req = [r \in Reqs |-> Idle]
        /\ held = [v \in Users |-> IF v = u THEN RoleLevel["OWNER"] ELSE 0]
        /\ owners = {u}

Guard(r) == GuardCacheGet(r) \/ GuardReadBoard(r) \/ GuardFill(r)

Step(r) ==
    \/ Guard(r)
    \/ AddMemberCheck(r) \/ AddMemberWrite(r) \/ JoinCheck(r) \/ JoinWrite(r)
    \/ TargetCheck(r) \/ CallerCheck(r) \/ LeaveCheck(r) \/ UpdateMemberRoleWrite(r)
    \/ ReadAssignedCards(r) \/ RemoveMemberWrite(r) \/ InvalidateTarget(r)
    \/ TransferCheck(r) \/ TransferWrite(r) \/ TransferInvalidate(r)
    \/ RemoveWrite(r) \/ RemoveInvalidate(r)
    \/ AssignCheck(r) \/ AssignWrite(r) \/ UnassignWrite(r)

Next ==
    \/ \E r \in Reqs : Arrive(r) \/ Step(r) \/ Abort(r)
    \/ \E u \in Users : AccessExpire(u)

Spec == Init /\ [][Next]_vars

\* Pending continuations run and Redis removes keys whose TTL is over; no one
\* has to send a request.
Fairness == /\ \A r \in Reqs : WF_vars(Step(r))
            /\ \A u \in Users : WF_vars(AccessExpire(u))

FairSpec == Spec /\ Fairness

----------------------------------------------------------------------------
(* Properties *)

\* A request holds what its remaining steps use, and no role that the checks
\* it has passed exclude.
HoldsInputs(q) ==
    /\ q.at # "idle" => q.method # "none" /\ q.caller \in Users
    /\ q.at # "idle" /\ q.method # "remove" => q.target \in Users
    /\ q.method \in {"assignMember", "unassignMember"} => q.card \in Cards
    /\ q.method \in {"addMember", "updateMemberRole"} => q.newRole \in Roles
    /\ q.method = "join" => /\ q.at \in {"run", "write"}
                            /\ q.at = "write" => q.newRole \in JoinRoles
    /\ q.at = "readCaller" => q.method \in {"updateMemberRole", "removeMember"}
    /\ q.at = "readCards" => q.method \in {"removeMember", "leaveBoard"}
    /\ q.method \in {"addMember", "updateMemberRole"} /\ q.at \in {"readCaller", "write"}
         => q.newRole # "OWNER"
WellFormed == {q \in Request : HoldsInputs(q)}

\* Every variable keeps its type.
TypeOK ==
    /\ ownerId \in Users \cup {None}
    /\ role \in [Users -> Roles \cup {None}]
    /\ assignees \in [Cards -> SUBSET Users]
    /\ access \in [Users -> Access]
    /\ req \in [Reqs -> WellFormed]
    /\ held \in [Users -> 0..4]
    /\ owners \subseteq Users

\* Whatever the cache holds and however its fills race the invalidations, a
\* handler runs only for a user who has had a sufficient role on this board at
\* some time: a stale entry can delay a revocation, never invent a right.
AdmittedHadRole ==
    \A r \in Reqs : req[r].at \notin {"idle", "cacheGet", "readBoard", "fill"}
                    /\ req[r].method # "join" =>
        held[req[r].caller] >= RoleLevel[Required[req[r].method]]

\* While invites do not carry it, the role OWNER is only in rows of users that
\* the board was handed to, however transfers and role updates interleave.
OwnerRowsWereOwners == \A u \in Users : role[u] = "OWNER" => u \in owners

\* A deleted board has no member and no assignment, and none comes back from
\* requests that passed their checks before the deletion.
DeletedBoardIsEmpty ==
    ~Exists => /\ \A u \in Users : role[u] = None
               /\ \A c \in Cards : assignees[c] = {}

\* Handled one request at a time and without failures, the only OWNER row is
\* that of Board.ownerId.
OneOwner == Exists => \A u \in Users : role[u] = "OWNER" <=> u = ownerId

\* Handled one request at a time, only members are assigned to cards.
AssigneesAreMembers == \A c \in Cards : \A u \in assignees[c] : role[u] # None

\* When the members stop changing, every cached access becomes the current one:
\* joins, which do not invalidate, and fills that raced an invalidation are
\* made good by the TTL.
AccessHeals ==
    <>[][FALSE]_<<ownerId, role>> =>
        <>[](Exists => \A u \in Users : access[u] \in {NoAccess, Current(u)})
=============================================================================

---------------------------- MODULE Invitations ----------------------------
(***************************************************************************)
(* The ways into one board that do not go through addMember: invitations   *)
(* by e-mail (InvitesService) and the board's invite link with its join    *)
(* requests (InviteLinksService).  No operation of the two services runs   *)
(* in a transaction: every statement is a step of its own here, and any    *)
(* other request may run between two of them.                              *)
(*                                                                         *)
(* A user stands for his e-mail address too, registered or not: somebody   *)
(* without an account is not a member, and accepts when he registers.  The *)
(* admins who send, revoke and decide are not among Users; BoardRolesGuard *)
(* is the subject of BoardMembership.  Mails and notifications follow the  *)
(* writes and are left out.                                                *)
(***************************************************************************)
EXTENDS Naturals, FiniteSets

CONSTANTS
    Reqs,      \* slots for requests in flight
    Users,     \* the people who may be let in
    Known,     \* those of them who are invited, ask or are added: the others
               \* only try the tokens of mails that were not sent to them
    Invites,   \* ids of invitations, a bound on the rows there are at once
    Links,     \* ids of invite links
    Offers,    \* the roles that are offered
    Apart,     \* whether invitations and the link are kept from being used at
               \* the same time: they share the table of members only, which
               \* AddMember and RemoveMember change at any time
    Failures,  \* whether a statement may fail or the process may die
    None

Roles == {"OWNER", "ADMIN", "MEMBER", "VIEWER"}
LinkRoles == Offers \ {"OWNER"}
Permissions == {"OPEN", "APPROVAL"}

ASSUME InvitationAssumption ==
    /\ Offers \subseteq Roles /\ LinkRoles # {}
    /\ Failures \in BOOLEAN /\ Apart \in BOOLEAN /\ Known \subseteq Users
    /\ None \notin Users \cup Invites \cup Links \cup Roles \cup Permissions

VARIABLES
    role,       \* BoardMember: the role of each user, or None
    invite,     \* BoardInvite: [state, to, role] of each id
    link,       \* BoardInviteLink, unique by board, or NoLink
    asked,      \* BoardJoinRequest of the link, by user: its status, or None
    req,        \* the requests in flight, by slot
    used,       \* history: how many times each invitation let its user in, up to 2
    torn,       \* history: invitations accepted by overlapping requests or by one that died
    crossed,    \* history: users to whom two invitations were sent at once
    letIn,      \* history: users let in by the decision on their present request
    contested,  \* history: users on whose request decisions overlapped or died
    offered     \* history: the pairs <<user, role>> that were offered

tokens == <<invite, used, torn, crossed>>
requests == <<asked, letIn, contested>>
links == <<link, requests>>
vars == <<role, tokens, links, req, offered>>

\* "expired": still in the table, its expiresAt has passed.
NoInvite == [state |-> "none", to |-> None, role |-> None]
Invite == [state: {"pending", "expired", "accepted"}, to: Users, role: Roles]
Link == [id: Links, role: LinkRoles, permission: Permissions]
NoLink == [id |-> None, role |-> None, permission |-> None]
Statuses == {"PENDING", "APPROVED", "REJECTED"}

MailOps == {"invite", "revoke", "accept"}
LinkOps == {"newLink", "setLink", "dropLink", "join", "decide"}
Stages == {"idle", "read", "request", "member", "clear", "insert", "ask",
           "write", "mark"}
Request == [op: {"none"} \cup MailOps \cup LinkOps, at: Stages, user: Users \cup {None},
            token: Invites \cup Links \cup {None}, role: Roles \cup {None},
            permission: Permissions \cup {None}, status: Statuses \cup {None}]
Idle == [op |-> "none", at |-> "idle", user |-> None, token |-> None,
         role |-> None, permission |-> None, status |-> None]

Free(r) == req[r] = Idle
At(r, op, stage) == req[r].op = op /\ req[r].at = stage
Become(r, rec) == req' = [req EXCEPT ![r] = rec]
Finish(r) == Become(r, Idle)
Goto(r, stage) == Become(r, [req[r] EXCEPT !.at = stage])

\* Another request past its first read that works on the same invitation, or
\* on the same join request.
Rival(r, op) == \E q \in Reqs \ {r} : /\ req[q].op = op
                                      /\ req[q].at \in {"member", "insert", "mark"}
                                      /\ req[q].user = req[r].user
                                      /\ req[q].token = req[r].token

----------------------------------------------------------------------------
(* Arrivals, one per controller.  The role and the permission that an admin  *)
(* asks for are chosen in the step that writes them.                         *)

Arrive(r, rec) ==
    /\ Free(r)
    /\ Apart => IF rec.op \in MailOps
                THEN link = NoLink /\ \A q \in Reqs : req[q].op \notin LinkOps
                ELSE /\ \A i \in Invites : invite[i] = NoInvite
                     /\ \A q \in Reqs : req[q].op \notin MailOps
    /\ Become(r, rec)
    /\ UNCHANGED <<role, tokens, links, offered>>

\* A new id is one that no row has and no request names: the id of a row that
\* is gone and forgotten is used again.
Named(id) == \E q \in Reqs : req[q].token = id

ArriveInvitation(r) ==
    \/ \E u \in Known :
         Arrive(r, [Idle EXCEPT !.op = "invite", !.at = "member", !.user = u])
    \/ \E i \in Invites :
         Arrive(r, [Idle EXCEPT !.op = "revoke", !.at = "read", !.token = i])

ArriveLink(r) ==
    \/ Arrive(r, [Idle EXCEPT !.op = "newLink", !.at = "clear"])
    \/ Arrive(r, [Idle EXCEPT !.op = "setLink", !.at = "read"])
    \/ Arrive(r, [Idle EXCEPT !.op = "dropLink", !.at = "read"])
    \/ \E u \in Users, s \in {"APPROVED", "REJECTED"} :
         /\ asked[u] # None
         /\ Arrive(r, [Idle EXCEPT !.op = "decide", !.at = "read", !.user = u,
                                   !.token = link.id, !.status = s])

\* Whoever has the mail may try the token.
ArriveAccept(r) ==
    \E u \in Users, i \in Invites :
       Arrive(r, [Idle EXCEPT !.op = "accept", !.at = "read", !.user = u, !.token = i])

ArriveJoin(r) ==
    \E u \in Known, l \in Links :
       Arrive(r, [Idle EXCEPT !.op = "join", !.at = "read", !.user = u, !.token = l])

----------------------------------------------------------------------------
(* Invitations by e-mail                                                     *)

\* findAllPending.
PendingTo(u) == {i \in Invites : /\ invite[i].state \in {"pending", "expired"}
                                 /\ invite[i].to = u}

\* Mutant: an accepted invitation is still good.
Valid_Accepted(i) == invite[i].state \in {"pending", "accepted"}
\* getValidInvite.
Valid(i) == invite[i].state = "pending"

\* Mutant: the invitation is good for any account.
MeantFor_Anybody(i, u) == TRUE
MeantFor(i, u) == invite[i].to = u

InviteCheck(r) ==
    /\ At(r, "invite", "member")
    /\ IF role[req[r].user] = None THEN Goto(r, "clear") ELSE Finish(r)
    /\ UNCHANGED <<role, tokens, links, offered>>

\* Mutant: the earlier invitations are kept.
Cleared_None(u) == {}
\* deleteMany.
Cleared(u) == PendingTo(u)

\* The history of an invitation ends with its row.
Forget(gone) == /\ used' = [i \in Invites |-> IF i \in gone THEN 0 ELSE used[i]]
                /\ torn' = torn \ gone

InviteClear(r) ==
    /\ At(r, "invite", "clear")
    /\ invite' = [i \in Invites |-> IF i \in Cleared(req[r].user)
                                    THEN NoInvite ELSE invite[i]]
    /\ Forget(Cleared(req[r].user))
    /\ crossed' = crossed \ {req[r].user}
    /\ Goto(r, "insert")
    /\ UNCHANGED <<role, links, offered>>

InviteInsert(r) ==
    /\ At(r, "invite", "insert")
    /\ \E i \in Invites, ro \in Offers :
         /\ invite[i] = NoInvite /\ ~Named(i)
         /\ invite' = [invite EXCEPT ![i] = [state |-> "pending", to |-> req[r].user,
                                             role |-> ro]]
         /\ offered' = offered \cup {<<req[r].user, ro>>}
    /\ crossed' = IF \E q \in Reqs \ {r} : At(q, "invite", "insert") /\ req[q].user = req[r].user
                  THEN crossed \cup {req[r].user} ELSE crossed
    /\ Finish(r)
    /\ UNCHANGED <<role, used, torn, links>>

RevokeRead(r) ==
    /\ At(r, "revoke", "read")
    /\ IF invite[req[r].token] # NoInvite THEN Goto(r, "write") ELSE Finish(r)
    /\ UNCHANGED <<role, tokens, links, offered>>

\* A delete that finds no row throws; the row is gone either way.
RevokeDelete(r) ==
    /\ At(r, "revoke", "write")
    /\ invite' = [invite EXCEPT ![req[r].token] = NoInvite]
    /\ Forget({req[r].token})
    /\ Finish(r)
    /\ UNCHANGED <<role, crossed, links, offered>>

AcceptRead(r) ==
    /\ At(r, "accept", "read")
    /\ IF Valid(req[r].token) /\ MeantFor(req[r].token, req[r].user)
       THEN /\ Become(r, [req[r] EXCEPT !.at = "member", !.role = invite[req[r].token].role])
            /\ torn' = IF Rival(r, "accept") THEN torn \cup {req[r].token} ELSE torn
       ELSE Finish(r) /\ UNCHANGED torn
    /\ UNCHANGED <<role, invite, used, crossed, links, offered>>

\* Mutant: an upsert, which makes an invitation of nothing.
AcceptMark_Upsert(r) ==
    /\ At(r, "accept", "mark")
    /\ invite' = [invite EXCEPT ![req[r].token].state = "accepted"]
    /\ Finish(r)
    /\ UNCHANGED <<role, used, torn, crossed, links, offered>>
\* An update that finds no row throws: the member stays, the caller is told
\* that it failed.
AcceptMark(r) ==
    /\ At(r, "accept", "mark")
    /\ invite' = [invite EXCEPT ![req[r].token].state =
                    IF @ = "none" THEN @ ELSE "accepted"]
    /\ Finish(r)
    /\ UNCHANGED <<role, used, torn, crossed, links, offered>>

\* INVITE_TTL_MS have passed.
InviteExpires ==
    /\ \E i \in Invites :
         /\ invite[i].state = "pending"
         /\ invite' = [invite EXCEPT ![i].state = "expired"]
    /\ UNCHANGED <<role, used, torn, crossed, links, req, offered>>

----------------------------------------------------------------------------
(* The invite link and its join requests                                     *)

\* The rows of the join requests go with the link they were made through.
Unlinked == /\ link' = NoLink
            /\ asked' = [u \in Users |-> None]
            /\ letIn' = {} /\ contested' = {}

LinkClear(r) ==
    /\ At(r, "newLink", "clear")
    /\ Unlinked
    /\ Goto(r, "insert")
    /\ UNCHANGED <<role, tokens, offered>>

\* The insert fails when another one has taken the place: boardId is unique.
\* The role of a link is not OWNER.
LinkInsert(r) ==
    /\ At(r, "newLink", "insert")
    /\ IF link = NoLink
       THEN \E l \in Links, ro \in LinkRoles, p \in Permissions :
              /\ ~Named(l)
              /\ link' = [id |-> l, role |-> ro, permission |-> p]
              /\ offered' = offered \cup (Known \X {ro})
       ELSE UNCHANGED <<link, offered>>
    /\ Finish(r)
    /\ UNCHANGED <<role, tokens, requests>>

\* getLinkForBoard, in update and revoke.
LinkRead(r) ==
    /\ req[r].op \in {"setLink", "dropLink"} /\ req[r].at = "read"
    /\ IF link # NoLink
       THEN Become(r, [req[r] EXCEPT !.at = "write", !.token = link.id])
       ELSE Finish(r)
    /\ UNCHANGED <<role, tokens, links, offered>>

\* The update names the link that was read.  It may leave either field as it is.
LinkUpdate(r) ==
    /\ At(r, "setLink", "write")
    /\ IF link.id = req[r].token
       THEN \E ro \in LinkRoles, p \in Permissions :
              /\ link' = [link EXCEPT !.role = ro, !.permission = p]
              /\ offered' = offered \cup (Known \X {ro})
       ELSE UNCHANGED <<link, offered>>
    /\ Finish(r)
    /\ UNCHANGED <<role, tokens, requests>>

\* The delete names the board: it takes whatever link there is by now.
LinkDelete(r) ==
    /\ At(r, "dropLink", "write")
    /\ Unlinked
    /\ Finish(r)
    /\ UNCHANGED <<role, tokens, offered>>

\* The request goes on with the role and the permission read here.
JoinRead(r) ==
    /\ At(r, "join", "read")
    /\ IF link.id = req[r].token
       THEN Become(r, [req[r] EXCEPT !.at = "member", !.role = link.role,
                                     !.permission = link.permission])
       ELSE Finish(r)
    /\ UNCHANGED <<role, tokens, links, offered>>

\* The upsert; its insert fails when the link is gone.
JoinAsk(r) ==
    /\ At(r, "join", "ask")
    /\ IF link.id = req[r].token
       THEN /\ asked' = [asked EXCEPT ![req[r].user] = "PENDING"]
            /\ letIn' = letIn \ {req[r].user}
       ELSE UNCHANGED <<asked, letIn>>
    /\ Finish(r)
    /\ UNCHANGED <<role, tokens, link, contested, offered>>

DecideRead(r) ==
    /\ At(r, "decide", "read")
    /\ IF link.id = req[r].token
       THEN Become(r, [req[r] EXCEPT !.at = "request", !.role = link.role])
       ELSE Finish(r)
    /\ UNCHANGED <<role, tokens, links, offered>>

\* Mutant: a request that was decided can be decided again.
Open_Any(u) == asked[u] # None
Open(u) == asked[u] = "PENDING"

DecideRequest(r) ==
    /\ At(r, "decide", "request")
    /\ IF link.id = req[r].token /\ Open(req[r].user)
       THEN /\ Goto(r, IF req[r].status = "APPROVED" THEN "member" ELSE "mark")
            /\ contested' = IF Rival(r, "decide") THEN contested \cup {req[r].user}
                            ELSE contested
       ELSE Finish(r) /\ UNCHANGED contested
    /\ UNCHANGED <<role, tokens, link, asked, letIn, offered>>

\* An update that finds no row throws.
DecideMark(r) ==
    /\ At(r, "decide", "mark")
    /\ asked' = IF link.id = req[r].token
                THEN [asked EXCEPT ![req[r].user] = req[r].status] ELSE asked
    /\ Finish(r)
    /\ UNCHANGED <<role, tokens, link, letIn, contested, offered>>

----------------------------------------------------------------------------
(* Membership: the check and the insert that accept, join and decide share   *)

MemberCheck(r) ==
    /\ req[r].op \in {"accept", "join", "decide"} /\ req[r].at = "member"
    /\ LET member == role[req[r].user] # None
       IN  CASE req[r].op # "join" -> Goto(r, IF member THEN "mark" ELSE "insert")
             [] req[r].op = "join" /\ member -> Finish(r)
             [] OTHER -> Goto(r, IF req[r].permission = "OPEN" THEN "insert" ELSE "ask")
    /\ UNCHANGED <<role, tokens, links, offered>>

\* The key (boardId, userId) is unique: the insert fails, and the request with
\* it, when the user has become a member since the check.
InsertMember(r) ==
    /\ req[r].op \in {"accept", "join", "decide"} /\ req[r].at = "insert"
    /\ LET u == req[r].user
       IN  IF role[u] # None
           THEN Finish(r) /\ UNCHANGED <<role, used, letIn>>
           ELSE /\ role' = [role EXCEPT ![u] = req[r].role]
                /\ IF req[r].op = "join" THEN Finish(r) ELSE Goto(r, "mark")
                /\ used' = IF /\ req[r].op = "accept" /\ used[req[r].token] < 2
                              /\ invite[req[r].token] # NoInvite
                           THEN [used EXCEPT ![req[r].token] = @ + 1] ELSE used
                /\ letIn' = IF req[r].op = "decide" /\ link.id = req[r].token
                            THEN letIn \cup {u} ELSE letIn
    /\ UNCHANGED <<invite, torn, crossed, link, asked, contested, offered>>

\* BoardsService.addMember and removeMember, in one step each.
AddMember(u) ==
    /\ role[u] = None
    /\ \E ro \in LinkRoles :
         /\ role' = [role EXCEPT ![u] = ro]
         /\ offered' = offered \cup {<<u, ro>>}
    /\ UNCHANGED <<tokens, links, req>>

RemoveMember(u) ==
    /\ role[u] # None
    /\ role' = [role EXCEPT ![u] = None]
    /\ UNCHANGED <<tokens, links, req, offered>>

\* A statement fails or the process dies: what was written stays.
Abort(r) ==
    /\ Failures /\ ~Free(r)
    /\ torn' = IF At(r, "accept", "mark") /\ invite[req[r].token] # NoInvite
               THEN torn \cup {req[r].token} ELSE torn
    /\ contested' = IF At(r, "decide", "mark") /\ req[r].token = link.id
                    THEN contested \cup {req[r].user} ELSE contested
    /\ Finish(r)
    /\ UNCHANGED <<role, invite, used, crossed, link, asked, letIn, offered>>

----------------------------------------------------------------------------
Init ==
    /\ role = [u \in Users |-> None]
    /\ invite = [i \in Invites |-> NoInvite]
    /\ torn = {} /\ crossed = {} /\ letIn = {} /\ contested = {}
    /\ link = NoLink
    /\ asked = [u \in Users |-> None]
    /\ req = [r \in Reqs |-> Idle]
    /\ used = [i \in Invites |-> 0]
    /\ offered = {}

Step(r) ==
    \/ ArriveInvitation(r) \/ ArriveLink(r) \/ ArriveAccept(r) \/ ArriveJoin(r)
    \/ InviteCheck(r) \/ InviteClear(r) \/ InviteInsert(r)
    \/ RevokeRead(r) \/ RevokeDelete(r) \/ AcceptRead(r) \/ AcceptMark(r)
    \/ LinkClear(r) \/ LinkInsert(r) \/ LinkRead(r) \/ LinkUpdate(r) \/ LinkDelete(r)
    \/ JoinRead(r) \/ JoinAsk(r)
    \/ DecideRead(r) \/ DecideRequest(r) \/ DecideMark(r)
    \/ MemberCheck(r) \/ InsertMember(r) \/ Abort(r)

Next == \/ \E r \in Reqs : Step(r)
        \/ \E u \in Known : AddMember(u) \/ RemoveMember(u)
        \/ InviteExpires

Spec == Init /\ [][Next]_vars

----------------------------------------------------------------------------
(* Properties                                                                *)

TypeOK ==
    /\ role \in [Users -> Roles \cup {None}]
    /\ invite \in [Invites -> Invite \cup {NoInvite}]
    /\ link \in Link \cup {NoLink}
    /\ asked \in [Users -> Statuses \cup {None}]
    /\ link = NoLink => \A u \in Users : asked[u] = None
    /\ req \in [Reqs -> Request]
    /\ used \in [Invites -> 0..2] /\ torn \subseteq Invites
    /\ crossed \subseteq Users /\ letIn \subseteq Users /\ contested \subseteq Users
    /\ offered \subseteq Users \X Roles

\* An invitation lets its user in once: after he was removed from the board he
\* does not come back with the same mail.  The exceptions are two accepts of it
\* in flight at once, and one that dies between the insert and the update.
OneJoinPerInvite == \A i \in Invites : i \notin torn => used[i] <= 1

\* At most one invitation per e-mail is pending, unless two were being sent at
\* once; the next one to be sent replaces both.
OneLivePerEmail == \A u \in Users : u \notin crossed => Cardinality(PendingTo(u)) <= 1

\* A request that ends as REJECTED let nobody in, unless two decisions on it
\* overlapped or an approval died after its insert.
DecisionsAgree == \A u \in letIn \ contested : asked[u] # "REJECTED"

\* Nobody holds a role that was not offered to him, by an invitation to his
\* address, by a link or by an admin, whatever has been revoked, replaced or
\* changed between the read of the offer and the insert.
RolesWereOffered == \A u \in Users : role[u] # None => <<u, role[u]>> \in offered

=============================================================================

------------------------- MODULE InvitationsProofs -------------------------
(* Theorems about Invitations: what invitations and join requests let users *)
(* in to, and how often, for any number of users, invitations, links and    *)
(* requests in flight.                                                      *)
EXTENDS Invitations, TLAPS, FiniteSetTheorems

----------------------------------------------------------------------------
(* Types                                                                     *)

\* A request names what its operation works on.
GoodReq ==
    {q \in Request :
       /\ q.op \in {"revoke", "accept"} => q.token \in Invites
       /\ q.op \in {"join", "decide"} => q.token \in Links
       /\ q.op \in {"invite", "accept", "join", "decide"} => q.user \in Users
       /\ q.op = "decide" => q.status \in Statuses
       /\ q.op = "setLink" /\ q.at = "write" => q.token \in Links}

TypeInv == TypeOK /\ req \in [Reqs -> GoodReq]

LEMMA IdleGood == Idle \in GoodReq
BY DEF Idle, GoodReq, Request, Stages

LEMMA BecomeGood ==
  ASSUME TypeInv, NEW r \in Reqs, NEW q \in GoodReq, Become(r, q)
  PROVE  req' \in [Reqs -> GoodReq] /\ req' = [req EXCEPT ![r] = q]
BY DEF TypeInv, Become

LEMMA FinishGood ==
  ASSUME TypeInv, NEW r \in Reqs, Finish(r)
  PROVE  req' \in [Reqs -> GoodReq] /\ req' = [req EXCEPT ![r] = Idle]
BY IdleGood DEF TypeInv, Become, Finish

LEMMA ReqType ==
  ASSUME TypeInv, NEW r \in Reqs
  PROVE  req[r] \in GoodReq /\ req[r] \in Request
BY DEF TypeInv, GoodReq

LEMMA GotoGood ==
  ASSUME TypeInv, NEW r \in Reqs, NEW stage \in Stages, Goto(r, stage),
         req[r].op = "setLink" => stage # "write"
  PROVE  /\ req' \in [Reqs -> GoodReq]
         /\ [req[r] EXCEPT !.at = stage] \in GoodReq
         /\ req' = [req EXCEPT ![r] = [req[r] EXCEPT !.at = stage]]
<1>1. [req[r] EXCEPT !.at = stage] \in GoodReq
  BY ReqType DEF GoodReq, Request
<1> QED
  BY <1>1, BecomeGood DEF Goto

LEMMA InviteType ==
  ASSUME TypeOK, NEW i \in Invites
  PROVE  /\ invite[i] = NoInvite \/ invite[i] \in Invite
         /\ invite[i].state \in {"none", "pending", "expired", "accepted"}
         /\ invite[i] # NoInvite =>
               /\ invite[i].state # "none" /\ invite[i].to \in Users
               /\ invite[i].role \in Roles
BY DEF TypeOK, NoInvite, Invite

LEMMA LinkType ==
  ASSUME TypeOK
  PROVE  /\ link # NoLink => /\ link \in Link /\ link.id \in Links
                             /\ link.role \in LinkRoles /\ link.permission \in Permissions
         /\ link.role \in Roles \cup {None} /\ link.permission \in Permissions \cup {None}
         /\ link.id \in Links \cup {None}
         /\ link.id \in Links => link # NoLink
BY InvitationAssumption DEF TypeOK, NoLink, Link, LinkRoles

LEMMA TypeInit == Init => TypeInv
<1> SUFFICES ASSUME Init PROVE TypeInv
  OBVIOUS
<1>1. req \in [Reqs -> GoodReq] /\ req \in [Reqs -> Request]
  BY IdleGood DEF Init, GoodReq
<1> QED
  BY <1>1 DEF Init, TypeInv, TypeOK, Roles, Statuses

\* The step of a request keeps the types.
LEMMA ArriveType ==
  ASSUME TypeInv, NEW r \in Reqs,
         ArriveInvitation(r) \/ ArriveLink(r) \/ ArriveAccept(r) \/ ArriveJoin(r)
  PROVE  TypeInv'
<1>1. ASSUME NEW q \in GoodReq, Arrive(r, q) PROVE TypeInv'
  <2>1. req' \in [Reqs -> GoodReq]
    BY <1>1, BecomeGood DEF Arrive
  <2>2. req' \in [Reqs -> Request]
    BY <2>1 DEF GoodReq
  <2> QED
    BY <1>1, <2>1, <2>2 DEF Arrive, tokens, links, requests, TypeInv, TypeOK
<1>2. CASE ArriveInvitation(r)
  <2>1. CASE \E u \in Known :
               Arrive(r, [Idle EXCEPT !.op = "invite", !.at = "member", !.user = u])
    <3>1. PICK u \in Known : Arrive(r, [Idle EXCEPT !.op = "invite", !.at = "member", !.user = u])
      BY <2>1
    <3>2. [Idle EXCEPT !.op = "invite", !.at = "member", !.user = u] \in GoodReq
      BY InvitationAssumption DEF Idle, GoodReq, Request, Stages, MailOps
    <3> QED
      BY <1>1, <3>1, <3>2
  <2>2. CASE \E i \in Invites :
               Arrive(r, [Idle EXCEPT !.op = "revoke", !.at = "read", !.token = i])
    <3>1. PICK i \in Invites : Arrive(r, [Idle EXCEPT !.op = "revoke", !.at = "read", !.token = i])
      BY <2>2
    <3>2. [Idle EXCEPT !.op = "revoke", !.at = "read", !.token = i] \in GoodReq
      BY DEF Idle, GoodReq, Request, Stages, MailOps
    <3> QED
      BY <1>1, <3>1, <3>2
  <2> QED
    BY <1>2, <2>1, <2>2 DEF ArriveInvitation
<1>3. CASE ArriveLink(r)
  <2>1. CASE Arrive(r, [Idle EXCEPT !.op = "newLink", !.at = "clear"])
    <3>1. [Idle EXCEPT !.op = "newLink", !.at = "clear"] \in GoodReq
      BY DEF Idle, GoodReq, Request, Stages, LinkOps
    <3> QED
      BY <1>1, <2>1, <3>1
  <2>2. CASE Arrive(r, [Idle EXCEPT !.op = "setLink", !.at = "read"])
    <3>1. [Idle EXCEPT !.op = "setLink", !.at = "read"] \in GoodReq
      BY DEF Idle, GoodReq, Request, Stages, LinkOps
    <3> QED
      BY <1>1, <2>2, <3>1
  <2>3. CASE Arrive(r, [Idle EXCEPT !.op = "dropLink", !.at = "read"])
    <3>1. [Idle EXCEPT !.op = "dropLink", !.at = "read"] \in GoodReq
      BY DEF Idle, GoodReq, Request, Stages, LinkOps
    <3> QED
      BY <1>1, <2>3, <3>1
  <2>4. CASE \E u \in Users, s \in {"APPROVED", "REJECTED"} :
               /\ asked[u] # None
               /\ Arrive(r, [Idle EXCEPT !.op = "decide", !.at = "read", !.user = u,
                                         !.token = link.id, !.status = s])
    <3>1. PICK u \in Users, s \in {"APPROVED", "REJECTED"} :
               /\ asked[u] # None
               /\ Arrive(r, [Idle EXCEPT !.op = "decide", !.at = "read", !.user = u,
                                         !.token = link.id, !.status = s])
      BY <2>4
    <3>2. link.id \in Links
      BY <3>1, LinkType DEF TypeInv, TypeOK
    <3>3. [Idle EXCEPT !.op = "decide", !.at = "read", !.user = u,
                       !.token = link.id, !.status = s] \in GoodReq
      BY <3>2 DEF Idle, GoodReq, Request, Stages, LinkOps, Statuses
    <3> QED
      BY <1>1, <3>1, <3>3
  <2> QED
    BY <1>3, <2>1, <2>2, <2>3, <2>4 DEF ArriveLink
<1>4. CASE ArriveAccept(r)
  <2>1. PICK u \in Users, i \in Invites :
           Arrive(r, [Idle EXCEPT !.op = "accept", !.at = "read", !.user = u, !.token = i])
    BY <1>4 DEF ArriveAccept
  <2>2. [Idle EXCEPT !.op = "accept", !.at = "read", !.user = u, !.token = i] \in GoodReq
    BY DEF Idle, GoodReq, Request, Stages, MailOps
  <2> QED
    BY <1>1, <2>1, <2>2
<1>5. CASE ArriveJoin(r)
  <2>1. PICK u \in Known, l \in Links :
           Arrive(r, [Idle EXCEPT !.op = "join", !.at = "read", !.user = u, !.token = l])
    BY <1>5 DEF ArriveJoin
  <2>2. [Idle EXCEPT !.op = "join", !.at = "read", !.user = u, !.token = l] \in GoodReq
    BY InvitationAssumption DEF Idle, GoodReq, Request, Stages, LinkOps
  <2> QED
    BY <1>1, <2>1, <2>2
<1> QED
  BY <1>2, <1>3, <1>4, <1>5

LEMMA MailStepType ==
  ASSUME TypeInv, NEW r \in Reqs,
         \/ InviteCheck(r) \/ InviteClear(r) \/ InviteInsert(r)
         \/ RevokeRead(r) \/ RevokeDelete(r) \/ AcceptRead(r) \/ AcceptMark(r)
  PROVE  TypeInv'
<1> USE DEF tokens, links, requests
<1>0. /\ TypeOK /\ req[r] \in Request
      /\ invite \in [Invites -> Invite \cup {NoInvite}] /\ used \in [Invites -> 0..2]
  BY ReqType DEF TypeInv, TypeOK
<1>1. ASSUME req' \in [Reqs -> GoodReq], UNCHANGED <<role, link, asked, letIn, contested>>,
             invite' \in [Invites -> Invite \cup {NoInvite}], used' \in [Invites -> 0..2],
             torn' \subseteq Invites, crossed' \subseteq Users, offered' \subseteq Users \X Roles
      PROVE  TypeInv'
  <2>1. req' \in [Reqs -> Request]
    BY <1>1 DEF GoodReq
  <2> QED
    BY <1>0, <1>1, <2>1 DEF TypeInv, TypeOK
<1>2. ASSUME req' \in [Reqs -> GoodReq], UNCHANGED <<role, tokens, links, offered>>
      PROVE  TypeInv'
  BY <1>0, <1>1, <1>2 DEF TypeOK
<1>3. CASE InviteCheck(r)
  <2>1. req' \in [Reqs -> GoodReq]
    BY <1>3, GotoGood, FinishGood DEF InviteCheck, Stages
  <2> QED
    BY <1>2, <1>3, <2>1 DEF InviteCheck
<1>4. CASE InviteClear(r)
  <2>1. req' \in [Reqs -> GoodReq]
    BY <1>4, GotoGood DEF InviteClear, Stages
  <2>2. invite' \in [Invites -> Invite \cup {NoInvite}]
    BY <1>0, <1>4 DEF InviteClear
  <2>3. used' \in [Invites -> 0..2] /\ torn' \subseteq Invites /\ crossed' \subseteq Users
    BY <1>0, <1>4 DEF InviteClear, Forget, TypeOK
  <2> QED
    BY <1>0, <1>1, <1>4, <2>1, <2>2, <2>3 DEF InviteClear, TypeOK
<1>5. CASE InviteInsert(r)
  <2>1. req' \in [Reqs -> GoodReq] /\ req[r].user \in Users
    BY <1>5, FinishGood, ReqType DEF InviteInsert, At, GoodReq
  <2>2. PICK i \in Invites, ro \in Offers :
           /\ invite' = [invite EXCEPT ![i] = [state |-> "pending", to |-> req[r].user, role |-> ro]]
           /\ offered' = offered \cup {<<req[r].user, ro>>}
    BY <1>5 DEF InviteInsert
  <2>3. ro \in Roles
    BY InvitationAssumption
  <2>4. [state |-> "pending", to |-> req[r].user, role |-> ro] \in Invite
    BY <2>1, <2>3 DEF Invite
  <2>5. invite' \in [Invites -> Invite \cup {NoInvite}]
    BY <1>0, <2>2, <2>4
  <2>6. offered' \subseteq Users \X Roles /\ crossed' \subseteq Users
    BY <1>0, <1>5, <2>1, <2>2, <2>3 DEF InviteInsert, TypeOK
  <2> QED
    BY <1>0, <1>1, <1>5, <2>1, <2>5, <2>6 DEF InviteInsert, TypeOK
<1>6. CASE RevokeRead(r)
  <2>1. req' \in [Reqs -> GoodReq]
    BY <1>6, GotoGood, FinishGood DEF RevokeRead, At, Stages
  <2> QED
    BY <1>2, <1>6, <2>1 DEF RevokeRead
<1>7. CASE RevokeDelete(r)
  <2>1. req' \in [Reqs -> GoodReq]
    BY <1>7, FinishGood DEF RevokeDelete
  <2>2. invite' \in [Invites -> Invite \cup {NoInvite}]
    BY <1>0, <1>7 DEF RevokeDelete
  <2>3. used' \in [Invites -> 0..2] /\ torn' \subseteq Invites
    BY <1>0, <1>7 DEF RevokeDelete, Forget, TypeOK
  <2> QED
    BY <1>0, <1>1, <1>7, <2>1, <2>2, <2>3 DEF RevokeDelete, TypeOK
<1>8. CASE AcceptRead(r)
  <2>1. req[r].token \in Invites /\ req[r].op = "accept"
    BY <1>8, ReqType DEF AcceptRead, At, GoodReq
  <2>2. req' \in [Reqs -> GoodReq]
    <3>1. CASE Valid(req[r].token) /\ MeantFor(req[r].token, req[r].user)
      <4>1. invite[req[r].token].role \in Roles
        BY <1>0, <2>1, <3>1, InviteType DEF Valid, NoInvite
      <4>2. [req[r] EXCEPT !.at = "member", !.role = invite[req[r].token].role] \in GoodReq
        BY <2>1, <4>1, ReqType DEF GoodReq, Request, Stages
      <4> QED
        BY <1>8, <3>1, <4>2, BecomeGood DEF AcceptRead
    <3>2. CASE ~(Valid(req[r].token) /\ MeantFor(req[r].token, req[r].user))
      BY <1>8, <3>2, FinishGood DEF AcceptRead
    <3> QED
      BY <3>1, <3>2
  <2>3. torn' \subseteq Invites
    BY <1>0, <1>8, <2>1 DEF AcceptRead, TypeOK
  <2> QED
    BY <1>0, <1>1, <1>8, <2>2, <2>3 DEF AcceptRead, TypeOK
<1>9. CASE AcceptMark(r)
  <2>1. req' \in [Reqs -> GoodReq] /\ req[r].token \in Invites
    BY <1>9, FinishGood, ReqType DEF AcceptMark, At, GoodReq
  <2>2. invite' = [invite EXCEPT ![req[r].token].state = IF @ = "none" THEN @ ELSE "accepted"]
    BY <1>9 DEF AcceptMark
  <2>3. invite' \in [Invites -> Invite \cup {NoInvite}]
    <3>1. CASE invite[req[r].token] = NoInvite
      <4>1. invite' = [invite EXCEPT ![req[r].token] = [NoInvite EXCEPT !.state = "none"]]
        BY <2>2, <3>1 DEF NoInvite
      <4>2. [NoInvite EXCEPT !.state = "none"] = NoInvite
        BY DEF NoInvite
      <4> QED
        BY <1>0, <2>1, <4>1, <4>2
    <3>2. CASE invite[req[r].token] \in Invite
      <4>1. invite' = [invite EXCEPT ![req[r].token] =
                         [invite[req[r].token] EXCEPT !.state = "accepted"]]
        BY <2>2, <3>2 DEF Invite
      <4>2. [invite[req[r].token] EXCEPT !.state = "accepted"] \in Invite
        BY <3>2 DEF Invite
      <4> QED
        BY <1>0, <2>1, <4>1, <4>2
    <3> QED
      BY <1>0, <2>1, <3>1, <3>2, InviteType
  <2> QED
    BY <1>0, <1>1, <1>9, <2>1, <2>3 DEF AcceptMark, TypeOK
<1> QED
  BY <1>3, <1>4, <1>5, <1>6, <1>7, <1>8, <1>9

LEMMA LinkStepType ==
  ASSUME TypeInv, NEW r \in Reqs,
         \/ LinkClear(r) \/ LinkInsert(r) \/ LinkRead(r) \/ LinkUpdate(r) \/ LinkDelete(r)
         \/ JoinRead(r) \/ JoinAsk(r)
         \/ DecideRead(r) \/ DecideRequest(r) \/ DecideMark(r)
  PROVE  TypeInv'
<1> USE DEF tokens, links, requests
<1>0. TypeOK /\ req[r] \in Request
  BY ReqType DEF TypeInv
<1>1. ASSUME req' \in [Reqs -> GoodReq], UNCHANGED <<role, tokens>>,
             link' \in Link \cup {NoLink}, asked' \in [Users -> Statuses \cup {None}],
             link' = NoLink => \A u \in Users : asked'[u] = None,
             letIn' \subseteq Users, contested' \subseteq Users, offered' \subseteq Users \X Roles
      PROVE  TypeInv'
  <2>1. req' \in [Reqs -> Request]
    BY <1>1 DEF GoodReq
  <2> QED
    BY <1>0, <1>1, <2>1 DEF TypeInv, TypeOK
<1>2. ASSUME req' \in [Reqs -> GoodReq], UNCHANGED <<role, tokens, links, offered>>
      PROVE  TypeInv'
  BY <1>0, <1>1, <1>2 DEF TypeOK
<1>3. ASSUME Unlinked
      PROVE  /\ link' \in Link \cup {NoLink} /\ asked' \in [Users -> Statuses \cup {None}]
             /\ \A u \in Users : asked'[u] = None
             /\ letIn' \subseteq Users /\ contested' \subseteq Users
  BY <1>3 DEF Unlinked
<1>4. CASE LinkClear(r)
  <2>1. req' \in [Reqs -> GoodReq]
    BY <1>4, GotoGood DEF LinkClear, At, Stages
  <2> QED
    BY <1>0, <1>1, <1>3, <1>4, <2>1 DEF LinkClear, TypeOK
<1>5. CASE LinkInsert(r)
  <2>1. req' \in [Reqs -> GoodReq] /\ UNCHANGED <<role, tokens, requests>>
    BY <1>5, FinishGood DEF LinkInsert
  <2>2. CASE link = NoLink
    <3>1. PICK l \in Links, ro \in LinkRoles, p \in Permissions :
             /\ link' = [id |-> l, role |-> ro, permission |-> p]
             /\ offered' = offered \cup (Known \X {ro})
      BY <1>5, <2>2 DEF LinkInsert
    <3>2. link' \in Link
      BY <3>1 DEF Link
    <3>3. Known \X {ro} \subseteq Users \X Roles
      BY InvitationAssumption DEF LinkRoles
    <3>4. link' # NoLink
      BY <3>1, InvitationAssumption DEF NoLink
    <3> QED
      BY <1>0, <1>1, <2>1, <3>1, <3>2, <3>3, <3>4 DEF TypeOK
  <2>3. CASE link # NoLink
    BY <1>2, <1>5, <2>1, <2>3 DEF LinkInsert
  <2> QED
    BY <2>2, <2>3
<1>6. CASE LinkRead(r)
  <2>1. req' \in [Reqs -> GoodReq]
    <3>1. CASE link # NoLink
      <4>1. link.id \in Links
        BY <1>0, <3>1, LinkType
      <4>2. [req[r] EXCEPT !.at = "write", !.token = link.id] \in GoodReq
        BY <1>6, <4>1, ReqType DEF GoodReq, Request, Stages, LinkRead
      <4> QED
        BY <1>6, <3>1, <4>2, BecomeGood DEF LinkRead
    <3>2. CASE link = NoLink
      BY <1>6, <3>2, FinishGood DEF LinkRead
    <3> QED
      BY <3>1, <3>2
  <2> QED
    BY <1>2, <1>6, <2>1 DEF LinkRead
<1>7. CASE LinkUpdate(r)
  <2>1. req' \in [Reqs -> GoodReq] /\ UNCHANGED <<role, tokens, requests>>
    BY <1>7, FinishGood DEF LinkUpdate
  <2>2. CASE link.id = req[r].token
    <3>0. link # NoLink /\ link \in Link
      BY <1>0, <1>7, <2>2, ReqType, LinkType DEF LinkUpdate, At, GoodReq
    <3>1. PICK ro \in LinkRoles, p \in Permissions :
             /\ link' = [link EXCEPT !.role = ro, !.permission = p]
             /\ offered' = offered \cup (Known \X {ro})
      BY <1>7, <2>2 DEF LinkUpdate
    <3>2. link' \in Link /\ link'.id = link.id
      BY <3>0, <3>1 DEF Link
    <3>3. Known \X {ro} \subseteq Users \X Roles
      BY InvitationAssumption DEF LinkRoles
    <3>4. link' # NoLink
      BY <3>0, <3>2, InvitationAssumption DEF NoLink, Link
    <3> QED
      BY <1>0, <1>1, <2>1, <3>1, <3>2, <3>3, <3>4 DEF TypeOK
  <2>3. CASE link.id # req[r].token
    BY <1>2, <1>7, <2>1, <2>3 DEF LinkUpdate
  <2> QED
    BY <2>2, <2>3
<1>8. CASE LinkDelete(r)
  <2>1. req' \in [Reqs -> GoodReq]
    BY <1>8, FinishGood DEF LinkDelete
  <2> QED
    BY <1>0, <1>1, <1>3, <1>8, <2>1 DEF LinkDelete, TypeOK
<1>9. CASE JoinRead(r)
  <2>1. req' \in [Reqs -> GoodReq]
    <3>1. CASE link.id = req[r].token
      <4>1. [req[r] EXCEPT !.at = "member", !.role = link.role,
                           !.permission = link.permission] \in GoodReq
        BY <1>0, <1>9, ReqType, LinkType, ZenonT(60)
           DEF GoodReq, Request, Stages, JoinRead, At
      <4> QED
        BY <1>9, <3>1, <4>1, BecomeGood DEF JoinRead
    <3>2. CASE link.id # req[r].token
      BY <1>9, <3>2, FinishGood DEF JoinRead
    <3> QED
      BY <3>1, <3>2
  <2> QED
    BY <1>2, <1>9, <2>1 DEF JoinRead
<1>10. CASE JoinAsk(r)
  <2>1. req' \in [Reqs -> GoodReq]
    BY <1>10, FinishGood DEF JoinAsk
  <2>2. CASE link.id = req[r].token
    <3>1. link # NoLink
      BY <1>0, <1>10, <2>2, ReqType, LinkType DEF JoinAsk, At, GoodReq
    <3>2. asked' \in [Users -> Statuses \cup {None}] /\ letIn' \subseteq Users
      BY <1>0, <1>10, <2>2 DEF JoinAsk, TypeOK, Statuses
    <3> QED
      BY <1>0, <1>1, <1>10, <2>1, <3>1, <3>2 DEF JoinAsk, TypeOK
  <2>3. CASE link.id # req[r].token
    BY <1>2, <1>10, <2>1, <2>3 DEF JoinAsk
  <2> QED
    BY <2>2, <2>3
<1>11. CASE DecideRead(r)
  <2>1. req' \in [Reqs -> GoodReq]
    <3>1. CASE link.id = req[r].token
      <4>1. [req[r] EXCEPT !.at = "request", !.role = link.role] \in GoodReq
        BY <1>0, <1>11, ReqType, LinkType DEF GoodReq, Request, Stages, DecideRead, At
      <4> QED
        BY <1>11, <3>1, <4>1, BecomeGood DEF DecideRead
    <3>2. CASE link.id # req[r].token
      BY <1>11, <3>2, FinishGood DEF DecideRead
    <3> QED
      BY <3>1, <3>2
  <2> QED
    BY <1>2, <1>11, <2>1 DEF DecideRead
<1>12. CASE DecideRequest(r)
  <2>1. req' \in [Reqs -> GoodReq]
    BY <1>12, GotoGood, FinishGood DEF DecideRequest, At, Stages
  <2>2. contested' \subseteq Users
    BY <1>0, <1>12, ReqType DEF DecideRequest, TypeOK, At, GoodReq
  <2> QED
    BY <1>0, <1>1, <1>12, <2>1, <2>2 DEF DecideRequest, TypeOK
<1>13. CASE DecideMark(r)
  <2>1. req' \in [Reqs -> GoodReq]
    BY <1>13, FinishGood DEF DecideMark
  <2>2. req[r].status \in Statuses /\ req[r].token \in Links
    BY <1>13, ReqType DEF DecideMark, At, GoodReq
  <2>3. asked' \in [Users -> Statuses \cup {None}]
    BY <1>0, <1>13, <2>2 DEF DecideMark, TypeOK
  <2>4. link' = NoLink => asked' = asked
    BY <1>0, <1>13, <2>2, LinkType DEF DecideMark
  <2> QED
    BY <1>0, <1>1, <1>13, <2>1, <2>3, <2>4 DEF DecideMark, TypeOK
<1> QED
  BY <1>4, <1>5, <1>6, <1>7, <1>8, <1>9, <1>10, <1>11, <1>12, <1>13

LEMMA MemberStepType ==
  ASSUME TypeInv, NEW r \in Reqs, MemberCheck(r) \/ InsertMember(r) \/ Abort(r)
  PROVE  TypeInv'
<1> USE DEF tokens, links, requests
<1>0. TypeOK /\ req[r] \in Request
  BY ReqType DEF TypeInv
<1>1. ASSUME req' \in [Reqs -> GoodReq],
             UNCHANGED <<invite, crossed, link, asked, offered>>,
             role' \in [Users -> Roles \cup {None}], used' \in [Invites -> 0..2],
             torn' \subseteq Invites, letIn' \subseteq Users, contested' \subseteq Users
      PROVE  TypeInv'
  <2>1. req' \in [Reqs -> Request]
    BY <1>1 DEF GoodReq
  <2> QED
    BY <1>0, <1>1, <2>1 DEF TypeInv, TypeOK
<1>2. CASE MemberCheck(r)
  <2>1. req' \in [Reqs -> GoodReq]
    BY <1>2, GotoGood, FinishGood DEF MemberCheck, Stages
  <2> QED
    BY <1>0, <1>1, <1>2, <2>1 DEF MemberCheck, TypeOK
<1>3. CASE InsertMember(r)
  <2>1. req' \in [Reqs -> GoodReq]
    BY <1>3, GotoGood, FinishGood DEF InsertMember, Stages
  <2>2. role' \in [Users -> Roles \cup {None}]
    BY <1>0, <1>3 DEF InsertMember, TypeOK, Request
  <2>3. used' \in [Invites -> 0..2]
    BY <1>0, <1>3 DEF InsertMember, TypeOK
  <2>4. letIn' \subseteq Users
    BY <1>0, <1>3, ReqType DEF InsertMember, TypeOK, GoodReq
  <2> QED
    BY <1>0, <1>1, <1>3, <2>1, <2>2, <2>3, <2>4 DEF InsertMember, TypeOK
<1>4. CASE Abort(r)
  <2>1. req' \in [Reqs -> GoodReq]
    BY <1>4, FinishGood DEF Abort
  <2>2. torn' \subseteq Invites /\ contested' \subseteq Users
    BY <1>0, <1>4, ReqType DEF Abort, TypeOK, At, GoodReq
  <2> QED
    BY <1>0, <1>1, <1>4, <2>1, <2>2 DEF Abort, TypeOK
<1> QED
  BY <1>2, <1>3, <1>4

LEMMA TypeStep == TypeInv /\ [Next]_vars => TypeInv'
<1> SUFFICES ASSUME TypeInv, [Next]_vars PROVE TypeInv'
  OBVIOUS
<1> USE DEF tokens, links, requests
<1>1. ASSUME NEW r \in Reqs, Step(r) PROVE TypeInv'
  BY <1>1, ArriveType, MailStepType, LinkStepType, MemberStepType DEF Step
<1>2. ASSUME NEW u \in Known, AddMember(u) PROVE TypeInv'
  <2>1. PICK ro \in LinkRoles :
           role' = [role EXCEPT ![u] = ro] /\ offered' = offered \cup {<<u, ro>>}
    BY <1>2 DEF AddMember
  <2>2. ro \in Roles /\ u \in Users
    BY InvitationAssumption DEF LinkRoles
  <2> QED
    BY <1>2, <2>1, <2>2 DEF AddMember, TypeInv, TypeOK
<1>3. ASSUME NEW u \in Known, RemoveMember(u) PROVE TypeInv'
  BY <1>3 DEF RemoveMember, TypeInv, TypeOK
<1>4. CASE InviteExpires
  <2>0. TypeOK
    BY DEF TypeInv
  <2>1. PICK i \in Invites : /\ invite[i].state = "pending"
                             /\ invite' = [invite EXCEPT ![i].state = "expired"]
    BY <1>4 DEF InviteExpires
  <2>2. invite[i] \in Invite
    BY <2>0, <2>1, InviteType DEF NoInvite
  <2>3. [invite[i] EXCEPT !.state = "expired"] \in Invite
    BY <2>2 DEF Invite
  <2>4. invite' \in [Invites -> Invite \cup {NoInvite}]
    BY <2>0, <2>1, <2>3 DEF TypeOK
  <2> QED
    BY <1>4, <2>4 DEF InviteExpires, TypeInv, TypeOK
<1>5. CASE UNCHANGED vars
  BY <1>5 DEF vars, TypeInv, TypeOK
<1> QED
  BY <1>1, <1>2, <1>3, <1>4, <1>5 DEF Next

LEMMA TypesAlways == Spec => []TypeInv
BY TypeInit, TypeStep, PTL DEF Spec

\* With their types the rows and the requests keep what the statements rely on:
\* a request names the user, the token or the decision its operation is about.
THEOREM TypeCorrect == Spec => []TypeOK
<1>1. TypeInv => TypeOK
  BY DEF TypeInv
<1> QED
  BY <1>1, TypesAlways, PTL

----------------------------------------------------------------------------
(* Offers                                                                    *)

\* Requests that carry nothing but what their user was offered; only users who
\* may ask ask, and are decided on.
Granted ==
    {q \in GoodReq :
       /\ q.op \in {"join", "decide"} => q.user \in Known
       /\ q.op \in {"accept", "join", "decide"} /\ q.at # "read" =>
            <<q.user, q.role>> \in offered}

RowsOffered ==
    /\ RolesWereOffered
    /\ \A u \in Users : asked[u] # None => u \in Known
    /\ \A i \in Invites : invite[i] # NoInvite => <<invite[i].to, invite[i].role>> \in offered
    /\ link # NoLink => \A u \in Known : <<u, link.role>> \in offered

OfferInv == RowsOffered /\ req \in [Reqs -> Granted]

LEMMA IdleGranted == Idle \in Granted
BY IdleGood DEF Granted, Idle

LEMMA OfferInit == Init => OfferInv
BY IdleGranted DEF Init, OfferInv, RowsOffered, RolesWereOffered

\* What was offered stays offered: a step of one request needs to be looked at
\* for that request only.
LEMMA GrantedKeeps ==
  ASSUME OfferInv, offered \subseteq offered', NEW r \in Reqs, NEW q \in Granted',
         req' = [req EXCEPT ![r] = q]
  PROVE  req' \in [Reqs -> Granted']
<1>1. Granted \subseteq Granted'
  BY DEF Granted
<1> QED
  BY <1>1 DEF OfferInv

LEMMA GotoGranted ==
  ASSUME TypeInv, OfferInv, offered \subseteq offered', NEW r \in Reqs,
         \/ Finish(r)
         \/ \E stage \in Stages : /\ Goto(r, stage) /\ req[r].at # "read"
                                  /\ req[r].op = "setLink" => stage # "write"
         \/ \E stage \in Stages : /\ Goto(r, stage)
                                  /\ req[r].op \notin {"accept", "join", "decide", "setLink"}
  PROVE  req' \in [Reqs -> Granted']
<1>1. CASE Finish(r)
  <2>1. Idle \in Granted'
    BY IdleGood DEF Granted, Idle
  <2> QED
    BY <1>1, <2>1, FinishGood, GrantedKeeps
<1>2. ASSUME NEW stage \in Stages, Goto(r, stage), req[r].op = "setLink" => stage # "write",
             req[r].at # "read" \/ req[r].op \notin {"accept", "join", "decide"}
      PROVE  req' \in [Reqs -> Granted']
  <2>1. req[r] \in Granted /\ req[r] \in Request
    BY ReqType DEF OfferInv
  <2>2. /\ [req[r] EXCEPT !.at = stage] \in GoodReq
        /\ req' = [req EXCEPT ![r] = [req[r] EXCEPT !.at = stage]]
    BY <1>2, GotoGood
  <2>3. [req[r] EXCEPT !.at = stage] \in Granted'
    BY <1>2, <2>1, <2>2 DEF Granted, Request
  <2> QED
    BY <2>2, <2>3, GrantedKeeps
<1> QED
  BY <1>1, <1>2

LEMMA OfferArrive ==
  ASSUME TypeInv, OfferInv, NEW r \in Reqs,
         ArriveInvitation(r) \/ ArriveLink(r) \/ ArriveAccept(r) \/ ArriveJoin(r)
  PROVE  OfferInv'
<1>1. ASSUME NEW q \in GoodReq, Arrive(r, q),
             q.op \in {"accept", "join", "decide"} => q.at = "read",
             q.op \in {"join", "decide"} => q.user \in Known
      PROVE  OfferInv'
  <2>1. q \in Granted'
    BY <1>1 DEF Granted
  <2>2. req' \in [Reqs -> Granted']
    BY <1>1, <2>1, BecomeGood, GrantedKeeps DEF Arrive
  <2> QED
    BY <1>1, <2>2 DEF Arrive, tokens, links, requests, OfferInv, RowsOffered, RolesWereOffered
<1>2. CASE ArriveInvitation(r)
  <2>1. ASSUME NEW u \in Known,
               Arrive(r, [Idle EXCEPT !.op = "invite", !.at = "member", !.user = u])
        PROVE  OfferInv'
    <3>1. [Idle EXCEPT !.op = "invite", !.at = "member", !.user = u] \in GoodReq
      BY InvitationAssumption DEF Idle, GoodReq, Request, Stages, MailOps
    <3> QED
      BY <1>1, <2>1, <3>1 DEF Idle
  <2>2. ASSUME NEW i \in Invites,
               Arrive(r, [Idle EXCEPT !.op = "revoke", !.at = "read", !.token = i])
        PROVE  OfferInv'
    <3>1. [Idle EXCEPT !.op = "revoke", !.at = "read", !.token = i] \in GoodReq
      BY DEF Idle, GoodReq, Request, Stages, MailOps
    <3> QED
      BY <1>1, <2>2, <3>1 DEF Idle
  <2> QED
    BY <1>2, <2>1, <2>2 DEF ArriveInvitation
<1>3. CASE ArriveLink(r)
  <2>1. CASE Arrive(r, [Idle EXCEPT !.op = "newLink", !.at = "clear"])
    <3>1. [Idle EXCEPT !.op = "newLink", !.at = "clear"] \in GoodReq
      BY DEF Idle, GoodReq, Request, Stages, LinkOps
    <3> QED
      BY <1>1, <2>1, <3>1 DEF Idle
  <2>2. CASE Arrive(r, [Idle EXCEPT !.op = "setLink", !.at = "read"])
    <3>1. [Idle EXCEPT !.op = "setLink", !.at = "read"] \in GoodReq
      BY DEF Idle, GoodReq, Request, Stages, LinkOps
    <3> QED
      BY <1>1, <2>2, <3>1 DEF Idle
  <2>3. CASE Arrive(r, [Idle EXCEPT !.op = "dropLink", !.at = "read"])
    <3>1. [Idle EXCEPT !.op = "dropLink", !.at = "read"] \in GoodReq
      BY DEF Idle, GoodReq, Request, Stages, LinkOps
    <3> QED
      BY <1>1, <2>3, <3>1 DEF Idle
  <2>4. ASSUME NEW u \in Users, NEW s \in {"APPROVED", "REJECTED"}, asked[u] # None,
               Arrive(r, [Idle EXCEPT !.op = "decide", !.at = "read", !.user = u,
                                      !.token = link.id, !.status = s])
        PROVE  OfferInv'
    <3>1. link.id \in Links /\ u \in Known
      BY <2>4, LinkType DEF TypeInv, TypeOK, OfferInv, RowsOffered
    <3>2. [Idle EXCEPT !.op = "decide", !.at = "read", !.user = u,
                       !.token = link.id, !.status = s] \in GoodReq
      BY <3>1 DEF Idle, GoodReq, Request, Stages, LinkOps, Statuses
    <3> QED
      BY <1>1, <2>4, <3>1, <3>2 DEF Idle
  <2> QED
    BY <1>3, <2>1, <2>2, <2>3, <2>4 DEF ArriveLink
<1>4. CASE ArriveAccept(r)
  <2>1. PICK u \in Users, i \in Invites :
           Arrive(r, [Idle EXCEPT !.op = "accept", !.at = "read", !.user = u, !.token = i])
    BY <1>4 DEF ArriveAccept
  <2>2. [Idle EXCEPT !.op = "accept", !.at = "read", !.user = u, !.token = i] \in GoodReq
    BY DEF Idle, GoodReq, Request, Stages, MailOps
  <2> QED
    BY <1>1, <2>1, <2>2 DEF Idle
<1>5. CASE ArriveJoin(r)
  <2>1. PICK u \in Known, l \in Links :
           Arrive(r, [Idle EXCEPT !.op = "join", !.at = "read", !.user = u, !.token = l])
    BY <1>5 DEF ArriveJoin
  <2>2. [Idle EXCEPT !.op = "join", !.at = "read", !.user = u, !.token = l] \in GoodReq
    BY InvitationAssumption DEF Idle, GoodReq, Request, Stages, LinkOps
  <2> QED
    BY <1>1, <2>1, <2>2 DEF Idle
<1> QED
  BY <1>2, <1>3, <1>4, <1>5

LEMMA OfferMail ==
  ASSUME TypeInv, OfferInv, NEW r \in Reqs,
         \/ InviteCheck(r) \/ InviteClear(r) \/ InviteInsert(r)
         \/ RevokeRead(r) \/ RevokeDelete(r) \/ AcceptRead(r) \/ AcceptMark(r)
  PROVE  OfferInv'
<1> USE DEF tokens, links, requests
<1>0. TypeOK /\ RowsOffered /\ req[r] \in Request
  BY ReqType DEF TypeInv, OfferInv
<1>1. ASSUME req' \in [Reqs -> Granted'], UNCHANGED <<role, links>>, offered \subseteq offered',
             \A i \in Invites : invite'[i] # NoInvite =>
                <<invite'[i].to, invite'[i].role>> \in offered'
      PROVE  OfferInv'
  BY <1>0, <1>1 DEF OfferInv, RowsOffered, RolesWereOffered
<1>2. ASSUME req' \in [Reqs -> Granted'], UNCHANGED <<role, invite, links, offered>>
      PROVE  OfferInv'
  BY <1>0, <1>1, <1>2 DEF RowsOffered
<1>3. CASE InviteCheck(r)
  <2>1. req' \in [Reqs -> Granted']
    BY <1>3, GotoGranted DEF InviteCheck, At, Stages
  <2> QED
    BY <1>2, <1>3, <2>1 DEF InviteCheck
<1>4. CASE InviteClear(r)
  <2>1. req' \in [Reqs -> Granted']
    BY <1>4, GotoGranted DEF InviteClear, At, Stages
  <2> QED
    BY <1>0, <1>1, <1>4, <2>1 DEF InviteClear, RowsOffered
<1>5. CASE InviteInsert(r)
  <2>1. req' \in [Reqs -> Granted']
    BY <1>5, GotoGranted DEF InviteInsert
  <2>2. PICK i \in Invites, ro \in Offers :
           /\ invite' = [invite EXCEPT ![i] = [state |-> "pending", to |-> req[r].user, role |-> ro]]
           /\ offered' = offered \cup {<<req[r].user, ro>>}
    BY <1>5 DEF InviteInsert
  <2>3. invite'[i].to = req[r].user /\ invite'[i].role = ro
    BY <1>0, <2>2 DEF TypeOK
  <2>4. \A j \in Invites \ {i} : invite'[j] = invite[j]
    BY <1>0, <2>2 DEF TypeOK
  <2> QED
    BY <1>0, <1>1, <1>5, <2>1, <2>2, <2>3, <2>4 DEF InviteInsert, RowsOffered
<1>6. CASE RevokeRead(r)
  <2>1. req' \in [Reqs -> Granted']
    BY <1>6, GotoGranted DEF RevokeRead, At, Stages
  <2> QED
    BY <1>2, <1>6, <2>1 DEF RevokeRead
<1>7. CASE RevokeDelete(r)
  <2>1. req' \in [Reqs -> Granted']
    BY <1>7, GotoGranted DEF RevokeDelete
  <2> QED
    BY <1>0, <1>1, <1>7, <2>1 DEF RevokeDelete, RowsOffered, TypeOK
<1>8. CASE AcceptRead(r)
  <2>1. req' \in [Reqs -> Granted']
    <3>1. CASE Valid(req[r].token) /\ MeantFor(req[r].token, req[r].user)
      <4> DEFINE q == [req[r] EXCEPT !.at = "member", !.role = invite[req[r].token].role]
      <4>0. req[r].token \in Invites /\ req[r].op = "accept" /\ req[r] \in GoodReq
        BY <1>8, ReqType DEF AcceptRead, At, GoodReq
      <4>1. /\ invite[req[r].token].role \in Roles
            /\ <<req[r].user, invite[req[r].token].role>> \in offered
        BY <1>0, <3>1, <4>0, InviteType DEF Valid, NoInvite, MeantFor, RowsOffered
      <4>2. q \in GoodReq /\ q.op = "accept" /\ q.user = req[r].user
            /\ q.role = invite[req[r].token].role
        BY <4>0, <4>1, ReqType, ZenonT(60) DEF GoodReq, Request, Stages
      <4>3. Become(r, q) /\ offered' = offered
        BY <1>8, <3>1 DEF AcceptRead
      <4> HIDE DEF q
      <4>4. q \in Granted'
        BY <4>1, <4>2, <4>3 DEF Granted
      <4> QED
        BY <4>2, <4>3, <4>4, BecomeGood, GrantedKeeps
    <3>2. CASE ~(Valid(req[r].token) /\ MeantFor(req[r].token, req[r].user))
      BY <1>8, <3>2, GotoGranted DEF AcceptRead
    <3> QED
      BY <3>1, <3>2
  <2> QED
    BY <1>2, <1>8, <2>1 DEF AcceptRead
<1>9. CASE AcceptMark(r)
  <2>1. req' \in [Reqs -> Granted']
    BY <1>9, GotoGranted DEF AcceptMark
  <2>2. \A i \in Invites : /\ invite'[i].to = invite[i].to /\ invite'[i].role = invite[i].role
                           /\ invite'[i] # NoInvite => invite[i] # NoInvite
    <3>1. ASSUME NEW i \in Invites, i = req[r].token
          PROVE  invite'[i] = [invite[i] EXCEPT !.state = IF @ = "none" THEN @ ELSE "accepted"]
      BY <1>0, <1>9, <3>1 DEF AcceptMark, TypeOK
    <3>2. ASSUME NEW i \in Invites, i # req[r].token
          PROVE  invite'[i] = invite[i]
      BY <1>0, <1>9, <3>2 DEF AcceptMark, TypeOK
    <3>3. ASSUME NEW i \in Invites
          PROVE  /\ invite'[i].to = invite[i].to /\ invite'[i].role = invite[i].role
                 /\ invite'[i] # NoInvite => invite[i] # NoInvite
      <4>1. CASE i # req[r].token
        BY <3>2, <4>1
      <4>2. CASE i = req[r].token /\ invite[i] = NoInvite
        BY <3>1, <4>2 DEF NoInvite
      <4>3. CASE i = req[r].token /\ invite[i] \in Invite
        <5>1. invite[i].state # "none" /\ invite[i] # NoInvite
          BY <4>3 DEF NoInvite, Invite
        <5>2. invite'[i] = [invite[i] EXCEPT !.state = "accepted"]
          BY <3>1, <4>3, <5>1
        <5>3. invite'[i].to = invite[i].to /\ invite'[i].role = invite[i].role
          BY <4>3, <5>2 DEF Invite
        <5> QED
          BY <5>1, <5>3
      <4> QED
        BY <1>0, <4>1, <4>2, <4>3, InviteType
    <3> QED
      BY <3>3
  <2> QED
    BY <1>0, <1>1, <1>9, <2>1, <2>2 DEF AcceptMark, RowsOffered
<1> QED
  BY <1>3, <1>4, <1>5, <1>6, <1>7, <1>8, <1>9

LEMMA OfferLink ==
  ASSUME TypeInv, OfferInv, NEW r \in Reqs,
         \/ LinkClear(r) \/ LinkInsert(r) \/ LinkRead(r) \/ LinkUpdate(r) \/ LinkDelete(r)
         \/ JoinRead(r) \/ JoinAsk(r)
         \/ DecideRead(r) \/ DecideRequest(r) \/ DecideMark(r)
  PROVE  OfferInv'
<1> USE DEF tokens, links, requests
<1>0. TypeOK /\ RowsOffered /\ req[r] \in Request /\ req[r] \in Granted /\ req[r] \in GoodReq
  BY ReqType DEF TypeInv, OfferInv
<1>1. ASSUME req' \in [Reqs -> Granted'], UNCHANGED <<role, invite>>, offered \subseteq offered',
             \A u \in Users : asked'[u] # None => u \in Known,
             link' # NoLink => \A u \in Known : <<u, link'.role>> \in offered'
      PROVE  OfferInv'
  BY <1>0, <1>1 DEF OfferInv, RowsOffered, RolesWereOffered
<1>2. ASSUME req' \in [Reqs -> Granted'], UNCHANGED <<role, invite, link, asked, offered>>
      PROVE  OfferInv'
  BY <1>0, <1>1, <1>2 DEF RowsOffered
<1>3. CASE LinkClear(r)
  <2>1. req' \in [Reqs -> Granted']
    BY <1>3, GotoGranted DEF LinkClear, At, Stages
  <2> QED
    BY <1>1, <1>3, <2>1 DEF LinkClear, Unlinked
<1>4. CASE LinkInsert(r)
  <2>1. req' \in [Reqs -> Granted']
    BY <1>4, GotoGranted DEF LinkInsert
  <2>2. CASE link = NoLink
    <3>1. PICK l \in Links, ro \in LinkRoles, p \in Permissions :
             /\ link' = [id |-> l, role |-> ro, permission |-> p]
             /\ offered' = offered \cup (Known \X {ro})
      BY <1>4, <2>2 DEF LinkInsert
    <3> QED
      BY <1>0, <1>1, <1>4, <2>1, <3>1 DEF LinkInsert, RowsOffered
  <2>3. CASE link # NoLink
    BY <1>2, <1>4, <2>1, <2>3 DEF LinkInsert
  <2> QED
    BY <2>2, <2>3
<1>5. CASE LinkRead(r)
  <2>1. CASE link # NoLink
    <3>1. link.id \in Links
      BY <1>0, <2>1, LinkType
    <3>2. [req[r] EXCEPT !.at = "write", !.token = link.id] \in Granted'
      BY <1>0, <1>5, <3>1 DEF GoodReq, Granted, Request, Stages, LinkRead
    <3>3. req' \in [Reqs -> Granted']
      BY <1>5, <2>1, <3>2, GrantedKeeps DEF LinkRead, Become
    <3> QED
      BY <1>2, <1>5, <3>3 DEF LinkRead
  <2>2. CASE link = NoLink
    BY <1>2, <1>5, <2>2, GotoGranted DEF LinkRead
  <2> QED
    BY <2>1, <2>2
<1>6. CASE LinkUpdate(r)
  <2>1. req' \in [Reqs -> Granted']
    BY <1>6, GotoGranted DEF LinkUpdate
  <2>2. CASE link.id = req[r].token
    <3>0. link \in Link
      BY <1>0, <1>6, <2>2, LinkType DEF LinkUpdate, At, GoodReq
    <3>1. PICK ro \in LinkRoles, p \in Permissions :
             /\ link' = [link EXCEPT !.role = ro, !.permission = p]
             /\ offered' = offered \cup (Known \X {ro})
      BY <1>6, <2>2 DEF LinkUpdate
    <3>2. link'.role = ro
      BY <3>0, <3>1 DEF Link
    <3> QED
      BY <1>0, <1>1, <1>6, <2>1, <3>1, <3>2 DEF LinkUpdate, RowsOffered
  <2>3. CASE link.id # req[r].token
    BY <1>2, <1>6, <2>1, <2>3 DEF LinkUpdate
  <2> QED
    BY <2>2, <2>3
<1>7. CASE LinkDelete(r)
  <2>1. req' \in [Reqs -> Granted']
    BY <1>7, GotoGranted DEF LinkDelete
  <2> QED
    BY <1>1, <1>7, <2>1 DEF LinkDelete, Unlinked
<1>8. CASE JoinRead(r)
  <2>1. CASE link.id = req[r].token
    <3>1. [req[r] EXCEPT !.at = "member", !.role = link.role,
                         !.permission = link.permission] \in Granted'
      BY <1>0, <1>8, <2>1, LinkType DEF GoodReq, Granted, Request, Stages, JoinRead, At, RowsOffered
    <3>2. req' \in [Reqs -> Granted']
      BY <1>8, <2>1, <3>1, GrantedKeeps DEF JoinRead, Become
    <3> QED
      BY <1>2, <1>8, <3>2 DEF JoinRead
  <2>2. CASE link.id # req[r].token
    BY <1>2, <1>8, <2>2, GotoGranted DEF JoinRead
  <2> QED
    BY <2>1, <2>2
<1>9. CASE JoinAsk(r)
  <2>1. req' \in [Reqs -> Granted'] /\ req[r].user \in Known
    BY <1>0, <1>9, GotoGranted DEF JoinAsk, At, Granted
  <2>2. \A u \in Users : asked'[u] # None => u \in Known
    BY <1>0, <1>9, <2>1 DEF JoinAsk, RowsOffered, TypeOK
  <2> QED
    BY <1>0, <1>1, <1>9, <2>1, <2>2 DEF JoinAsk, RowsOffered
<1>10. CASE DecideRead(r)
  <2>1. CASE link.id = req[r].token
    <3>1. [req[r] EXCEPT !.at = "request", !.role = link.role] \in Granted'
      BY <1>0, <1>10, <2>1, LinkType DEF GoodReq, Granted, Request, Stages, DecideRead, At, RowsOffered
    <3>2. req' \in [Reqs -> Granted']
      BY <1>10, <2>1, <3>1, GrantedKeeps DEF DecideRead, Become
    <3> QED
      BY <1>2, <1>10, <3>2 DEF DecideRead
  <2>2. CASE link.id # req[r].token
    BY <1>2, <1>10, <2>2, GotoGranted DEF DecideRead
  <2> QED
    BY <2>1, <2>2
<1>11. CASE DecideRequest(r)
  <2>1. req' \in [Reqs -> Granted']
    BY <1>11, GotoGranted DEF DecideRequest, At, Stages
  <2> QED
    BY <1>2, <1>11, <2>1 DEF DecideRequest
<1>12. CASE DecideMark(r)
  <2>1. req' \in [Reqs -> Granted'] /\ req[r].user \in Known
    BY <1>0, <1>12, GotoGranted DEF DecideMark, At, Granted
  <2>2. \A u \in Users : asked'[u] # None => u \in Known
    BY <1>0, <1>12, <2>1 DEF DecideMark, RowsOffered, TypeOK
  <2> QED
    BY <1>0, <1>1, <1>12, <2>1, <2>2 DEF DecideMark, RowsOffered
<1> QED
  BY <1>3, <1>4, <1>5, <1>6, <1>7, <1>8, <1>9, <1>10, <1>11, <1>12

LEMMA OfferStep == TypeInv /\ OfferInv /\ [Next]_vars => OfferInv'
<1> SUFFICES ASSUME TypeInv, OfferInv, [Next]_vars PROVE OfferInv'
  OBVIOUS
<1> USE DEF tokens, links, requests
<1>0. TypeOK /\ RowsOffered
  BY DEF TypeInv, OfferInv
<1>1. ASSUME NEW r \in Reqs, MemberCheck(r) \/ Abort(r) PROVE OfferInv'
  <2>1. req' \in [Reqs -> Granted']
    BY <1>1, GotoGranted DEF MemberCheck, Abort, Stages
  <2> QED
    BY <1>0, <1>1, <2>1 DEF MemberCheck, Abort, OfferInv, RowsOffered, RolesWereOffered
<1>2. ASSUME NEW r \in Reqs, InsertMember(r) PROVE OfferInv'
  <2>1. req' \in [Reqs -> Granted']
    BY <1>2, GotoGranted DEF InsertMember, Stages
  <2>2. <<req[r].user, req[r].role>> \in offered
    BY <1>2 DEF InsertMember, OfferInv, Granted
  <2>3. RolesWereOffered'
    BY <1>0, <1>2, <2>2 DEF InsertMember, RowsOffered, RolesWereOffered, TypeOK
  <2> QED
    BY <1>0, <1>2, <2>1, <2>3 DEF InsertMember, OfferInv, RowsOffered
<1>3. ASSUME NEW u \in Known, AddMember(u) \/ RemoveMember(u) PROVE OfferInv'
  <2>1. offered \subseteq offered' /\ UNCHANGED <<tokens, links, req>>
    BY <1>3 DEF AddMember, RemoveMember
  <2>2. Granted \subseteq Granted'
    BY <2>1 DEF Granted
  <2>3. RolesWereOffered'
    BY <1>0, <1>3 DEF AddMember, RemoveMember, RowsOffered, RolesWereOffered, TypeOK
  <2> QED
    BY <1>0, <2>1, <2>2, <2>3 DEF OfferInv, RowsOffered
<1>4. CASE InviteExpires
  <2>1. PICK i \in Invites : /\ invite[i].state = "pending"
                             /\ invite' = [invite EXCEPT ![i].state = "expired"]
    BY <1>4 DEF InviteExpires
  <2>2. invite[i] \in Invite /\ invite[i] # NoInvite
    BY <1>0, <2>1, InviteType DEF NoInvite
  <2>3. invite'[i].to = invite[i].to /\ invite'[i].role = invite[i].role
    BY <1>0, <2>1, <2>2 DEF TypeOK, Invite
  <2>4. \A j \in Invites \ {i} : invite'[j] = invite[j]
    BY <1>0, <2>1 DEF TypeOK
  <2>5. UNCHANGED <<role, links, req, offered>>
    BY <1>4 DEF InviteExpires
  <2>6. Granted' = Granted
    BY <2>5 DEF Granted
  <2> QED
    BY <1>0, <2>2, <2>3, <2>4, <2>5, <2>6 DEF OfferInv, RowsOffered, RolesWereOffered
<1>5. CASE UNCHANGED vars
  <2>1. Granted' = Granted
    BY <1>5 DEF vars, Granted
  <2> QED
    BY <1>5, <2>1 DEF vars, OfferInv, RowsOffered, RolesWereOffered
<1> QED
  BY <1>1, <1>2, <1>3, <1>4, <1>5, OfferArrive, OfferMail, OfferLink DEF Next, Step

\* Whatever is revoked, replaced or changed between the read of an offer and
\* the insert of the member, the role is one that was offered to that user.
THEOREM OffersSafe == Spec => []RolesWereOffered
<1>1. Spec => []OfferInv
  BY OfferInit, OfferStep, TypesAlways, PTL DEF Spec
<1>2. OfferInv => RolesWereOffered
  BY DEF OfferInv, RowsOffered
<1> QED
  BY <1>1, <1>2, PTL

----------------------------------------------------------------------------
(* Invitations are good for one join                                         *)

\* A request that has found an invitation good and is not done with it.
Accepting(q, i) == q.op = "accept" /\ q.token = i /\ q.at \in {"member", "insert", "mark"}

\* An invitation is used when it is marked, or about to be, unless overlapping
\* accepts or a dead one have spoilt the history.
JoinInv ==
    \A i \in Invites :
       /\ invite[i] = NoInvite => used[i] = 0
       /\ \A r \in Reqs : Accepting(req[r], i) /\ invite[i] # NoInvite => invite[i].to = req[r].user
       /\ invite[i] # NoInvite /\ i \notin torn =>
            /\ \A q, r \in Reqs : Accepting(req[q], i) /\ Accepting(req[r], i) => q = r
            /\ used[i] <= 1
            /\ used[i] = 1 => \/ invite[i].state = "accepted"
                              \/ \E r \in Reqs : Accepting(req[r], i) /\ req[r].at = "mark"
            /\ \A r \in Reqs : Accepting(req[r], i) /\ req[r].at # "mark" => used[i] = 0

LEMMA JoinInit == Init => JoinInv
BY DEF Init, JoinInv, Idle, Accepting

\* A step of requests that are not past the read of an invitation, which may
\* replace or remove other rows.
LEMMA JoinFrame ==
  ASSUME JoinInv,
         \A r \in Reqs : \/ req'[r] = req[r]
                         \/ \A i \in Invites : ~Accepting(req[r], i) /\ ~Accepting(req'[r], i),
         \A i \in Invites :
            \/ /\ invite'[i] = invite[i] /\ used'[i] = used[i] /\ (i \in torn' <=> i \in torn)
            \/ invite'[i] = NoInvite /\ used'[i] = 0
            \/ /\ invite'[i].state # "accepted" /\ used'[i] = 0
               /\ \A r \in Reqs : ~Accepting(req[r], i)
  PROVE  JoinInv'
<1>1. SUFFICES ASSUME NEW i \in Invites
               PROVE  /\ invite'[i] = NoInvite => used'[i] = 0
                      /\ \A r \in Reqs : Accepting(req'[r], i) /\ invite'[i] # NoInvite =>
                            invite'[i].to = req'[r].user
                      /\ invite'[i] # NoInvite /\ i \notin torn' =>
                           /\ \A q, r \in Reqs : Accepting(req'[q], i) /\ Accepting(req'[r], i) => q = r
                           /\ used'[i] <= 1
                           /\ used'[i] = 1 => \/ invite'[i].state = "accepted"
                                             \/ \E r \in Reqs : Accepting(req'[r], i) /\ req'[r].at = "mark"
                           /\ \A r \in Reqs : Accepting(req'[r], i) /\ req'[r].at # "mark" => used'[i] = 0
  BY DEF JoinInv, Accepting
<1>2. \A r \in Reqs : \/ req'[r] = req[r]
                      \/ ~Accepting(req[r], i) /\ ~Accepting(req'[r], i)
  OBVIOUS
<1>3. CASE invite'[i] = NoInvite /\ used'[i] = 0
  BY <1>3
<1>4. CASE invite'[i].state # "accepted" /\ used'[i] = 0 /\ \A r \in Reqs : ~Accepting(req[r], i)
  BY <1>2, <1>4
<1>5. CASE invite'[i] = invite[i] /\ used'[i] = used[i] /\ (i \in torn' <=> i \in torn)
  BY <1>2, <1>5 DEF JoinInv
<1> QED
  BY <1>3, <1>4, <1>5

\* Most statements do.
LEMMA JoinStepElse ==
  ASSUME TypeInv, JoinInv, NEW r \in Reqs,
         \/ ArriveInvitation(r) \/ ArriveLink(r) \/ ArriveAccept(r) \/ ArriveJoin(r)
         \/ InviteCheck(r) \/ RevokeRead(r)
         \/ LinkClear(r) \/ LinkInsert(r) \/ LinkRead(r) \/ LinkUpdate(r) \/ LinkDelete(r)
         \/ JoinRead(r) \/ JoinAsk(r)
         \/ DecideRead(r) \/ DecideRequest(r) \/ DecideMark(r)
  PROVE  JoinInv'
<1>1. /\ UNCHANGED <<invite, used, torn>>
      /\ req' \in [Reqs -> GoodReq] /\ \A q \in Reqs \ {r} : req'[q] = req[q]
      /\ req[r].op # "accept"
      /\ req'[r].op = "accept" => req'[r].at = "read"
  <2> USE DEF tokens, links, requests
  <2>0. TypeInv'
    BY ArriveType, MailStepType, LinkStepType
  <2>1. ASSUME NEW q, Arrive(r, q), q.op = "accept" => q.at = "read"
        PROVE  /\ UNCHANGED <<invite, used, torn>>
               /\ \A p \in Reqs \ {r} : req'[p] = req[p]
               /\ req[r].op # "accept"
               /\ req'[r].op = "accept" => req'[r].at = "read"
    BY <2>1 DEF Arrive, Free, Idle, Become, TypeInv
  <2>2. CASE ArriveInvitation(r) \/ ArriveLink(r) \/ ArriveAccept(r) \/ ArriveJoin(r)
    BY <2>0, <2>1, <2>2 DEF ArriveInvitation, ArriveLink, ArriveAccept, ArriveJoin, Idle, TypeInv
  <2>3. req[r].op # "accept" /\ UNCHANGED <<invite, used, torn>> /\ (Finish(r) \/ \E stage : Goto(r, stage))
        => /\ \A p \in Reqs \ {r} : req'[p] = req[p]
           /\ req'[r].op # "accept"
    BY ReqType DEF Finish, Goto, Become, TypeInv, Idle, Request
  <2>4. CASE InviteCheck(r) \/ RevokeRead(r) \/ DecideRequest(r)
    BY <2>0, <2>3, <2>4 DEF InviteCheck, RevokeRead, DecideRequest, At, TypeInv
  <2>5. CASE LinkClear(r) \/ LinkInsert(r) \/ LinkUpdate(r) \/ LinkDelete(r)
    BY <2>0, <2>3, <2>5 DEF LinkClear, LinkInsert, LinkUpdate, LinkDelete, At, TypeInv
  <2>6. CASE JoinAsk(r) \/ DecideMark(r)
    BY <2>0, <2>3, <2>6 DEF JoinAsk, DecideMark, At, TypeInv
  <2>7. CASE LinkRead(r) \/ JoinRead(r) \/ DecideRead(r)
    BY <2>0, <2>3, <2>7, ReqType, ZenonT(60)
       DEF LinkRead, JoinRead, DecideRead, At, TypeInv, Become, Request
  <2> QED
    BY <2>2, <2>4, <2>5, <2>6, <2>7
<1>2. \A i \in Invites : ~Accepting(req[r], i) /\ ~Accepting(req'[r], i)
  BY <1>1 DEF Accepting
<1> QED
  BY <1>1, <1>2, JoinFrame

\* The statements that write or delete invitations.
LEMMA JoinWrites ==
  ASSUME TypeInv, JoinInv, NEW r \in Reqs,
         InviteClear(r) \/ InviteInsert(r) \/ RevokeDelete(r)
  PROVE  JoinInv'
<1>0. TypeOK /\ req[r] \in Request
  BY ReqType DEF TypeInv
<1>1. CASE InviteClear(r)
  <2>1. /\ \A q \in Reqs \ {r} : req'[q] = req[q]
        /\ req[r].op = "invite" /\ req'[r].op = "invite"
    <3>1. req' = [req EXCEPT ![r] = [req[r] EXCEPT !.at = "insert"]]
      BY <1>1 DEF InviteClear, Goto, Become
    <3> QED
      BY <1>0, <1>1, <3>1 DEF InviteClear, At, TypeInv, Request
  <2>2. \A i \in Invites :
            \/ /\ invite'[i] = invite[i] /\ used'[i] = used[i] /\ (i \in torn' <=> i \in torn)
            \/ invite'[i] = NoInvite /\ used'[i] = 0
    BY <1>1 DEF InviteClear, Forget
  <2> QED
    BY <2>1, <2>2, JoinFrame DEF Accepting
<1>2. CASE RevokeDelete(r)
  <2>1. /\ \A q \in Reqs \ {r} : req'[q] = req[q]
        /\ req[r].op = "revoke" /\ req'[r].op = "none"
    BY <1>0, <1>2, FinishGood DEF RevokeDelete, At, TypeInv, Idle
  <2>2. \A i \in Invites :
            \/ /\ invite'[i] = invite[i] /\ used'[i] = used[i] /\ (i \in torn' <=> i \in torn)
            \/ invite'[i] = NoInvite /\ used'[i] = 0
    BY <1>0, <1>2 DEF RevokeDelete, Forget, TypeOK
  <2> QED
    BY <2>1, <2>2, JoinFrame DEF Accepting
<1>3. CASE InviteInsert(r)
  <2>1. /\ \A q \in Reqs \ {r} : req'[q] = req[q]
        /\ req[r].op = "invite" /\ req'[r].op = "none"
    BY <1>0, <1>3, FinishGood DEF InviteInsert, At, TypeInv, Idle
  <2>2. PICK i \in Invites, ro \in Offers :
           /\ invite[i] = NoInvite /\ ~Named(i)
           /\ invite' = [invite EXCEPT ![i] = [state |-> "pending", to |-> req[r].user, role |-> ro]]
    BY <1>3 DEF InviteInsert
  <2>3. UNCHANGED <<used, torn>>
    BY <1>3 DEF InviteInsert
  <2>4. \A q \in Reqs : ~Accepting(req[q], i)
    BY <2>2 DEF Named, Accepting
  <2>5. invite'[i].state # "accepted" /\ used'[i] = 0
    BY <1>0, <2>2, <2>3 DEF TypeOK, JoinInv
  <2>6. \A j \in Invites \ {i} : invite'[j] = invite[j]
    BY <1>0, <2>2 DEF TypeOK
  <2> QED
    BY <2>1, <2>3, <2>4, <2>5, <2>6, JoinFrame DEF Accepting
<1> QED
  BY <1>1, <1>2, <1>3

\* The statements of an accept past its arrival, and a member's other ways in.
LEMMA JoinAccept ==
  ASSUME TypeInv, JoinInv, NEW r \in Reqs,
         AcceptRead(r) \/ AcceptMark(r) \/ MemberCheck(r) \/ InsertMember(r) \/ Abort(r)
  PROVE  JoinInv'
<1>0. /\ TypeOK /\ req[r] \in Request /\ req \in [Reqs -> GoodReq]
      /\ invite \in [Invites -> Invite \cup {NoInvite}] /\ used \in [Invites -> 0..2]
  BY ReqType DEF TypeInv, TypeOK
<1> DEFINE i == req[r].token
<1>1. CASE \A j \in Invites : ~Accepting(req[r], j) /\ ~Accepting(req'[r], j)
  <2>1. \A q \in Reqs \ {r} : req'[q] = req[q]
    BY <1>0, <1>1 DEF AcceptRead, AcceptMark, MemberCheck, InsertMember, Abort,
       Finish, Goto, Become
  <2>2. CASE UNCHANGED <<invite, used, torn>>
    BY <1>1, <2>1, <2>2, JoinFrame
  <2>3. UNCHANGED <<invite, used, torn>>
    <3>1. CASE AcceptRead(r)
      <4>1. i \in Invites /\ req[r].op = "accept"
        BY <1>0, <3>1 DEF AcceptRead, At, GoodReq
      <4>2. ~(Valid(i) /\ MeantFor(i, req[r].user))
        <5>1. SUFFICES ASSUME Valid(i), MeantFor(i, req[r].user) PROVE FALSE
          OBVIOUS
        <5>2. req' = [req EXCEPT ![r] = [req[r] EXCEPT !.at = "member", !.role = invite[i].role]]
          BY <3>1, <5>1 DEF AcceptRead, Become
        <5>3. Accepting(req'[r], i)
          BY <1>0, <4>1, <5>2 DEF Accepting, Request
        <5> QED
          BY <1>1, <4>1, <5>3
      <4> QED
        BY <3>1, <4>2 DEF AcceptRead
    <3>2. CASE AcceptMark(r) \/ (Abort(r) /\ At(r, "accept", "mark"))
      BY <1>0, <1>1, <3>2 DEF AcceptMark, Abort, At, Accepting, GoodReq
    <3>3. CASE Abort(r) /\ ~At(r, "accept", "mark")
      BY <3>3 DEF Abort
    <3>4. CASE MemberCheck(r)
      BY <3>4 DEF MemberCheck, tokens
    <3>5. CASE InsertMember(r)
      <4>1. req[r].op # "accept"
        BY <1>0, <1>1, <3>5 DEF InsertMember, Accepting, GoodReq
      <4> QED
        BY <3>5, <4>1 DEF InsertMember
    <3> QED
      BY <3>1, <3>2, <3>3, <3>4, <3>5
  <2> QED
    BY <2>2, <2>3
<1>2. CASE \E j \in Invites : Accepting(req[r], j) \/ Accepting(req'[r], j)
  <2>0. /\ \A q \in Reqs \ {r} : req'[q] = req[q]
        /\ req[r].op = "accept" /\ i \in Invites
        /\ \A j \in Invites \ {i} : ~Accepting(req[r], j) /\ ~Accepting(req'[r], j)
        /\ req'[r].user = req[r].user \/ ~Accepting(req'[r], i)
    <3>1. CASE Finish(r)
      BY <1>0, <1>2, <3>1 DEF Finish, Become, Idle, Accepting, GoodReq
    <3>2. CASE \E stage : Goto(r, stage)
      BY <1>0, <1>2, <3>2 DEF Goto, Become, Request, Accepting, GoodReq
    <3>3. CASE \E ro : Become(r, [req[r] EXCEPT !.at = "member", !.role = ro])
      BY <1>0, <1>2, <3>3 DEF Become, Request, Accepting, GoodReq
    <3> QED
      BY <3>1, <3>2, <3>3 DEF AcceptRead, AcceptMark, MemberCheck, InsertMember, Abort
  <2> HIDE DEF i
  <2>1. ASSUME NEW j \in Invites, j # i
        PROVE  /\ \A q \in Reqs : Accepting(req'[q], j) <=> Accepting(req[q], j)
               /\ \A q \in Reqs : Accepting(req[q], j) => req'[q] = req[q]
               /\ invite'[j] = invite[j] /\ used'[j] = used[j] /\ (j \in torn' <=> j \in torn)
    <3>1. invite'[j] = invite[j]
      BY <1>0, <2>0, <2>1 DEF AcceptRead, AcceptMark, MemberCheck, InsertMember, Abort, tokens, i
    <3>2. used'[j] = used[j]
      BY <1>0, <2>0, <2>1 DEF AcceptRead, AcceptMark, MemberCheck, InsertMember, Abort, tokens, i
    <3>3. j \in torn' <=> j \in torn
      BY <2>0, <2>1 DEF AcceptRead, AcceptMark, MemberCheck, InsertMember, Abort, tokens, i
    <3> QED
      BY <2>0, <2>1, <3>1, <3>2, <3>3
  <2>2. ASSUME invite'[i] = NoInvite => used'[i] = 0,
               \A q \in Reqs : Accepting(req'[q], i) /\ invite'[i] # NoInvite =>
                  invite'[i].to = req'[q].user,
               invite'[i] # NoInvite /\ i \notin torn' =>
                  /\ \A p, q \in Reqs : Accepting(req'[p], i) /\ Accepting(req'[q], i) => p = q
                  /\ used'[i] <= 1
                  /\ used'[i] = 1 => \/ invite'[i].state = "accepted"
                                     \/ \E q \in Reqs : Accepting(req'[q], i) /\ req'[q].at = "mark"
                  /\ \A q \in Reqs : Accepting(req'[q], i) /\ req'[q].at # "mark" => used'[i] = 0
        PROVE  JoinInv'
    <3>1. SUFFICES ASSUME NEW j \in Invites, j # i
          PROVE  /\ invite'[j] = NoInvite => used'[j] = 0
                 /\ \A q \in Reqs : Accepting(req'[q], j) /\ invite'[j] # NoInvite =>
                       invite'[j].to = req'[q].user
                 /\ invite'[j] # NoInvite /\ j \notin torn' =>
                      /\ \A p, q \in Reqs : Accepting(req'[p], j) /\ Accepting(req'[q], j) => p = q
                      /\ used'[j] <= 1
                      /\ used'[j] = 1 => \/ invite'[j].state = "accepted"
                                         \/ \E q \in Reqs : Accepting(req'[q], j) /\ req'[q].at = "mark"
                      /\ \A q \in Reqs : Accepting(req'[q], j) /\ req'[q].at # "mark" => used'[j] = 0
      BY <2>2 DEF JoinInv, Accepting
    <3> QED
      BY <2>1, <3>1 DEF JoinInv
  <2>3. CASE AcceptRead(r)
    <3>1. Valid(i) /\ MeantFor(i, req[r].user)
      BY <1>0, <1>2, <2>3 DEF AcceptRead, At, Accepting, Finish, Become, Idle, i
    <3>2. invite[i] # NoInvite /\ invite[i].to = req[r].user /\ invite[i].state = "pending"
      BY <3>1 DEF Valid, MeantFor, NoInvite
    <3>3. req' = [req EXCEPT ![r] = [req[r] EXCEPT !.at = "member", !.role = invite[i].role]]
      BY <2>3, <3>1 DEF AcceptRead, Become, i
    <3>4. req'[r].user = req[r].user /\ req'[r].at = "member" /\ UNCHANGED <<invite, used>>
      BY <1>0, <2>3, <3>3 DEF Request, AcceptRead
    <3>5. ASSUME i \notin torn'
          PROVE  i \notin torn /\ used[i] = 0 /\ \A q \in Reqs \ {r} : ~Accepting(req[q], i)
      <4>1. i \notin torn /\ ~Rival(r, "accept")
        BY <2>3, <3>1, <3>5 DEF AcceptRead, i
      <4>2. \A q \in Reqs \ {r} : ~Accepting(req[q], i)
        BY <2>0, <3>2, <4>1 DEF Rival, Accepting, JoinInv, i
      <4>3. ~Accepting(req[r], i)
        BY <2>3 DEF AcceptRead, At, Accepting
      <4> QED
        BY <1>0, <2>0, <3>2, <4>1, <4>2, <4>3 DEF JoinInv
    <3>6. \A q \in Reqs : Accepting(req'[q], i) => invite'[i].to = req'[q].user
      BY <2>0, <3>2, <3>4 DEF JoinInv
    <3> QED
      BY <2>0, <2>2, <3>2, <3>4, <3>5, <3>6
  <2>4. CASE AcceptMark(r)
    <3>1. Accepting(req[r], i) /\ req[r].at = "mark" /\ ~Accepting(req'[r], i)
          /\ UNCHANGED <<used, torn>>
      BY <1>0, <2>0, <2>4 DEF AcceptMark, At, Accepting, Finish, Become, Idle, i
    <3>2. invite'[i] = [invite[i] EXCEPT !.state = IF @ = "none" THEN @ ELSE "accepted"]
      BY <1>0, <2>0, <2>4 DEF AcceptMark, i
    <3>3. CASE invite[i] = NoInvite
      <4>1. invite'[i] = NoInvite
        BY <3>2, <3>3 DEF NoInvite
      <4> QED
        BY <2>0, <2>2, <3>1, <3>3, <4>1 DEF JoinInv
    <3>4. CASE invite[i] \in Invite
      <4>1. invite[i] # NoInvite /\ invite[i].state # "none"
        BY <3>4 DEF Invite, NoInvite
      <4>2. invite'[i] = [invite[i] EXCEPT !.state = "accepted"]
        BY <3>2, <4>1
      <4>3. invite'[i].state = "accepted" /\ invite'[i].to = invite[i].to
        BY <3>4, <4>2 DEF Invite
      <4>4. invite'[i] # NoInvite
        BY <4>3 DEF NoInvite
      <4> QED
        BY <2>0, <2>2, <3>1, <4>1, <4>3, <4>4 DEF JoinInv
    <3> QED
      BY <1>0, <2>0, <3>3, <3>4
  <2>5. CASE MemberCheck(r)
    <3>1. /\ req[r].at = "member" /\ UNCHANGED <<invite, used, torn>>
          /\ \E stage \in {"mark", "insert"} : Goto(r, stage)
      BY <2>0, <2>5 DEF MemberCheck, tokens
    <3>2. Accepting(req[r], i) /\ req'[r].user = req[r].user
      BY <1>0, <2>0, <3>1 DEF Accepting, Goto, Become, Request, i
    <3> QED
      BY <2>0, <2>2, <3>1, <3>2 DEF JoinInv
  <2>6. CASE InsertMember(r)
    <3>1. req[r].at = "insert" /\ UNCHANGED <<invite, torn>> /\ Accepting(req[r], i)
      BY <2>0, <2>6 DEF InsertMember, Accepting, i
    <3>2. CASE Finish(r) /\ UNCHANGED used
      <4>1. ~Accepting(req'[r], i)
        BY <1>0, <3>2 DEF Finish, Become, Idle, Accepting
      <4> QED
        BY <2>0, <2>2, <3>1, <3>2, <4>1 DEF JoinInv
    <3>3. CASE /\ Goto(r, "mark")
               /\ used' = IF used[i] < 2 /\ invite[i] # NoInvite
                          THEN [used EXCEPT ![i] = @ + 1] ELSE used
      <4>1. req'[r].at = "mark" /\ req'[r].user = req[r].user /\ Accepting(req'[r], i)
        BY <1>0, <3>1, <3>3 DEF Goto, Become, Request, Accepting
      <4>2. CASE invite[i] = NoInvite
        BY <2>0, <2>2, <3>1, <3>3, <4>1, <4>2 DEF JoinInv
      <4>3. CASE invite[i] # NoInvite /\ i \in torn
        BY <2>0, <2>2, <3>1, <3>3, <4>1, <4>3 DEF JoinInv
      <4>4. CASE invite[i] # NoInvite /\ i \notin torn
        <5>1. used[i] = 0 /\ \A q \in Reqs \ {r} : ~Accepting(req[q], i)
          BY <2>0, <3>1, <4>4 DEF JoinInv
        <5>2. used'[i] = 1
          BY <1>0, <2>0, <3>3, <4>4, <5>1
        <5> QED
          BY <2>0, <2>2, <3>1, <4>1, <4>4, <5>1, <5>2 DEF JoinInv
      <4> QED
        BY <4>2, <4>3, <4>4
    <3> QED
      BY <2>0, <2>6, <3>2, <3>3 DEF InsertMember, i
  <2>7. CASE Abort(r)
    <3>1. Accepting(req[r], i) /\ ~Accepting(req'[r], i)
      BY <1>0, <1>2, <2>0, <2>7 DEF Abort, Finish, Become, Idle, Accepting, i
    <3>2. UNCHANGED <<invite, used>>
      BY <2>7 DEF Abort
    <3>3. torn \subseteq torn'
      BY <2>7 DEF Abort
    <3>4. invite[i] # NoInvite /\ i \notin torn' => req[r].at # "mark"
      BY <2>0, <2>7 DEF Abort, At, i
    <3> QED
      BY <2>0, <2>2, <3>1, <3>2, <3>3, <3>4 DEF JoinInv
  <2> QED
    BY <2>3, <2>4, <2>5, <2>6, <2>7
<1> QED
  BY <1>1, <1>2

LEMMA JoinStep == TypeInv /\ JoinInv /\ [Next]_vars => JoinInv'
<1> SUFFICES ASSUME TypeInv, JoinInv, [Next]_vars PROVE JoinInv'
  OBVIOUS
<1>1. ASSUME NEW r \in Reqs, Step(r) PROVE JoinInv'
  BY <1>1, JoinStepElse, JoinWrites, JoinAccept DEF Step
<1>2. CASE UNCHANGED <<req, invite, used, torn>>
  BY <1>2, JoinFrame
<1>3. CASE \E u \in Known : AddMember(u) \/ RemoveMember(u)
  BY <1>2, <1>3 DEF AddMember, RemoveMember, tokens
<1>4. CASE InviteExpires
  <2>1. PICK i \in Invites : /\ invite[i].state = "pending"
                             /\ invite' = [invite EXCEPT ![i].state = "expired"]
    BY <1>4 DEF InviteExpires
  <2>2. invite[i] \in Invite /\ invite[i] # NoInvite
    BY <2>1, InviteType DEF TypeInv, NoInvite
  <2>3. /\ invite'[i].to = invite[i].to /\ invite'[i].state = "expired"
        /\ \A j \in Invites \ {i} : invite'[j] = invite[j]
    BY <2>1, <2>2 DEF TypeInv, TypeOK, Invite
  <2>4. UNCHANGED <<req, used, torn>>
    BY <1>4 DEF InviteExpires
  <2>5. \A j \in Invites : /\ invite'[j].to = invite[j].to
                           /\ invite'[j] = NoInvite <=> invite[j] = NoInvite
                           /\ invite[j].state = "accepted" <=> invite'[j].state = "accepted"
    BY <2>1, <2>2, <2>3 DEF NoInvite
  <2> QED
    BY <2>4, <2>5 DEF JoinInv, Accepting
<1>5. CASE UNCHANGED vars
  BY <1>2, <1>5 DEF vars, tokens
<1> QED
  BY <1>1, <1>3, <1>4, <1>5 DEF Next

\* An invitation lets its user in once, however accepts, revocations, new
\* invitations and its expiry interleave; a join counts while the row exists.
THEOREM OneJoinSafe == Spec => []OneJoinPerInvite
<1>1. Spec => []JoinInv
  BY JoinInit, JoinStep, TypesAlways, PTL DEF Spec
<1>2. JoinInv => OneJoinPerInvite
  BY DEF JoinInv, OneJoinPerInvite
<1> QED
  BY <1>1, <1>2, PTL

----------------------------------------------------------------------------
(* One live invitation per e-mail                                            *)

\* After the clear, and until the insert, nothing is pending; another insert in
\* between is what `crossed` records.
LiveInv ==
    \A u \in Users \ crossed :
       /\ \A i, j \in PendingTo(u) : i = j
       /\ \A r \in Reqs : req[r].op = "invite" /\ req[r].at = "insert" /\ req[r].user = u =>
             PendingTo(u) = {}

LEMMA LiveImplies == TypeOK /\ LiveInv => OneLivePerEmail
<1> SUFFICES ASSUME LiveInv, NEW u \in Users, u \notin crossed
             PROVE  Cardinality(PendingTo(u)) <= 1
  BY DEF OneLivePerEmail
<1>1. CASE PendingTo(u) = {}
  BY <1>1, FS_EmptySet
<1>2. CASE PendingTo(u) # {}
  <2>1. PICK i \in PendingTo(u) : PendingTo(u) = {i}
    BY <1>2 DEF LiveInv
  <2> QED
    BY <2>1, FS_Singleton
<1> QED
  BY <1>1, <1>2

LEMMA LiveInit == Init => LiveInv
BY DEF Init, LiveInv, PendingTo, NoInvite, Idle

\* A step after which no request is at the insert that was not there before, and
\* nothing more is pending.
LEMMA LiveFrame ==
  ASSUME LiveInv, UNCHANGED crossed,
         \A i \in Invites : invite'[i].state \in {"pending", "expired"} =>
            invite[i].state \in {"pending", "expired"} /\ invite'[i].to = invite[i].to,
         \A r \in Reqs : \/ req'[r] = req[r]
                         \/ req'[r].op # "invite" \/ req'[r].at # "insert"
  PROVE  LiveInv'
<1>1. \A u \in Users : PendingTo(u)' \subseteq PendingTo(u)
  BY DEF PendingTo
<1> QED
  BY <1>1 DEF LiveInv

LEMMA LiveClear ==
  ASSUME TypeInv, LiveInv, NEW r \in Reqs, InviteClear(r)
  PROVE  LiveInv'
<1>0. TypeOK /\ req[r] \in Request /\ req[r].op = "invite"
  BY ReqType DEF TypeInv, InviteClear, At
<1>1. /\ \A q \in Reqs \ {r} : req'[q] = req[q]
      /\ req'[r].user = req[r].user
  <2>1. req' = [req EXCEPT ![r] = [req[r] EXCEPT !.at = "insert"]]
    BY DEF InviteClear, Goto, Become
  <2> QED
    BY <1>0, <2>1 DEF TypeInv, Request
<1>2. PendingTo(req[r].user)' = {}
  BY <1>0, <1>1 DEF InviteClear, Cleared, PendingTo, NoInvite, TypeOK
<1>3. \A u \in Users : PendingTo(u)' \subseteq PendingTo(u)
  BY <1>0 DEF InviteClear, Cleared, PendingTo, NoInvite, TypeOK
<1>4. \A u \in Users : u \notin crossed' => u \notin crossed \/ u = req[r].user
  BY DEF InviteClear
<1> QED
  BY <1>1, <1>2, <1>3, <1>4 DEF LiveInv

LEMMA LiveInsert ==
  ASSUME TypeInv, LiveInv, NEW r \in Reqs, InviteInsert(r)
  PROVE  LiveInv'
<1>0. TypeOK /\ req[r] \in Request /\ req[r].op = "invite" /\ req[r].at = "insert"
  BY ReqType DEF TypeInv, InviteInsert, At
<1>1. /\ \A q \in Reqs \ {r} : req'[q] = req[q]
      /\ req'[r].op = "none"
  BY FinishGood DEF InviteInsert, TypeInv, Idle
<1>2. PICK i \in Invites, ro \in Offers :
         invite' = [invite EXCEPT ![i] = [state |-> "pending", to |-> req[r].user, role |-> ro]]
  BY DEF InviteInsert
<1>3. ASSUME NEW u \in Users, u \notin crossed'
      PROVE  /\ \A j, k \in PendingTo(u)' : j = k
             /\ \A q \in Reqs : req'[q].op = "invite" /\ req'[q].at = "insert" /\ req'[q].user = u =>
                   PendingTo(u)' = {}
  <2>1. u \notin crossed
    BY <1>3 DEF InviteInsert
  <2>2. CASE u = req[r].user
    <3>1. PendingTo(u) = {}
      BY <1>0, <2>1, <2>2 DEF LiveInv
    <3>2. \A q \in Reqs \ {r} : ~(req[q].op = "invite" /\ req[q].at = "insert" /\ req[q].user = u)
      BY <1>3, <2>2 DEF InviteInsert, At
    <3>3. PendingTo(u)' \subseteq {i}
      BY <1>0, <1>2, <3>1 DEF PendingTo, TypeOK
    <3> QED
      BY <1>1, <3>2, <3>3
  <2>3. CASE u # req[r].user
    <3>1. PendingTo(u)' \subseteq PendingTo(u)
      BY <1>0, <1>2, <2>3 DEF PendingTo, TypeOK
    <3> QED
      BY <1>1, <2>1, <3>1 DEF LiveInv
  <2> QED
    BY <2>2, <2>3
<1> QED
  BY <1>3 DEF LiveInv

LEMMA LiveStep == TypeInv /\ LiveInv /\ [Next]_vars => LiveInv'
<1> SUFFICES ASSUME TypeInv, LiveInv, [Next]_vars PROVE LiveInv'
  OBVIOUS
<1>0. TypeOK /\ req \in [Reqs -> GoodReq]
  BY DEF TypeInv
<1>1. ASSUME UNCHANGED crossed, NEW r \in Reqs, \A q \in Reqs \ {r} : req'[q] = req[q],
             req'[r].op # "invite" \/ req'[r].at # "insert", UNCHANGED invite
      PROVE  LiveInv'
  BY <1>1, LiveFrame
<1>2. ASSUME NEW r \in Reqs, NEW q, Arrive(r, q), q.op # "invite" \/ q.at # "insert"
      PROVE  LiveInv'
  <2>1. \A p \in Reqs \ {r} : req'[p] = req[p]
    BY <1>0, <1>2 DEF Arrive, Become
  <2>2. req'[r] = q /\ UNCHANGED <<crossed, invite>>
    BY <1>0, <1>2 DEF Arrive, Become, tokens
  <2> QED
    BY <1>1, <1>2, <2>1, <2>2
<1>3. ASSUME NEW r \in Reqs,
             ArriveInvitation(r) \/ ArriveLink(r) \/ ArriveAccept(r) \/ ArriveJoin(r)
      PROVE  LiveInv'
  BY <1>2, <1>3 DEF ArriveInvitation, ArriveLink, ArriveAccept, ArriveJoin, Idle
<1>4. ASSUME NEW r \in Reqs, Finish(r) \/ \E stage : Goto(r, stage) /\ stage # "insert"
      PROVE  /\ \A q \in Reqs \ {r} : req'[q] = req[q]
             /\ req'[r].op # "invite" \/ req'[r].at # "insert"
  BY <1>0, <1>4, ReqType DEF Finish, Goto, Become, Idle, Request
<1>5. ASSUME NEW r \in Reqs, InviteCheck(r) \/ RevokeRead(r) PROVE LiveInv'
  <2>1. UNCHANGED <<crossed, invite>>
    BY <1>5 DEF InviteCheck, RevokeRead, tokens
  <2>2. Finish(r) \/ \E stage : Goto(r, stage) /\ stage # "insert"
    BY <1>5 DEF InviteCheck, RevokeRead
  <2> QED
    BY <1>1, <1>4, <2>1, <2>2
<1>6. ASSUME NEW r \in Reqs, RevokeDelete(r) PROVE LiveInv'
  <2>1. Finish(r) /\ UNCHANGED crossed
    BY <1>6 DEF RevokeDelete
  <2>2. \A i \in Invites : invite'[i] = invite[i] \/ invite'[i] = NoInvite
    BY <1>0, <1>6 DEF RevokeDelete, TypeOK
  <2> QED
    BY <1>4, <2>1, <2>2, LiveFrame DEF NoInvite
<1>7. ASSUME NEW r \in Reqs, AcceptRead(r) PROVE LiveInv'
  <2>1. UNCHANGED <<crossed, invite>> /\ req[r].op = "accept"
    BY <1>7 DEF AcceptRead, At
  <2>2. /\ \A q \in Reqs \ {r} : req'[q] = req[q]
        /\ req'[r].op # "invite"
    <3>1. CASE Finish(r)
      BY <1>0, <3>1 DEF Finish, Become, Idle
    <3>2. CASE \E ro : Become(r, [req[r] EXCEPT !.at = "member", !.role = ro])
      BY <1>0, <2>1, <3>2, ReqType DEF Become, Request
    <3> QED
      BY <1>7, <3>1, <3>2 DEF AcceptRead
  <2> QED
    BY <1>1, <2>1, <2>2
<1>8. ASSUME NEW r \in Reqs, AcceptMark(r) PROVE LiveInv'
  <2>1. Finish(r) /\ UNCHANGED crossed
    BY <1>8 DEF AcceptMark
  <2>2. ASSUME NEW i \in Invites, invite'[i].state \in {"pending", "expired"}
        PROVE  invite'[i] = invite[i]
    <3>1. CASE i # req[r].token
      BY <1>0, <1>8, <3>1 DEF AcceptMark, TypeOK
    <3>2. CASE i = req[r].token
      <4>1. invite'[i] = [invite[i] EXCEPT !.state = IF @ = "none" THEN @ ELSE "accepted"]
        BY <1>0, <1>8, <3>2 DEF AcceptMark, TypeOK
      <4>2. invite'[i].state = IF invite[i].state = "none" THEN "none" ELSE "accepted"
        BY <1>0, <4>1, InviteType DEF NoInvite, Invite
      <4> QED
        BY <2>2, <4>2
    <3> QED
      BY <3>1, <3>2
  <2> QED
    BY <1>4, <2>1, <2>2, LiveFrame
<1>9. ASSUME NEW r \in Reqs,
             \/ LinkClear(r) \/ LinkInsert(r) \/ LinkRead(r) \/ LinkUpdate(r) \/ LinkDelete(r)
             \/ JoinRead(r) \/ JoinAsk(r) \/ DecideRead(r) \/ DecideRequest(r) \/ DecideMark(r)
             \/ MemberCheck(r) \/ InsertMember(r) \/ Abort(r)
      PROVE  LiveInv'
  <2>1. UNCHANGED <<crossed, invite>>
    BY <1>9 DEF LinkClear, LinkInsert, LinkRead, LinkUpdate, LinkDelete, JoinRead, JoinAsk,
       DecideRead, DecideRequest, DecideMark, MemberCheck, InsertMember, Abort, tokens
  <2>2. CASE Finish(r)
    BY <1>1, <1>4, <2>1, <2>2
  <2>3. CASE ~Finish(r)
    <3>1. req[r].op # "invite"
      BY <1>9, <2>3 DEF LinkClear, LinkInsert, LinkRead, LinkUpdate, LinkDelete, JoinRead, JoinAsk,
         DecideRead, DecideRequest, DecideMark, MemberCheck, InsertMember, Abort, At
    <3>2. \/ \E stage : Goto(r, stage)
          \/ Become(r, [req[r] EXCEPT !.at = "write", !.token = link.id])
          \/ Become(r, [req[r] EXCEPT !.at = "member", !.role = link.role,
                                      !.permission = link.permission])
          \/ Become(r, [req[r] EXCEPT !.at = "request", !.role = link.role])
      BY <1>9, <2>3 DEF LinkClear, LinkInsert, LinkRead, LinkUpdate, LinkDelete, JoinRead, JoinAsk,
         DecideRead, DecideRequest, DecideMark, MemberCheck, InsertMember, Abort
    <3>3. /\ \A q \in Reqs \ {r} : req'[q] = req[q]
          /\ req'[r].op # "invite"
      BY <1>0, <3>1, <3>2, ReqType, ZenonT(60) DEF Goto, Become, Request
    <3> QED
      BY <1>1, <2>1, <3>3
  <2> QED
    BY <2>2, <2>3
<1>10. ASSUME NEW u \in Known, AddMember(u) \/ RemoveMember(u) PROVE LiveInv'
  BY <1>10, LiveFrame DEF AddMember, RemoveMember, tokens
<1>11. CASE InviteExpires
  <2>1. PICK i \in Invites : /\ invite[i].state = "pending"
                             /\ invite' = [invite EXCEPT ![i].state = "expired"]
    BY <1>11 DEF InviteExpires
  <2>2. invite[i] \in Invite
    BY <1>0, <2>1, InviteType DEF NoInvite
  <2>3. /\ invite'[i].to = invite[i].to
        /\ \A j \in Invites \ {i} : invite'[j] = invite[j]
    BY <1>0, <2>1, <2>2 DEF TypeOK, Invite
  <2>4. UNCHANGED <<req, crossed>>
    BY <1>11 DEF InviteExpires
  <2> QED
    BY <2>1, <2>3, <2>4, LiveFrame
<1>12. CASE UNCHANGED vars
  BY <1>12, LiveFrame DEF vars, tokens
<1> QED
  BY <1>3, <1>5, <1>6, <1>7, <1>8, <1>9, <1>10, <1>11, <1>12, LiveClear, LiveInsert DEF Next, Step

\* Two invitations to one address are never live together, unless they were
\* being sent at the same time.
THEOREM OneLiveSafe == Spec => []OneLivePerEmail
<1>1. Spec => []LiveInv
  BY LiveInit, LiveStep, TypesAlways, PTL DEF Spec
<1> QED
  BY <1>1, LiveImplies, TypeCorrect, PTL

----------------------------------------------------------------------------
(* Decisions on join requests                                                *)

\* A decision that has found the request of u open, through the link with this id.
Deciding(q, u, id) == /\ q.op = "decide" /\ q.user = u /\ q.token = id
                      /\ q.at \in {"member", "insert", "mark"}

\* While a decision is under way the request stays open, and only an approval
\* has let its user in; what overlapped or died is contested.
DecideInv ==
    /\ link = NoLink => letIn = {}
    /\ \A u \in Users \ contested :
         /\ \A q, r \in Reqs :
              Deciding(req[q], u, link.id) /\ Deciding(req[r], u, link.id) => q = r
         /\ \A r \in Reqs : Deciding(req[r], u, link.id) =>
              /\ asked[u] = "PENDING"
              /\ req[r].at # "mark" => u \notin letIn /\ req[r].status = "APPROVED"
              /\ u \in letIn => req[r].status = "APPROVED"
         /\ u \in letIn => \/ asked[u] = "APPROVED"
                           \/ \E r \in Reqs : Deciding(req[r], u, link.id) /\ req[r].at = "mark"

LEMMA DecideImplies == TypeOK /\ DecideInv => DecisionsAgree
BY DEF TypeOK, DecideInv, DecisionsAgree

LEMMA DecideInit == Init => DecideInv
BY DEF Init, DecideInv, Deciding, Idle

\* A step of requests that are not deciding.
LEMMA DecideFrame ==
  ASSUME DecideInv, link'.id = link.id, link' = NoLink => link = NoLink,
         contested \subseteq contested',
         \A u \in Users : \/ asked'[u] = asked[u] /\ (u \in letIn' <=> u \in letIn)
                          \/ asked'[u] = "PENDING" /\ u \notin letIn',
         link' = NoLink => letIn' = {},
         \A r \in Reqs : \/ req'[r] = req[r]
                         \/ \A u \in Users : /\ ~Deciding(req[r], u, link.id)
                                             /\ ~Deciding(req'[r], u, link.id)
  PROVE  DecideInv'
<1>1. ASSUME NEW u \in Users, u \notin contested'
      PROVE  /\ \A q, r \in Reqs :
                  Deciding(req'[q], u, link'.id) /\ Deciding(req'[r], u, link'.id) => q = r
             /\ \A r \in Reqs : Deciding(req'[r], u, link'.id) =>
                  /\ asked'[u] = "PENDING"
                  /\ req'[r].at # "mark" => u \notin letIn' /\ req'[r].status = "APPROVED"
                  /\ u \in letIn' => req'[r].status = "APPROVED"
             /\ u \in letIn' => \/ asked'[u] = "APPROVED"
                                \/ \E r \in Reqs : Deciding(req'[r], u, link'.id) /\ req'[r].at = "mark"
  <2>1. \A r \in Reqs : \/ req'[r] = req[r]
                        \/ ~Deciding(req[r], u, link.id) /\ ~Deciding(req'[r], u, link.id)
    BY <1>1
  <2>2. u \in Users \ contested /\ link'.id = link.id
    BY <1>1
  <2>3. CASE asked'[u] = asked[u] /\ (u \in letIn' <=> u \in letIn)
    BY <2>1, <2>2, <2>3 DEF DecideInv
  <2>4. CASE asked'[u] = "PENDING" /\ u \notin letIn'
    BY <2>1, <2>2, <2>4 DEF DecideInv
  <2> QED
    BY <1>1, <2>3, <2>4
<1> QED
  BY <1>1 DEF DecideInv, Deciding

\* When there was no link, or is none any more, nobody is being decided on.
LEMMA DecideFresh ==
  ASSUME letIn' = {}, \A r \in Reqs : req'[r].op = "decide" => req'[r].token # link'.id
  PROVE  DecideInv'
BY DEF DecideInv, Deciding

LEMMA DecideArrive ==
  ASSUME TypeInv, DecideInv, NEW r \in Reqs,
         ArriveInvitation(r) \/ ArriveLink(r) \/ ArriveAccept(r) \/ ArriveJoin(r)
  PROVE  DecideInv'
<1>1. ASSUME NEW q, Arrive(r, q), q.op = "decide" => q.at = "read"
      PROVE  DecideInv'
  <2>1. \A p \in Reqs \ {r} : req'[p] = req[p]
    BY <1>1 DEF Arrive, Become, TypeInv
  <2>2. req[r] = Idle /\ req'[r] = q /\ UNCHANGED links
    BY <1>1 DEF Arrive, Free, Become, TypeInv
  <2>3. \A u \in Users : ~Deciding(req[r], u, link.id) /\ ~Deciding(req'[r], u, link.id)
    BY <1>1, <2>2 DEF Deciding, Idle
  <2> QED
    BY <2>1, <2>2, <2>3, DecideFrame DEF DecideInv, links, requests
<1> QED
  BY <1>1 DEF ArriveInvitation, ArriveLink, ArriveAccept, ArriveJoin, Idle

\* The steps of the operations that decide nothing.
LEMMA DecideElse ==
  ASSUME TypeInv, DecideInv, NEW r \in Reqs, req[r].op # "decide",
         \/ InviteCheck(r) \/ InviteClear(r) \/ InviteInsert(r)
         \/ RevokeRead(r) \/ RevokeDelete(r) \/ AcceptRead(r) \/ AcceptMark(r)
         \/ LinkClear(r) \/ LinkInsert(r) \/ LinkRead(r) \/ LinkUpdate(r) \/ LinkDelete(r)
         \/ JoinRead(r) \/ JoinAsk(r) \/ MemberCheck(r) \/ InsertMember(r) \/ Abort(r)
  PROVE  DecideInv'
<1> USE DEF links, requests
<1>0. /\ TypeOK /\ req[r] \in Request /\ req \in [Reqs -> GoodReq]
      /\ \A q \in Reqs : req[q].op = "decide" => req[q].token \in Links
  BY ReqType DEF TypeInv, GoodReq
<1>1. /\ \A q \in Reqs \ {r} : req'[q] = req[q]
      /\ req'[r].op # "decide"
  <2>1. \/ Finish(r) \/ \E stage : Goto(r, stage)
        \/ \E token : Become(r, [req[r] EXCEPT !.at = "write", !.token = token])
        \/ \E ro : Become(r, [req[r] EXCEPT !.at = "member", !.role = ro])
        \/ \E ro, p : Become(r, [req[r] EXCEPT !.at = "member", !.role = ro, !.permission = p])
    BY DEF InviteCheck, InviteClear, InviteInsert, RevokeRead, RevokeDelete, AcceptRead, AcceptMark,
       LinkClear, LinkInsert, LinkRead, LinkUpdate, LinkDelete, JoinRead, JoinAsk,
       MemberCheck, InsertMember, Abort
  <2>2. CASE Finish(r)
    BY <1>0, <2>2 DEF Finish, Become, Idle
  <2>3. CASE \E stage : Goto(r, stage)
    BY <1>0, <2>3 DEF Goto, Become, Request
  <2>4. CASE \E token : Become(r, [req[r] EXCEPT !.at = "write", !.token = token])
    BY <1>0, <2>4 DEF Become, Request
  <2>5. CASE \E ro : Become(r, [req[r] EXCEPT !.at = "member", !.role = ro])
    BY <1>0, <2>5 DEF Become, Request
  <2>6. CASE \E ro, p : Become(r, [req[r] EXCEPT !.at = "member", !.role = ro, !.permission = p])
    BY <1>0, <2>6 DEF Become, Request
  <2> QED
    BY <2>1, <2>2, <2>3, <2>4, <2>5, <2>6
<1>2. ASSUME link'.id = link.id, link' = NoLink => link = NoLink,
             UNCHANGED <<asked, letIn>>, contested \subseteq contested'
      PROVE  DecideInv'
  BY <1>1, <1>2, DecideFrame DEF DecideInv, Deciding
<1>3. CASE \/ InviteCheck(r) \/ InviteClear(r) \/ InviteInsert(r)
           \/ RevokeRead(r) \/ RevokeDelete(r) \/ AcceptRead(r) \/ AcceptMark(r)
           \/ LinkRead(r) \/ JoinRead(r) \/ MemberCheck(r) \/ Abort(r)
  BY <1>2, <1>3 DEF InviteCheck, InviteClear, InviteInsert, RevokeRead, RevokeDelete, AcceptRead,
     AcceptMark, LinkRead, JoinRead, MemberCheck, Abort
<1>4. CASE LinkClear(r) \/ LinkDelete(r)
  <2>1. link'.id \notin Links /\ letIn' = {}
    BY <1>4, InvitationAssumption DEF LinkClear, LinkDelete, Unlinked, NoLink
  <2> QED
    BY <1>0, <1>1, <2>1, DecideFresh
<1>5. CASE LinkInsert(r) /\ link = NoLink
  <2>1. PICK l \in Links : ~Named(l) /\ link'.id = l
    BY <1>5 DEF LinkInsert
  <2>2. letIn' = {}
    BY <1>5 DEF LinkInsert, DecideInv
  <2> QED
    BY <1>1, <2>1, <2>2, DecideFresh DEF Named
<1>6. CASE LinkInsert(r) /\ link # NoLink
  BY <1>2, <1>6 DEF LinkInsert
<1>7. CASE LinkUpdate(r)
  <2>1. CASE link.id = req[r].token
    <3>1. link \in Link
      BY <1>0, <1>7, <2>1, LinkType DEF LinkUpdate, At, GoodReq
    <3>2. link'.id = link.id /\ link' # NoLink
      <4>1. PICK ro, p : link' = [link EXCEPT !.role = ro, !.permission = p]
        BY <1>7, <2>1 DEF LinkUpdate
      <4>2. link'.id = link.id /\ link.id \in Links
        BY <3>1, <4>1 DEF Link
      <4> QED
        BY <4>2, InvitationAssumption DEF NoLink
    <3> QED
      BY <1>2, <1>7, <3>2 DEF LinkUpdate
  <2>2. CASE link.id # req[r].token
    BY <1>2, <1>7, <2>2 DEF LinkUpdate
  <2> QED
    BY <2>1, <2>2
<1>8. CASE JoinAsk(r)
  <2>1. CASE link.id = req[r].token
    <3>1. \A u \in Users : \/ asked'[u] = asked[u] /\ (u \in letIn' <=> u \in letIn)
                           \/ asked'[u] = "PENDING" /\ u \notin letIn'
      BY <1>0, <1>8, <2>1 DEF JoinAsk, TypeOK
    <3>2. UNCHANGED <<link, contested>> /\ (link = NoLink => letIn' = {})
      BY <1>8, <2>1 DEF JoinAsk, DecideInv
    <3> QED
      BY <1>1, <3>1, <3>2, DecideFrame DEF Deciding
  <2>2. CASE link.id # req[r].token
    BY <1>2, <1>8, <2>2 DEF JoinAsk
  <2> QED
    BY <2>1, <2>2
<1>9. CASE InsertMember(r)
  BY <1>2, <1>9 DEF InsertMember
<1> QED
  BY <1>3, <1>4, <1>5, <1>6, <1>7, <1>8, <1>9

\* The statements of a decision.
LEMMA DecideOwn ==
  ASSUME TypeInv, DecideInv, NEW r \in Reqs, req[r].op = "decide",
         \/ DecideRead(r) \/ DecideRequest(r) \/ DecideMark(r)
         \/ MemberCheck(r) \/ InsertMember(r) \/ Abort(r)
  PROVE  DecideInv'
<1> DEFINE w == req[r].user
<1>0. /\ TypeOK /\ req[r] \in Request /\ req \in [Reqs -> GoodReq]
      /\ w \in Users /\ req[r].token \in Links /\ req[r].status \in Statuses
      /\ letIn \subseteq Users
  BY ReqType DEF TypeInv, GoodReq, TypeOK
<1>1. /\ \A q \in Reqs \ {r} : req'[q] = req[q]
      /\ \/ req'[r] = Idle
         \/ /\ req'[r].op = "decide" /\ req'[r].user = w
            /\ req'[r].token = req[r].token /\ req'[r].status = req[r].status
  <2>1. \/ Finish(r) \/ \E stage : Goto(r, stage)
        \/ \E ro : Become(r, [req[r] EXCEPT !.at = "request", !.role = ro])
    BY DEF DecideRead, DecideRequest, DecideMark, MemberCheck, InsertMember, Abort
  <2>2. CASE Finish(r)
    BY <1>0, <2>2 DEF Finish, Become
  <2>3. CASE \E stage : Goto(r, stage)
    BY <1>0, <2>3 DEF Goto, Become, Request
  <2>4. CASE \E ro : Become(r, [req[r] EXCEPT !.at = "request", !.role = ro])
    BY <1>0, <2>4 DEF Become, Request
  <2> QED
    BY <2>1, <2>2, <2>3, <2>4
<1>2. UNCHANGED link
  BY DEF DecideRead, DecideRequest, DecideMark, MemberCheck, InsertMember, Abort, links
<1> HIDE DEF w
<1>3. link = NoLink => link.id # req[r].token
  BY <1>0, InvitationAssumption DEF NoLink
\* For other users, and through other links, nothing changes.
<1>4. ASSUME NEW u \in Users, u # w \/ link.id # req[r].token
      PROVE  /\ asked'[u] = asked[u] /\ (u \in letIn' <=> u \in letIn)
             /\ \A q \in Reqs : Deciding(req'[q], u, link.id) <=> Deciding(req[q], u, link.id)
             /\ \A q \in Reqs : Deciding(req[q], u, link.id) => req'[q] = req[q]
  <2>1. asked'[u] = asked[u]
    BY <1>0, <1>4 DEF DecideRead, DecideRequest, DecideMark, MemberCheck, InsertMember, Abort,
       links, requests, TypeOK, w
  <2>2. u \in letIn' <=> u \in letIn
    BY <1>4 DEF DecideRead, DecideRequest, DecideMark, MemberCheck, InsertMember, Abort,
       links, requests, w
  <2>3. ~Deciding(req[r], u, link.id) /\ ~Deciding(req'[r], u, link.id)
    BY <1>1, <1>4 DEF Deciding, Idle, w
  <2> QED
    BY <1>1, <2>1, <2>2, <2>3
<1>5. contested \subseteq contested'
  BY DEF DecideRead, DecideRequest, DecideMark, MemberCheck, InsertMember, Abort, links, requests
<1>6. ASSUME link.id = req[r].token /\ w \notin contested' =>
               /\ \A q, p \in Reqs :
                    Deciding(req'[q], w, link.id) /\ Deciding(req'[p], w, link.id) => q = p
               /\ \A q \in Reqs : Deciding(req'[q], w, link.id) =>
                    /\ asked'[w] = "PENDING"
                    /\ req'[q].at # "mark" => w \notin letIn' /\ req'[q].status = "APPROVED"
                    /\ w \in letIn' => req'[q].status = "APPROVED"
               /\ w \in letIn' => \/ asked'[w] = "APPROVED"
                                  \/ \E q \in Reqs : Deciding(req'[q], w, link.id) /\ req'[q].at = "mark"
      PROVE  DecideInv'
  <2>1. link' = NoLink => letIn' = {}
    <3>1. letIn' \subseteq Users
      BY <1>0 DEF DecideRead, DecideRequest, DecideMark, MemberCheck, InsertMember, Abort,
         links, requests, w
    <3> QED
      BY <1>0, <1>2, <1>3, <1>4, <3>1 DEF DecideInv
  <2>2. ASSUME NEW u \in Users, u \notin contested', u # w \/ link.id # req[r].token
        PROVE  /\ \A q, p \in Reqs :
                    Deciding(req'[q], u, link.id) /\ Deciding(req'[p], u, link.id) => q = p
               /\ \A q \in Reqs : Deciding(req'[q], u, link.id) =>
                    /\ asked'[u] = "PENDING"
                    /\ req'[q].at # "mark" => u \notin letIn' /\ req'[q].status = "APPROVED"
                    /\ u \in letIn' => req'[q].status = "APPROVED"
               /\ u \in letIn' => \/ asked'[u] = "APPROVED"
                                  \/ \E q \in Reqs : Deciding(req'[q], u, link.id) /\ req'[q].at = "mark"
    <3>1. u \in Users \ contested
      BY <1>5, <2>2
    <3> QED
      BY <1>4, <2>2, <3>1 DEF DecideInv
  <2> QED
    BY <1>2, <1>6, <2>1, <2>2 DEF DecideInv, Deciding
\* From here on r is deciding on w through the link there is.
<1>7. CASE link.id # req[r].token
  BY <1>6, <1>7
<1>8. ASSUME link.id = req[r].token, w \notin contested'
      PROVE  /\ \A q, p \in Reqs :
                  Deciding(req'[q], w, link.id) /\ Deciding(req'[p], w, link.id) => q = p
             /\ \A q \in Reqs : Deciding(req'[q], w, link.id) =>
                  /\ asked'[w] = "PENDING"
                  /\ req'[q].at # "mark" => w \notin letIn' /\ req'[q].status = "APPROVED"
                  /\ w \in letIn' => req'[q].status = "APPROVED"
             /\ w \in letIn' => \/ asked'[w] = "APPROVED"
                                \/ \E q \in Reqs : Deciding(req'[q], w, link.id) /\ req'[q].at = "mark"
  <2> USE DEF links, requests
  <2>0. w \in Users \ contested
    BY <1>0, <1>5, <1>8
  <2>1. CASE DecideRead(r)
    <3>1. ~Deciding(req[r], w, link.id) /\ ~Deciding(req'[r], w, link.id)
      <4>1. CASE Finish(r)
        BY <1>0, <2>1, <4>1 DEF DecideRead, At, Deciding, Finish, Become, Idle
      <4>2. CASE \E ro : Become(r, [req[r] EXCEPT !.at = "request", !.role = ro])
        BY <1>0, <2>1, <4>2 DEF DecideRead, At, Deciding, Become, Request
      <4> QED
        BY <2>1, <4>1, <4>2 DEF DecideRead
    <3> QED
      BY <1>1, <2>0, <2>1, <3>1 DEF DecideRead, DecideInv
  <2>2. CASE DecideRequest(r)
    <3>1. ~Deciding(req[r], w, link.id) /\ UNCHANGED <<asked, letIn>>
      BY <2>2 DEF DecideRequest, At, Deciding
    <3>2. CASE Open(w)
      <4>1. ~Rival(r, "decide") /\ Goto(r, IF req[r].status = "APPROVED" THEN "member" ELSE "mark")
        BY <1>8, <2>2, <3>2 DEF DecideRequest, w
      <4>2. \A q \in Reqs : ~Deciding(req[q], w, link.id)
        BY <1>8, <3>1, <4>1 DEF Rival, Deciding, w
      <4>3. w \notin letIn /\ asked[w] = "PENDING"
        BY <2>0, <3>2, <4>2 DEF DecideInv, Open
      <4>4. req'[r].at = IF req[r].status = "APPROVED" THEN "member" ELSE "mark"
        BY <1>0, <4>1 DEF Goto, Become, Request
      <4>5. req'[r].at # "mark" => req'[r].status = "APPROVED"
        BY <1>1, <4>4 DEF Idle
      <4> QED
        BY <1>1, <3>1, <4>2, <4>3, <4>5
    <3>3. CASE ~Open(w)
      <4>1. req'[r] = Idle
        BY <1>0, <2>2, <3>3 DEF DecideRequest, Finish, Become, w
      <4>2. ~Deciding(req'[r], w, link.id)
        BY <4>1 DEF Deciding, Idle
      <4> QED
        BY <1>1, <2>0, <3>1, <4>2 DEF DecideInv
    <3> QED
      BY <3>2, <3>3
  <2>3. ASSUME Deciding(req[r], w, link.id)
        PROVE  /\ \A q \in Reqs \ {r} : ~Deciding(req[q], w, link.id) /\ ~Deciding(req'[q], w, link.id)
               /\ asked[w] = "PENDING"
               /\ req[r].at # "mark" => w \notin letIn /\ req[r].status = "APPROVED"
               /\ w \in letIn => req[r].status = "APPROVED"
    BY <1>1, <2>0, <2>3 DEF DecideInv
  <2>4. CASE DecideMark(r)
    <3>1. Deciding(req[r], w, link.id) /\ req'[r] = Idle
      BY <1>0, <1>8, <2>4 DEF DecideMark, At, Deciding, Finish, Become, w
    <3>2. ~Deciding(req'[r], w, link.id)
      BY <3>1 DEF Deciding, Idle
    <3>3. asked'[w] = req[r].status /\ letIn' = letIn
      BY <1>0, <1>8, <2>4 DEF DecideMark, TypeOK, w
    <3>4. w \in letIn => req[r].status = "APPROVED"
      BY <2>3, <3>1
    <3> QED
      BY <2>3, <3>1, <3>2, <3>3, <3>4
  <2>5. CASE MemberCheck(r)
    <3>1. /\ req[r].at = "member" /\ UNCHANGED <<asked, letIn>>
          /\ \E stage \in {"mark", "insert"} : Goto(r, stage)
      BY <2>5 DEF MemberCheck
    <3>2. Deciding(req[r], w, link.id)
      BY <1>8, <3>1 DEF Deciding, w
    <3>3. req'[r].status = "APPROVED"
      BY <1>0, <2>3, <3>1, <3>2 DEF Goto, Become, Request
    <3> QED
      BY <2>3, <3>1, <3>2, <3>3
  <2>6. CASE InsertMember(r)
    <3>1. req[r].at = "insert" /\ UNCHANGED asked
      BY <2>6 DEF InsertMember
    <3>2. Deciding(req[r], w, link.id)
      BY <1>8, <3>1 DEF Deciding, w
    <3>3. CASE Finish(r) /\ UNCHANGED letIn
      <4>1. ~Deciding(req'[r], w, link.id)
        BY <1>0, <3>3 DEF Finish, Become, Idle, Deciding
      <4> QED
        BY <2>3, <3>1, <3>2, <3>3, <4>1
    <3>4. CASE Goto(r, "mark")
      <4>1. req'[r].at = "mark" /\ req'[r].status = "APPROVED" /\ Deciding(req'[r], w, link.id)
        BY <1>0, <2>3, <3>1, <3>2, <3>4 DEF Goto, Become, Request, Deciding
      <4> QED
        BY <2>3, <3>1, <3>2, <4>1
    <3> QED
      BY <2>6, <3>3, <3>4 DEF InsertMember
  <2>7. CASE Abort(r)
    <3>1. req'[r] = Idle /\ UNCHANGED <<asked, letIn>>
      BY <1>0, <2>7 DEF Abort, Finish, Become
    <3>2. ~Deciding(req'[r], w, link.id)
      BY <3>1 DEF Deciding, Idle
    <3>3. req[r].at # "mark"
      BY <1>8, <2>7 DEF Abort, At, w
    <3>4. CASE Deciding(req[r], w, link.id)
      BY <2>3, <3>1, <3>2, <3>3, <3>4
    <3>5. CASE ~Deciding(req[r], w, link.id)
      BY <1>1, <2>0, <3>1, <3>2, <3>5 DEF DecideInv
    <3> QED
      BY <3>4, <3>5
  <2> QED
    BY <2>1, <2>2, <2>4, <2>5, <2>6, <2>7
<1> QED
  BY <1>6, <1>8

LEMMA DecideStep == TypeInv /\ DecideInv /\ [Next]_vars => DecideInv'
<1> SUFFICES ASSUME TypeInv, DecideInv, [Next]_vars PROVE DecideInv'
  OBVIOUS
<1>1. ASSUME NEW r \in Reqs, Step(r) PROVE DecideInv'
  <2>1. CASE ArriveInvitation(r) \/ ArriveLink(r) \/ ArriveAccept(r) \/ ArriveJoin(r)
    BY <2>1, DecideArrive
  <2>2. CASE req[r].op # "decide"
    BY <1>1, <2>1, <2>2, DecideElse DEF Step, DecideRead, DecideRequest, DecideMark, At
  <2>3. CASE req[r].op = "decide"
    BY <1>1, <2>1, <2>3, DecideOwn DEF Step, InviteCheck, InviteClear, InviteInsert, RevokeRead,
       RevokeDelete, AcceptRead, AcceptMark, LinkClear, LinkInsert, LinkRead, LinkUpdate,
       LinkDelete, JoinRead, JoinAsk, At
  <2> QED
    BY <2>2, <2>3
<1>2. CASE UNCHANGED <<req, links>>
  BY <1>2 DEF links, requests, DecideInv, Deciding
<1>3. CASE \E u \in Known : AddMember(u) \/ RemoveMember(u)
  BY <1>2, <1>3 DEF AddMember, RemoveMember
<1>4. CASE InviteExpires
  BY <1>2, <1>4 DEF InviteExpires
<1>5. CASE UNCHANGED vars
  BY <1>2, <1>5 DEF vars
<1> QED
  BY <1>1, <1>3, <1>4, <1>5 DEF Next

\* Whatever requests, decisions and changes of the link interleave, a rejected
\* user is not let in, unless decisions on his request overlapped or one died.
THEOREM DecisionsSafe == Spec => []DecisionsAgree
<1>1. Spec => []DecideInv
  BY DecideInit, DecideStep, TypesAlways, PTL DEF Spec
<1> QED
  BY <1>1, DecideImplies, TypeCorrect, PTL
=============================================================================

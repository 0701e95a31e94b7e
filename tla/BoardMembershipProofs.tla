----------------------- MODULE BoardMembershipProofs -----------------------
(* Theorems about BoardMembership, for any users, cards, slots and inputs.   *)
EXTENDS BoardMembership, TLAPS

LEMMA IdleType == Idle \in WellFormed
  BY BoardAssumption
     DEF WellFormed, HoldsInputs, Idle, Request, NoAccess, Access, AllMethods, Stages

LEMMA BecomeType ==
  ASSUME TypeOK, NEW r \in Reqs, NEW rec \in WellFormed, Become(r, rec)
  PROVE  req' \in [Reqs -> WellFormed]
  BY DEF TypeOK, Become

LEMMA SlotType ==
  ASSUME TypeOK, NEW r \in Reqs
  PROVE  req[r] \in WellFormed
  BY DEF TypeOK

LEMMA AdmitType ==
  ASSUME NEW q \in WellFormed, q.at # "idle", q.method # "join"
  PROVE  [q EXCEPT !.at = "run", !.access = NoAccess] \in WellFormed
  BY BoardAssumption, ZenonT(60)
     DEF WellFormed, HoldsInputs, Request, Stages, NoAccess, Access

LEMMA LevelType == \A ro \in Roles \cup {None} : Level(ro) \in 0..4
  BY BoardAssumption DEF Level, RoleLevel, Roles

LEMMA RequiredType == \A m \in AllMethods \ {"join"} : RoleLevel[Required[m]] \in 1..4
  BY DEF AllMethods, RoleLevel, Required

LEMMA SetMembersType ==
  ASSUME TypeOK, NEW o \in Users \cup {None}, NEW ro \in [Users -> Roles \cup {None}],
         SetMembers(o, ro)
  PROVE  /\ ownerId' \in Users \cup {None} /\ role' \in [Users -> Roles \cup {None}]
         /\ held' \in [Users -> 0..4] /\ owners' \subseteq Users
         /\ \A u \in Users : held'[u] >= held[u] /\ held'[u] >= Level(role'[u])
         /\ \A u \in Users : ownerId' = u => held'[u] = 4
         /\ owners \subseteq owners'
         /\ ownerId' # None => ownerId' \in owners'
<1>1. /\ ownerId' = o /\ role' = ro /\ owners' = owners \cup ({o} \ {None})
      /\ \A u \in Users : Level(ro[u]) \in 0..4
  BY LevelType DEF SetMembers
<1>2. RoleLevel["OWNER"] = 4
  BY DEF RoleLevel
<1>3. \A u \in Users : held'[u] = Highest(held[u], IF o = u THEN 4 ELSE Level(ro[u]))
  BY <1>2 DEF SetMembers
<1>4. \A u \in Users : held[u] \in 0..4 /\ held'[u] \in 0..4
                       /\ held'[u] >= held[u] /\ held'[u] >= Level(ro[u])
                       /\ (o = u => held'[u] = 4)
  BY <1>1, <1>3 DEF TypeOK, Highest
<1>5. held' \in [Users -> 0..4]
  BY <1>4 DEF SetMembers
<1> QED
  BY <1>1, <1>4, <1>5 DEF TypeOK

LEMMA FillType ==
  ASSUME NEW q \in WellFormed, q.at = "readBoard", NEW a \in Access
  PROVE  [q EXCEPT !.at = "fill", !.access = a] \in WellFormed
  BY DEF WellFormed, HoldsInputs, Request, Stages

LEMMA SeenType ==
  ASSUME NEW q \in WellFormed, q.at = "run", NEW ro \in Roles, q.newRole # "OWNER",
         q.method \in {"updateMemberRole", "removeMember"}
  PROVE  [q EXCEPT !.at = "readCaller", !.seen = ro] \in WellFormed
  BY BoardAssumption DEF WellFormed, HoldsInputs, Request, Stages, Access, NoAccess, AllMethods

LEMMA CallerType ==
  ASSUME NEW q \in WellFormed, q.at = "readCaller",
         NEW a, a = IF q.method = "updateMemberRole" THEN "write" ELSE "readCards"
  PROVE  [q EXCEPT !.seen = None, !.at = a] \in WellFormed
  <1> DEFINE p == [q EXCEPT !.seen = None, !.at = a]
<1>1. p \in Request
  BY BoardAssumption, ZenonT(60) DEF WellFormed, Request, Stages
<1>2. /\ p.method = q.method /\ p.caller = q.caller /\ p.target = q.target
      /\ p.newRole = q.newRole /\ p.card = q.card /\ p.at = a
  BY DEF WellFormed, Request
<1>3. HoldsInputs(q)
  BY DEF WellFormed
<1> HIDE DEF p
<1>4. HoldsInputs(p)
  BY <1>2, <1>3 DEF HoldsInputs
<1> QED
  BY <1>1, <1>4 DEF WellFormed, p

LEMMA CardsType ==
  ASSUME NEW q \in WellFormed, q.at = "readCards", NEW S \in SUBSET Cards
  PROVE  [q EXCEPT !.at = "write", !.cards = S] \in WellFormed
  BY BoardAssumption DEF WellFormed, HoldsInputs, Request, Stages, Access, NoAccess, AllMethods

LEMMA JoinType ==
  ASSUME NEW q \in WellFormed, q.method = "join", q.at = "run", NEW ro \in JoinRoles
  PROVE  [q EXCEPT !.at = "write", !.newRole = ro] \in WellFormed
  BY BoardAssumption DEF WellFormed, HoldsInputs, Request, Stages, Access, NoAccess, AllMethods

LEMMA WriteType ==
  ASSUME NEW q \in WellFormed, q.at = "run", q.method # "join", q.newRole # "OWNER"
  PROVE  [q EXCEPT !.at = "write"] \in WellFormed
  BY BoardAssumption DEF WellFormed, HoldsInputs, Request, Stages, Access, NoAccess, AllMethods

LEMMA PlainWriteType ==
  ASSUME NEW q \in WellFormed, q.at = "run",
         q.method \in {"transferOwnership", "assignMember"}
  PROVE  [q EXCEPT !.at = "write"] \in WellFormed
  BY BoardAssumption DEF WellFormed, HoldsInputs, Request, Stages, Access, NoAccess, AllMethods

LEMMA ReadCardsType ==
  ASSUME NEW q \in WellFormed, q.method = "leaveBoard", q.at = "run"
  PROVE  [q EXCEPT !.at = "readCards"] \in WellFormed
  BY BoardAssumption DEF WellFormed, HoldsInputs, Request, Stages, Access, NoAccess, AllMethods

LEMMA ReadBoardType ==
  ASSUME NEW q \in WellFormed, q.at = "cacheGet"
  PROVE  [q EXCEPT !.at = "readBoard"] \in WellFormed
  BY BoardAssumption DEF WellFormed, HoldsInputs, Request, Stages, Access, NoAccess, AllMethods

LEMMA InvalidateType ==
  ASSUME NEW q \in WellFormed, q.at # "idle", q.method # "join"
  PROVE  [q EXCEPT !.at = "invalidate"] \in WellFormed
  BY BoardAssumption DEF WellFormed, HoldsInputs, Request, Stages, Access, NoAccess, AllMethods

LEMMA RemovedType ==
  ASSUME NEW q \in WellFormed, q.at # "idle", q.method # "join"
  PROVE  [q EXCEPT !.at = "invalidate", !.cards = {}] \in WellFormed
  <1> DEFINE p == [q EXCEPT !.at = "invalidate", !.cards = {}]
<1>1. p \in Request
  BY BoardAssumption DEF WellFormed, Request, Stages
<1>2. /\ p.method = q.method /\ p.caller = q.caller /\ p.target = q.target
      /\ p.newRole = q.newRole /\ p.card = q.card /\ p.at = "invalidate"
  BY DEF WellFormed, Request
<1>3. HoldsInputs(q)
  BY DEF WellFormed
<1> HIDE DEF p
<1>4. HoldsInputs(p)
  BY <1>2, <1>3 DEF HoldsInputs
<1> QED
  BY <1>1, <1>4 DEF WellFormed, p

LEMMA ArriveType ==
  ASSUME NEW m \in Methods, NEW u \in Users, NEW t \in Users, NEW ro \in GivenRoles,
         NEW c \in Cards
  PROVE  Incoming(m, u, t, ro, c) \in WellFormed
<1> DEFINE p == Incoming(m, u, t, ro, c)
<1>1. m \in AllMethods /\ m # "none" /\ ro \in Roles /\ NoAccess \in Access
  BY BoardAssumption DEF AllMethods, NoAccess, Access
<1>2. p \in Request
  BY <1>1 DEF Incoming, Request, Stages
<1>3. HoldsInputs(p)
  BY <1>1 DEF HoldsInputs, Incoming
<1> QED
  BY <1>2, <1>3 DEF WellFormed

LEMMA ProceedType ==
  ASSUME TypeOK, NEW r \in Reqs, NEW condition, NEW rec,
         condition => rec \in WellFormed, Proceed(r, condition, rec)
  PROVE  req' \in [Reqs -> WellFormed]
  BY IdleType, BecomeType DEF Proceed, Finish

LEMMA ReadOnlyType ==
  ASSUME TypeOK, ReadOnly, req' \in [Reqs -> WellFormed]
  PROVE  TypeOK'
  BY DEF TypeOK, ReadOnly, sql, history

LEMMA AtGuard ==
  ASSUME NEW q, HoldsInputs(q), q.at \in {"cacheGet", "readBoard", "fill"}
  PROVE  q.at # "idle" /\ q.method # "join"
  BY DEF HoldsInputs

LEMMA DecideType ==
  ASSUME TypeOK, NEW r \in Reqs, NEW a, req[r].at \in {"cacheGet", "fill"},
         Decide(r, a)
  PROVE  req' \in [Reqs -> WellFormed]
<1>0. req[r] \in WellFormed /\ HoldsInputs(req[r])
  BY SlotType DEF WellFormed
<1>1. req[r] \in WellFormed /\ req[r].at # "idle" /\ req[r].method # "join"
  BY <1>0, AtGuard
<1>2. [req[r] EXCEPT !.at = "run", !.access = NoAccess] \in WellFormed
  BY <1>1, AdmitType
<1> QED
  BY <1>2, ProceedType DEF Decide

LEMMA InsertType ==
  ASSUME TypeOK, NEW r \in Reqs, NEW next \in WellFormed, InsertMember(r, next),
         req[r].target \in Users, req[r].newRole \in Roles, UNCHANGED access
  PROVE  TypeOK'
<1> DEFINE t == req[r].target
           ro == [role EXCEPT ![t] = req[r].newRole]
<1>1. CASE Exists /\ role[t] = None
  <2>1. SetMembers(ownerId, ro) /\ Become(r, next) /\ UNCHANGED assignees
    BY <1>1 DEF InsertMember
  <2>2. ro \in [Users -> Roles \cup {None}] /\ ownerId \in Users \cup {None}
    BY DEF TypeOK
  <2> HIDE DEF ro
  <2>3. /\ ownerId' \in Users \cup {None} /\ role' \in [Users -> Roles \cup {None}]
        /\ held' \in [Users -> 0..4] /\ owners' \subseteq Users
    BY <2>1, <2>2, SetMembersType
  <2> QED
    BY <2>1, <2>3, BecomeType DEF TypeOK
<1>2. CASE ~(Exists /\ role[t] = None)
  <2>1. Finish(r) /\ UNCHANGED <<sql, history>>
    BY <1>2 DEF InsertMember
  <2> QED
    BY <2>1, IdleType, BecomeType DEF TypeOK, Finish, sql, history
<1> QED
  BY <1>1, <1>2

\* A commit that leaves the cache alone.
LEMMA CommitType ==
  ASSUME TypeOK, NEW r \in Reqs, NEW o \in Users \cup {None},
         NEW ro \in [Users -> Roles \cup {None}], NEW rec \in WellFormed,
         SetMembers(o, ro), Become(r, rec), assignees' \in [Cards -> SUBSET Users],
         UNCHANGED access
  PROVE  TypeOK'
<1>1. /\ ownerId' \in Users \cup {None} /\ role' \in [Users -> Roles \cup {None}]
      /\ held' \in [Users -> 0..4] /\ owners' \subseteq Users
  BY SetMembersType
<1> QED
  BY <1>1, BecomeType DEF TypeOK

\* A request ends; the tables keep their type.
LEMMA FinishType ==
  ASSUME TypeOK, NEW r \in Reqs, Finish(r), UNCHANGED <<ownerId, role, history>>,
         assignees' \in [Cards -> SUBSET Users], access' \in [Users -> Access]
  PROVE  TypeOK'
  BY IdleType, BecomeType DEF TypeOK, Finish, history

LEMMA TypeInit == Init => TypeOK
<1> SUFFICES ASSUME Init PROVE TypeOK
  OBVIOUS
<1>1. PICK u \in Users :
        /\ ownerId = u
        /\ role = [v \in Users |-> IF v = u THEN "OWNER" ELSE None]
        /\ assignees = [c \in Cards |-> {}]
        /\ access = [v \in Users |-> NoAccess]
        /\ req = [r \in Reqs |-> Idle]
        /\ held = [v \in Users |-> IF v = u THEN RoleLevel["OWNER"] ELSE 0]
        /\ owners = {u}
  BY DEF Init
<1>2. RoleLevel["OWNER"] = 4
  BY DEF RoleLevel
<1>3. held = [v \in Users |-> IF v = u THEN 4 ELSE 0]
  BY <1>1, <1>2
<1>4. held \in [Users -> 0..4]
  BY <1>3
<1> QED
  BY <1>1, <1>4, IdleType DEF TypeOK, NoAccess, Access, Roles

LEMMA TypeStep == TypeOK /\ [Next]_vars => TypeOK'
<1> SUFFICES ASSUME TypeOK, [Next]_vars PROVE TypeOK'
  OBVIOUS
<1> DEFINE t(r) == req[r].target
<1>0. ASSUME NEW r \in Reqs PROVE req[r] \in WellFormed /\ HoldsInputs(req[r])
  BY SlotType DEF WellFormed
<1>1. ASSUME NEW r \in Reqs, Arrive(r) PROVE TypeOK'
  <2>1. PICK m \in Methods, u \in Users, t1 \in Users, ro \in GivenRoles, c \in Cards :
          Become(r, Incoming(m, u, t1, ro, c))
    BY <1>1 DEF Arrive
  <2>2. Incoming(m, u, t1, ro, c) \in WellFormed
    BY ArriveType
  <2>3. ReadOnly
    BY <1>1 DEF Arrive
  <2> QED
    BY <2>1, <2>2, <2>3, BecomeType, ReadOnlyType
<1>2. ASSUME NEW r \in Reqs, GuardCacheGet(r) PROVE TypeOK'
  <2>1. req[r].at = "cacheGet" /\ ReadOnly
    BY <1>2 DEF GuardCacheGet
  <2>2. CASE access[req[r].caller] # NoAccess
    <3>1. Decide(r, access[req[r].caller])
      BY <1>2, <2>2 DEF GuardCacheGet
    <3> QED
      BY <2>1, <3>1, DecideType, ReadOnlyType
  <2>3. CASE access[req[r].caller] = NoAccess
    <3>1. Become(r, [req[r] EXCEPT !.at = "readBoard"])
      BY <1>2, <2>3 DEF GuardCacheGet, Goto
    <3>2. [req[r] EXCEPT !.at = "readBoard"] \in WellFormed
      BY <1>0, <2>1, ReadBoardType
    <3> QED
      BY <2>1, <3>1, <3>2, BecomeType, ReadOnlyType
  <2> QED
    BY <2>2, <2>3
<1>3. ASSUME NEW r \in Reqs, GuardReadBoard(r) PROVE TypeOK'
  <2>1. req[r].at = "readBoard" /\ ReadOnly /\ req[r].caller \in Users
    BY <1>3, <1>0 DEF GuardReadBoard, HoldsInputs
  <2>2. Current(req[r].caller) \in Access
    BY <2>1 DEF TypeOK, Current, Access
  <2>3. [req[r] EXCEPT !.at = "fill", !.access = Current(req[r].caller)] \in WellFormed
    BY <1>0, <2>1, <2>2, FillType
  <2>4. Proceed(r, Exists, [req[r] EXCEPT !.at = "fill", !.access = Current(req[r].caller)])
    BY <1>3 DEF GuardReadBoard
  <2> QED
    BY <2>1, <2>3, <2>4, ProceedType, ReadOnlyType
<1>4. ASSUME NEW r \in Reqs, GuardFill(r) PROVE TypeOK'
  <2>1. req[r].at = "fill" /\ req[r].caller \in Users /\ req[r].access \in Access
    BY <1>4, <1>0 DEF GuardFill, HoldsInputs, WellFormed, Request
  <2>2. Decide(r, req[r].access) /\ UNCHANGED <<sql, history>>
        /\ access' = [access EXCEPT ![req[r].caller] = req[r].access]
    BY <1>4 DEF GuardFill
  <2>3. req' \in [Reqs -> WellFormed]
    BY <2>1, <2>2, DecideType
  <2>4. access' \in [Users -> Access]
    BY <2>1, <2>2 DEF TypeOK
  <2> QED
    BY <2>2, <2>3, <2>4 DEF TypeOK, sql, history
<1>5. ASSUME NEW r \in Reqs, AddMemberCheck(r) PROVE TypeOK'
  <2> DEFINE cond == Exists /\ req[r].newRole # "OWNER" /\ role[t(r)] = None
  <2>1. req[r].at = "run" /\ req[r].method = "addMember" /\ ReadOnly
        /\ Proceed(r, cond, [req[r] EXCEPT !.at = "write"])
    BY <1>5 DEF AddMemberCheck, At
  <2>2. cond => [req[r] EXCEPT !.at = "write"] \in WellFormed
    BY <1>0, <2>1, WriteType
  <2> HIDE DEF cond
  <2> QED
    BY <2>1, <2>2, ProceedType, ReadOnlyType
<1>6. ASSUME NEW r \in Reqs, AddMemberWrite(r) PROVE TypeOK'
  <2>1. /\ req[r].at = "write" /\ req[r].method = "addMember"
        /\ InsertMember(r, [req[r] EXCEPT !.at = "invalidate"])
        /\ UNCHANGED access
    BY <1>6 DEF AddMemberWrite, At
  <2>2. t(r) \in Users /\ req[r].newRole \in Roles
    BY <1>0, <2>1 DEF HoldsInputs
  <2>3. [req[r] EXCEPT !.at = "invalidate"] \in WellFormed
    BY <1>0, <2>1, InvalidateType
  <2> QED
    BY <2>1, <2>2, <2>3, InsertType
<1>7. ASSUME NEW r \in Reqs, JoinCheck(r) PROVE TypeOK'
  <2> DEFINE cond == Exists /\ role[t(r)] = None
  <2>1. req[r].at = "run" /\ req[r].method = "join" /\ ReadOnly
    BY <1>7 DEF JoinCheck, At
  <2>2. PICK ro \in JoinRoles :
          Proceed(r, cond, [req[r] EXCEPT !.at = "write", !.newRole = ro])
    BY <1>7 DEF JoinCheck
  <2>3. [req[r] EXCEPT !.at = "write", !.newRole = ro] \in WellFormed
    BY <1>0, <2>1, JoinType
  <2> HIDE DEF cond
  <2> QED
    BY <2>1, <2>2, <2>3, ProceedType, ReadOnlyType
<1>8. ASSUME NEW r \in Reqs, JoinWrite(r) PROVE TypeOK'
  <2>1. /\ req[r].at = "write" /\ req[r].method = "join"
        /\ InsertMember(r, Idle) /\ UNCHANGED access
    BY <1>8 DEF JoinWrite, At
  <2>2. t(r) \in Users /\ req[r].newRole \in Roles
    BY <1>0, <2>1, BoardAssumption DEF HoldsInputs
  <2> QED
    BY <2>1, <2>2, IdleType, InsertType
<1>9. ASSUME NEW r \in Reqs, TargetCheck(r) PROVE TypeOK'
  <2> DEFINE cond == /\ Exists /\ req[r].newRole # "OWNER"
                     /\ role[t(r)] \notin {None, "OWNER"}
             rec == [req[r] EXCEPT !.at = "readCaller", !.seen = role[t(r)]]
  <2>1. /\ req[r].at = "run" /\ req[r].method \in {"updateMemberRole", "removeMember"}
        /\ Proceed(r, cond, rec) /\ ReadOnly
    BY <1>9 DEF TargetCheck, At
  <2>2. ASSUME cond PROVE rec \in WellFormed
    <3>1. t(r) \in Users
      BY <1>0, <2>1 DEF HoldsInputs
    <3>2. role[t(r)] \in Roles
      BY <2>2, <3>1 DEF TypeOK
    <3> QED
      BY <1>0, <2>1, <2>2, <3>2, SeenType
  <2> HIDE DEF cond, rec
  <2>3. req' \in [Reqs -> WellFormed]
    BY <2>1, <2>2, ProceedType
  <2> QED
    BY <2>1, <2>3, ReadOnlyType
<1>10. ASSUME NEW r \in Reqs, CallerCheck(r) PROVE TypeOK'
  <2> DEFINE cond == "ADMIN" \in {req[r].seen, req[r].newRole}
                       => role[req[r].caller] = "OWNER"
             rec == [req[r] EXCEPT !.seen = None,
                       !.at = IF req[r].method = "updateMemberRole"
                              THEN "write" ELSE "readCards"]
  <2>1. req[r].at = "readCaller" /\ Proceed(r, cond, rec) /\ ReadOnly
    BY <1>10 DEF CallerCheck
  <2>2. rec \in WellFormed
    BY <1>0, <2>1, CallerType
  <2> HIDE DEF cond, rec
  <2> QED
    BY <2>1, <2>2, ProceedType, ReadOnlyType
<1>11. ASSUME NEW r \in Reqs, LeaveCheck(r) PROVE TypeOK'
  <2> DEFINE cond == role[req[r].caller] \notin {None, "OWNER"}
  <2>1. /\ req[r].at = "run" /\ req[r].method = "leaveBoard" /\ ReadOnly
        /\ Proceed(r, cond, [req[r] EXCEPT !.at = "readCards"])
    BY <1>11 DEF LeaveCheck, At
  <2>2. [req[r] EXCEPT !.at = "readCards"] \in WellFormed
    BY <1>0, <2>1, ReadCardsType
  <2> HIDE DEF cond
  <2> QED
    BY <2>1, <2>2, ProceedType, ReadOnlyType
<1>12. ASSUME NEW r \in Reqs, UpdateMemberRoleWrite(r) PROVE TypeOK'
  <2>1. req[r].at = "write" /\ req[r].method = "updateMemberRole" /\ UNCHANGED access
    BY <1>12 DEF UpdateMemberRoleWrite, At
  <2>2. t(r) \in Users /\ req[r].newRole \in Roles
    BY <1>0, <2>1 DEF HoldsInputs
  <2>3. [req[r] EXCEPT !.at = "invalidate"] \in WellFormed
    BY <1>0, <2>1, InvalidateType
  <2>4. CASE role[t(r)] # None
    <3> DEFINE ro == [role EXCEPT ![t(r)] = req[r].newRole]
    <3>1. /\ SetMembers(ownerId, ro) /\ UNCHANGED assignees
          /\ Become(r, [req[r] EXCEPT !.at = "invalidate"])
      BY <1>12, <2>4 DEF UpdateMemberRoleWrite, Goto
    <3>2. ro \in [Users -> Roles \cup {None}]
      BY <2>2 DEF TypeOK
    <3>3. ownerId \in Users \cup {None} /\ assignees' \in [Cards -> SUBSET Users]
      BY <3>1 DEF TypeOK
    <3> HIDE DEF ro
    <3> QED
      BY <2>1, <2>3, <3>1, <3>2, <3>3, CommitType
  <2>5. CASE role[t(r)] = None
    <3>1. Finish(r) /\ UNCHANGED <<sql, history>>
      BY <1>12, <2>5 DEF UpdateMemberRoleWrite
    <3> QED
      BY <2>1, <3>1, FinishType DEF TypeOK, sql
  <2> QED
    BY <2>4, <2>5
<1>13. ASSUME NEW r \in Reqs, ReadAssignedCards(r) PROVE TypeOK'
  <2> DEFINE S == {c \in Cards : t(r) \in assignees[c]}
  <2>1. /\ req[r].at = "readCards" /\ ReadOnly
        /\ Become(r, [req[r] EXCEPT !.at = "write", !.cards = S])
    BY <1>13 DEF ReadAssignedCards
  <2>2. [req[r] EXCEPT !.at = "write", !.cards = S] \in WellFormed
    BY <1>0, <2>1, CardsType
  <2> HIDE DEF S
  <2> QED
    BY <2>1, <2>2, BecomeType, ReadOnlyType
<1>14. ASSUME NEW r \in Reqs, RemoveMemberWrite(r) PROVE TypeOK'
  <2>1. /\ req[r].at = "write" /\ req[r].method \in {"removeMember", "leaveBoard"}
        /\ UNCHANGED access
    BY <1>14 DEF RemoveMemberWrite, At
  <2>2. [req[r] EXCEPT !.at = "invalidate", !.cards = {}] \in WellFormed
    BY <1>0, <2>1, RemovedType
  <2>3. CASE role[t(r)] # None
    <3> DEFINE ro == [role EXCEPT ![t(r)] = None]
               rec == [req[r] EXCEPT !.at = "invalidate", !.cards = {}]
    <3>1. /\ SetMembers(ownerId, ro) /\ Become(r, rec)
          /\ assignees' = [c \in Cards |->
               IF c \in req[r].cards THEN assignees[c] \ {t(r)} ELSE assignees[c]]
      BY <1>14, <2>3 DEF RemoveMemberWrite
    <3>2. ro \in [Users -> Roles \cup {None}] /\ rec \in WellFormed
      BY <2>2 DEF TypeOK
    <3>3. ownerId \in Users \cup {None} /\ assignees' \in [Cards -> SUBSET Users]
      BY <3>1 DEF TypeOK
    <3> HIDE DEF ro, rec
    <3> QED
      BY <2>1, <3>1, <3>2, <3>3, CommitType
  <2>4. CASE role[t(r)] = None
    <3>1. Finish(r) /\ UNCHANGED <<sql, history>>
      BY <1>14, <2>4 DEF RemoveMemberWrite
    <3> QED
      BY <2>1, <3>1, FinishType DEF TypeOK, sql
  <2> QED
    BY <2>3, <2>4
<1>15. ASSUME NEW r \in Reqs, InvalidateTarget(r) PROVE TypeOK'
  <2>1. Finish(r) /\ UNCHANGED <<sql, history>>
        /\ access' = [access EXCEPT ![t(r)] = NoAccess]
    BY <1>15 DEF InvalidateTarget
  <2>2. access' \in [Users -> Access]
    BY <2>1 DEF TypeOK, NoAccess, Access
  <2> QED
    BY <2>1, <2>2, FinishType DEF TypeOK, sql
<1>16. ASSUME NEW r \in Reqs, TransferCheck(r) PROVE TypeOK'
  <2> DEFINE cond == t(r) # req[r].caller /\ role[t(r)] # None
  <2>1. /\ req[r].at = "run" /\ req[r].method = "transferOwnership" /\ ReadOnly
        /\ Proceed(r, cond, [req[r] EXCEPT !.at = "write"])
    BY <1>16 DEF TransferCheck, At
  <2>2. [req[r] EXCEPT !.at = "write"] \in WellFormed
    BY <1>0, <2>1, PlainWriteType
  <2> HIDE DEF cond
  <2> QED
    BY <2>1, <2>2, ProceedType, ReadOnlyType
<1>17. ASSUME NEW r \in Reqs, TransferWrite(r) PROVE TypeOK'
  <2> DEFINE cl == req[r].caller
  <2>1. /\ req[r].at = "write" /\ req[r].method = "transferOwnership"
        /\ UNCHANGED access
    BY <1>17 DEF TransferWrite, At
  <2>2. t(r) \in Users /\ cl \in Users
    BY <1>0, <2>1 DEF HoldsInputs
  <2>3. [req[r] EXCEPT !.at = "invalidate"] \in WellFormed
    BY <1>0, <2>1, InvalidateType
  <2>4. CASE role[cl] # None /\ role[t(r)] # None
    <3> DEFINE ro == [role EXCEPT ![cl] = "ADMIN", ![t(r)] = "OWNER"]
    <3>1. /\ SetMembers(t(r), ro) /\ UNCHANGED assignees
          /\ Become(r, [req[r] EXCEPT !.at = "invalidate"])
      BY <1>17, <2>4 DEF TransferWrite, Goto
    <3>2. ro \in [Users -> Roles \cup {None}]
      BY <2>2 DEF TypeOK, Roles
    <3>3. t(r) \in Users \cup {None} /\ assignees' \in [Cards -> SUBSET Users]
      BY <2>2, <3>1 DEF TypeOK
    <3> HIDE DEF ro
    <3> QED
      BY <2>1, <2>3, <3>1, <3>2, <3>3, CommitType
  <2>5. CASE ~(role[cl] # None /\ role[t(r)] # None)
    <3>1. Finish(r) /\ UNCHANGED <<sql, history>>
      BY <1>17, <2>5 DEF TransferWrite
    <3> QED
      BY <2>1, <3>1, FinishType DEF TypeOK, sql
  <2> QED
    BY <2>4, <2>5
<1>18. ASSUME NEW r \in Reqs, TransferInvalidate(r) PROVE TypeOK'
  <2>1. Finish(r) /\ UNCHANGED <<sql, history>>
        /\ access' = [access EXCEPT ![req[r].caller] = NoAccess, ![t(r)] = NoAccess]
    BY <1>18 DEF TransferInvalidate
  <2>2. access' \in [Users -> Access]
    BY <2>1 DEF TypeOK, NoAccess, Access
  <2> QED
    BY <2>1, <2>2, FinishType DEF TypeOK, sql
<1>19. ASSUME NEW r \in Reqs, RemoveWrite(r) PROVE TypeOK'
  <2>1. req[r].at = "run" /\ req[r].method = "remove" /\ UNCHANGED access
    BY <1>19 DEF RemoveWrite, At
  <2>2. [req[r] EXCEPT !.at = "invalidate"] \in WellFormed
    BY <1>0, <2>1, InvalidateType
  <2>3. CASE Exists
    <3>1. /\ SetMembers(None, [u \in Users |-> None])
          /\ assignees' = [c \in Cards |-> {}]
          /\ Become(r, [req[r] EXCEPT !.at = "invalidate"])
      BY <1>19, <2>3 DEF RemoveWrite, Goto
    <3> QED
      BY <2>1, <2>2, <3>1, CommitType
  <2>4. CASE ~Exists
    <3>1. Finish(r) /\ UNCHANGED <<sql, history>>
      BY <1>19, <2>4 DEF RemoveWrite
    <3> QED
      BY <2>1, <3>1, FinishType DEF TypeOK, sql
  <2> QED
    BY <2>3, <2>4
<1>20. ASSUME NEW r \in Reqs, RemoveInvalidate(r) PROVE TypeOK'
  <2>1. Finish(r) /\ UNCHANGED <<sql, history>> /\ access' = [u \in Users |-> NoAccess]
    BY <1>20 DEF RemoveInvalidate
  <2>2. access' \in [Users -> Access]
    BY <2>1 DEF NoAccess, Access
  <2> QED
    BY <2>1, <2>2, FinishType DEF TypeOK, sql
<1>21. ASSUME NEW r \in Reqs, AssignCheck(r) PROVE TypeOK'
  <2> DEFINE cond == Exists /\ role[t(r)] # None
  <2>1. /\ req[r].at = "run" /\ req[r].method = "assignMember" /\ ReadOnly
        /\ Proceed(r, cond, [req[r] EXCEPT !.at = "write"])
    BY <1>21 DEF AssignCheck, At
  <2>2. [req[r] EXCEPT !.at = "write"] \in WellFormed
    BY <1>0, <2>1, PlainWriteType
  <2> HIDE DEF cond
  <2> QED
    BY <2>1, <2>2, ProceedType, ReadOnlyType
<1>22. ASSUME NEW r \in Reqs, AssignWrite(r) \/ UnassignWrite(r) PROVE TypeOK'
  <2>1. /\ Finish(r) /\ UNCHANGED <<ownerId, role, access, history>>
        /\ req[r].method \in {"assignMember", "unassignMember"}
        /\ req[r].at \in {"run", "write"}
    BY <1>22 DEF AssignWrite, UnassignWrite, At
  <2>2. t(r) \in Users
    BY <1>0, <2>1 DEF HoldsInputs
  <2>3. assignees' \in [Cards -> SUBSET Users]
    BY <1>22, <2>2 DEF AssignWrite, UnassignWrite, TypeOK
  <2> QED
    BY <2>1, <2>3, FinishType DEF TypeOK
<1>23. ASSUME NEW r \in Reqs, Abort(r) PROVE TypeOK'
  <2>1. Finish(r) /\ ReadOnly
    BY <1>23 DEF Abort
  <2> QED
    BY <2>1, IdleType, BecomeType, ReadOnlyType DEF Finish
<1>24. ASSUME NEW u \in Users, AccessExpire(u) PROVE TypeOK'
  BY <1>24 DEF AccessExpire, TypeOK, NoAccess, Access, sql, history
<1>25. CASE UNCHANGED vars
  BY <1>25 DEF TypeOK, vars, sql, history
<1> QED
  BY <1>1, <1>2, <1>3, <1>4, <1>5, <1>6, <1>7, <1>8, <1>9, <1>10, <1>11, <1>12, <1>13,
     <1>14, <1>15, <1>16, <1>17, <1>18, <1>19, <1>20, <1>21, <1>22, <1>23, <1>24, <1>25
     DEF Next, Step, Guard

----------------------------------------------------------------------------
\* The steps that commit something.
Commit(r) == \/ AddMemberWrite(r) \/ JoinWrite(r) \/ UpdateMemberRoleWrite(r)
             \/ RemoveMemberWrite(r) \/ TransferWrite(r) \/ RemoveWrite(r)
             \/ AssignWrite(r) \/ UnassignWrite(r)

LEMMA CommitsOnly ==
  ASSUME [Next]_vars
  PROVE  UNCHANGED <<sql, history>> \/ \E r \in Reqs : Commit(r)
<1> USE DEF ReadOnly
<1>1. ASSUME NEW r \in Reqs, Arrive(r) \/ Guard(r) \/ Abort(r)
      PROVE  UNCHANGED <<sql, history>>
  BY <1>1 DEF Arrive, Guard, GuardCacheGet, GuardReadBoard, GuardFill, Abort
<1>2. ASSUME NEW r \in Reqs,
             \/ AddMemberCheck(r) \/ JoinCheck(r) \/ TargetCheck(r) \/ CallerCheck(r)
             \/ LeaveCheck(r) \/ ReadAssignedCards(r) \/ TransferCheck(r) \/ AssignCheck(r)
      PROVE  UNCHANGED <<sql, history>>
  BY <1>2 DEF AddMemberCheck, JoinCheck, TargetCheck, CallerCheck, LeaveCheck,
              ReadAssignedCards, TransferCheck, AssignCheck
<1>3. ASSUME NEW r \in Reqs,
             InvalidateTarget(r) \/ TransferInvalidate(r) \/ RemoveInvalidate(r)
      PROVE  UNCHANGED <<sql, history>>
  BY <1>3 DEF InvalidateTarget, TransferInvalidate, RemoveInvalidate
<1>4. ASSUME NEW u \in Users, AccessExpire(u) PROVE UNCHANGED <<sql, history>>
  BY <1>4 DEF AccessExpire
<1>5. CASE UNCHANGED vars
  BY <1>5 DEF vars
<1> QED
  BY <1>1, <1>2, <1>3, <1>4, <1>5 DEF Next, Step, Commit

\* What a commit does to the rows of the members.
LEMMA RoleCommits ==
  ASSUME TypeOK, NEW r \in Reqs, Commit(r)
  PROVE  \/ UNCHANGED <<ownerId, role, history>>
         \/ \E t \in Users, ro \in Roles :
              /\ SetMembers(ownerId, [role EXCEPT ![t] = ro])
              /\ ro = "OWNER" => "OWNER" \in JoinRoles
              /\ Exists \/ role[t] # None
         \/ \E t \in Users :
              SetMembers(ownerId, [role EXCEPT ![t] = None]) /\ role[t] # None
         \/ \E c, t \in Users :
              /\ SetMembers(t, [role EXCEPT ![c] = "ADMIN", ![t] = "OWNER"])
              /\ role[t] # None
         \/ SetMembers(None, [u \in Users |-> None])
<1> DEFINE t == req[r].target
<1>0. HoldsInputs(req[r])
  BY SlotType DEF WellFormed
<1>1. ASSUME NEW next, InsertMember(r, next)
      PROVE  \/ UNCHANGED <<ownerId, role, history>>
             \/ SetMembers(ownerId, [role EXCEPT ![t] = req[r].newRole]) /\ Exists
  BY <1>1 DEF InsertMember, sql
<1>2. CASE AddMemberWrite(r)
  <2>1. /\ req[r].method = "addMember" /\ req[r].at = "write"
        /\ InsertMember(r, [req[r] EXCEPT !.at = "invalidate"])
    BY <1>2 DEF AddMemberWrite, At
  <2>2. t \in Users /\ req[r].newRole \in Roles /\ req[r].newRole # "OWNER"
    BY <1>0, <2>1 DEF HoldsInputs
  <2>3. \/ UNCHANGED <<ownerId, role, history>>
        \/ SetMembers(ownerId, [role EXCEPT ![t] = req[r].newRole]) /\ Exists
    BY <1>1, <2>1
  <2> QED
    BY <2>2, <2>3
<1>3. CASE JoinWrite(r)
  <2>1. req[r].method = "join" /\ req[r].at = "write" /\ InsertMember(r, Idle)
    BY <1>3 DEF JoinWrite, At
  <2>2. t \in Users /\ req[r].newRole \in JoinRoles /\ req[r].newRole \in Roles
    BY <1>0, <2>1, BoardAssumption DEF HoldsInputs
  <2>3. \/ UNCHANGED <<ownerId, role, history>>
        \/ SetMembers(ownerId, [role EXCEPT ![t] = req[r].newRole]) /\ Exists
    BY <1>1, <2>1
  <2> QED
    BY <2>2, <2>3
<1>4. CASE UpdateMemberRoleWrite(r)
  <2>1. req[r].method = "updateMemberRole" /\ req[r].at = "write"
    BY <1>4 DEF UpdateMemberRoleWrite, At
  <2>2. t \in Users /\ req[r].newRole \in Roles /\ req[r].newRole # "OWNER"
    BY <1>0, <2>1 DEF HoldsInputs
  <2>3. \/ UNCHANGED <<ownerId, role, history>>
        \/ SetMembers(ownerId, [role EXCEPT ![t] = req[r].newRole]) /\ role[t] # None
    BY <1>4 DEF UpdateMemberRoleWrite, sql
  <2> QED
    BY <2>2, <2>3
<1>5. CASE RemoveMemberWrite(r)
  <2>1. req[r].method \in {"removeMember", "leaveBoard"} /\ req[r].at = "write"
    BY <1>5 DEF RemoveMemberWrite, At
  <2>2. t \in Users
    BY <1>0, <2>1 DEF HoldsInputs
  <2>3. \/ UNCHANGED <<ownerId, role, history>>
        \/ SetMembers(ownerId, [role EXCEPT ![t] = None]) /\ role[t] # None
    BY <1>5 DEF RemoveMemberWrite, sql
  <2> QED
    BY <2>2, <2>3
<1>6. CASE TransferWrite(r)
  <2>1. req[r].method = "transferOwnership" /\ req[r].at = "write"
    BY <1>6 DEF TransferWrite, At
  <2>2. t \in Users /\ req[r].caller \in Users
    BY <1>0, <2>1 DEF HoldsInputs
  <2>3. \/ UNCHANGED <<ownerId, role, history>>
        \/ /\ SetMembers(t, [role EXCEPT ![req[r].caller] = "ADMIN", ![t] = "OWNER"])
           /\ role[t] # None
    BY <1>6 DEF TransferWrite, sql
  <2> QED
    BY <2>2, <2>3
<1>7. CASE RemoveWrite(r)
  BY <1>7 DEF RemoveWrite, sql
<1>8. CASE AssignWrite(r) \/ UnassignWrite(r)
  BY <1>8 DEF AssignWrite, UnassignWrite
<1> QED
  BY <1>2, <1>3, <1>4, <1>5, <1>6, <1>7, <1>8 DEF Commit

----------------------------------------------------------------------------
LEMMA OwnerRowsInit == Init => OwnerRowsWereOwners
<1> SUFFICES ASSUME Init PROVE OwnerRowsWereOwners
  OBVIOUS
<1>1. PICK u \in Users :
        role = [v \in Users |-> IF v = u THEN "OWNER" ELSE None] /\ owners = {u}
  BY DEF Init
<1>2. None # "OWNER"
  BY BoardAssumption DEF Roles
<1> QED
  BY <1>1, <1>2 DEF OwnerRowsWereOwners

LEMMA OwnerRowsStep ==
  ASSUME "OWNER" \notin JoinRoles, TypeOK, OwnerRowsWereOwners, [Next]_vars
  PROVE  OwnerRowsWereOwners'
<1> USE DEF OwnerRowsWereOwners
<1>0. None # "OWNER"
  BY BoardAssumption DEF Roles
<1>1. CASE UNCHANGED <<sql, history>>
  BY <1>1 DEF sql, history
<1>2. ASSUME NEW r \in Reqs, Commit(r) PROVE OwnerRowsWereOwners'
  <2>1. CASE UNCHANGED <<ownerId, role, history>>
    BY <2>1 DEF history
  <2>2. ASSUME NEW t \in Users, NEW ro \in Roles \cup {None}, ro # "OWNER",
               SetMembers(ownerId, [role EXCEPT ![t] = ro])
        PROVE  OwnerRowsWereOwners'
    BY <2>2 DEF SetMembers, TypeOK
  <2>3. ASSUME NEW c \in Users, NEW t \in Users,
               SetMembers(t, [role EXCEPT ![c] = "ADMIN", ![t] = "OWNER"])
        PROVE  OwnerRowsWereOwners'
    <3>1. t # None
      BY BoardAssumption
    <3> QED
      BY <2>3, <3>1 DEF SetMembers, TypeOK
  <2>4. CASE SetMembers(None, [u \in Users |-> None])
    BY <2>4, <1>0 DEF SetMembers
  <2> QED
    BY <1>0, <1>2, <2>1, <2>2, <2>3, <2>4, RoleCommits
<1> QED
  BY <1>1, <1>2, CommitsOnly

----------------------------------------------------------------------------
LEMMA DeletedInit == Init => DeletedBoardIsEmpty
  BY BoardAssumption DEF Init, DeletedBoardIsEmpty, Exists

LEMMA DeletedStep ==
  ASSUME TypeOK, DeletedBoardIsEmpty, [Next]_vars
  PROVE  DeletedBoardIsEmpty'
<1> USE DEF DeletedBoardIsEmpty, Exists
<1>1. CASE UNCHANGED <<sql, history>>
  BY <1>1 DEF sql
<1>2. ASSUME NEW r \in Reqs, Commit(r), ~Exists' PROVE \A u \in Users : role'[u] = None
  <2>1. CASE UNCHANGED <<ownerId, role, history>>
    BY <1>2, <2>1
  <2>2. ASSUME NEW t \in Users, NEW ro \in Roles, Exists \/ role[t] # None,
               SetMembers(ownerId, [role EXCEPT ![t] = ro])
        PROVE  FALSE
    BY <1>2, <2>2 DEF SetMembers
  <2>3. ASSUME NEW t \in Users, role[t] # None,
               SetMembers(ownerId, [role EXCEPT ![t] = None])
        PROVE  FALSE
    BY <1>2, <2>3 DEF SetMembers
  <2>4. ASSUME NEW c \in Users, NEW t \in Users,
               SetMembers(t, [role EXCEPT ![c] = "ADMIN", ![t] = "OWNER"])
        PROVE  FALSE
    BY <1>2, <2>4, BoardAssumption DEF SetMembers
  <2>5. CASE SetMembers(None, [u \in Users |-> None])
    BY <2>5 DEF SetMembers
  <2> QED
    BY <1>2, <2>1, <2>2, <2>3, <2>4, <2>5, RoleCommits
<1>3. ASSUME NEW r \in Reqs, Commit(r), ~Exists' PROVE \A c \in Cards : assignees'[c] = {}
  <2> DEFINE t == req[r].target
  <2>1. CASE AddMemberWrite(r) \/ JoinWrite(r)
    BY <1>3, <2>1 DEF AddMemberWrite, JoinWrite, InsertMember, sql, SetMembers
  <2>2. CASE UpdateMemberRoleWrite(r)
    BY <1>3, <2>2 DEF UpdateMemberRoleWrite, sql, SetMembers
  <2>3. CASE RemoveMemberWrite(r)
    <3>1. ~Exists
      BY <1>3, <2>3 DEF RemoveMemberWrite, sql, SetMembers
    <3>2. \A c \in Cards : assignees[c] = {}
      BY <3>1
    <3>3. \/ UNCHANGED assignees
          \/ assignees' = [c \in Cards |->
                IF c \in req[r].cards THEN assignees[c] \ {t} ELSE assignees[c]]
      BY <2>3 DEF RemoveMemberWrite, sql
    <3> QED
      BY <3>2, <3>3
  <2>4. CASE TransferWrite(r)
    <3>1. req[r].method = "transferOwnership" /\ req[r].at = "write"
      BY <2>4 DEF TransferWrite, At
    <3>2. HoldsInputs(req[r])
      BY SlotType DEF WellFormed
    <3>3. t \in Users
      BY <3>1, <3>2 DEF HoldsInputs
    <3> QED
      BY <1>3, <2>4, <3>3, BoardAssumption DEF TransferWrite, sql, SetMembers
  <2>5. CASE RemoveWrite(r)
    BY <1>3, <2>5 DEF RemoveWrite, sql
  <2>6. CASE AssignWrite(r) \/ UnassignWrite(r)
    <3>1. ~Exists
      BY <1>3, <2>6 DEF AssignWrite, UnassignWrite
    <3>2. \A c \in Cards : assignees[c] = {}
      BY <3>1
    <3>3. \/ assignees' = assignees
          \/ assignees' = [assignees EXCEPT ![req[r].card] = @ \ {t}]
      BY <2>6, <3>1 DEF AssignWrite, UnassignWrite
    <3> QED
      BY <3>2, <3>3 DEF TypeOK
  <2> QED
    BY <1>3, <2>1, <2>2, <2>3, <2>4, <2>5, <2>6 DEF Commit
<1> QED
  BY <1>1, <1>2, <1>3, CommitsOnly

----------------------------------------------------------------------------
(* The inductive invariant behind AdmittedHadRole: what the tables, the cache *)
(* and a fill in flight grant to a user, the user has had.                    *)

HadRole(h, u, a) == Granted(u, a) # None => h[u] >= RoleLevel[Granted(u, a)]
Running(q) == /\ q.at \notin {"idle", "cacheGet", "readBoard", "fill"}
              /\ q.method # "join"
SafeReq(h, q) == /\ q.at = "fill" => HadRole(h, q.caller, q.access)
                 /\ Running(q) => h[q.caller] >= RoleLevel[Required[q.method]]

HeldInv == /\ \A u \in Users : HadRole(held, u, Current(u)) /\ HadRole(held, u, access[u])
           /\ \A r \in Reqs : SafeReq(held, req[r])

LEMMA GrantedType ==
  \A u \in Users : \A a \in Access :
    Granted(u, a) \in Roles \cup {None} /\ (Granted(u, a) # None => RoleLevel[Granted(u, a)] \in 1..4)
  BY DEF Granted, Access, Roles, RoleLevel

LEMMA GrantedNone == \A u \in Users : Granted(u, NoAccess) = None
  BY BoardAssumption DEF Granted, NoAccess

LEMMA RunningType ==
  ASSUME NEW q \in WellFormed
  PROVE  /\ Running(q) => q.caller \in Users /\ RoleLevel[Required[q.method]] \in 1..4
         /\ q.at = "fill" => q.caller \in Users /\ q.access \in Access
<1>1. q \in Request /\ HoldsInputs(q)
  BY DEF WellFormed
<1>2. q.access \in Access /\ q.method \in AllMethods \cup {"none"}
  BY <1>1 DEF Request
<1>3. q.at # "idle" => q.caller \in Users /\ q.method # "none"
  BY <1>1 DEF HoldsInputs
<1>4. Running(q) => q.method \in AllMethods \ {"join"} /\ q.at # "idle"
  BY <1>2, <1>3 DEF Running
<1> QED
  BY <1>2, <1>3, <1>4, RequiredType

LEMMA HeldGrows ==
  ASSUME TypeOK, HeldInv, [Next]_vars
  PROVE  \A u \in Users : /\ held'[u] \in 0..4 /\ held'[u] >= held[u]
                          /\ HadRole(held', u, Current(u)')
<1>0. TypeOK'
  BY TypeStep
<1>1. CASE UNCHANGED <<ownerId, role, history>>
  BY <1>1 DEF HeldInv, TypeOK, Current, history
<1>2. ASSUME NEW o \in Users \cup {None}, NEW ro \in [Users -> Roles \cup {None}],
             SetMembers(o, ro), NEW u \in Users
      PROVE  /\ held'[u] \in 0..4 /\ held'[u] >= held[u]
             /\ HadRole(held', u, Current(u)')
  <2>1. /\ held'[u] \in 0..4 /\ held'[u] >= held[u] /\ held'[u] >= Level(role'[u])
        /\ ownerId' = u => held'[u] = 4
    BY <1>2, SetMembersType
  <2>2. Current(u)' = [ownerId |-> ownerId', role |-> role'[u]]
    BY DEF Current
  <2>3. CASE ownerId' = u
    BY <2>1, <2>2, <2>3 DEF HadRole, Granted, RoleLevel
  <2>4. CASE ownerId' # u
    <3>1. Granted(u, Current(u)') = role'[u]
      BY <2>2, <2>4 DEF Granted
    <3> QED
      BY <2>1, <3>1 DEF HadRole, Level
  <2> QED
    BY <2>1, <2>3, <2>4
<1>3. ASSUME NEW r \in Reqs, Commit(r)
      PROVE  \/ UNCHANGED <<ownerId, role, history>>
             \/ \E o \in Users \cup {None}, ro \in [Users -> Roles \cup {None}] :
                  SetMembers(o, ro)
  <2>1. ownerId \in Users \cup {None} /\ role \in [Users -> Roles \cup {None}]
    BY DEF TypeOK
  <2>2. ASSUME NEW t \in Users, NEW ro \in Roles \cup {None}
        PROVE  [role EXCEPT ![t] = ro] \in [Users -> Roles \cup {None}]
    BY <2>1
  <2>3. ASSUME NEW c \in Users, NEW t \in Users
        PROVE  [role EXCEPT ![c] = "ADMIN", ![t] = "OWNER"] \in [Users -> Roles \cup {None}]
    BY <2>1 DEF Roles
  <2>4. [u \in Users |-> None] \in [Users -> Roles \cup {None}]
    OBVIOUS
  <2> QED
    BY <1>3, <2>1, <2>2, <2>3, <2>4, RoleCommits
<1> QED
  BY <1>1, <1>2, <1>3, CommitsOnly DEF sql

\* A state of a request that was safe stays safe as the history grows.
LEMMA SafeGrows ==
  ASSUME TypeOK, NEW h \in [Users -> 0..4], NEW q \in WellFormed, SafeReq(held, q),
         \A u \in Users : h[u] >= held[u]
  PROVE  SafeReq(h, q)
<1>1. Running(q) => h[q.caller] >= RoleLevel[Required[q.method]]
  <2> SUFFICES ASSUME Running(q) PROVE h[q.caller] >= RoleLevel[Required[q.method]]
    OBVIOUS
  <2>1. q.caller \in Users /\ RoleLevel[Required[q.method]] \in 1..4
    BY RunningType
  <2>2. held[q.caller] >= RoleLevel[Required[q.method]] /\ held[q.caller] \in 0..4
        /\ h[q.caller] \in 0..4
    BY <2>1 DEF SafeReq, TypeOK
  <2> QED
    BY <2>1, <2>2
<1>2. q.at = "fill" => HadRole(h, q.caller, q.access)
  <2> SUFFICES ASSUME q.at = "fill", Granted(q.caller, q.access) # None
               PROVE  h[q.caller] >= RoleLevel[Granted(q.caller, q.access)]
    BY DEF HadRole
  <2>1. q.caller \in Users /\ q.access \in Access
    BY RunningType
  <2>2. /\ held[q.caller] >= RoleLevel[Granted(q.caller, q.access)]
        /\ held[q.caller] \in 0..4 /\ h[q.caller] \in 0..4
        /\ RoleLevel[Granted(q.caller, q.access)] \in 1..4
    BY <2>1, GrantedType DEF SafeReq, HadRole, TypeOK
  <2> QED
    BY <2>1, <2>2
<1> QED
  BY <1>1, <1>2 DEF SafeReq

LEMMA IdleSafe == \A h : SafeReq(h, Idle)
  BY DEF SafeReq, Idle, Running

\* The next stage of a handler: same caller, same method.
LEMMA StageSafe ==
  ASSUME NEW h, NEW q, SafeReq(h, q), Running(q) \/ q.method = "join",
         NEW p, p.method = q.method, p.caller = q.caller, p.at # "fill"
  PROVE  SafeReq(h, p)
  BY DEF SafeReq, Running

\* The guard's decision on an access that the caller has had.
LEMMA DecideSafe ==
  ASSUME TypeOK, NEW r \in Reqs, NEW a \in Access, NEW h, Decide(r, a),
         req[r].at \in {"cacheGet", "fill"}, HadRole(h, req[r].caller, a),
         h \in [Users -> 0..4]
  PROVE  SafeReq(h, req'[r])
<1> DEFINE q == req[r]
           p == [q EXCEPT !.at = "run", !.access = NoAccess]
           g == Granted(q.caller, a)
<1>1. q \in WellFormed /\ q \in Request /\ HoldsInputs(q)
  BY SlotType DEF WellFormed
<1>2. p \in WellFormed /\ q.caller \in Users /\ q.method \in AllMethods \ {"join"}
  BY <1>1, AtGuard, AdmitType DEF HoldsInputs, Request
<1>3. p.method = q.method /\ p.caller = q.caller /\ p.at = "run"
  BY <1>1 DEF Request
<1>4. CASE Suffices(g, q.method)
  <2>1. req'[r] = p
    BY <1>4 DEF Decide, Proceed, Become, TypeOK
  <2>2. g # None /\ RoleLevel[g] >= RoleLevel[Required[q.method]] /\ h[q.caller] >= RoleLevel[g]
    BY <1>4 DEF Suffices, HadRole
  <2>3. RoleLevel[g] \in 1..4 /\ RoleLevel[Required[q.method]] \in 1..4 /\ h[q.caller] \in 0..4
    BY <1>2, <2>2, GrantedType, RequiredType
  <2>4. h[p.caller] >= RoleLevel[Required[p.method]]
    BY <1>3, <2>2, <2>3
  <2> QED
    BY <1>3, <2>1, <2>4 DEF SafeReq
<1>5. CASE ~Suffices(g, q.method)
  <2>1. req'[r] = Idle
    BY <1>5 DEF Decide, Proceed, Finish, Become, TypeOK
  <2> QED
    BY <2>1, IdleSafe
<1> QED
  BY <1>4, <1>5

\* What each step does to the requests.
LEMMA ReqSafe ==
  ASSUME TypeOK, HeldInv, [Next]_vars, NEW s \in Reqs
  PROVE  SafeReq(held', req'[s])
<1> DEFINE q == req[s]
<1>0. /\ held' \in [Users -> 0..4] /\ \A u \in Users : held'[u] >= held[u]
      /\ q \in WellFormed /\ q \in Request /\ HoldsInputs(q)
      /\ SafeReq(held, q) /\ SafeReq(held', q)
  <2>1. held' \in [Users -> 0..4]
    BY TypeStep DEF TypeOK
  <2>2. \A u \in Users : held'[u] >= held[u]
    BY HeldGrows
  <2>3. q \in WellFormed /\ SafeReq(held, q)
    BY SlotType DEF HeldInv
  <2>4. SafeReq(held', q)
    BY <2>1, <2>2, <2>3, SafeGrows
  <2> QED
    BY <2>1, <2>2, <2>3, <2>4 DEF WellFormed
<1>1. \A r \in Reqs : \A rec : Become(r, rec) => req'[s] = IF r = s THEN rec ELSE q
  BY DEF Become, TypeOK
<1>2. ASSUME NEW r \in Reqs, Finish(r) PROVE SafeReq(held', req'[s])
  BY <1>0, <1>1, <1>2, IdleSafe DEF Finish
<1>3. ASSUME NEW r \in Reqs, NEW rec, Become(r, rec), r = s => SafeReq(held', rec)
      PROVE  SafeReq(held', req'[s])
  BY <1>0, <1>1, <1>3
<1>4. ASSUME NEW r \in Reqs, NEW rec, Become(r, rec) \/ Finish(r),
             r = s => /\ rec.method = q.method /\ rec.caller = q.caller
                      /\ rec.at # "fill" /\ q.at \notin {"idle", "cacheGet", "readBoard", "fill"}
      PROVE  SafeReq(held', req'[s])
  <2>1. CASE Become(r, rec) /\ r = s
    <3>1. SafeReq(held', rec)
      BY <1>0, <1>4, <2>1, StageSafe DEF Running
    <3> QED
      BY <1>3, <2>1, <3>1
  <2>2. CASE Become(r, rec) /\ r # s
    BY <1>3, <2>2
  <2> QED
    BY <1>2, <1>4, <2>1, <2>2
<1>5. CASE \E r \in Reqs : Arrive(r)
  <2>1. PICK r \in Reqs, m \in Methods, u \in Users, t \in Users, ro \in GivenRoles,
             c \in Cards : Become(r, Incoming(m, u, t, ro, c))
    BY <1>5 DEF Arrive
  <2>2. SafeReq(held', Incoming(m, u, t, ro, c))
    BY DEF SafeReq, Incoming, Running
  <2> HIDE DEF q
  <2> QED
    BY <1>3, <2>1, <2>2
<1>6. ASSUME NEW r \in Reqs, GuardCacheGet(r) PROVE SafeReq(held', req'[s])
  <2>0. req[r].at = "cacheGet" /\ UNCHANGED held /\ req[r] \in Request /\ HoldsInputs(req[r])
    BY <1>6, SlotType DEF GuardCacheGet, ReadOnly, history, WellFormed
  <2>1. CASE access[req[r].caller] # NoAccess
    <3>1. Decide(r, access[req[r].caller])
      BY <1>6, <2>1 DEF GuardCacheGet
    <3>2. req[r].caller \in Users
      BY <2>0 DEF HoldsInputs
    <3>3. access[req[r].caller] \in Access /\ HadRole(held, req[r].caller, access[req[r].caller])
      BY <3>2 DEF TypeOK, HeldInv
    <3>4. held \in [Users -> 0..4]
      BY DEF TypeOK
    <3>5. CASE r = s
      <4>1. SafeReq(held, req'[r])
        BY <2>0, <3>1, <3>3, <3>4, DecideSafe
      <4> QED
        BY <2>0, <3>5, <4>1
    <3>6. CASE r # s
      BY <1>0, <3>1, <3>6, <1>1 DEF Decide, Proceed, Finish
    <3> QED
      BY <3>5, <3>6
  <2>2. CASE access[req[r].caller] = NoAccess
    <3>1. Become(r, [req[r] EXCEPT !.at = "readBoard"])
      BY <1>6, <2>2 DEF GuardCacheGet, Goto
    <3>2. [req[r] EXCEPT !.at = "readBoard"].at = "readBoard"
      BY <2>0 DEF Request
    <3>3. SafeReq(held', [req[r] EXCEPT !.at = "readBoard"])
      BY <3>2 DEF SafeReq, Running
    <3> QED
      BY <1>3, <3>1, <3>3
  <2> QED
    BY <2>1, <2>2
<1>7. ASSUME NEW r \in Reqs, GuardReadBoard(r) PROVE SafeReq(held', req'[s])
  <2> DEFINE a == Current(req[r].caller)
             rec == [req[r] EXCEPT !.at = "fill", !.access = a]
  <2>0. /\ req[r].at = "readBoard" /\ held' = held
        /\ req[r] \in Request /\ HoldsInputs(req[r])
    BY <1>7, SlotType DEF GuardReadBoard, ReadOnly, history, WellFormed
  <2>1. req[r].caller \in Users
    BY <2>0 DEF HoldsInputs
  <2>2. rec.at = "fill" /\ rec.caller = req[r].caller /\ rec.access = a
    BY <2>0 DEF Request
  <2>3. HadRole(held, req[r].caller, a)
    BY <2>1 DEF HeldInv
  <2>4. SafeReq(held', rec)
    <3> HIDE DEF rec, a
    <3> QED
      BY <2>0, <2>2, <2>3 DEF SafeReq, Running
  <2>5. Become(r, rec) \/ Finish(r)
    BY <1>7 DEF GuardReadBoard, Proceed
  <2> HIDE DEF rec
  <2> QED
    BY <1>2, <1>3, <2>4, <2>5
<1>8. ASSUME NEW r \in Reqs, GuardFill(r) PROVE SafeReq(held', req'[s])
  <2>1. /\ req[r].at = "fill" /\ held' = held /\ Decide(r, req[r].access)
        /\ req[r] \in WellFormed /\ SafeReq(held, req[r]) /\ held \in [Users -> 0..4]
    BY <1>8, SlotType DEF GuardFill, history, HeldInv, TypeOK
  <2>2. req[r].access \in Access
    BY <2>1, RunningType
  <2>3. HadRole(held, req[r].caller, req[r].access)
    BY <2>1 DEF SafeReq
  <2>4. CASE r = s
    <3>1. SafeReq(held, req'[r])
      BY <2>1, <2>2, <2>3, DecideSafe
    <3> QED
      BY <2>1, <2>4, <3>1
  <2>5. CASE r # s
    BY <1>0, <2>1, <2>5, <1>1 DEF Decide, Proceed, Finish
  <2> QED
    BY <2>4, <2>5
<1>9. ASSUME NEW r \in Reqs,
             \/ JoinWrite(r) \/ InvalidateTarget(r) \/ TransferInvalidate(r)
             \/ RemoveInvalidate(r) \/ AssignWrite(r) \/ UnassignWrite(r) \/ Abort(r)
      PROVE  SafeReq(held', req'[s])
  <2>1. Finish(r)
    BY <1>9 DEF JoinWrite, InsertMember, InvalidateTarget, TransferInvalidate,
                RemoveInvalidate, AssignWrite, UnassignWrite, Abort, Finish
  <2> QED
    BY <1>2, <2>1
<1>10. ASSUME NEW r \in Reqs,
              \/ AddMemberCheck(r) \/ LeaveCheck(r) \/ TransferCheck(r) \/ AssignCheck(r)
              \/ UpdateMemberRoleWrite(r) \/ TransferWrite(r) \/ RemoveWrite(r)
              \/ AddMemberWrite(r)
       PROVE  SafeReq(held', req'[s])
  <2>1. req[r].at \in {"run", "write"}
    BY <1>10 DEF AddMemberCheck, LeaveCheck, TransferCheck, AssignCheck,
                 UpdateMemberRoleWrite, TransferWrite, RemoveWrite, AddMemberWrite, At
  <2>2. \E stage \in {"readCards", "write", "invalidate"} :
          Become(r, [req[r] EXCEPT !.at = stage]) \/ Finish(r)
    BY <1>10 DEF AddMemberCheck, LeaveCheck, TransferCheck, AssignCheck, Proceed, Goto,
                 UpdateMemberRoleWrite, TransferWrite, RemoveWrite, AddMemberWrite,
                 InsertMember
  <2>3. PICK stage \in {"readCards", "write", "invalidate"} :
          Become(r, [req[r] EXCEPT !.at = stage]) \/ Finish(r)
    BY <2>2
  <2> DEFINE rec == [req[r] EXCEPT !.at = stage]
  <2>4. rec.method = req[r].method /\ rec.caller = req[r].caller /\ rec.at = stage
    BY SlotType DEF WellFormed, Request
  <2> HIDE DEF rec
  <2> QED
    BY <1>4, <2>1, <2>3, <2>4 DEF rec
<1>11. ASSUME NEW r \in Reqs, JoinCheck(r) PROVE SafeReq(held', req'[s])
  <2>1. req[r].at = "run"
    BY <1>11 DEF JoinCheck, At
  <2>2. PICK ro \in JoinRoles :
          Become(r, [req[r] EXCEPT !.at = "write", !.newRole = ro]) \/ Finish(r)
    BY <1>11 DEF JoinCheck, Proceed
  <2> DEFINE rec == [req[r] EXCEPT !.at = "write", !.newRole = ro]
  <2>3. rec.method = req[r].method /\ rec.caller = req[r].caller /\ rec.at = "write"
    BY SlotType DEF WellFormed, Request
  <2> HIDE DEF rec
  <2> QED
    BY <1>4, <2>1, <2>2, <2>3 DEF rec
<1>12. ASSUME NEW r \in Reqs, TargetCheck(r) PROVE SafeReq(held', req'[s])
  <2> DEFINE rec == [req[r] EXCEPT !.at = "readCaller", !.seen = role[req[r].target]]
  <2>1. req[r].at = "run" /\ (Become(r, rec) \/ Finish(r))
    BY <1>12 DEF TargetCheck, At, Proceed
  <2>2. rec.method = req[r].method /\ rec.caller = req[r].caller /\ rec.at = "readCaller"
    BY SlotType DEF WellFormed, Request
  <2> HIDE DEF rec
  <2> QED
    BY <1>4, <2>1, <2>2
<1>13. ASSUME NEW r \in Reqs, CallerCheck(r) PROVE SafeReq(held', req'[s])
  <2> DEFINE a == IF req[r].method = "updateMemberRole" THEN "write" ELSE "readCards"
             rec == [req[r] EXCEPT !.seen = None, !.at = a]
  <2>1. req[r].at = "readCaller" /\ (Become(r, rec) \/ Finish(r))
    BY <1>13 DEF CallerCheck, Proceed
  <2>2. rec.method = req[r].method /\ rec.caller = req[r].caller /\ rec.at = a
    BY SlotType DEF WellFormed, Request
  <2> HIDE DEF rec
  <2> QED
    BY <1>4, <2>1, <2>2
<1>14. ASSUME NEW r \in Reqs, ReadAssignedCards(r) PROVE SafeReq(held', req'[s])
  <2> DEFINE S == {c \in Cards : req[r].target \in assignees[c]}
             rec == [req[r] EXCEPT !.at = "write", !.cards = S]
  <2>1. req[r].at = "readCards" /\ Become(r, rec)
    BY <1>14 DEF ReadAssignedCards
  <2>2. rec.method = req[r].method /\ rec.caller = req[r].caller /\ rec.at = "write"
    BY SlotType DEF WellFormed, Request
  <2> HIDE DEF rec
  <2> QED
    BY <1>4, <2>1, <2>2
<1>15. ASSUME NEW r \in Reqs, RemoveMemberWrite(r) PROVE SafeReq(held', req'[s])
  <2> DEFINE rec == [req[r] EXCEPT !.at = "invalidate", !.cards = {}]
  <2>1. req[r].at = "write" /\ (Become(r, rec) \/ Finish(r))
    BY <1>15 DEF RemoveMemberWrite, At
  <2>2. rec.method = req[r].method /\ rec.caller = req[r].caller /\ rec.at = "invalidate"
    BY SlotType DEF WellFormed, Request
  <2> HIDE DEF rec
  <2> QED
    BY <1>4, <2>1, <2>2
<1>16. CASE (\E u \in Users : AccessExpire(u)) \/ UNCHANGED vars
  BY <1>0, <1>16 DEF AccessExpire, vars
<1> QED
  BY <1>5, <1>6, <1>7, <1>8, <1>9, <1>10, <1>11, <1>12, <1>13, <1>14, <1>15, <1>16
     DEF Next, Step, Guard

\* What each step does to the cache.
LEMMA CacheSteps ==
  ASSUME TypeOK, [Next]_vars, NEW u \in Users
  PROVE  \/ access'[u] \in {access[u], NoAccess}
         \/ \E r \in Reqs : /\ req[r].at = "fill" /\ req[r].caller = u
                            /\ access'[u] = req[r].access
<1> USE DEF TypeOK
<1>1. ASSUME NEW r \in Reqs, Arrive(r) \/ Abort(r) PROVE access' = access
  BY <1>1 DEF Arrive, Abort, ReadOnly
<1>2. ASSUME NEW r \in Reqs, Step(r), ~GuardFill(r), ~InvalidateTarget(r),
             ~TransferInvalidate(r), ~RemoveInvalidate(r)
      PROVE  access' = access
  <2>1. CASE GuardCacheGet(r) \/ GuardReadBoard(r)
    BY <2>1 DEF GuardCacheGet, GuardReadBoard, ReadOnly
  <2>2. CASE \/ AddMemberCheck(r) \/ JoinCheck(r) \/ TargetCheck(r) \/ CallerCheck(r)
             \/ LeaveCheck(r) \/ ReadAssignedCards(r) \/ TransferCheck(r) \/ AssignCheck(r)
    BY <2>2 DEF AddMemberCheck, JoinCheck, TargetCheck, CallerCheck, LeaveCheck,
                ReadAssignedCards, TransferCheck, AssignCheck, ReadOnly
  <2>3. CASE Commit(r)
    BY <2>3 DEF Commit, AddMemberWrite, JoinWrite, UpdateMemberRoleWrite, AssignWrite,
                RemoveMemberWrite, TransferWrite, RemoveWrite, UnassignWrite
  <2> QED
    BY <1>2, <2>1, <2>2, <2>3 DEF Step, Guard, Commit
<1>3. ASSUME NEW r \in Reqs, GuardFill(r)
      PROVE  \/ access'[u] = access[u]
             \/ req[r].at = "fill" /\ req[r].caller = u /\ access'[u] = req[r].access
  BY <1>3 DEF GuardFill
<1>4. ASSUME NEW r \in Reqs,
             InvalidateTarget(r) \/ TransferInvalidate(r) \/ RemoveInvalidate(r)
      PROVE  access'[u] \in {access[u], NoAccess}
  BY <1>4 DEF InvalidateTarget, TransferInvalidate, RemoveInvalidate
<1>5. ASSUME NEW v \in Users, AccessExpire(v) PROVE access'[u] \in {access[u], NoAccess}
  BY <1>5 DEF AccessExpire
<1>6. CASE UNCHANGED vars
  BY <1>6 DEF vars
<1> QED
  BY <1>1, <1>2, <1>3, <1>4, <1>5, <1>6 DEF Next

LEMMA HeldInit == Init => HeldInv
<1> SUFFICES ASSUME Init PROVE HeldInv
  OBVIOUS
<1>1. PICK u \in Users :
        /\ ownerId = u
        /\ role = [v \in Users |-> IF v = u THEN "OWNER" ELSE None]
        /\ access = [v \in Users |-> NoAccess]
        /\ req = [r \in Reqs |-> Idle]
        /\ held = [v \in Users |-> IF v = u THEN RoleLevel["OWNER"] ELSE 0]
  BY DEF Init
<1>2. RoleLevel["OWNER"] = 4
  BY DEF RoleLevel
<1>3. \A v \in Users : HadRole(held, v, access[v])
  BY <1>1, GrantedNone DEF HadRole
<1>4. \A v \in Users : HadRole(held, v, Current(v))
  <2> SUFFICES ASSUME NEW v \in Users PROVE HadRole(held, v, Current(v))
    OBVIOUS
  <2>1. CASE v = u
    BY <1>1, <1>2, <2>1 DEF HadRole, Granted, Current
  <2>2. CASE v # u
    BY <1>1, <2>2 DEF HadRole, Granted, Current
  <2> QED
    BY <2>1, <2>2
<1> QED
  BY <1>1, <1>3, <1>4, IdleSafe DEF HeldInv

LEMMA HeldStep == TypeOK /\ HeldInv /\ [Next]_vars => HeldInv'
<1> SUFFICES ASSUME TypeOK, HeldInv, [Next]_vars PROVE HeldInv'
  OBVIOUS
<1>1. \A s \in Reqs : SafeReq(held, req[s])'
  BY ReqSafe DEF SafeReq, HadRole, Running, Granted
<1>2. \A u \in Users : HadRole(held, u, Current(u))'
  BY HeldGrows DEF HadRole, Granted
<1>3. ASSUME NEW u \in Users PROVE HadRole(held, u, access[u])'
  <2>0. held'[u] \in 0..4 /\ held[u] \in 0..4 /\ held'[u] >= held[u]
    BY HeldGrows DEF TypeOK
  <2>1. ASSUME NEW a \in Access, HadRole(held, u, a), access'[u] = a
        PROVE  HadRole(held', u, access'[u])
    BY <2>0, <2>1, GrantedType DEF HadRole
  <2>2. CASE access'[u] \in {access[u], NoAccess}
    <3>1. access[u] \in Access /\ HadRole(held, u, access[u])
      BY DEF TypeOK, HeldInv
    <3>2. NoAccess \in Access /\ HadRole(held, u, NoAccess)
      BY GrantedNone DEF NoAccess, Access, HadRole
    <3> QED
      BY <2>1, <2>2, <3>1, <3>2 DEF HadRole, Granted
  <2>3. ASSUME NEW r \in Reqs, req[r].at = "fill", req[r].caller = u,
               access'[u] = req[r].access
        PROVE  HadRole(held', u, access'[u])
    <3>1. req[r].access \in Access
      BY <2>3, SlotType, RunningType
    <3>2. HadRole(held, u, req[r].access)
      BY <2>3 DEF HeldInv, SafeReq
    <3> QED
      BY <2>1, <2>3, <3>1, <3>2
  <2>4. HadRole(held', u, access'[u])
    BY <2>2, <2>3, CacheSteps DEF HadRole, Granted
  <2> QED
    BY <2>4 DEF HadRole, Granted
<1> QED
  BY <1>1, <1>2, <1>3 DEF HeldInv

----------------------------------------------------------------------------
(* The theorems                                                              *)

\* Every variable of the board keeps its type, a request in flight always
\* holds the inputs that its next step uses, and its checks stand.
THEOREM TypeCorrect == Spec => []TypeOK
<1>1. Init => TypeOK
  BY TypeInit
<1>2. TypeOK /\ [Next]_vars => TypeOK'
  BY TypeStep
<1> QED
  BY <1>1, <1>2, PTL DEF Spec

\* BoardRolesGuard lets a handler run only for a user who has had a role that
\* suffices, whatever races between cache fills, invalidations and changes.
THEOREM AdmissionSafe == Spec => []AdmittedHadRole
<1>1. Init => TypeOK /\ HeldInv
  BY TypeInit, HeldInit
<1>2. TypeOK /\ HeldInv /\ [Next]_vars => TypeOK' /\ HeldInv'
  BY TypeStep, HeldStep
<1>3. HeldInv => AdmittedHadRole
  BY DEF HeldInv, SafeReq, Running, AdmittedHadRole
<1> QED
  BY <1>1, <1>2, <1>3, PTL DEF Spec

\* As long as no invite carries OWNER, only users whom the board was created by
\* or handed to ever have a row with that role.
THEOREM OwnerRowsSafe ==
  ASSUME "OWNER" \notin JoinRoles
  PROVE  Spec => []OwnerRowsWereOwners
<1>1. Init => TypeOK /\ OwnerRowsWereOwners
  BY TypeInit, OwnerRowsInit
<1>2. TypeOK /\ OwnerRowsWereOwners /\ [Next]_vars => TypeOK' /\ OwnerRowsWereOwners'
  BY TypeStep, OwnerRowsStep
<1> QED
  BY <1>1, <1>2, PTL DEF Spec

\* A request that passed its checks before the board was deleted cannot bring
\* back a member or an assignment.
THEOREM DeletionSafe == Spec => []DeletedBoardIsEmpty
<1>1. Init => TypeOK /\ DeletedBoardIsEmpty
  BY TypeInit, DeletedInit
<1>2. TypeOK /\ DeletedBoardIsEmpty /\ [Next]_vars => TypeOK' /\ DeletedBoardIsEmpty'
  BY TypeStep, DeletedStep
<1> QED
  BY <1>1, <1>2, PTL DEF Spec

----------------------------------------------------------------------------
(* One request at a time: what its checks have read is still so when it      *)
(* writes, and only the cache may be older than the request.                 *)

AtATime == \A q, r \in Reqs : q = r

\* The one request that runs: its guard lets an owner pass only while he is the
\* owner, and those it removes or changes are not.
Entitled(q) ==
    /\ q.at = "fill" /\ Granted(q.caller, q.access) = "OWNER" => q.caller = ownerId
    /\ q.method = "transferOwnership" /\ q.at \in {"run", "write"} => q.caller = ownerId
    /\ q.method = "transferOwnership" /\ q.at = "write" => q.target # q.caller
    /\ q.method = "leaveBoard" => q.target = q.caller
    /\ q.at \in {"readCaller", "readCards"} => q.target # ownerId
    /\ q.method \in {"updateMemberRole", "removeMember", "leaveBoard"} /\ q.at = "write" =>
         q.target # ownerId

\* A former owner is cached as such only until his transfer has invalidated.
Stepped(q, u) == q.method = "transferOwnership" /\ q.at = "invalidate" /\ q.caller = u

OwnerInv ==
    Exists => /\ OneOwner
              /\ \A r \in Reqs : Entitled(req[r])
              /\ \A u \in Users : Granted(u, access[u]) = "OWNER" =>
                    u = ownerId \/ \E r \in Reqs : Stepped(req[r], u)

LEMMA IdleEntitled == Entitled(Idle)
BY DEF Entitled, Idle

LEMMA OwnerInit == Init => OwnerInv
<1> SUFFICES ASSUME Init PROVE OwnerInv
  OBVIOUS
<1>1. PICK u \in Users :
        /\ ownerId = u
        /\ role = [v \in Users |-> IF v = u THEN "OWNER" ELSE None]
        /\ access = [v \in Users |-> NoAccess]
        /\ req = [r \in Reqs |-> Idle]
  BY DEF Init
<1>2. OneOwner
  BY <1>1, BoardAssumption DEF OneOwner, Roles
<1>3. \A v \in Users : Granted(v, access[v]) # "OWNER"
  BY <1>1, GrantedNone, BoardAssumption DEF Roles
<1> QED
  BY <1>1, <1>2, <1>3, IdleEntitled DEF OwnerInv

\* A step that leaves the tables and the cache alone.
LEMMA OwnerQuiet ==
  ASSUME TypeOK, OwnerInv, AtATime, NEW r \in Reqs, NEW rec, Become(r, rec),
         Exists => Entitled(rec), UNCHANGED <<ownerId, role, access>>,
         req[r].at # "invalidate"
  PROVE  OwnerInv'
<1>1. /\ \A q \in Reqs : req'[q] = rec
      /\ Exists' = Exists /\ OneOwner' = OneOwner /\ Entitled(rec)' = Entitled(rec)
  BY DEF TypeOK, Become, AtATime, Exists, OneOwner, Entitled
<1>2. \A u \in Users, q \in Reqs : ~Stepped(req[q], u)
  BY DEF AtATime, Stepped
<1> QED
  BY <1>1, <1>2 DEF OwnerInv

LEMMA OwnerQuietProceed ==
  ASSUME TypeOK, OwnerInv, AtATime, NEW r \in Reqs, NEW condition, NEW rec,
         Proceed(r, condition, rec), Exists /\ condition => Entitled(rec), ReadOnly,
         UNCHANGED access, req[r].at # "invalidate"
  PROVE  OwnerInv'
BY OwnerQuiet, IdleEntitled DEF Proceed, Finish, ReadOnly, sql

LEMMA OnlyOwnerTransfers ==
  ASSUME NEW a \in Access, NEW u \in Users, Suffices(Granted(u, a), "transferOwnership")
  PROVE  Granted(u, a) = "OWNER"
BY GrantedType DEF Suffices, Required, RoleLevel, Roles

LEMMA OwnerAdmitted ==
  ASSUME TypeOK, OwnerInv, Exists, NEW r \in Reqs, NEW a \in Access, req[r].caller \in Users,
         req[r].at \in {"cacheGet", "fill"},
         Granted(req[r].caller, a) = "OWNER" => req[r].caller = ownerId,
         Suffices(Granted(req[r].caller, a), req[r].method)
  PROVE  Entitled([req[r] EXCEPT !.at = "run", !.access = NoAccess])
<1> DEFINE p == [req[r] EXCEPT !.at = "run", !.access = NoAccess]
<1>1. req[r] \in Request /\ Entitled(req[r])
  BY SlotType DEF WellFormed, OwnerInv
<1>2. /\ p.at = "run" /\ p.method = req[r].method
      /\ p.caller = req[r].caller /\ p.target = req[r].target
  BY <1>1 DEF Request
<1>3. p.method = "transferOwnership" => p.caller = ownerId
  BY <1>2, OnlyOwnerTransfers
<1> HIDE DEF p
<1>4. Entitled(p)
  BY <1>1, <1>2, <1>3 DEF Entitled
<1> QED
  BY <1>4 DEF p

\* A commit about one user who is not the owner, and does not become one.
LEMMA OwnerCommit ==
  ASSUME TypeOK, OwnerInv, AtATime, NEW r \in Reqs, NEW t \in Users,
         Exists => t # ownerId,
         NEW ro \in Roles \cup {None}, ro # "OWNER",
         SetMembers(ownerId, [role EXCEPT ![t] = ro]), UNCHANGED access,
         NEW rec, Become(r, rec), Exists => Entitled(rec), req[r].at # "invalidate"
  PROVE  OwnerInv'
<1>1. /\ ownerId' = ownerId /\ role' = [role EXCEPT ![t] = ro]
      /\ Exists' = Exists /\ Entitled(rec)' = Entitled(rec)
      /\ \A q \in Reqs : req'[q] = rec
  BY DEF SetMembers, Exists, Entitled, TypeOK, Become, AtATime
<1>2. \A u \in Users, q \in Reqs : ~Stepped(req[q], u)
  BY DEF AtATime, Stepped
<1>3. OneOwner /\ Exists => OneOwner'
  BY <1>1 DEF OneOwner, TypeOK, Exists
<1> QED
  BY <1>1, <1>2, <1>3 DEF OwnerInv, OneOwner

LEMMA OwnerInsert ==
  ASSUME TypeOK, OwnerInv, AtATime, NEW r \in Reqs, NEW next,
         InsertMember(r, next), Exists => Entitled(next), UNCHANGED access,
         req[r].target \in Users, req[r].newRole \in Roles, req[r].newRole # "OWNER",
         req[r].at = "write"
  PROVE  OwnerInv'
<1> DEFINE t == req[r].target
<1>1. CASE Exists /\ role[t] = None
  <2>1. /\ SetMembers(ownerId, [role EXCEPT ![t] = req[r].newRole])
        /\ Become(r, next)
    BY <1>1 DEF InsertMember
  <2>2. t # ownerId
    BY <1>1, BoardAssumption DEF OwnerInv, OneOwner, TypeOK, Exists, Roles
  <2> QED
    BY <2>1, <2>2, OwnerCommit
<1>2. CASE ~(Exists /\ role[t] = None)
  <2>1. Become(r, Idle) /\ UNCHANGED <<ownerId, role>>
    BY <1>2 DEF InsertMember, Finish, sql
  <2> QED
    BY <2>1, OwnerQuiet, IdleEntitled
<1> QED
  BY <1>1, <1>2

\* Where nothing but the stage and what was read changes.
LEMMA EntitledAt ==
  ASSUME NEW q \in Request, NEW p, p.method = q.method, p.caller = q.caller,
         p.target = q.target, Entitled(q),
         p.at \in {"cacheGet", "readBoard", "invalidate", "run"},
         p.at = "run" => q.at = "run"
  PROVE  Entitled(p)
BY DEF Entitled

\* The guard: who is admitted as the owner is the owner.
LEMMA OwnerGuard ==
  ASSUME TypeOK, OwnerInv, AtATime, NEW r \in Reqs, Guard(r)
  PROVE  OwnerInv'
<1>0. /\ req[r] \in Request /\ HoldsInputs(req[r])
      /\ Exists => Entitled(req[r])
  BY SlotType DEF WellFormed, OwnerInv
<1>1. CASE GuardCacheGet(r)
  <2> DEFINE a == access[req[r].caller]
             p == [req[r] EXCEPT !.at = "run", !.access = NoAccess]
  <2>1. req[r].at = "cacheGet" /\ req[r].caller \in Users /\ ReadOnly /\ a \in Access
    BY <1>0, <1>1 DEF GuardCacheGet, HoldsInputs, TypeOK
  <2>2. CASE a # NoAccess
    <3>1. Proceed(r, Suffices(Granted(req[r].caller, a), req[r].method), p)
      BY <1>1, <2>2 DEF GuardCacheGet, Decide
    <3>2. Exists /\ Granted(req[r].caller, a) = "OWNER" => req[r].caller = ownerId
      BY <2>1 DEF OwnerInv, AtATime, Stepped
    <3>3. Exists /\ Suffices(Granted(req[r].caller, a), req[r].method) => Entitled(p)
      BY <2>1, <3>2, OwnerAdmitted
    <3> HIDE DEF p, a
    <3> QED
      BY <2>1, <3>1, <3>3, OwnerQuietProceed DEF ReadOnly
  <2>3. CASE a = NoAccess
    <3> DEFINE n == [req[r] EXCEPT !.at = "readBoard"]
    <3>1. Become(r, n)
      BY <1>1, <2>3 DEF GuardCacheGet, Goto
    <3>2. Exists => Entitled(n)
      BY <1>0, <2>1, EntitledAt DEF Request
    <3> HIDE DEF n
    <3> QED
      BY <2>1, <3>1, <3>2, OwnerQuiet DEF ReadOnly, sql
  <2> QED
    BY <2>2, <2>3
<1>2. CASE GuardReadBoard(r)
  <2> DEFINE u == req[r].caller
             p == [req[r] EXCEPT !.at = "fill", !.access = Current(u)]
  <2>1. req[r].at = "readBoard" /\ u \in Users /\ ReadOnly /\ Proceed(r, Exists, p)
    BY <1>0, <1>2 DEF GuardReadBoard, HoldsInputs
  <2>2. Exists /\ Granted(u, Current(u)) = "OWNER" => u = ownerId
    BY <2>1 DEF Granted, Current, OwnerInv, OneOwner
  <2>3. /\ p.at = "fill" /\ p.access = Current(u) /\ p.method = req[r].method
        /\ p.caller = u /\ p.target = req[r].target
    BY <1>0 DEF Request
  <2> HIDE DEF p
  <2>4. Exists => Entitled(p)
    BY <1>0, <2>1, <2>2, <2>3 DEF Entitled
  <2> QED
    BY <2>1, <2>4, OwnerQuietProceed DEF ReadOnly
<1>3. CASE GuardFill(r)
  <2> DEFINE u == req[r].caller
             a == req[r].access
             p == [req[r] EXCEPT !.at = "run", !.access = NoAccess]
  <2>1. /\ req[r].at = "fill" /\ u \in Users /\ a \in Access
        /\ access' = [access EXCEPT ![u] = a] /\ UNCHANGED <<ownerId, role>>
        /\ Proceed(r, Suffices(Granted(u, a), req[r].method), p)
    BY <1>0, <1>3 DEF GuardFill, Decide, HoldsInputs, Request, sql
  <2>2. Exists /\ Granted(u, a) = "OWNER" => u = ownerId
    BY <1>0, <2>1 DEF Entitled
  <2>3. Exists /\ Suffices(Granted(u, a), req[r].method) => Entitled(p)
    BY <2>1, <2>2, OwnerAdmitted
  <2> HIDE DEF p, a
  <2>4. PICK rec : Become(r, rec) /\ (Exists => Entitled(rec))
    BY <2>1, <2>3, IdleEntitled DEF Proceed, Finish
  <2>5. /\ \A q \in Reqs : req'[q] = rec
        /\ Exists' = Exists /\ OneOwner' = OneOwner /\ Entitled(rec)' = Entitled(rec)
    BY <2>1, <2>4 DEF TypeOK, Become, AtATime, Exists, OneOwner, Entitled
  <2>6. \A v \in Users, q \in Reqs : ~Stepped(req[q], v)
    BY <2>1 DEF AtATime, Stepped
  <2>7. Exists => \A v \in Users : Granted(v, access'[v]) = "OWNER" => v = ownerId
    BY <2>1, <2>2, <2>6 DEF OwnerInv, TypeOK
  <2> QED
    BY <2>1, <2>4, <2>5, <2>7 DEF OwnerInv
<1> QED
  BY <1>1, <1>2, <1>3 DEF Guard

\* The checks of the methods: what they read stays, as nothing else runs.
LEMMA OwnerChecks ==
  ASSUME TypeOK, OwnerInv, AtATime, NEW r \in Reqs,
         \/ AddMemberCheck(r) \/ JoinCheck(r) \/ TargetCheck(r) \/ CallerCheck(r)
         \/ LeaveCheck(r) \/ ReadAssignedCards(r) \/ TransferCheck(r) \/ AssignCheck(r)
  PROVE  OwnerInv'
<1> DEFINE q == req[r]
           u == q.caller
           t == q.target
<1>0. /\ q \in Request /\ HoldsInputs(q)
      /\ Exists => Entitled(q)
  BY SlotType DEF WellFormed, OwnerInv
\* The record goes on with the fields that count.
<1>1. ASSUME NEW condition, NEW p, Proceed(r, condition, p), ReadOnly, q.at # "invalidate",
             p.method = q.method, p.caller = u, p.target = t, p.at # "fill",
             q.method = "transferOwnership" /\ p.at \in {"run", "write"} =>
                q.at = "run" /\ (condition => t # u),
             Exists /\ condition /\
                (\/ p.at \in {"readCaller", "readCards"}
                 \/ q.method \in {"updateMemberRole", "removeMember", "leaveBoard"}) =>
                t # ownerId
      PROVE  OwnerInv'
  <2>1. Exists /\ condition => Entitled(p)
    BY <1>0, <1>1 DEF Entitled
  <2> QED
    BY <1>1, <2>1, OwnerQuietProceed DEF ReadOnly
<1>2. CASE AddMemberCheck(r)
  <2>1. q.method = "addMember" /\ q.at = "run" /\ ReadOnly
    BY <1>2 DEF AddMemberCheck, At
  <2>2. /\ [q EXCEPT !.at = "write"].at = "write" /\ [q EXCEPT !.at = "write"].method = q.method
        /\ [q EXCEPT !.at = "write"].caller = u /\ [q EXCEPT !.at = "write"].target = t
    BY <1>0 DEF Request
  <2>3. PICK condition : Proceed(r, condition, [q EXCEPT !.at = "write"])
    BY <1>2 DEF AddMemberCheck
  <2> QED
    BY <1>1, <2>1, <2>2, <2>3
<1>3. CASE JoinCheck(r)
  <2>1. q.method = "join" /\ q.at = "run" /\ ReadOnly
    BY <1>3 DEF JoinCheck, At
  <2>2. PICK condition, ro : Proceed(r, condition, [q EXCEPT !.at = "write", !.newRole = ro])
    BY <1>3 DEF JoinCheck
  <2> DEFINE p == [q EXCEPT !.at = "write", !.newRole = ro]
  <2>3. p.at = "write" /\ p.method = q.method /\ p.caller = u /\ p.target = t
    BY <1>0 DEF Request
  <2> HIDE DEF p
  <2> QED
    BY <1>1, <2>1, <2>2, <2>3 DEF p
<1>4. CASE TargetCheck(r)
  <2> DEFINE p == [q EXCEPT !.at = "readCaller", !.seen = role[t]]
             condition == /\ Exists /\ q.newRole # "OWNER"
                          /\ role[t] \notin {None, "OWNER"}
  <2>1. /\ q.method \in {"updateMemberRole", "removeMember"} /\ q.at = "run" /\ ReadOnly
        /\ Proceed(r, condition, p)
    BY <1>4 DEF TargetCheck, At
  <2>2. p.at = "readCaller" /\ p.method = q.method /\ p.caller = u /\ p.target = t
    BY <1>0 DEF Request
  <2>3. condition => t # ownerId
    BY <1>0, <2>1 DEF OwnerInv, OneOwner, HoldsInputs
  <2> HIDE DEF p, condition
  <2> QED
    BY <1>1, <2>1, <2>2, <2>3
<1>5. CASE CallerCheck(r)
  <2> DEFINE a == IF q.method = "updateMemberRole" THEN "write" ELSE "readCards"
             p == [q EXCEPT !.seen = None, !.at = a]
  <2>1. q.method \in {"updateMemberRole", "removeMember"} /\ q.at = "readCaller" /\ ReadOnly
    BY <1>0, <1>5 DEF CallerCheck, HoldsInputs
  <2>2. PICK condition : Proceed(r, condition, p)
    BY <1>5 DEF CallerCheck
  <2>3. /\ p.at \in {"write", "readCards"} /\ p.method = q.method
        /\ p.caller = u /\ p.target = t
    BY <1>0 DEF Request
  <2>4. Exists => t # ownerId
    BY <1>0, <2>1 DEF Entitled
  <2> HIDE DEF p, a
  <2> QED
    BY <1>1, <2>1, <2>2, <2>3, <2>4
<1>6. CASE LeaveCheck(r)
  <2> DEFINE p == [q EXCEPT !.at = "readCards"]
             condition == role[u] \notin {None, "OWNER"}
  <2>1. /\ q.method = "leaveBoard" /\ q.at = "run" /\ ReadOnly
        /\ Proceed(r, condition, p)
    BY <1>6 DEF LeaveCheck, At
  <2>2. p.at = "readCards" /\ p.method = q.method /\ p.caller = u /\ p.target = t
    BY <1>0 DEF Request
  <2>3. Exists /\ condition => t # ownerId
    BY <1>0, <2>1 DEF OwnerInv, OneOwner, HoldsInputs, Entitled
  <2> HIDE DEF p, condition
  <2> QED
    BY <1>1, <2>1, <2>2, <2>3
<1>7. CASE ReadAssignedCards(r)
  <2> DEFINE S == {c \in Cards : t \in assignees[c]}
             p == [q EXCEPT !.at = "write", !.cards = S]
  <2>1. /\ q.method \in {"removeMember", "leaveBoard"} /\ q.at = "readCards" /\ ReadOnly
        /\ Proceed(r, TRUE, p)
    BY <1>0, <1>7 DEF ReadAssignedCards, HoldsInputs, Proceed
  <2>2. p.at = "write" /\ p.method = q.method /\ p.caller = u /\ p.target = t
    BY <1>0 DEF Request
  <2>3. Exists => t # ownerId
    BY <1>0, <2>1 DEF Entitled
  <2> HIDE DEF p
  <2> QED
    BY <1>1, <2>1, <2>2, <2>3
<1>8. CASE TransferCheck(r)
  <2> DEFINE p == [q EXCEPT !.at = "write"]
             condition == t # u /\ role[t] # None
  <2>1. /\ q.method = "transferOwnership" /\ q.at = "run" /\ ReadOnly
        /\ Proceed(r, condition, p)
    BY <1>8 DEF TransferCheck, At
  <2>2. p.at = "write" /\ p.method = q.method /\ p.caller = u /\ p.target = t
    BY <1>0 DEF Request
  <2>3. condition => t # u
    OBVIOUS
  <2> HIDE DEF p, condition
  <2> QED
    BY <1>1, <2>1, <2>2, <2>3
<1>9. CASE AssignCheck(r)
  <2> DEFINE p == [q EXCEPT !.at = "write"]
  <2>1. q.method = "assignMember" /\ q.at = "run" /\ ReadOnly
    BY <1>9 DEF AssignCheck, At
  <2>2. PICK condition : Proceed(r, condition, p)
    BY <1>9 DEF AssignCheck
  <2>3. p.at = "write" /\ p.method = q.method /\ p.caller = u /\ p.target = t
    BY <1>0 DEF Request
  <2> HIDE DEF p
  <2> QED
    BY <1>1, <2>1, <2>2, <2>3
<1> QED
  BY <1>2, <1>3, <1>4, <1>5, <1>6, <1>7, <1>8, <1>9

\* The writes of one request at a time.
LEMMA OwnerWrites ==
  ASSUME TypeOK, DeletedBoardIsEmpty, OwnerInv, AtATime, "OWNER" \notin JoinRoles,
         NEW r \in Reqs, Commit(r)
  PROVE  OwnerInv'
<1> DEFINE q == req[r]
           u == q.caller
           t == q.target
           n == [q EXCEPT !.at = "invalidate"]
<1>0. /\ q \in Request /\ HoldsInputs(q)
      /\ Exists => Entitled(q)
  BY SlotType DEF WellFormed, OwnerInv
<1>a. n.at = "invalidate" /\ n.method = q.method /\ n.caller = u /\ n.target = t
  BY <1>0 DEF Request
<1>b. Exists => Entitled(n)
  BY <1>0, <1>a, EntitledAt
<1>c. ASSUME Finish(r), UNCHANGED <<ownerId, role, access>>, q.at # "invalidate"
      PROVE  OwnerInv'
  BY <1>c, OwnerQuiet, IdleEntitled DEF Finish
<1>1. CASE AddMemberWrite(r)
  <2>1. /\ q.method = "addMember" /\ q.at = "write" /\ UNCHANGED access
        /\ InsertMember(r, n)
    BY <1>1 DEF AddMemberWrite, At
  <2>2. t \in Users /\ q.newRole \in Roles /\ q.newRole # "OWNER"
    BY <1>0, <2>1 DEF HoldsInputs
  <2> HIDE DEF n
  <2> QED
    BY <1>b, <2>1, <2>2, OwnerInsert
<1>2. CASE JoinWrite(r)
  <2>1. /\ q.method = "join" /\ q.at = "write" /\ UNCHANGED access
        /\ InsertMember(r, Idle)
    BY <1>2 DEF JoinWrite, At
  <2>2. t \in Users /\ q.newRole \in Roles /\ q.newRole # "OWNER"
    BY <1>0, <2>1, BoardAssumption DEF HoldsInputs
  <2> QED
    BY <2>1, <2>2, OwnerInsert, IdleEntitled
<1>3. CASE UpdateMemberRoleWrite(r)
  <2>1. /\ q.method = "updateMemberRole" /\ q.at = "write" /\ UNCHANGED access
        /\ t \in Users /\ q.newRole \in Roles /\ q.newRole # "OWNER"
    BY <1>0, <1>3 DEF UpdateMemberRoleWrite, At, HoldsInputs
  <2>2. Exists => t # ownerId
    BY <1>0, <2>1 DEF Entitled
  <2>3. CASE role[t] # None
    <3>1. SetMembers(ownerId, [role EXCEPT ![t] = q.newRole]) /\ Become(r, n)
      BY <1>3, <2>3 DEF UpdateMemberRoleWrite, Goto
    <3> HIDE DEF n
    <3> QED
      BY <1>b, <2>1, <2>2, <3>1, OwnerCommit
  <2>4. CASE role[t] = None
    BY <1>3, <1>c, <2>1, <2>4 DEF UpdateMemberRoleWrite, sql
  <2> QED
    BY <2>3, <2>4
<1>4. CASE RemoveMemberWrite(r)
  <2>1. /\ q.method \in {"removeMember", "leaveBoard"} /\ q.at = "write"
        /\ UNCHANGED access /\ t \in Users
    BY <1>0, <1>4 DEF RemoveMemberWrite, At, HoldsInputs
  <2>2. Exists => t # ownerId
    BY <1>0, <2>1 DEF Entitled
  <2>3. CASE role[t] # None
    <3> DEFINE p == [q EXCEPT !.at = "invalidate", !.cards = {}]
    <3>1. SetMembers(ownerId, [role EXCEPT ![t] = None]) /\ Become(r, p)
      BY <1>4, <2>3 DEF RemoveMemberWrite
    <3>2. p.at = "invalidate" /\ p.method = q.method /\ p.caller = u /\ p.target = t
      BY <1>0 DEF Request
    <3>3. Exists => Entitled(p)
      BY <1>0, <3>2, EntitledAt
    <3>4. None # "OWNER"
      BY BoardAssumption DEF Roles
    <3> HIDE DEF p
    <3> QED
      BY <2>1, <2>2, <3>1, <3>3, <3>4, OwnerCommit
  <2>4. CASE role[t] = None
    BY <1>4, <1>c, <2>1, <2>4 DEF RemoveMemberWrite, sql
  <2> QED
    BY <2>3, <2>4
<1>5. CASE TransferWrite(r)
  <2>1. /\ q.method = "transferOwnership" /\ q.at = "write" /\ UNCHANGED access
        /\ t \in Users /\ u \in Users
    BY <1>0, <1>5 DEF TransferWrite, At, HoldsInputs
  <2>2. CASE role[u] # None /\ role[t] # None
    <3>1. /\ SetMembers(t, [role EXCEPT ![u] = "ADMIN", ![t] = "OWNER"])
          /\ Become(r, n)
      BY <1>5, <2>2 DEF TransferWrite, Goto
    <3>2. Exists /\ u = ownerId /\ t # u
      BY <1>0, <2>1, <2>2 DEF DeletedBoardIsEmpty, Entitled
    <3> HIDE DEF n
    <3>3. PICK rec : rec = n
      OBVIOUS
    <3>4. /\ ownerId' = t /\ role' = [role EXCEPT ![u] = "ADMIN", ![t] = "OWNER"]
          /\ \A p \in Reqs : req'[p] = rec
      BY <3>1, <3>3 DEF SetMembers, TypeOK, Become, AtATime
    <3>5. OneOwner'
      BY <2>1, <3>2, <3>4 DEF OwnerInv, OneOwner, TypeOK
    <3>6. /\ rec.at = "invalidate" /\ rec.method = "transferOwnership" /\ rec.caller = u
      BY <1>a, <2>1, <3>3
    <3>7. Entitled(rec)'
      BY <3>6 DEF Entitled
    <3>8. \A v \in Users : Granted(v, access[v]) = "OWNER" => v = u
      BY <2>1, <3>2 DEF OwnerInv, AtATime, Stepped
    <3>9. \A v \in Users : Granted(v, access'[v]) = "OWNER" =>
             \E p \in Reqs : Stepped(req'[p], v)
      BY <2>1, <3>4, <3>6, <3>8 DEF Stepped
    <3> QED
      BY <3>4, <3>5, <3>7, <3>9 DEF OwnerInv
  <2>3. CASE ~(role[u] # None /\ role[t] # None)
    BY <1>5, <1>c, <2>1, <2>3 DEF TransferWrite, sql
  <2> QED
    BY <2>2, <2>3
<1>6. CASE RemoveWrite(r)
  <2>1. q.at = "run" /\ UNCHANGED access
    BY <1>6 DEF RemoveWrite, At
  <2>2. CASE Exists
    BY <1>6, <2>2 DEF RemoveWrite, SetMembers, OwnerInv, Exists
  <2>3. CASE ~Exists
    BY <1>6, <1>c, <2>1, <2>3 DEF RemoveWrite, sql
  <2> QED
    BY <2>2, <2>3
<1>7. CASE AssignWrite(r) \/ UnassignWrite(r)
  BY <1>7, <1>c DEF AssignWrite, UnassignWrite, At
<1> QED
  BY <1>1, <1>2, <1>3, <1>4, <1>5, <1>6, <1>7 DEF Commit

\* A transfer invalidates what its caller was cached as.
LEMMA OwnerInvalidates ==
  ASSUME TypeOK, OwnerInv, AtATime, NEW r \in Reqs,
         InvalidateTarget(r) \/ TransferInvalidate(r) \/ RemoveInvalidate(r)
  PROVE  OwnerInv'
<1> DEFINE q == req[r]
<1>0. q \in Request /\ HoldsInputs(q)
  BY SlotType DEF WellFormed
<1>1. /\ Finish(r) /\ UNCHANGED <<ownerId, role>> /\ q.at = "invalidate"
      /\ \A u \in Users : access'[u] \in {access[u], NoAccess}
      /\ q.method = "transferOwnership" => access'[q.caller] = NoAccess
  <2>1. q.at = "invalidate"
    BY DEF InvalidateTarget, TransferInvalidate, RemoveInvalidate, At
  <2>2. q.caller \in Users
    BY <1>0, <2>1 DEF HoldsInputs
  <2>3. CASE InvalidateTarget(r)
    BY <2>1, <2>3 DEF InvalidateTarget, At, TypeOK, sql
  <2>4. CASE TransferInvalidate(r)
    BY <2>1, <2>2, <2>4 DEF TransferInvalidate, At, TypeOK, sql
  <2>5. CASE RemoveInvalidate(r)
    BY <2>1, <2>5 DEF RemoveInvalidate, At, TypeOK, sql
  <2> QED
    BY <2>3, <2>4, <2>5
<1>2. /\ \A p \in Reqs : req'[p] = Idle
      /\ Exists' = Exists /\ OneOwner' = OneOwner
  BY <1>1 DEF TypeOK, Finish, Become, AtATime, Exists, OneOwner
<1>3. Entitled(Idle)'
  BY DEF Entitled, Idle
<1>4. Exists => \A u \in Users : Granted(u, access'[u]) = "OWNER" => u = ownerId
  <2> SUFFICES ASSUME Exists, NEW u \in Users, Granted(u, access'[u]) = "OWNER"
               PROVE  u = ownerId
    OBVIOUS
  <2>1. access'[u] # NoAccess
    BY GrantedNone, BoardAssumption DEF Roles
  <2>2. Granted(u, access[u]) = "OWNER"
    BY <1>1, <2>1
  <2>3. ~(q.method = "transferOwnership" /\ q.caller = u)
    BY <1>1, <2>1
  <2> QED
    BY <2>2, <2>3 DEF OwnerInv, AtATime, Stepped
<1> QED
  BY <1>1, <1>2, <1>3, <1>4 DEF OwnerInv

LEMMA OwnerStep ==
  ASSUME TypeOK, DeletedBoardIsEmpty, OwnerInv, AtATime, "OWNER" \notin JoinRoles, ~Failures,
         [Next]_vars
  PROVE  OwnerInv'
<1>1. ASSUME NEW r \in Reqs, Arrive(r) PROVE OwnerInv'
  <2>1. PICK m \in Methods, u \in Users, t \in Users, ro \in GivenRoles, c \in Cards :
          (m = "leaveBoard" => t = u) /\ Become(r, Incoming(m, u, t, ro, c))
    BY <1>1 DEF Arrive
  <2> DEFINE p == Incoming(m, u, t, ro, c)
  <2>2. /\ p.at \in {"run", "cacheGet"} /\ p.method = m /\ p.caller = u
        /\ p.at = "run" => m = "join"
        /\ m = "leaveBoard" => p.target = t
    BY DEF Incoming
  <2>3. req[r].at # "invalidate" /\ ReadOnly
    BY <1>1 DEF Arrive, Free, Idle
  <2> HIDE DEF p
  <2>4. Entitled(p)
    BY <2>1, <2>2 DEF Entitled
  <2> QED
    BY <2>1, <2>3, <2>4, OwnerQuiet DEF ReadOnly, sql, p
<1>2. ASSUME NEW u \in Users, AccessExpire(u) PROVE OwnerInv'
  <2>1. /\ UNCHANGED <<ownerId, role, req>>
        /\ \A v \in Users : access'[v] \in {access[v], NoAccess}
    BY <1>2 DEF AccessExpire, TypeOK, sql
  <2>2. \A v \in Users : Granted(v, NoAccess) # "OWNER"
    BY GrantedNone, BoardAssumption DEF Roles
  <2>3. \A r \in Reqs : Entitled(req[r])' = Entitled(req[r])
    BY <2>1 DEF Entitled
  <2>4. OneOwner' = OneOwner /\ Exists' = Exists
    BY <2>1 DEF OneOwner, Exists
  <2> QED
    BY <2>1, <2>2, <2>3, <2>4 DEF OwnerInv
<1>3. CASE UNCHANGED vars
  <2>1. UNCHANGED <<ownerId, role, req, access>>
    BY <1>3 DEF vars, sql
  <2> QED
    BY <2>1 DEF OwnerInv, OneOwner, Exists, Entitled
<1>4. ASSUME NEW r \in Reqs, Step(r) PROVE OwnerInv'
  BY <1>4, OwnerGuard, OwnerChecks, OwnerWrites, OwnerInvalidates DEF Step, Commit
<1> QED
  BY <1>1, <1>2, <1>3, <1>4 DEF Next, Abort

\* As long as one request at a time is handled to its end, and no invite carries
\* OWNER, the row of the owner is the only one with that role, however old the
\* cached roles are that the guard goes by.
THEOREM OneOwnerSafe ==
  ASSUME AtATime, ~Failures, "OWNER" \notin JoinRoles
  PROVE  Spec => []OneOwner
<1>1. Init => TypeOK /\ DeletedBoardIsEmpty /\ OwnerInv
  BY TypeInit, DeletedInit, OwnerInit
<1>2. TypeOK /\ DeletedBoardIsEmpty /\ OwnerInv /\ [Next]_vars =>
        TypeOK' /\ DeletedBoardIsEmpty' /\ OwnerInv'
  BY TypeStep, DeletedStep, OwnerStep
<1>3. OwnerInv => OneOwner
  BY DEF OwnerInv, OneOwner
<1> QED
  BY <1>1, <1>2, <1>3, PTL DEF Spec

----------------------------------------------------------------------------
(* One request at a time, whether it fails or not, assigns members only and   *)
(* unassigns who is removed.                                                 *)

\* Who is about to be assigned is a member, and the cards of who is about to be
\* removed are known.
Knowing(q) ==
    /\ q.method = "assignMember" /\ q.at = "write" /\ Exists => role[q.target] # None
    /\ q.method \in {"removeMember", "leaveBoard"} /\ q.at = "write" =>
         \A c \in Cards : q.target \in assignees[c] => c \in q.cards

AssignInv == AssigneesAreMembers /\ \A r \in Reqs : Knowing(req[r])

LEMMA IdleKnowing == Knowing(Idle)
BY DEF Knowing, Idle

LEMMA AssignInit == Init => AssignInv
BY IdleKnowing DEF Init, AssignInv, AssigneesAreMembers

LEMMA AssignQuiet ==
  ASSUME TypeOK, AssignInv, AtATime, NEW r \in Reqs, NEW rec, Become(r, rec),
         Knowing(rec), UNCHANGED sql
  PROVE  AssignInv'
<1>1. /\ \A q \in Reqs : req'[q] = rec
      /\ AssigneesAreMembers' = AssigneesAreMembers /\ Knowing(rec)' = Knowing(rec)
  BY DEF TypeOK, Become, AtATime, AssigneesAreMembers, Knowing, Exists, sql
<1> QED
  BY <1>1 DEF AssignInv

LEMMA AssignProceed ==
  ASSUME TypeOK, AssignInv, AtATime, NEW r \in Reqs, NEW condition, NEW rec,
         Proceed(r, condition, rec), condition => Knowing(rec), UNCHANGED sql
  PROVE  AssignInv'
BY AssignQuiet, IdleKnowing DEF Proceed, Finish

\* A request that is not about to assign or remove.
LEMMA KnowingElse ==
  ASSUME NEW p, p.at # "write" \/ p.method \notin {"assignMember", "removeMember", "leaveBoard"}
  PROVE  Knowing(p) /\ Knowing(p)'
BY DEF Knowing

LEMMA AssignReads ==
  ASSUME TypeOK, AssignInv, AtATime, NEW r \in Reqs,
         \/ Arrive(r) \/ Guard(r) \/ Abort(r)
         \/ AddMemberCheck(r) \/ JoinCheck(r) \/ TargetCheck(r) \/ CallerCheck(r)
         \/ LeaveCheck(r) \/ ReadAssignedCards(r) \/ TransferCheck(r) \/ AssignCheck(r)
  PROVE  AssignInv'
<1> DEFINE q == req[r]
<1>0. q \in Request /\ HoldsInputs(q)
  BY SlotType DEF WellFormed
<1>1. CASE Arrive(r)
  <2>1. PICK m \in Methods, u \in Users, t \in Users, ro \in GivenRoles, c \in Cards :
          Become(r, Incoming(m, u, t, ro, c))
    BY <1>1 DEF Arrive
  <2>2. Incoming(m, u, t, ro, c).at # "write"
    BY DEF Incoming
  <2>3. UNCHANGED sql
    BY <1>1 DEF Arrive, ReadOnly
  <2> QED
    BY <2>1, <2>2, <2>3, AssignQuiet, KnowingElse
<1>2. CASE Guard(r)
  <2>1. ASSUME NEW a, Decide(r, a), UNCHANGED sql PROVE AssignInv'
    <3>1. [q EXCEPT !.at = "run", !.access = NoAccess].at # "write"
      BY <1>0 DEF Request
    <3> QED
      BY <2>1, <3>1, AssignProceed, KnowingElse DEF Decide
  <2>2. CASE GuardCacheGet(r)
    <3>1. [q EXCEPT !.at = "readBoard"].at # "write"
      BY <1>0 DEF Request
    <3> QED
      BY <2>1, <2>2, <3>1, AssignQuiet, KnowingElse DEF GuardCacheGet, Goto, ReadOnly
  <2>3. CASE GuardReadBoard(r)
    <3>1. [q EXCEPT !.at = "fill", !.access = Current(q.caller)].at # "write"
      BY <1>0 DEF Request
    <3> QED
      BY <2>3, <3>1, AssignProceed, KnowingElse DEF GuardReadBoard, ReadOnly
  <2>4. CASE GuardFill(r)
    BY <2>1, <2>4 DEF GuardFill
  <2> QED
    BY <1>2, <2>2, <2>3, <2>4 DEF Guard
<1>3. CASE Abort(r)
  BY <1>3, AssignQuiet, IdleKnowing DEF Abort, Finish, ReadOnly
<1>4. CASE AddMemberCheck(r)
  <2>1. [q EXCEPT !.at = "write"].method = "addMember" /\ UNCHANGED sql
    BY <1>0, <1>4 DEF AddMemberCheck, At, Request, ReadOnly
  <2>2. PICK condition : Proceed(r, condition, [q EXCEPT !.at = "write"])
    BY <1>4 DEF AddMemberCheck
  <2> QED
    BY <2>1, <2>2, AssignProceed, KnowingElse
<1>5. CASE JoinCheck(r)
  <2>1. PICK condition, ro : Proceed(r, condition, [q EXCEPT !.at = "write", !.newRole = ro])
    BY <1>5 DEF JoinCheck
  <2>2. [q EXCEPT !.at = "write", !.newRole = ro].method = "join" /\ UNCHANGED sql
    BY <1>0, <1>5 DEF JoinCheck, At, Request, ReadOnly
  <2> QED
    BY <2>1, <2>2, AssignProceed, KnowingElse
<1>6. CASE TargetCheck(r)
  <2>1. [q EXCEPT !.at = "readCaller", !.seen = role[q.target]].at # "write" /\ UNCHANGED sql
    BY <1>0, <1>6 DEF TargetCheck, Request, ReadOnly
  <2>2. PICK condition :
          Proceed(r, condition, [q EXCEPT !.at = "readCaller", !.seen = role[q.target]])
    BY <1>6 DEF TargetCheck
  <2> QED
    BY <2>1, <2>2, AssignProceed, KnowingElse
<1>7. CASE CallerCheck(r)
  <2> DEFINE p == [q EXCEPT !.seen = None,
                     !.at = IF q.method = "updateMemberRole" THEN "write" ELSE "readCards"]
  <2>1. /\ p.at # "write" \/ p.method \notin {"assignMember", "removeMember", "leaveBoard"}
        /\ UNCHANGED sql
    BY <1>0, <1>7 DEF CallerCheck, Request, ReadOnly
  <2>2. PICK condition : Proceed(r, condition, p)
    BY <1>7 DEF CallerCheck
  <2> HIDE DEF p
  <2> QED
    BY <2>1, <2>2, AssignProceed, KnowingElse
<1>8. CASE LeaveCheck(r)
  <2>1. [q EXCEPT !.at = "readCards"].at # "write" /\ UNCHANGED sql
    BY <1>0, <1>8 DEF LeaveCheck, Request, ReadOnly
  <2>2. PICK condition : Proceed(r, condition, [q EXCEPT !.at = "readCards"])
    BY <1>8 DEF LeaveCheck
  <2> QED
    BY <2>1, <2>2, AssignProceed, KnowingElse
<1>9. CASE ReadAssignedCards(r)
  <2> DEFINE p == [q EXCEPT !.at = "write", !.cards = {c \in Cards : q.target \in assignees[c]}]
  <2>1. /\ q.method \in {"removeMember", "leaveBoard"}
        /\ Become(r, p) /\ UNCHANGED sql
    BY <1>0, <1>9 DEF ReadAssignedCards, HoldsInputs, ReadOnly
  <2>2. /\ p.method = q.method /\ p.target = q.target
        /\ p.cards = {c \in Cards : q.target \in assignees[c]}
    BY <1>0 DEF Request
  <2> HIDE DEF p
  <2>3. Knowing(p)
    BY <2>1, <2>2 DEF Knowing
  <2> QED
    BY <2>1, <2>3, AssignQuiet
<1>10. CASE TransferCheck(r)
  <2>1. [q EXCEPT !.at = "write"].method = "transferOwnership" /\ UNCHANGED sql
    BY <1>0, <1>10 DEF TransferCheck, At, Request, ReadOnly
  <2>2. PICK condition : Proceed(r, condition, [q EXCEPT !.at = "write"])
    BY <1>10 DEF TransferCheck
  <2> QED
    BY <2>1, <2>2, AssignProceed, KnowingElse
<1>11. CASE AssignCheck(r)
  <2> DEFINE p == [q EXCEPT !.at = "write"]
             condition == Exists /\ role[q.target] # None
  <2>1. p.method = "assignMember" /\ p.target = q.target /\ UNCHANGED sql
    BY <1>0, <1>11 DEF AssignCheck, At, Request, ReadOnly
  <2>2. Proceed(r, condition, p)
    BY <1>11 DEF AssignCheck
  <2> HIDE DEF p
  <2>3. condition => Knowing(p)
    BY <2>1 DEF Knowing
  <2> HIDE DEF condition
  <2> QED
    BY <2>1, <2>2, <2>3, AssignProceed
<1> QED
  BY <1>1, <1>2, <1>3, <1>4, <1>5, <1>6, <1>7, <1>8, <1>9, <1>10, <1>11

\* After a commit the request is not about to write any more.
LEMMA AssignCommit ==
  ASSUME TypeOK, AtATime, NEW r \in Reqs, NEW rec, Become(r, rec), rec.at # "write",
         AssigneesAreMembers'
  PROVE  AssignInv'
<1>1. \A q \in Reqs : req'[q] = rec
  BY DEF TypeOK, Become, AtATime
<1> QED
  BY <1>1, KnowingElse DEF AssignInv

LEMMA AssignWrites ==
  ASSUME TypeOK, DeletedBoardIsEmpty, AssignInv, AtATime, NEW r \in Reqs, Commit(r)
  PROVE  AssignInv'
<1> DEFINE q == req[r]
           t == q.target
           n == [q EXCEPT !.at = "invalidate"]
<1>0. q \in Request /\ HoldsInputs(q) /\ Knowing(q) /\ AssigneesAreMembers
  BY SlotType DEF WellFormed, AssignInv
<1>a. n.at = "invalidate"
  BY <1>0 DEF Request
<1>b. ASSUME Finish(r), UNCHANGED sql PROVE AssignInv'
  BY <1>b, AssignQuiet, IdleKnowing DEF Finish
\* Roles change, but nobody loses his.
<1>c. ASSUME NEW next, Become(r, next), next.at # "write", UNCHANGED assignees,
             NEW o, NEW ro, SetMembers(o, ro), \A u \in Users : role[u] # None => ro[u] # None
      PROVE  AssignInv'
  <2>1. AssigneesAreMembers'
    BY <1>0, <1>c DEF AssigneesAreMembers, SetMembers, TypeOK
  <2> QED
    BY <1>c, <2>1, AssignCommit
<1>d. Idle.at # "write"
  BY DEF Idle
<1>1. ASSUME NEW next, next.at # "write", InsertMember(r, next), t \in Users,
             q.newRole \in Roles
      PROVE  AssignInv'
  <2>1. CASE Exists /\ role[t] = None
    <3>1. /\ SetMembers(ownerId, [role EXCEPT ![t] = q.newRole])
          /\ Become(r, next) /\ UNCHANGED assignees
      BY <1>1, <2>1 DEF InsertMember
    <3>2. \A u \in Users : role[u] # None => [role EXCEPT ![t] = q.newRole][u] # None
      BY <1>1, BoardAssumption DEF TypeOK
    <3> QED
      BY <1>1, <1>c, <3>1, <3>2
  <2>2. CASE ~(Exists /\ role[t] = None)
    BY <1>1, <1>b, <2>2 DEF InsertMember
  <2> QED
    BY <2>1, <2>2
<1>2. CASE AddMemberWrite(r)
  <2>1. q.method = "addMember" /\ q.at = "write" /\ InsertMember(r, n)
    BY <1>2 DEF AddMemberWrite, At
  <2>2. t \in Users /\ q.newRole \in Roles
    BY <1>0, <2>1 DEF HoldsInputs
  <2> HIDE DEF n
  <2> QED
    BY <1>1, <1>a, <2>1, <2>2
<1>3. CASE JoinWrite(r)
  <2>1. q.method = "join" /\ q.at = "write" /\ InsertMember(r, Idle)
    BY <1>3 DEF JoinWrite, At
  <2>2. t \in Users /\ q.newRole \in Roles
    BY <1>0, <2>1, BoardAssumption DEF HoldsInputs
  <2> QED
    BY <1>1, <1>d, <2>1, <2>2
<1>4. CASE UpdateMemberRoleWrite(r)
  <2>1. t \in Users /\ q.newRole \in Roles
    BY <1>0, <1>4 DEF UpdateMemberRoleWrite, At, HoldsInputs
  <2>2. CASE role[t] # None
    <3>1. /\ SetMembers(ownerId, [role EXCEPT ![t] = q.newRole]) /\ Become(r, n)
          /\ UNCHANGED assignees
      BY <1>4, <2>2 DEF UpdateMemberRoleWrite, Goto
    <3>2. \A u \in Users : role[u] # None => [role EXCEPT ![t] = q.newRole][u] # None
      BY <2>1, BoardAssumption DEF TypeOK
    <3> HIDE DEF n
    <3> QED
      BY <1>a, <1>c, <3>1, <3>2
  <2>3. CASE role[t] = None
    BY <1>4, <1>b, <2>3 DEF UpdateMemberRoleWrite
  <2> QED
    BY <2>2, <2>3
<1>5. CASE RemoveMemberWrite(r)
  <2>1. /\ q.method \in {"removeMember", "leaveBoard"} /\ q.at = "write" /\ t \in Users
    BY <1>0, <1>5 DEF RemoveMemberWrite, At, HoldsInputs
  <2>2. CASE role[t] # None
    <3> DEFINE p == [q EXCEPT !.at = "invalidate", !.cards = {}]
    <3>1. /\ role' = [role EXCEPT ![t] = None] /\ Become(r, p)
          /\ assignees' = [c \in Cards |->
                IF c \in q.cards THEN assignees[c] \ {t} ELSE assignees[c]]
      BY <1>5, <2>2 DEF RemoveMemberWrite, SetMembers
    <3>2. p.at = "invalidate"
      BY <1>0 DEF Request
    <3>3. \A c \in Cards : assignees'[c] \subseteq assignees[c] \ {t}
      BY <1>0, <2>1, <3>1 DEF Knowing
    <3>4. AssigneesAreMembers'
      BY <1>0, <3>1, <3>3 DEF AssigneesAreMembers, TypeOK
    <3> HIDE DEF p
    <3> QED
      BY <3>1, <3>2, <3>4, AssignCommit
  <2>3. CASE role[t] = None
    BY <1>5, <1>b, <2>3 DEF RemoveMemberWrite
  <2> QED
    BY <2>2, <2>3
<1>6. CASE TransferWrite(r)
  <2> DEFINE ro == [role EXCEPT ![q.caller] = "ADMIN", ![t] = "OWNER"]
  <2>1. CASE role[q.caller] # None /\ role[t] # None
    <3>1. SetMembers(t, ro) /\ Become(r, n) /\ UNCHANGED assignees
      BY <1>6, <2>1 DEF TransferWrite, Goto
    <3>2. \A u \in Users : role[u] # None => ro[u] # None
      BY BoardAssumption DEF TypeOK, Roles
    <3> HIDE DEF n, ro
    <3> QED
      BY <1>a, <1>c, <3>1, <3>2
  <2>2. CASE ~(role[q.caller] # None /\ role[t] # None)
    BY <1>6, <1>b, <2>2 DEF TransferWrite
  <2> QED
    BY <2>1, <2>2
<1>7. CASE RemoveWrite(r)
  <2>1. CASE Exists
    <3>1. assignees' = [c \in Cards |-> {}] /\ Become(r, n)
      BY <1>7, <2>1 DEF RemoveWrite, Goto
    <3>2. AssigneesAreMembers'
      BY <3>1 DEF AssigneesAreMembers
    <3> HIDE DEF n
    <3> QED
      BY <1>a, <3>1, <3>2, AssignCommit
  <2>2. CASE ~Exists
    BY <1>7, <1>b, <2>2 DEF RemoveWrite
  <2> QED
    BY <2>1, <2>2
<1>8. CASE AssignWrite(r)
  <2>1. /\ q.method = "assignMember" /\ q.at = "write" /\ Become(r, Idle) /\ UNCHANGED role
        /\ assignees' = IF Exists THEN [assignees EXCEPT ![q.card] = @ \cup {t}] ELSE assignees
    BY <1>8 DEF AssignWrite, At, Finish
  <2>2. Exists => role[t] # None
    BY <1>0, <2>1 DEF Knowing
  <2>3. AssigneesAreMembers'
    BY <1>0, <2>1, <2>2 DEF AssigneesAreMembers, TypeOK
  <2> QED
    BY <1>d, <2>1, <2>3, AssignCommit
<1>9. CASE UnassignWrite(r)
  <2>1. /\ Become(r, Idle) /\ UNCHANGED role
        /\ assignees' = [assignees EXCEPT ![q.card] = @ \ {t}]
    BY <1>9 DEF UnassignWrite, Finish
  <2>2. AssigneesAreMembers'
    BY <1>0, <2>1 DEF AssigneesAreMembers, TypeOK
  <2> QED
    BY <1>d, <2>1, <2>2, AssignCommit
<1> QED
  BY <1>2, <1>3, <1>4, <1>5, <1>6, <1>7, <1>8, <1>9 DEF Commit

LEMMA AssignStep ==
  ASSUME TypeOK, DeletedBoardIsEmpty, AssignInv, AtATime, [Next]_vars
  PROVE  AssignInv'
<1>1. ASSUME NEW r \in Reqs,
             InvalidateTarget(r) \/ TransferInvalidate(r) \/ RemoveInvalidate(r)
      PROVE  AssignInv'
  BY <1>1, AssignQuiet, IdleKnowing
     DEF InvalidateTarget, TransferInvalidate, RemoveInvalidate, Finish
<1>2. CASE UNCHANGED <<sql, req>>
  BY <1>2 DEF AssignInv, AssigneesAreMembers, Knowing, Exists, sql
<1> QED
  BY <1>1, <1>2, AssignReads, AssignWrites DEF Next, Step, Commit, AccessExpire, vars

\* As long as one request at a time is handled, whether it fails or not, only
\* members are assigned to cards: a removal takes its user off all of them.
THEOREM AssigneesSafe ==
  ASSUME AtATime
  PROVE  Spec => []AssigneesAreMembers
<1>1. Init => TypeOK /\ DeletedBoardIsEmpty /\ AssignInv
  BY TypeInit, DeletedInit, AssignInit
<1>2. TypeOK /\ DeletedBoardIsEmpty /\ AssignInv /\ [Next]_vars =>
        TypeOK' /\ DeletedBoardIsEmpty' /\ AssignInv'
  BY TypeStep, DeletedStep, AssignStep
<1>3. AssignInv => AssigneesAreMembers
  BY DEF AssignInv
<1> QED
  BY <1>1, <1>2, <1>3, PTL DEF Spec
=============================================================================

--------------------------- MODULE SessionProofs ---------------------------
(* Theorems about Session, for any number of token pairs, slots and reset   *)
(* tokens and any bounds.                                                    *)
EXTENDS Session, TLAPS

(***************************************************************************)
(* Types.  A step replaces the record of one request, so the lemmas say    *)
(* which replacements are well formed.                                     *)
(***************************************************************************)

LEMMA IdleType == Idle \in WellFormed
  BY SessionAssumption
     DEF WellFormed, HoldsInputs, Idle, Request, Ops, Routes, Stages, Ends

LEMMA StageType ==
  ASSUME NEW q \in WellFormed, NEW a \in Stages \ {"issue"}
  PROVE  [q EXCEPT !.at = a] \in WellFormed
  BY DEF WellFormed, HoldsInputs, Request

LEMMA VersionType ==
  ASSUME NEW q \in WellFormed, NEW a \in Stages, NEW v \in Nat
  PROVE  [q EXCEPT !.at = a, !.ver = v] \in WellFormed
  BY DEF WellFormed, HoldsInputs, Request

LEMMA SnapType ==
  ASSUME NEW q \in WellFormed, NEW S \in SUBSET Sess
  PROVE  [q EXCEPT !.at = "commit", !.snap = S] \in WellFormed
  BY DEF WellFormed, HoldsInputs, Request, Stages

LEMMA BlackType ==
  ASSUME NEW q \in WellFormed, NEW b \in {"yes", "no"}
  PROVE  [q EXCEPT !.black = b] \in WellFormed
  BY DEF WellFormed, HoldsInputs, Request

LEMMA AdmitType ==
  ASSUME NEW q \in WellFormed
  PROVE  [q EXCEPT !.at = "run", !.ver = None, !.black = "unread"] \in WellFormed
  BY DEF WellFormed, HoldsInputs, Request, Stages

LEMMA LoginType ==
  ASSUME NEW v \in Nat
  PROVE  [Idle EXCEPT !.op = "login", !.at = "issue", !.ver = v] \in WellFormed
  BY SessionAssumption
     DEF WellFormed, HoldsInputs, Idle, Request, Ops, Routes, Stages, Ends

LEMMA RefreshType ==
  ASSUME NEW s \in Sess
  PROVE  [Idle EXCEPT !.op = "refresh", !.at = "revoke", !.sess = s] \in WellFormed
  BY SessionAssumption
     DEF WellFormed, HoldsInputs, Idle, Request, Ops, Routes, Stages, Ends

LEMMA CallType ==
  ASSUME NEW s \in Sess, NEW goal \in Goals, NEW e \in Ends
  PROVE  [Idle EXCEPT !.op = goal, !.at = "cacheGet", !.sess = s, !.late = e]
           \in WellFormed
  BY SessionAssumption
     DEF WellFormed, HoldsInputs, Idle, Request, Ops, Routes, Stages, Ends

LEMMA ResetType ==
  ASSUME NEW t \in ResetTokens
  PROVE  [Idle EXCEPT !.op = "reset", !.at = "run", !.tok = t] \in WellFormed
  BY SessionAssumption
     DEF WellFormed, HoldsInputs, Idle, Request, Ops, Routes, Stages, Ends

LEMMA BecomeType ==
  ASSUME TypeOK, NEW r \in Reqs, NEW rec \in WellFormed, Become(r, rec)
  PROVE  req' \in [Reqs -> WellFormed]
  BY DEF TypeOK, Become

\* What TypeOK says of one request and of its fields.
LEMMA SlotType ==
  ASSUME TypeOK, NEW r \in Reqs
  PROVE  /\ req[r] \in WellFormed
         /\ req[r].ver \in Nat \cup {None} /\ req[r].snap \subseteq Sess
         /\ req[r].op \in Routes \cup {"refresh"} => req[r].sess \in Sess
         /\ req[r].op = "reset" => req[r].tok \in ResetTokens
         /\ req[r].at = "issue" => req[r].ver \in Nat
         /\ req[r].late \in Ends
  BY DEF TypeOK, WellFormed, HoldsInputs, Request

\* The type invariant is preserved by every step.
LEMMA TypeStep == TypeOK /\ [Next]_vars => TypeOK'
<1> SUFFICES ASSUME TypeOK, [Next]_vars PROVE TypeOK'
  OBVIOUS
<1> USE DEF sql, redis, clock
<1>1. ASSUME NEW r \in Reqs, LoginRead(r) PROVE TypeOK'
  <2>1. [Idle EXCEPT !.op = "login", !.at = "issue", !.ver = tokenVersion] \in WellFormed
    BY LoginType DEF TypeOK
  <2>2. req' \in [Reqs -> WellFormed]
    BY <1>1, <2>1, BecomeType DEF LoginRead
  <2> QED
    BY <1>1, <2>2 DEF LoginRead, ReadOnly, TypeOK
<1>2. ASSUME NEW r \in Reqs, LoginIssue(r) PROVE TypeOK'
  <2>1. req' \in [Reqs -> WellFormed]
    BY <1>2, IdleType, SlotType, BecomeType
       DEF LoginIssue, Finish, Goto, TypeOK, Stages
  <2> QED
    BY <1>2, <2>1, SlotType DEF LoginIssue, ReadOnly, TypeOK, IssueTokens, At
<1>3. ASSUME NEW r \in Reqs, RefreshCheck(r) PROVE TypeOK'
  <2>1. PICK s \in Sess : Become(r, [Idle EXCEPT !.op = "refresh", !.at = "revoke",
                                                !.sess = s])
    BY <1>3 DEF RefreshCheck
  <2>2. req' \in [Reqs -> WellFormed]
    BY <2>1, RefreshType, BecomeType
  <2> QED
    BY <1>3, <2>2 DEF RefreshCheck, ReadOnly, TypeOK
<1>4. ASSUME NEW r \in Reqs, RefreshRevoke(r) PROVE TypeOK'
  <2>1. req' \in [Reqs -> WellFormed]
    BY <1>4, StageType, SlotType, BecomeType
       DEF RefreshRevoke, Finish, Goto, TypeOK, Stages
  <2> QED
    BY <1>4, <2>1, SlotType DEF RefreshRevoke, ReadOnly, TypeOK
<1>5. ASSUME NEW r \in Reqs, RefreshReadUser(r) PROVE TypeOK'
  <2>1. req' \in [Reqs -> WellFormed]
    BY <1>5, VersionType, SlotType, BecomeType
       DEF RefreshReadUser, Finish, Goto, TypeOK, Stages
  <2> QED
    BY <1>5, <2>1, SlotType DEF RefreshReadUser, ReadOnly, TypeOK
<1>6. ASSUME NEW r \in Reqs, RefreshIssue(r) PROVE TypeOK'
  <2>1. req' \in [Reqs -> WellFormed]
    BY <1>6, IdleType, SlotType, BecomeType
       DEF RefreshIssue, Finish, Goto, TypeOK, Stages
  <2> QED
    BY <1>6, <2>1, SlotType DEF RefreshIssue, ReadOnly, TypeOK, IssueTokens, At
<1>7. ASSUME NEW r \in Reqs, GuardVerify(r) PROVE TypeOK'
  <2>1. PICK s \in Sess, goal \in Goals :
             Become(r, [Idle EXCEPT !.op = goal, !.at = "cacheGet", !.sess = s,
                                    !.late = loggedOut[s]])
    BY <1>7 DEF GuardVerify, Issued
  <2>2. loggedOut[s] \in Ends
    BY DEF TypeOK
  <2>3. req' \in [Reqs -> WellFormed]
    BY <2>1, <2>2, CallType, BecomeType
  <2> QED
    BY <1>7, <2>3 DEF GuardVerify, ReadOnly, TypeOK
<1>8. ASSUME NEW r \in Reqs, GuardBlacklist(r) PROVE TypeOK'
  <2>1. req' \in [Reqs -> WellFormed]
    BY <1>8, BlackType, SlotType, BecomeType
       DEF GuardBlacklist, Finish, Goto, TypeOK, Stages
  <2> QED
    BY <1>8, <2>1, SlotType DEF GuardBlacklist, ReadOnly, TypeOK
<1>9. ASSUME NEW r \in Reqs, GuardCacheGet(r) PROVE TypeOK'
  <2>1. req' \in [Reqs -> WellFormed]
    BY <1>9, VersionType, StageType, SlotType, BecomeType
       DEF GuardCacheGet, Finish, Goto, TypeOK, Stages
  <2> QED
    BY <1>9, <2>1, SlotType DEF GuardCacheGet, ReadOnly, TypeOK
<1>10. ASSUME NEW r \in Reqs, GuardReadUser(r) PROVE TypeOK'
  <2>1. req' \in [Reqs -> WellFormed]
    BY <1>10, VersionType, SlotType, BecomeType
       DEF GuardReadUser, Finish, Goto, TypeOK, Stages
  <2> QED
    BY <1>10, <2>1, SlotType DEF GuardReadUser, ReadOnly, TypeOK
<1>11. ASSUME NEW r \in Reqs, GuardFill(r) PROVE TypeOK'
  <2>1. req' \in [Reqs -> WellFormed]
    BY <1>11, StageType, SlotType, BecomeType
       DEF GuardFill, Finish, Goto, TypeOK, Stages
  <2> QED
    BY <1>11, <2>1, SlotType DEF GuardFill, ReadOnly, TypeOK
<1>12. ASSUME NEW r \in Reqs, GuardDecide(r) PROVE TypeOK'
  <2>1. req' \in [Reqs -> WellFormed]
    BY <1>12, AdmitType, IdleType, SlotType, BecomeType
       DEF GuardDecide, Finish, Goto, TypeOK, Stages
  <2> QED
    BY <1>12, <2>1, SlotType DEF GuardDecide, ReadOnly, TypeOK
<1>13. ASSUME NEW r \in Reqs, RejectPassword(r) PROVE TypeOK'
  <2>1. req' \in [Reqs -> WellFormed]
    BY <1>13, IdleType, SlotType, BecomeType
       DEF RejectPassword, Finish, Goto, TypeOK, Stages
  <2> QED
    BY <1>13, <2>1, SlotType DEF RejectPassword, ReadOnly, TypeOK
<1>14. ASSUME NEW r \in Reqs, LogoutRevoke(r) PROVE TypeOK'
  <2>1. req' \in [Reqs -> WellFormed]
    BY <1>14, StageType, SlotType, BecomeType
       DEF LogoutRevoke, Finish, Goto, TypeOK, Stages
  <2> QED
    BY <1>14, <2>1, SlotType DEF LogoutRevoke, ReadOnly, TypeOK
<1>15. ASSUME NEW r \in Reqs, LogoutBlacklist(r) PROVE TypeOK'
  <2>1. req' \in [Reqs -> WellFormed]
    BY <1>15, IdleType, SlotType, BecomeType
       DEF LogoutBlacklist, Finish, Goto, TypeOK, Stages
  <2> QED
    BY <1>15, <2>1, SlotType DEF LogoutBlacklist, ReadOnly, TypeOK, At, Routes, Ends
<1>16. ASSUME NEW r \in Reqs, RevokeSelect(r) PROVE TypeOK'
  <2>1. req' \in [Reqs -> WellFormed]
    BY <1>16, SnapType, SlotType, BecomeType
       DEF RevokeSelect, Finish, Goto, TypeOK, Stages, Unrevoked
  <2> QED
    BY <1>16, <2>1, SlotType DEF RevokeSelect, ReadOnly, TypeOK
<1>17. ASSUME NEW r \in Reqs, LogoutAllCommit(r) PROVE TypeOK'
  <2>1. tokenVersion + 1 \in Nat
    BY DEF TypeOK
  <2>2. [req[r] EXCEPT !.at = "invalidate", !.ver = tokenVersion + 1] \in WellFormed
    BY <2>1, VersionType, SlotType DEF Stages
  <2>3. req' \in [Reqs -> WellFormed]
    BY <1>17, <2>2, BecomeType DEF LogoutAllCommit
  <2> QED
    BY <1>17, <2>1, <2>3 DEF LogoutAllCommit, RevokeSelected, TypeOK
<1>18. ASSUME NEW r \in Reqs, LogoutAllInvalidate(r) PROVE TypeOK'
  <2>1. req' \in [Reqs -> WellFormed]
    BY <1>18, IdleType, SlotType, BecomeType
       DEF LogoutAllInvalidate, Finish, Goto, TypeOK, Stages
  <2> QED
    BY <1>18, <2>1, SlotType DEF LogoutAllInvalidate, ReadOnly, TypeOK, Ends
<1>19. ASSUME NEW r \in Reqs, ChangePasswordRevoke(r) PROVE TypeOK'
  <2>1. req' \in [Reqs -> WellFormed]
    BY <1>19, IdleType, SlotType, BecomeType
       DEF ChangePasswordRevoke, Finish, Goto, TypeOK, Stages
  <2> QED
    BY <1>19, <2>1, SlotType DEF ChangePasswordRevoke, ReadOnly, TypeOK, RevokeSelected
<1>20. ASSUME NEW r \in Reqs, ResetConsume(r) PROVE TypeOK'
  <2>1. PICK t \in ResetTokens :
             Become(r, [Idle EXCEPT !.op = "reset", !.at = "run", !.tok = t])
    BY <1>20 DEF ResetConsume
  <2>2. req' \in [Reqs -> WellFormed]
    BY <2>1, ResetType, BecomeType
  <2> QED
    BY <1>20, <2>2 DEF ResetConsume, TypeOK
<1>21. ASSUME NEW r \in Reqs, Abort(r) PROVE TypeOK'
  <2>1. req' \in [Reqs -> WellFormed]
    BY <1>21, IdleType, SlotType, BecomeType
       DEF Abort, Finish, Goto, TypeOK, Stages
  <2> QED
    BY <1>21, <2>1, SlotType DEF Abort, ReadOnly, TypeOK
<1>22. ASSUME NEW s \in Sess, AccessExpire(s) PROVE TypeOK'
  BY <1>22 DEF AccessExpire, TypeOK, Issued
<1>23. ASSUME NEW s \in Sess, BlacklistExpire(s) PROVE TypeOK'
  BY <1>23 DEF BlacklistExpire, TypeOK, TtlOver
<1>24. ASSUME NEW s \in Sess, RefreshLapse(s) PROVE TypeOK'
  BY <1>24 DEF RefreshLapse, TypeOK
<1>25. ASSUME NEW t \in ResetTokens, ForgotPassword(t) PROVE TypeOK'
  BY <1>25 DEF ForgotPassword, TypeOK
<1>26. ASSUME NEW t \in ResetTokens, ResetExpire(t) PROVE TypeOK'
  BY <1>26 DEF ResetExpire, TypeOK
<1>27. ASSUME CacheExpire PROVE TypeOK'
  BY <1>27 DEF CacheExpire, TypeOK
<1>28. ASSUME UNCHANGED vars PROVE TypeOK'
  BY <1>28 DEF vars, TypeOK
<1> QED
  BY <1>1, <1>2, <1>3, <1>4, <1>5, <1>6, <1>7, <1>8, <1>9, <1>10, <1>11, <1>12, <1>13, <1>14, <1>15, <1>16, <1>17, <1>18, <1>19, <1>20, <1>21, <1>22, <1>23, <1>24, <1>25, <1>26, <1>27, <1>28
     DEF Next, Step, Arrive

\* No step takes a version ahead of User.tokenVersion.
LEMMA CacheStep == TypeOK /\ CacheNeverAhead /\ [Next]_vars => CacheNeverAhead'
<1> SUFFICES ASSUME TypeOK, CacheNeverAhead, [Next]_vars PROVE CacheNeverAhead'
  OBVIOUS
<1> USE SlotType
<1> USE DEF CacheNeverAhead, TypeOK, sql, redis, clock, ReadOnly, Become, Finish, Goto, Idle
<1>1. ASSUME NEW r \in Reqs, LoginRead(r) PROVE CacheNeverAhead'
  BY <1>1 DEF LoginRead, Idle
<1>2. ASSUME NEW r \in Reqs, LoginIssue(r) PROVE CacheNeverAhead'
  <2>1. PICK s \in Sess : claim' = [claim EXCEPT ![s] = req[r].ver]
    BY <1>2 DEF LoginIssue, IssueTokens
  <2>2. req[r].ver \in Nat /\ req[r].ver <= tokenVersion
    BY <1>2, SessionAssumption DEF LoginIssue, At
  <2> QED
    BY <1>2, <2>1, <2>2 DEF LoginIssue
<1>3. ASSUME NEW r \in Reqs, RefreshCheck(r) PROVE CacheNeverAhead'
  BY <1>3 DEF RefreshCheck, Idle
<1>4. ASSUME NEW r \in Reqs, RefreshRevoke(r) PROVE CacheNeverAhead'
  BY <1>4 DEF RefreshRevoke
<1>5. ASSUME NEW r \in Reqs, RefreshReadUser(r) PROVE CacheNeverAhead'
  BY <1>5 DEF RefreshReadUser
<1>6. ASSUME NEW r \in Reqs, RefreshIssue(r) PROVE CacheNeverAhead'
  <2>1. PICK s \in Sess : claim' = [claim EXCEPT ![s] = req[r].ver]
    BY <1>6 DEF RefreshIssue, IssueTokens
  <2>2. req[r].ver \in Nat /\ req[r].ver <= tokenVersion
    BY <1>6, SessionAssumption DEF RefreshIssue, At
  <2> QED
    BY <1>6, <2>1, <2>2 DEF RefreshIssue
<1>7. ASSUME NEW r \in Reqs, GuardVerify(r) PROVE CacheNeverAhead'
  BY <1>7 DEF GuardVerify, Idle, Issued
<1>8. ASSUME NEW r \in Reqs, GuardBlacklist(r) PROVE CacheNeverAhead'
  BY <1>8 DEF GuardBlacklist
<1>9. ASSUME NEW r \in Reqs, GuardCacheGet(r) PROVE CacheNeverAhead'
  <2>1. ReadOnly /\ InGuard(r)
    BY <1>9 DEF GuardCacheGet
  <2>2. CASE cache # None
    <3>1. Become(r, [req[r] EXCEPT !.at = "decide", !.ver = cache])
      BY <1>9, <2>2 DEF GuardCacheGet
    <3> QED
      BY <2>1, <2>2, <3>1
  <2>3. CASE cache = None
    <3>1. Become(r, [req[r] EXCEPT !.at = "readUser"])
      BY <1>9, <2>3 DEF GuardCacheGet
    <3> QED
      BY <2>1, <2>3, <3>1
  <2> QED
    BY <2>2, <2>3
<1>10. ASSUME NEW r \in Reqs, GuardReadUser(r) PROVE CacheNeverAhead'
  BY <1>10 DEF GuardReadUser
<1>11. ASSUME NEW r \in Reqs, GuardFill(r) PROVE CacheNeverAhead'
  BY <1>11 DEF GuardFill
<1>12. ASSUME NEW r \in Reqs, GuardDecide(r) PROVE CacheNeverAhead'
  <2>1. ReadOnly /\ InGuard(r)
    BY <1>12 DEF GuardDecide
  <2>2. CASE Admits(r)
    <3>1. Become(r, [req[r] EXCEPT !.at = "run", !.ver = None, !.black = "unread"])
      BY <1>12, <2>2 DEF GuardDecide
    <3> QED
      BY <2>1, <2>2, <3>1
  <2>3. CASE ~Admits(r)
    <3>1. Become(r, Idle)
      BY <1>12, <2>3 DEF GuardDecide
    <3> QED
      BY <2>1, <2>3, <3>1
  <2> QED
    BY <2>2, <2>3
<1>13. ASSUME NEW r \in Reqs, RejectPassword(r) PROVE CacheNeverAhead'
  BY <1>13 DEF RejectPassword
<1>14. ASSUME NEW r \in Reqs, LogoutRevoke(r) PROVE CacheNeverAhead'
  BY <1>14 DEF LogoutRevoke
<1>15. ASSUME NEW r \in Reqs, LogoutBlacklist(r) PROVE CacheNeverAhead'
  BY <1>15 DEF LogoutBlacklist
<1>16. ASSUME NEW r \in Reqs, RevokeSelect(r) PROVE CacheNeverAhead'
  BY <1>16 DEF RevokeSelect
<1>17. ASSUME NEW r \in Reqs, LogoutAllCommit(r) PROVE CacheNeverAhead'
  BY <1>17 DEF LogoutAllCommit
<1>18. ASSUME NEW r \in Reqs, LogoutAllInvalidate(r) PROVE CacheNeverAhead'
  BY <1>18 DEF LogoutAllInvalidate
<1>19. ASSUME NEW r \in Reqs, ChangePasswordRevoke(r) PROVE CacheNeverAhead'
  BY <1>19 DEF ChangePasswordRevoke
<1>20. ASSUME NEW r \in Reqs, ResetConsume(r) PROVE CacheNeverAhead'
  BY <1>20 DEF ResetConsume, Idle
<1>21. ASSUME NEW r \in Reqs, Abort(r) PROVE CacheNeverAhead'
  BY <1>21 DEF Abort
<1>22. ASSUME NEW s \in Sess, AccessExpire(s) PROVE CacheNeverAhead'
  BY <1>22 DEF AccessExpire
<1>23. ASSUME NEW s \in Sess, BlacklistExpire(s) PROVE CacheNeverAhead'
  BY <1>23 DEF BlacklistExpire, TtlOver
<1>24. ASSUME NEW s \in Sess, RefreshLapse(s) PROVE CacheNeverAhead'
  BY <1>24 DEF RefreshLapse
<1>25. ASSUME NEW t \in ResetTokens, ForgotPassword(t) PROVE CacheNeverAhead'
  BY <1>25 DEF ForgotPassword
<1>26. ASSUME NEW t \in ResetTokens, ResetExpire(t) PROVE CacheNeverAhead'
  BY <1>26 DEF ResetExpire
<1>27. ASSUME CacheExpire PROVE CacheNeverAhead'
  BY <1>27 DEF CacheExpire
<1>28. ASSUME UNCHANGED vars PROVE CacheNeverAhead'
  BY <1>28 DEF vars
<1> QED
  BY <1>1, <1>2, <1>3, <1>4, <1>5, <1>6, <1>7, <1>8, <1>9, <1>10, <1>11, <1>12, <1>13, <1>14, <1>15, <1>16, <1>17, <1>18, <1>19, <1>20, <1>21, <1>22, <1>23, <1>24, <1>25, <1>26, <1>27, <1>28
     DEF Next, Step, Arrive

\* No step lets a second request hold a consumed reset token.
LEMMA ResetStep == TypeOK /\ ResetOnce /\ [Next]_vars => ResetOnce'
<1> SUFFICES ASSUME TypeOK, ResetOnce, [Next]_vars PROVE ResetOnce'
  OBVIOUS
<1> USE SlotType
<1> USE DEF ResetOnce, TypeOK, At, InGuard, Routes, sql, redis, clock, ReadOnly, Become, Finish, Goto, Idle
<1>1. ASSUME NEW r \in Reqs, LoginRead(r) PROVE ResetOnce'
  BY <1>1 DEF LoginRead, Idle
<1>2. ASSUME NEW r \in Reqs, LoginIssue(r) PROVE ResetOnce'
  BY <1>2 DEF LoginIssue, IssueTokens
<1>3. ASSUME NEW r \in Reqs, RefreshCheck(r) PROVE ResetOnce'
  BY <1>3 DEF RefreshCheck, Idle
<1>4. ASSUME NEW r \in Reqs, RefreshRevoke(r) PROVE ResetOnce'
  BY <1>4 DEF RefreshRevoke
<1>5. ASSUME NEW r \in Reqs, RefreshReadUser(r) PROVE ResetOnce'
  BY <1>5 DEF RefreshReadUser
<1>6. ASSUME NEW r \in Reqs, RefreshIssue(r) PROVE ResetOnce'
  BY <1>6 DEF RefreshIssue, IssueTokens
<1>7. ASSUME NEW r \in Reqs, GuardVerify(r) PROVE ResetOnce'
  <2>1. PICK s \in Sess, goal \in Routes :
             Become(r, [Idle EXCEPT !.op = goal, !.at = "cacheGet", !.sess = s,
                                    !.late = loggedOut[s]])
    BY <1>7, SessionAssumption DEF GuardVerify, Issued
  <2> QED
    BY <1>7, <2>1, ZenonT(60) DEF GuardVerify, Idle
<1>8. ASSUME NEW r \in Reqs, GuardBlacklist(r) PROVE ResetOnce'
  BY <1>8 DEF GuardBlacklist
<1>9. ASSUME NEW r \in Reqs, GuardCacheGet(r) PROVE ResetOnce'
  <2>1. ReadOnly /\ InGuard(r)
    BY <1>9 DEF GuardCacheGet
  <2>2. CASE cache # None
    <3>1. Become(r, [req[r] EXCEPT !.at = "decide", !.ver = cache])
      BY <1>9, <2>2 DEF GuardCacheGet
    <3> QED
      BY <2>1, <2>2, <3>1
  <2>3. CASE cache = None
    <3>1. Become(r, [req[r] EXCEPT !.at = "readUser"])
      BY <1>9, <2>3 DEF GuardCacheGet
    <3> QED
      BY <2>1, <2>3, <3>1
  <2> QED
    BY <2>2, <2>3
<1>10. ASSUME NEW r \in Reqs, GuardReadUser(r) PROVE ResetOnce'
  BY <1>10 DEF GuardReadUser
<1>11. ASSUME NEW r \in Reqs, GuardFill(r) PROVE ResetOnce'
  BY <1>11 DEF GuardFill
<1>12. ASSUME NEW r \in Reqs, GuardDecide(r) PROVE ResetOnce'
  <2>1. ReadOnly /\ InGuard(r)
    BY <1>12 DEF GuardDecide
  <2>2. CASE Admits(r)
    <3>1. Become(r, [req[r] EXCEPT !.at = "run", !.ver = None, !.black = "unread"])
      BY <1>12, <2>2 DEF GuardDecide
    <3> QED
      BY <2>1, <2>2, <3>1
  <2>3. CASE ~Admits(r)
    <3>1. Become(r, Idle)
      BY <1>12, <2>3 DEF GuardDecide
    <3> QED
      BY <2>1, <2>3, <3>1
  <2> QED
    BY <2>2, <2>3
<1>13. ASSUME NEW r \in Reqs, RejectPassword(r) PROVE ResetOnce'
  BY <1>13 DEF RejectPassword
<1>14. ASSUME NEW r \in Reqs, LogoutRevoke(r) PROVE ResetOnce'
  BY <1>14 DEF LogoutRevoke
<1>15. ASSUME NEW r \in Reqs, LogoutBlacklist(r) PROVE ResetOnce'
  BY <1>15 DEF LogoutBlacklist
<1>16. ASSUME NEW r \in Reqs, RevokeSelect(r) PROVE ResetOnce'
  BY <1>16 DEF RevokeSelect
<1>17. ASSUME NEW r \in Reqs, LogoutAllCommit(r) PROVE ResetOnce'
  BY <1>17 DEF LogoutAllCommit
<1>18. ASSUME NEW r \in Reqs, LogoutAllInvalidate(r) PROVE ResetOnce'
  BY <1>18 DEF LogoutAllInvalidate
<1>19. ASSUME NEW r \in Reqs, ChangePasswordRevoke(r) PROVE ResetOnce'
  BY <1>19 DEF ChangePasswordRevoke
<1>20. ASSUME NEW r \in Reqs, ResetConsume(r) PROVE ResetOnce'
  BY <1>20 DEF ResetConsume, Idle
<1>21. ASSUME NEW r \in Reqs, Abort(r) PROVE ResetOnce'
  BY <1>21 DEF Abort
<1>22. ASSUME NEW s \in Sess, AccessExpire(s) PROVE ResetOnce'
  BY <1>22 DEF AccessExpire
<1>23. ASSUME NEW s \in Sess, BlacklistExpire(s) PROVE ResetOnce'
  BY <1>23 DEF BlacklistExpire, TtlOver
<1>24. ASSUME NEW s \in Sess, RefreshLapse(s) PROVE ResetOnce'
  BY <1>24 DEF RefreshLapse
<1>25. ASSUME NEW t \in ResetTokens, ForgotPassword(t) PROVE ResetOnce'
  BY <1>25 DEF ForgotPassword
<1>26. ASSUME NEW t \in ResetTokens, ResetExpire(t) PROVE ResetOnce'
  BY <1>26 DEF ResetExpire
<1>27. ASSUME CacheExpire PROVE ResetOnce'
  BY <1>27 DEF CacheExpire
<1>28. ASSUME UNCHANGED vars PROVE ResetOnce'
  BY <1>28 DEF vars
<1> QED
  BY <1>1, <1>2, <1>3, <1>4, <1>5, <1>6, <1>7, <1>8, <1>9, <1>10, <1>11, <1>12, <1>13, <1>14, <1>15, <1>16, <1>17, <1>18, <1>19, <1>20, <1>21, <1>22, <1>23, <1>24, <1>25, <1>26, <1>27, <1>28
     DEF Next, Step, Arrive

(***************************************************************************)
(* LoggedOutRejected is not inductive: it needs what the guard already      *)
(* knows while it is still looking.                                         *)
(***************************************************************************)

\* An ended access token is blacklisted or past its exp; a request that came
\* after the end and found no entry carries an expired token.
LogoutInv ==
    /\ \A s \in Sess : loggedOut[s] = "logout" => s \in blacklist \cup expired
    /\ \A r \in Reqs : req[r].late = "logout" =>
         /\ req[r].op \in Routes /\ loggedOut[req[r].sess] = "logout"
         /\ req[r].black = "no" \/ req[r].at = "run" => req[r].sess \in expired

\* Preserved by every step.
LEMMA LogoutStep == TypeOK /\ LogoutInv /\ [Next]_vars => LogoutInv'
<1> SUFFICES ASSUME TypeOK, LogoutInv, [Next]_vars PROVE LogoutInv'
  OBVIOUS
<1> USE SlotType
<1> USE DEF LogoutInv, TypeOK, At, InGuard, Routes, Admits, sql, redis, clock, ReadOnly, Become, Finish, Goto, Idle
<1>1. ASSUME NEW r \in Reqs, LoginRead(r) PROVE LogoutInv'
  BY <1>1 DEF LoginRead, Idle
<1>2. ASSUME NEW r \in Reqs, LoginIssue(r) PROVE LogoutInv'
  BY <1>2 DEF LoginIssue, IssueTokens
<1>3. ASSUME NEW r \in Reqs, RefreshCheck(r) PROVE LogoutInv'
  BY <1>3 DEF RefreshCheck, Idle
<1>4. ASSUME NEW r \in Reqs, RefreshRevoke(r) PROVE LogoutInv'
  BY <1>4 DEF RefreshRevoke
<1>5. ASSUME NEW r \in Reqs, RefreshReadUser(r) PROVE LogoutInv'
  BY <1>5 DEF RefreshReadUser
<1>6. ASSUME NEW r \in Reqs, RefreshIssue(r) PROVE LogoutInv'
  BY <1>6 DEF RefreshIssue, IssueTokens
<1>7. ASSUME NEW r \in Reqs, GuardVerify(r) PROVE LogoutInv'
  <2>1. PICK s \in Sess, goal \in Routes :
             Become(r, [Idle EXCEPT !.op = goal, !.at = "cacheGet", !.sess = s,
                                    !.late = loggedOut[s]])
    BY <1>7, SessionAssumption DEF GuardVerify, Issued
  <2> QED
    BY <1>7, <2>1 DEF GuardVerify, Idle
<1>8. ASSUME NEW r \in Reqs, GuardBlacklist(r) PROVE LogoutInv'
  BY <1>8 DEF GuardBlacklist
<1>9. ASSUME NEW r \in Reqs, GuardCacheGet(r) PROVE LogoutInv'
  <2>1. ReadOnly /\ InGuard(r)
    BY <1>9 DEF GuardCacheGet
  <2>2. CASE cache # None
    <3>1. Become(r, [req[r] EXCEPT !.at = "decide", !.ver = cache])
      BY <1>9, <2>2 DEF GuardCacheGet
    <3> QED
      BY <2>1, <2>2, <3>1
  <2>3. CASE cache = None
    <3>1. Become(r, [req[r] EXCEPT !.at = "readUser"])
      BY <1>9, <2>3 DEF GuardCacheGet
    <3> QED
      BY <2>1, <2>3, <3>1
  <2> QED
    BY <2>2, <2>3
<1>10. ASSUME NEW r \in Reqs, GuardReadUser(r) PROVE LogoutInv'
  BY <1>10 DEF GuardReadUser
<1>11. ASSUME NEW r \in Reqs, GuardFill(r) PROVE LogoutInv'
  BY <1>11 DEF GuardFill
<1>12. ASSUME NEW r \in Reqs, GuardDecide(r) PROVE LogoutInv'
  <2>1. ReadOnly /\ InGuard(r)
    BY <1>12 DEF GuardDecide
  <2>2. CASE Admits(r)
    <3>1. Become(r, [req[r] EXCEPT !.at = "run", !.ver = None, !.black = "unread"])
      BY <1>12, <2>2 DEF GuardDecide
    <3> QED
      BY <2>1, <2>2, <3>1
  <2>3. CASE ~Admits(r)
    <3>1. Become(r, Idle)
      BY <1>12, <2>3 DEF GuardDecide
    <3> QED
      BY <2>1, <2>3, <3>1
  <2> QED
    BY <2>2, <2>3
<1>13. ASSUME NEW r \in Reqs, RejectPassword(r) PROVE LogoutInv'
  BY <1>13 DEF RejectPassword
<1>14. ASSUME NEW r \in Reqs, LogoutRevoke(r) PROVE LogoutInv'
  BY <1>14 DEF LogoutRevoke
<1>15. ASSUME NEW r \in Reqs, LogoutBlacklist(r) PROVE LogoutInv'
  BY <1>15 DEF LogoutBlacklist
<1>16. ASSUME NEW r \in Reqs, RevokeSelect(r) PROVE LogoutInv'
  BY <1>16 DEF RevokeSelect
<1>17. ASSUME NEW r \in Reqs, LogoutAllCommit(r) PROVE LogoutInv'
  BY <1>17 DEF LogoutAllCommit
<1>18. ASSUME NEW r \in Reqs, LogoutAllInvalidate(r) PROVE LogoutInv'
  BY <1>18 DEF LogoutAllInvalidate
<1>19. ASSUME NEW r \in Reqs, ChangePasswordRevoke(r) PROVE LogoutInv'
  BY <1>19 DEF ChangePasswordRevoke
<1>20. ASSUME NEW r \in Reqs, ResetConsume(r) PROVE LogoutInv'
  BY <1>20 DEF ResetConsume, Idle
<1>21. ASSUME NEW r \in Reqs, Abort(r) PROVE LogoutInv'
  BY <1>21 DEF Abort
<1>22. ASSUME NEW s \in Sess, AccessExpire(s) PROVE LogoutInv'
  BY <1>22 DEF AccessExpire
<1>23. ASSUME NEW s \in Sess, BlacklistExpire(s) PROVE LogoutInv'
  BY <1>23 DEF BlacklistExpire, TtlOver
<1>24. ASSUME NEW s \in Sess, RefreshLapse(s) PROVE LogoutInv'
  BY <1>24 DEF RefreshLapse
<1>25. ASSUME NEW t \in ResetTokens, ForgotPassword(t) PROVE LogoutInv'
  BY <1>25 DEF ForgotPassword
<1>26. ASSUME NEW t \in ResetTokens, ResetExpire(t) PROVE LogoutInv'
  BY <1>26 DEF ResetExpire
<1>27. ASSUME CacheExpire PROVE LogoutInv'
  BY <1>27 DEF CacheExpire
<1>28. ASSUME UNCHANGED vars PROVE LogoutInv'
  BY <1>28 DEF vars
<1> QED
  BY <1>1, <1>2, <1>3, <1>4, <1>5, <1>6, <1>7, <1>8, <1>9, <1>10, <1>11, <1>12, <1>13, <1>14, <1>15, <1>16, <1>17, <1>18, <1>19, <1>20, <1>21, <1>22, <1>23, <1>24, <1>25, <1>26, <1>27, <1>28
     DEF Next, Step, Arrive

LEMMA LogoutInvSuffices == TypeOK /\ LogoutInv => LoggedOutRejected
  BY DEF LogoutInv, LoggedOutRejected

(***************************************************************************)
(* The theorems.                                                           *)
(***************************************************************************)

LEMMA InitAll == Init => TypeOK /\ CacheNeverAhead /\ ResetOnce /\ LogoutInv
<1> SUFFICES ASSUME Init PROVE TypeOK /\ CacheNeverAhead /\ ResetOnce /\ LogoutInv
  OBVIOUS
<1>1. TypeOK
  BY IdleType DEF Init, TypeOK, Ends
<1>2. CacheNeverAhead
  BY SessionAssumption DEF Init, CacheNeverAhead, Idle
<1>3. ResetOnce
  BY DEF Init, ResetOnce, Idle
<1>4. LogoutInv
  BY DEF Init, LogoutInv, Idle
<1> QED
  BY <1>1, <1>2, <1>3, <1>4

\* In every reachable state the variables have their types, and a request
\* holds the inputs its remaining steps use.
THEOREM TypeCorrect == Spec => []TypeOK
<1>1. Init => TypeOK
  BY InitAll
<1> QED
  BY <1>1, TypeStep, PTL DEF Spec

\* The cached token version of JwtAuthGuard is never newer than the one in the
\* User row, whatever races logoutAll.
THEOREM CacheSafe == Spec => []CacheNeverAhead
<1>1. Init => CacheNeverAhead
  BY InitAll
<1> QED
  BY <1>1, CacheStep, TypeCorrect, PTL DEF Spec

\* A password-reset token is used by at most one request.
THEOREM ResetSafe == Spec => []ResetOnce
<1>1. Init => ResetOnce
  BY InitAll
<1> QED
  BY <1>1, ResetStep, TypeCorrect, PTL DEF Spec

\* After its logout an access token is rejected until it expires by itself.
THEOREM LogoutSafe == Spec => []LoggedOutRejected
<1>1. Init => LogoutInv
  BY InitAll
<1> QED
  BY <1>1, LogoutStep, LogoutInvSuffices, TypeCorrect, PTL DEF Spec

=============================================================================

------------------------------ MODULE Session ------------------------------
(***************************************************************************)
(* The sessions of one user: the login, refresh, logout, logout-all and    *)
(* password operations of AuthService and UsersService, JwtAuthGuard in    *)
(* front of every authenticated route, and the two pieces of Redis state   *)
(* they share (the access-token blacklist and the cached token version).   *)
(* All of this state is keyed by user id, so users do not interact here.   *)
(*                                                                         *)
(* A request lives in a slot and takes one step per await of its handler;  *)
(* a step is one statement on PostgreSQL or one command on Redis, and the  *)
(* steps of different slots interleave freely, as requests do on one Node  *)
(* process or on several.  Transactions run at PostgreSQL's default level, *)
(* READ COMMITTED: a written row stays locked until the commit, another    *)
(* transaction that writes it waits, and each statement reads what was     *)
(* committed when it started.                                              *)
(*                                                                         *)
(* A member of Sess stands for one pair (access token, refresh token)      *)
(* signed by one issueTokens call, with its RefreshToken row.              *)
(***************************************************************************)
EXTENDS Naturals, FiniteSets

CONSTANTS
    Sess,         \* pairs of tokens that can be issued
    Reqs,         \* slots for requests in flight
    ResetTokens,  \* password-reset tokens that can be mailed
    Goals,        \* authenticated routes that are called, among Routes
    None,         \* null: no value read, no cached version, no token
    MaxVersion    \* bound on User.tokenVersion (number of logout-alls)

\* What an authenticated route does once JwtAuthGuard let the request in.
Routes == {"logout", "logoutAll", "changePassword"}

ASSUME SessionAssumption ==
    /\ Goals \subseteq Routes
    /\ None \notin Sess /\ None \notin ResetTokens /\ None \notin Nat
    /\ MaxVersion \in Nat

VARIABLES
    tokenVersion,  \* User.tokenVersion
    refreshToken,  \* the RefreshToken row of a pair: "none", "live", "lapsed", "revoked"
    claim,         \* the tokenVersion claim signed into both tokens of a pair
    expired,       \* pairs whose access token is past its exp
    blacklist,     \* bl:access:<jti> in Redis
    cache,         \* user:token-version:<id> in Redis, or None
    reset,         \* pwreset:<hash> in Redis: "unused", "live", "gone"
    req,           \* the requests in flight, by slot
    loggedOut      \* history: how the access token of a pair was ended

sql == <<tokenVersion, refreshToken, claim>>
redis == <<blacklist, cache, reset>>
clock == <<expired, loggedOut>>
vars == <<sql, redis, clock, req>>

----------------------------------------------------------------------------
(* Requests *)

Ops == Routes \cup {"none", "login", "refresh", "reset"}
\* Has the access token been ended by its own logout?
Ends == {"no", "logout"}
\* Where the request stands: the name of the step it takes next.
Stages == {"idle", "issue", "revoke", "readUser", "cacheGet", "fill", "decide",
           "run", "blacklist", "commit", "invalidate"}

Idle == [op |-> "none", at |-> "idle", sess |-> None, ver |-> None,
         black |-> "unread", snap |-> {}, tok |-> None, late |-> "no"]

Request == [op: Ops, at: Stages, sess: Sess \cup {None}, ver: Nat \cup {None},
            black: {"unread", "yes", "no"}, snap: SUBSET Sess,
            tok: ResetTokens \cup {None}, late: Ends]

Free(r) == req[r] = Idle
At(r, op, stage) == req[r].op = op /\ req[r].at = stage
Become(r, rec) == req' = [req EXCEPT ![r] = rec]
Finish(r) == Become(r, Idle)
Goto(r, stage) == Become(r, [req[r] EXCEPT !.at = stage])

\* A step that reads, decides or computes: only its own request changes.
ReadOnly == UNCHANGED <<sql, redis, clock>>

Issued == {s \in Sess : refreshToken[s] # "none"}
\* A request that will call issueTokens, or that will bump the version; the
\* bounds below count them so that a request once admitted can always finish.
Issuers == {r \in Reqs : req[r].op \in {"login", "refresh"}}
Bumpers == {r \in Reqs : req[r].op \in {"logoutAll", "reset"} /\ req[r].at # "invalidate"}
RoomForPair == Cardinality(Issuers) < Cardinality(Sess \ Issued)
RoomForBump == tokenVersion + Cardinality(Bumpers) < MaxVersion

----------------------------------------------------------------------------
(* RefreshToken rows *)

\* Mutant: the check of refresh already locks the row, on its own connection.
Locked_SinceCheck(s) == \E r \in Reqs : req[r].op = "refresh" /\ req[r].sess = s

\* A refresh transaction that has written the row and not committed locks it.
Locked(s) == \E r \in Reqs : /\ req[r].op = "refresh" /\ req[r].sess = s
                             /\ req[r].at \in {"readUser", "issue"}
\* revokedAt: null, whatever expiresAt says.
Unrevoked == {s \in Sess : refreshToken[s] \in {"live", "lapsed"}}

\* updateMany({ where: { userId, revokedAt: null } }) is one statement: it
\* selects its rows when it starts, waits for the locks on them, re-reads the
\* where clause on each and writes.  It never sees a row inserted meanwhile.
RevokeSelected(r) ==
    /\ \A s \in req[r].snap : ~Locked(s)
    /\ refreshToken' = [s \in Sess |->
           IF s \in req[r].snap \cap Unrevoked THEN "revoked" ELSE refreshToken[s]]

\* issueTokens: sign a new pair and insert its RefreshToken row.
IssueTokens(s, version, rows) ==
    /\ refreshToken[s] = "none"
    /\ refreshToken' = [rows EXCEPT ![s] = "live"]
    /\ claim' = [claim EXCEPT ![s] = version]

----------------------------------------------------------------------------
(* AuthService.login.  bcrypt.compare succeeds for the submitted password   *)
(* only if it is the one that was read, so it needs no step of its own.     *)

LoginRead(r) ==
    /\ Free(r) /\ RoomForPair
    /\ Become(r, [Idle EXCEPT !.op = "login", !.at = "issue", !.ver = tokenVersion])
    /\ ReadOnly

LoginIssue(r) ==
    /\ At(r, "login", "issue")
    /\ \E s \in Sess : IssueTokens(s, req[r].ver, refreshToken)
    /\ Finish(r)
    /\ UNCHANGED <<tokenVersion, redis, clock>>

----------------------------------------------------------------------------
(* AuthService.refresh.  The row is checked before the transaction; the     *)
(* transaction's update names the row by id only.                           *)

RefreshCheck(r) ==
    /\ Free(r) /\ RoomForPair
    /\ \E s \in Sess :
         /\ refreshToken[s] = "live"
         /\ Become(r, [Idle EXCEPT !.op = "refresh", !.at = "revoke", !.sess = s])
    /\ ReadOnly

RefreshRevoke(r) ==
    /\ At(r, "refresh", "revoke")
    /\ ~Locked(req[r].sess)
    /\ Goto(r, "readUser")
    /\ ReadOnly

RefreshReadUser(r) ==
    /\ At(r, "refresh", "readUser")
    /\ Become(r, [req[r] EXCEPT !.at = "issue", !.ver = tokenVersion])
    /\ ReadOnly

\* The insert and the commit: both writes of the transaction become visible.
RefreshIssue(r) ==
    /\ At(r, "refresh", "issue")
    /\ \E s \in Sess : IssueTokens(s, req[r].ver,
                                   [refreshToken EXCEPT ![req[r].sess] = "revoked"])
    /\ Finish(r)
    /\ UNCHANGED <<tokenVersion, redis, clock>>

----------------------------------------------------------------------------
(* JwtAuthGuard.canActivate: verify the token, then in parallel look up the *)
(* blacklist and resolve the token version (cache, else User and refill).   *)

\* How the access token had been ended when the request arrived (history).
GuardVerify(r) ==
    /\ Free(r)
    /\ \E s \in Issued \ expired, goal \in Goals :
         /\ goal = "logoutAll" => RoomForBump
         /\ Become(r, [Idle EXCEPT !.op = goal, !.at = "cacheGet", !.sess = s, !.late = loggedOut[s]])
    /\ ReadOnly

InGuard(r) == req[r].at \in {"cacheGet", "readUser", "fill", "decide"}
              /\ req[r].op \in Routes

GuardBlacklist(r) ==
    /\ InGuard(r) /\ req[r].black = "unread"
    /\ Become(r, [req[r] EXCEPT !.black = IF req[r].sess \in blacklist THEN "yes" ELSE "no"])
    /\ ReadOnly

GuardCacheGet(r) ==
    /\ InGuard(r) /\ req[r].at = "cacheGet"
    /\ \/ cache # None /\ Become(r, [req[r] EXCEPT !.at = "decide", !.ver = cache])
       \/ cache = None /\ Goto(r, "readUser")
    /\ ReadOnly

GuardReadUser(r) ==
    /\ InGuard(r) /\ req[r].at = "readUser"
    /\ Become(r, [req[r] EXCEPT !.at = "fill", !.ver = tokenVersion])
    /\ ReadOnly

GuardFill(r) ==
    /\ InGuard(r) /\ req[r].at = "fill"
    /\ cache' = req[r].ver
    /\ Goto(r, "decide")
    /\ UNCHANGED <<sql, blacklist, reset, clock>>

Admits(r) == req[r].black = "no" /\ req[r].ver = claim[req[r].sess]

GuardDecide(r) ==
    /\ InGuard(r) /\ req[r].at = "decide" /\ req[r].black # "unread"
    /\ IF Admits(r)
       THEN Become(r, [req[r] EXCEPT !.at = "run", !.ver = None, !.black = "unread"])
       ELSE Finish(r)
    /\ ReadOnly

----------------------------------------------------------------------------
(* AuthService.logout: the body may carry any refresh token; the access     *)
(* token that is blacklisted is the one of the request.                     *)

LogoutRevoke(r) ==
    /\ At(r, "logout", "run")
    /\ \E s \in Issued :
         /\ ~Locked(s)
         /\ refreshToken' = [refreshToken EXCEPT ![s] = IF s \in Unrevoked THEN "revoked" ELSE @]
    /\ Goto(r, "blacklist")
    /\ UNCHANGED <<tokenVersion, claim, redis, clock>>

\* RedisService.blacklist: ttl = exp - floor(now), stored only if positive.
LogoutBlacklist(r) ==
    /\ At(r, "logout", "blacklist")
    /\ blacklist' = blacklist \cup ({req[r].sess} \ expired)
    /\ loggedOut' = [loggedOut EXCEPT ![req[r].sess] = "logout"]
    /\ Finish(r)
    /\ UNCHANGED <<sql, cache, reset, expired>>

----------------------------------------------------------------------------
(* AuthService.logoutAll, also the tail of resetPassword: one transaction,  *)
(* then the cached version is deleted.                                      *)

\* Mutant: logoutAll writes the new version to the cache before its transaction.
RevokeSelect_CacheFirst(r) ==
    /\ req[r].op \in {"logoutAll", "reset"} /\ req[r].at = "run"
    /\ Become(r, [req[r] EXCEPT !.at = "commit", !.snap = Unrevoked])
    /\ cache' = tokenVersion + 1
    /\ UNCHANGED <<sql, blacklist, reset, clock>>

\* Also the updateMany of changePassword.
RevokeSelect(r) ==
    /\ req[r].op \in {"logoutAll", "reset", "changePassword"} /\ req[r].at = "run"
    /\ Become(r, [req[r] EXCEPT !.at = "commit", !.snap = Unrevoked])
    /\ ReadOnly

\* Mutant: decrement for increment.
LogoutAllCommit_Decrement(r) ==
    /\ req[r].op \in {"logoutAll", "reset"} /\ req[r].at = "commit"
    /\ RevokeSelected(r)
    /\ tokenVersion' = tokenVersion - 1
    /\ Become(r, [req[r] EXCEPT !.at = "invalidate", !.ver = tokenVersion + 1])
    /\ UNCHANGED <<claim, redis, clock>>

LogoutAllCommit(r) ==
    /\ req[r].op \in {"logoutAll", "reset"} /\ req[r].at = "commit"
    /\ RevokeSelected(r)
    /\ tokenVersion' = tokenVersion + 1
    /\ Become(r, [req[r] EXCEPT !.at = "invalidate", !.ver = tokenVersion + 1])
    /\ UNCHANGED <<claim, redis, clock>>

LogoutAllInvalidate(r) ==
    /\ req[r].op \in {"logoutAll", "reset"} /\ req[r].at = "invalidate"
    /\ cache' = None
    /\ Finish(r)
    /\ UNCHANGED <<sql, blacklist, reset, clock>>

----------------------------------------------------------------------------
(* UsersService.changePassword, AuthService.forgotPassword, resetPassword    *)

\* The password itself is not modelled: nothing here depends on it but
\* bcrypt.compare of a value read in the same request.
RejectPassword(r) ==
    /\ At(r, "changePassword", "run")
    /\ Finish(r)
    /\ ReadOnly

ChangePasswordRevoke(r) ==
    /\ At(r, "changePassword", "commit")
    /\ RevokeSelected(r)
    /\ Finish(r)
    /\ UNCHANGED <<tokenVersion, claim, redis, clock>>

\* A fresh random token; only its storing is observable here.
ForgotPassword(t) ==
    /\ reset[t] = "unused"
    /\ reset' = [reset EXCEPT ![t] = "live"]
    /\ UNCHANGED <<sql, blacklist, cache, clock, req>>

\* Mutant: GET instead of GETDEL.
ResetConsume_Get(r) ==
    /\ Free(r) /\ RoomForBump
    /\ \E t \in ResetTokens :
         /\ reset[t] = "live"
         /\ Become(r, [Idle EXCEPT !.op = "reset", !.at = "run", !.tok = t])
    /\ ReadOnly

\* GETDEL: the token is read and removed by one command.  The new password is
\* stored, then logoutAll runs.
ResetConsume(r) ==
    /\ Free(r) /\ RoomForBump
    /\ \E t \in ResetTokens :
         /\ reset[t] = "live"
         /\ reset' = [reset EXCEPT ![t] = "gone"]
         /\ Become(r, [Idle EXCEPT !.op = "reset", !.at = "run", !.tok = t])
    /\ UNCHANGED <<sql, blacklist, cache, clock>>

----------------------------------------------------------------------------
(* Time, and requests that do not get to their end                           *)

\* The access token of a pair passes its exp (15 minutes by default).
AccessExpire(s) ==
    /\ s \in Issued \ expired
    /\ expired' = expired \cup {s}
    /\ UNCHANGED <<sql, redis, loggedOut, req>>

\* Mutant: a fixed TTL that can be shorter than the life of the token.
TtlOver_Fixed(s) == s \in blacklist

\* The entry of a token outlives it: exp - floor(now) seconds from now is no
\* earlier than exp.
TtlOver(s) == s \in expired

BlacklistExpire(s) ==
    /\ s \in blacklist /\ TtlOver(s)
    /\ blacklist' = blacklist \ {s}
    /\ UNCHANGED <<sql, cache, reset, clock, req>>

\* Mutant: SET without EX.
CacheExpire_NoTtl == cache # None /\ cache' = cache /\ UNCHANGED vars

\* TOKEN_VERSION_CACHE_TTL_SECONDS have passed.
CacheExpire ==
    /\ cache # None
    /\ cache' = None
    /\ UNCHANGED <<sql, blacklist, reset, clock, req>>

RefreshLapse(s) ==
    /\ refreshToken[s] = "live"
    /\ refreshToken' = [refreshToken EXCEPT ![s] = "lapsed"]
    /\ UNCHANGED <<tokenVersion, claim, redis, clock, req>>

ResetExpire(t) ==
    /\ reset[t] = "live"
    /\ reset' = [reset EXCEPT ![t] = "gone"]
    /\ UNCHANGED <<sql, blacklist, cache, clock, req>>

\* A statement fails or the process dies: the handler throws, an open
\* transaction rolls back, what was already committed stays.
Abort(r) ==
    /\ ~Free(r)
    /\ Finish(r)
    /\ ReadOnly

----------------------------------------------------------------------------
Init ==
    /\ tokenVersion = 0
    /\ refreshToken = [s \in Sess |-> "none"]
    /\ claim = [s \in Sess |-> 0]
    /\ expired = {} /\ blacklist = {} /\ cache = None
    /\ reset = [t \in ResetTokens |-> "unused"]
    /\ req = [r \in Reqs |-> Idle]
    /\ loggedOut = [s \in Sess |-> "no"]

\* A request that has arrived takes its next step.
Step(r) ==
    \/ LoginIssue(r)
    \/ RefreshRevoke(r) \/ RefreshReadUser(r) \/ RefreshIssue(r)
    \/ GuardBlacklist(r) \/ GuardCacheGet(r) \/ GuardReadUser(r)
    \/ GuardFill(r) \/ GuardDecide(r) \/ RejectPassword(r)
    \/ LogoutRevoke(r) \/ LogoutBlacklist(r)
    \/ RevokeSelect(r) \/ LogoutAllCommit(r) \/ LogoutAllInvalidate(r)
    \/ ChangePasswordRevoke(r)

Arrive(r) == LoginRead(r) \/ RefreshCheck(r) \/ GuardVerify(r) \/ ResetConsume(r)

Next ==
    \/ \E r \in Reqs : Step(r) \/ Arrive(r) \/ Abort(r)
    \/ \E s \in Sess : AccessExpire(s) \/ BlacklistExpire(s) \/ RefreshLapse(s)
    \/ \E t \in ResetTokens : ForgotPassword(t) \/ ResetExpire(t)
    \/ CacheExpire

Spec == Init /\ [][Next]_vars

\* A step that may have to wait for a row lock.
LockStep(r) == RefreshRevoke(r) \/ LogoutRevoke(r) \/ LogoutAllCommit(r)
                   \/ ChangePasswordRevoke(r)

\* Node runs a pending continuation and a statement returns or fails;
\* PostgreSQL queues the waiters of a row lock; Redis removes a key whose TTL
\* is over.  Nobody has to send a request.
Fairness == /\ \A r \in Reqs : WF_vars(Step(r)) /\ SF_vars(LockStep(r))
            /\ WF_vars(CacheExpire)

FairSpec == Spec /\ Fairness

----------------------------------------------------------------------------
(* Properties *)

\* A request holds what its remaining steps use.
HoldsInputs(q) ==
    /\ q.op \in Routes \cup {"refresh"} => q.sess \in Sess
    /\ q.op = "reset" => q.tok \in ResetTokens
    /\ q.at = "issue" => q.ver \in Nat
WellFormed == {q \in Request : HoldsInputs(q)}

\* Every variable keeps its type.
TypeOK ==
    /\ tokenVersion \in Nat
    /\ refreshToken \in [Sess -> {"none", "live", "lapsed", "revoked"}]
    /\ claim \in [Sess -> Nat]
    /\ expired \subseteq Sess /\ blacklist \subseteq Sess
    /\ cache \in Nat \cup {None}
    /\ reset \in [ResetTokens -> {"unused", "live", "gone"}]
    /\ req \in [Reqs -> WellFormed]
    /\ loggedOut \in [Sess -> Ends]

\* However fills, deletes and bumps interleave, the cached token version and
\* the versions requests carry never run ahead of User.tokenVersion, so a
\* cached version can only be one that a logout-all has replaced.
CacheNeverAhead ==
    /\ cache # None => cache <= tokenVersion
    /\ \A r \in Reqs : req[r].ver # None => req[r].ver <= tokenVersion
    /\ \A s \in Sess : claim[s] <= tokenVersion

\* A request that arrives after the logout of its access token finished is not
\* let through by JwtAuthGuard before the token's own exp: the blacklist entry
\* is there whenever the guard looks, although verification, the look-up, the
\* logout and the entry's TTL are unrelated steps.
LoggedOutRejected ==
    \A r \in Reqs : req[r].at = "run" /\ req[r].late = "logout" => req[r].sess \in expired

\* A mailed reset token replaces the password at most once, also when it is
\* submitted twice at the same time.
ResetOnce ==
    \A r \in Reqs : req[r].op = "reset" =>
        /\ reset[req[r].tok] = "gone"
        /\ \A q \in Reqs \ {r} : req[q].op = "reset" => req[q].tok # req[r].tok

\* Once logout-alls stop, the cached version settles on the current one (or
\* none): a fill that raced the delete is undone by the TTL.
StaleVersionHeals == <>[](cache \in {None, tokenVersion})

\* No request waits for ever: row locks of refresh and logout-all
\* transactions are always given back.
RequestsFinish == \A r \in Reqs : ~Free(r) ~> Free(r)
=============================================================================

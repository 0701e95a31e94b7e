------------------------------ MODULE Sockets ------------------------------
(***************************************************************************)
(* EventsGateway: the sockets, the room of one board, and the kicks that   *)
(* follow a removal from the board (removeMember, leaveBoard), a logout    *)
(* and a logout of all devices.  The application runs in one process, with *)
(* the in-memory adapter of Socket.IO.                                     *)
(*                                                                         *)
(* A session is a signed access token: several sockets may have been       *)
(* opened with it.  What the gateway awaits is a read of Redis or of the   *)
(* database; anything may happen between the read and what follows it.     *)
(* fetchSockets resolves before any other event is handled, so a kick is   *)
(* one step.  Socket.IO is external: a socket that is closed is in no room.*)
(*                                                                         *)
(* The names at the top level are the gateway's own, so that a module can  *)
(* extend this one and Notices, whose notifications go to these sockets.   *)
(***************************************************************************)
EXTENDS Naturals, FiniteSets

CONSTANTS
    SocketIds,  \* the connections a client may open
    Accounts,   \* the users
    Sessions,   \* the access tokens of each user
    Reqs,       \* slots for requests between their write and their kick
    Failures,   \* whether a request may fail between its write and its kick
    Absent      \* nobody, or no token

Tokens == Accounts \X Sessions
Owner(t) == t[1]

ASSUME SocketAssumption == Failures \in BOOLEAN /\ Absent \notin Tokens \cup Accounts

VARIABLES
    sock,       \* the sockets: [at, token, room, joining]
    member,     \* the users who have a row in BoardMember
    token,      \* what Redis and the clock say of each access token
    req,        \* the requests whose kick is still to be sent, by slot
    strays,     \* history: sockets whose joinBoard was overtaken by a removal,
                \* or whose kick was never sent
    survivors   \* history: sockets whose admission was overtaken by a logout,
                \* or whose kick was never sent

gateway == <<sock, member, token, req, strays, survivors>>

\* "cleared": looked up in the blacklist, not yet admitted.
Off == [at |-> "off", token |-> Absent, room |-> FALSE, joining |-> FALSE]
Socket == {Off}
     \cup [at: {"cleared"}, token: Tokens, room: {FALSE}, joining: {FALSE}]
     \cup [at: {"on"}, token: Tokens, room: BOOLEAN, joining: BOOLEAN]

\* "good": not logged out; past its exp nobody can use it any more, which needs
\* no state of its own.  "blocked": blacklisted.  "lapsed": logged out, past its
\* exp, and without an entry in the blacklist.
TokenStates == {"good", "blocked", "lapsed"}
LoggedOut(t) == token[t] # "good"

\* who: the user removed or logged out everywhere, or the token logged out.
Request == [op: {"none", "remove", "logout"},
            who: Accounts \cup Tokens \cup {Absent}]
Idle == [op |-> "none", who |-> Absent]

Free(r) == req[r] = Idle
Become(r, rec) == req' = [req EXCEPT ![r] = rec]
Finish(r) == Become(r, Idle)

Open(s) == sock[s].at = "on"
UserOf(s) == Owner(sock[s].token)
SocketsOf(u) == {s \in SocketIds : Open(s) /\ UserOf(s) = u}
Room == {s \in SocketIds : sock[s].room}
Put(s, rec) == sock' = [sock EXCEPT ![s] = rec]

\* A kick that is still to be sent.
Kicking(op, who) == \E r \in Reqs : req[r] = [op |-> op, who |-> who]

----------------------------------------------------------------------------
(* handleConnection                                                          *)

\* Mutant: the blacklist is not consulted.
Blacklisted_Never(t) == FALSE
Blacklisted(t) == token[t] = "blocked"

\* extractToken, verifyAsync and the look in the blacklist.  The version of the
\* token is not looked at.  A token that was verified just before its exp may
\* be looked up when its entry is gone.
Connect(s) ==
    /\ sock[s].at = "off"
    /\ \E t \in Tokens :
         /\ ~Blacklisted(t)
         /\ Put(s, [Off EXCEPT !.at = "cleared", !.token = t])
         /\ survivors' = IF token[t] = "lapsed" THEN survivors \cup {s} ELSE survivors \ {s}
    /\ strays' = strays \ {s}
    /\ UNCHANGED <<member, token, req>>

\* The socket gets its data and joins the room of its user.
Admit(s) ==
    /\ sock[s].at = "cleared"
    /\ Put(s, [sock[s] EXCEPT !.at = "on"])
    /\ UNCHANGED <<member, token, req, strays, survivors>>

\* The client goes away.
Disconnect(s) ==
    /\ sock[s].at # "off"
    /\ Put(s, Off)
    /\ strays' = strays \ {s} /\ survivors' = survivors \ {s}
    /\ UNCHANGED <<member, token, req>>

----------------------------------------------------------------------------
(* joinBoard and leaveBoard                                                  *)

\* Mutant: a client whose handshake is under way may join.
JoinLookup_Early(s) ==
    /\ sock[s].at # "off" /\ ~sock[s].joining /\ UserOf(s) \in member
    /\ Put(s, [sock[s] EXCEPT !.joining = TRUE])
    /\ strays' = strays \ {s}
    /\ UNCHANGED <<member, token, req, survivors>>
JoinLookup(s) ==
    /\ Open(s) /\ ~sock[s].joining /\ UserOf(s) \in member
    /\ Put(s, [sock[s] EXCEPT !.joining = TRUE])
    /\ strays' = strays \ {s}
    /\ UNCHANGED <<member, token, req, survivors>>

JoinRoom(s) ==
    /\ sock[s].joining
    /\ Put(s, [sock[s] EXCEPT !.joining = FALSE, !.room = TRUE])
    /\ UNCHANGED <<member, token, req, strays, survivors>>

LeaveRoom(s) ==
    /\ sock[s].room
    /\ Put(s, [sock[s] EXCEPT !.room = FALSE])
    /\ UNCHANGED <<member, token, req, strays, survivors>>

----------------------------------------------------------------------------
(* The events of the application                                             *)

\* Whom an event reaches: a notification goes to the room of its user, every
\* other event to the room of the board.
Audience(dest) == IF dest = "board" THEN Room ELSE SocketsOf(dest)

\* Mutant: a logout closes every socket of the user.
Targets_EveryDevice(op, who) ==
    {s \in SocketIds : Open(s) /\ UserOf(s) = IF op = "logoutAll" THEN who ELSE Owner(who)}
\* handleUserLoggedOut; the event of a logout names its token.
Targets(op, who) ==
    {s \in SocketIds : Open(s) /\ IF op = "logoutAll" THEN UserOf(s) = who
                                  ELSE sock[s].token = who}

Drop(gone) == /\ sock' = [s \in SocketIds |-> IF s \in gone THEN Off ELSE sock[s]]
              /\ strays' = strays \ gone /\ survivors' = survivors \ gone

DropSockets(r) ==
    /\ req[r].op = "logout"
    /\ Drop(Targets("logout", req[r].who))
    /\ Finish(r)
    /\ UNCHANGED <<member, token>>

\* What logoutAll writes before its event is in Session: the gateway does not
\* read it.
LogoutAll(u) ==
    /\ Drop(Targets("logoutAll", u))
    /\ UNCHANGED <<member, token, req>>

\* Mutant: one socket of the user leaves.
Evicted_One(u) == LET all == {s \in Room : UserOf(s) = u}
                  IN  IF all = {} THEN {} ELSE {CHOOSE s \in all : TRUE}
\* handleBoardMemberRemoved.
Evicted(u) == {s \in Room : UserOf(s) = u}

EvictMember(r) ==
    /\ req[r].op = "remove"
    /\ sock' = [s \in SocketIds |-> IF s \in Evicted(req[r].who)
                                    THEN [sock[s] EXCEPT !.room = FALSE] ELSE sock[s]]
    /\ Finish(r)
    /\ UNCHANGED <<member, token, strays, survivors>>

----------------------------------------------------------------------------
(* The requests that end in a kick.  What they read before their write has   *)
(* no part in it: a removal whose row is gone throws, a logout has passed    *)
(* JwtAuthGuard at some earlier time.                                        *)

RemoveMember(r) ==
    /\ Free(r)
    /\ \E u \in member :
         /\ member' = member \ {u}
         /\ Become(r, [op |-> "remove", who |-> u])
         /\ strays' = strays \cup {s \in SocketsOf(u) : sock[s].joining}
    /\ UNCHANGED <<sock, token, survivors>>

\* The blacklist takes the token only while it has time to live: past exp since
\* the guard, there is nothing to store.
Logout(r) ==
    /\ Free(r)
    /\ \E t \in Tokens :
         /\ \E after \in IF token[t] = "lapsed" THEN {"lapsed"} ELSE {"blocked", "lapsed"} :
              token' = [token EXCEPT ![t] = after]
         /\ survivors' = survivors \cup
              {s \in SocketIds : sock[s].token = t /\ sock[s].at = "cleared"}
         /\ Become(r, [op |-> "logout", who |-> t])
    /\ UNCHANGED <<sock, member, strays>>

\* A statement fails or throws: the event is not sent.
Abort(r) ==
    /\ Failures /\ ~Free(r)
    /\ IF req[r].op = "remove"
       THEN strays' = strays \cup Evicted(req[r].who) ELSE UNCHANGED strays
    /\ IF req[r].op = "logout"
       THEN survivors' = survivors \cup Targets("logout", req[r].who)
       ELSE UNCHANGED survivors
    /\ Finish(r)
    /\ UNCHANGED <<sock, member, token>>

----------------------------------------------------------------------------
(* What happens outside of the gateway                                       *)

\* addMember, an invitation or an invite link.
AddMember(u) ==
    /\ u \notin member
    /\ member' = member \cup {u}
    /\ strays' = {s \in strays : UserOf(s) # u}
    /\ UNCHANGED <<sock, token, req, survivors>>

BlacklistExpires(t) ==
    /\ token[t] = "blocked"
    /\ token' = [token EXCEPT ![t] = "lapsed"]
    /\ UNCHANGED <<sock, member, req, strays, survivors>>

----------------------------------------------------------------------------
GatewayInit ==
    /\ sock = [s \in SocketIds |-> Off]
    /\ member \in SUBSET Accounts
    /\ token = [t \in Tokens |-> "good"]
    /\ req = [r \in Reqs |-> Idle]
    /\ strays = {} /\ survivors = {}

ClientStep(s) ==
    \/ Connect(s) \/ Admit(s) \/ Disconnect(s)
    \/ JoinLookup(s) \/ JoinRoom(s) \/ LeaveRoom(s)

RequestStep(r) ==
    \/ RemoveMember(r) \/ EvictMember(r)
    \/ Logout(r) \/ DropSockets(r)
    \/ Abort(r)

GatewayNext ==
    \/ \E s \in SocketIds : ClientStep(s)
    \/ \E r \in Reqs : RequestStep(r)
    \/ \E u \in Accounts : AddMember(u) \/ LogoutAll(u)
    \/ \E t \in Tokens : BlacklistExpires(t)

GatewaySpec == GatewayInit /\ [][GatewayNext]_gateway

----------------------------------------------------------------------------
(* Properties                                                                *)

GatewayTypeOK ==
    /\ sock \in [SocketIds -> Socket]
    /\ member \subseteq Accounts
    /\ token \in [Tokens -> TokenStates]
    /\ req \in [Reqs -> Request]
    /\ strays \subseteq SocketIds /\ survivors \subseteq SocketIds

\* An event of the board reaches sockets of members only, except while the kick
\* of a removed user is still to be sent, a socket whose joinBoard had read the
\* membership before the removal, and a kick that was never sent.
OutsidersHearNothing ==
    \A s \in Audience("board") \ strays :
       UserOf(s) \in member \/ Kicking("remove", UserOf(s))

\* A notification reaches no socket of a token that was logged out, except
\* while the kick is still to be sent, a socket that was looked up in the
\* blacklist before the logout or after the entry had lapsed, and a kick that
\* was never sent.
LoggedOutHearNothing ==
    \A u \in Accounts : \A s \in Audience(u) \ survivors :
       LoggedOut(sock[s].token) => Kicking("logout", sock[s].token)

\* A logout closes the sockets of its own token and of no other device, and a
\* removal takes nobody else out of the room.
KicksHitTheirTarget ==
    [][\A s \in SocketIds :
         /\ Open(s) /\ sock'[s].at = "off" =>
              \/ Disconnect(s) \/ LogoutAll(UserOf(s))
              \/ \E r \in Reqs : req[r] = [op |-> "logout", who |-> sock[s].token]
                                 /\ req'[r] = Idle
         /\ sock[s].room /\ ~sock'[s].room /\ sock'[s].at = "on" =>
              \/ LeaveRoom(s)
              \/ \E r \in Reqs : req[r] = [op |-> "remove", who |-> UserOf(s)]
                                 /\ req'[r] = Idle]_gateway

=============================================================================

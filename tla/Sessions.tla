------------------------------ MODULE Sessions ------------------------------
(***************************************************************************)
(* Connections, sessions, presence, bans and role changes of the chat      *)
(* server (src/server/socket_server.py): the maps self.clients and         *)
(* self.sessions, guarded by self.lock, the columns users.status and       *)
(* permissions.role of the database, one handler thread per connection     *)
(* and the presence monitor thread.                                        *)
(*                                                                         *)
(* A handler runs without the lock between its steps, so every step here   *)
(* is one region under self.lock, one database call or one send to a       *)
(* socket, and steps of different threads interleave.  The room state      *)
(* that the same handlers touch (self.client_rooms and the tables rooms    *)
(* and room_members) shares no variable with this one and is specified     *)
(* apart.                                                                  *)
(*                                                                         *)
(* Abstractions: a connection is its client_address; time is not measured, *)
(* so an Online session may be found inactive at any moment; of the        *)
(* several sessions of one user, any may come first in the dict.           *)
(***************************************************************************)
EXTENDS Naturals

CONSTANTS
  Conns,       \* connections (client addresses)
  Users,       \* registered users
  Roles,       \* the values of permissions.role
  InitAdmins,  \* users whose role is Admin at first
  Logins,      \* the <<connection, user>> pairs that clients try to log in
  Grants,      \* the <<user, role>> pairs that administrators grant
  MonitorOn,   \* whether the presence monitor is observed
  DbFaults,    \* whether a database call may raise DatabaseError
  MaxCrashes,  \* bound on the number of server crashes
  NoConn, NoUser, NoSession

ASSUME SessionsAssumption ==
  /\ {"Admin", "User"} \subseteq Roles
  /\ InitAdmins \subseteq Users
  /\ Logins \subseteq Conns \X Users
  /\ Grants \subseteq Users \X Roles
  /\ MonitorOn \in BOOLEAN /\ DbFaults \in BOOLEAN
  /\ MaxCrashes \in Nat
  /\ NoConn \notin Conns /\ NoUser \notin Users

VARIABLES
  clients,   \* keys of self.clients
  open,      \* connections whose server side socket is not closed
  gone,      \* connections whose client has closed its end
  sessions,  \* self.sessions, NoSession where the key is absent
  status,    \* column users.status
  perm,      \* column permissions.role
  pc, job,   \* control point and locals of each connection's handler
  mon,       \* control point and locals of the presence monitor
  firm,      \* history: users banned while the server was not serving them,
             \* and not revoked since
  crashes    \* number of crashes so far

net   == <<clients, open, gone>>
db    == <<status, perm>>
vars  == <<net, sessions, db, pc, job, mon, firm, crashes>>

Statuses == {"Offline", "Online", "Idle", "Banned"}
Session  == [user : Users, role : Roles, status : {"Online", "Idle"}]

ASSUME NoSessionAssumption == NoSession \notin Session

\* The locals of a handler: the user whose status it is about to write, the
\* target of a moderation request, the address looked up for it, a role read
\* from or written to the database, the socket that _disconnect_client popped.
Job == [user : Users \cup {NoUser}, target : Users \cup {NoUser},
        addr : Conns \cup {NoConn}, role : Roles, sock : Conns \cup {NoConn}]

NoJob == [user |-> NoUser, target |-> NoUser, addr |-> NoConn,
          role |-> "User", sock |-> NoConn]

\* The monitor: the user of the session it found idle, and the address under
\* which that session is in the dict, NoConn once it was replaced or popped.
Monitor == [at : {"sleep", "set", "write"}, conn : Conns \cup {NoConn},
            user : Users \cup {NoUser}]

MonIdle == [at |-> "sleep", conn |-> NoConn, user |-> NoUser]

Labels == {"free", "recv", "wake", "ready", "role", "session", "online",
           "logoutDb", "logoutPop", "ban", "banFind", "pop", "offline",
           "close", "grant", "grantFind", "grantSet", "grantSend", "revoke",
           "reply", "greet", "drop"}

\* The types of the registry, the tables and the locals of every thread.
TypeOK ==
  /\ clients \subseteq Conns /\ open \subseteq Conns /\ gone \subseteq Conns
  /\ sessions \in [Conns -> Session \cup {NoSession}]
  /\ status \in [Users -> Statuses]
  /\ perm \in [Users -> Roles]
  /\ pc \in [Conns -> Labels]
  /\ job \in [Conns -> Job]
  /\ mon \in Monitor
  /\ firm \subseteq Users
  /\ crashes \in Nat

Init ==
  /\ clients = {} /\ open = {} /\ gone = {}
  /\ sessions = [c \in Conns |-> NoSession]
  /\ status = [u \in Users |-> "Offline"]
  /\ perm = [u \in Users |-> IF u \in InitAdmins THEN "Admin" ELSE "User"]
  /\ pc = [c \in Conns |-> "free"]
  /\ job = [c \in Conns |-> NoJob]
  /\ mon = MonIdle
  /\ firm = {}
  /\ crashes = 0

-----------------------------------------------------------------------------
(* Helpers *)

Goto(c, l)    == pc' = [pc EXCEPT ![c] = l]
HasSession(c) == sessions[c] # NoSession
SessionOf(c, u) == HasSession(c) /\ sessions[c].user = u

\* What the monitor writes to a session that was replaced or popped is seen by
\* nobody.
Detach(a) == mon' = [mon EXCEPT !.conn = IF @ = a THEN NoConn ELSE @]

\* Some session, handler or the monitor holds user u.
Serving(u) ==
  \/ \E c \in Conns : SessionOf(c, u) \/ job[c].user = u
  \/ mon.user = u

\* A receive or an unguarded send on c raises for certain once the server
\* closed the socket, and may raise once the peer closed its end.
MaySend(c)     == c \in open
SlipMayFail(c) == c \notin open
MayFail(c)     == c \notin open \/ c \in gone

-----------------------------------------------------------------------------
(* Points where a slip would go unnoticed, each with the slip it is checked   *)
(* against: the Slip operators stand for code that is wrong and are used by   *)
(* no definition.                                                             *)

\* perm_info["role"] if perm_info else "User".
SlipRoleOf(u) == NoUser
RoleOf(u)     == perm[u]

\* login_user refuses a banned user.
SlipMayLogIn(u) == TRUE
MayLogIn(u)     == status[u] # "Banned"

\* self.clients.pop(client_address, None): the second caller gets no socket.
SlipPoppedSocket(a) == a
PoppedSocket(a)     == IF a \in clients THEN a ELSE NoConn

\* self.sessions.pop(client_address, None), whether a socket was there or not.
SlipPopSession(a) == sessions' = IF a \in clients THEN [sessions EXCEPT ![a] = NoSession]
                                                 ELSE sessions
PopSession(a)     == sessions' = [sessions EXCEPT ![a] = NoSession]

-----------------------------------------------------------------------------
(* Connections *)

\* _accept_loop registers a new connection and starts its handler.  An
\* identity is taken again only when nothing refers to it, so that it always
\* stands for a new address.
Accept(c) ==
  /\ pc[c] = "free" /\ c \notin open
  /\ mon.conn # c /\ \A d \in Conns : job[d].addr # c
  /\ clients' = clients \cup {c}
  /\ open' = open \cup {c}
  /\ gone' = gone \ {c}
  /\ Goto(c, "recv")
  /\ UNCHANGED <<sessions, db, job, mon, firm, crashes>>

\* The client closes its end, or its system does when the process ends: recv
\* returns, unless the server has closed the socket itself.  A client that is
\* lost without a word is one that does nothing more: recv has no timeout, and
\* its handler stays at "recv".
ClientClose(c) ==
  /\ c \in open \ gone
  /\ gone' = gone \cup {c}
  /\ UNCHANGED <<clients, open, sessions, db, pc, job, mon, firm, crashes>>

\* receive_framed_packet returns a packet; _update_activity brings an Idle
\* session back to Online in memory, the database write follows.
Receive(c) ==
  /\ pc[c] = "recv" /\ c \in open /\ c \notin gone
  /\ \/ /\ HasSession(c) /\ sessions[c].status = "Idle"
        /\ sessions' = [sessions EXCEPT ![c].status = "Online"]
        /\ job' = [job EXCEPT ![c].user = sessions[c].user]
        /\ Goto(c, "wake")
     \/ /\ HasSession(c) => sessions[c].status # "Idle"
        /\ Goto(c, "ready")
        /\ UNCHANGED <<sessions, job>>
  /\ UNCHANGED <<net, db, mon, firm, crashes>>

\* End of stream or a closed socket ends the loop of _handle_client.
HangUp(c) ==
  /\ pc[c] = "recv" /\ MayFail(c)
  /\ Goto(c, "drop")
  /\ UNCHANGED <<net, sessions, db, job, mon, firm, crashes>>

\* Every request that only reads and answers: REGISTER, a failed LOGIN, a
\* request without a session, the listings.
Answer(c) ==
  /\ pc[c] = "ready"
  /\ Goto(c, "reply")
  /\ UNCHANGED <<net, sessions, db, job, mon, firm, crashes>>

\* A request about rooms or muting may end with an exception that nobody catches (a
\* KeyError, or a DatabaseError in JOIN_ROOM and MUTE_USER), and the loop with it.
Raise(c) ==
  /\ pc[c] = "ready" /\ HasSession(c)
  /\ Goto(c, "drop")
  /\ UNCHANGED <<net, sessions, db, job, mon, firm, crashes>>

\* A refusal is sent by _send_error, which swallows the failure of the send.
Refuse(c) ==
  /\ pc[c] = "ready"
  /\ Goto(c, "recv")
  /\ UNCHANGED <<net, sessions, db, job, mon, firm, crashes>>

\* The reply to the client itself; the exception of a failed send ends the loop,
\* and so may, after LOGIN, the KeyError of a connection another handler popped.
Reply(c) ==
  /\ pc[c] \in {"reply", "greet"}
  /\ \/ MaySend(c) /\ Goto(c, "recv")
     \/ /\ MayFail(c) \/ (pc[c] = "greet" /\ c \notin clients)
        /\ Goto(c, "drop")
  /\ UNCHANGED <<net, sessions, db, job, mon, firm, crashes>>

-----------------------------------------------------------------------------
(* LOGIN and LOGOUT *)

\* login_user: the user's row is read once, and a banned user is refused.  (A
\* name padded with blanks passes login_user too and then fails, see
\* Registration.)
LoginCheck(c, u) ==
  /\ pc[c] = "ready"
  /\ <<c, u>> \in Logins
  /\ MayLogIn(u)
  /\ job' = [job EXCEPT ![c].user = u]
  /\ Goto(c, "role")
  /\ UNCHANGED <<net, sessions, db, mon, firm, crashes>>

LoginRole(c) ==
  /\ pc[c] = "role"
  /\ job' = [job EXCEPT ![c].role = RoleOf(job[c].user)]
  /\ Goto(c, "session")
  /\ UNCHANGED <<net, sessions, db, mon, firm, crashes>>

\* A session of the connection that is still there is overwritten.
LoginSession(c) ==
  /\ pc[c] = "session"
  /\ sessions' = [sessions EXCEPT ![c] =
                    [user |-> job[c].user, role |-> job[c].role, status |-> "Online"]]
  /\ Detach(c)
  /\ Goto(c, "online")
  /\ UNCHANGED <<net, db, job, firm, crashes>>

Logout(c) ==
  /\ pc[c] = "ready" /\ HasSession(c)
  /\ job' = [job EXCEPT ![c].user = sessions[c].user]
  /\ Goto(c, "logoutDb")
  /\ UNCHANGED <<net, sessions, db, mon, firm, crashes>>

LogoutPop(c) ==
  /\ pc[c] = "logoutPop"
  /\ sessions' = [sessions EXCEPT ![c] = NoSession]
  /\ Detach(c)
  /\ Goto(c, "reply")
  /\ UNCHANGED <<net, db, job, firm, crashes>>

\* _update_db_presence, wherever a handler calls it: an Idle client woke up,
\* logged in, logged out or was disconnected.  A DatabaseError is swallowed,
\* and the handler goes on as if it had written.
WritePresence(c) ==
  /\ pc[c] \in {"wake", "online", "logoutDb", "offline"}
  /\ \/ status' = [status EXCEPT ![job[c].user] =
                     IF pc[c] \in {"wake", "online"} THEN "Online" ELSE "Offline"]
     \/ DbFaults /\ UNCHANGED status
  /\ Goto(c, CASE pc[c] = "wake"     -> "ready"
               [] pc[c] = "online"   -> "greet"
               [] pc[c] = "logoutDb" -> "logoutPop"
               [] OTHER              -> "close")
  /\ job' = [job EXCEPT ![c] = IF pc[c] = "offline" THEN [@ EXCEPT !.user = NoUser]
                                                    ELSE NoJob]
  /\ UNCHANGED <<net, sessions, perm, mon, firm, crashes>>

-----------------------------------------------------------------------------
(* _disconnect_client(addr), called by a handler on its own connection when *)
(* its loop ends and by BAN_USER on the connection of the banned user.      *)

Drop(c) ==
  /\ pc[c] = "drop"
  /\ job' = [job EXCEPT ![c] = [NoJob EXCEPT !.addr = c]]
  /\ Goto(c, "pop")
  /\ UNCHANGED <<net, sessions, db, mon, firm, crashes>>

\* The region under the lock pops the socket and the session together: only
\* one of several callers gets them.
Pop(c) ==
  LET a == job[c].addr IN
  /\ pc[c] = "pop"
  /\ clients' = clients \ {a}
  /\ PopSession(a)
  /\ Detach(a)
  /\ job' = [job EXCEPT ![c] =
               [NoJob EXCEPT !.addr = a,
                         !.sock = PoppedSocket(a),
                         !.user = IF HasSession(a) THEN sessions[a].user ELSE NoUser]]
  /\ Goto(c, IF HasSession(a) THEN "offline" ELSE "close")
  /\ UNCHANGED <<open, gone, db, firm, crashes>>

\* The caller that got the socket closes it; the handler's own thread ends.
Close(c) ==
  LET a == job[c].addr IN
  /\ pc[c] = "close"
  /\ open' = open \ {job[c].sock}
  /\ gone' = IF a = c THEN gone \ {c} ELSE gone
  /\ job' = [job EXCEPT ![c] = NoJob]
  /\ Goto(c, IF a = c THEN "free" ELSE "reply")
  /\ UNCHANGED <<clients, sessions, db, mon, firm, crashes>>

-----------------------------------------------------------------------------
(* BAN_USER, REVOKE_BAN, PROMOTE_USER.  The role is the one the session held *)
(* when the request was dispatched.                                          *)

IsAdmin(c) == HasSession(c) /\ sessions[c].role = "Admin"

Request(c, t, r, l) ==
  /\ pc[c] = "ready" /\ IsAdmin(c)
  /\ job' = [job EXCEPT ![c] = [NoJob EXCEPT !.target = t, !.role = r]]
  /\ Goto(c, l)
  /\ UNCHANGED <<net, sessions, db, mon, firm, crashes>>

\* An administrator can be banned neither by himself nor by another one.
Ban(c, t) ==
  /\ pc[c] = "ready" /\ IsAdmin(c)
  /\ t # sessions[c].user /\ perm[t] # "Admin"
  /\ Request(c, t, "User", "ban")

Revoke(c, t)     == Request(c, t, "User", "revoke")
Promote(c, t, r) == Request(c, t, r, "grant")

BanWrite(c) ==
  LET t == job[c].target IN
  /\ pc[c] = "ban"
  /\ status' = [status EXCEPT ![t] = "Banned"]
  /\ firm' = IF Serving(t) THEN firm ELSE firm \cup {t}
  /\ Goto(c, "banFind")
  /\ UNCHANGED <<net, sessions, perm, job, mon, crashes>>

\* _get_online_user_socket: the first session of the user, and its socket, which may
\* have been popped without the session.
SlipLookup(c, found) == job' = [job EXCEPT ![c] = NoJob] /\ Goto(c, "reply")

Lookup(c, found) ==
  \/ \E a \in Conns :
       /\ SessionOf(a, job[c].target) /\ a \in clients
       /\ job' = [job EXCEPT ![c].addr = a]
       /\ Goto(c, found)
  \/ /\ \/ \A a \in Conns : ~SessionOf(a, job[c].target)
        \/ \E a \in Conns : SessionOf(a, job[c].target) /\ a \notin clients
     /\ job' = [job EXCEPT ![c] = NoJob]
     /\ Goto(c, "reply")

BanFind(c) ==
  /\ pc[c] = "banFind"
  /\ Lookup(c, "pop")
  /\ UNCHANGED <<net, sessions, db, mon, firm, crashes>>

RevokeWrite(c) ==
  LET t == job[c].target IN
  /\ pc[c] = "revoke"
  /\ status' = [status EXCEPT ![t] = IF @ = "Banned" THEN "Offline" ELSE @]
  /\ firm' = firm \ {t}
  /\ job' = [job EXCEPT ![c] = NoJob]
  /\ Goto(c, "reply")
  /\ UNCHANGED <<net, sessions, perm, mon, crashes>>

GrantWrite(c) ==
  LET t == job[c].target IN
  /\ pc[c] = "grant"
  /\ perm' = [perm EXCEPT ![t] = job[c].role]
  /\ Goto(c, "grantFind")
  /\ UNCHANGED <<net, sessions, status, job, mon, firm, crashes>>

GrantFind(c) ==
  /\ pc[c] = "grantFind"
  /\ Lookup(c, "grantSet")
  /\ UNCHANGED <<net, sessions, db, mon, firm, crashes>>

\* self.sessions[target_addr]["role"] = new_role, by address: a KeyError when
\* the session was popped since the lookup ends the requester's own loop.
GrantSet(c) ==
  LET a == job[c].addr IN
  /\ pc[c] = "grantSet"
  /\ \/ /\ HasSession(a)
        /\ sessions' = [sessions EXCEPT ![a].role = job[c].role]
        /\ Goto(c, "grantSend")
        /\ UNCHANGED job
     \/ /\ ~HasSession(a)
        /\ job' = [job EXCEPT ![c] = NoJob]
        /\ Goto(c, "drop")
        /\ UNCHANGED sessions
  /\ UNCHANGED <<net, db, mon, firm, crashes>>

\* The notice to the target is sent unguarded from the requester's thread.
GrantSend(c) ==
  LET a == job[c].addr IN
  /\ pc[c] = "grantSend"
  /\ \/ MaySend(a) /\ Goto(c, "reply")
     \/ MayFail(a) /\ Goto(c, "drop")
  /\ job' = [job EXCEPT ![c] = NoJob]
  /\ UNCHANGED <<net, sessions, db, mon, firm, crashes>>

\* A DatabaseError outside _update_db_presence: the moderation handlers answer
\* with an error, LOGIN lets it through and its loop ends.
DbError(c) ==
  /\ DbFaults
  /\ pc[c] \in {"role", "ban", "revoke", "grant"}
  /\ Goto(c, IF pc[c] = "role" THEN "drop" ELSE "recv")
  /\ job' = [job EXCEPT ![c] = NoJob]
  /\ UNCHANGED <<net, sessions, db, mon, firm, crashes>>

-----------------------------------------------------------------------------
(* _presence_monitor_loop: the session is looked at, set Idle under the lock *)
(* in a second region, and written to the database in a third step.          *)

MonitorFind(c) ==
  /\ MonitorOn /\ mon.at = "sleep"
  /\ HasSession(c) /\ sessions[c].status = "Online"
  /\ mon' = [at |-> "set", conn |-> c, user |-> sessions[c].user]
  /\ UNCHANGED <<net, sessions, db, pc, job, firm, crashes>>

MonitorSet ==
  /\ mon.at = "set"
  /\ mon' = [mon EXCEPT !.at = "write"]
  /\ sessions' = IF mon.conn = NoConn THEN sessions
                 ELSE [sessions EXCEPT ![mon.conn].status = "Idle"]
  /\ UNCHANGED <<net, db, pc, job, firm, crashes>>

MonitorWrite ==
  /\ mon.at = "write"
  /\ \/ status' = [status EXCEPT ![mon.user] = "Idle"]
     \/ DbFaults /\ UNCHANGED status
  /\ mon' = MonIdle
  /\ UNCHANGED <<net, sessions, perm, pc, job, firm, crashes>>

\* The process dies and is started again (SocketServer.__init__): memory is
\* lost, the database stays as it is.
Crash ==
  /\ crashes < MaxCrashes
  /\ crashes' = crashes + 1
  /\ clients' = {} /\ open' = {} /\ gone' = {}
  /\ sessions' = [c \in Conns |-> NoSession]
  /\ pc' = [c \in Conns |-> "free"]
  /\ job' = [c \in Conns |-> NoJob]
  /\ mon' = MonIdle
  /\ UNCHANGED <<db, firm>>

-----------------------------------------------------------------------------

\* What clients do, and when.
Client(c) == Accept(c) \/ ClientClose(c) \/ Receive(c)

\* _process_packet: a packet that was received is any of the requests.
Dispatch(c) ==
  \/ Answer(c) \/ Raise(c) \/ Refuse(c) \/ Logout(c)
  \/ \E u \in Users : LoginCheck(c, u) \/ Ban(c, u) \/ Revoke(c, u)
  \/ \E g \in Grants : Promote(c, g[1], g[2])

\* What the handler thread of c does by itself.
Handler(c) ==
  \/ HangUp(c) \/ Reply(c)
  \/ LoginRole(c) \/ LoginSession(c) \/ LogoutPop(c) \/ WritePresence(c)
  \/ Drop(c) \/ Pop(c) \/ Close(c)
  \/ BanWrite(c) \/ BanFind(c) \/ RevokeWrite(c)
  \/ GrantWrite(c) \/ GrantFind(c) \/ GrantSet(c) \/ GrantSend(c)
  \/ DbError(c)

PresenceMonitor == (\E c \in Conns : MonitorFind(c)) \/ MonitorSet \/ MonitorWrite

Next ==
  \/ \E c \in Conns : Client(c) \/ Dispatch(c) \/ Handler(c)
  \/ PresenceMonitor
  \/ Crash

Spec == Init /\ [][Next]_vars

\* Python schedules every thread, no thread keeps the lock, and peers read what
\* they are sent: a handler that has a packet, or an end of stream, goes on.
Fairness == \A c \in Conns : WF_vars(Dispatch(c) \/ Handler(c))

FairSpec == Spec /\ Fairness

-----------------------------------------------------------------------------
(* Properties *)

\* What the locals of a handler and of the monitor hold at each control point;
\* a session the monitor holds and nobody popped is still in the dict.
Locals ==
  /\ \A c \in Conns :
       /\ pc[c] \in {"wake", "role", "session", "online", "logoutDb", "offline"}
            => job[c].user \in Users
       /\ pc[c] \in {"ban", "banFind", "revoke", "grant", "grantFind"}
            => job[c].target \in Users
       /\ pc[c] \in {"pop", "offline", "close", "grantSet", "grantSend"}
            => job[c].addr \in Conns
  /\ mon.at # "sleep" => mon.user \in Users
  /\ mon.conn # NoConn => HasSession(mon.conn)

\* The caller of _disconnect_client that popped the socket of a and has not
\* closed it yet.
Closing(c, a) == pc[c] \in {"offline", "close"} /\ job[c].sock = a

\* A handler thread that has ended, or is past the pop of its own connection,
\* leaves nothing in the registry: no socket and no session, whatever a ban, a
\* promotion or the monitor did to its connection meanwhile.
CleanExit ==
  \A c \in Conns :
    pc[c] = "free" \/ (pc[c] \in {"offline", "close"} /\ job[c].addr = c)
      => c \notin clients /\ ~HasSession(c)

\* Sockets are neither leaked nor closed twice: an open socket is held by the
\* registry or by exactly one caller of _disconnect_client, and a closed one by
\* nobody, although the handler and a banning administrator race for it.
SocketOwnership ==
  /\ clients \subseteq open
  /\ \A a \in Conns, c \in Conns :
       Closing(c, a) => /\ a \in open \ clients
                        /\ \A d \in Conns : Closing(d, a) => d = c
  /\ \A a \in open \ clients : \E c \in Conns : Closing(c, a)

\* A ban that found its user neither logged in nor in transit is durable: until
\* it is revoked he stays Banned in the database and is never served, across
\* restarts too.
FirmBanHolds == \A u \in firm : status[u] = "Banned" /\ ~Serving(u)

\* Nobody is at work on user u.
Settled(u) ==
  /\ mon.user # u
  /\ \A c \in Conns : job[c].user # u /\ job[c].target # u

\* The only session of its user, of a registered connection whose handler waits
\* for the next packet, with nobody at work on the user.
Resting(c) ==
  /\ c \in clients /\ pc[c] = "recv" /\ HasSession(c)
  /\ Settled(sessions[c].user)
  /\ \A d \in Conns \ {c} : ~SessionOf(d, sessions[c].user)

\* Such a user is not shown as absent, however moderation, the monitor and his
\* own requests interleave.  (Memory and database may disagree on Online and
\* Idle: the monitor's write can come after the one that woke him.)
ServedIsPresent ==
  \A c \in Conns : Resting(c) => status[sessions[c].user] \in {"Online", "Idle"}

\* A banned user is let in again by REVOKE_BAN and by nothing else.
BanOnlyRevoked ==
  [][\A u \in Users : status[u] = "Banned" /\ status'[u] # "Banned"
       => \E c \in Conns : RevokeWrite(c) /\ job[c].target = u]_vars

\* A connection whose client has closed its end is forgotten: socket and session
\* go, so that nobody who has left in this way is shown as online, or written to,
\* for ever.  (Nothing is claimed of a client lost without a word.)
GoneIsForgotten ==
  \A c \in Conns : c \in gone ~> (c \notin clients /\ ~HasSession(c))

UserOn(c) == IF HasSession(c) THEN sessions[c].user ELSE NoUser

\* Together the handlers, the bans, the monitor and the crashes take every connection
\* through its life in order: no session without a thread that will take it down, no
\* socket closed under a registered connection, and none reused before it is closed.
Life ==
  INSTANCE ConnectionTable WITH
    Clients    <- Conns,
    served     <- {c \in Conns : pc[c] # "free"},
    registered <- clients,
    open       <- open,
    user       <- [c \in Conns |-> UserOn(c)]
IsConnectionTable == Life!Spec

=============================================================================

-------------------------------- MODULE Rooms --------------------------------
(***************************************************************************)
(* Who is in which room (src/server/socket_server.py): the tables rooms    *)
(* and room_members, and the sets self.client_rooms keeps in memory for    *)
(* each connection, which the handlers of JOIN_ROOM, LEAVE_ROOM,           *)
(* ADD_USER_TO_ROOM, KICK_USER, CREATE_ROOM, DELETE_ROOM, LOGIN and LOGOUT *)
(* change in two steps: first the database, then the memory, with the lock *)
(* given up in between and other handlers at work.                         *)
(*                                                                         *)
(* A step is one region under self.lock or one database call. The rooms    *)
(* are those but General, which LEAVE_ROOM and DELETE_ROOM refuse and      *)
(* every restoration adds; whoever is kicked from General, which KICK_USER *)
(* does not refuse, is out of it until his next login. Roles do not change *)
(* here, a connection is used by one user only, and whether its socket     *)
(* still works is not looked at (Sessions has promotions, other logins and *)
(* sockets).                                                               *)
(***************************************************************************)
EXTENDS Naturals

CONSTANTS
  Conns,       \* connections (client addresses)
  Users,       \* registered users
  Staff,       \* the administrators and moderators among them
  Admins,      \* the administrators among these
  Rooms,       \* names of rooms
  Owner,       \* the user who logs in on each connection
  MaxIds,      \* bound on the number of rooms created
  MaxMishaps,  \* bound on the number of server crashes and DatabaseErrors
  NoUser, NoRoom, NoConn

ASSUME RoomsAssumption ==
  /\ Admins \subseteq Staff /\ Staff \subseteq Users /\ Owner \in [Conns -> Users]
  /\ MaxIds \in Nat /\ MaxMishaps \in Nat
  /\ NoUser \notin Users /\ NoRoom \notin Rooms /\ NoConn \notin Conns

VARIABLES
  ids,        \* rows.id by name, 0 where there is no such row
  rows,       \* the <<user, room>> pairs of table room_members
  made,       \* number of rooms created so far
  logged,     \* connections with a session
  keyed,      \* keys of self.client_rooms
  mine,       \* its values
  pc, job,    \* control point and locals of each connection's handler
  claim,      \* history, by <<user, room>>: what the last change of the row decided, if
              \* one handler alone was at work on the pair
  raced,      \* history: pairs two handlers were at work on, until all are done
  unrestored, \* connections of which the last restoration failed
  mishaps     \* number of crashes and DatabaseErrors so far

db      == <<ids, rows, made>>
memory  == <<logged, keyed, mine>>
history == <<claim, raced>>
vars    == <<db, memory, pc, job, history, unrestored, mishaps>>

Plain == Users \ Staff
Pairs == Plain \X Rooms

Job == [who : Users \cup {NoUser}, room : Rooms \cup {NoRoom}, id : Nat,
        at : Conns \cup {NoConn}, found : SUBSET Rooms, todo : SUBSET Conns]

NoJob == [who |-> NoUser, room |-> NoRoom, id |-> 0,
          at |-> NoConn, found |-> {}, todo |-> {}]

Labels == {"free", "ready", "drop", "restore", "restored", "list",
           "auth", "lookup", "join", "joined", "ban", "kick", "create", "createJoin",
           "createJoined", "append", "add", "added", "addMemory", "fetch", "remove",
           "removed", "snapshot", "sweep"}

\* The types of the tables, the memory, the locals and the history.
TypeOK ==
  /\ ids \in [Rooms -> Nat] /\ made \in Nat
  /\ rows \subseteq Users \X Rooms
  /\ logged \subseteq Conns /\ keyed \subseteq Conns
  /\ mine \in [Conns -> SUBSET Rooms]
  /\ pc \in [Conns -> Labels]
  /\ job \in [Conns -> Job]
  /\ claim \in [Pairs -> {"in", "out", "open"}]
  /\ raced \subseteq Pairs
  /\ unrestored \subseteq Conns
  /\ mishaps \in Nat

Init ==
  /\ ids = [r \in Rooms |-> 0] /\ rows = {} /\ made = 0
  /\ logged = {} /\ keyed = {} /\ mine = [c \in Conns |-> {}]
  /\ pc = [c \in Conns |-> "free"]
  /\ job = [c \in Conns |-> NoJob]
  /\ claim = [p \in Pairs |-> "out"]
  /\ raced = {}
  /\ unrestored = {} /\ mishaps = 0

-----------------------------------------------------------------------------

Goto(c, l) == pc' = [pc EXCEPT ![c] = l]

\* The handler is done with the packet.
Finish(c, l) == Goto(c, l) /\ job' = [job EXCEPT ![c] = NoJob]

\* The session and its role are read; the first step of the request comes later.
Authorize(c) ==
  /\ pc[c] = "ready" /\ c \in logged
  /\ Goto(c, "auth")
  /\ UNCHANGED <<db, memory, job, unrestored, mishaps>>

\* Requests that are refused, or that touch neither rooms nor sessions.
Refuse(c) ==
  /\ pc[c] = "auth"
  /\ Goto(c, "ready")
  /\ UNCHANGED <<db, memory, job, unrestored, mishaps>>

IsStaff(c) == Owner[c] \in Staff

\* What the handler of c is at work on between its database step and its memory
\* step, or from the moment it looked up a connection.
WorksOn(c, p) ==
  \/ pc[c] \in {"restore", "restored"} /\ p[1] = Owner[c]
  \/ /\ pc[c] \in {"joined", "added", "addMemory", "kick", "fetch", "remove",
                   "removed"}
     /\ p = <<job[c].who, job[c].room>>
  \/ pc[c] \in {"snapshot", "sweep"} /\ p[2] = job[c].room

Workers(p)  == {c \in Conns : WorksOn(c, p)}
Sessions(u) == {c \in logged : Owner[c] = u}

-----------------------------------------------------------------------------
(* Connections, LOGIN and LOGOUT *)

\* No client gets the address of an earlier one while a handler has it at hand.
Accept(c) ==
  /\ pc[c] = "free"
  /\ \A d \in Conns : job[d].at # c /\ c \notin job[d].todo
  /\ keyed' = keyed \cup {c}
  /\ mine' = [mine EXCEPT ![c] = {}]
  /\ Goto(c, "ready")
  /\ UNCHANGED <<db, logged, job, unrestored, mishaps>>

\* _disconnect_client pops the session and the rooms together: by the handler
\* itself when its loop ends ...
SlipDiscard(c) ==
  /\ logged' = logged \ {c}
  /\ mine' = [mine EXCEPT ![c] = {}]
  /\ unrestored' = unrestored \ {c}
  /\ UNCHANGED keyed

Discard(c) ==
  /\ logged' = logged \ {c}
  /\ keyed' = keyed \ {c}
  /\ mine' = [mine EXCEPT ![c] = {}]
  /\ unrestored' = unrestored \ {c}

Drop(c) ==
  /\ pc[c] \in {"ready", "drop"}
  /\ Discard(c)
  /\ Finish(c, "free")
  /\ UNCHANGED <<db, mishaps>>

\* ... and by BAN_USER, whatever the handler of the banned user is about.
BanFind(c, d) ==
  /\ pc[c] = "auth" /\ Owner[c] \in Admins
  /\ d \in logged /\ Owner[d] \notin Admins
  /\ job' = [job EXCEPT ![c] = [NoJob EXCEPT !.at = d]]
  /\ Goto(c, "ban")
  /\ UNCHANGED <<db, memory, unrestored, mishaps>>

BanPop(c) ==
  /\ pc[c] = "ban"
  /\ Discard(job[c].at)
  /\ Finish(c, "ready")
  /\ UNCHANGED <<db, mishaps>>

\* LOGIN registers the session and then restores the rooms.
Login(c) ==
  /\ pc[c] = "ready"
  /\ logged' = logged \cup {c}
  /\ Goto(c, "restore")
  /\ UNCHANGED <<db, keyed, mine, job, unrestored, mishaps>>

\* Every room for the staff, the rows of room_members for others.
SlipPersisted(u) == {p \in rows : p[1] = u}
Persisted(u) ==
  {r \in Rooms : IF u \in Staff THEN ids[r] # 0 ELSE <<u, r>> \in rows}

RestoreRead(c) ==
  /\ pc[c] = "restore"
  /\ job' = [job EXCEPT ![c].found = Persisted(Owner[c])]
  /\ Goto(c, "restored")
  /\ UNCHANGED <<db, memory, unrestored, mishaps>>

\* The set is put under the address even if the connection was dropped meanwhile.
SlipRestored(c) == mine[c] \cup job[c].found
RestoredSet(c)  == job[c].found

RestoreSet(c) ==
  /\ pc[c] = "restored"
  /\ keyed' = keyed \cup {c}
  /\ mine' = [mine EXCEPT ![c] = RestoredSet(c)]
  /\ unrestored' = unrestored \ {c}
  /\ Finish(c, "list")
  /\ UNCHANGED <<db, logged, mishaps>>

\* General is added and ROOMS_STATUS made up: a KeyError if there is no set.
List(c) ==
  /\ pc[c] = "list"
  /\ Goto(c, IF c \in keyed THEN "ready" ELSE "drop")
  /\ UNCHANGED <<db, memory, job, unrestored, mishaps>>

\* self.client_rooms gets a set even if the connection was dropped meanwhile.
Logout(c) ==
  /\ pc[c] = "auth"
  /\ logged' = logged \ {c}
  /\ keyed' = keyed \cup {c}
  /\ mine' = [mine EXCEPT ![c] = {}]
  /\ unrestored' = unrestored \ {c}
  /\ Goto(c, "ready")
  /\ UNCHANGED <<db, job, mishaps>>

-----------------------------------------------------------------------------
(* JOIN_ROOM, and _join_room_logic, which CREATE_ROOM calls too *)

\* There is such a room ...
Join(c, r) ==
  /\ pc[c] = "auth" /\ ids[r] # 0
  /\ job' = [job EXCEPT ![c] = [NoJob EXCEPT !.who = Owner[c], !.room = r]]
  /\ Goto(c, "lookup")
  /\ UNCHANGED <<db, memory, unrestored, mishaps>>

\* ... and _join_room_logic reads its id.  CREATE_ROOM does not look whether that failed.
JoinFetch(c) ==
  /\ pc[c] \in {"lookup", "create"}
  /\ \/ /\ ids[job[c].room] # 0
        /\ job' = [job EXCEPT ![c].id = ids[job[c].room]]
        /\ Goto(c, IF pc[c] = "lookup" THEN "join" ELSE "createJoin")
     \/ /\ ids[job[c].room] = 0
        /\ IF pc[c] = "lookup" THEN Finish(c, "ready") ELSE Goto(c, "append") /\ UNCHANGED job
  /\ UNCHANGED <<db, memory, unrestored, mishaps>>

\* The id that was read is still that of the room: the foreign key of room_members
\* refuses the id of a room that was deleted meanwhile.
SlipSameRoom(c) == TRUE
SameRoom(c)     == job[c].id = ids[job[c].room]

InsertRow(c) == rows' = rows \cup {<<job[c].who, job[c].room>>}

JoinDb(c) ==
  /\ pc[c] \in {"join", "createJoin"} /\ SameRoom(c)
  /\ InsertRow(c)
  /\ Goto(c, IF pc[c] = "join" THEN "joined" ELSE "createJoined")
  /\ UNCHANGED <<ids, made, memory, job, unrestored, mishaps>>

\* self.client_rooms[client_address].add: a KeyError once the set was popped.
JoinMemory(c) ==
  /\ pc[c] \in {"joined", "createJoined"}
  /\ \/ /\ c \in keyed
        /\ mine' = [mine EXCEPT ![c] = @ \cup {job[c].room}]
        /\ IF pc[c] = "joined" THEN Finish(c, "ready") ELSE Goto(c, "append") /\ UNCHANGED job
     \/ c \notin keyed /\ Finish(c, "drop") /\ UNCHANGED mine
  /\ UNCHANGED <<db, logged, keyed, unrestored, mishaps>>

-----------------------------------------------------------------------------
(* CREATE_ROOM *)

Create(c, r) ==
  /\ pc[c] = "auth" /\ IsStaff(c)
  /\ ids[r] = 0 /\ made < MaxIds
  /\ made' = made + 1
  /\ ids' = [ids EXCEPT ![r] = made + 1]
  /\ job' = [job EXCEPT ![c] = [NoJob EXCEPT !.who = Owner[c], !.room = r]]
  /\ Goto(c, "create")
  /\ UNCHANGED <<rows, memory, unrestored, mishaps>>

\* The room is added for every session of the staff, in one region under the
\* lock, up to the first one that has no set yet: a KeyError.
Append(c) ==
  LET S == {d \in logged : IsStaff(d)} IN
  /\ pc[c] = "append"
  /\ \E T \in SUBSET (S \cap keyed) :
       /\ S \subseteq keyed => T = S
       /\ mine' = [d \in Conns |-> IF d \in T THEN mine[d] \cup {job[c].room} ELSE mine[d]]
  /\ Finish(c, IF S \subseteq keyed THEN "ready" ELSE "drop")
  /\ UNCHANGED <<db, logged, keyed, unrestored, mishaps>>

-----------------------------------------------------------------------------
(* ADD_USER_TO_ROOM *)

Add(c, u, r) ==
  /\ pc[c] = "auth" /\ IsStaff(c) /\ ids[r] # 0
  /\ job' = [job EXCEPT ![c] = [NoJob EXCEPT !.who = u, !.room = r, !.id = ids[r]]]
  /\ Goto(c, "add")
  /\ UNCHANGED <<db, memory, unrestored, mishaps>>

AddDb(c) ==
  /\ pc[c] = "add" /\ SameRoom(c)
  /\ InsertRow(c)
  /\ Goto(c, "added")
  /\ UNCHANGED <<ids, made, memory, job, unrestored, mishaps>>

\* _get_online_user_socket; a user who is not online has the row.
AddFind(c) ==
  /\ pc[c] = "added"
  /\ \/ \E d \in Sessions(job[c].who) :
          job' = [job EXCEPT ![c].at = d] /\ Goto(c, "addMemory")
     \/ Sessions(job[c].who) = {} /\ Finish(c, "ready")
  /\ UNCHANGED <<db, memory, unrestored, mishaps>>

AddMemory(c) ==
  /\ pc[c] = "addMemory"
  /\ mine' = [d \in Conns |-> IF d = job[c].at /\ d \in keyed
                              THEN mine[d] \cup {job[c].room} ELSE mine[d]]
  /\ Finish(c, "ready")
  /\ UNCHANGED <<db, logged, keyed, unrestored, mishaps>>

-----------------------------------------------------------------------------
(* LEAVE_ROOM, and KICK_USER, which looks up the connection of the user first *)

Remove(c, d, r, l) ==
  /\ pc[c] = "auth"
  /\ job' = [job EXCEPT ![c] = [NoJob EXCEPT !.who = Owner[d], !.room = r, !.at = d]]
  /\ Goto(c, l)
  /\ UNCHANGED <<db, memory, unrestored, mishaps>>

Leave(c, r)   == r \in mine[c] /\ Remove(c, c, r, "fetch")
Kick(c, d, r) == IsStaff(c) /\ d \in logged /\ Remove(c, d, r, "kick")

\* Only somebody who is in the room is kicked.
KickMember(c) ==
  /\ pc[c] = "kick"
  /\ IF job[c].room \in mine[job[c].at] THEN Goto(c, "fetch") /\ UNCHANGED job
                                       ELSE Finish(c, "ready")
  /\ UNCHANGED <<db, memory, unrestored, mishaps>>

RemoveFetch(c) ==
  /\ pc[c] = "fetch"
  /\ job' = [job EXCEPT ![c].id = ids[job[c].room]]
  /\ Goto(c, "remove")
  /\ UNCHANGED <<db, memory, unrestored, mishaps>>

\* DELETE FROM room_members, by the id that was read.
RemoveDb(c) ==
  /\ pc[c] = "remove"
  /\ rows' = IF SameRoom(c) THEN rows \ {<<job[c].who, job[c].room>>} ELSE rows
  /\ Goto(c, "removed")
  /\ UNCHANGED <<ids, made, memory, job, unrestored, mishaps>>

AfterRemove(c) == [mine EXCEPT ![job[c].at] = @ \ {job[c].room}]

RemoveMemory(c) ==
  /\ pc[c] = "removed"
  /\ \/ job[c].at \in keyed /\ mine' = AfterRemove(c) /\ Finish(c, "ready")
     \/ job[c].at \notin keyed /\ Finish(c, "drop") /\ UNCHANGED mine
  /\ UNCHANGED <<db, logged, keyed, unrestored, mishaps>>

-----------------------------------------------------------------------------
(* DELETE_ROOM *)

\* The row goes, and with it those of room_members (ON DELETE CASCADE).
Delete(c, r) ==
  /\ pc[c] = "auth" /\ IsStaff(c)
  /\ ids' = [ids EXCEPT ![r] = 0]
  /\ rows' = {p \in rows : p[2] # r}
  /\ job' = [job EXCEPT ![c] = [NoJob EXCEPT !.room = r]]
  /\ Goto(c, "snapshot")
  /\ UNCHANGED <<made, memory, unrestored, mishaps>>

DeleteSnapshot(c) ==
  /\ pc[c] = "snapshot"
  /\ job' = [job EXCEPT ![c].todo = logged]
  /\ Goto(c, "sweep")
  /\ UNCHANGED <<db, memory, unrestored, mishaps>>

\* Each session loses the room; a KeyError once its set or the session is gone.
Sweep(c, d) ==
  /\ pc[c] = "sweep" /\ d \in job[c].todo
  /\ mine' = [mine EXCEPT ![d] = @ \ {job[c].room}]
  /\ \/ /\ d \in keyed \cap logged
        /\ job' = [job EXCEPT ![c].todo = @ \ {d}]
        /\ UNCHANGED pc
     \/ d \notin keyed \cap logged /\ Finish(c, "drop")
  /\ UNCHANGED <<db, logged, keyed, unrestored, mishaps>>

SweepDone(c) ==
  /\ pc[c] = "sweep" /\ job[c].todo = {}
  /\ Finish(c, "ready")
  /\ UNCHANGED <<db, memory, unrestored, mishaps>>

-----------------------------------------------------------------------------
(* Mishaps *)

\* What a database call that raised leaves to be done: a restoration is given up,
\* _join_room_logic tells CREATE_ROOM nothing, JOIN_ROOM does not catch what its own
\* query raises, the others answer with an error.
SlipAfterError(l) ==
  CASE l = "restore" -> "restored"
    [] l \in {"create", "createJoin"} -> "append"
    [] l = "auth" -> "drop"
    [] OTHER -> "ready"

AfterError(l) ==
  CASE l = "restore" -> "list"
    [] l \in {"create", "createJoin"} -> "append"
    [] l = "auth" -> "drop"
    [] OTHER -> "ready"

DbFails(c) ==
  /\ Goto(c, AfterError(pc[c]))
  /\ job' = [job EXCEPT ![c] = IF pc[c] \in {"create", "createJoin"} THEN @ ELSE NoJob]
  /\ unrestored' = IF pc[c] = "restore" THEN unrestored \cup {c} ELSE unrestored
  /\ UNCHANGED <<db, memory>>

\* INSERT INTO room_members with an id that is gone.
JoinRefused(c) ==
  /\ pc[c] \in {"join", "createJoin", "add"} /\ ~SameRoom(c)
  /\ DbFails(c)
  /\ UNCHANGED mishaps

DbError(c) ==
  /\ mishaps < MaxMishaps
  /\ mishaps' = mishaps + 1
  /\ pc[c] \in {"restore", "auth", "lookup", "join", "create", "createJoin", "add", "fetch",
               "remove"}
  /\ pc[c] = "remove" => job[c].id # 0
  /\ DbFails(c)

\* The process dies and is started again.
Crash ==
  /\ mishaps < MaxMishaps
  /\ mishaps' = mishaps + 1
  /\ logged' = {} /\ keyed' = {} /\ mine' = [c \in Conns |-> {}]
  /\ pc' = [c \in Conns |-> "free"]
  /\ job' = [c \in Conns |-> NoJob]
  /\ unrestored' = {}
  /\ UNCHANGED db

Handler(c) ==
  \/ RestoreRead(c) \/ RestoreSet(c) \/ List(c) \/ BanPop(c)
  \/ JoinFetch(c) \/ JoinDb(c) \/ JoinMemory(c) \/ Append(c)
  \/ AddDb(c) \/ AddFind(c) \/ AddMemory(c)
  \/ KickMember(c) \/ RemoveFetch(c) \/ RemoveDb(c) \/ RemoveMemory(c)
  \/ JoinRefused(c) \/ DbError(c)
  \/ DeleteSnapshot(c) \/ (\E d \in Conns : Sweep(c, d)) \/ SweepDone(c)

Client(c) ==
  \/ Accept(c) \/ Drop(c) \/ Login(c) \/ Authorize(c) \/ Refuse(c) \/ Logout(c)
  \/ \E d \in Conns : BanFind(c, d)
  \/ \E r \in Rooms :
       \/ Join(c, r) \/ Create(c, r) \/ Delete(c, r) \/ Leave(c, r)
       \/ \E u \in Users : Add(c, u, r)
       \/ \E d \in Conns : Kick(c, d, r)

Step == (\E c \in Conns : Handler(c) \/ Client(c)) \/ Crash

\* A pair is raced from the moment that two handlers are at work on it, or one that
\* changes it for a user with two sessions, until none is.  A change of its row is
\* decisive if it is not raced; a race, and a handler that dies at work on the pair,
\* leave it open.
Restoring(c) == pc[c] \in {"restore", "restored"}

Overlap(p) ==
  \/ \E c, d \in Workers(p) : c # d
  \/ (\E c \in Workers(p) : ~Restoring(c)) /\ (\E c, d \in Sessions(p[1]) : c # d)

Track ==
  /\ raced' = {p \in Pairs : Overlap(p)' \/ (p \in raced /\ Workers(p)' # {})}
  /\ claim' = [p \in Pairs |->
       IF p \in raced' \/ \E c \in Workers(p) : pc'[c] \in {"drop", "free"} THEN "open"
       ELSE IF p \in rows' \ rows THEN "in"
       ELSE IF p \in rows \ rows' THEN "out" ELSE claim[p]]

Next == Step /\ Track

Spec == Init /\ [][Next]_vars

-----------------------------------------------------------------------------
(* Properties *)

\* A membership that one handler alone decided holds until the next decision, in
\* the table and for every session of the user, whatever goes on about other users
\* and rooms, whichever database call fails, across logouts, dropped connections,
\* rooms deleted and created anew, and restarts.  (The rooms of a session are not
\* those of the table when the restoration itself failed.)
Durable ==
  \A p \in Pairs :
    claim[p] # "open" /\ Workers(p) = {} =>
      /\ p \in rows <=> claim[p] = "in"
      /\ \A c \in Sessions(p[1]) \ unrestored : p[2] \in mine[c] <=> claim[p] = "in"

\* Memberships are in existing rooms, whatever was deleted between two calls.
RowsHaveRooms == \A p \in rows : ids[p[2]] # 0

\* Only a login that is under way, or a handler about to end, leaves a session
\* without its set of rooms, on which other handlers fail; and a connection that
\* is gone leaves no set behind, although LOGIN and LOGOUT put one back.
SetsAndSessions ==
  \A c \in Conns :
    /\ c \in logged \ keyed => pc[c] \in {"restore", "restored", "list", "drop"}
    /\ pc[c] = "free" => c \notin logged \cup keyed

\* The requests that have read the id of their room and not yet used it.
Entering(c) == pc[c] \in {"join", "createJoin", "add"}
Asked(c) ==
  [to   |-> IF Entering(c) THEN "enter" ELSE IF pc[c] = "remove" THEN "leave" ELSE "none",
   user |-> IF Entering(c) \/ pc[c] = "remove" THEN job[c].who ELSE NoUser,
   room |-> IF Entering(c) \/ pc[c] = "remove" THEN job[c].id ELSE 0]

\* A request joins or leaves the room that it looked up and no later one of that name, a
\* room created anew has none of the former members, and no membership outlives its room.
Tables ==
  INSTANCE Roster WITH
    Clients <- Conns,
    rooms   <- {ids[r] : r \in Rooms} \ {0},
    members <- {<<p[1], ids[p[2]]>> : p \in rows},
    issued  <- made,
    asked   <- [c \in Conns |-> Asked(c)]

IsRoster == Tables!Spec

=============================================================================

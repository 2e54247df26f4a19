------------------------------ MODULE RoomFeed ------------------------------
(***************************************************************************)
(* The feed of one room (src/server/socket_server.py): messages are stored *)
(* and broadcast by the handler of their sender, histories are read from   *)
(* the table and sent by the handler of whoever joins, selects the room or *)
(* adds a user to it, while members come and go.  Each step is one region  *)
(* under self.lock, one database call or one send.                         *)
(*                                                                         *)
(* A client reads everything it is sent, in order, so what the client      *)
(* shows (client/gui/chat_room.py) changes here with the send itself.      *)
(* A connection stands for the user logged in on it.                       *)
(***************************************************************************)
EXTENDS Naturals, Sequences, FiniteSets

CONSTANTS
  Conns,      \* connections
  Staff,      \* those of administrators and moderators
  MaxMsgs,    \* bound on the number of messages
  HistLimit,  \* LIMIT of the history query
  DbFaults,   \* whether a database call may raise DatabaseError
  NoConn

ASSUME RoomFeedAssumption ==
  /\ Staff \subseteq Conns /\ NoConn \notin Conns
  /\ MaxMsgs \in Nat /\ HistLimit \in Nat /\ DbFaults \in BOOLEAN

VARIABLES
  online,     \* connections with a session
  members,    \* those whose self.client_rooms entry has the room
  persisted,  \* users with a row in room_members
  stored,     \* the room's rows in messages, in the order of the query
  sent,       \* number of messages so far; a message is its number
  pc,         \* control point of each handler, and its locals:
  msg,        \*   the message it broadcasts,
  todo,       \*   the sessions it has still to visit,
  to,         \*   the addressee,
  hist,       \*   the history read for the addressee
  heard,      \* by connection, the messages received live or in a history
  view,       \* by connection, room_chat_histories[room] of the client
  fresh,      \* handlers whose addressee was a member when the history was
              \* read, and has been one since
  caught      \* members that were sent such a history

rooms  == <<online, members, persisted>>
job    == <<msg, todo, to, hist>>
client == <<heard, view, caught>>
vars   == <<rooms, stored, sent, pc, job, client, fresh>>

Labels == {"idle", "restore", "restored", "join", "joined", "fetch", "send",
           "leave", "left", "member", "store", "snapshot", "visit", "deliver"}

\* The types; that only sessions are members, and only members were sent a history
\* that counts, is part of them.
TypeOK ==
  /\ online \subseteq Conns /\ members \subseteq online
  /\ persisted \subseteq Conns
  /\ stored \in Seq(Nat) /\ sent \in Nat
  /\ pc \in [Conns -> Labels]
  /\ msg \in [Conns -> Nat]
  /\ todo \in [Conns -> SUBSET Conns]
  /\ to \in [Conns -> Conns \cup {NoConn}]
  /\ hist \in [Conns -> Seq(Nat)]
  /\ heard \in [Conns -> SUBSET Nat]
  /\ view \in [Conns -> Seq(Nat)]
  /\ fresh \subseteq Conns /\ caught \subseteq members

Init ==
  /\ online = {} /\ members = {} /\ persisted = {}
  /\ stored = <<>> /\ sent = 0
  /\ pc = [c \in Conns |-> "idle"]
  /\ msg = [c \in Conns |-> 0]
  /\ todo = [c \in Conns |-> {}]
  /\ to = [c \in Conns |-> NoConn]
  /\ hist = [c \in Conns |-> <<>>]
  /\ heard = [c \in Conns |-> {}]
  /\ view = [c \in Conns |-> <<>>]
  /\ fresh = {} /\ caught = {}

-----------------------------------------------------------------------------

Goto(c, l) == pc' = [pc EXCEPT ![c] = l]

\* The handler is done with the packet, and its locals go.
Finish(c) ==
  /\ Goto(c, "idle")
  /\ msg' = [msg EXCEPT ![c] = 0]
  /\ to' = [to EXCEPT ![c] = NoConn]
  /\ hist' = [hist EXCEPT ![c] = <<>>]
  /\ UNCHANGED todo

Elements(s) == {s[i] : i \in DOMAIN s}

\* ORDER BY sent_at ASC LIMIT 50: the oldest rows.
SlipHistory == [i \in DOMAIN stored |-> stored[Len(stored) + 1 - i]]
History == SubSeq(stored, 1, IF Len(stored) < HistLimit THEN Len(stored) ELSE HistLimit)

\* d is no longer a member: a history read before does not count any more.
Depart(d) ==
  /\ members' = members \ {d}
  /\ caught' = caught \ {d}
  /\ fresh' = {c \in fresh : to[c] # d}

-----------------------------------------------------------------------------
(* Coming and going *)

\* LOGIN registers the session, then restores the persisted rooms.  After a
\* LOGOUT it may be on the same connection, where what was on its way arrives.
Login(c) ==
  /\ pc[c] = "idle" /\ c \notin online
  /\ online' = online \cup {c}
  /\ heard' = [heard EXCEPT ![c] = {}]
  /\ view' = [view EXCEPT ![c] = <<>>]
  /\ Goto(c, "restore")
  /\ UNCHANGED <<members, persisted, stored, sent, job, caught, fresh>>

\* _restore_persisted_rooms reads the user's rooms, every room for the staff,
\* and sets the entry of self.client_rooms later.
Restore(c) ==
  /\ pc[c] = "restore"
  /\ \/ c \in persisted \cup Staff /\ Goto(c, "restored")
     \/ c \notin persisted \cup Staff /\ Goto(c, "left")
     \/ DbFaults /\ Goto(c, "idle")
  /\ UNCHANGED <<rooms, stored, sent, job, client, fresh>>

Restored(c) ==
  /\ pc[c] = "restored"
  /\ members' = members \cup ({c} \cap online)
  /\ Goto(c, "idle")
  /\ UNCHANGED <<online, persisted, stored, sent, job, client, fresh>>

\* LOGOUT, the end of the connection, or another handler that bans the user
\* and drops the connection while its own handler is still at work.
Exit(c) ==
  /\ c \in online
  /\ online' = online \ {c}
  /\ Depart(c)
  /\ UNCHANGED <<persisted, stored, sent, pc, job, heard, view>>

-----------------------------------------------------------------------------
(* JOIN_ROOM, ADD_USER_TO_ROOM, GET_ROOM_HISTORY, LEAVE_ROOM, KICK_USER.  A   *)
(* handler acts for itself or, that of a staff member, for another one.       *)

Ready(c)   == pc[c] = "idle" /\ c \in online
MayActFor(c, d) == d = c \/ c \in Staff

Request(c, d, l) ==
  /\ Ready(c) /\ MayActFor(c, d)
  /\ to' = [to EXCEPT ![c] = d]
  /\ Goto(c, l)
  /\ UNCHANGED <<rooms, stored, sent, msg, todo, hist, client, fresh>>

\* INSERT OR IGNORE INTO room_members.
Join(c, d) == Request(c, d, "join")

JoinDb(c) ==
  /\ pc[c] = "join"
  /\ \/ persisted' = persisted \cup {to[c]} /\ Goto(c, "joined") /\ UNCHANGED job
     \/ DbFaults /\ Finish(c) /\ UNCHANGED persisted
  /\ UNCHANGED <<online, members, stored, sent, client, fresh>>

\* The room is added to the entry of a connection that is still there.  If it is not,
\* JOIN_ROOM ends with a KeyError; ADD_USER_TO_ROOM ends too if it found nobody online,
\* and goes on if he went after that.  (What is sent to one that is gone is lost;
\* Sessions has what this does to the sender's handler.)
JoinMemory(c) ==
  /\ pc[c] = "joined"
  /\ members' = members \cup ({to[c]} \cap online)
  /\ \/ Goto(c, "fetch") /\ UNCHANGED job
     \/ to[c] \notin online /\ Finish(c)
  /\ UNCHANGED <<online, persisted, stored, sent, client, fresh>>

Select(c) ==
  /\ c \in members
  /\ Request(c, c, "fetch")

\* The client empties what it shows of the room, and shows the history.
SlipRedrawn(c) == view[to[c]] \o hist[c]
Redrawn(c)     == hist[c]

\* _send_room_history reads the rows ...
Fetch(c) ==
  /\ pc[c] = "fetch"
  /\ \/ /\ hist' = [hist EXCEPT ![c] = History]
        /\ fresh' = IF to[c] \in members THEN fresh \cup {c} ELSE fresh
        /\ Goto(c, "send")
        /\ UNCHANGED <<msg, todo, to>>
     \/ DbFaults /\ Finish(c) /\ UNCHANGED fresh
  /\ UNCHANGED <<rooms, stored, sent, client>>

\* ... and sends them; HISTORY replaces what the client shows for the room.
SendHistory(c) ==
  /\ pc[c] = "send"
  /\ heard' = [heard EXCEPT ![to[c]] = @ \cup Elements(hist[c])]
  /\ view' = [view EXCEPT ![to[c]] = Redrawn(c)]
  /\ caught' = IF c \in fresh THEN caught \cup {to[c]} ELSE caught
  /\ fresh' = fresh \ {c}
  /\ Finish(c)
  /\ UNCHANGED <<rooms, stored, sent>>

\* LEAVE_ROOM and KICK_USER ask for a member, delete his row and then discard
\* the room from the entry.
Leave(c, d) ==
  /\ d \in members
  /\ Request(c, d, "leave")

LeaveDb(c) ==
  /\ pc[c] = "leave"
  /\ \/ persisted' = persisted \ {to[c]} /\ Goto(c, "left") /\ UNCHANGED job
     \/ DbFaults /\ Finish(c) /\ UNCHANGED persisted
  /\ UNCHANGED <<online, members, stored, sent, client, fresh>>

\* Also the end of a restoration that found no row, which sets the entry anew.
LeaveMemory(c) ==
  /\ pc[c] = "left"
  /\ Depart(IF to[c] = NoConn THEN c ELSE to[c])
  /\ Finish(c)
  /\ UNCHANGED <<online, persisted, stored, sent, heard, view>>

-----------------------------------------------------------------------------
(* MSG: member? store, take the sessions, and for each of them look at its     *)
(* rooms and socket and send.  A muted user's message is refused, which is the *)
(* same here as not sending it.  (The notices of KICK_USER and                *)
(* ADD_USER_TO_ROOM are broadcast too, and never stored.)                     *)

Msg(c) ==
  /\ Ready(c)
  /\ sent < MaxMsgs
  /\ sent' = sent + 1
  /\ msg' = [msg EXCEPT ![c] = sent + 1]
  /\ Goto(c, "member")
  /\ UNCHANGED <<rooms, stored, todo, to, hist, client, fresh>>

MsgMember(c) ==
  /\ pc[c] = "member"
  /\ \/ c \in members /\ Goto(c, "store") /\ UNCHANGED job
     \/ c \notin members /\ Finish(c)
  /\ UNCHANGED <<rooms, stored, sent, client, fresh>>

\* The content column of the new row.
SlipRow(c) == c
Row(c)     == msg[c]

\* A message that cannot be stored is broadcast all the same.
MsgStore(c) ==
  /\ pc[c] = "store"
  /\ \/ stored' = Append(stored, Row(c))
     \/ DbFaults /\ UNCHANGED stored
  /\ Goto(c, "snapshot")
  /\ UNCHANGED <<rooms, sent, job, client, fresh>>

\* The sessions, the sender's own too, in the order of the dict or any other.
SlipRecipients(c) == online \ {c}
Recipients(c)     == online

MsgSnapshot(c) ==
  /\ pc[c] = "snapshot"
  /\ todo' = [todo EXCEPT ![c] = Recipients(c)]
  /\ Goto(c, "visit")
  /\ UNCHANGED <<rooms, stored, sent, msg, to, hist, client, fresh>>

MsgVisit(c, d) ==
  /\ pc[c] = "visit" /\ d \in todo[c]
  /\ todo' = [todo EXCEPT ![c] = @ \ {d}]
  /\ IF d \in members
     THEN to' = [to EXCEPT ![c] = d] /\ Goto(c, "deliver")
     ELSE UNCHANGED <<to, pc>>
  /\ UNCHANGED <<rooms, stored, sent, msg, hist, client, fresh>>

\* The client appends a MSG to what it shows for the room.
MsgDeliver(c) ==
  /\ pc[c] = "deliver"
  /\ heard' = [heard EXCEPT ![to[c]] = @ \cup {msg[c]}]
  /\ view' = [view EXCEPT ![to[c]] = Append(@, msg[c])]
  /\ to' = [to EXCEPT ![c] = NoConn]
  /\ Goto(c, "visit")
  /\ UNCHANGED <<rooms, stored, sent, msg, todo, hist, caught, fresh>>

MsgDone(c) ==
  /\ pc[c] = "visit" /\ todo[c] = {}
  /\ Finish(c)
  /\ UNCHANGED <<rooms, stored, sent, client, fresh>>

-----------------------------------------------------------------------------

Handler(c) ==
  \/ Restore(c) \/ Restored(c) \/ JoinDb(c) \/ JoinMemory(c) \/ Fetch(c)
  \/ SendHistory(c) \/ LeaveDb(c) \/ LeaveMemory(c) \/ MsgMember(c)
  \/ MsgStore(c) \/ MsgSnapshot(c) \/ (\E d \in Conns : MsgVisit(c, d))
  \/ MsgDeliver(c) \/ MsgDone(c)

Client(c) ==
  \/ Login(c) \/ Exit(c) \/ Select(c) \/ Msg(c)
  \/ \E d \in Conns : Join(c, d) \/ Leave(c, d)

Next == \E c \in Conns : Handler(c) \/ Client(c)

Spec == Init /\ [][Next]_vars

-----------------------------------------------------------------------------
(* Properties *)

\* Message m was stored by a handler that has still to look at connection d or
\* to send to it.
Pending(m, d) ==
  \E c \in Conns :
    /\ msg[c] = m
    /\ \/ pc[c] = "snapshot"
       \/ pc[c] \in {"visit", "deliver"} /\ d \in todo[c]
       \/ pc[c] = "deliver" /\ to[c] = d

\* A member who was sent a history since he joined misses no message of the
\* room, whatever join, history, broadcast and departures overlap: it was in a
\* history, or came live, or is on its way.  (Of more messages than a history
\* holds, this is said of the oldest.)
NoMessageGap ==
  \A d \in caught : \A i \in DOMAIN stored :
    i <= HistLimit => stored[i] \in heard[d] \/ Pending(stored[i], d)

\* A client shows a message at most twice: in a history that was read before the
\* broadcast reached it, and live after it, whatever else it joins or selects.  (It
\* may show it not at all, when that history was read before the message was stored
\* and is sent after the message.)
ShownAtMostTwice ==
  \A d \in Conns, m \in 1 .. sent : Cardinality({i \in DOMAIN view[d] : view[d][i] = m}) <= 2

\* The connections that may still get the message of handler c live.
Due(c) ==
  CASE pc[c] = "visit"   -> todo[c]
    [] pc[c] = "deliver" -> todo[c] \cup {to[c]}
    [] pc[c] \in {"member", "store", "snapshot"} -> Conns
    [] OTHER -> {}

\* The table and the broadcasts are a log: a row is added for a message before anybody
\* has it, and for no other; a client shows a beginning of the table, as it was when it
\* was read, and then what came live, each message once.
Room ==
  INSTANCE RoomLog WITH
    Clients   <- Conns,
    MaxReplay <- HistLimit,
    issued    <- sent,
    log       <- stored,
    message   <- msg,
    due       <- [c \in Conns |-> Due(c)],
    shown     <- view
IsRoomLog == Room!Spec

=============================================================================

------------------------------- MODULE Clients -------------------------------
(***************************************************************************)
(* The two client programs, one of them on one connection, and a server    *)
(* whose other handlers change the rooms of its user.  The window program  *)
(* (src/client/gui) has a login window and a chat window; one thread runs  *)
(* the clicks and the dispatcher of received packets, a timer.  A dialog   *)
(* that a click opens runs an event loop of its own, in which the timer    *)
(* goes on dispatching; one that the dispatcher opens stops it until it is *)
(* closed.  The dispatcher that finds LOGOUT_RESP goes on until the queue  *)
(* is empty, with the login window shown already; then its window is       *)
(* destroyed.  The console (src/client/main.py) has a printer thread for   *)
(* the packets and a thread for the input.                                 *)
(*                                                                         *)
(* The packets of each direction arrive in order (Framing).  A handler     *)
(* changes the rooms of the connection first and sends its notice later:   *)
(* `owed' holds what is still to be sent, in the order of the changes, and *)
(* any handler may be next.  An answer that goes with no change is sent at *)
(* once.  The tables of the server are in Rooms: here any request may be   *)
(* refused.  Rooms are numbered in the order of their names, in which the  *)
(* window lists them.  The connection is not lost (SocketClient), and the  *)
(* requests that change nothing here are left out: messages and histories  *)
(* (RoomFeed, PrivateMessages), lists of users, the other commands of the  *)
(* staff.                                                                  *)
(***************************************************************************)
EXTENDS Naturals, Sequences, FiniteSets

CONSTANTS
  Rooms, General, NoRoom,
  Saved,    \* the sets of rooms that a login may restore
  MaxActs,  \* bound on the number of requests of the user of each program
  MaxNews   \* bound on the number of changes by other users

ASSUME ClientsAssumption ==
  /\ Rooms \subseteq Nat /\ General \in Rooms /\ NoRoom \notin Rooms
  /\ \A M \in Saved : M \subseteq Rooms /\ General \in M
  /\ MaxActs \in [{"gui", "console"} -> Nat] /\ MaxNews \in Nat

VARIABLES
  program,  \* which program this is; it never changes
  session,  \* whether the server has a session for the connection
  member,   \* self.client_rooms of the connection
  up,       \* requests that the server has still to handle
  owed,     \* packets that handlers have still to send
  down,     \* packets that the program has still to dispatch
  window,   \* the window shown; "leaving" while a chat window that was logged out still
            \* dispatches behind the login window; the console is always at "chat"
  joined, current,  \* joined_rooms and current_room
  pending,  \* where a user waits to be added to a room: _pending_add_to_room_target
            \* of the window, pending_add_username of the dashboard
  reader,   \* the dialog in which the dispatcher waits, or the printer's control point
  hand,     \* the packet that the printer is handling
  user,     \* the dialog that the user has opened, or the input's control point
  shown,    \* the room named by that dialog, or by the prompt
  moved,    \* history: whether a packet has taken that room since, or has moved the
            \* console to another
  raced,    \* history: rooms whose last notice is not that of their last change
  refused,  \* history: lists of rooms refused since the chat window was opened
  acts, news   \* numbers of requests and of changes so far

server  == <<session, member, owed, raced, refused>>
view    == <<window, joined, current>>
dialogs == <<pending, reader, hand>>
input   == <<user, shown, moved>>
vars    == <<program, server, up, down, view, dialogs, input, acts, news>>

Requests == {"LOGIN", "LOGOUT", "GET_ROOMS_LIST", "JOIN_ROOM", "LEAVE_ROOM", "MSG",
             "KICK_USER", "ADD_USER_TO_ROOM"}
Roomless == {"LOGIN", "LOGOUT", "GET_ROOMS_LIST", "ADD_USER_TO_ROOM"}
Request  == [type : Roomless, room : {NoRoom}] \cup [type : Requests \ Roomless, room : Rooms]

\* Both programs handle KICKED, LEAVE_ROOM_RESP and DELETE_ROOM_RESP alike: "takes".  So
\* they do JOIN_ROOM_RESP and CREATE_ROOM_RESP: "gives".
Packets == {"LOGIN_RESP", "LOGOUT_RESP", "ROOMS_STATUS", "ROOMS_LIST_RESP", "ERROR",
            "gives", "takes"}
Packet  == [type : Packets, rooms : SUBSET Rooms]

\* own: sent by the handler of this connection, which is busy until then.  late: rooms
\* of which a later change has been notified already.
Owed == [type : Packets, rooms : SUBSET Rooms, own : BOOLEAN, late : SUBSET Rooms]

\* The types of both sides.  Dialogs belong to a chat window, that may be leaving, and the
\* console has none; a user waits for the dashboard only while it is open.
TypeOK ==
  /\ program \in {"gui", "console"}
  /\ session \in BOOLEAN /\ member \subseteq Rooms
  /\ up \in Seq(Request)
  /\ owed \in Seq(Owed) /\ down \in Seq(Packet)
  /\ window \in {"login", "chat", "leaving", "gone"}
  /\ joined \subseteq Rooms /\ current \in Rooms
  /\ pending \subseteq {"window", "dashboard"}
  /\ reader \in IF program = "gui" THEN {"free", "error", "join", "add"}
                                   ELSE {"free", "move"}
  /\ hand \in Packet
  /\ user \in IF program = "gui" THEN {"free", "leave", "menu", "logout", "dashboard"}
                                 ELSE {"typing", "select"}
  /\ shown \in Rooms
  /\ window # "chat" => program = "gui"
  /\ window \in {"login", "gone"} => reader = "free" /\ user = "free"
  /\ "dashboard" \in pending => user = "dashboard"
  /\ moved \in BOOLEAN /\ raced \subseteq Rooms /\ refused \in Nat
  /\ acts \in Nat /\ news \in Nat

Plain(t) == [type |-> t, rooms |-> {}]
NoPacket == Plain("ERROR")

Init ==
  /\ program \in {"gui", "console"}
  /\ session = FALSE /\ member = {General}
  /\ up = <<>> /\ owed = <<>> /\ down = <<>>
  /\ window = IF program = "gui" THEN "login" ELSE "chat"
  /\ joined = {General} /\ current = General
  /\ pending = {} /\ reader = "free" /\ hand = NoPacket
  /\ user = (IF program = "gui" THEN "free" ELSE "typing")
  /\ shown = General /\ moved = FALSE /\ raced = {} /\ refused = 0
  /\ acts = 0 /\ news = 0

-----------------------------------------------------------------------------
(* The server *)

Answer(t, R) == [type |-> t, rooms |-> R, own |-> TRUE, late |-> {}]
Notice(t, r) == [type |-> t, rooms |-> {r}, own |-> FALSE, late |-> {}]

\* ROOMS_STATUS tells of every room.
Covers(p) == IF p.type = "ROOMS_STATUS" THEN Rooms ELSE p.rooms

\* A packet that tells of the rooms R is sent before those of q, whose changes came first.
Outdated(q, R) == [i \in DOMAIN q |-> [q[i] EXCEPT !.late = @ \cup (Covers(q[i]) \cap R)]]

Busy == \E i \in DOMAIN owed : owed[i].own

\* One of the handlers sends its packet.  After that of LOGIN the rooms are read for
\* ROOMS_STATUS; an empty list will be ignored.
Send(i) ==
  LET p == owed[i]
      q == Outdated(SubSeq(owed, 1, i - 1), Covers(p)) \o SubSeq(owed, i + 1, Len(owed))
  IN
  /\ down' = Append(down, [type |-> p.type, rooms |-> p.rooms])
  /\ owed' = IF p.type = "LOGIN_RESP" THEN Append(q, Answer("ROOMS_STATUS", member)) ELSE q
  /\ raced' = IF p.type = "ROOMS_STATUS" /\ p.rooms = {} THEN Rooms
              ELSE (raced \ Covers(p)) \cup p.late
  /\ UNCHANGED <<program, session, member, up, refused, view, dialogs, input, acts, news>>

\* CREATE_ROOM adds the room for a member of the staff, and sends the notice, while it
\* holds the lock.
Appended(r) ==
  /\ member' = member \cup {r}
  /\ down' = Append(down, [type |-> "gives", rooms |-> {r}])
  /\ owed' = Outdated(owed, {r}) /\ raced' = raced \ {r}

Changed(M, p) == member' = M /\ owed' = Append(owed, p) /\ UNCHANGED <<raced, down>>
Told(t)       == down' = Append(down, Plain(t)) /\ UNCHANGED <<member, owed, raced>>
Kept          == UNCHANGED <<member, owed, raced, down>>

Granted(q) ==
  LET r == q.room IN
  \/ q.type = "LOGIN" /\ \E M \in Saved : Changed(M, Answer("LOGIN_RESP", {}))
  \/ q.type = "LOGOUT" /\ Changed({}, Answer("LOGOUT_RESP", {}))
  \/ q.type = "GET_ROOMS_LIST" /\ Told("ROOMS_LIST_RESP")
  \/ q.type = "JOIN_ROOM" /\ Changed(member \cup {r}, Answer("gives", {r}))
  \/ /\ q.type = "LEAVE_ROOM" /\ r \in member \ {General}
     /\ Changed(member \ {r}, Answer("takes", {r}))
  \/ q.type \in {"MSG", "KICK_USER", "ADD_USER_TO_ROOM"} /\ Kept

\* An error of the database refuses also a list of rooms.
Refusable == Requests \ {"LOGIN", "LOGOUT"}

\* The handler of the connection takes the next request.
Serve ==
  /\ up # <<>> /\ ~Busy /\ up' = Tail(up)
  /\ LET q == Head(up) IN
     /\ \/ (session \/ q.type = "LOGIN") /\ Granted(q) /\ UNCHANGED refused
        \/ /\ (~session \/ q.type \in Refusable) /\ q.type # "LOGIN" /\ Told("ERROR")
           /\ refused' = IF q.type = "GET_ROOMS_LIST" THEN refused + 1 ELSE refused
     /\ session' = (q.type = "LOGIN" \/ (session /\ q.type # "LOGOUT"))
  /\ UNCHANGED <<program, view, dialogs, input, acts, news>>

\* Another user, of the staff, changes the rooms of this one: KICK_USER and DELETE_ROOM,
\* ADD_USER_TO_ROOM, CREATE_ROOM.
Other(r) ==
  /\ session /\ news < MaxNews /\ news' = news + 1
  /\ \/ r \in member /\ Changed(member \ {r}, Notice("takes", r))
     \/ Changed(member \cup {r}, Notice("gives", r))
     \/ r # General /\ Appended(r)
  /\ UNCHANGED <<program, session, up, refused, view, dialogs, input, acts>>

-----------------------------------------------------------------------------
(* The dispatcher of the windows and the printer of the console *)

Show(s, r) == user' = s /\ shown' = r /\ moved' = FALSE
Hide       == Show("free", General)
Prompt(r)  == Show("typing", r)

First(S) == {r \in S : \A s \in S : r <= s}

\* What a packet makes of joined_rooms.
SlipJoinedAfter(p) == CASE p.type = "gives" -> joined \cup p.rooms
                        [] p.type = "takes" /\ current \in p.rooms -> joined \ p.rooms
                        [] p.type = "ROOMS_STATUS" /\ p.rooms # {} -> p.rooms
                        [] OTHER -> joined
JoinedAfter(p) == CASE p.type = "gives" -> joined \cup p.rooms
                    [] p.type = "takes" -> joined \ p.rooms
                    [] p.type = "ROOMS_STATUS" /\ p.rooms # {} -> p.rooms
                    [] p.type = "LOGOUT_RESP" /\ program = "console" -> {General}
                    [] OTHER -> joined

\* Having lost the current room, the window goes to the first of its list.
SlipFallback(p) == IF p.type = "takes" /\ JoinedAfter(p) # {}
                     THEN First(JoinedAfter(p)) ELSE {current}
Fallback(p) == IF p.type = "takes" /\ current \in p.rooms /\ JoinedAfter(p) # {}
                 THEN First(JoinedAfter(p)) ELSE {current}

\* The console goes to a room that it is given, and to General when it loses its own.
Move(p) == CASE p.type = "gives" -> p.rooms
             [] p.type = "ROOMS_STATUS" /\ p.rooms # {} ->
                  IF General \in p.rooms THEN {General} ELSE p.rooms
             [] p.type = "LOGOUT_RESP" \/ (p.type = "takes" /\ current \in p.rooms) -> {General}
             [] OTHER -> {current}

\* A packet takes the room that is shown, or moves the console.
Overtaken(p) ==
  \/ user \in {"leave", "menu", "typing"} /\ p.type = "takes" /\ shown \in p.rooms
  \/ user = "typing" /\ p.type \in {"gives", "ROOMS_STATUS", "LOGOUT_RESP"}

\* The login window waits for LOGIN_RESP, to open a new chat window, and drops the rest.
\* While a dispatcher is leaving, its timer runs only in a dialog of that one (and finds
\* no LOGIN_RESP, as nobody can sign in then).
SwitchToChat ==
  /\ program = "gui" /\ (window = "login" \/ (window = "leaving" /\ reader # "free"))
  /\ down # <<>> /\ down' = Tail(down)
  /\ IF Head(down).type = "LOGIN_RESP"
       THEN /\ window' = "chat" /\ joined' = {General} /\ current' = General
            /\ pending' = {} /\ refused' = 0 /\ Hide
       ELSE UNCHANGED <<view, pending, refused, input>>
  /\ UNCHANGED <<program, session, member, up, owed, raced, reader, hand, acts, news>>

\* ROOMS_LIST_RESP opens the dialog of the one who waits: the dashboard, if it is open,
\* then the window; else that of joining.  It waits no longer.
SlipStillPending == pending
StillPending     == IF "dashboard" \in pending THEN pending \ {"dashboard"} ELSE {}

\* LOGOUT_RESP shows the login window.
SlipSwitchToLogin ==
  /\ window' = IF user = "free" THEN "leaving" ELSE window
  /\ UNCHANGED <<joined, current, pending, reader, input>>
SwitchToLogin ==
  /\ window' = "leaving" /\ UNCHANGED <<joined, current, pending, reader, input>>

Shows(p) ==
  /\ joined' = JoinedAfter(p) /\ current' \in Fallback(p)
  /\ moved' = (moved \/ Overtaken(p))
  /\ IF p.type = "ROOMS_LIST_RESP"
       THEN pending' = StillPending /\ reader' = IF pending = {} THEN "join" ELSE "add"
       ELSE UNCHANGED pending /\ reader' = IF p.type = "ERROR" THEN "error" ELSE "free"
  /\ UNCHANGED <<window, user, shown>>

Dispatch ==
  /\ program = "gui" /\ window \in {"chat", "leaving"} /\ reader = "free"
  /\ down # <<>> /\ down' = Tail(down)
  /\ IF Head(down).type = "LOGOUT_RESP" THEN SwitchToLogin ELSE Shows(Head(down))
  /\ UNCHANGED <<program, server, up, hand, acts, news>>

\* When the dispatcher has returned, the chat window is destroyed.  Should a dialog of the
\* user be open, in whose event loop the dispatcher ran, the program may end there.
Destroy ==
  /\ window = "leaving" /\ reader = "free" /\ down = <<>>
  /\ window' \in IF user = "free" THEN {"login"} ELSE {"login", "gone"}
  /\ Hide /\ pending' = {} /\ joined' = {General} /\ current' = General
  /\ UNCHANGED <<program, server, up, down, reader, hand, acts, news>>

\* The printer changes joined_rooms, then current_room.
PrintJoined ==
  /\ program = "console" /\ reader = "free" /\ down # <<>> /\ down' = Tail(down)
  /\ hand' = Head(down) /\ reader' = "move" /\ joined' = JoinedAfter(hand')
  /\ UNCHANGED <<program, server, up, window, current, pending, input, acts, news>>

PrintMove ==
  /\ program = "console" /\ reader = "move" /\ reader' = "free" /\ hand' = NoPacket
  /\ current' \in Move(hand) /\ moved' = (moved \/ Overtaken(hand))
  /\ UNCHANGED <<program, server, up, down, window, joined, pending, user, shown, acts, news>>

-----------------------------------------------------------------------------
(* The user *)

Post(t, r) == /\ acts < MaxActs[program] /\ acts' = acts + 1
              /\ up' = Append(up, [type |-> t, room |-> r])
Silent     == UNCHANGED <<up, acts>>
Chatting   == program = "gui" /\ window = "chat" /\ reader = "free"

\* The login window, and the commands of the console that name what they are about.
Enter ==
  /\ \/ program = "gui" /\ window = "login" /\ Post("LOGIN", NoRoom) /\ Hide
     \/ /\ program = "console" /\ user = "typing" /\ Prompt(current)
        /\ \/ \E t \in {"LOGIN", "LOGOUT"} : Post(t, NoRoom)
           \/ \E r \in Rooms \ {General} : Post("JOIN_ROOM", r) \/ Post("LEAVE_ROOM", r)
  /\ UNCHANGED <<program, server, down, view, dialogs, news>>

\* A line of text goes to the room that is current by now.  Every command ends with a
\* new prompt.
Type ==
  /\ program = "console" /\ user = "typing" /\ Post("MSG", current) /\ Prompt(current)
  /\ UNCHANGED <<program, server, down, view, dialogs, news>>

\* /select checks joined_rooms, then changes current_room.
SelectCheck(r) ==
  /\ program = "console" /\ user = "typing" /\ r \in joined /\ Show("select", r)
  /\ UNCHANGED <<program, server, up, down, view, dialogs, acts, news>>

SelectSet ==
  /\ program = "console" /\ user = "select" /\ current' = shown /\ Prompt(shown)
  /\ UNCHANGED <<program, server, up, down, window, joined, dialogs, acts, news>>

\* A click on a room of the list.
ClickRoom(r) ==
  /\ Chatting /\ user = "free" /\ r \in joined \ {current} /\ current' = r
  /\ UNCHANGED <<program, server, up, down, window, joined, dialogs, input, acts, news>>

\* The button Join, which forgets the user who waits; the dashboard and the question
\* before logging out; the menu of another user and the question before leaving, which
\* name the current room.
ClickButton ==
  /\ Chatting /\ user = "free"
  /\ \/ Post("GET_ROOMS_LIST", NoRoom) /\ pending' = pending \ {"window"} /\ UNCHANGED input
     \/ /\ Silent /\ UNCHANGED pending
        /\ \/ Show("dashboard", General) \/ Show("logout", General)
           \/ Show("menu", current) \/ (current # General /\ Show("leave", current))
  /\ UNCHANGED <<program, server, down, view, reader, hand, news>>

SlipDismissed == pending
Dismissed     == pending \ {"dashboard"}

\* The answers, or none: leaving and kicking take the room that is current by now.
Reply ==
  /\ Chatting /\ user # "free" /\ Hide
  /\ \/ Silent /\ pending' = Dismissed
     \/ user = "leave" /\ Post("LEAVE_ROOM", current) /\ UNCHANGED pending
     \/ user = "logout" /\ Post("LOGOUT", NoRoom) /\ UNCHANGED pending
     \/ user = "menu" /\ Post("KICK_USER", current) /\ UNCHANGED pending
     \/ user = "menu" /\ Post("GET_ROOMS_LIST", NoRoom) /\ pending' = pending \cup {"window"}
  /\ UNCHANGED <<program, server, down, view, reader, hand, news>>

\* Add to Room, in the dashboard.
Dashboard ==
  /\ Chatting /\ user = "dashboard"
  /\ Post("GET_ROOMS_LIST", NoRoom) /\ pending' = pending \cup {"dashboard"}
  /\ UNCHANGED <<program, server, down, view, reader, hand, input, news>>

\* The dialogs that the dispatcher opens are closed, or a room is chosen in them.
Close ==
  /\ program = "gui" /\ reader # "free" /\ reader' = "free"
  /\ \/ Silent
     \/ reader = "join" /\ \E r \in Rooms \ joined : Post("JOIN_ROOM", r)
     \/ reader = "add" /\ Post("ADD_USER_TO_ROOM", NoRoom)
  /\ UNCHANGED <<program, server, down, view, pending, hand, input, news>>

Next ==
  \/ Serve \/ SwitchToChat \/ Dispatch \/ Destroy \/ PrintJoined \/ PrintMove
  \/ Enter \/ Type \/ SelectSet \/ ClickButton \/ Reply \/ Dashboard \/ Close
  \/ \E i \in DOMAIN owed : Send(i)
  \/ \E r \in Rooms : Other(r) \/ SelectCheck(r) \/ ClickRoom(r)

Spec == Init /\ [][Next]_vars

\* The handlers and the timer go on, and the user closes the boxes that hold the timer up.
FairSpec == Spec /\ WF_vars(Serve) /\ WF_vars(\E i \in DOMAIN owed : Send(i))
                 /\ WF_vars(Dispatch) /\ WF_vars(Destroy) /\ WF_vars(Close)

-----------------------------------------------------------------------------
(* Properties *)

Quiet == down = <<>> /\ owed = <<>> /\ reader = "free"

\* When nothing is on its way, the program lists the rooms that the server has for its
\* connection, but those whose last two notices were sent in another order than their
\* changes were made.
RoomsMirrored ==
  session /\ window = "chat" /\ Quiet =>
    \A r \in Rooms \ raced : r \in joined <=> r \in member

\* A request that the user makes of the room named by his dialog, or prompt.
RightRoom ==
  \A r \in Rooms, t \in {"MSG", "LEAVE_ROOM", "KICK_USER"} :
    /\ user = CASE t = "MSG" -> "typing" [] t = "LEAVE_ROOM" -> "leave" [] OTHER -> "menu"
    /\ up' = Append(up, [type |-> t, room |-> r])
    => r = shown \/ moved

\* Although the room is read again when the user has answered, a request to leave, to
\* kick from or to write to a room is about the one that the question, the menu or the
\* prompt named, unless a packet has taken that one away meanwhile, or moved the console.
RequestsAsShown == [][RightRoom]_vars

Lists(q) == Cardinality({i \in DOMAIN q : q[i].type \in {"GET_ROOMS_LIST", "ROOMS_LIST_RESP"}})

\* The answers to GET_ROOMS_LIST are not told apart, and an ERROR is not taken for one;
\* yet at most as many users wait to be added for a list that will not come as lists have
\* been refused, whatever windows, dialogs and requests overlap.
EveryPendingIsAwaited ==
  program = "gui" /\ window = "chat" =>
    Cardinality(pending) <= Lists(up) + Lists(down) + refused

\* A request to log out is answered, whatever is open or on its way then, and it brings
\* the login window back if the user has opened no dialog meanwhile.  (If he has, the
\* window below it is destroyed, and the program may end instead.)
LeavingChat   == program = "gui" /\ session /\ \E i \in DOMAIN up : up[i].type = "LOGOUT"
LogoutReturns ==
  /\ LeavingChat ~> window \in {"login", "gone"}
  /\ LeavingChat ~> window = "login" \/ user # "free"

=============================================================================

# A TLA+ model of tcp-chatroom

The program is a chat server (`src/server`) with a thread per TCP connection, a SQLite
database behind one lock, and a GUI client (`src/client`) with its own threads. What is
hard about it is not any single handler: it is that a handler holds `self.lock` for a few
lines at a time, and the database's lock for one call at a time, so that every request is
a sequence of small steps between which other handlers, the presence monitor, a lost
connection, a database error or a crash may come. The modules here take the steps at that
grain and say what still holds.

## 1. The system

| Component | State | Operations | Works with |
|---|---|---|---|
| Connections, sessions and presence (`socket_server.py`) | `self.clients`, `self.sessions` (user, role, Online/Idle, under `self.lock`); `users.status`, `permissions.role` in the database | accept, receive, LOGIN, LOGOUT, BAN_USER, REVOKE_BAN, PROMOTE_USER, MUTE/UNMUTE_USER, `_presence_monitor_loop`, `_disconnect_client` | database layer, authentication, every client; a ban ends another handler's connection |
| Registration and accounts (`auth.py`) | tables `users`, `permissions` | `register_user` (four database calls), `login_user` | called by REGISTER and LOGIN |
| Room membership (`socket_server.py`) | tables `rooms`, `room_members`; `self.client_rooms`, a set per connection | CREATE, DELETE, JOIN, LEAVE, ADD_USER_TO, KICK, restoration at LOGIN | sessions (who is there), messages (who gets them) |
| Room messages and history (`socket_server.py`, `chat_room.py`) | table `messages`; what each client shows for a room | MSG: store, then broadcast; ROOM selection, JOIN and ADD: read the history, then send it | membership |
| Private messages | the rows of table `messages` without a room | PM: store, deliver, answer; history of 50 | sessions |
| Database layer (`db_manager.py`) | the SQLite file | `execute`, `fetch_one`, `fetch_all`, `execute_transaction`, each under one lock on a connection of its own | all of the above |
| Framing (`protocol.py`) | what a sender has still to write, what a reader has read of a frame | length-prefixed send and receive | both ends |
| Client connection (`socket_client.py`) | flags `running`, `connected`, `self.sock`, `send_queue` | connection manager, receive and send thread per connection, `send_packet`, `disconnect` | server, GUI |
| Chat, login, administration windows (`client/gui`) | window shown, `joined_rooms`, `current_room`, who waits to be added to a room, histories, user list | a timer polls `receive_queue` and dispatches packets; clicks; dialogs with event loops of their own | client connection |
| Console client (`main.py`) | `joined_rooms`, `current_room` | a thread that prints packets, a thread that reads commands, upload threads | server |
| Logging, entry points, placeholders | | | |

### What is hard

* **Two steps for one change.** A membership changes in the table first and in memory
  later; a status is decided under the lock and written to the database after it.
* **Looked up, then used.** A connection found by `_get_online_user_socket`, a room id, a
  role, the list of sessions of a broadcast or a deletion: the lock is given up in between.
* **Two threads for one connection.** A handler's own exit and a ban by another handler
  both run `_disconnect_client`. On the client, the threads of an earlier connection use
  `self.sock` of the newest one.
* **Partial failure.** A `DatabaseError`, a dead socket or a `KeyError` between two steps;
  some end the request with an answer, some end the handler's loop and its connection.
* **Crashes.** The memory goes, the tables stay.
* **Order.** A history is read before it is sent, with broadcasts in between; a notice is
  sent after the change it tells of, with other changes and notices in between.
* **Bytes.** A write and a read may end anywhere, also within a header.
* **One thread, many event loops.** A dialog of the client runs an event loop in which
  packets go on being dispatched, and the state it was opened on changes behind it.

`PROJECT.json` lists each of these at its line ("hazards") with the properties about it.

### What makes each component correct

* *Sessions*: a connection that is gone leaves nothing behind and its socket is closed
  once; a ban lasts; a user who is there is shown as present.
* *Registration*: one winner per name; what was confirmed is complete; a name that was taken
  can log in, in the role that it has by then.
* *Membership*: table and memory agree with the last decision; rows are of rooms that
  exist; a live session has a set of rooms.
* *Messages*: a member who was sent a history misses nothing; the view shows each message
  once.
* *Private messages*: nothing falls between what a login is sent and what is delivered
  live; nobody is shown what is neither from nor to him.
* *Framing*: the reader is in step with the senders; the stream is a channel of packets.
* *Client*: no socket is leaked; a loss is noticed; a stopped client is disconnected.
* *Windows and console*: the rooms listed are those of the server; a request is about the
  room its user was shown; nobody waits for a list that was granted and will not come;
  logging out comes to an end.

## 2. The modules

| Module | Models | Proofs |
|---|---|---|
| `ConnectionTable` | abstract: the life of a connection and of the user on it | |
| `Sessions` | connections, sessions, presence, bans, promotions; implements `ConnectionTable` | `SessionsProofs` |
| `Accounts` | abstract: names taken once, their own role granted once | |
| `Registration` | `register_user` in several threads; implements `Accounts` | `RegistrationProofs` |
| `Roster` | abstract: rooms that are born, joined, left and deleted | |
| `Rooms` | rooms and memberships, table and memory; its tables implement `Roster` | `RoomsProofs` |
| `RoomLog` | abstract: one log, replayed and relayed | |
| `RoomFeed` | messages and histories of one room, and the client's view; implements `RoomLog` | `RoomFeedProofs` |
| `Link` | abstract: one connection at a time | |
| `SocketClient` | the client's connection and its threads; implements `Link` | `SocketClientProofs` |
| `PacketChannel` | abstract: packets in order | |
| `Framing` | frames on a stream of bytes; implements `PacketChannel` | `FramingProofs` |
| `Mailbox` | abstract: letters kept, routed, and replayed to their parties | |
| `PrivateMessages` | private messages, logins, and the windows that show them; implements `Mailbox` | `PrivateMessagesProofs` |
| `Clients` | the dispatchers of the windows and of the console, with the rooms of the server | `ClientsProofs` |

`MC*` modules hold the values of constants and symmetries for TLC. `map` in `PROJECT.json`
gives, for each definition, the lines of the source it stands for.

In every module **a step is one region under a lock, one database call, or one send or
receive**. `pc[c]` is where the handler of connection `c` is, `job[c]` (in `RoomFeed`:
`msg`, `todo`, `to`, `hist`) are its local variables. A request is an action that takes a
handler from rest (`ready`, `idle`) to its first step after reading what the code reads
under the lock first; requests that the code refuses change nothing but for the answer.
`Framing` looks below that grain, at single bytes, and shows what the others assume of a
connection: packets arrive whole and in order, until it ends.

### Sessions

`clients`, `sessions` are the dicts; `open` the sockets not yet closed by the server;
`gone` the connections whose client has closed its end, or whose system did when the
process ended (a client lost without a word is one that does nothing more); `status`, `perm` the columns; `mon`
the monitor. A handler goes `free -> recv -> (wake ->) ready -> ...`: `Receive` sets an
Idle session Online under the lock, and `WritePresence` writes it to the table later.
LOGIN is `LoginCheck` (the database's word on password and ban), `LoginRole`,
`LoginSession`, `WritePresence`, `Reply`; its greeting indexes the session again and fails
if a ban has popped it (label `greet`). A request about rooms or muting that ends with an
exception nobody catches is `Raise`: the loop ends with it. `_disconnect_client` is `Drop`
or `BanFind`, then `Pop` (under the lock), `WritePresence` (Offline), `Close`. `firm` is
history: the users banned at a moment when neither a session nor any handler nor the
monitor held them. `Life` maps the module to `ConnectionTable`: a connection is served while
its handler is not `free`, registered while it is in `clients`, and has the user of its
session.

Abstractions: time is not measured, so any Online session may be found inactive; of several
sessions of a user any may come first in the dict; a frame is one step; sends do not block
(peers read what they are sent).

### Registration

The four calls of `register_user`: `Count`, `InsertUser` (the UNIQUE constraint decides:
`InsertFails` otherwise), `FetchId`, `InsertPermission`, with `DbError` at each and `Crash`
between any two. `acked` are the names confirmed to a client. `MayLogIn` and `RoleAtLogin` say
what LOGIN makes of a name at any moment: `login_user` asks for the row in `users` only, and
whoever has no row in `permissions` is a User. `Outside` maps the module to `Accounts` through
these two: a name is free until it may log in, and then has the role it would log in with;
its registration is under way while a thread is at work on its role (`Granting`). A name
whose registration was cut between the inserts thus stays a User's.

### Rooms

`ids`, `rows` are the tables `rooms` and `room_members`; `keyed` and `mine` the keys and
values of `self.client_rooms`; `logged` the keys of `self.sessions`. Each handler reads
its session (`Authorize`), looks up what it needs, changes the table by the id it read
(`SameRoom`: a room deleted and created anew has another id, and the foreign key refuses
one that is gone), and changes the memory later. Where the code indexes a key that may have been popped there is a branch to `drop`,
the `KeyError` that ends the handler's loop. DELETE_ROOM takes the sessions and then
visits them one by one (`Sweep`). `claim` and `raced` are history: what the last change of
a row decided, and whether another handler was at work on the pair at the same time.
`Track` updates them with every step and restricts none. `Tables` maps the module to `Roster`:
rooms by their numbers in `ids`, members by user and number, and the requests that have
read an id (`Asked`) and not yet used it.

Abstractions: General is left out: every restoration adds it, LEAVE_ROOM and DELETE_ROOM refuse
it; KICK_USER (441-468) does not, and whoever is kicked from General is out of it, in table
and memory, until the next login (1099). Roles do not change; a connection is used by one
user (`Owner`), who may have several.

### RoomFeed

One room, that is not deleted (deletion is in `Rooms`). `stored` is what the history query
returns, oldest first; `heard` what a client was sent; `view` what its window shows, where a MSG is appended and a HISTORY replaces the
whole. MSG is `MsgMember`, `MsgStore` (a failure to store is swallowed, and the message is
broadcast all the same), `MsgSnapshot`, then `MsgVisit`/`MsgDeliver` for each session.
`fresh` and `caught` are history: who was sent a history read after he had joined. `Room` maps
the module to `RoomLog`: `stored` is the log, `view` is what is shown, and a message is due
to those its broadcast may still reach (`Due`).

### SocketClient

Connections are numbered as they are made. Each has a send and a receive thread that read
`self.sock` and `self.connected` whenever they use them, whatever connection they were
started for; the manager connects, marks, drains the queue and starts threads; the GUI
thread puts packets and, at last, lowers the flags and closes. A packet is the number of
the newest connection when it was put into the queue; the code has no such number, and the
test before the put (142) may have been of an earlier connection. `Connection` maps `sock` to the link of `Link`; its
last attempt is that of a manager which tested `running` before it was lowered.

### PacketChannel and Framing

`PacketChannel` is the abstract connection, in one direction: `Send`, `Receive` of the
next packet, `End`. `Framing` has `send_framed_packet` as `Send` (under the client's
`self.lock`: `MayStart`), the pieces of its `sendall` as `Write`, and `_recv_all` as `Recv`,
which takes some of the bytes still missing (`Missing`); `HeaderDone` and `BodyDone` are the
two halves of `receive_framed_packet`. A byte is a pair of the packet's number and its place
in the frame, so a reader that is out of step has bytes that are no header and no text
(`IsAstray`). `Close` ends the connection anywhere and may lose what is on its way.
`Channel` maps `sent`, `got` and `open` to those of `PacketChannel`: a packet is sent when
its frame is begun.

### PrivateMessages

`mail` is the list of messages accepted, `rows` the table, `session` the users logged in.
PM is `Pm` (store, or fail to and go on), `Find`, `Deliver`; LOGIN is `Login`, `Welcome`
(LOGIN_RESP, on which the client opens a new chat window), `HistoryRead`, `HistorySend`.
`window` and `seen` are the client's side: what arrives while the login window is shown is
dropped. `caught` (sessions that were sent their history), `went` (the connection found
for a message) and `users` (who was logged in on a connection) are history. `Mail` maps the
module to `Mailbox`: `mail` are the letters, `rows` those kept, and a handler's locals are
the letter in its client's hand, the connection it goes to, and the replay not yet sent.

Abstractions: one step per send; a connection is not used again after it ended; bans are
in `Sessions`; a query of PM that raises ends the handler as a client that has gone does.

### Clients

One module for both client programs, because they share the packets and what must hold
of them; `program` says which one runs. The server's side is what it takes to send the
packets that change a client's rooms: `member` (the set in `self.client_rooms`), requests
in `up`, and `owed`, the packets whose change is made but which are not yet sent, so that
notices of several handlers may overtake each other (`Send`). `Serve` is the handler of
the connection, `Other` a staff member's handler that adds, kicks, creates or deletes.

* Windows: `SwitchToChat` and `SwitchToLogin` are the switches of `app.py`, `Dispatch` the
  dispatcher of the chat window. Its loop does not end with LOGOUT_RESP (`chat_room.py`
  710-715): with the login window shown already it goes on with the packets behind
  (`window = "leaving"`), may open its boxes and send what is chosen in them, and only when
  the queue is empty is the chat window destroyed (`Destroy`). `reader` is the dialog in which the dispatcher itself
  waits (an error box, the choice of a room to join or to add a user to), which holds it
  up; `user` the dialog that a click opened (the question before leaving or logging out,
  the menu of a user, the dashboard), in which dispatching goes on. `pending` are the two
  fields that remember a user who is to be added once the list of rooms comes.
* Console: `PrintJoined` and `PrintMove` are the two assignments of the printer thread for
  one packet, `Type`, `Enter`, `SelectCheck`, `SelectSet` the input thread.

`shown` and `moved` are history: the room named by the dialog or prompt the user is
looking at, and whether a packet has taken it since; `raced` the rooms whose last notice
is not that of their last change; `refused` the number of lists of rooms refused since the
chat window was opened.

Abstractions: the tables are in `Rooms`, so a request may be granted or refused at will;
messages and histories are in `RoomFeed` and `PrivateMessages`; rooms are numbers in the
order of their names; the connection is not lost.

## 3. The runs

| Run | Expect | What it shows | Bounds, and why they are enough |
|---|---|---|---|
| `Sessions_live` | pass | `ServedIsPresent`; `GoneIsForgotten` under fairness | two connections of two users, one of them administrator, with the monitor, logins again and again: each hazard is between two handlers, or a handler and the monitor |
| `Sessions_faults` | pass | types, `CleanExit`, `SocketOwnership`, `FirmBanHolds`; `IsConnectionTable`, a refinement | any user on any of two connections (so two sessions of one user, and a second LOGIN on a connection), promotions both ways, a crash, a `DatabaseError` at any call |
| `Sessions_unban` | violation | a ban overwritten by a later status | finding 1 |
| `Registration_faults` | pass | types, `OneWinner`, `AckedComplete`; `IsAccounts`, a refinement | three threads, three names, a crash, errors anywhere: two threads race for a name while a third takes another |
| `Registration_cut` | violation | a user without a role | finding 2 |
| `Registration_race` | violation | two administrators | finding 3 |
| `Rooms_faults` | pass | types, `Durable`, `RowsHaveRooms`, `SetsAndSessions`; `IsRoster`, a refinement | a staff member and another user, a room created, deleted and created anew, two mishaps: a fault in each of two requests, or a fault and a crash |
| `RoomFeed_gap` | pass | types, `NoMessageGap`, `ShownAtMostTwice`; `IsRoomLog`, a refinement | two connections, one of staff, two messages, histories of two: a broadcast, a history and a join overlap; that the limit cuts is in the theorem, which holds for any limit |
| `SocketClient_live` | pass | types, `OneSocket`, `OwnPackets`; `IsLink`, a refinement; `LossIsNoticed`, `StopsForGood` under fairness | two connections: every hazard is between the threads of one connection and the next |
| `Framing_stream` | pass | types, `InStep`; `IsChannel`, the refinement with its fairness | two send threads, three packets of one and of three bytes behind headers of four, as in the code: a read may end within a header, within a text, and where one frame follows another; two threads suffice to mix frames |
| `PrivateMessages_gap` | pass | types, `NoPmGap`, `OnlyParties`; `IsMailbox`, a refinement | three users on three connections, anybody on any of them (so users and connections are interchangeable), two messages, three logins, histories of one row, one fault: a message crosses a login, finds another connection of its addressee, or arrives when the connection has changed hands |
| `Clients_live` | pass | types, `RoomsMirrored`, `EveryPendingIsAwaited`, `RequestsAsShown`; `LogoutReturns` under fairness | three rooms, a login that restores one or all of them; three requests in the windows (log in, and two that cross), two in the console; one change by another user: two notices are enough to overtake each other |

Deadlock is checked but where the modelled part really stops: in `SocketClient` (the
client is stopped, or its bound on connections is reached), `Framing` (the connection has
ended and everything is read), `PrivateMessages` (every connection has ended) and
`Clients` (the requests of the bound are made and answered).

Every property of a passing run has a mutant: an operator named `Slip...` beside the one it
replaces, a bug the code might have had (a status not looked at, a set not popped, a
fault answered as a success, a socket not closed), under which TLC finds the property
violated.

### Fairness

* `Sessions`: weak fairness of each handler's steps. Python schedules every thread, no
  region under the lock blocks, and peers read what they are sent. A receive on a
  connection whose other end was closed (`gone`), by the client or by its system, returns or
  raises. Of a client that is lost without closing nothing is assumed or claimed: `recv` has
  no timeout or keepalive (140), and the handler stays in it. Nothing is assumed of the
  monitor, clients or crashes.
* `SocketClient`: weak fairness of the manager, of the send and receive threads and of the
  GUI thread within a call; strong fairness of the end of the draining loop (packets come
  at the pace of a user, who does not refill the queue for ever). Nothing is assumed of
  the server, of the success of a connection attempt, of the user, nor of a receive on
  a socket that another thread has closed, which may block for ever.

* `Framing`: weak fairness of the reader, which is a thread of the server that does nothing
  else, and of each send thread's writing (`sendall` goes on or raises). Nothing is
  assumed of who sends, or of the end of the connection.
* `Clients`: weak fairness of the server's handlers (`Serve`, and each packet owed), of the
  timer and its loop (`Dispatch`, `Destroy`), and of `Close`: the user answers the boxes that hold the timer up.
  Nothing is assumed of his other dialogs, of the console, or of other users.

### Refinement

Seven components implement an abstract specification, by `INSTANCE ... WITH`: every step of
the component is a step of the abstract module, or changes nothing of it. Each abstract
module is what the rest of the program may take for granted of the component, with the
threads, the locks and the separate database calls left out.

| Property | Promise |
|---|---|
| `IsConnectionTable` | a connection is registered when its thread starts; a user is logged in on it only while the thread runs; it leaves the register together with its user, before its socket is closed and before the thread ends; it is not taken again until both are done |
| `IsAccounts` | a name is taken once and logs in as a User from then on; its own role is granted once, in the step that confirms it; the first name is granted no other than Admin; what is cut is never confirmed and stays a User's |
| `IsRoster` | a request joins or leaves the room whose id it read and no later one of that name; a room is born without members and dies with all of its memberships |
| `IsRoomLog` | the table only grows and has a message once, before anybody else gets it; a client shows a beginning of the table and after it what came live; a broadcast reaches a client once |
| `IsMailbox` | a message comes live on one connection at most, where its addressee was found; it is given up only when he has none; a login is handed the first stored messages of its user, with none left out; nothing else is shown |
| `IsLink` | while the program runs, a connection is made only when there is none; at most one more is made after it stops |
| `IsChannel` | what is read is what was sent, in its order, and (by fairness) arrives as long as the connection stands |

The others say what a step may do; `IsChannel` is `PacketChannel!FairSpec` and has the
fairness too. The limits of the promises are in them: `ConnectionTable` lets a connection be
taken out of the register more than once (a ban and the handler's own exit), `Accounts` has
users whose registration failed, `Roster` allows a leave from a room that has gone, `RoomLog` a replay that takes
a message off the view, `Mailbox` a letter that is shown though it could not be kept, and one
that arrives where another user has logged in since (`OnlyParties` is what holds of those).

## 4. The proofs

The theorems hold for every value of the constants that satisfies the `ASSUME` of the
module: any number of connections, users, rooms, messages, threads, crashes. They assume
nothing else, but for `ServedArePresent` (below). They are of the form `Spec => []Inv`, by
an inductive invariant, or say that a component implements its abstract specification
(`Implements...`): then lemmas show, action by action, which abstract step a step is, or
that it is none, from an invariant.

* **SessionsProofs.** `Inv` is `TypeOK` with `Locals`: what a handler's locals hold at the
  control points that use them, and that the session the monitor found is in the dict
  unless it was popped (the types alone are not inductive: a step would write the status
  of `NoUser`). On it rest, each inductive relative to it, `CleanExit`, `SocketOwnership`
  and `FirmBanHolds`. The last needs no further strengthening because `firm` is about
  `Serving`, which covers all who could write a status.
  `ServedIsPresent` is proved where it is true, as in `Sessions_live`: when nobody logs in
  on two connections (`OneHome`: a login elsewhere goes Offline for both when it ends) and
  no database call fails (a status that was not written stays). It rests on `Homes`, which
  says whose status a handler is about to write, and `Present`: a user who has a session
  and a socket is shown as absent only while somebody is `Changing` that, his own login
  about to write Online, his logout or a ban about to pop the session.
  `ImplementsConnectionTable` rests on `CleanExit` (a thread that ends has left nothing),
  `SocketOwnership` (who closes has the socket and nobody else does) and `Popped`: the socket
  that an exit closes is that of the address it popped.
* **RegistrationProofs.** `OneWinner` and `AckedComplete` are inductive together with the
  types and the fact that a thread about to insert into an empty table has the role Admin.
  `ImplementsAccounts` adds `FirstInv`: whoever took the first name counted nobody, and goes
  on as an administrator; and that a thread is at work on a role only while there is none.
* **RoomsProofs.** `Inv` joins types, locals (the room, user and connection a step uses, and
  that the id read was not 0), `RowsHaveRooms` and `SetsAndSessions`. That no row is of a
  room that is gone needs the locals: `SameRoom` compares an id that is not 0 with
  what the table has now. The history has no part in it.
  `Durable` rests on two more invariants. `Own` says whose row and whose set a handler is
  about to change, and that a connection dropped behind its handler's back has neither
  session nor set until the handler puts a set back. `Kept` says of each pair of a user and
  a room: a handler alone at work on it `Knows`, at each control point, what the table has
  and which session its request concerns; every other session is `Agreed` with the table,
  unless the step `Between` the table and the memory is still to come. Each step is proved
  for a pair on which its handler is a `Bystander`, and for one on which it is the `Worker`.
  `ImplementsRoster` rests on `Numbered`: no two rooms have one number, none has one that is
  yet to be used, and the number a handler holds is that of its room or of none. So the row
  it writes or deletes by the room's name is the abstract one, by number.
* **RoomFeedProofs.** `NoMessageGap` needs `Readers`: a history that counts, between its
  read and its send, has every message that was neither heard nor is pending. The step
  lemmas show that no step takes a message off its way (`Keeps`), and treat storing and
  reading on their own. `ShownAtMostTwice` rests on `TwiceInv`: a message that is not yet
  delivered everywhere is in one handler's hands (`Senders`), is stored once and is once in
  any history (`Once`), and a client whose broadcast is still `Ahead` shows it once at
  most (`Views`). A history replaces the view, a broadcast adds to it: hence two.
  `ImplementsRoomLog` adds `Prefixes`: a history between its read and its send is a beginning
  of the table, which grows at its end only; that a message has no row yet when
  it is stored is in `Once`.
* **SocketClientProofs.** `OneSocket` needs `Manages`: which combinations of flag, socket
  and manager's control point occur while the client runs (a socket without the flag only
  between a connection and its mark). It is also what `ImplementsLink` needs: no thread has
  left a socket where the manager connects. The types of the queue need `Made` and `Fresh`: a
  packet is put only when there has been a connection, and one that is yet to be made has no
  threads. `OwnPacketsOnly` is about the queue across
  connections, and rests on `Leftovers`: what is queued was queued for the newest connection or,
  until the queue is drained, for the one before, and a send thread starts only after that.

* **FramingProofs.** The invariant says which bytes are where: what the reader has, what is
  on the wire and what the one writing thread has left are, in this order, consecutive
  pieces of the frames from the next packet on (`start` gives their places in the
  stream). `InStep` follows, and from it `ImplementsChannel`: `HeaderDone` changes nothing of
  the channel, `BodyDone` is its `Receive` of the right packet.
* **PrivateMessagesProofs.** `Locals` (what a handler holds where it uses it), `Single` (a
  message is under way in one handler only) and `GapInv`: a session between reading and
  sending its history has in `found`, or has seen, or will be delivered, each message that
  `NoPmGap` will ask for. The inductive step splits a step into those that store or find a
  message and those that do not touch one. `OnlyParties` needs that a connection found
  for a message has had its addressee logged in. `ImplementsMailbox` adds `Rested`: a handler
  holds a message, a connection or a history only where it uses it, and a session is opened
  in the login window only; `HistoryFirst` is the lemma about the limit of the query.
* **ClientsProofs.** `RequestsAsShown` rests on `Named`: the dialog names the current room
  unless `moved`. `RoomsMirrored` rests on `MirrorInv`: for each room that is not raced, the
  last packet about it, on its way or owed, tells what the server has, and where there is
  none the program's list does; where no chat window is shown it claims nothing before an
  answer to LOGIN is on its way (`Ready`). `EveryPendingIsAwaited` is inductive with the
  types: the lemmas about `Lists` say what a packet more or less makes of the sums, and the
  step lemmas who is answered by it.

Only model-checked: the liveness properties (`GoneIsForgotten`, `LossIsNoticed`, `StopsForGood`,
`LogoutReturns`) and the liveness in `IsChannel`, because liveness under fairness is out of this
prover's reach. Every invariant that a passing run checks is proved, and every refinement.

## 5. Findings, and what is known not to hold

Three disagreements of the code with what the repository says, each a run with a
counterexample:

1. **A ban is undone by its own disconnection** (`Sessions_unban`): BAN_USER writes Banned
   and then disconnects the user, for whom `_disconnect_client` writes Offline. A login in
   transit that passed its check writes Online. `auth.py` "rejects logins for banned
   users" by that status alone. `FirmBanHolds` is the part that does hold.
2. **A registration is not one transaction** (`Registration_cut`): the inserts into `users`
   and `permissions` are two calls of the database, each with a commit of its own, although
   `auth.py` 40-41 says "inside a transaction block" and "in one go". A fault or a crash in
   between leaves a user without a role. The client is told that the name exists, and yet
   can log in with it, as a User; if it was the first, no later registration makes an
   administrator. `AckedComplete` and `IsAccounts` are what holds.
3. **Two first administrators** (`Registration_race`): count and insert are two calls.

Other behaviours that the models have, and that keep a stronger property from holding.
They are listed as hazards at their lines:

* **DELETE_ROOM stops half way** (`socket_server.py` 422-424, `Sweep` in `Rooms`): a session
  that goes meanwhile is a `KeyError` that ends the loop and the deleter's connection;
  sessions not yet visited keep the room in memory until they log in again.
* **A history erases a message from the view** (`chat_room.py` 684, `SendHistory` in
  `RoomFeed`): it was read before the message and sent after it. `NoMessageGap` is about
  what was sent; `ShownAtMostTwice` is what holds of the view.
* **A leftover packet** (`socket_client.py` 122-125, `Transmit` in `SocketClient`): the queue
  is cleaned at a new connection (comment at line 77), but a send thread of the earlier
  one may hold a packet and sends it on the new one. `OwnPackets` is what holds: no thread takes
  a packet that was queued for an earlier connection than its own.
* **A private message that was not stored** is sent all the same, and its sender is told
  that it was saved (`socket_server.py` 337).
* **A list of rooms opens the dialog of another request** (`chat_room.py` 515): answers are
  not told apart. And a list that is refused (`socket_server.py` 882-883) comes as an ERROR,
  after which the user of `chat_room.py` 334 or `admin_dashboard.py` 416 waits on, for the
  next list that anybody asks for. `EveryPendingIsAwaited` is what holds: no more users wait in
  vain than lists were refused.
* **Logging out under an open dialog** (`app.py` 115-118, `Destroy`): LOGOUT_RESP may be
  dispatched in the event loop of a dialog that the user opened meanwhile; its parent is
  destroyed below it, and the program may end there. Whether it does is up to the toolkit, so
  the model has both outcomes, and `LogoutReturns` claims the login window only where no dialog
  was opened.
* **A client lost without a word** (`socket_server.py` 140) keeps its thread, its socket and
  its session until the server ends: `GoneIsForgotten` is about ends that were closed.
* **A role is late or falls on another** (`socket_server.py` 198 and 695): LOGIN reads the role
  before it makes the session, so that a promotion in between is not seen until the next
  login; PROMOTE_USER gives the new role to the session at an address it looked up before,
  which may be another user's by then, or none (a `KeyError`).
* **Notices out of order** (`raced` in `Clients`): two handlers change the same room of a
  user and send their notices the other way round; his list stays wrong until the next
  notice or login.

And two that are outside the models, which take a send as a step that ends: several
handlers of the server send on one socket without a lock of their own
(`socket_server.py` 1182), and sends under `self.lock` (397, and `socket_client.py` 126)
hold up everybody while one peer does not read.

## 6. Not modelled, and why

* *MUTE_USER, UNMUTE_USER*: a flag that MSG looks at. *`stop()`* closes everything and ends
  the process.
* *Role changes in `Rooms`*: PROMOTE_USER (673-711) changes only the role; the rooms of the
  staff come with the next LOGIN, or with a CREATE_ROOM. Planned.
* *Broadcast notices, user lists, roles and statuses as displayed*: they are shown and not
  acted upon.
* *Upload threads of the console*: the server has no handler for their messages.
* *Database layer*: each call is a step, its faults are in every module. SQLite itself is
  not ours to model.
* *Password hashing, logging, entry points, layout, placeholders*: pure functions, wording,
  or nothing but comments.

## 7. Plan

Done, in the order of importance: `Sessions`, `Registration`, `RoomFeed`, `SocketClient`,
`Rooms`, then `Framing` with its abstract channel, `PrivateMessages` and `Clients`, all with
their proofs, and the refinements of the seven abstract specifications.

1. **Roles in `Rooms`**, muting in `RoomFeed`.
2. **The server's direction of `Framing`**, with several handlers and no lock.

New runs will take the place of narrower ones or share a configuration with them, so that
the whole stays small enough to be checked in one go.

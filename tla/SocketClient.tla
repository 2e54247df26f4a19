---------------------------- MODULE SocketClient ----------------------------
(***************************************************************************)
(* The client's end of a connection (src/client/socket_client.py): the     *)
(* connection manager thread connects, and connects again when the         *)
(* connection is lost; each connection has a receive and a send thread,    *)
(* which end when they find the flags down or their socket broken; the GUI *)
(* thread queues packets and, at last, disconnects.                        *)
(*                                                                         *)
(* A step is one region under self.lock, one test of the flags or one      *)
(* queue operation.  A thread reads self.sock and self.connected when it   *)
(* uses them, whatever connection it was started for: threads of an        *)
(* earlier connection may still be there.  The connections are numbered in *)
(* the order they are made; a packet is the number of the newest one when  *)
(* it was put into the queue.  The code has no such number: send_packet    *)
(* tests the flag before, perhaps on an earlier connection.                *)
(***************************************************************************)
EXTENDS Naturals, Sequences

CONSTANTS
  MaxConns,  \* bound on the number of connections
  MaxQueue   \* bound on the length of send_queue

ASSUME SocketClientAssumption == MaxConns \in Nat /\ MaxQueue \in Nat

VARIABLES
  running, connected,  \* the flags
  sock,      \* self.sock, 0 for None
  made,      \* number of connections made
  open,      \* connections whose socket the client has not closed
  lost,      \* connections that broke or that the server closed, with nothing more
             \* to be read from them
  queue,     \* send_queue
  manager,   \* control point of _connection_manager,
  sender,    \*   of the send thread of each connection,
  held,      \*   with the packet it took from the queue, 0 for none,
  receiver,  \*   of the receive thread of each connection,
  source,    \*   with the socket it is reading, 0 for none,
  gui        \*   and of the GUI thread

flags   == <<running, connected>>
sockets == <<sock, made, open, lost>>
send    == <<sender, held>>
receive == <<receiver, source>>
vars    == <<flags, sockets, queue, manager, send, receive, gui>>

Conns   == 1..MaxConns
Numbers == 0..MaxConns

FlagsOK   == running \in BOOLEAN /\ connected \in BOOLEAN
SocketsOK == /\ made \in Numbers /\ sock \in Numbers
             /\ open \subseteq 1..made /\ lost \subseteq Conns
QueueOK   == queue \in Seq(Conns) /\ Len(queue) <= MaxQueue
ThreadsOK ==
  /\ manager \in {"loop", "test", "attempt", "mark", "drain", "spawn", "ended"}
  /\ sender \in [Conns -> {"none", "loop", "get", "hold", "exit", "ended"}]
  /\ held \in [Conns -> Numbers]
  /\ receiver \in [Conns -> {"none", "loop", "take", "read", "exit", "ended"}]
  /\ source \in [Conns -> Numbers]
  /\ \A k \in Conns : (sender[k] = "hold" <=> held[k] # 0) /\ (receiver[k] = "read" <=> source[k] # 0)
  /\ gui \in {"idle", "put", "stopping", "closing", "ended"}

\* The types of the flags, the sockets, the queue and the threads: a send thread has a
\* packet just while it is to send one, a receive thread a socket just while it reads.
TypeOK == FlagsOK /\ SocketsOK /\ QueueOK /\ ThreadsOK

\* start() has set running and started the manager.
Init ==
  /\ running = TRUE /\ connected = FALSE
  /\ sock = 0 /\ made = 0 /\ open = {} /\ lost = {} /\ queue = <<>>
  /\ manager = "loop"
  /\ sender = [k \in Conns |-> "none"] /\ held = [k \in Conns |-> 0]
  /\ receiver = [k \in Conns |-> "none"] /\ source = [k \in Conns |-> 0]
  /\ gui = "idle"

-----------------------------------------------------------------------------
(* _connection_manager *)

\* while self.running ...
ManagerLoop ==
  /\ manager = "loop"
  /\ manager' = IF running THEN "test" ELSE "ended"
  /\ UNCHANGED <<flags, sockets, queue, send, receive, gui>>

\* ... if not self.connected, or sleep.
SlipNeedsConnection == TRUE
NeedsConnection     == ~connected

ManagerTest ==
  /\ manager = "test"
  /\ manager' = IF NeedsConnection THEN "attempt" ELSE "loop"
  /\ UNCHANGED <<flags, sockets, queue, send, receive, gui>>

\* _attempt_connect; nothing looks at the socket that self.sock held.
Connect ==
  /\ manager = "attempt" /\ made < MaxConns
  /\ made' = made + 1
  /\ sock' = made + 1
  /\ open' = open \cup {made + 1}
  /\ manager' = "mark"
  /\ UNCHANGED <<flags, lost, queue, send, receive, gui>>

ConnectFails ==
  /\ manager = "attempt"
  /\ sock' = 0
  /\ manager' = "loop"
  /\ UNCHANGED <<flags, made, open, lost, queue, send, receive, gui>>

ManagerMark ==
  /\ manager = "mark"
  /\ connected' = TRUE
  /\ manager' = "drain"
  /\ UNCHANGED <<running, sockets, queue, send, receive, gui>>

\* _start_io_threads drops what is in the queue, one packet at a time, ...
SlipDrained == TRUE
Drained     == queue = <<>>

ManagerDrain ==
  /\ manager = "drain"
  /\ IF Drained THEN manager' = "spawn" /\ UNCHANGED queue
                ELSE queue' = Tail(queue) /\ UNCHANGED manager
  /\ UNCHANGED <<flags, sockets, send, receive, gui>>

\* ... and starts the threads of the new connection.
ManagerSpawn ==
  /\ manager = "spawn"
  /\ receiver' = [receiver EXCEPT ![made] = "loop"]
  /\ sender' = [sender EXCEPT ![made] = "loop"]
  /\ manager' = "loop"
  /\ UNCHANGED <<flags, sockets, queue, held, source, gui>>

-----------------------------------------------------------------------------
(* The threads of connection k *)

\* _handle_disconnect: the first caller that finds the client connected closes
\* whatever self.sock is.
SlipIsFirst == sock # 0
IsFirst     == connected

HandleDisconnect ==
  IF IsFirst
  THEN /\ connected' = FALSE
       /\ open' = open \ {sock}
       /\ sock' = 0
       /\ UNCHANGED <<running, made, lost>>
  ELSE UNCHANGED <<flags, sockets>>

SendLoop(k) ==
  /\ sender[k] = "loop"
  /\ sender' = [sender EXCEPT ![k] = IF running /\ connected THEN "get" ELSE "exit"]
  /\ UNCHANGED <<flags, sockets, queue, manager, held, receive, gui>>

\* send_queue.get(timeout=1): without a packet the loop begins anew.
SlipAfterEmpty == "hold"
AfterEmpty     == "loop"

SendGet(k) ==
  /\ sender[k] = "get"
  /\ IF queue # <<>>
     THEN /\ held' = [held EXCEPT ![k] = Head(queue)]
          /\ queue' = Tail(queue)
          /\ sender' = [sender EXCEPT ![k] = "hold"]
     ELSE sender' = [sender EXCEPT ![k] = AfterEmpty] /\ UNCHANGED <<held, queue>>
  /\ UNCHANGED <<flags, sockets, manager, receive, gui>>

\* A send on a socket that is broken may go unnoticed; a packet for which there
\* is no connection is dropped.
Transmit(k) ==
  /\ sender[k] = "hold"
  /\ sock # 0 /\ connected
  /\ held' = [held EXCEPT ![k] = 0]
  /\ \/ sender' = [sender EXCEPT ![k] = "loop"]
     \/ sock \in lost /\ sender' = [sender EXCEPT ![k] = "exit"]
  /\ UNCHANGED <<flags, sockets, queue, manager, receive, gui>>

Discard(k) ==
  /\ sender[k] = "hold"
  /\ sock = 0 \/ ~connected
  /\ held' = [held EXCEPT ![k] = 0]
  /\ sender' = [sender EXCEPT ![k] = "loop"]
  /\ UNCHANGED <<flags, sockets, queue, manager, receive, gui>>

SendExit(k) ==
  /\ sender[k] = "exit"
  /\ HandleDisconnect
  /\ sender' = [sender EXCEPT ![k] = "ended"]
  /\ UNCHANGED <<queue, manager, held, receive, gui>>

ReceiveLoop(k) ==
  /\ receiver[k] = "loop"
  /\ receiver' = [receiver EXCEPT ![k] = IF running /\ connected THEN "take" ELSE "exit"]
  /\ UNCHANGED <<flags, sockets, queue, manager, send, source, gui>>

\* receive_framed_packet(self.sock); None has no recv.
ReceiveTake(k) ==
  /\ receiver[k] = "take"
  /\ source' = [source EXCEPT ![k] = sock]
  /\ receiver' = [receiver EXCEPT ![k] = IF sock = 0 THEN "exit" ELSE "read"]
  /\ UNCHANGED <<flags, sockets, queue, manager, send, gui>>

ReceivePacket(k) ==
  /\ receiver[k] = "read" /\ source[k] \in open \ lost
  /\ source' = [source EXCEPT ![k] = 0]
  /\ receiver' = [receiver EXCEPT ![k] = "loop"]
  /\ UNCHANGED <<flags, sockets, queue, manager, send, gui>>

\* The connection broke, or another thread closed the socket.
SlipAfterEnd == "ended"
AfterEnd     == "exit"

ReceiveEnd(k) ==
  /\ receiver[k] = "read"
  /\ source[k] \in lost \/ source[k] \notin open
  /\ source' = [source EXCEPT ![k] = 0]
  /\ receiver' = [receiver EXCEPT ![k] = AfterEnd]
  /\ UNCHANGED <<flags, sockets, queue, manager, send, gui>>

ReceiveExit(k) ==
  /\ receiver[k] = "exit"
  /\ HandleDisconnect
  /\ receiver' = [receiver EXCEPT ![k] = "ended"]
  /\ UNCHANGED <<queue, manager, send, source, gui>>

-----------------------------------------------------------------------------
(* The GUI thread, and the server *)

\* send_packet tests the flag, then queues the packet.
SendPacket ==
  /\ gui = "idle" /\ connected /\ Len(queue) < MaxQueue
  /\ gui' = "put"
  /\ UNCHANGED <<flags, sockets, queue, manager, send, receive>>

\* By now another connection may have been made, or the flag be down: the packet waits for
\* whoever takes it.
Put ==
  /\ gui = "put"
  /\ queue' = Append(queue, made)
  /\ gui' = "idle"
  /\ UNCHANGED <<flags, sockets, manager, send, receive>>

\* disconnect lowers the flags without the lock, and then closes the socket.
Stop ==
  /\ gui = "idle"
  /\ running' = FALSE
  /\ gui' = "stopping"
  /\ UNCHANGED <<connected, sockets, queue, manager, send, receive>>

StopFlag ==
  /\ gui = "stopping"
  /\ connected' = FALSE
  /\ gui' = "closing"
  /\ UNCHANGED <<running, sockets, queue, manager, send, receive>>

SlipCloseAtStop == UNCHANGED <<open, sock>>
CloseAtStop     == open' = open \ {sock} /\ sock' = 0

StopClose ==
  /\ gui = "closing"
  /\ CloseAtStop
  /\ gui' = "ended"
  /\ UNCHANGED <<flags, made, lost, queue, manager, send, receive>>

Lose(k) ==
  /\ k \in open \ lost
  /\ lost' = lost \cup {k}
  /\ UNCHANGED <<flags, sock, made, open, queue, manager, send, receive, gui>>

-----------------------------------------------------------------------------

Manager == \/ ManagerLoop \/ ManagerTest \/ Connect \/ ConnectFails
           \/ ManagerMark \/ ManagerDrain \/ ManagerSpawn

Sender(k) == SendLoop(k) \/ SendGet(k) \/ Transmit(k) \/ Discard(k) \/ SendExit(k)

Receiver(k) == ReceiveLoop(k) \/ ReceiveTake(k) \/ ReceiveEnd(k) \/ ReceiveExit(k)

Gui == SendPacket \/ Put \/ Stop \/ StopFlag \/ StopClose

Next ==
  \/ Manager \/ Gui
  \/ \E k \in Conns : Sender(k) \/ Receiver(k) \/ ReceivePacket(k) \/ Lose(k)

Spec == Init /\ [][Next]_vars

\* Every thread is scheduled.  Nothing is assumed of the server, of connection
\* attempts, of the user, and of a receive on a socket that another thread closed
\* without a shutdown: it may block for ever.  Packets come at the pace of a user,
\* who does not keep the draining loop busy for ever.
Fairness ==
  /\ WF_vars(Manager) /\ SF_vars(ManagerDrain /\ queue = <<>>)
  /\ WF_vars(Put \/ StopFlag \/ StopClose)
  /\ \A k \in Conns :
       /\ WF_vars(Sender(k))
       /\ WF_vars(Receiver(k) /\ (receiver[k] = "read" => source[k] \in open))

FairSpec == Spec /\ Fairness

-----------------------------------------------------------------------------
(* Properties *)

\* While the client runs, no socket is leaked and no connection is a phantom,
\* although threads of earlier connections may close the newest one: the only
\* open socket is self.sock, and a connected client has one.
OneSocket ==
  running => /\ open \subseteq {sock}
             /\ connected => sock \in open

\* The send thread of a connection takes nothing that was put into the queue before its
\* connection was made, although packets are put there while the manager drains it and
\* the threads of earlier connections still take from it.  (Those threads may hold such a
\* packet, one each, and send it on the newest connection; and a packet may be put there
\* late, when send_packet found an earlier connection.)
OwnPackets == \A k \in Conns : held[k] # 0 => k <= held[k]

\* One connection at a time, each given up before the next is made, and at most one
\* more after the program stops: the manager tests running before it connects, and it
\* connects only where no thread has left a socket behind.
Connection ==
  INSTANCE Link WITH
    link <- sock,
    made <- made,
    mode <- IF running THEN "running"
            ELSE IF manager \in {"test", "attempt"} THEN "stopping" ELSE "stopped"

IsLink == Connection!Spec

\* A connection that is lost is noticed and given up, so that another is tried.
LossIsNoticed == \A k \in Conns : (sock = k /\ k \in lost) ~> (sock # k)

\* After disconnect the client ends up without a connection for good, even when a
\* connection attempt or a loss was under way: what the manager then connects
\* is closed by the threads it starts.
StopsForGood == <>[](running \/ (sock = 0 /\ ~connected))

=============================================================================

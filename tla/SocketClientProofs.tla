------------------------- MODULE SocketClientProofs -------------------------
(***************************************************************************)
(* Theorems about SocketClient, for any number of connections and any      *)
(* length of the queue.                                                    *)
(***************************************************************************)
EXTENDS SocketClient, TLAPS

\* How the flags, the socket and the manager go together while the client runs: the
\* socket and the flag agree but for the time between a connection and its mark.
Manages ==
  /\ sock # 0 => sock \in open
  /\ gui \in {"stopping", "closing", "ended"} => ~running
  /\ running =>
       /\ open \subseteq {sock}
       /\ connected => sock # 0
       /\ manager = "attempt" => ~connected
       /\ manager = "mark" => ~connected /\ sock # 0
       /\ ~connected /\ manager # "mark" => sock = 0

\* A packet is queued when there is room for it, and when a connection has been made.
Room == gui = "put" => Len(queue) < MaxQueue
Made == connected \/ gui = "put" \/ manager = "mark" => made # 0

Inv == FlagsOK /\ SocketsOK /\ ThreadsOK /\ Manages

\* A connection has no threads before the manager starts them.
Fresh ==
  \A k \in Conns :
    k > made \/ (k = made /\ manager \in {"mark", "drain", "spawn"}) =>
      sender[k] = "none" /\ receiver[k] = "none"

QueueInv == QueueOK /\ Room /\ Made /\ Fresh

USE DEF flags, sockets, send, receive, NeedsConnection, Drained, IsFirst, AfterEnd, AfterEmpty, CloseAtStop

-----------------------------------------------------------------------------
(* The queue *)

\* Nothing is marked, or queued, before the first connection.
LEMMA MadeStep == ASSUME Inv, Made, [Next]_vars PROVE Made'
<1> USE DEF Made
<1>1. CASE Manager
  <2>1. made \in Nat BY SocketClientAssumption DEF Inv, SocketsOK, Numbers
  <2> QED BY <1>1, <2>1
          DEF Manager, ManagerLoop, ManagerTest, Connect, ConnectFails, ManagerMark,
              ManagerDrain, ManagerSpawn
<1>2. ASSUME NEW k \in Conns, Sender(k) PROVE Made'
  BY <1>2 DEF Sender, SendLoop, SendGet, Transmit, Discard, SendExit, HandleDisconnect
<1>3. ASSUME NEW k \in Conns, Receiver(k) \/ ReceivePacket(k) \/ Lose(k) PROVE Made'
  BY <1>3 DEF Receiver, ReceiveLoop, ReceiveTake, ReceivePacket, ReceiveEnd,
              ReceiveExit, HandleDisconnect, Lose
<1>4. CASE Gui BY <1>4 DEF Gui, SendPacket, Put, Stop, StopFlag, StopClose
<1>5. CASE UNCHANGED vars BY <1>5 DEF vars
<1> QED BY <1>1, <1>2, <1>3, <1>4, <1>5 DEF Next

LEMMA FreshStep == ASSUME Inv, Fresh, [Next]_vars PROVE Fresh'
<1> USE DEF Fresh, Conns
<1> made \in Nat BY SocketClientAssumption DEF Inv, SocketsOK, Numbers
<1>1. CASE Manager
  <2>1. CASE ManagerSpawn
    <3>1. \A k \in Conns \ {made} : sender'[k] = sender[k] /\ receiver'[k] = receiver[k]
      BY <2>1 DEF ManagerSpawn, Inv, ThreadsOK
    <3>2. manager' = "loop" /\ UNCHANGED made BY <2>1 DEF ManagerSpawn
    <3> QED BY <3>1, <3>2
  <2> QED BY <1>1, <2>1
          DEF Manager, ManagerLoop, ManagerTest, Connect, ConnectFails, ManagerMark,
              ManagerDrain
<1>2. ASSUME NEW k \in Conns, Sender(k) PROVE Fresh'
  <2>1. sender[k] # "none" /\ \A j \in Conns : j # k => sender'[j] = sender[j]
    BY <1>2 DEF Sender, SendLoop, SendGet, Transmit, Discard, SendExit, Inv, ThreadsOK
  <2>2. UNCHANGED <<made, manager, receiver>>
    BY <1>2 DEF Sender, SendLoop, SendGet, Transmit, Discard, SendExit, HandleDisconnect
  <2> QED BY <2>1, <2>2
<1>3. ASSUME NEW k \in Conns, Receiver(k) \/ ReceivePacket(k) PROVE Fresh'
  <2>1. receiver[k] # "none" /\ \A j \in Conns : j # k => receiver'[j] = receiver[j]
    BY <1>3 DEF Receiver, ReceiveLoop, ReceiveTake, ReceivePacket, ReceiveEnd, ReceiveExit,
                Inv, ThreadsOK
  <2>2. UNCHANGED <<made, manager, sender>>
    BY <1>3 DEF Receiver, ReceiveLoop, ReceiveTake, ReceivePacket, ReceiveEnd, ReceiveExit,
                HandleDisconnect
  <2> QED BY <2>1, <2>2
<1>4. CASE \E k \in Conns : Lose(k) BY <1>4 DEF Lose
<1>5. CASE Gui BY <1>5 DEF Gui, SendPacket, Put, Stop, StopFlag, StopClose
<1>6. CASE UNCHANGED vars BY <1>6 DEF vars
<1> QED BY <1>1, <1>2, <1>3, <1>4, <1>5, <1>6 DEF Next

\* The queue stays within its bound.
LEMMA QueueStep == ASSUME Inv, QueueInv, [Next]_vars PROVE QueueInv'
<1>0. Made' /\ Fresh' BY MadeStep, FreshStep DEF QueueInv
<1> USE <1>0, SocketClientAssumption DEF Inv, QueueInv, QueueOK, Room
<1>1. CASE queue' = queue /\ (gui' = "put" => gui = "put")
  BY <1>1
<1>2. CASE queue # <<>> /\ queue' = Tail(queue) /\ gui' = gui
  <2>1. Tail(queue) \in Seq(Conns) /\ Len(Tail(queue)) = Len(queue) - 1
    BY <1>2
  <2> QED BY <1>2, <2>1
<1>3. CASE SendPacket
  BY <1>3 DEF SendPacket
<1>4. CASE Put
  <2>1. made \in Conns BY <1>4 DEF Put, Made, SocketsOK, Numbers, Conns
  <2>2. Append(queue, made) \in Seq(Conns) /\ Len(Append(queue, made)) = Len(queue) + 1
    BY <2>1
  <2> QED BY <1>4, <2>2 DEF Put
<1>5. CASE Manager
  BY <1>1, <1>2, <1>5
  DEF Manager, ManagerLoop, ManagerTest, Connect, ConnectFails, ManagerMark, ManagerDrain,
      ManagerSpawn
<1>6. ASSUME NEW k \in Conns, Sender(k) PROVE QueueInv'
  BY <1>1, <1>2, <1>6 DEF Sender, SendLoop, SendGet, Transmit, Discard, SendExit
<1>7. ASSUME NEW k \in Conns, Receiver(k) \/ ReceivePacket(k) \/ Lose(k) PROVE QueueInv'
  BY <1>1, <1>7 DEF Receiver, ReceiveLoop, ReceiveTake, ReceivePacket, ReceiveEnd,
                    ReceiveExit, Lose
<1>8. CASE Stop \/ StopFlag \/ StopClose
  BY <1>1, <1>8 DEF Stop, StopFlag, StopClose
<1>9. CASE UNCHANGED vars
  BY <1>1, <1>9 DEF vars
<1> QED BY <1>3, <1>4, <1>5, <1>6, <1>7, <1>8, <1>9 DEF Next, Gui

-----------------------------------------------------------------------------
(* Control points *)

\* The control points and locals of the threads keep their types.
LEMMA ThreadsStep == ASSUME Inv, QueueInv, [Next]_vars PROVE ThreadsOK'
<1> USE DEF Inv, ThreadsOK, QueueInv, QueueOK
<1>1. CASE Manager
  <2>1. CASE ManagerSpawn
    <3>1. \A k \in Conns :
            /\ sender'[k] = IF k = made THEN "loop" ELSE sender[k]
            /\ receiver'[k] = IF k = made THEN "loop" ELSE receiver[k]
      BY <2>1 DEF ManagerSpawn
    <3>2. made \in Conns => sender[made] = "none" /\ receiver[made] = "none"
      BY <2>1 DEF ManagerSpawn, Fresh
    <3> QED BY <2>1, <3>1, <3>2 DEF ManagerSpawn
  <2> QED BY <1>1, <2>1
          DEF Manager, ManagerLoop, ManagerTest, Connect, ConnectFails, ManagerMark, ManagerDrain
<1>2. ASSUME NEW k \in Conns, Sender(k) PROVE ThreadsOK'
  <2>1. 0 \in Numbers /\ (queue # <<>> => Head(queue) \in Numbers /\ Head(queue) # 0)
    BY SocketClientAssumption DEF Numbers, Conns
  <2>2. CASE SendGet(k) BY <2>1, <2>2 DEF SendGet
  <2>3. CASE Transmit(k) \/ Discard(k) BY <2>1, <2>3 DEF Transmit, Discard
  <2>4. CASE SendLoop(k) \/ SendExit(k) BY <2>4 DEF SendLoop, SendExit
  <2> QED BY <1>2, <2>2, <2>3, <2>4 DEF Sender
<1>3. ASSUME NEW k \in Conns, Receiver(k) \/ ReceivePacket(k) \/ Lose(k)
      PROVE ThreadsOK'
  <2>1. 0 \in Numbers /\ sock \in Numbers
    BY SocketClientAssumption DEF Numbers, SocketsOK
  <2> QED BY <1>3, <2>1 DEF Receiver, ReceiveLoop, ReceiveTake, ReceivePacket, ReceiveEnd,
                            ReceiveExit, Lose
<1>4. CASE Gui
  BY <1>4 DEF Gui, SendPacket, Put, Stop, StopFlag, StopClose
<1>5. CASE UNCHANGED vars
  BY <1>5 DEF vars
<1> QED BY <1>1, <1>2, <1>3, <1>4, <1>5 DEF Next

-----------------------------------------------------------------------------
(* Flags and sockets *)

Sound == FlagsOK /\ SocketsOK /\ Manages

\* The manager connects only when there is no socket to lose.
LEMMA ManagerSound == ASSUME Inv, Manager PROVE Sound'
<1> USE SocketClientAssumption DEF Inv, Sound, FlagsOK, SocketsOK, Manages, Numbers, Conns
<1>1. CASE ManagerLoop BY <1>1 DEF ManagerLoop
<1>2. CASE ManagerTest BY <1>2 DEF ManagerTest
<1>3. CASE Connect
  <2>1. SocketsOK' BY <1>3 DEF Connect
  <2>2. Manages' BY <1>3 DEF Connect
  <2> QED BY <1>3, <2>1, <2>2 DEF Connect
<1>4. CASE ConnectFails BY <1>4 DEF ConnectFails
<1>5. CASE ManagerMark BY <1>5 DEF ManagerMark
<1>6. CASE ManagerDrain BY <1>6 DEF ManagerDrain
<1>7. CASE ManagerSpawn BY <1>7 DEF ManagerSpawn
<1> QED BY <1>1, <1>2, <1>3, <1>4, <1>5, <1>6, <1>7 DEF Manager

\* Whoever gets there first closes the socket and lowers the flag together.
LEMMA DisconnectSound ==
  ASSUME Inv, HandleDisconnect, UNCHANGED <<manager, gui>> PROVE Sound'
<1> USE DEF Inv, Sound
<1>1. CASE connected
  <2>1. connected' = FALSE /\ open' = open \ {sock} /\ sock' = 0
        /\ UNCHANGED <<running, made, lost, manager, gui>>
    BY <1>1 DEF HandleDisconnect
  <2>2. SocketsOK'
    BY <2>1, SocketClientAssumption DEF SocketsOK, Numbers
  <2>3. Manages'
    BY <1>1, <2>1 DEF Manages
  <2> QED BY <2>1, <2>2, <2>3 DEF FlagsOK
<1>2. CASE ~connected
  <2>1. UNCHANGED <<flags, sockets, manager, gui>>
    BY <1>2 DEF HandleDisconnect
  <2> QED BY <2>1 DEF FlagsOK, SocketsOK, Manages
<1> QED BY <1>1, <1>2

\* A thread of whatever connection closes the socket and lowers the flag, or neither.
LEMMA OthersSound ==
  ASSUME Inv, NEW k \in Conns, Sender(k) \/ Receiver(k) \/ ReceivePacket(k) \/ Lose(k)
  PROVE  Sound'
<1>1. CASE SendExit(k) \/ ReceiveExit(k)
  BY <1>1, DisconnectSound DEF SendExit, ReceiveExit
<1>2. CASE Lose(k)
  BY <1>2 DEF Lose, Inv, Sound, FlagsOK, SocketsOK, Manages
<1>3. CASE UNCHANGED <<flags, sockets, manager, gui>>
  BY <1>3 DEF Inv, Sound, FlagsOK, SocketsOK, Manages
<1> QED BY <1>1, <1>2, <1>3 DEF Sender, SendLoop, SendGet, Transmit, Discard, Receiver,
                                ReceiveLoop, ReceiveTake, ReceivePacket, ReceiveEnd

\* Once the GUI thread has lowered running, the promise is off.
LEMMA GuiSound == ASSUME Inv, Gui PROVE Sound'
<1> USE DEF Inv, Sound, FlagsOK, SocketsOK, Manages
<1>1. CASE SendPacket \/ Put
  <2>1. UNCHANGED <<flags, sockets, manager>>
    BY <1>1 DEF SendPacket, Put
  <2>2. gui' \in {"idle", "put"}
    BY <1>1 DEF SendPacket, Put
  <2>3. FlagsOK' /\ SocketsOK'
    BY <2>1
  <2>4. Manages'
    BY <2>1, <2>2
  <2> QED BY <2>3, <2>4
<1>2. CASE Stop BY <1>2 DEF Stop
<1>3. CASE StopFlag BY <1>3 DEF StopFlag
<1>4. CASE StopClose BY <1>4, SocketClientAssumption DEF StopClose, Numbers
<1> QED BY <1>1, <1>2, <1>3, <1>4 DEF Gui

-----------------------------------------------------------------------------

\* The invariant holds in every reachable state.
LEMMA InvHolds == Spec => [](Inv /\ QueueInv)
<1>1. Init => Inv /\ QueueInv
  <2> SUFFICES ASSUME Init PROVE Inv /\ QueueInv
    OBVIOUS
  <2> USE SocketClientAssumption DEF Init
  <2>1. 0 \in Numbers
    BY DEF Numbers
  <2>2. QueueInv
    BY DEF QueueInv, QueueOK, Room, Made, Fresh
  <2>3. FlagsOK /\ SocketsOK
    BY <2>1 DEF FlagsOK, SocketsOK
  <2>4. ThreadsOK
    BY <2>1 DEF ThreadsOK
  <2>5. Manages
    BY DEF Manages
  <2> QED BY <2>2, <2>3, <2>4, <2>5 DEF Inv
<1>2. ASSUME Inv, QueueInv, [Next]_vars PROVE Inv' /\ QueueInv'
  <2>1. Sound'
    <3>1. CASE UNCHANGED vars
      BY <3>1, <1>2 DEF vars, Inv, Sound, FlagsOK, SocketsOK, Manages
    <3> QED BY <1>2, <3>1, ManagerSound, OthersSound, GuiSound DEF Next
  <2> QED BY <1>2, <2>1, QueueStep, ThreadsStep DEF Inv, Sound
<1> QED BY <1>1, <1>2, PTL DEF Spec

\* Flags, sockets, queue and control points keep their types.
THEOREM TypeCorrect == Spec => []TypeOK
<1>1. Inv /\ QueueInv => TypeOK
  BY DEF Inv, QueueInv, TypeOK
<1> QED BY <1>1, InvHolds, PTL

\* No socket is leaked and no connection is a phantom while the client runs, for any
\* number of threads left over from earlier connections (socket_client.py,
\* _attempt_connect and _handle_disconnect).
THEOREM OneSocketOnly == Spec => []OneSocket
<1>1. Inv => OneSocket
  BY DEF Inv, Manages, OneSocket
<1> QED BY <1>1, InvHolds, PTL

-----------------------------------------------------------------------------
(* Leftover packets *)

\* What is queued was queued for the newest connection, or, until the queue is drained,
\* for the one before.  A send thread starts after that, and so it never finds a packet
\* of an earlier connection.
Queued ==
  \A i \in 1 .. Len(queue) :
    /\ queue[i] <= made /\ made <= queue[i] + 1
    /\ manager \notin {"mark", "drain"} => queue[i] = made

Started ==
  \A k \in Conns :
    sender[k] # "none" => k <= made /\ (manager \in {"mark", "drain", "spawn"} => k < made)

Leftovers == Queued /\ Started /\ OwnPackets

LEMMA ManagerLeftovers ==
  ASSUME Inv, QueueInv, Leftovers, Manager PROVE Leftovers'
<1> USE DEF Leftovers, Queued, Started, OwnPackets
<1> made \in Nat /\ queue \in Seq(Nat)
  BY SocketClientAssumption DEF Inv, SocketsOK, QueueInv, QueueOK, Numbers, Conns
<1>1. CASE ManagerLoop \/ ManagerTest \/ ConnectFails
  BY <1>1 DEF ManagerLoop, ManagerTest, ConnectFails
<1>2. CASE Connect
  <2>1. /\ made' = made + 1 /\ manager = "attempt" /\ manager' = "mark"
        /\ UNCHANGED <<queue, sender, held>>
    BY <1>2 DEF Connect
  <2>2. \A i \in 1 .. Len(queue) : queue[i] = made
    BY <2>1
  <2>3. \A k \in Conns : sender[k] # "none" => k \in Nat /\ k <= made
    BY DEF Conns
  <2> QED BY <2>1, <2>2, <2>3
<1>3. CASE ManagerMark BY <1>3 DEF ManagerMark
<1>4. CASE ManagerDrain
  <2>1. CASE queue = <<>> BY <1>4, <2>1 DEF ManagerDrain
  <2>2. CASE queue # <<>>
    <3>1. /\ Len(Tail(queue)) = Len(queue) - 1
          /\ \A i \in 1 .. Len(Tail(queue)) : Tail(queue)[i] = queue[i + 1] /\ i + 1 \in 1 .. Len(queue)
      BY <2>2
    <3>2. queue' = Tail(queue) /\ UNCHANGED <<manager, made, sender, held>>
      BY <1>4, <2>2 DEF ManagerDrain
    <3> QED BY <3>1, <3>2
  <2> QED BY <2>1, <2>2
<1>5. CASE ManagerSpawn
  <2>1. /\ manager' = "loop" /\ manager = "spawn" /\ UNCHANGED <<queue, made, held>>
        /\ sender' = [sender EXCEPT ![made] = "loop"]
    BY <1>5 DEF ManagerSpawn
  <2>2. \A k \in Conns : k # made => sender'[k] = sender[k]
    BY <2>1 DEF Inv, ThreadsOK
  <2> QED BY <2>1, <2>2
<1> QED BY <1>1, <1>2, <1>3, <1>4, <1>5 DEF Manager

\* The packet a thread takes was queued for its connection or a later one.
LEMMA SenderLeftovers ==
  ASSUME Inv, QueueInv, Leftovers, NEW k \in Conns, Sender(k) PROVE Leftovers'
<1> USE DEF Leftovers, Queued, Started, OwnPackets
<1> made \in Nat /\ queue \in Seq(Nat) /\ k \in Nat
  BY SocketClientAssumption DEF Inv, SocketsOK, QueueInv, QueueOK, Numbers, Conns
<1> sender \in [Conns -> {"none", "loop", "get", "hold", "exit", "ended"}]
    /\ held \in [Conns -> Numbers]
  BY DEF Inv, ThreadsOK
<1>1. UNCHANGED <<made, manager>>
  BY DEF Sender, SendLoop, SendGet, Transmit, Discard, SendExit, HandleDisconnect
<1>2. sender[k] # "none" /\ \A j \in Conns : j # k => sender'[j] = sender[j]
  BY DEF Sender, SendLoop, SendGet, Transmit, Discard, SendExit
<1>3. Started' BY <1>1, <1>2
<1>4. CASE SendGet(k) /\ queue # <<>>
  <2>1. /\ Len(Tail(queue)) = Len(queue) - 1 /\ Head(queue) = queue[1] /\ 1 \in 1 .. Len(queue)
        /\ \A i \in 1 .. Len(Tail(queue)) : Tail(queue)[i] = queue[i + 1] /\ i + 1 \in 1 .. Len(queue)
    BY <1>4
  <2>2. queue' = Tail(queue) /\ held' = [held EXCEPT ![k] = Head(queue)]
    BY <1>4 DEF SendGet
  <2>3. Queued' BY <1>1, <2>1, <2>2
  <2>4. k <= Head(queue) BY <1>2, <2>1
  <2>5. OwnPackets' BY <2>2, <2>4
  <2> QED BY <1>3, <2>3, <2>5
<1>5. CASE Transmit(k) \/ Discard(k)
  <2>1. held' = [held EXCEPT ![k] = 0] /\ UNCHANGED queue BY <1>5 DEF Transmit, Discard
  <2> QED BY <1>1, <1>3, <2>1
<1>6. CASE SendLoop(k) \/ SendExit(k) \/ (SendGet(k) /\ queue = <<>>)
  <2>1. UNCHANGED <<queue, held>> BY <1>6 DEF SendLoop, SendExit, SendGet
  <2> QED BY <1>1, <1>3, <2>1
<1> QED BY <1>4, <1>5, <1>6 DEF Sender

LEMMA LeftoversStep ==
  ASSUME Inv, QueueInv, Leftovers, [Next]_vars PROVE Leftovers'
<1>1. CASE Put
  <2> made \in Nat /\ queue \in Seq(Nat)
    BY SocketClientAssumption DEF Inv, SocketsOK, QueueInv, QueueOK, Numbers, Conns
  <2>1. queue' = Append(queue, made) /\ UNCHANGED <<made, manager, sender, held>>
    BY <1>1 DEF Put
  <2>2. /\ Len(queue') = Len(queue) + 1 /\ queue'[Len(queue) + 1] = made
        /\ \A i \in 1 .. Len(queue) : queue'[i] = queue[i]
    BY <2>1
  <2> QED BY <2>1, <2>2 DEF Leftovers, Queued, Started, OwnPackets
<1>2. CASE UNCHANGED <<queue, made, manager, sender, held>>
  BY <1>2 DEF Leftovers, Queued, Started, OwnPackets
<1>3. CASE SendPacket \/ Stop \/ StopFlag \/ StopClose \/ UNCHANGED vars
  BY <1>2, <1>3 DEF SendPacket, Stop, StopFlag, StopClose, vars
<1>4. ASSUME NEW k \in Conns, Receiver(k) \/ ReceivePacket(k) \/ Lose(k) PROVE Leftovers'
  BY <1>2, <1>4 DEF Receiver, ReceiveLoop, ReceiveTake, ReceivePacket, ReceiveEnd,
                    ReceiveExit, HandleDisconnect, Lose
<1> QED BY <1>1, <1>3, <1>4, ManagerLeftovers, SenderLeftovers DEF Next, Gui

\* A send thread sends nothing that was queued before its own connection was made, for
\* any number of connections and any length of the queue (socket_client.py,
\* _start_io_threads and _send_loop).
THEOREM OwnPacketsOnly == Spec => []OwnPackets
<1>1. Init => Leftovers
  BY DEF Init, Leftovers, Queued, Started, OwnPackets
<1>2. Inv /\ QueueInv /\ Leftovers /\ [Next]_vars => Leftovers' BY LeftoversStep
<1>3. Leftovers => OwnPackets BY DEF Leftovers
<1> QED BY <1>1, <1>2, <1>3, InvHolds, PTL DEF Spec

-----------------------------------------------------------------------------
(* Refinement *)

\* How a step of the client looks to those who see its connection only.
LEMMA LinkStep == ASSUME Inv, [Next]_vars PROVE [Connection!Next]_Connection!vars
<1> USE DEF Connection!Next, Connection!vars
<1>1. CASE Connect
  <2>1. CASE running
    <3>1. sock = 0 BY <1>1, <2>1 DEF Connect, Inv, Manages
    <3> QED BY <1>1, <2>1, <3>1 DEF Connect, Connection!Connect
  <2>2. CASE ~running BY <1>1, <2>2 DEF Connect, Connection!LastAttempt
  <2> QED BY <2>1, <2>2
<1>2. CASE ConnectFails
  <2>1. CASE running
    <3>1. sock = 0 BY <1>2, <2>1 DEF ConnectFails, Inv, Manages
    <3> QED BY <1>2, <2>1, <3>1 DEF ConnectFails
  <2>2. CASE ~running BY <1>2, <2>2 DEF ConnectFails, Connection!LastAttempt
  <2> QED BY <2>1, <2>2
<1>3. CASE ManagerLoop \/ ManagerTest
  BY <1>3 DEF ManagerLoop, ManagerTest, Connection!LastAttempt
<1>4. CASE ManagerMark \/ ManagerDrain \/ ManagerSpawn
  BY <1>4 DEF ManagerMark, ManagerDrain, ManagerSpawn
<1>5. ASSUME HandleDisconnect, UNCHANGED manager PROVE [Connection!Next]_Connection!vars
  BY <1>5 DEF HandleDisconnect, Connection!Close
<1>6. CASE Stop BY <1>6 DEF Stop, Connection!Stop
<1>7. CASE StopClose BY <1>7 DEF StopClose, Connection!Close
<1>8. CASE SendPacket \/ Put \/ StopFlag \/ UNCHANGED vars
  BY <1>8 DEF SendPacket, Put, StopFlag, vars
<1>9. ASSUME NEW k \in Conns, Sender(k) \/ Receiver(k) \/ ReceivePacket(k) \/ Lose(k)
      PROVE  [Connection!Next]_Connection!vars
  <2>1. CASE SendExit(k) \/ ReceiveExit(k) BY <1>5, <2>1 DEF SendExit, ReceiveExit
  <2>2. CASE UNCHANGED <<running, sock, made, manager>> BY <2>2
  <2> QED BY <1>9, <2>1, <2>2
          DEF Sender, SendLoop, SendGet, Transmit, Discard, Receiver, ReceiveLoop,
              ReceiveTake, ReceivePacket, ReceiveEnd, Lose
<1> QED BY <1>1, <1>2, <1>3, <1>4, <1>6, <1>7, <1>8, <1>9 DEF Next, Manager, Gui

\* The client's connection implements Link: one connection at a time while it runs, and
\* one more at most when it stops.
THEOREM ImplementsLink == Spec => IsLink
<1>1. Init => Connection!Init BY DEF Init, Connection!Init
<1>2. Inv /\ [Next]_vars => [Connection!Next]_Connection!vars BY LinkStep
<1> QED BY <1>1, <1>2, InvHolds, PTL DEF Spec, IsLink, Connection!Spec

=============================================================================

------------------------------- MODULE Framing -------------------------------
(***************************************************************************)
(* Frames on the stream of bytes of one connection, from the client to the *)
(* server (src/common/protocol.py, send_framed_packet and                  *)
(* receive_framed_packet).  The send threads of the client write whole     *)
(* frames under self.lock (src/client/socket_client.py); sendall hands     *)
(* them to the network in pieces, recv returns what has come, and the      *)
(* connection may end anywhere, also within a frame.                       *)
(*                                                                         *)
(* A byte is known by the packet it belongs to, the n-th that was sent,    *)
(* and its place i in the frame.  A frame is a header of HeaderSize bytes, *)
(* 4 in the code, and the bytes of the packet.                             *)
(***************************************************************************)
EXTENDS Naturals, Sequences

CONSTANTS
  Threads,     \* send threads
  Packets,
  Size,        \* number of bytes of each packet
  HeaderSize,
  MaxPackets   \* bound on the number of packets sent

\* The JSON text of a packet has at least its two braces.
ASSUME FramingAssumption ==
  /\ Size \in [Packets -> Nat \ {0}]
  /\ HeaderSize \in Nat \ {0} /\ MaxPackets \in Nat

VARIABLES
  sent,   \* the packets of which a frame was begun
  start,  \* history: how many bytes of the stream come before each of their frames
  rest,   \* what the sendall of each thread has not yet written
  wire,   \* bytes written and not yet read
  open,   \* the connection stands
  reader, \* what the reader waits for, or that it has ended
  data,   \* the bytearray of _recv_all
  need,   \* and its argument n
  got     \* the packets the reader returned

vars == <<sent, start, rest, wire, open, reader, data, need, got>>

Byte == [n : Nat, i : Nat]

\* The types of both ends and of the network; the reader never has more than the
\* bytes it asked for, of which the rest would be lost.
TypeOK ==
  /\ sent \in Seq(Packets) /\ start \in Seq(Nat) /\ Len(start) = Len(sent)
  /\ rest \in [Threads -> Seq(Byte)]
  /\ wire \in Seq(Byte)
  /\ open \in BOOLEAN
  /\ reader \in {"header", "body", "ended"}
  /\ data \in Seq(Byte) /\ need \in Nat /\ Len(data) <= need
  /\ got \in Seq(Packets)

Init ==
  /\ sent = <<>> /\ start = <<>>
  /\ rest = [t \in Threads |-> <<>>]
  /\ wire = <<>> /\ open = TRUE
  /\ reader = "header" /\ data = <<>> /\ need = HeaderSize
  /\ got = <<>>

FrameSize(p) == HeaderSize + Size[p]

\* The bytes of the n-th packet's frame at the places i+1 to i+k.
Piece(n, i, k) == [j \in 1 .. k |-> [n |-> n, i |-> i + j]]

-----------------------------------------------------------------------------
(* The sender *)

\* send_framed_packet, under self.lock.
SlipMayStart == TRUE
MayStart     == \A t \in Threads : rest[t] = <<>>

StreamLength == IF sent = <<>> THEN 0 ELSE start[Len(sent)] + FrameSize(sent[Len(sent)])

Send(t, p) ==
  /\ open /\ rest[t] = <<>> /\ MayStart /\ Len(sent) < MaxPackets
  /\ sent' = Append(sent, p)
  /\ start' = Append(start, StreamLength)
  /\ rest' = [rest EXCEPT ![t] = Piece(Len(sent) + 1, 0, FrameSize(p))]
  /\ UNCHANGED <<wire, open, reader, data, need, got>>

\* sendall goes on until everything is written ...
Write(t) ==
  /\ open
  /\ \E k \in 1 .. Len(rest[t]) :
       /\ wire' = wire \o SubSeq(rest[t], 1, k)
       /\ rest' = [rest EXCEPT ![t] = SubSeq(rest[t], k + 1, Len(rest[t]))]
  /\ UNCHANGED <<sent, start, open, reader, data, need, got>>

\* ... or it raises, and the frame stays cut.
WriteFails(t) ==
  /\ ~open /\ rest[t] # <<>>
  /\ rest' = [rest EXCEPT ![t] = <<>>]
  /\ UNCHANGED <<sent, start, wire, open, reader, data, need, got>>

\* Either side closes, or the network fails: bytes on their way may be lost.
Close ==
  /\ open /\ open' = FALSE
  /\ \E k \in 0 .. Len(wire) : wire' = SubSeq(wire, 1, k)
  /\ UNCHANGED <<sent, start, rest, reader, data, need, got>>

-----------------------------------------------------------------------------
(* The reader *)

\* recv returns some of the bytes it is asked for, until there are enough.
SlipMissing == need
Missing     == need - Len(data)

SlipEnough == data # <<>>
Enough     == Len(data) >= need

Recv ==
  /\ reader # "ended" /\ ~Enough
  /\ \E k \in 1 .. Len(wire) :
       /\ k <= Missing
       /\ data' = data \o SubSeq(wire, 1, k)
       /\ wire' = SubSeq(wire, k + 1, Len(wire))
  /\ UNCHANGED <<sent, start, rest, open, reader, need, got>>

\* The packets of which the reader has the header, or the text.
Headers == {n \in 1 .. Len(sent) : data = Piece(n, 0, HeaderSize)}
Texts   == {n \in 1 .. Len(sent) : data = Piece(n, HeaderSize, Size[sent[n]])}

HeaderDone ==
  /\ reader = "header" /\ Enough
  /\ \E n \in Headers : need' = Size[sent[n]]
  /\ reader' = "body" /\ data' = <<>>
  /\ UNCHANGED <<sent, start, rest, wire, open, got>>

BodyDone ==
  /\ reader = "body" /\ Enough
  /\ \E n \in Texts : got' = Append(got, sent[n])
  /\ reader' = "header" /\ data' = <<>> /\ need' = HeaderSize
  /\ UNCHANGED <<sent, start, rest, wire, open>>

\* Nothing more comes; or the bytes are no header and no packet, and what they read
\* as leads the reader astray for good.
IsEnd    == ~open /\ wire = <<>> /\ ~Enough
IsAstray == Enough /\ (IF reader = "header" THEN Headers ELSE Texts) = {}

ReadEnds ==
  /\ reader # "ended" /\ (IsEnd \/ IsAstray)
  /\ reader' = "ended" /\ data' = <<>>
  /\ UNCHANGED <<sent, start, rest, wire, open, need, got>>

Read == Recv \/ HeaderDone \/ BodyDone \/ ReadEnds

Next ==
  \/ \E t \in Threads : (\E p \in Packets : Send(t, p)) \/ Write(t) \/ WriteFails(t)
  \/ Close \/ Read

Spec == Init /\ [][Next]_vars

\* Threads that have something to write do so, unless the connection ends, and the
\* reader of the server is a thread that does nothing else.
FairSpec ==
  Spec /\ WF_vars(Read) /\ \A t \in Threads : WF_vars(Write(t)) /\ WF_vars(WriteFails(t))

-----------------------------------------------------------------------------
(* Properties *)

\* However the pieces of writes and reads fall, and whichever thread sends, what the
\* reader has is the beginning of the next packet's header, or of its text after a
\* header that gave its length.
InStep ==
  LET n == Len(got) + 1 IN
  \/ data = <<>> /\ reader = "ended"
  \/ data = Piece(n, 0, Len(data)) /\ reader = "header" /\ need = HeaderSize
  \/ /\ n <= Len(sent) /\ reader = "body" /\ need = Size[sent[n]]
     /\ data = Piece(n, HeaderSize, Len(data))

\* Frames make a stream of bytes a channel of packets: no packet is lost, doubled,
\* altered or overtaken, and each arrives unless the connection ends.
Channel ==
  INSTANCE PacketChannel WITH
    Packets <- Packets,
    sent    <- sent,
    got     <- got,
    open    <- open
IsChannel == Channel!FairSpec

=============================================================================

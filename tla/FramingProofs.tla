---------------------------- MODULE FramingProofs ----------------------------
(***************************************************************************)
(* Framing makes the stream a channel of packets.  The argument counts: a  *)
(* byte that is on its way, or still to be written, has its place in the   *)
(* stream (Offset), the frames take up disjoint stretches of it (Laid), and *)
(* the reader is at a known place too (Position); so the next byte it reads *)
(* is the one it waits for.                                                *)
(***************************************************************************)
EXTENDS Framing, TLAPS

Offset(b) == start[b.n] + b.i

Valid(b) == b.n \in 1 .. Len(sent) /\ b.i \in 1 .. FrameSize(sent[b.n])

\* Where the next packet begins that the reader has not returned.
NextStart == IF Len(got) < Len(sent) THEN start[Len(got) + 1] ELSE StreamLength

Position == NextStart + Len(data) + (IF reader = "body" THEN HeaderSize ELSE 0)

Laid ==
  /\ sent # <<>> => start[1] = 0
  /\ \A m, n \in 1 .. Len(sent) : m < n => start[m] + FrameSize(sent[m]) <= start[n]
  /\ \A n \in 1 .. Len(sent) : n > 1 => start[n] = start[n - 1] + FrameSize(sent[n - 1])

OnWire ==
  reader # "ended" =>
    \A j \in 1 .. Len(wire) : Valid(wire[j]) /\ Offset(wire[j]) = Position + j

\* The frame being written is the last, and its bytes follow those on the wire.
Writing ==
  open =>
    /\ reader # "ended"
    /\ \A t \in Threads : rest[t] # <<>> =>
         /\ \A u \in Threads : u # t => rest[u] = <<>>
         /\ \A j \in 1 .. Len(rest[t]) :
              Valid(rest[t][j]) /\ Offset(rest[t][j]) = Position + Len(wire) + j
         /\ Position + Len(wire) + Len(rest[t]) = StreamLength
    /\ (\A t \in Threads : rest[t] = <<>>) => Position + Len(wire) = StreamLength

Prefix ==
  /\ Len(got) <= Len(sent)
  /\ \A i \in 1 .. Len(got) : got[i] = sent[i]

Begun == data # <<>> => Len(got) < Len(sent)

IInv == TypeOK /\ Laid /\ OnWire /\ Writing /\ Prefix /\ Begun /\ InStep

-----------------------------------------------------------------------------

LEMMA SizeType == ASSUME NEW p \in Packets PROVE FrameSize(p) \in Nat /\ FrameSize(p) > HeaderSize
                    /\ FrameSize(p) = HeaderSize + Size[p] /\ Size[p] \in Nat /\ Size[p] > 0
                    /\ HeaderSize \in Nat /\ HeaderSize > 0
BY FramingAssumption DEF FrameSize

LEMMA PieceType ==
  ASSUME NEW n \in Nat, NEW i \in Nat, NEW k \in Nat
  PROVE  /\ Piece(n, i, k) \in Seq(Byte)
         /\ Len(Piece(n, i, k)) = k
         /\ \A j \in 1 .. k : Piece(n, i, k)[j] = [n |-> n, i |-> i + j]
BY DEF Piece, Byte

\* Sequences are equal to a Piece if their bytes are.
LEMMA IsPiece ==
  ASSUME NEW s \in Seq(Byte), NEW n \in Nat, NEW i \in Nat,
         \A j \in 1 .. Len(s) : s[j] = [n |-> n, i |-> i + j]
  PROVE  s = Piece(n, i, Len(s))
  <1>1. s = [j \in 1 .. Len(s) |-> s[j]] OBVIOUS
  <1>2. [j \in 1 .. Len(s) |-> s[j]] = [j \in 1 .. Len(s) |-> [n |-> n, i |-> i + j]] OBVIOUS
  <1> QED BY <1>1, <1>2 DEF Piece

LEMMA Split ==
  ASSUME NEW S, NEW s \in Seq(S), NEW k \in 0 .. Len(s)
  PROVE  /\ SubSeq(s, 1, k) \in Seq(S) /\ Len(SubSeq(s, 1, k)) = k
         /\ \A j \in 1 .. k : SubSeq(s, 1, k)[j] = s[j]
         /\ SubSeq(s, k + 1, Len(s)) \in Seq(S)
         /\ Len(SubSeq(s, k + 1, Len(s))) = Len(s) - k
         /\ \A j \in 1 .. Len(s) - k : SubSeq(s, k + 1, Len(s))[j] = s[k + j]
  <1>1. SubSeq(s, 1, k) = [j \in 1 .. k |-> s[j]] OBVIOUS
  <1>2. SubSeq(s, k + 1, Len(s)) = [j \in 1 .. Len(s) - k |-> s[k + j]]
    <2>1. \A j \in 1 .. Len(s) - k : k + 1 + j - 1 = k + j OBVIOUS
    <2> QED BY <2>1
  <1>3. \A j \in 1 .. Len(s) : s[j] \in S OBVIOUS
  <1>4. [j \in 1 .. k |-> s[j]] \in Seq(S) BY <1>3
  <1>5. [j \in 1 .. Len(s) - k |-> s[k + j]] \in Seq(S) BY <1>3
  <1> QED BY <1>1, <1>2, <1>4, <1>5

LEMMA StreamType ==
  ASSUME TypeOK
  PROVE  /\ StreamLength \in Nat
         /\ \A n \in 1 .. Len(sent) : start[n] \in Nat /\ sent[n] \in Packets
  <1>1. \A n \in 1 .. Len(sent) : start[n] \in Nat /\ sent[n] \in Packets BY DEF TypeOK
  <1>2. CASE sent = <<>> BY <1>2, <1>1 DEF StreamLength
  <1>3. CASE sent # <<>>
    <2>1. Len(sent) \in 1 .. Len(sent) BY <1>3 DEF TypeOK
    <2> QED BY <1>3, <1>1, <2>1, SizeType DEF StreamLength
  <1> QED BY <1>1, <1>2, <1>3

\* No frame goes beyond the end of the stream.
LEMMA Within ==
  ASSUME TypeOK, Laid, NEW n \in 1 .. Len(sent)
  PROVE  start[n] + FrameSize(sent[n]) <= StreamLength
  <1>1. Len(sent) \in Nat /\ sent # <<>> BY DEF TypeOK
  <1>2. CASE n = Len(sent) BY <1>1, <1>2, StreamType, SizeType DEF StreamLength
  <1>3. CASE n < Len(sent)
    <2>1. start[n] + FrameSize(sent[n]) <= start[Len(sent)] BY <1>1, <1>3 DEF Laid
    <2> QED BY <2>1, <1>1, StreamType, SizeType DEF StreamLength
  <1> QED BY <1>1, <1>2, <1>3

\* A place in the stream belongs to one byte of one frame.
LEMMA Unique ==
  ASSUME TypeOK, Laid, NEW b \in Byte, Valid(b), NEW n \in 1 .. Len(sent),
         start[n] < Offset(b), Offset(b) <= start[n] + FrameSize(sent[n])
  PROVE  b = [n |-> n, i |-> Offset(b) - start[n]]
  <1>1. /\ b.n \in 1 .. Len(sent) /\ b.i \in 1 .. FrameSize(sent[b.n]) /\ Len(sent) \in Nat
        /\ start[n] \in Nat /\ start[b.n] \in Nat /\ sent[n] \in Packets /\ sent[b.n] \in Packets
    BY StreamType DEF Valid, TypeOK
  <1>2. FrameSize(sent[n]) \in Nat /\ FrameSize(sent[b.n]) \in Nat BY <1>1, SizeType
  <1>3. ~(b.n < n)
    <2> SUFFICES ASSUME b.n < n PROVE FALSE OBVIOUS
    <2>1. start[b.n] + FrameSize(sent[b.n]) <= start[n] BY <1>1 DEF Laid
    <2> QED BY <2>1, <1>1, <1>2 DEF Offset
  <1>4. ~(n < b.n)
    <2> SUFFICES ASSUME n < b.n PROVE FALSE OBVIOUS
    <2>1. start[n] + FrameSize(sent[n]) <= start[b.n] BY <1>1 DEF Laid
    <2> QED BY <2>1, <1>1, <1>2 DEF Offset
  <1>5. b.n = n BY <1>1, <1>3, <1>4
  <1>6. b.i = Offset(b) - start[n] BY <1>1, <1>2, <1>5 DEF Offset
  <1> QED BY <1>5, <1>6 DEF Byte

LEMMA PositionType ==
  ASSUME TypeOK, Prefix
  PROVE  NextStart \in Nat /\ Position \in Nat /\ Position >= NextStart
  <1>1. Len(got) \in Nat /\ Len(sent) \in Nat /\ Len(data) \in Nat BY DEF TypeOK
  <1>2. NextStart \in Nat
    <2>1. CASE Len(got) < Len(sent)
      <3>1. Len(got) + 1 \in 1 .. Len(sent) BY <1>1, <2>1
      <3> QED BY <3>1, <2>1, StreamType DEF NextStart
    <2>2. CASE ~(Len(got) < Len(sent)) BY <2>2, StreamType DEF NextStart
    <2> QED BY <2>1, <2>2
  <1> QED BY <1>1, <1>2, FramingAssumption DEF Position

-----------------------------------------------------------------------------

\* Both ends and the network keep their types, for any packets, threads and sizes.
THEOREM TypeCorrect == Spec => []TypeOK
  <1>1. Init => TypeOK BY FramingAssumption DEF Init, TypeOK
  <1>2. TypeOK /\ [Next]_vars => TypeOK'
    <2> SUFFICES ASSUME TypeOK, [Next]_vars PROVE TypeOK' OBVIOUS
    <2> USE DEF TypeOK
    <2>1. ASSUME NEW t \in Threads, NEW p \in Packets, Send(t, p) PROVE TypeOK'
      <3>1. StreamLength \in Nat BY StreamType
      <3>2. FrameSize(p) \in Nat BY SizeType
      <3>3. Piece(Len(sent) + 1, 0, FrameSize(p)) \in Seq(Byte) BY <3>2, PieceType
      <3> QED BY <2>1, <3>1, <3>3 DEF Send
    <2>2. ASSUME NEW t \in Threads, Write(t) PROVE TypeOK'
      <3>1. PICK k \in 1 .. Len(rest[t]) :
              /\ wire' = wire \o SubSeq(rest[t], 1, k)
              /\ rest' = [rest EXCEPT ![t] = SubSeq(rest[t], k + 1, Len(rest[t]))]
        BY <2>2 DEF Write
      <3>2. /\ SubSeq(rest[t], 1, k) \in Seq(Byte)
            /\ SubSeq(rest[t], k + 1, Len(rest[t])) \in Seq(Byte)
        BY <3>1, Split
      <3>3. wire' \in Seq(Byte) /\ rest' \in [Threads -> Seq(Byte)] BY <3>1, <3>2
      <3> QED BY <2>2, <3>3 DEF Write
    <2>3. ASSUME NEW t \in Threads, WriteFails(t) PROVE TypeOK'
      BY <2>3 DEF WriteFails
    <2>4. ASSUME Close PROVE TypeOK'
      <3>1. PICK k \in 0 .. Len(wire) : wire' = SubSeq(wire, 1, k) BY <2>4 DEF Close
      <3>2. wire' \in Seq(Byte) BY <3>1, Split
      <3> QED BY <2>4, <3>2 DEF Close
    <2>5. ASSUME Recv PROVE TypeOK'
      <3>1. PICK k \in 1 .. Len(wire) :
              /\ k <= Missing
              /\ data' = data \o SubSeq(wire, 1, k)
              /\ wire' = SubSeq(wire, k + 1, Len(wire))
        BY <2>5 DEF Recv
      <3>2. /\ SubSeq(wire, 1, k) \in Seq(Byte) /\ Len(SubSeq(wire, 1, k)) = k
            /\ SubSeq(wire, k + 1, Len(wire)) \in Seq(Byte)
        BY <3>1, Split
      <3>3. data' \in Seq(Byte) /\ Len(data') <= need /\ wire' \in Seq(Byte)
        BY <3>1, <3>2 DEF Missing
      <3> QED BY <2>5, <3>3 DEF Recv
    <2>6. ASSUME HeaderDone PROVE TypeOK'
      BY <2>6, FramingAssumption, StreamType DEF HeaderDone, Headers
    <2>7. ASSUME BodyDone PROVE TypeOK'
      BY <2>7, FramingAssumption, StreamType DEF BodyDone, Texts
    <2>8. ASSUME ReadEnds PROVE TypeOK'
      BY <2>8 DEF ReadEnds
    <2>9. CASE UNCHANGED vars BY <2>9 DEF vars
    <2> QED BY <2>1, <2>2, <2>3, <2>4, <2>5, <2>6, <2>7, <2>8, <2>9 DEF Next, Read
  <1> QED BY <1>1, <1>2, PTL DEF Spec

-----------------------------------------------------------------------------

LEMMA InitInv == Init => IInv
  <1> SUFFICES ASSUME Init PROVE IInv OBVIOUS
  <1>1. TypeOK BY FramingAssumption DEF Init, TypeOK
  <1>2. StreamLength = 0 /\ NextStart = 0 /\ Position = 0
    BY FramingAssumption DEF Init, StreamLength, NextStart, Position
  <1>3. data = Piece(Len(got) + 1, 0, Len(data)) BY DEF Init, Piece
  <1> QED BY <1>1, <1>2, <1>3, FramingAssumption
       DEF Init, IInv, Laid, OnWire, Writing, Prefix, Begun, InStep

\* What a new frame leaves as it was.
LEMMA SendKeeps ==
  ASSUME IInv, NEW t \in Threads, NEW p \in Packets, Send(t, p), TypeOK'
  PROVE  /\ Laid' /\ Position' = Position /\ StreamLength' = StreamLength + FrameSize(p)
         /\ \A b \in Byte : Valid(b) => Valid(b)' /\ Offset(b)' = Offset(b)
  <1> DEFINE L == Len(sent)
  <1>1. L \in Nat /\ StreamLength \in Nat /\ FrameSize(p) \in Nat BY StreamType, SizeType DEF IInv, TypeOK
  <1>2. sent' = Append(sent, p) /\ start' = Append(start, StreamLength) BY DEF Send
  <1>3. got' = got /\ data' = data /\ reader' = reader BY DEF Send
  <1>4. /\ Len(sent') = L + 1 /\ sent'[L + 1] = p /\ start'[L + 1] = StreamLength
        /\ \A n \in 1 .. L : sent'[n] = sent[n] /\ start'[n] = start[n]
    BY <1>2 DEF IInv, TypeOK
  <1>5. sent' # <<>> BY <1>1, <1>4
  <1>6. StreamLength' = StreamLength + FrameSize(p) BY <1>1, <1>4, <1>5 DEF StreamLength
  <1>7. \A b \in Byte : Valid(b) => Valid(b)' /\ Offset(b)' = Offset(b)
    BY <1>1, <1>4 DEF Valid, Offset, FrameSize
  <1>8. Laid'
    <2>1. start'[1] = 0
      <3>1. CASE sent = <<>> BY <3>1, <1>1, <1>4 DEF StreamLength
      <3>2. CASE sent # <<>>
        <4>1. start[1] = 0 /\ L # 0 BY <3>2 DEF Laid, IInv, TypeOK
        <4> QED BY <4>1, <1>1, <1>4
      <3> QED BY <3>1, <3>2
    <2>2. ASSUME NEW m \in 1 .. L + 1, NEW n \in 1 .. L + 1, m < n
          PROVE  start'[m] + FrameSize(sent'[m]) <= start'[n]
      <3>1. m \in 1 .. L BY <2>2, <1>1
      <3>2. CASE n \in 1 .. L BY <3>1, <3>2, <2>2, <1>4 DEF Laid, IInv
      <3>3. CASE n = L + 1 BY <3>1, <3>3, <1>4, Within DEF IInv
      <3> QED BY <3>2, <3>3, <1>1
    <2>3. ASSUME NEW n \in 1 .. L + 1, n > 1
          PROVE  start'[n] = start'[n - 1] + FrameSize(sent'[n - 1])
      <3>1. n - 1 \in 1 .. L BY <2>3, <1>1
      <3>2. CASE n \in 1 .. L BY <3>1, <3>2, <2>3, <1>4 DEF Laid, IInv
      <3>3. CASE n = L + 1 BY <3>1, <3>3, <1>1, <1>4 DEF StreamLength, IInv, TypeOK
      <3> QED BY <3>2, <3>3, <1>1
    <2> QED BY <2>1, <2>2, <2>3, <1>4 DEF Laid, FrameSize
  <1>9. Position' = Position
    <2>1. Len(got) \in Nat /\ Len(got) <= L BY DEF IInv, Prefix, TypeOK
    <2>2. NextStart' = NextStart
      <3>1. CASE Len(got) < L
        <4>1. Len(got) + 1 \in 1 .. L /\ Len(got) < Len(sent') BY <2>1, <3>1, <1>1, <1>4
        <4> QED BY <4>1, <3>1, <1>4, <1>3 DEF NextStart
      <3>2. CASE Len(got) = L
        <4>1. Len(got) < Len(sent') /\ ~(Len(got) < L) BY <2>1, <3>2, <1>1, <1>4
        <4> QED BY <4>1, <3>2, <1>4, <1>3 DEF NextStart
      <3> QED BY <2>1, <3>1, <3>2, <1>1
    <2> QED BY <2>2, <1>3 DEF Position
  <1> QED BY <1>6, <1>7, <1>8, <1>9

LEMMA SendInv == ASSUME IInv, NEW t \in Threads, NEW p \in Packets, Send(t, p), TypeOK' PROVE IInv'
  <1> DEFINE L == Len(sent)
  <1>1. L \in Nat /\ StreamLength \in Nat /\ FrameSize(p) \in Nat /\ Position \in Nat
        /\ Len(wire) \in Nat
    BY StreamType, SizeType, PositionType DEF IInv, TypeOK
  <1>2. /\ Laid' /\ Position' = Position /\ StreamLength' = StreamLength + FrameSize(p)
        /\ \A b \in Byte : Valid(b) => Valid(b)' /\ Offset(b)' = Offset(b)
    BY SendKeeps
  <1>3. OnWire'
    <2>1. \A j \in 1 .. Len(wire) : wire[j] \in Byte BY DEF IInv, TypeOK
    <2> QED BY <2>1, <1>2 DEF OnWire, IInv, Send
  <1>4. Writing'
    <2>1. /\ rest' = [rest EXCEPT ![t] = Piece(L + 1, 0, FrameSize(p))]
          /\ \A u \in Threads : rest[u] = <<>>
          /\ rest \in [Threads -> Seq(Byte)] /\ UNCHANGED <<wire, reader, open>> /\ open
      BY DEF Send, MayStart, IInv, TypeOK
    <2>2. Position + Len(wire) = StreamLength /\ reader # "ended" BY <2>1 DEF IInv, Writing
    <2>3. /\ Len(rest'[t]) = FrameSize(p)
          /\ \A j \in 1 .. FrameSize(p) : rest'[t][j] = [n |-> L + 1, i |-> j]
      <3>1. rest'[t] = Piece(L + 1, 0, FrameSize(p)) BY <2>1
      <3>2. L + 1 \in Nat /\ \A j \in 1 .. FrameSize(p) : 0 + j = j BY <1>1
      <3>3. /\ Len(Piece(L + 1, 0, FrameSize(p))) = FrameSize(p)
            /\ \A j \in 1 .. FrameSize(p) : Piece(L + 1, 0, FrameSize(p))[j] = [n |-> L + 1, i |-> 0 + j]
        BY <1>1 DEF Piece
      <3> QED BY <3>1, <3>2, <3>3
    <2>4. sent'[L + 1] = p /\ Len(sent') = L + 1 /\ start'[L + 1] = StreamLength
      BY DEF Send, IInv, TypeOK
    <2>5. \A j \in 1 .. FrameSize(p) : Valid(rest[t][j])' /\ Offset(rest[t][j])' = StreamLength + j
      <3> SUFFICES ASSUME NEW j \in 1 .. FrameSize(p)
                   PROVE  Valid(rest[t][j])' /\ Offset(rest[t][j])' = StreamLength + j
        OBVIOUS
      <3>1. rest'[t][j] = [n |-> L + 1, i |-> j] BY <2>3
      <3>2. rest'[t][j].n = L + 1 /\ rest'[t][j].i = j BY <3>1
      <3>3. L + 1 \in 1 .. L + 1 BY <1>1
      <3> QED BY <3>2, <3>3, <2>4 DEF Valid, Offset
    <2>6. rest'[t] # <<>> BY <2>3, SizeType, FramingAssumption
    <2>7. \A u \in Threads : u # t => rest'[u] = <<>> BY <2>1
    <2>8. \A u \in Threads : rest'[u] # <<>> => u = t BY <2>7
    <2> QED BY <2>1, <2>2, <2>3, <2>5, <2>6, <2>7, <2>8, <1>1, <1>2 DEF Writing
  <1>5. Prefix' /\ Begun'
    BY DEF Send, IInv, Prefix, Begun, TypeOK
  <1>6. InStep'
    <2>1. UNCHANGED <<got, data, reader, need>> /\ Len(sent') = L + 1 /\ Len(got) \in Nat
          /\ \A n \in 1 .. L : sent'[n] = sent[n]
      BY DEF Send, IInv, TypeOK
    <2> QED BY <2>1, <1>1 DEF InStep, IInv
  <1> QED BY <1>2, <1>3, <1>4, <1>5, <1>6 DEF IInv

\* The other steps leave the frames where they are.
LEMMA StreamKept ==
  ASSUME UNCHANGED <<sent, start>>
  PROVE  /\ StreamLength' = StreamLength /\ (Laid => Laid')
         /\ \A b \in Byte : (Valid(b) <=> Valid(b)') /\ Offset(b)' = Offset(b)
BY DEF StreamLength, Laid, Valid, Offset

LEMMA WriteInv == ASSUME IInv, NEW t \in Threads, Write(t), TypeOK' PROVE IInv'
  <1>1. PICK k \in 1 .. Len(rest[t]) :
          /\ wire' = wire \o SubSeq(rest[t], 1, k)
          /\ rest' = [rest EXCEPT ![t] = SubSeq(rest[t], k + 1, Len(rest[t]))]
    BY DEF Write
  <1> DEFINE m == Len(rest[t])
  <1>2. /\ rest \in [Threads -> Seq(Byte)] /\ rest[t] \in Seq(Byte) /\ wire \in Seq(Byte)
        /\ k \in 0 .. m /\ k > 0 /\ m \in Nat /\ Len(wire) \in Nat /\ rest[t] # <<>>
        /\ Position \in Nat
    BY PositionType DEF IInv, TypeOK
  <1>3. /\ SubSeq(rest[t], 1, k) \in Seq(Byte) /\ Len(SubSeq(rest[t], 1, k)) = k
        /\ \A j \in 1 .. k : SubSeq(rest[t], 1, k)[j] = rest[t][j]
        /\ rest'[t] = SubSeq(rest[t], k + 1, m) /\ Len(rest'[t]) = m - k
        /\ \A j \in 1 .. m - k : rest'[t][j] = rest[t][k + j]
    BY <1>1, <1>2, Split
  <1>4. /\ Len(wire') = Len(wire) + k
        /\ \A j \in 1 .. Len(wire) : wire'[j] = wire[j]
        /\ \A j \in 1 .. k : wire'[Len(wire) + j] = rest[t][j]
    BY <1>1, <1>2, <1>3
  <1>5. /\ open /\ open' = open /\ reader' = reader /\ data' = data /\ got' = got /\ need' = need
        /\ sent' = sent /\ start' = start
    BY DEF Write
  <1>6. /\ StreamLength' = StreamLength /\ Laid' /\ Position' = Position
        /\ \A b \in Byte : (Valid(b) <=> Valid(b)') /\ Offset(b)' = Offset(b)
    BY <1>5, StreamKept DEF IInv, Position, NextStart
  <1>7. /\ reader # "ended" /\ \A u \in Threads : u # t => rest[u] = <<>>
        /\ \A j \in 1 .. m : Valid(rest[t][j]) /\ Offset(rest[t][j]) = Position + Len(wire) + j
        /\ Position + Len(wire) + m = StreamLength
    BY <1>2, <1>5 DEF IInv, Writing
  <1>8. \A j \in 1 .. m : rest[t][j] \in Byte BY <1>2
  <1>9. OnWire'
    <2> SUFFICES ASSUME NEW j \in 1 .. Len(wire')
                 PROVE  Valid(wire[j])' /\ Offset(wire[j])' = Position + j
      BY <1>6 DEF OnWire
    <2>1. CASE j \in 1 .. Len(wire)
      <3>1. wire'[j] = wire[j] /\ wire[j] \in Byte BY <2>1, <1>2, <1>4
      <3>2. Valid(wire[j]) /\ Offset(wire[j]) = Position + j BY <2>1, <1>7 DEF IInv, OnWire
      <3> QED BY <3>1, <3>2, <1>6 DEF Valid, Offset
    <2>2. CASE j \notin 1 .. Len(wire)
      <3>1. PICK i \in 1 .. k : j = Len(wire) + i
        <4>1. j - Len(wire) \in 1 .. k /\ j = Len(wire) + (j - Len(wire)) BY <2>2, <1>2, <1>4
        <4> QED BY <4>1
      <3>2. i \in 1 .. m /\ wire'[j] = rest[t][i] BY <3>1, <1>2, <1>4
      <3>3. Valid(rest[t][i]) /\ Offset(rest[t][i]) = Position + j BY <3>1, <3>2, <1>2, <1>7
      <3> QED BY <3>2, <3>3, <1>5 DEF Valid, Offset
    <2> QED BY <2>1, <2>2
  <1>10. Writing'
    <2>1. \A u \in Threads : u # t => rest'[u] = <<>> BY <1>1, <1>2, <1>7
    <2>2. \A j \in 1 .. m - k : Valid(rest[t][j])' /\ Offset(rest[t][j])' = Position + Len(wire') + j
      <3> SUFFICES ASSUME NEW j \in 1 .. m - k
                   PROVE  Valid(rest[t][j])' /\ Offset(rest[t][j])' = Position + Len(wire') + j
        OBVIOUS
      <3>1. k + j \in 1 .. m /\ rest'[t][j] = rest[t][k + j] BY <1>2, <1>3
      <3>2. Valid(rest[t][k + j]) /\ Offset(rest[t][k + j]) = Position + Len(wire) + (k + j)
        BY <3>1, <1>7
      <3> QED BY <3>1, <3>2, <1>2, <1>4, <1>5 DEF Valid, Offset
    <2>3. Position + Len(wire') + (m - k) = StreamLength BY <1>2, <1>4, <1>7
    <2>4. rest'[t] = <<>> => m - k = 0 BY <1>3
    <2>5. \A u \in Threads : rest'[u] # <<>> => u = t BY <2>1
    <2>6. ASSUME \A u \in Threads : rest'[u] = <<>> PROVE Position' + Len(wire') = StreamLength'
      BY <2>6, <2>3, <2>4, <1>2, <1>4, <1>6
    <2> QED BY <2>1, <2>2, <2>3, <2>5, <2>6, <1>3, <1>5, <1>6, <1>7 DEF Writing
  <1>11. Prefix' /\ Begun' BY <1>5 DEF IInv, Prefix, Begun
  <1>12. InStep' BY <1>5 DEF IInv, InStep
  <1> QED BY <1>6, <1>9, <1>10, <1>11, <1>12 DEF IInv

LEMMA EndingInv ==
  ASSUME IInv, TypeOK', Close \/ \E t \in Threads : WriteFails(t)
  PROVE  IInv'
  <1>1. /\ ~open' /\ reader' = reader /\ data' = data /\ got' = got /\ need' = need
        /\ sent' = sent /\ start' = start
    BY DEF Close, WriteFails
  <1>2. Laid' /\ Position' = Position
        /\ \A b \in Byte : (Valid(b) <=> Valid(b)') /\ Offset(b)' = Offset(b)
    BY <1>1, StreamKept DEF IInv, Position, NextStart
  <1>3. PICK k \in 0 .. Len(wire) : wire' = SubSeq(wire, 1, k)
    <2>1. CASE Close BY <2>1 DEF Close
    <2>2. CASE \E t \in Threads : WriteFails(t)
      <3>1. wire' = wire /\ wire \in Seq(Byte) BY <2>2 DEF WriteFails, IInv, TypeOK
      <3>2. wire = SubSeq(wire, 1, Len(wire)) /\ Len(wire) \in 0 .. Len(wire) BY <3>1
      <3> QED BY <3>1, <3>2
    <2> QED BY <2>1, <2>2
  <1>4. Len(wire') = k /\ \A j \in 1 .. k : wire'[j] = wire[j] /\ j \in 1 .. Len(wire) /\ wire[j] \in Byte
    <2>1. wire \in Seq(Byte) BY DEF IInv, TypeOK
    <2> QED BY <2>1, <1>3, Split
  <1>5. OnWire'
    <2> SUFFICES ASSUME reader # "ended", NEW j \in 1 .. k
                 PROVE  Valid(wire[j])' /\ Offset(wire[j])' = Position + j
      BY <1>1, <1>2, <1>4 DEF OnWire
    <2>1. Valid(wire[j]) /\ Offset(wire[j]) = Position + j BY <1>4 DEF IInv, OnWire
    <2> QED BY <2>1, <1>1, <1>4 DEF Valid, Offset
  <1>6. Writing' /\ Prefix' /\ Begun' BY <1>1 DEF IInv, Writing, Prefix, Begun
  <1>7. InStep' BY <1>1 DEF IInv, InStep
  <1> QED BY <1>2, <1>5, <1>6, <1>7 DEF IInv

\* The k bytes that come next are those the reader waits for.
LEMMA NextBytes ==
  ASSUME IInv, reader # "ended", NEW k \in 1 .. Len(wire), k <= Missing, ~Enough
  PROVE  LET n == Len(got) + 1
             h == IF reader = "body" THEN HeaderSize ELSE 0
         IN  /\ n <= Len(sent)
             /\ data = Piece(n, h, Len(data))
             /\ \A j \in 1 .. k : wire[j] = [n |-> n, i |-> h + (Len(data) + j)]
  <1> DEFINE n == Len(got) + 1
             h == IF reader = "body" THEN HeaderSize ELSE 0
  <1>1. /\ Len(got) \in Nat /\ Len(sent) \in Nat /\ Len(data) \in Nat /\ Len(wire) \in Nat
        /\ need \in Nat /\ h \in Nat /\ Position \in Nat /\ NextStart \in Nat
        /\ Position = NextStart + Len(data) + h
        /\ wire \in Seq(Byte) /\ k <= need - Len(data) /\ reader \in {"header", "body"}
    BY PositionType, FramingAssumption DEF IInv, TypeOK, Position, Missing
  <1>2. \A j \in 1 .. k : Valid(wire[j]) /\ Offset(wire[j]) = Position + j /\ wire[j] \in Byte
    BY <1>1 DEF IInv, OnWire
  <1>3. n <= Len(sent)
    <2> SUFFICES ASSUME Len(got) >= Len(sent) PROVE FALSE BY <1>1
    <2>1. Valid(wire[1]) /\ Offset(wire[1]) = Position + 1 BY <1>1, <1>2
    <2>2. wire[1].n \in 1 .. Len(sent) /\ wire[1].i \in 1 .. FrameSize(sent[wire[1].n])
      BY <2>1 DEF Valid
    <2>3. start[wire[1].n] + FrameSize(sent[wire[1].n]) <= StreamLength
      BY <2>2, Within DEF IInv
    <2>4. /\ start[wire[1].n] \in Nat /\ FrameSize(sent[wire[1].n]) \in Nat /\ StreamLength \in Nat
      BY <2>2, StreamType, SizeType DEF IInv
    <2>5. NextStart = StreamLength BY <1>1 DEF NextStart
    <2>6. Offset(wire[1]) <= StreamLength BY <2>2, <2>3, <2>4 DEF Offset
    <2> QED BY <2>1, <2>4, <2>5, <2>6, <1>1
  <1>4. /\ n \in 1 .. Len(sent) /\ sent[n] \in Packets /\ start[n] \in Nat /\ NextStart = start[n]
        /\ FrameSize(sent[n]) = HeaderSize + Size[sent[n]]
        /\ HeaderSize \in Nat /\ Size[sent[n]] \in Nat
    <2>1. n \in 1 .. Len(sent) /\ Len(got) < Len(sent) BY <1>1, <1>3
    <2>2. sent[n] \in Packets /\ start[n] \in Nat BY <2>1, StreamType DEF IInv
    <2>3. NextStart = start[n] BY <2>1 DEF NextStart
    <2> QED BY <2>1, <2>2, <2>3, SizeType
  <1>5. need + h <= FrameSize(sent[n]) /\ data = Piece(n, h, Len(data))
    <2>1. CASE reader = "header" BY <2>1, <1>1, <1>4 DEF IInv, InStep
    <2>2. CASE reader = "body" BY <2>2, <1>1, <1>4 DEF IInv, InStep
    <2> QED BY <2>1, <2>2, <1>1
  <1>6. ASSUME NEW j \in 1 .. k PROVE wire[j] = [n |-> n, i |-> h + (Len(data) + j)]
    <2> HIDE DEF n, h
    <2>1. Valid(wire[j]) /\ wire[j] \in Byte /\ Offset(wire[j]) = Position + j BY <1>2
    <2>2. Position = start[n] + Len(data) + h BY <1>1, <1>4
    <2>3. j \in Nat /\ 1 <= j /\ j <= need - Len(data) BY <1>1
    <2>4. /\ Offset(wire[j]) = Position + j /\ Position = start[n] + Len(data) + h
          /\ j \in Nat /\ 1 <= j /\ j <= need - Len(data)
      BY <2>1, <2>2, <2>3
    <2>5. FrameSize(sent[n]) \in Nat /\ need + h <= FrameSize(sent[n]) BY <1>4, <1>5
    <2>6. start[n] \in Nat BY <1>4
    <2>7. /\ start[n] \in Nat /\ Len(data) \in Nat /\ h \in Nat /\ need \in Nat
          /\ FrameSize(sent[n]) \in Nat /\ need + h <= FrameSize(sent[n])
      BY <2>5, <2>6, <1>1
    <2>8. Offset(wire[j]) = start[n] + (h + (Len(data) + j)) BY <2>4, <2>7
    <2>9. start[n] < Offset(wire[j]) /\ Offset(wire[j]) <= start[n] + FrameSize(sent[n])
      BY <2>4, <2>7, <2>8
    <2>10. wire[j] = [n |-> n, i |-> Offset(wire[j]) - start[n]]
      BY <2>1, <2>9, <1>4, Unique DEF IInv
    <2>11. Offset(wire[j]) - start[n] = h + (Len(data) + j) BY <2>4, <2>7, <2>8
    <2> QED BY <2>10, <2>11
  <1> QED BY <1>3, <1>5, <1>6

LEMMA RecvInv == ASSUME IInv, Recv, TypeOK' PROVE IInv'
  <1> DEFINE n == Len(got) + 1
             h == IF reader = "body" THEN HeaderSize ELSE 0
  <1>1. PICK k \in 1 .. Len(wire) :
          /\ k <= Missing
          /\ data' = data \o SubSeq(wire, 1, k)
          /\ wire' = SubSeq(wire, k + 1, Len(wire))
    BY DEF Recv
  <1>2. /\ reader # "ended" /\ ~Enough /\ open' = open /\ reader' = reader /\ got' = got /\ need' = need
        /\ sent' = sent /\ start' = start /\ rest' = rest
    BY DEF Recv
  <1>3. /\ n <= Len(sent)
        /\ data = Piece(n, h, Len(data))
        /\ \A j \in 1 .. k : wire[j] = [n |-> n, i |-> h + (Len(data) + j)]
    BY <1>1, <1>2, NextBytes
  <1>4. /\ wire \in Seq(Byte) /\ data \in Seq(Byte) /\ k \in 0 .. Len(wire) /\ k > 0
        /\ Len(wire) \in Nat /\ Len(data) \in Nat /\ n \in Nat /\ h \in Nat /\ Position \in Nat
        /\ data' \in Seq(Byte)
    BY PositionType, FramingAssumption DEF IInv, TypeOK
  <1>5. /\ SubSeq(wire, 1, k) \in Seq(Byte) /\ Len(SubSeq(wire, 1, k)) = k
        /\ \A j \in 1 .. k : SubSeq(wire, 1, k)[j] = wire[j]
        /\ Len(wire') = Len(wire) - k
        /\ \A j \in 1 .. Len(wire) - k : wire'[j] = wire[k + j]
    BY <1>1, <1>4, Split
  <1>6. /\ Len(data') = Len(data) + k
        /\ \A j \in 1 .. Len(data) : data'[j] = data[j]
        /\ \A j \in 1 .. k : data'[Len(data) + j] = wire[j]
    BY <1>1, <1>4, <1>5
  <1>7. data' = Piece(n, h, Len(data'))
    <2>1. ASSUME NEW j \in 1 .. Len(data') PROVE data'[j] = [n |-> n, i |-> h + j]
      <3>1. CASE j \in 1 .. Len(data)
        <4>1. Piece(n, h, Len(data))[j] = [n |-> n, i |-> h + j] BY <3>1, <1>4, PieceType
        <4> QED BY <4>1, <3>1, <1>3, <1>6
      <3>2. CASE j \notin 1 .. Len(data)
        <4>1. j - Len(data) \in 1 .. k /\ j = Len(data) + (j - Len(data)) BY <3>2, <1>4, <1>6
        <4> QED BY <4>1, <1>3, <1>6
      <3> QED BY <3>1, <3>2
    <2> QED BY <2>1, <1>4, IsPiece
  <1>8. Position' = Position + k
    <2>1. NextStart' = NextStart /\ NextStart \in Nat
      BY <1>2, StreamKept, PositionType DEF NextStart, IInv
    <2> QED BY <2>1, <1>2, <1>4, <1>6 DEF Position
  <1>9. Laid' /\ StreamLength' = StreamLength BY <1>2, StreamKept DEF IInv
  <1>10. OnWire'
    <2> SUFFICES ASSUME NEW j \in 1 .. Len(wire) - k
                 PROVE  Valid(wire[j])' /\ Offset(wire[j])' = Position + k + j
      BY <1>4, <1>5, <1>8 DEF OnWire
    <2>1. k + j \in 1 .. Len(wire) /\ wire'[j] = wire[k + j] BY <1>4, <1>5
    <2>2. Valid(wire[k + j]) /\ Offset(wire[k + j]) = Position + (k + j)
      BY <2>1, <1>2 DEF IInv, OnWire
    <2> QED BY <2>1, <2>2, <1>2, <1>4 DEF Valid, Offset
  <1>11. Writing'
    <2> SUFFICES ASSUME open PROVE Writing' BY <1>2 DEF Writing
    <2>1. Position' + Len(wire') = Position + Len(wire) BY <1>4, <1>5, <1>8
    <2>2. \A t \in Threads : \A j \in 1 .. Len(rest[t]) :
            (Valid(rest[t][j]) <=> Valid(rest[t][j])') /\ Offset(rest[t][j])' = Offset(rest[t][j])
      BY <1>2 DEF Valid, Offset
    <2> QED BY <2>1, <2>2, <1>2, <1>9 DEF IInv, Writing
  <1>12. Prefix' /\ Begun' BY <1>2, <1>3, <1>4 DEF IInv, Prefix, Begun, TypeOK
  <1>13. InStep'
    <2>1. CASE reader = "header" BY <2>1, <1>2, <1>3, <1>7 DEF IInv, InStep
    <2>2. CASE reader = "body" BY <2>2, <1>2, <1>3, <1>7 DEF IInv, InStep
    <2> QED BY <2>1, <2>2, <1>2 DEF IInv, TypeOK
  <1> QED BY <1>9, <1>10, <1>11, <1>12, <1>13 DEF IInv

\* A header, or a text, that is complete is that of the next packet.
LEMMA Whole ==
  ASSUME IInv, reader # "ended", Enough
  PROVE  LET n == Len(got) + 1 IN
         /\ n \in 1 .. Len(sent)
         /\ reader = "header" => Headers = {n} /\ Len(data) = HeaderSize
         /\ reader = "body"   => Texts = {n} /\ Len(data) = Size[sent[n]]
  <1> DEFINE n == Len(got) + 1
  <1>1. /\ Len(got) \in Nat /\ Len(sent) \in Nat /\ Len(data) \in Nat /\ need \in Nat
        /\ Len(data) = need /\ reader \in {"header", "body"}
        /\ HeaderSize \in Nat /\ HeaderSize > 0
    BY FramingAssumption DEF IInv, TypeOK, Enough
  <1>2. need > 0
    <2>1. CASE reader = "header" BY <2>1, <1>1 DEF IInv, InStep
    <2>2. CASE reader = "body"
      <3>1. need = Size[sent[n]] /\ n \in 1 .. Len(sent) BY <2>2, <1>1 DEF IInv, InStep
      <3> QED BY <3>1, SizeType, StreamType DEF IInv
    <2> QED BY <2>1, <2>2, <1>1
  <1>3. data # <<>> /\ 1 \in 1 .. Len(data) BY <1>1, <1>2
  <1>4. n \in 1 .. Len(sent) BY <1>1, <1>3 DEF IInv, Begun
  <1>5. ASSUME reader = "header" PROVE Headers = {n} /\ Len(data) = HeaderSize
    <2>1. data = Piece(n, 0, HeaderSize) /\ Len(data) = HeaderSize BY <1>5, <1>1 DEF IInv, InStep
    <2>2. ASSUME NEW m \in 1 .. Len(sent), data = Piece(m, 0, HeaderSize) PROVE m = n
      <3>1. Piece(m, 0, HeaderSize)[1] = [n |-> m, i |-> 0 + 1]
            /\ Piece(n, 0, HeaderSize)[1] = [n |-> n, i |-> 0 + 1]
        BY <1>1 DEF Piece
      <3> QED BY <3>1, <2>1, <2>2
    <2> QED BY <2>1, <2>2, <1>4 DEF Headers
  <1>6. ASSUME reader = "body" PROVE Texts = {n} /\ Len(data) = Size[sent[n]]
    <2>1. data = Piece(n, HeaderSize, Size[sent[n]]) /\ Len(data) = Size[sent[n]]
      BY <1>6, <1>1 DEF IInv, InStep
    <2>2. ASSUME NEW m \in 1 .. Len(sent), data = Piece(m, HeaderSize, Size[sent[m]]) PROVE m = n
      <3>1. Size[sent[m]] \in Nat /\ Size[sent[m]] > 0 /\ Size[sent[n]] \in Nat /\ Size[sent[n]] > 0
        BY <2>2, <1>4, SizeType, StreamType DEF IInv
      <3>2. Piece(m, HeaderSize, Size[sent[m]])[1] = [n |-> m, i |-> HeaderSize + 1]
            /\ Piece(n, HeaderSize, Size[sent[n]])[1] = [n |-> n, i |-> HeaderSize + 1]
        BY <3>1 DEF Piece
      <3> QED BY <3>2, <2>1, <2>2
    <2> QED BY <2>1, <2>2, <1>4 DEF Texts
  <1> QED BY <1>4, <1>5, <1>6

\* The reader takes the next packet and is where the one after it begins.
LEMMA DoneInv == ASSUME IInv, HeaderDone \/ BodyDone, TypeOK' PROVE IInv'
  <1> DEFINE n == Len(got) + 1
  <1>1. /\ UNCHANGED <<sent, start, rest, wire, open>> /\ reader # "ended" /\ reader' # "ended"
        /\ Enough /\ data' = <<>>
    BY DEF HeaderDone, BodyDone
  <1>2. /\ Len(got) \in Nat /\ Len(sent) \in Nat /\ n \in 1 .. Len(sent)
        /\ Position \in Nat /\ NextStart \in Nat /\ start[n] \in Nat /\ sent[n] \in Packets
        /\ StreamLength \in Nat /\ HeaderSize \in Nat /\ Size[sent[n]] \in Nat
        /\ FrameSize(sent[n]) = HeaderSize + Size[sent[n]] /\ NextStart = start[n]
    <2>1. Len(got) \in Nat /\ Len(sent) \in Nat /\ n \in 1 .. Len(sent)
      BY <1>1, Whole DEF IInv, TypeOK
    <2>2. Position \in Nat /\ NextStart \in Nat BY PositionType DEF IInv
    <2>3. StreamLength \in Nat /\ start[n] \in Nat /\ sent[n] \in Packets
      BY <2>1, StreamType DEF IInv
    <2>4. NextStart = start[n] BY <2>1 DEF NextStart
    <2> QED BY <2>1, <2>2, <2>3, <2>4, SizeType
  <1>3. /\ StreamLength' = StreamLength /\ Laid'
        /\ \A b \in Byte : (Valid(b) <=> Valid(b)') /\ Offset(b)' = Offset(b)
    BY <1>1, StreamKept DEF IInv
  <1>4. Position' = Position /\ Prefix' /\ InStep'
    <2>1. CASE HeaderDone
      <3>1. Headers = {n} /\ Len(data) = HeaderSize BY <2>1, <1>1, Whole DEF HeaderDone
      <3>2. reader = "header" /\ reader' = "body" /\ need' = Size[sent[n]] /\ got' = got
        BY <2>1, <3>1 DEF HeaderDone
      <3>3. NextStart' = NextStart BY <1>1, <1>3, <3>2 DEF NextStart
      <3>4. Position' = NextStart + HeaderSize /\ Position = NextStart + HeaderSize
        BY <1>1, <1>2, <3>1, <3>2, <3>3 DEF Position
      <3>5. <<>> = Piece(n, HeaderSize, 0) BY DEF Piece
      <3>6. InStep' BY <1>1, <1>2, <3>2, <3>5 DEF InStep
      <3> QED BY <1>1, <3>2, <3>4, <3>6 DEF IInv, Prefix
    <2>2. CASE BodyDone
      <3>1. Texts = {n} /\ Len(data) = Size[sent[n]] BY <2>2, <1>1, Whole DEF BodyDone
      <3>2. /\ reader = "body" /\ reader' = "header" /\ need' = HeaderSize
            /\ got' = Append(got, sent[n]) /\ got \in Seq(Packets)
        BY <2>2, <3>1 DEF BodyDone, IInv, TypeOK
      <3>3. Len(got') = n /\ got'[n] = sent[n] /\ \A i \in 1 .. Len(got) : got'[i] = got[i]
        BY <1>2, <3>2
      <3>4. NextStart' = start[n] + FrameSize(sent[n])
        <4>1. CASE n < Len(sent)
          <5>1. n + 1 \in 1 .. Len(sent) /\ n + 1 > 1 /\ (n + 1) - 1 = n BY <4>1, <1>2
          <5>2. start[n + 1] = start[n] + FrameSize(sent[n]) BY <5>1 DEF IInv, Laid
          <5> QED BY <4>1, <5>2, <1>1, <3>3 DEF NextStart
        <4>2. CASE n = Len(sent)
          <5>1. StreamLength = start[n] + FrameSize(sent[n])
            BY <4>2, <1>2 DEF StreamLength, IInv, TypeOK
          <5> QED BY <4>2, <5>1, <1>1, <1>2, <1>3, <3>3 DEF NextStart
        <4> QED BY <4>1, <4>2, <1>2
      <3>5. Position' = start[n] + HeaderSize + Size[sent[n]]
        <4>1. Len(data') = 0 /\ reader' # "body" BY <1>1, <3>2
        <4>2. NextStart' = start[n] + (HeaderSize + Size[sent[n]]) BY <1>2, <3>4
        <4>3. Position' = NextStart' + 0 + 0 BY <4>1 DEF Position
        <4> QED BY <4>2, <4>3, <1>2
      <3>6. Position = start[n] + HeaderSize + Size[sent[n]] BY <1>2, <3>1, <3>2 DEF Position
      <3>7. Prefix'
        <4>1. \A i \in 1 .. n : got'[i] = sent[i] BY <1>2, <3>3 DEF IInv, Prefix
        <4> QED BY <4>1, <3>3, <1>1, <1>2 DEF Prefix
      <3>8. <<>> = Piece(n + 1, 0, 0) BY DEF Piece
      <3>9. InStep' BY <1>1, <3>2, <3>3, <3>8 DEF InStep
      <3> QED BY <3>5, <3>6, <3>7, <3>9
    <2> QED BY <2>1, <2>2
  <1>5. OnWire'
    <2>1. \A j \in 1 .. Len(wire) : wire[j] \in Byte BY DEF IInv, TypeOK
    <2> QED BY <2>1, <1>1, <1>3, <1>4 DEF IInv, OnWire
  <1>6. Writing'
    <2>1. \A t \in Threads : \A j \in 1 .. Len(rest[t]) :
            (Valid(rest[t][j]) <=> Valid(rest[t][j])') /\ Offset(rest[t][j])' = Offset(rest[t][j])
      BY <1>1 DEF Valid, Offset
    <2> QED BY <2>1, <1>1, <1>3, <1>4 DEF IInv, Writing
  <1>7. Begun' BY <1>1 DEF Begun
  <1> QED BY <1>3, <1>4, <1>5, <1>6, <1>7 DEF IInv

\* The reader never goes astray: it ends with the connection only.
LEMMA NotAstray == ASSUME IInv, reader # "ended" PROVE ~IsAstray
  <1>1. reader \in {"header", "body"} BY DEF IInv, TypeOK
  <1> QED BY <1>1, Whole DEF IsAstray

LEMMA ReadEndsInv == ASSUME IInv, ReadEnds, TypeOK' PROVE IInv'
  <1>1. /\ ~open /\ UNCHANGED <<sent, start, rest, wire, open, need, got>>
        /\ reader' = "ended" /\ data' = <<>>
    BY NotAstray DEF ReadEnds, IsEnd
  <1> QED BY <1>1, StreamKept DEF IInv, OnWire, Writing, Prefix, Begun, InStep

LEMMA NextInv == ASSUME IInv, [Next]_vars, TypeOK' PROVE IInv'
  <1>1. CASE \E t \in Threads, p \in Packets : Send(t, p) BY <1>1, SendInv
  <1>2. CASE \E t \in Threads : Write(t) BY <1>2, WriteInv
  <1>3. CASE Close \/ \E t \in Threads : WriteFails(t) BY <1>3, EndingInv
  <1>4. CASE Recv BY <1>4, RecvInv
  <1>5. CASE HeaderDone \/ BodyDone BY <1>5, DoneInv
  <1>6. CASE ReadEnds BY <1>6, ReadEndsInv
  <1>7. CASE UNCHANGED vars
    BY <1>7, StreamKept DEF vars, IInv, Laid, OnWire, Writing, Prefix, Begun, InStep, Valid,
                            Offset, Position, NextStart, Piece
  <1> QED BY <1>1, <1>2, <1>3, <1>4, <1>5, <1>6, <1>7 DEF Next, Read

LEMMA Inductive == Spec => []IInv
  <1>1. Spec => []TypeOK BY TypeCorrect
  <1>2. IInv /\ [Next]_vars /\ TypeOK' => IInv' BY NextInv
  <1> QED BY <1>1, <1>2, InitInv, PTL DEF Spec

-----------------------------------------------------------------------------

\* For any number of threads, any packets and any size of the header, the reader has
\* the beginning of what it waits for.
THEOREM ReaderInStep == Spec => []InStep
  <1>1. IInv => InStep BY DEF IInv
  <1> QED BY <1>1, Inductive, PTL

\* The stream of frames implements the channel of packets (the part of IsChannel that
\* does not depend on fairness).
THEOREM ImplementsChannel == Spec => Channel!Spec
  <1>1. Init => Channel!Init BY DEF Init, Channel!Init
  <1>2. IInv /\ [Next]_vars => [Channel!Next]_Channel!vars
    <2> SUFFICES ASSUME IInv, [Next]_vars PROVE [Channel!Next]_Channel!vars OBVIOUS
    <2> USE DEF Channel!Next, Channel!vars
    <2>1. ASSUME NEW t \in Threads, NEW p \in Packets, Send(t, p) PROVE Channel!Send(p)
      BY <2>1 DEF Send, Channel!Send
    <2>2. ASSUME Close PROVE Channel!End BY <2>2 DEF Close, Channel!End
    <2>3. ASSUME BodyDone PROVE Channel!Receive
      <3>1. Texts = {Len(got) + 1} /\ Len(got) + 1 \in 1 .. Len(sent)
        BY <2>3, Whole DEF BodyDone
      <3>2. got' = Append(got, sent[Len(got) + 1]) /\ UNCHANGED <<sent, open>>
        BY <2>3, <3>1 DEF BodyDone
      <3>3. Len(got) < Len(sent) BY <3>1 DEF IInv, TypeOK
      <3> QED BY <3>2, <3>3 DEF Channel!Receive
    <2>4. CASE \/ \E t \in Threads : Write(t) \/ WriteFails(t)
               \/ Recv \/ HeaderDone \/ ReadEnds
      BY <2>4 DEF Write, WriteFails, Recv, HeaderDone, ReadEnds
    <2>5. CASE UNCHANGED vars BY <2>5 DEF vars
    <2> QED BY <2>1, <2>2, <2>3, <2>4, <2>5 DEF Next, Read
  <1> QED BY <1>1, <1>2, Inductive, PTL DEF Spec, Channel!Spec

=============================================================================

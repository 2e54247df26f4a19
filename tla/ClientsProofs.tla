---------------------------- MODULE ClientsProofs ----------------------------
(***************************************************************************)
(* Type correctness of Clients, and that a request is about the room that  *)
(* the user was shown: a dialog or prompt that names a room names the      *)
(* current one, or a packet has overtaken it (Named).  Then, that the list *)
(* of rooms follows the server's, and that no more users who are to be     *)
(* added to a room wait in vain for a list than lists were refused.        *)
(***************************************************************************)
EXTENDS Clients, SequenceTheorems, FiniteSetTheorems, TLAPS

\* TypeOK in three parts: the server with what is on its way, what the program shows, and
\* its dialogs.
ServerType ==
  /\ session \in BOOLEAN /\ member \subseteq Rooms
  /\ up \in Seq(Request) /\ owed \in Seq(Owed) /\ down \in Seq(Packet)
  /\ raced \subseteq Rooms /\ refused \in Nat /\ acts \in Nat /\ news \in Nat

ViewType ==
  /\ program \in {"gui", "console"}
  /\ window \in {"login", "chat", "leaving", "gone"}
  /\ joined \subseteq Rooms /\ current \in Rooms /\ hand \in Packet
  /\ shown \in Rooms /\ moved \in BOOLEAN

DialogType ==
  /\ pending \subseteq {"window", "dashboard"}
  /\ program = "gui" => /\ reader \in {"free", "error", "join", "add"}
                        /\ user \in {"free", "leave", "menu", "logout", "dashboard"}
  /\ program = "console" => reader \in {"free", "move"} /\ user \in {"typing", "select"}
  /\ window # "chat" => program = "gui"
  /\ window \in {"login", "gone"} => reader = "free" /\ user = "free"
  /\ "dashboard" \in pending => user = "dashboard"

LEMMA Parts == TypeOK <=> ServerType /\ ViewType /\ DialogType
BY DEF TypeOK, ServerType, ViewType, DialogType

LEMMA PartsAfter == ServerType' /\ ViewType' /\ DialogType' => TypeOK'
BY DEF TypeOK, ServerType, ViewType, DialogType

-----------------------------------------------------------------------------
(* Sequences and packets *)

LEMMA CoversType == ASSUME NEW p, p.rooms \subseteq Rooms PROVE Covers(p) \subseteq Rooms
BY DEF Covers

LEMMA PlainType == ASSUME NEW t \in Packets PROVE Plain(t) \in Packet
BY DEF Plain, Packet

LEMMA NoticeType ==
  ASSUME NEW t \in Packets, NEW r \in Rooms, NEW R \in SUBSET Rooms
  PROVE  Notice(t, r) \in Owed /\ Answer(t, R) \in Owed
BY DEF Notice, Answer, Owed

LEMMA SameLength == ASSUME NEW m \in Nat, NEW n \in Nat, 1 .. m = 1 .. n PROVE m = n
  <1>1. \A i \in Nat : i \in 1 .. m <=> i \in 1 .. n OBVIOUS
  <1>2. m > 0 => m \in 1 .. n BY <1>1
  <1>3. n > 0 => n \in 1 .. m BY <1>1
  <1> QED BY <1>2, <1>3

LEMMA OutdatedType ==
  ASSUME NEW q \in Seq(Owed), NEW R \in SUBSET Rooms
  PROVE  /\ Outdated(q, R) \in Seq(Owed) /\ Len(Outdated(q, R)) = Len(q)
         /\ \A i \in 1 .. Len(q) :
              Outdated(q, R)[i] = [q[i] EXCEPT !.late = @ \cup (Covers(q[i]) \cap R)]
  <1>1. Len(q) \in Nat /\ DOMAIN q = 1 .. Len(q) BY LenProperties
  <1>2. \A i \in 1 .. Len(q) : [q[i] EXCEPT !.late = @ \cup (Covers(q[i]) \cap R)] \in Owed
    <2> SUFFICES ASSUME NEW i \in 1 .. Len(q)
                 PROVE  [q[i] EXCEPT !.late = @ \cup (Covers(q[i]) \cap R)] \in Owed
      OBVIOUS
    <2>1. q[i] \in Owed BY ElementOfSeq
    <2>2. Covers(q[i]) \subseteq Rooms BY <2>1, CoversType DEF Owed
    <2> HIDE DEF Covers
    <2> QED BY <2>1, <2>2 DEF Owed
  <1>3. Outdated(q, R) \in [1 .. Len(q) -> Owed] BY <1>1, <1>2 DEF Outdated
  <1>4. Outdated(q, R) \in Seq(Owed) BY <1>1, <1>3, SeqDef
  <1>5. DOMAIN Outdated(q, R) = 1 .. Len(Outdated(q, R)) /\ Len(Outdated(q, R)) \in Nat
    BY <1>4, LenProperties
  <1>6. DOMAIN Outdated(q, R) = 1 .. Len(q) BY <1>1 DEF Outdated
  <1>7. Len(Outdated(q, R)) = Len(q) BY <1>1, <1>5, <1>6, SameLength
  <1> QED BY <1>1, <1>4, <1>7 DEF Outdated

\* What is owed when the i-th of owed has been sent.
Rest(i) == Outdated(SubSeq(owed, 1, i - 1), Covers(owed[i])) \o SubSeq(owed, i + 1, Len(owed))

LEMMA RestType ==
  ASSUME ServerType, NEW i \in 1 .. Len(owed)
  PROVE  /\ Len(owed) \in Nat /\ owed[i] \in Owed
         /\ Rest(i) \in Seq(Owed) /\ Len(Rest(i)) = Len(owed) - 1
         /\ \A j \in 1 .. Len(owed) - 1 :
              Rest(i)[j] = IF j < i
                             THEN [owed[j] EXCEPT
                                     !.late = @ \cup (Covers(owed[j]) \cap Covers(owed[i]))]
                             ELSE owed[j + 1]
  <1>1. Len(owed) \in Nat /\ \A j \in 1 .. Len(owed) : owed[j] \in Owed
    BY LenProperties, ElementOfSeq DEF ServerType
  <1> DEFINE a == SubSeq(owed, 1, i - 1)
             b == SubSeq(owed, i + 1, Len(owed))
             R == Covers(owed[i])
  <1>2. R \subseteq Rooms BY <1>1, CoversType DEF Owed
  <1>3. /\ a \in Seq(Owed) /\ Len(a) = i - 1 /\ \A j \in 1 .. i - 1 : a[j] = owed[j]
    <2>1. \A j \in 1 .. i - 1 : owed[j] \in Owed BY <1>1
    <2> QED BY <2>1, SubSeqProperties
  <1>4. /\ b \in Seq(Owed) /\ Len(b) = Len(owed) - i
        /\ \A j \in 1 .. Len(owed) - i : b[j] = owed[i + j]
    <2>1. \A j \in i + 1 .. Len(owed) : owed[j] \in Owed BY <1>1
    <2>2. /\ b \in Seq(Owed) /\ Len(b) = IF i + 1 <= Len(owed) THEN Len(owed) - (i + 1) + 1 ELSE 0
          /\ \A j \in 1 .. Len(owed) - (i + 1) + 1 : b[j] = owed[(i + 1) + j - 1]
      BY <1>1, <2>1, SubSeqProperties
    <2> QED BY <1>1, <2>2
  <1> HIDE DEF a, b, R
  <1>5. /\ Outdated(a, R) \in Seq(Owed) /\ Len(Outdated(a, R)) = i - 1
        /\ \A j \in 1 .. i - 1 :
             Outdated(a, R)[j] = [owed[j] EXCEPT !.late = @ \cup (Covers(owed[j]) \cap R)]
    BY <1>2, <1>3, OutdatedType
  <1>6. Rest(i) = Outdated(a, R) \o b BY DEF Rest, a, b, R
  <1>7. /\ Rest(i) \in Seq(Owed) /\ Len(Rest(i)) = Len(owed) - 1
        /\ \A j \in 1 .. Len(owed) - 1 :
             Rest(i)[j] = IF j <= i - 1 THEN Outdated(a, R)[j] ELSE b[j - (i - 1)]
    BY <1>1, <1>4, <1>5, <1>6, ConcatProperties
  <1>8. \A j \in 1 .. Len(owed) - 1 : j >= i => b[j - (i - 1)] = owed[j + 1]
    BY <1>1, <1>4
  <1>9. \A j \in 1 .. Len(owed) - 1 :
          Rest(i)[j] = IF j < i THEN [owed[j] EXCEPT !.late = @ \cup (Covers(owed[j]) \cap R)]
                                ELSE owed[j + 1]
    <2> SUFFICES ASSUME NEW j \in 1 .. Len(owed) - 1
                 PROVE  Rest(i)[j] = IF j < i
                          THEN [owed[j] EXCEPT !.late = @ \cup (Covers(owed[j]) \cap R)]
                          ELSE owed[j + 1]
      OBVIOUS
    <2>1. CASE j < i
      <3>1. j \in 1 .. i - 1 /\ j <= i - 1 BY <1>1, <2>1
      <3>2. Rest(i)[j] = Outdated(a, R)[j] BY <1>7, <3>1
      <3> QED BY <1>5, <2>1, <3>1, <3>2
    <2>2. CASE ~(j < i)
      <3>1. ~(j <= i - 1) /\ j >= i BY <1>1, <2>2
      <3> QED BY <1>7, <1>8, <2>2, <3>1
    <2> QED BY <2>1, <2>2
  <1> QED BY <1>1, <1>7, <1>9 DEF R

-----------------------------------------------------------------------------
(* Types *)

LEMMA InitType == Init => TypeOK
  <1> SUFFICES ASSUME Init PROVE ServerType /\ ViewType /\ DialogType BY Parts
  <1>1. ServerType
    <2>1. up = <<>> /\ owed = <<>> /\ down = <<>> BY DEF Init
    <2>2. up \in Seq(Request) /\ owed \in Seq(Owed) /\ down \in Seq(Packet)
      BY <2>1, EmptySeq
    <2>3. /\ session \in BOOLEAN /\ member \subseteq Rooms /\ raced \subseteq Rooms
          /\ refused \in Nat /\ acts \in Nat /\ news \in Nat
      BY ClientsAssumption DEF Init
    <2> QED BY <2>2, <2>3 DEF ServerType
  <1>2. NoPacket \in Packet BY PlainType DEF NoPacket, Packets
  <1>3. ViewType BY ClientsAssumption, <1>2 DEF Init, ViewType
  <1>4. DialogType BY DEF Init, DialogType
  <1> QED BY <1>1, <1>3, <1>4

\* A step of the server leaves the program alone.
LEMMA ServerStep ==
  ASSUME TypeOK, ServerType', UNCHANGED <<program, view, dialogs, input>>
  PROVE  TypeOK'
BY Parts DEF TypeOK, ServerType, view, dialogs, input

LEMMA SendType == ASSUME TypeOK, NEW i \in DOMAIN owed, Send(i) PROVE TypeOK'
  <1>1. ServerType BY Parts
  <1>2. i \in 1 .. Len(owed) BY <1>1, LenProperties DEF ServerType
  <1> DEFINE p == owed[i]
  <1>3. p \in Owed /\ Rest(i) \in Seq(Owed) BY <1>1, <1>2, RestType
  <1>4. /\ down' = Append(down, [type |-> p.type, rooms |-> p.rooms])
        /\ owed' = IF p.type = "LOGIN_RESP" THEN Append(Rest(i), Answer("ROOMS_STATUS", member))
                                            ELSE Rest(i)
        /\ raced' = IF p.type = "ROOMS_STATUS" /\ p.rooms = {} THEN Rooms
                    ELSE (raced \ Covers(p)) \cup p.late
        /\ UNCHANGED <<program, session, member, up, refused, view, dialogs, input, acts, news>>
    BY DEF Send, Rest
  <1> HIDE DEF p
  <1>5. down' \in Seq(Packet)
    <2>1. [type |-> p.type, rooms |-> p.rooms] \in Packet BY <1>3 DEF Owed, Packet
    <2> QED BY <1>1, <1>4, <2>1 DEF ServerType
  <1>6. owed' \in Seq(Owed)
    <2>1. Answer("ROOMS_STATUS", member) \in Owed BY <1>1, NoticeType, ClientsAssumption DEF ServerType, Packets
    <2> QED BY <1>3, <1>4, <2>1
  <1>7. raced' \subseteq Rooms
    <2>1. p.late \subseteq Rooms BY <1>3 DEF Owed
    <2> QED BY <1>1, <1>4, <2>1 DEF ServerType
  <1>8. ServerType' BY <1>1, <1>4, <1>5, <1>6, <1>7 DEF ServerType
  <1> QED BY <1>4, <1>8, ServerStep

LEMMA ChangedType ==
  ASSUME ServerType, NEW M \in SUBSET Rooms, NEW p \in Owed, Changed(M, p)
  PROVE  member' \subseteq Rooms /\ owed' \in Seq(Owed) /\ raced' \subseteq Rooms /\ down' \in Seq(Packet)
BY DEF Changed, ServerType

LEMMA ToldType ==
  ASSUME ServerType, NEW t \in Packets, Told(t)
  PROVE  member' \subseteq Rooms /\ owed' \in Seq(Owed) /\ raced' \subseteq Rooms /\ down' \in Seq(Packet)
BY PlainType DEF Told, ServerType

LEMMA AppendedType ==
  ASSUME ServerType, NEW r \in Rooms, Appended(r)
  PROVE  member' \subseteq Rooms /\ owed' \in Seq(Owed) /\ raced' \subseteq Rooms /\ down' \in Seq(Packet)
  <1>1. [type |-> "gives", rooms |-> {r}] \in Packet BY DEF Packet, Packets
  <1>2. Outdated(owed, {r}) \in Seq(Owed) BY OutdatedType DEF ServerType
  <1> QED BY <1>1, <1>2 DEF Appended, ServerType

LEMMA GrantedType ==
  ASSUME ServerType, NEW q \in Request, Granted(q)
  PROVE  member' \subseteq Rooms /\ owed' \in Seq(Owed) /\ raced' \subseteq Rooms /\ down' \in Seq(Packet)
  <1>1. CASE q.type = "LOGIN" /\ \E M \in Saved : Changed(M, Answer("LOGIN_RESP", {}))
    BY <1>1, ChangedType, NoticeType, ClientsAssumption DEF Packets
  <1>2. CASE q.type = "LOGOUT" /\ Changed({}, Answer("LOGOUT_RESP", {}))
    BY <1>2, ChangedType, NoticeType, ClientsAssumption DEF Packets
  <1>3. CASE q.type = "GET_ROOMS_LIST" /\ Told("ROOMS_LIST_RESP")
    BY <1>3, ToldType DEF Packets
  <1>4. CASE q.type = "JOIN_ROOM" /\ Changed(member \cup {q.room}, Answer("gives", {q.room}))
    <2>1. member \cup {q.room} \in SUBSET Rooms /\ {q.room} \in SUBSET Rooms
      BY <1>4 DEF ServerType, Request, Requests, Roomless
    <2>2. Answer("gives", {q.room}) \in Owed BY <2>1, NoticeType, ClientsAssumption DEF Packets
    <2> QED BY <1>4, <2>1, <2>2, ChangedType
  <1>5. CASE /\ q.type = "LEAVE_ROOM" /\ q.room \in member \ {General}
             /\ Changed(member \ {q.room}, Answer("takes", {q.room}))
    <2>1. member \ {q.room} \in SUBSET Rooms /\ {q.room} \in SUBSET Rooms
      BY <1>5 DEF ServerType
    <2>2. Answer("takes", {q.room}) \in Owed BY <2>1, NoticeType, ClientsAssumption DEF Packets
    <2> QED BY <1>5, <2>1, <2>2, ChangedType
  <1>6. CASE q.type \in {"MSG", "KICK_USER", "ADD_USER_TO_ROOM"} /\ Kept
    BY <1>6 DEF Kept, ServerType
  <1> QED BY <1>1, <1>2, <1>3, <1>4, <1>5, <1>6 DEF Granted

LEMMA ServeType == ASSUME TypeOK, Serve PROVE TypeOK'
  <1>1. ServerType BY Parts
  <1> DEFINE q == Head(up)
  <1>2. up # <<>> /\ up' = Tail(up) BY DEF Serve
  <1>3. q \in Request /\ up' \in Seq(Request) BY <1>1, <1>2 DEF ServerType
  <1>4. /\ Granted(q) \/ Told("ERROR")
        /\ session' = (q.type = "LOGIN" \/ (session /\ q.type # "LOGOUT"))
        /\ refused' \in {refused, refused + 1}
        /\ UNCHANGED <<program, view, dialogs, input, acts, news>>
    BY DEF Serve
  <1> HIDE DEF q
  <1>5. member' \subseteq Rooms /\ owed' \in Seq(Owed) /\ raced' \subseteq Rooms /\ down' \in Seq(Packet)
    <2>1. "ERROR" \in Packets BY DEF Packets
    <2> QED BY <1>1, <1>3, <1>4, <2>1, GrantedType, ToldType
  <1>6. ServerType' BY <1>1, <1>3, <1>4, <1>5 DEF ServerType
  <1> QED BY <1>4, <1>6, ServerStep

LEMMA OtherType == ASSUME TypeOK, NEW r \in Rooms, Other(r) PROVE TypeOK'
  <1>1. ServerType BY Parts
  <1>2. /\ \/ Changed(member \ {r}, Notice("takes", r))
           \/ Changed(member \cup {r}, Notice("gives", r))
           \/ Appended(r)
        /\ news' = news + 1
        /\ UNCHANGED <<program, session, up, refused, view, dialogs, input, acts>>
    BY DEF Other
  <1>3. member' \subseteq Rooms /\ owed' \in Seq(Owed) /\ raced' \subseteq Rooms /\ down' \in Seq(Packet)
    <2>1. Notice("takes", r) \in Owed /\ Notice("gives", r) \in Owed BY NoticeType DEF Packets
    <2>2. member \ {r} \in SUBSET Rooms /\ member \cup {r} \in SUBSET Rooms BY <1>1 DEF ServerType
    <2> QED BY <1>1, <1>2, <2>1, <2>2, ChangedType, AppendedType
  <1>4. ServerType' BY <1>1, <1>2, <1>3 DEF ServerType
  <1> QED BY <1>2, <1>4, ServerStep

\* What a request leaves.
LEMMA PostType ==
  ASSUME ServerType, UNCHANGED <<server, down, news>>, program \in {"gui", "console"},
         \/ Silent
         \/ \E t \in Roomless : Post(t, NoRoom)
         \/ \E t \in Requests \ Roomless, r \in Rooms : Post(t, r)
  PROVE  ServerType'
  <1>1. /\ UNCHANGED <<session, member, owed, raced, refused, down, news>>
        /\ acts' \in Nat /\ up' \in Seq(Request)
    <2>1. CASE Silent BY <2>1 DEF Silent, ServerType, server
    <2>2. CASE \E t \in Roomless : Post(t, NoRoom)
      BY <2>2 DEF Post, ServerType, server, Request
    <2>3. CASE \E t \in Requests \ Roomless, r \in Rooms : Post(t, r)
      BY <2>3 DEF Post, ServerType, server, Request
    <2> QED BY <2>1, <2>2, <2>3
  <1> QED BY <1>1 DEF ServerType

\* Taking the next packet.
LEMMA TakeType ==
  ASSUME ServerType, down # <<>>, down' = Tail(down), UNCHANGED <<server, up, acts, news>>
  PROVE  ServerType' /\ Head(down) \in Packet
  <1>1. Head(down) \in Packet /\ Tail(down) \in Seq(Packet) BY DEF ServerType
  <1> QED BY <1>1 DEF ServerType, server

LEMMA ProgramTypes ==
  ASSUME ViewType, NEW p \in Packet
  PROVE  JoinedAfter(p) \subseteq Rooms /\ Fallback(p) \subseteq Rooms /\ Move(p) \subseteq Rooms
  <1>1. p.rooms \subseteq Rooms /\ General \in Rooms BY ClientsAssumption DEF Packet
  <1>2. JoinedAfter(p) \subseteq Rooms BY <1>1 DEF JoinedAfter, ViewType
  <1>3. Fallback(p) \subseteq Rooms BY <1>2 DEF Fallback, First, ViewType
  <1>4. Move(p) \subseteq Rooms BY <1>1 DEF Move, ViewType
  <1> QED BY <1>2, <1>3, <1>4

LEMMA SwitchToChatType == ASSUME TypeOK, SwitchToChat PROVE TypeOK'
  <1>1. ServerType /\ ViewType /\ DialogType BY Parts
  <1>2. ServerType'
    <2>1. down' \in Seq(Packet) /\ refused' \in {0, refused}
      BY <1>1 DEF SwitchToChat, ServerType
    <2>2. UNCHANGED <<session, member, up, owed, raced, acts, news>> BY DEF SwitchToChat
    <2> QED BY <1>1, <2>1, <2>2 DEF ServerType
  <1>3. ViewType'
    <2>1. \/ window' = "chat" /\ joined' = {General} /\ current' = General
          \/ window' = window /\ joined' = joined /\ current' = current
      BY DEF SwitchToChat, view
    <2>2. UNCHANGED <<program, hand>> /\ (UNCHANGED <<shown, moved>> \/ Hide)
      BY DEF SwitchToChat, input
    <2> QED BY <1>1, <2>1, <2>2, ClientsAssumption DEF ViewType, Hide, Show
  <1>4. DialogType' BY <1>1 DEF SwitchToChat, DialogType, view, input, Hide, Show
  <1> QED BY <1>2, <1>3, <1>4, PartsAfter

LEMMA DispatchType == ASSUME TypeOK, Dispatch PROVE TypeOK'
  <1>1. ServerType /\ ViewType /\ DialogType BY Parts
  <1>2. /\ program = "gui" /\ window \in {"chat", "leaving"} /\ reader = "free"
        /\ SwitchToLogin \/ Shows(Head(down))
        /\ UNCHANGED <<program, hand>>
    BY DEF Dispatch
  <1>3. ServerType' /\ Head(down) \in Packet BY <1>1, TakeType DEF Dispatch
  <1> DEFINE p == Head(down)
  <1> HIDE DEF p
  <1>4. CASE SwitchToLogin
    <2>1. ViewType' BY <1>1, <1>2, <1>4 DEF SwitchToLogin, ViewType, input
    <2>2. DialogType' BY <1>1, <1>2, <1>4 DEF SwitchToLogin, DialogType, input
    <2> QED BY <1>3, <2>1, <2>2, PartsAfter
  <1>5. CASE Shows(p)
    <2>1. ViewType'
      <3>1. joined' \subseteq Rooms /\ current' \in Rooms BY <1>1, <1>3, <1>5, ProgramTypes DEF Shows, p
      <3>2. moved' \in BOOLEAN BY <1>1, <1>5 DEF Shows, ViewType, Overtaken
      <3> QED BY <1>1, <1>2, <1>5, <3>1, <3>2 DEF Shows, ViewType
    <2>2. DialogType' BY <1>1, <1>2, <1>5 DEF Shows, DialogType, StillPending
    <2> QED BY <1>3, <2>1, <2>2, PartsAfter
  <1> QED BY <1>2, <1>4, <1>5 DEF p

LEMMA DestroyType == ASSUME TypeOK, Destroy PROVE TypeOK'
  <1>1. ServerType /\ ViewType /\ DialogType BY Parts
  <1>2. ServerType' BY <1>1 DEF Destroy, ServerType, server
  <1>3. ViewType' BY <1>1, ClientsAssumption DEF Destroy, ViewType, Hide, Show
  <1>4. DialogType' BY <1>1 DEF Destroy, DialogType, Hide, Show
  <1> QED BY <1>2, <1>3, <1>4, PartsAfter

LEMMA PrintType == ASSUME TypeOK, PrintJoined \/ PrintMove PROVE TypeOK'
  <1>1. ServerType /\ ViewType /\ DialogType BY Parts
  <1>2. CASE PrintJoined
    <2>1. ServerType' /\ Head(down) \in Packet BY <1>1, <1>2, TakeType DEF PrintJoined
    <2>2. hand' = Head(down) /\ joined' = JoinedAfter(Head(down)) BY <1>2 DEF PrintJoined, JoinedAfter
    <2>3. joined' \subseteq Rooms BY <1>1, <2>1, <2>2, ProgramTypes
    <2>4. ViewType' BY <1>1, <1>2, <2>1, <2>2, <2>3 DEF PrintJoined, ViewType, input
    <2>5. DialogType' BY <1>1, <1>2 DEF PrintJoined, DialogType, input
    <2> QED BY <2>1, <2>4, <2>5, PartsAfter
  <1>3. CASE PrintMove
    <2>1. ServerType' BY <1>1, <1>3 DEF PrintMove, ServerType, server
    <2>2. current' \in Rooms BY <1>1, <1>3, ProgramTypes DEF PrintMove, ViewType
    <2>3. NoPacket \in Packet BY PlainType DEF NoPacket, Packets
    <2>4. moved' \in BOOLEAN BY <1>1, <1>3 DEF PrintMove, ViewType, Overtaken
    <2>5. ViewType' BY <1>1, <1>3, <2>2, <2>3, <2>4 DEF PrintMove, ViewType
    <2>6. DialogType' BY <1>1, <1>3 DEF PrintMove, DialogType
    <2> QED BY <2>1, <2>5, <2>6, PartsAfter
  <1> QED BY <1>2, <1>3

LEMMA EnterType == ASSUME TypeOK, Enter PROVE TypeOK'
  <1>1. ServerType /\ ViewType /\ DialogType BY Parts
  <1>2. /\ UNCHANGED <<program, server, down, view, dialogs, news>>
        /\ \/ program = "gui" /\ window = "login" /\ Hide
           \/ program = "console" /\ user = "typing" /\ Prompt(current)
    BY DEF Enter
  <1>3. ServerType'
    <2>1. \/ \E t \in Roomless : Post(t, NoRoom)
          \/ \E t \in Requests \ Roomless, r \in Rooms : Post(t, r)
      <3>1. /\ "LOGIN" \in Roomless /\ "LOGOUT" \in Roomless
            /\ "JOIN_ROOM" \in Requests \ Roomless /\ "LEAVE_ROOM" \in Requests \ Roomless
        BY DEF Requests, Roomless
      <3> QED BY <3>1 DEF Enter
    <2>2. program \in {"gui", "console"} BY <1>1 DEF ViewType
    <2> QED BY <1>1, <1>2, <2>1, <2>2, PostType
  <1>4. UNCHANGED <<program, window, joined, current, pending, reader, hand>>
    BY <1>2 DEF view, dialogs
  <1>5. ViewType' BY <1>1, <1>2, <1>4, ClientsAssumption DEF ViewType, Hide, Prompt, Show
  <1>6. DialogType' BY <1>1, <1>2, <1>4 DEF DialogType, Hide, Prompt, Show
  <1> QED BY <1>3, <1>5, <1>6, PartsAfter

LEMMA ConsoleType ==
  ASSUME TypeOK, Type \/ SelectSet \/ \E r \in Rooms : SelectCheck(r)
  PROVE  TypeOK'
  <1>1. ServerType /\ ViewType /\ DialogType BY Parts
  <1>2. CASE Type
    <2>1. "MSG" \in Requests \ Roomless BY DEF Requests, Roomless
    <2>2. ServerType' BY <1>1, <1>2, <2>1, PostType DEF Type, ViewType
    <2>3. UNCHANGED <<program, window, joined, current, pending, reader, hand>>
      BY <1>2 DEF Type, view, dialogs
    <2>4. ViewType' BY <1>1, <1>2, <2>3 DEF Type, ViewType, Prompt, Show
    <2>5. DialogType' BY <1>1, <1>2, <2>3 DEF Type, DialogType, Prompt, Show
    <2> QED BY <2>2, <2>4, <2>5, PartsAfter
  <1>3. CASE SelectSet
    <2>1. ServerType' BY <1>1, <1>3 DEF SelectSet, ServerType, server
    <2>2. UNCHANGED <<program, window, joined, pending, reader, hand>>
      BY <1>3 DEF SelectSet, dialogs
    <2>3. ViewType' BY <1>1, <1>3, <2>2 DEF SelectSet, ViewType, Prompt, Show
    <2>4. DialogType' BY <1>1, <1>3, <2>2 DEF SelectSet, DialogType, Prompt, Show
    <2> QED BY <2>1, <2>3, <2>4, PartsAfter
  <1>4. CASE \E r \in Rooms : SelectCheck(r)
    <2>1. PICK r \in Rooms : SelectCheck(r) BY <1>4
    <2>2. ServerType' BY <1>1, <2>1 DEF SelectCheck, ServerType, server
    <2>3. UNCHANGED <<program, window, joined, current, pending, reader, hand>>
      BY <2>1 DEF SelectCheck, view, dialogs
    <2>4. ViewType' BY <1>1, <2>1, <2>3 DEF SelectCheck, ViewType, Show
    <2>5. DialogType' BY <1>1, <2>1, <2>3 DEF SelectCheck, DialogType, Show
    <2> QED BY <2>2, <2>4, <2>5, PartsAfter
  <1> QED BY <1>2, <1>3, <1>4

LEMMA ClickType ==
  ASSUME TypeOK, ClickButton \/ \E r \in Rooms : ClickRoom(r)
  PROVE  TypeOK'
  <1>1. ServerType /\ ViewType /\ DialogType BY Parts
  <1>2. CASE \E r \in Rooms : ClickRoom(r)
    <2>1. PICK r \in Rooms : ClickRoom(r) BY <1>2
    <2>2. ServerType' BY <1>1, <2>1 DEF ClickRoom, ServerType, server
    <2>3. UNCHANGED <<program, window, joined, pending, reader, hand, user, shown, moved>>
      BY <2>1 DEF ClickRoom, dialogs, input
    <2>4. ViewType' BY <1>1, <2>1, <2>3 DEF ClickRoom, ViewType
    <2>5. DialogType' BY <1>1, <2>3 DEF DialogType
    <2> QED BY <2>2, <2>4, <2>5, PartsAfter
  <1>3. CASE ClickButton
    <2>1. UNCHANGED <<program, window, joined, current, reader, hand>>
      BY <1>3 DEF ClickButton, view
    <2>2. /\ program = "gui" /\ window = "chat" /\ reader = "free" /\ user = "free"
          /\ UNCHANGED <<program, server, down, news>>
      BY <1>3 DEF ClickButton, Chatting
    <2>3. \/ /\ Post("GET_ROOMS_LIST", NoRoom) /\ pending' = pending \ {"window"}
             /\ UNCHANGED <<user, shown, moved>>
          \/ /\ Silent /\ pending' = pending
             /\ \E s \in {"dashboard", "logout", "menu", "leave"}, r \in {General, current} : Show(s, r)
      BY <1>3 DEF ClickButton, input
    <2>4. ServerType'
      <3>1. "GET_ROOMS_LIST" \in Roomless BY DEF Roomless
      <3> QED BY <1>1, <2>2, <2>3, <3>1, PostType
    <2>5. ViewType' BY <1>1, <2>1, <2>3, ClientsAssumption DEF ViewType, Show
    <2>6. DialogType' BY <1>1, <2>1, <2>2, <2>3 DEF DialogType, Show
    <2> QED BY <2>4, <2>5, <2>6, PartsAfter
  <1> QED BY <1>2, <1>3

LEMMA ReplyType == ASSUME TypeOK, Reply PROVE TypeOK'
  <1>1. ServerType /\ ViewType /\ DialogType BY Parts
  <1>2. UNCHANGED <<program, window, joined, current, reader, hand>> BY DEF Reply, view
  <1>3. /\ program = "gui" /\ window = "chat" /\ Hide
        /\ UNCHANGED <<program, server, down, news>>
    BY DEF Reply, Chatting
  <1>4. ServerType'
    <2>1. \/ Silent
          \/ \E t \in Roomless : Post(t, NoRoom)
          \/ \E t \in Requests \ Roomless, r \in Rooms : Post(t, r)
      <3>1. /\ "LOGOUT" \in Roomless /\ "GET_ROOMS_LIST" \in Roomless
            /\ "KICK_USER" \in Requests \ Roomless /\ "LEAVE_ROOM" \in Requests \ Roomless
        BY DEF Requests, Roomless
      <3>2. current \in Rooms BY <1>1 DEF ViewType
      <3> QED BY <3>1, <3>2 DEF Reply
    <2> QED BY <1>1, <1>3, <2>1, PostType
  <1>5. ViewType' BY <1>1, <1>2, <1>3, ClientsAssumption DEF ViewType, Hide, Show
  <1>6. pending' \subseteq {"window", "dashboard"} /\ "dashboard" \notin pending'
    BY <1>1 DEF Reply, Dismissed, DialogType
  <1>7. DialogType' BY <1>1, <1>2, <1>3, <1>6 DEF DialogType, Hide, Show
  <1> QED BY <1>4, <1>5, <1>7, PartsAfter

LEMMA DashboardCloseType == ASSUME TypeOK, Dashboard \/ Close PROVE TypeOK'
  <1>1. ServerType /\ ViewType /\ DialogType BY Parts
  <1>2. CASE Dashboard
    <2>1. UNCHANGED <<program, window, joined, current, reader, hand, user, shown, moved>>
      BY <1>2 DEF Dashboard, view, input
    <2>2. "GET_ROOMS_LIST" \in Roomless BY DEF Roomless
    <2>3. ServerType' BY <1>1, <1>2, <2>2, PostType DEF Dashboard, ViewType
    <2>4. ViewType' BY <1>1, <2>1 DEF ViewType
    <2>5. DialogType' BY <1>1, <1>2, <2>1 DEF DialogType, Dashboard
    <2> QED BY <2>3, <2>4, <2>5, PartsAfter
  <1>3. CASE Close
    <2>1. UNCHANGED <<program, window, joined, current, pending, hand, user, shown, moved>>
      BY <1>3 DEF Close, view, input
    <2>2. /\ program = "gui" /\ reader # "free" /\ reader' = "free"
          /\ UNCHANGED <<program, server, down, news>>
      BY <1>3 DEF Close
    <2>3. ServerType'
      <3>1. "ADD_USER_TO_ROOM" \in Roomless /\ "JOIN_ROOM" \in Requests \ Roomless
        BY DEF Requests, Roomless
      <3>2. \/ Silent
            \/ \E t \in Roomless : Post(t, NoRoom)
            \/ \E t \in Requests \ Roomless, r \in Rooms : Post(t, r)
        BY <1>3, <3>1 DEF Close
      <3> QED BY <1>1, <2>2, <3>2, PostType
    <2>4. ViewType' BY <1>1, <2>1 DEF ViewType
    <2>5. DialogType' BY <1>1, <2>1, <2>2 DEF DialogType
    <2> QED BY <2>3, <2>4, <2>5, PartsAfter
  <1> QED BY <1>2, <1>3

LEMMA NextType == TypeOK /\ [Next]_vars => TypeOK'
  <1> SUFFICES ASSUME TypeOK, [Next]_vars PROVE TypeOK' OBVIOUS
  <1>1. CASE UNCHANGED vars
    BY <1>1 DEF TypeOK, vars, server, view, dialogs, input
  <1>2. CASE Next
    BY <1>2, ServeType, SwitchToChatType, DispatchType, DestroyType, PrintType, EnterType, ConsoleType, ClickType,
       ReplyType, DashboardCloseType, SendType, OtherType DEF Next
  <1> QED BY <1>1, <1>2

\* The server's tables, the packets on their way, the windows, their dialogs and the
\* console keep their types: dialogs belong to a chat window, which may be leaving, and a
\* user waits for the dashboard only while it is open.
THEOREM TypeCorrect == Spec => []TypeOK
  <1> QED BY InitType, NextType, PTL DEF Spec

-----------------------------------------------------------------------------
(* A request is about the room shown *)

\* What an open dialog, or the prompt, names.
Named == user \in {"leave", "menu", "typing"} => shown = current \/ moved

LEMMA InitNamed == Init => Named
BY DEF Init, Named

\* Only the dispatcher and the printer change the current room under a dialog or prompt.
LEMMA NextNamed == TypeOK /\ Named /\ [Next]_vars => Named'
  <1> SUFFICES ASSUME TypeOK, Named, [Next]_vars PROVE Named' OBVIOUS
  <1>1. DialogType /\ ViewType BY Parts
  <1>2. CASE UNCHANGED <<user, shown, moved, current>> BY <1>2 DEF Named
  <1>3. CASE UNCHANGED vars BY <1>2, <1>3 DEF vars, view, input
  <1>4. CASE Serve \/ \E i \in DOMAIN owed : Send(i)
    BY <1>2, <1>4 DEF Serve, Send, view, input
  <1>5. CASE \E r \in Rooms : Other(r) BY <1>2, <1>5 DEF Other, view, input
  <1>6. CASE SwitchToChat \/ Destroy
    <2>1. CASE Hide BY <2>1 DEF Hide, Show, Named
    <2>2. CASE UNCHANGED <<view, input>> BY <1>2, <2>2 DEF view, input
    <2> QED BY <1>6, <2>1, <2>2 DEF SwitchToChat, Destroy
  <1>7. CASE Dispatch
    <2>1. CASE SwitchToLogin BY <1>2, <2>1 DEF SwitchToLogin, input
    <2>2. CASE Shows(Head(down))
      <3> DEFINE p == Head(down)
      <3>1. /\ current' \in Fallback(p) /\ moved' = (moved \/ Overtaken(p))
            /\ UNCHANGED <<user, shown>>
        BY <2>2 DEF Shows
      <3> HIDE DEF p
      <3>2. current' = current \/ (p.type = "takes" /\ current \in p.rooms)
        BY <3>1 DEF Fallback
      <3> QED BY <1>1, <3>1, <3>2 DEF Named, Overtaken, ViewType
    <2> QED BY <1>7, <2>1, <2>2 DEF Dispatch
  <1>8. CASE PrintJoined BY <1>2, <1>8 DEF PrintJoined, input
  <1>9. CASE PrintMove
    <2>1. /\ current' \in Move(hand) /\ moved' = (moved \/ Overtaken(hand))
          /\ program = "console" /\ UNCHANGED <<user, shown>>
      BY <1>9 DEF PrintMove
    <2>2. \/ current' = current
          \/ hand.type = "takes" /\ current \in hand.rooms
          \/ hand.type \in {"gives", "ROOMS_STATUS", "LOGOUT_RESP"}
      BY <2>1 DEF Move
    <2>3. user \in {"typing", "select"} BY <1>1, <2>1 DEF DialogType
    <2> QED BY <1>1, <2>1, <2>2, <2>3 DEF Named, Overtaken, ViewType
  <1>10. CASE Enter BY <1>10 DEF Enter, Hide, Prompt, Show, Named, view
  <1>11. CASE Type BY <1>11 DEF Type, Prompt, Show, Named, view
  <1>12. CASE SelectSet BY <1>12 DEF SelectSet, Prompt, Show, Named
  <1>13. CASE \E r \in Rooms : SelectCheck(r) BY <1>13 DEF SelectCheck, Show, Named
  <1>14. CASE \E r \in Rooms : ClickRoom(r) BY <1>14 DEF ClickRoom, Named, input
  <1>15. CASE ClickButton BY <1>15 DEF ClickButton, Show, Named, view, input
  <1>16. CASE Reply BY <1>16 DEF Reply, Hide, Show, Named
  <1>17. CASE Dashboard BY <1>2, <1>17 DEF Dashboard, view, input
  <1>18. CASE Close BY <1>2, <1>18 DEF Close, view, input
  <1> QED
    BY <1>3, <1>4, <1>5, <1>6, <1>7, <1>8, <1>9, <1>10, <1>11, <1>12, <1>13, <1>14, <1>15, <1>16,
       <1>17, <1>18 DEF Next

\* The queue tells which request has been added.
LEMMA AppendOnce ==
  ASSUME NEW S, NEW q \in Seq(S), NEW a, NEW b
  PROVE  /\ Append(q, a) # q /\ (q # <<>> => Append(q, a) # Tail(q))
         /\ (Append(q, a) = Append(q, b) => a = b)
  <1>1. Len(q) \in Nat /\ (q # <<>> => Len(Tail(q)) = Len(q) - 1)
    BY LenProperties, HeadTailProperties
  <1>2. \A x : Len(Append(q, x)) = Len(q) + 1 /\ Append(q, x)[Len(q) + 1] = x
    BY <1>1
  <1> QED BY <1>1, <1>2

\* Whatever the interleaving of packets, clicks and lines: a request to leave, to kick
\* from or to write to a room is about the room that the question, menu or prompt named,
\* or a packet has taken that room, or moved the console, since.
THEOREM AsShown == Spec => RequestsAsShown
  <1>1. TypeOK /\ Named /\ [Next]_vars => [RightRoom]_vars
    <2> SUFFICES ASSUME TypeOK, Named, Next,
                        NEW r \in Rooms, NEW t \in {"MSG", "LEAVE_ROOM", "KICK_USER"},
                        user = CASE t = "MSG" -> "typing" [] t = "LEAVE_ROOM" -> "leave" [] OTHER -> "menu",
                        up' = Append(up, [type |-> t, room |-> r])
                 PROVE  r = shown \/ moved
      BY DEF RightRoom
    <2>1. up \in Seq(Request) BY DEF TypeOK
    <2>2. up' # up /\ (up # <<>> => up' # Tail(up))
          /\ \A s, x : Post(s, x) => s = t /\ x = r
      <3>1. \A b : Append(up, [type |-> t, room |-> r]) = Append(up, b)
                     => [type |-> t, room |-> r] = b
        BY <2>1, AppendOnce
      <3>2. \A s, x : Post(s, x) => [type |-> t, room |-> r] = [type |-> s, room |-> x]
        BY <3>1 DEF Post
      <3>3. \A s, x : [type |-> t, room |-> r] = [type |-> s, room |-> x] => s = t /\ x = r
        OBVIOUS
      <3> QED BY <2>1, <3>2, <3>3, AppendOnce
    <2>3. user \in {"typing", "leave", "menu"} /\ ~Silent BY <2>2 DEF Silent
    <2>4. shown = current \/ moved BY <2>3 DEF Named
    <2>5. CASE Type BY <2>2, <2>4, <2>5 DEF Type
    <2>6. CASE Reply
      <3>1. \/ Post("LEAVE_ROOM", current) \/ Post("LOGOUT", NoRoom)
            \/ Post("KICK_USER", current) \/ Post("GET_ROOMS_LIST", NoRoom)
        BY <2>3, <2>6 DEF Reply
      <3> QED BY <2>2, <2>4, <3>1
    <2>7. ~Serve BY <2>2 DEF Serve
    <2>8. ~Enter
      <3>1. CASE program = "gui" /\ window = "login" /\ Post("LOGIN", NoRoom) BY <2>2, <3>1
      <3>2. CASE user = "typing" /\ \E s \in {"LOGIN", "LOGOUT"} : Post(s, NoRoom) BY <2>2, <3>2
      <3>3. CASE /\ user = "typing"
                 /\ \E x \in Rooms \ {General} : Post("JOIN_ROOM", x) \/ Post("LEAVE_ROOM", x)
        <4>1. t \in {"JOIN_ROOM", "LEAVE_ROOM"} BY <2>2, <3>3
        <4> QED BY <3>3, <4>1
      <3> QED BY <3>1, <3>2, <3>3 DEF Enter
    <2>9. ~ClickButton BY <2>2, <2>3 DEF ClickButton
    <2>10. ~Dashboard BY <2>2 DEF Dashboard
    <2>11. ~Close BY <2>2, <2>3 DEF Close
    <2>12. ~SwitchToChat /\ ~Dispatch /\ ~Destroy /\ ~PrintJoined /\ ~PrintMove /\ ~SelectSet
      BY <2>2 DEF SwitchToChat, Dispatch, Destroy, PrintJoined, PrintMove, SelectSet
    <2>13. \A x \in Rooms : ~Other(x) /\ ~SelectCheck(x) /\ ~ClickRoom(x)
      BY <2>2 DEF Other, SelectCheck, ClickRoom
    <2>14. \A i \in DOMAIN owed : ~Send(i) BY <2>2 DEF Send
    <2> QED
      BY <2>5, <2>6, <2>7, <2>8, <2>9, <2>10, <2>11, <2>12, <2>13, <2>14 DEF Next
  <1>2. Init => TypeOK /\ Named BY InitType, InitNamed
  <1> QED BY <1>1, <1>2, NextType, NextNamed, PTL DEF Spec, RequestsAsShown

-----------------------------------------------------------------------------
(* The list of rooms follows the server's.  A packet that is owed and on time, the last   *)
(* that covers a room, tells the truth of it (Truth); and when none that is on time       *)
(* is owed, the last packet on its way that tells of the room does, or the list itself    *)
(* (Mirror).  A login and a logout empty the list, so such a packet must follow them.     *)
(* Where there is no chat window, nothing is claimed before an answer to LOGIN comes.     *)

Starts == {"LOGIN_RESP", "LOGOUT_RESP"}

\* Whether p changes what is listed of room r, and to what.
Tells(p, r) == \/ p.type \in {"gives", "takes"} /\ r \in p.rooms
               \/ p.type = "ROOMS_STATUS" /\ p.rooms # {}
Says(p, r)  == p.type = "gives" \/ (p.type = "ROOMS_STATUS" /\ r \in p.rooms)

OnTime(p, r) == r \in Covers(p) /\ r \notin p.late

\* The server has a session, and its ROOMS_STATUS is at least owed.
Live == session /\ \A i \in 1 .. Len(owed) : owed[i].type # "LOGIN_RESP"

Shape ==
  \A i \in 1 .. Len(owed) :
    /\ owed[i].type \in {"gives", "takes", "ROOMS_STATUS"} \cup Starts
    /\ owed[i].type \in Starts => owed[i].rooms = {} /\ owed[i].own
    /\ owed[i].late \subseteq Covers(owed[i])
    /\ owed[i].type = "LOGOUT_RESP" => ~session

Truth(r) ==
  \A i \in 1 .. Len(owed) :
    OnTime(owed[i], r) /\ (\A j \in 1 .. Len(owed) : j > i => r \notin Covers(owed[j]))
      => (Says(owed[i], r) <=> r \in member)

\* What is late has made late all that was before it.
Order(r) ==
  \A i, j \in 1 .. Len(owed) :
    i < j /\ r \in Covers(owed[i]) /\ r \in owed[j].late => r \in owed[i].late

Followed(r) ==
  \A i \in 1 .. Len(down) : down[i].type \in Starts =>
    \E j \in 1 .. Len(down) : j > i /\ Tells(down[j], r)

Mirror(r) ==
  \/ \E i \in 1 .. Len(down) :
       /\ Tells(down[i], r) /\ (Says(down[i], r) <=> r \in member)
       /\ \A j \in 1 .. Len(down) : j > i => ~Tells(down[j], r)
  \/ /\ \A j \in 1 .. Len(down) : ~Tells(down[j], r)
     /\ r \in joined <=> r \in member

\* There is a chat window, or one will be opened.
Ready == window = "chat" \/ \E j \in 1 .. Len(down) : down[j].type = "LOGIN_RESP"

Shown(r) ==
  Ready /\ r \notin raced /\ (\A i \in 1 .. Len(owed) : ~OnTime(owed[i], r)) => Mirror(r) /\ Followed(r)

\* Whoever is logged out has the answer to LOGIN before him.
Restart ==
  \A i \in 1 .. Len(down) : down[i].type = "LOGOUT_RESP" =>
    \E j \in 1 .. Len(down) : j > i /\ down[j].type = "LOGIN_RESP"

MirrorInv ==
  /\ Shape /\ \A r \in Rooms : Order(r)
  /\ Live => Restart /\ \A r \in Rooms : Truth(r) /\ Shown(r)

LEMMA InitMirror == Init => MirrorInv
  <1> SUFFICES ASSUME Init PROVE MirrorInv OBVIOUS
  <1>1. Len(owed) = 0 /\ ~session BY EmptySeq DEF Init
  <1> QED BY <1>1 DEF MirrorInv, Shape, Order, Live

\* The last facts about a list and its conclusion.
LEMMA MirrorEnds == ServerType /\ MirrorInv => RoomsMirrored
  <1> SUFFICES ASSUME ServerType, MirrorInv, session, window = "chat", Quiet, NEW r \in Rooms \ raced
               PROVE  r \in joined <=> r \in member
    BY DEF RoomsMirrored
  <1>1. Len(owed) = 0 /\ Len(down) = 0 BY EmptySeq DEF Quiet
  <1>2. Live BY <1>1 DEF Live
  <1>3. Mirror(r) BY <1>1, <1>2 DEF MirrorInv, Shown, Ready
  <1> QED BY <1>1, <1>3 DEF Mirror

LEMMA MirrorKept ==
  ASSUME MirrorInv, UNCHANGED <<session, member, owed, raced, down, joined, window>>
  PROVE  MirrorInv'
BY DEF MirrorInv, Shape, Order, Live, Restart, Truth, Shown, Ready, Mirror, Followed

\* A packet taken by the program.
LEMMA MirrorTake ==
  ASSUME TypeOK, MirrorInv, down # <<>>, down' = Tail(down),
         UNCHANGED <<session, member, owed, raced>>,
         window' = "chat" => window = "chat" \/ Head(down).type = "LOGIN_RESP",
         window = "chat" /\ Head(down).type \notin Starts => joined' = JoinedAfter(Head(down))
  PROVE  MirrorInv'
  <1> DEFINE p == Head(down)
             n == Len(down)
  <1>1. down \in Seq(Packet) /\ n \in Nat /\ n > 0 /\ p = down[1]
    BY EmptySeq DEF TypeOK
  <1>2. Len(down') = n - 1 /\ \A j \in 1 .. n - 1 : down'[j] = down[j + 1]
    BY <1>1, HeadTailProperties
  <1> HIDE DEF n, p
  <1>3. Shape' /\ (\A r \in Rooms : Order(r)') /\ (Live' <=> Live)
        /\ \A r \in Rooms : Truth(r) => Truth(r)'
    BY DEF MirrorInv, Shape, Order, Live, Truth
  <1>4. ASSUME Live PROVE Restart'
    <2>1. Restart BY <1>4 DEF MirrorInv
    <2>2. \A i \in 1 .. n - 1 : down'[i].type = "LOGOUT_RESP" =>
            \E j \in 1 .. n - 1 : j > i /\ down'[j].type = "LOGIN_RESP"
      <3> SUFFICES ASSUME NEW i \in 1 .. n - 1, down'[i].type = "LOGOUT_RESP"
                   PROVE  \E j \in 1 .. n - 1 : j > i /\ down'[j].type = "LOGIN_RESP"
        OBVIOUS
      <3>1. i + 1 \in 1 .. n /\ down[i + 1].type = "LOGOUT_RESP" BY <1>1, <1>2
      <3>2. PICK k \in 1 .. n : k > i + 1 /\ down[k].type = "LOGIN_RESP"
        BY <2>1, <3>1 DEF Restart, n
      <3>3. k - 1 \in 1 .. n - 1 /\ k - 1 > i /\ down'[k - 1] = down[k] BY <1>1, <1>2, <3>2
      <3> QED BY <3>2, <3>3
    <2> QED BY <1>1, <1>2, <2>2 DEF Restart
  <1>5. ASSUME Live, NEW r \in Rooms PROVE Shown(r)'
    <2> SUFFICES ASSUME Ready', r \notin raced, \A i \in 1 .. Len(owed) : ~OnTime(owed[i], r)
                 PROVE  Mirror(r)' /\ Followed(r)'
      BY DEF Shown
    <2>1. window' = "chat" \/ \E j \in 1 .. n - 1 : down'[j].type = "LOGIN_RESP"
      BY <1>2 DEF Ready
    <2>2. Ready
      <3>1. CASE window' = "chat"
        <4>1. window = "chat" \/ down[1].type = "LOGIN_RESP" BY <1>1, <3>1 DEF p
        <4> QED BY <1>1, <4>1 DEF Ready, n
      <3>2. CASE \E j \in 1 .. n - 1 : down'[j].type = "LOGIN_RESP"
        <4>1. PICK j \in 1 .. n - 1 : down'[j].type = "LOGIN_RESP" BY <3>2
        <4>2. j + 1 \in 1 .. n /\ down[j + 1].type = "LOGIN_RESP" BY <1>1, <1>2, <4>1
        <4> QED BY <4>2 DEF Ready, n
      <3> QED BY <2>1, <3>1, <3>2
    <2>3. Mirror(r) /\ Followed(r) BY <1>5, <2>2 DEF MirrorInv, Shown
    <2>4. Followed(r)'
      <3> SUFFICES ASSUME NEW i \in 1 .. n - 1, down'[i].type \in Starts
                   PROVE  \E j \in 1 .. n - 1 : j > i /\ Tells(down'[j], r)
        BY <1>2 DEF Followed, Tells
      <3>1. i + 1 \in 1 .. n /\ down[i + 1].type \in Starts BY <1>1, <1>2
      <3>2. PICK k \in 1 .. n : k > i + 1 /\ Tells(down[k], r)
        BY <2>3, <3>1 DEF Followed, n
      <3>3. k - 1 \in 1 .. n - 1 /\ k - 1 > i /\ down'[k - 1] = down[k] BY <1>1, <1>2, <3>2
      <3> QED BY <3>2, <3>3
    <2>5. CASE \E k \in 1 .. n : k > 1 /\ Tells(down[k], r)
      <3>1. PICK i \in 1 .. n : /\ Tells(down[i], r) /\ (Says(down[i], r) <=> r \in member)
                                /\ \A j \in 1 .. n : j > i => ~Tells(down[j], r)
        BY <2>3, <2>5 DEF Mirror, n
      <3>2. i > 1 BY <1>1, <2>5, <3>1
      <3>3. i - 1 \in 1 .. n - 1 /\ down'[i - 1] = down[i] BY <1>1, <1>2, <3>1, <3>2
      <3>4. \A j \in 1 .. n - 1 : j > i - 1 => ~Tells(down'[j], r)
        <4> SUFFICES ASSUME NEW j \in 1 .. n - 1, j > i - 1 PROVE ~Tells(down'[j], r) OBVIOUS
        <4>1. j + 1 \in 1 .. n /\ j + 1 > i /\ down'[j] = down[j + 1] BY <1>1, <1>2
        <4> QED BY <3>1, <4>1
      <3> QED BY <1>2, <2>4, <3>1, <3>3, <3>4 DEF Mirror, Tells, Says
    <2>6. CASE \A k \in 1 .. n : k > 1 => ~Tells(down[k], r)
      <3>1. \A k \in 1 .. n : down[k].type \notin Starts
        BY <1>1, <2>3, <2>6 DEF Followed, n
      <3>2. window = "chat" /\ p.type \notin Starts
        <4>1. p.type \notin Starts BY <1>1, <3>1
        <4>2. \A j \in 1 .. n - 1 : down'[j].type # "LOGIN_RESP"
          <5> SUFFICES ASSUME NEW j \in 1 .. n - 1 PROVE down'[j].type # "LOGIN_RESP" OBVIOUS
          <5>1. j + 1 \in 1 .. n /\ down'[j] = down[j + 1] BY <1>1, <1>2
          <5> QED BY <3>1, <5>1 DEF Starts
        <4>3. window' = "chat" BY <2>1, <4>2
        <4> QED BY <4>1, <4>3 DEF p, Starts
      <3>3. joined' = JoinedAfter(p) BY <3>2 DEF p
      <3>4. \A j \in 1 .. n - 1 : ~Tells(down'[j], r)
        <4> SUFFICES ASSUME NEW j \in 1 .. n - 1 PROVE ~Tells(down'[j], r) OBVIOUS
        <4>1. j + 1 \in 1 .. n /\ j + 1 > 1 /\ down'[j] = down[j + 1] BY <1>1, <1>2
        <4> QED BY <2>6, <4>1
      <3>5. CASE Tells(p, r)
        <4>1. r \in joined' <=> Says(p, r) BY <3>2, <3>3, <3>5 DEF JoinedAfter, Tells, Says, Starts
        <4>2. Says(p, r) <=> r \in member BY <1>1, <2>3, <2>6, <3>5 DEF Mirror, n
        <4> QED BY <1>2, <2>4, <3>4, <4>1, <4>2 DEF Mirror, Tells
      <3>6. CASE ~Tells(p, r)
        <4>1. r \in joined' <=> r \in joined BY <3>2, <3>3, <3>6 DEF JoinedAfter, Tells, Starts
        <4>2. \A k \in 1 .. n : ~Tells(down[k], r) BY <1>1, <2>6, <3>6
        <4>3. r \in joined <=> r \in member BY <2>3, <4>2 DEF Mirror, n
        <4> QED BY <1>2, <2>4, <3>4, <4>1, <4>3 DEF Mirror, Tells
      <3> QED BY <3>5, <3>6
    <2> QED BY <1>1, <2>4, <2>5, <2>6
  <1> QED BY <1>3, <1>4, <1>5 DEF MirrorInv

\* An answer or notice p is owed for a change of the rooms it tells of.
LEMMA MirrorChange ==
  ASSUME TypeOK, MirrorInv, NEW p \in Owed, NEW M, Changed(M, p), UNCHANGED <<joined, window>>,
         p.type \in {"gives", "takes"} \cup Starts, p.late = {},
         p.type \in Starts => p.rooms = {} /\ p.own,
         p.type = "LOGOUT_RESP" => ~session',
         ~session' \/ (session' /\ ~session) => p.type \in Starts,
         session' /\ ~session => \A i \in 1 .. Len(owed) : owed[i].type # "LOGOUT_RESP",
         Live' => /\ \A r \in Rooms \ p.rooms : r \in M <=> r \in member
                  /\ \A r \in p.rooms : r \in M <=> p.type = "gives"
  PROVE  MirrorInv'
  <1> DEFINE n == Len(owed)
  <1>1. owed \in Seq(Owed) /\ n \in Nat BY DEF TypeOK
  <1>2. member' = M /\ owed' = Append(owed, p) /\ raced' = raced /\ down' = down BY DEF Changed
  <1>3. Len(owed') = n + 1 /\ owed'[n + 1] = p /\ \A i \in 1 .. n : owed'[i] = owed[i]
    BY <1>1, <1>2
  <1> HIDE DEF n
  <1>4. Covers(p) = p.rooms BY DEF Covers, Starts
  <1>5. Shape'
    <2> SUFFICES ASSUME NEW i \in 1 .. n + 1
                 PROVE  /\ owed'[i].type \in {"gives", "takes", "ROOMS_STATUS"} \cup Starts
                        /\ owed'[i].type \in Starts => owed'[i].rooms = {} /\ owed'[i].own
                        /\ owed'[i].late \subseteq Covers(owed'[i])
                        /\ owed'[i].type = "LOGOUT_RESP" => ~session'
      BY <1>3 DEF Shape, Covers
    <2>1. CASE i = n + 1 BY <1>3, <2>1 DEF Covers
    <2>2. CASE i \in 1 .. n
      <3>1. owed[i].type = "LOGOUT_RESP" => ~session' BY <2>2 DEF MirrorInv, Shape, n
      <3> QED BY <1>3, <2>2, <3>1 DEF MirrorInv, Shape, n
    <2> QED BY <1>1, <2>1, <2>2
  <1>6. ASSUME NEW r \in Rooms PROVE Order(r)'
    <2> SUFFICES ASSUME NEW i \in 1 .. n + 1, NEW j \in 1 .. n + 1, i < j,
                        r \in Covers(owed'[i]), r \in owed'[j].late
                 PROVE  r \in owed'[i].late
      BY <1>3 DEF Order, Covers
    <2>1. j # n + 1 BY <1>3
    <2>2. i \in 1 .. n /\ j \in 1 .. n BY <1>1, <2>1
    <2> QED BY <1>3, <2>2 DEF MirrorInv, Order, n
  <1>7. ASSUME Live' PROVE Restart' /\ \A r \in Rooms : Truth(r)' /\ Shown(r)'
    <2>1. p.type # "LOGIN_RESP" /\ \A i \in 1 .. n : owed[i].type # "LOGIN_RESP"
      BY <1>1, <1>3, <1>7 DEF Live
    <2>2. p.type \in {"gives", "takes"} /\ session
      BY <1>7, <2>1 DEF Live, Starts
    <2>3. Live BY <2>1, <2>2 DEF Live, n
    <2>4. Restart' BY <1>2, <2>3 DEF MirrorInv, Restart
    <2>5. ASSUME NEW r \in Rooms PROVE Truth(r)'
      <3> SUFFICES ASSUME NEW i \in 1 .. n + 1, OnTime(owed'[i], r),
                          \A j \in 1 .. n + 1 : j > i => r \notin Covers(owed'[j])
                   PROVE  Says(owed'[i], r) <=> r \in M
        BY <1>2, <1>3 DEF Truth, OnTime, Says, Covers
      <3>1. CASE i = n + 1
        BY <1>3, <1>4, <1>7, <2>2, <3>1 DEF OnTime, Says
      <3>2. CASE i \in 1 .. n
        <4>1. r \notin p.rooms BY <1>1, <1>3, <1>4, <3>2
        <4>2. OnTime(owed[i], r) /\ \A j \in 1 .. n : j > i => r \notin Covers(owed[j])
          BY <1>1, <1>3, <3>2
        <4>3. Says(owed[i], r) <=> r \in member BY <2>3, <3>2, <4>2 DEF MirrorInv, Truth, n
        <4> QED BY <1>3, <1>7, <3>2, <4>1, <4>3
      <3> QED BY <1>1, <3>1, <3>2
    <2>6. ASSUME NEW r \in Rooms PROVE Shown(r)'
      <3> SUFFICES ASSUME Ready', r \notin raced, \A i \in 1 .. n + 1 : ~OnTime(owed'[i], r)
                   PROVE  Mirror(r)' /\ Followed(r)'
        BY <1>2, <1>3 DEF Shown, OnTime, Covers
      <3>1. r \notin p.rooms BY <1>1, <1>3, <1>4 DEF OnTime
      <3>2. \A i \in 1 .. n : ~OnTime(owed[i], r) BY <1>1, <1>3
      <3>3. Ready BY <1>2 DEF Ready
      <3>4. Mirror(r) /\ Followed(r) BY <2>3, <3>2, <3>3 DEF MirrorInv, Shown, n
      <3>5. r \in M <=> r \in member BY <1>7, <3>1
      <3> QED BY <1>2, <3>4, <3>5 DEF Mirror, Followed
    <2> QED BY <2>4, <2>5, <2>6
  <1> QED BY <1>5, <1>6, <1>7 DEF MirrorInv

\* A packet x is sent to the program.
LEMMA Arrival ==
  ASSUME TypeOK, NEW x \in Packet, down' = Append(down, x), UNCHANGED <<joined, window>>
  PROVE  /\ \A r \in Rooms : Tells(x, r) /\ (Says(x, r) <=> r \in member') => Mirror(r)' /\ Followed(r)'
         /\ \A r \in Rooms :
              ~Tells(x, r) /\ x.type \notin Starts /\ Mirror(r) /\ Followed(r)
                /\ (r \in member' <=> r \in member)
              => Mirror(r)' /\ Followed(r)'
         /\ x.type # "LOGOUT_RESP" /\ (Restart \/ x.type = "LOGIN_RESP") => Restart'
         /\ x.type # "LOGIN_RESP" /\ Ready' => Ready
  <1> DEFINE n == Len(down)
  <1>1. n \in Nat /\ down \in Seq(Packet) BY DEF TypeOK
  <1>2. Len(down') = n + 1 /\ down'[n + 1] = x /\ \A i \in 1 .. n : down'[i] = down[i]
    BY <1>1
  <1> HIDE DEF n
  <1>3. ASSUME NEW r \in Rooms, Tells(x, r), Says(x, r) <=> r \in member'
        PROVE  Mirror(r)' /\ Followed(r)'
    <2>1. x.type \notin Starts BY <1>3 DEF Tells, Starts
    <2>2. n + 1 \in 1 .. n + 1 /\ \A j \in 1 .. n + 1 : ~(j > n + 1) BY <1>1
    <2>3. Mirror(r)' BY <1>1, <1>2, <1>3, <2>2 DEF Mirror, Tells, Says
    <2>4. ASSUME NEW i \in 1 .. n + 1, down'[i].type \in Starts
          PROVE  \E j \in 1 .. n + 1 : j > i /\ Tells(down'[j], r)
      <3>1. i # n + 1 BY <1>2, <2>1, <2>4
      <3>2. n + 1 > i BY <1>1, <3>1
      <3> QED BY <1>2, <1>3, <2>2, <3>2
    <2>5. Followed(r)' BY <1>1, <1>2, <2>4 DEF Followed, Tells
    <2> QED BY <2>3, <2>5
  <1>4. ASSUME NEW r \in Rooms, ~Tells(x, r), x.type \notin Starts, Mirror(r), Followed(r),
               r \in member' <=> r \in member
        PROVE  Mirror(r)' /\ Followed(r)'
    <2>1. ASSUME NEW i \in 1 .. n + 1, down'[i].type \in Starts
          PROVE  \E j \in 1 .. n + 1 : j > i /\ Tells(down'[j], r)
      <3>1. i \in 1 .. n /\ down[i].type \in Starts BY <1>1, <1>2, <1>4, <2>1
      <3>2. PICK j \in 1 .. n : j > i /\ Tells(down[j], r) BY <1>4, <3>1 DEF Followed, n
      <3>3. j \in 1 .. n + 1 /\ down'[j] = down[j] BY <1>1, <1>2
      <3> QED BY <3>2, <3>3
    <2>2. Followed(r)' BY <1>1, <1>2, <2>1 DEF Followed, Tells
    <2>3. CASE \E i \in 1 .. n : /\ Tells(down[i], r) /\ (Says(down[i], r) <=> r \in member)
                                 /\ \A j \in 1 .. n : j > i => ~Tells(down[j], r)
      <3>1. PICK i \in 1 .. n : /\ Tells(down[i], r) /\ (Says(down[i], r) <=> r \in member)
                                /\ \A j \in 1 .. n : j > i => ~Tells(down[j], r)
        BY <2>3
      <3>2. i \in 1 .. n + 1 /\ down'[i] = down[i] BY <1>1, <1>2
      <3>3. \A j \in 1 .. n + 1 : j > i => ~Tells(down'[j], r)
        <4> SUFFICES ASSUME NEW j \in 1 .. n + 1, j > i PROVE ~Tells(down'[j], r) OBVIOUS
        <4>1. CASE j = n + 1 BY <1>2, <1>4, <4>1
        <4>2. CASE j \in 1 .. n BY <1>2, <3>1, <4>2
        <4>3. j = n + 1 \/ j \in 1 .. n BY <1>1
        <4> QED BY <4>1, <4>2, <4>3, Zenon
      <3>4. Mirror(r)' BY <1>1, <1>2, <1>4, <3>1, <3>2, <3>3 DEF Mirror, Tells, Says
      <3> QED BY <2>2, <3>4
    <2>4. CASE (\A j \in 1 .. n : ~Tells(down[j], r)) /\ (r \in joined <=> r \in member)
      <3>1. \A j \in 1 .. n + 1 : ~Tells(down'[j], r)
        <4> SUFFICES ASSUME NEW j \in 1 .. n + 1 PROVE ~Tells(down'[j], r) OBVIOUS
        <4>1. CASE j = n + 1 BY <1>2, <1>4, <4>1
        <4>2. CASE j \in 1 .. n BY <1>2, <2>4, <4>2
        <4>3. j = n + 1 \/ j \in 1 .. n BY <1>1
        <4> QED BY <4>1, <4>2, <4>3, Zenon
      <3>2. Mirror(r)' BY <1>1, <1>2, <1>4, <2>4, <3>1 DEF Mirror, Tells
      <3> QED BY <2>2, <3>2
    <2> QED BY <1>4, <2>3, <2>4 DEF Mirror, n
  <1>5. ASSUME x.type # "LOGOUT_RESP", Restart \/ x.type = "LOGIN_RESP" PROVE Restart'
    <2>1. ASSUME NEW i \in 1 .. n + 1, down'[i].type = "LOGOUT_RESP"
          PROVE  \E j \in 1 .. n + 1 : j > i /\ down'[j].type = "LOGIN_RESP"
      <3>1. i \in 1 .. n /\ down[i].type = "LOGOUT_RESP" BY <1>1, <1>2, <1>5, <2>1
      <3>2. CASE x.type = "LOGIN_RESP"
        <4>1. n + 1 \in 1 .. n + 1 /\ n + 1 > i BY <1>1, <3>1
        <4> QED BY <1>2, <3>2, <4>1
      <3>3. CASE Restart
        <4>1. PICK j \in 1 .. n : j > i /\ down[j].type = "LOGIN_RESP" BY <3>1, <3>3 DEF Restart, n
        <4>2. j \in 1 .. n + 1 /\ down'[j] = down[j] BY <1>1, <1>2
        <4> QED BY <4>1, <4>2
      <3> QED BY <1>5, <3>2, <3>3
    <2> QED BY <1>1, <1>2, <2>1 DEF Restart
  <1>6. ASSUME x.type # "LOGIN_RESP", Ready' PROVE Ready
    <2>1. CASE window' = "chat" BY <2>1 DEF Ready
    <2>2. CASE \E j \in 1 .. n + 1 : down'[j].type = "LOGIN_RESP"
      <3>1. PICK j \in 1 .. n + 1 : down'[j].type = "LOGIN_RESP" BY <2>2
      <3>2. j \in 1 .. n BY <1>1, <1>2, <1>6, <3>1
      <3> QED BY <1>2, <3>1, <3>2 DEF Ready, n
    <2> QED BY <1>2, <1>6, <2>1, <2>2 DEF Ready
  <1> QED BY <1>3, <1>4, <1>5, <1>6

\* An answer that changes nothing.
LEMMA MirrorTold ==
  ASSUME TypeOK, MirrorInv, NEW t \in {"ERROR", "ROOMS_LIST_RESP"}, Told(t),
         UNCHANGED <<session, joined, window>>
  PROVE  MirrorInv'
  <1>1. Plain(t) \in Packet BY PlainType DEF Packets
  <1>2. /\ UNCHANGED <<session, member, owed, raced>> /\ down' = Append(down, Plain(t))
    BY DEF Told
  <1>3. Plain(t).type \notin Starts /\ Plain(t).type # "LOGOUT_RESP" /\ \A r \in Rooms : ~Tells(Plain(t), r)
    BY DEF Plain, Starts, Tells
  <1>4. /\ \A r \in Rooms : Mirror(r) /\ Followed(r) => Mirror(r)' /\ Followed(r)'
        /\ (Restart => Restart') /\ (Ready' => Ready)
    <2>1. Plain(t).type # "LOGIN_RESP" BY <1>3 DEF Starts
    <2> QED BY <1>1, <1>2, <1>3, <2>1, Arrival
  <1>5. Shape' /\ (\A r \in Rooms : Order(r)') /\ (Live' <=> Live)
        /\ \A r \in Rooms : Truth(r) => Truth(r)'
    BY <1>2 DEF MirrorInv, Shape, Order, Live, Truth
  <1>6. \A r \in Rooms : Shown(r) => Shown(r)' BY <1>2, <1>4 DEF Shown
  <1> QED BY <1>4, <1>5, <1>6 DEF MirrorInv

\* CREATE_ROOM for a member of the staff.
LEMMA MirrorAppended ==
  ASSUME TypeOK, MirrorInv, NEW s \in Rooms, Appended(s), UNCHANGED <<session, joined, window>>
  PROVE  MirrorInv'
  <1> DEFINE n == Len(owed)
             x == [type |-> "gives", rooms |-> {s}]
  <1>1. owed \in Seq(Owed) /\ n \in Nat BY DEF TypeOK
  <1>2. /\ Len(owed') = n
        /\ \A i \in 1 .. n : owed'[i] = [owed[i] EXCEPT !.late = @ \cup (Covers(owed[i]) \cap {s})]
    BY <1>1, OutdatedType DEF Appended
  <1>3. \A i \in 1 .. n : owed[i] \in Owed BY <1>1, ElementOfSeq
  <1>4. \A i \in 1 .. n :
          /\ owed'[i].type = owed[i].type /\ owed'[i].rooms = owed[i].rooms
          /\ owed'[i].own = owed[i].own /\ Covers(owed'[i]) = Covers(owed[i])
          /\ owed'[i].late = owed[i].late \cup (Covers(owed[i]) \cap {s})
    <2> SUFFICES ASSUME NEW i \in 1 .. n
                 PROVE  /\ owed'[i].type = owed[i].type /\ owed'[i].rooms = owed[i].rooms
                        /\ owed'[i].own = owed[i].own /\ Covers(owed'[i]) = Covers(owed[i])
                        /\ owed'[i].late = owed[i].late \cup (Covers(owed[i]) \cap {s})
      OBVIOUS
    <2>1. /\ owed'[i].type = owed[i].type /\ owed'[i].rooms = owed[i].rooms
          /\ owed'[i].own = owed[i].own
          /\ owed'[i].late = owed[i].late \cup (Covers(owed[i]) \cap {s})
      BY <1>2, <1>3 DEF Owed
    <2> QED BY <2>1 DEF Covers
  <1>5. x \in Packet /\ down' = Append(down, x) /\ member' = member \cup {s} /\ raced' = raced \ {s}
    BY DEF Appended, Packet, Packets
  <1>6. x.type = "gives" /\ x.rooms = {s} BY DEF x
  <1> HIDE DEF n, x
  <1>7. Shape' BY <1>2, <1>4 DEF MirrorInv, Shape, n
  <1>8. ASSUME NEW r \in Rooms PROVE Order(r)'
    <2> SUFFICES ASSUME NEW i \in 1 .. n, NEW j \in 1 .. n, i < j,
                        r \in Covers(owed'[i]), r \in owed'[j].late
                 PROVE  r \in owed'[i].late
      BY <1>2 DEF Order, Covers
    <2> QED BY <1>4 DEF MirrorInv, Order, n
  <1>9. ASSUME Live' PROVE Restart' /\ \A r \in Rooms : Truth(r)' /\ Shown(r)'
    <2>1. Live BY <1>2, <1>4, <1>9 DEF Live, n
    <2>2. Restart' BY <1>5, <1>6, <2>1, Arrival DEF MirrorInv
    <2>3. ASSUME NEW r \in Rooms PROVE Truth(r)'
      <3> SUFFICES ASSUME NEW i \in 1 .. n, OnTime(owed'[i], r),
                          \A j \in 1 .. n : j > i => r \notin Covers(owed'[j])
                   PROVE  Says(owed'[i], r) <=> r \in member'
        BY <1>2 DEF Truth, OnTime, Says, Covers
      <3>1. OnTime(owed[i], r) /\ r # s BY <1>4 DEF OnTime
      <3>2. \A j \in 1 .. n : j > i => r \notin Covers(owed[j]) BY <1>4
      <3>3. Says(owed[i], r) <=> r \in member BY <2>1, <3>1, <3>2 DEF MirrorInv, Truth, n
      <3> QED BY <1>4, <1>5, <3>1, <3>3 DEF Says
    <2>4. ASSUME NEW r \in Rooms PROVE Shown(r)'
      <3> SUFFICES ASSUME Ready', r \notin raced', \A i \in 1 .. n : ~OnTime(owed'[i], r)
                   PROVE  Mirror(r)' /\ Followed(r)'
        BY <1>2 DEF Shown, OnTime, Covers
      <3>1. CASE r = s
        <4>1. Tells(x, r) /\ Says(x, r) /\ r \in member' BY <1>5, <1>6, <3>1 DEF Tells, Says
        <4> QED BY <1>5, <4>1, Arrival
      <3>2. CASE r # s
        <4>1. \A i \in 1 .. n : ~OnTime(owed[i], r) BY <1>4, <3>2 DEF OnTime
        <4>2. Ready BY <1>5, <1>6, Arrival
        <4>3. Mirror(r) /\ Followed(r) BY <1>5, <2>1, <3>2, <4>1, <4>2 DEF MirrorInv, Shown, n
        <4>4. ~Tells(x, r) /\ x.type \notin Starts /\ (r \in member' <=> r \in member)
          BY <1>5, <1>6, <3>2 DEF Tells, Starts
        <4> QED BY <1>5, <4>3, <4>4, Arrival
      <3> QED BY <3>1, <3>2
    <2> QED BY <2>2, <2>3, <2>4
  <1> QED BY <1>7, <1>8, <1>9 DEF MirrorInv

LEMMA MirrorOther == ASSUME TypeOK, MirrorInv, NEW r \in Rooms, Other(r) PROVE MirrorInv'
  <1>1. session /\ UNCHANGED <<session, joined, window>> BY DEF Other, view
  <1>2. member \subseteq Rooms BY DEF TypeOK
  <1>3. CASE r \in member /\ Changed(member \ {r}, Notice("takes", r))
    <2> DEFINE p == Notice("takes", r)
    <2>1. p \in Owed BY NoticeType, ClientsAssumption DEF Packets
    <2>2. p.type = "takes" /\ p.rooms = {r} /\ p.late = {} BY DEF Notice
    <2> HIDE DEF p
    <2> QED BY <1>1, <1>3, <2>1, <2>2, MirrorChange DEF p, Starts
  <1>4. CASE Changed(member \cup {r}, Notice("gives", r))
    <2> DEFINE p == Notice("gives", r)
    <2>1. p \in Owed BY NoticeType, ClientsAssumption DEF Packets
    <2>2. p.type = "gives" /\ p.rooms = {r} /\ p.late = {} BY DEF Notice
    <2> HIDE DEF p
    <2> QED BY <1>1, <1>4, <2>1, <2>2, MirrorChange DEF p, Starts
  <1>5. CASE Appended(r) BY <1>1, <1>5, MirrorAppended
  <1> QED BY <1>3, <1>4, <1>5 DEF Other

LEMMA MirrorServe == ASSUME TypeOK, MirrorInv, Serve PROVE MirrorInv'
  <1> DEFINE q == Head(up)
  <1>1. /\ \/ (session \/ q.type = "LOGIN") /\ Granted(q)
           \/ (~session \/ q.type \in Refusable) /\ q.type # "LOGIN" /\ Told("ERROR")
        /\ session' = (q.type = "LOGIN" \/ (session /\ q.type # "LOGOUT"))
        /\ UNCHANGED <<joined, window>> /\ up # <<>>
    BY DEF Serve, view
  <1>2. q \in Request BY <1>1 DEF TypeOK
  <1>3. \A i \in 1 .. Len(owed) : ~owed[i].own
    <2>1. DOMAIN owed = 1 .. Len(owed) BY LenProperties DEF TypeOK
    <2> QED BY <2>1 DEF Serve, Busy
  <1>4. \A i \in 1 .. Len(owed) : owed[i].type \notin Starts BY <1>3 DEF MirrorInv, Shape
  <1>5. session \in BOOLEAN /\ member \subseteq Rooms BY DEF TypeOK
  <1>6. \A i \in 1 .. Len(owed) : owed[i].type # "LOGOUT_RESP" BY <1>4 DEF Starts
  <1> HIDE DEF q
  <1>7. CASE Told("ERROR") /\ q.type # "LOGIN" /\ (~session \/ q.type \in Refusable)
    <2>1. session' = session BY <1>1, <1>5, <1>7 DEF Refusable
    <2> QED BY <1>1, <1>7, <2>1, MirrorTold
  <1>8. CASE (session \/ q.type = "LOGIN") /\ Granted(q)
    <2>1. CASE q.type = "LOGIN" /\ \E M \in Saved : Changed(M, Answer("LOGIN_RESP", {}))
      <3> DEFINE p == Answer("LOGIN_RESP", {})
      <3>1. PICK M \in Saved : Changed(M, p) BY <2>1
      <3>2. p \in Owed BY NoticeType, ClientsAssumption DEF Packets
      <3>3. p.type = "LOGIN_RESP" /\ p.rooms = {} /\ p.late = {} /\ p.own BY DEF Answer
      <3>4. ~Live'
        <4>1. owed' = Append(owed, p) /\ owed \in Seq(Owed) BY <3>1 DEF Changed, TypeOK
        <4> HIDE DEF p
        <4>2. Len(owed) + 1 \in 1 .. Len(owed') /\ owed'[Len(owed) + 1] = p BY <4>1
        <4> QED BY <3>3, <4>2 DEF Live
      <3> HIDE DEF p
      <3> QED BY <1>1, <1>6, <3>1, <3>2, <3>3, <3>4, MirrorChange DEF Starts
    <2>2. CASE q.type = "LOGOUT" /\ Changed({}, Answer("LOGOUT_RESP", {}))
      <3> DEFINE p == Answer("LOGOUT_RESP", {})
      <3>1. p \in Owed BY NoticeType, ClientsAssumption DEF Packets
      <3>2. p.type = "LOGOUT_RESP" /\ p.rooms = {} /\ p.late = {} /\ p.own BY DEF Answer
      <3>3. ~session' /\ ~Live' BY <1>1, <2>2 DEF Live
      <3> HIDE DEF p
      <3> QED BY <1>1, <2>2, <3>1, <3>2, <3>3, MirrorChange DEF p, Starts
    <2>3. CASE q.type = "GET_ROOMS_LIST" /\ Told("ROOMS_LIST_RESP")
      <3>1. session' = session BY <1>1, <1>5, <1>8, <2>3
      <3> QED BY <1>1, <2>3, <3>1, MirrorTold
    <2>4. CASE q.type = "JOIN_ROOM" /\ Changed(member \cup {q.room}, Answer("gives", {q.room}))
      <3> DEFINE p == Answer("gives", {q.room})
      <3>1. {q.room} \in SUBSET Rooms BY <1>2, <2>4 DEF Request, Requests, Roomless
      <3>2. p \in Owed BY <3>1, NoticeType, ClientsAssumption DEF Packets
      <3>3. p.type = "gives" /\ p.rooms = {q.room} /\ p.late = {} BY DEF Answer
      <3>4. session /\ session' = session BY <1>1, <1>5, <1>8, <2>4
      <3> HIDE DEF p
      <3> QED BY <1>1, <2>4, <3>2, <3>3, <3>4, MirrorChange DEF p, Starts
    <2>5. CASE /\ q.type = "LEAVE_ROOM" /\ q.room \in member \ {General}
               /\ Changed(member \ {q.room}, Answer("takes", {q.room}))
      <3> DEFINE p == Answer("takes", {q.room})
      <3>1. {q.room} \in SUBSET Rooms BY <1>5, <2>5
      <3>2. p \in Owed BY <3>1, NoticeType, ClientsAssumption DEF Packets
      <3>3. p.type = "takes" /\ p.rooms = {q.room} /\ p.late = {} BY DEF Answer
      <3>4. session /\ session' = session BY <1>1, <1>5, <1>8, <2>5
      <3> HIDE DEF p
      <3> QED BY <1>1, <2>5, <3>2, <3>3, <3>4, MirrorChange DEF p, Starts
    <2>6. CASE q.type \in {"MSG", "KICK_USER", "ADD_USER_TO_ROOM"} /\ Kept
      <3>1. session' = session BY <1>1, <1>5, <1>8, <2>6
      <3> QED BY <1>1, <2>6, <3>1, MirrorKept DEF Kept
    <2> QED BY <1>8, <2>1, <2>2, <2>3, <2>4, <2>5, <2>6 DEF Granted
  <1> QED BY <1>1, <1>7, <1>8

\* A handler sends what it owes.  Of two packets about a room, the earlier is late from then
\* on, or it was sent.
LEMMA MirrorSend == ASSUME TypeOK, MirrorInv, NEW s \in 1 .. Len(owed), Send(s) PROVE MirrorInv'
  <1> DEFINE n == Len(owed)
             p == owed[s]
             x == [type |-> p.type, rooms |-> p.rooms]
             status == Answer("ROOMS_STATUS", member)
             \* where the packets owed came from
             From(j) == IF j < s THEN j ELSE j + 1
  <1>1. ServerType BY Parts
  <1>2. /\ n \in Nat /\ p \in Owed /\ Rest(s) \in Seq(Owed) /\ Len(Rest(s)) = n - 1
        /\ \A i \in 1 .. n : owed[i] \in Owed
        /\ \A j \in 1 .. n - 1 :
             Rest(s)[j] = IF j < s
                            THEN [owed[j] EXCEPT !.late = @ \cup (Covers(owed[j]) \cap Covers(p))]
                            ELSE owed[j + 1]
    BY <1>1, RestType, ElementOfSeq DEF ServerType
  <1>3. /\ down' = Append(down, x)
        /\ owed' = IF p.type = "LOGIN_RESP" THEN Append(Rest(s), status) ELSE Rest(s)
        /\ raced' = IF p.type = "ROOMS_STATUS" /\ p.rooms = {} THEN Rooms
                    ELSE (raced \ Covers(p)) \cup p.late
        /\ UNCHANGED <<session, member, joined, window>>
    BY DEF Send, Rest, view
  <1>4. \A j \in 1 .. n - 1 : From(j) \in 1 .. n /\ From(j) # s BY <1>2
  <1>5. \A i, j \in 1 .. n - 1 : i < j => From(i) < From(j) BY <1>2
  <1>6. \A k \in 1 .. n : k # s => \E j \in 1 .. n - 1 : From(j) = k
    <2> SUFFICES ASSUME NEW k \in 1 .. n, k # s PROVE \E j \in 1 .. n - 1 : From(j) = k OBVIOUS
    <2>1. CASE k < s
      <3>1. k \in 1 .. n - 1 /\ From(k) = k BY <1>2, <2>1
      <3> QED BY <3>1
    <2>2. CASE k > s
      <3>1. k - 1 \in 1 .. n - 1 /\ From(k - 1) = k BY <1>2, <2>2
      <3> QED BY <3>1
    <2> QED BY <1>2, <2>1, <2>2
  <1>7. /\ p.type \in {"gives", "takes", "ROOMS_STATUS"} \cup Starts
        /\ p.type \in Starts => p.rooms = {}
        /\ p.late \subseteq Covers(p) /\ Covers(p) \subseteq Rooms
        /\ p.type = "LOGOUT_RESP" => ~session
    BY <1>2, CoversType DEF MirrorInv, Shape, Owed
  <1>8. \A j \in 1 .. n - 1 :
          /\ Rest(s)[j].type = owed[From(j)].type /\ Rest(s)[j].rooms = owed[From(j)].rooms
          /\ Rest(s)[j].own = owed[From(j)].own /\ Covers(Rest(s)[j]) = Covers(owed[From(j)])
          /\ j < s => Rest(s)[j].late = owed[From(j)].late \cup (Covers(owed[From(j)]) \cap Covers(p))
          /\ ~(j < s) => Rest(s)[j].late = owed[From(j)].late
    <2> SUFFICES ASSUME NEW j \in 1 .. n - 1
                 PROVE  /\ Rest(s)[j].type = owed[From(j)].type
                        /\ Rest(s)[j].rooms = owed[From(j)].rooms
                        /\ Rest(s)[j].own = owed[From(j)].own
                        /\ Covers(Rest(s)[j]) = Covers(owed[From(j)])
                        /\ j < s => Rest(s)[j].late
                                      = owed[From(j)].late \cup (Covers(owed[From(j)]) \cap Covers(p))
                        /\ ~(j < s) => Rest(s)[j].late = owed[From(j)].late
      OBVIOUS
    <2>1. CASE j < s
      <3>1. From(j) = j /\ owed[j] \in Owed BY <1>2, <1>4, <2>1
      <3>2. Rest(s)[j] = [owed[j] EXCEPT !.late = @ \cup (Covers(owed[j]) \cap Covers(p))]
        BY <1>2, <2>1
      <3> HIDE DEF From, p
      <3>3. /\ Rest(s)[j].type = owed[j].type /\ Rest(s)[j].rooms = owed[j].rooms
            /\ Rest(s)[j].own = owed[j].own
            /\ Rest(s)[j].late = owed[j].late \cup (Covers(owed[j]) \cap Covers(p))
        BY <3>1, <3>2 DEF Owed
      <3>4. Covers(Rest(s)[j]) = Covers(owed[j]) BY <3>3 DEF Covers
      <3> QED BY <2>1, <3>1, <3>3, <3>4
    <2>2. CASE ~(j < s)
      <3>1. Rest(s)[j] = owed[From(j)] BY <1>2, <2>2
      <3> HIDE DEF From
      <3> QED BY <2>2, <3>1
    <2> QED BY <2>1, <2>2
  <1>9. \A j \in 1 .. n - 1 : ~(j < s) => From(j) > s BY <1>2
  <1>10. \A j \in 1 .. n - 1 : j < s => From(j) < s BY <1>2
  <1>11. x \in Packet /\ x.type = p.type /\ x.rooms = p.rooms BY <1>2 DEF Owed, Packet
  <1> HIDE DEF n, p, x, status, From
  \* The packets that remain.
  <1>12. \A j \in 1 .. n - 1 :
           /\ Rest(s)[j].type \in {"gives", "takes", "ROOMS_STATUS"} \cup Starts
           /\ Rest(s)[j].type \in Starts => Rest(s)[j].rooms = {} /\ Rest(s)[j].own
           /\ Rest(s)[j].late \subseteq Covers(Rest(s)[j])
           /\ Rest(s)[j].type = "LOGOUT_RESP" => ~session
    <2> SUFFICES ASSUME NEW j \in 1 .. n - 1
                 PROVE  /\ Rest(s)[j].type \in {"gives", "takes", "ROOMS_STATUS"} \cup Starts
                        /\ Rest(s)[j].type \in Starts => Rest(s)[j].rooms = {} /\ Rest(s)[j].own
                        /\ Rest(s)[j].late \subseteq Covers(Rest(s)[j])
                        /\ Rest(s)[j].type = "LOGOUT_RESP" => ~session
      OBVIOUS
    <2> DEFINE k == From(j)
    <2>1. k \in 1 .. n BY <1>4
    <2> HIDE DEF k
    <2>2. /\ owed[k].type \in {"gives", "takes", "ROOMS_STATUS"} \cup Starts
          /\ owed[k].type \in Starts => owed[k].rooms = {} /\ owed[k].own
          /\ owed[k].late \subseteq Covers(owed[k])
          /\ owed[k].type = "LOGOUT_RESP" => ~session
      BY <2>1 DEF MirrorInv, Shape, n
    <2> QED BY <1>8, <2>2 DEF k
  <1>13. ASSUME NEW r \in Rooms, NEW i \in 1 .. n - 1, NEW j \in 1 .. n - 1, i < j,
                r \in Covers(Rest(s)[i]), r \in Rest(s)[j].late
         PROVE  r \in Rest(s)[i].late
    <2>1. From(i) \in 1 .. n /\ From(j) \in 1 .. n /\ From(i) < From(j) BY <1>4, <1>5, <1>13
    <2>2. r \in Covers(owed[From(i)]) BY <1>8, <1>13
    <2>3. CASE r \in owed[From(j)].late
      <3>1. r \in owed[From(i)].late BY <2>1, <2>2, <2>3 DEF MirrorInv, Order, n
      <3> QED BY <1>8, <3>1
    <2>4. CASE r \notin owed[From(j)].late
      <3>1. j < s /\ r \in Covers(p) BY <1>8, <1>13, <2>4
      <3>2. i < s BY <1>2, <1>13, <3>1
      <3> QED BY <1>8, <2>2, <3>1, <3>2
    <2> QED BY <2>3, <2>4
  <1>14. CASE p.type = "LOGIN_RESP"
    <2>1. /\ owed' = Append(Rest(s), status) /\ status \in Owed
          /\ status.type = "ROOMS_STATUS" /\ status.rooms = member /\ status.late = {}
      <3>1. "ROOMS_STATUS" \in Packets /\ member \in SUBSET Rooms /\ General \in Rooms
        BY <1>1, ClientsAssumption DEF ServerType, Packets
      <3>2. status \in Owed BY <3>1, NoticeType DEF status
      <3>3. status.type = "ROOMS_STATUS" /\ status.rooms = member /\ status.late = {}
        BY DEF status, Answer
      <3> QED BY <1>3, <1>14, <3>2, <3>3
    <2>2. Len(owed') = n /\ owed'[n] = status /\ \A j \in 1 .. n - 1 : owed'[j] = Rest(s)[j]
      BY <1>2, <2>1
    <2>3. Covers(status) = Rooms BY <2>1 DEF Covers
    <2>4. \A j \in 1 .. n : j = n \/ j \in 1 .. n - 1 BY <1>2
    <2>5. n \in 1 .. n BY <1>2 DEF n
    <2>6. Shape'
      <3> SUFFICES ASSUME NEW i \in 1 .. n
                   PROVE  /\ owed'[i].type \in {"gives", "takes", "ROOMS_STATUS"} \cup Starts
                          /\ owed'[i].type \in Starts => owed'[i].rooms = {} /\ owed'[i].own
                          /\ owed'[i].late \subseteq Covers(owed'[i])
                          /\ owed'[i].type = "LOGOUT_RESP" => ~session
        BY <1>3, <2>2 DEF Shape, Covers
      <3>1. CASE i = n BY <2>1, <2>2, <3>1 DEF Starts
      <3>2. CASE i \in 1 .. n - 1 BY <1>12, <2>2, <3>2
      <3> QED BY <2>4, <3>1, <3>2
    <2>7. ASSUME NEW r \in Rooms PROVE Order(r)'
      <3> SUFFICES ASSUME NEW i \in 1 .. n, NEW j \in 1 .. n, i < j,
                          r \in Covers(owed'[i]), r \in owed'[j].late
                   PROVE  r \in owed'[i].late
        BY <2>2 DEF Order, Covers
      <3>1. j # n BY <2>1, <2>2
      <3>2. i \in 1 .. n - 1 /\ j \in 1 .. n - 1 BY <1>2, <3>1
      <3> QED BY <1>13, <2>2, <3>2
    <2>8. ASSUME Live' PROVE Restart' /\ \A r \in Rooms : Truth(r)' /\ Shown(r)'
      <3>1. Restart' BY <1>3, <1>11, <1>14, Arrival
      <3>2. ASSUME NEW r \in Rooms PROVE Truth(r)'
        <4> SUFFICES ASSUME NEW i \in 1 .. n, \A j \in 1 .. n : j > i => r \notin Covers(owed'[j])
                     PROVE  Says(owed'[i], r) <=> r \in member
          BY <1>3, <2>2 DEF Truth, OnTime, Says, Covers
        <4>1. i = n BY <1>2, <2>2, <2>3, <2>5
        <4> QED BY <2>1, <2>2, <4>1 DEF Says
      <3>3. ASSUME NEW r \in Rooms PROVE OnTime(owed'[n], r) BY <2>1, <2>2, <2>3 DEF OnTime
      <3>4. ASSUME NEW r \in Rooms PROVE Shown(r)'
        BY <2>2, <2>5, <3>3 DEF Shown, OnTime, Covers
      <3> QED BY <3>1, <3>2, <3>4
    <2> QED BY <2>6, <2>7, <2>8 DEF MirrorInv
  <1>15. CASE p.type # "LOGIN_RESP"
    <2>1. owed' = Rest(s) /\ Len(owed') = n - 1 BY <1>2, <1>3, <1>15
    <2>2. Shape' BY <1>3, <1>12, <2>1 DEF Shape, Covers
    <2>3. \A r \in Rooms : Order(r)' BY <1>13, <2>1 DEF Order, Covers
    <2>4. ASSUME Live' PROVE Restart' /\ \A r \in Rooms : Truth(r)' /\ Shown(r)'
      <3>1. Live
        <4> SUFFICES ASSUME NEW k \in 1 .. n PROVE owed[k].type # "LOGIN_RESP"
          BY <1>3, <2>4 DEF Live, n
        <4>1. CASE k = s BY <1>15, <4>1 DEF p
        <4>2. CASE k # s
          <5>1. PICK j \in 1 .. n - 1 : From(j) = k BY <1>6, <4>2
          <5>2. owed'[j].type # "LOGIN_RESP" BY <2>1, <2>4 DEF Live
          <5> QED BY <1>8, <2>1, <5>1, <5>2
        <4> QED BY <4>1, <4>2
      <3>2. session /\ p.type # "LOGOUT_RESP" BY <1>7, <3>1 DEF Live
      <3>3. Restart' BY <1>3, <1>11, <3>1, <3>2, Arrival DEF MirrorInv
      <3>4. p.type \notin Starts /\ x.type \notin Starts BY <1>11, <1>15, <3>2 DEF Starts
      <3>5. ASSUME NEW r \in Rooms PROVE Truth(r)'
        <4> SUFFICES ASSUME NEW i \in 1 .. n - 1, OnTime(Rest(s)[i], r),
                            \A j \in 1 .. n - 1 : j > i => r \notin Covers(Rest(s)[j])
                     PROVE  Says(Rest(s)[i], r) <=> r \in member
          BY <1>3, <2>1 DEF Truth, OnTime, Says, Covers
        <4>1. OnTime(owed[From(i)], r) /\ (From(i) < s => r \notin Covers(p))
          <5>1. r \in Covers(owed[From(i)]) /\ r \notin owed[From(i)].late BY <1>8 DEF OnTime
          <5>2. i < s => r \notin Covers(p) BY <1>8, <5>1 DEF OnTime
          <5>3. From(i) < s => i < s BY <1>2, <1>4, <1>9
          <5> QED BY <5>1, <5>2, <5>3 DEF OnTime
        <4>2. ASSUME NEW k \in 1 .. n, k > From(i) PROVE r \notin Covers(owed[k])
          <5>1. CASE k = s BY <4>1, <4>2, <5>1 DEF p
          <5>2. CASE k # s
            <6>1. PICK j \in 1 .. n - 1 : From(j) = k BY <1>6, <5>2
            <6>2. j > i
              <7>1. ~(j < i) /\ j # i BY <1>4, <1>5, <4>2, <6>1
              <7> QED BY <1>2, <7>1
            <6> QED BY <1>8, <6>1, <6>2
          <5> QED BY <5>1, <5>2
        <4>3. Says(owed[From(i)], r) <=> r \in member
          BY <1>4, <3>1, <4>1, <4>2 DEF MirrorInv, Truth, n
        <4> QED BY <1>8, <4>3 DEF Says
      <3>6. ASSUME NEW r \in Rooms PROVE Shown(r)'
        <4> SUFFICES ASSUME Ready', r \notin raced', \A i \in 1 .. n - 1 : ~OnTime(Rest(s)[i], r)
                     PROVE  Mirror(r)' /\ Followed(r)'
          BY <2>1 DEF Shown, OnTime, Covers
        <4>1. ~(p.type = "ROOMS_STATUS" /\ p.rooms = {}) /\ r \notin p.late BY <1>3
        <4>2. ASSUME NEW k \in 1 .. n, k > s \/ r \notin Covers(p), k # s
              PROVE  ~OnTime(owed[k], r)
          <5>1. PICK j \in 1 .. n - 1 : From(j) = k BY <1>6, <4>2
          <5>2. r \in Rest(s)[j].late \/ r \notin Covers(Rest(s)[j]) BY DEF OnTime
          <5>3. CASE r \notin Covers(Rest(s)[j]) BY <1>8, <5>1, <5>3 DEF OnTime
          <5>4. CASE r \in Rest(s)[j].late
            <6>1. r \in owed[k].late \/ (j < s /\ r \in Covers(p)) BY <1>8, <5>1, <5>4
            <6>2. ~(j < s /\ r \in Covers(p)) BY <1>2, <1>10, <4>2, <5>1
            <6> QED BY <6>1, <6>2 DEF OnTime
          <5> QED BY <5>2, <5>3, <5>4
        <4>3. CASE r \in Covers(p)
          <5>1. OnTime(owed[s], r) BY <4>1, <4>3 DEF OnTime, p
          <5>2. ASSUME NEW k \in 1 .. n, k > s PROVE r \notin Covers(owed[k])
            <6>1. k # s /\ ~OnTime(owed[k], r) BY <1>2, <4>2, <5>2
            <6>2. r \in owed[k].late => r \in owed[s].late
              BY <4>3, <5>2 DEF MirrorInv, Order, n, p
            <6> QED BY <4>1, <6>1, <6>2 DEF OnTime, p
          <5>3. Says(owed[s], r) <=> r \in member
            BY <3>1, <5>1, <5>2 DEF MirrorInv, Truth, n
          <5>4. Tells(x, r) /\ (Says(x, r) <=> r \in member')
            <6>1. p.type \in {"gives", "takes", "ROOMS_STATUS"} BY <1>7, <3>4
            <6>2. Tells(x, r) BY <1>11, <4>1, <4>3, <6>1 DEF Tells, Covers
            <6>3. Says(x, r) <=> Says(owed[s], r) BY <1>11 DEF Says, p
            <6> QED BY <1>3, <5>3, <6>2, <6>3
          <5> QED BY <1>3, <1>11, <5>4, Arrival
        <4>4. CASE r \notin Covers(p)
          <5>1. r \notin raced BY <1>3, <4>1, <4>4
          <5>2. \A k \in 1 .. n : ~OnTime(owed[k], r)
            <6> SUFFICES ASSUME NEW k \in 1 .. n PROVE ~OnTime(owed[k], r) OBVIOUS
            <6>1. CASE k = s BY <4>4, <6>1 DEF OnTime, p
            <6>2. CASE k # s BY <4>2, <4>4, <6>2
            <6> QED BY <6>1, <6>2
          <5>3. Ready BY <1>3, <1>11, <1>15, Arrival
          <5>4. Mirror(r) /\ Followed(r) BY <3>1, <5>1, <5>2, <5>3 DEF MirrorInv, Shown, n
          <5>5. ~Tells(x, r) BY <1>11, <4>4 DEF Tells, Covers
          <5> QED BY <1>3, <1>11, <3>4, <5>4, <5>5, Arrival
        <4> QED BY <4>3, <4>4
      <3> QED BY <3>3, <3>5, <3>6
    <2> QED BY <2>2, <2>3, <2>4 DEF MirrorInv
  <1> QED BY <1>14, <1>15

LEMMA NextMirror == TypeOK /\ MirrorInv /\ [Next]_vars => MirrorInv'
  <1> SUFFICES ASSUME TypeOK, MirrorInv, [Next]_vars PROVE MirrorInv' OBVIOUS
  <1>1. CASE UNCHANGED vars BY <1>1, MirrorKept DEF vars, server, view
  <1>2. CASE Serve BY <1>2, MirrorServe
  <1>3. CASE \E i \in DOMAIN owed : Send(i)
    <2>1. DOMAIN owed = 1 .. Len(owed) BY LenProperties DEF TypeOK
    <2> QED BY <1>3, <2>1, MirrorSend
  <1>4. CASE \E r \in Rooms : Other(r) BY <1>4, MirrorOther
  <1>5. CASE SwitchToChat
    <2>1. /\ window # "chat" /\ down # <<>> /\ down' = Tail(down)
          /\ UNCHANGED <<session, member, owed, raced>>
          /\ Head(down).type # "LOGIN_RESP" => window' = window
      BY <1>5 DEF SwitchToChat, view
    <2> QED BY <2>1, MirrorTake
  <1>6. CASE Dispatch
    <2>1. down # <<>> /\ down' = Tail(down) /\ UNCHANGED <<session, member, owed, raced>>
      BY <1>6 DEF Dispatch, server
    <2>2. CASE Head(down).type = "LOGOUT_RESP"
      <3>1. window' = "leaving" BY <1>6, <2>2 DEF Dispatch, SwitchToLogin
      <3> QED BY <2>1, <2>2, <3>1, MirrorTake DEF Starts
    <2>3. CASE Head(down).type # "LOGOUT_RESP"
      <3>1. window' = window /\ joined' = JoinedAfter(Head(down))
        BY <1>6, <2>3 DEF Dispatch, Shows
      <3> QED BY <2>1, <2>3, <3>1, MirrorTake
    <2> QED BY <2>2, <2>3
  <1>7. CASE PrintJoined
    <2>1. /\ program = "console" /\ down # <<>> /\ down' = Tail(down) /\ window' = window
          /\ joined' = JoinedAfter(Head(down)) /\ UNCHANGED <<session, member, owed, raced>>
      BY <1>7 DEF PrintJoined, server, JoinedAfter
    <2> QED BY <2>1, MirrorTake
  <1>8. CASE PrintMove BY <1>8, MirrorKept DEF PrintMove, server
  <1>9. CASE Enter \/ Type BY <1>9, MirrorKept DEF Enter, Type, server, view
  <1>10. CASE SelectSet \/ \E r \in Rooms : SelectCheck(r) \/ ClickRoom(r)
    BY <1>10, MirrorKept DEF SelectSet, SelectCheck, ClickRoom, server, view
  <1>11. CASE ClickButton \/ Reply BY <1>11, MirrorKept DEF ClickButton, Reply, server, view
  <1>12. CASE Dashboard \/ Close BY <1>12, MirrorKept DEF Dashboard, Close, server, view
  <1>13. CASE Destroy
    <2>1. /\ down = <<>> /\ window' # "chat"
          /\ UNCHANGED <<session, member, owed, raced, down>>
      BY <1>13 DEF Destroy, server
    <2>2. Len(down) = 0 BY <2>1, EmptySeq
    <2>3. ~Ready' BY <2>1, <2>2 DEF Ready
    <2> QED BY <2>1, <2>3 DEF MirrorInv, Shape, Order, Live, Restart, Truth, Shown
  <1> QED
    BY <1>1, <1>2, <1>3, <1>4, <1>5, <1>6, <1>7, <1>8, <1>9, <1>10, <1>11, <1>12, <1>13 DEF Next

\* Both programs: once nothing is on its way, a room is listed exactly if the server has it
\* for the connection, unless its last two notices were sent in another order than their
\* changes were made.
THEOREM ListFollowsServer == Spec => []RoomsMirrored
  <1>1. Init => TypeOK /\ MirrorInv BY InitType, InitMirror
  <1>2. TypeOK /\ MirrorInv => RoomsMirrored BY MirrorEnds, Parts
  <1> QED BY <1>1, <1>2, NextType, NextMirror, PTL DEF Spec

-----------------------------------------------------------------------------
(* How many lists are in a queue *)

Listing == {"GET_ROOMS_LIST", "ROOMS_LIST_RESP"}

\* What a queue holds that answers a user who waits.
Listed(q) == {i \in DOMAIN q : q[i].type \in Listing}

LEMMA ListsType ==
  ASSUME NEW S, NEW q \in Seq(S)
  PROVE  /\ IsFiniteSet(Listed(q)) /\ Lists(q) = Cardinality(Listed(q)) /\ Lists(q) \in Nat
         /\ Listed(q) = {i \in 1 .. Len(q) : q[i].type \in Listing}
  <1>1. Len(q) \in Nat /\ DOMAIN q = 1 .. Len(q) BY LenProperties
  <1>2. IsFiniteSet(1 .. Len(q)) BY <1>1, FS_Interval
  <1>3. Listed(q) \in SUBSET (1 .. Len(q)) BY <1>1 DEF Listed
  <1>4. IsFiniteSet(Listed(q)) BY <1>2, <1>3, FS_Subset
  <1>5. Lists(q) = Cardinality(Listed(q)) BY DEF Lists, Listed, Listing
  <1> QED BY <1>1, <1>4, <1>5, FS_CardinalityType DEF Listed

LEMMA AppendLists ==
  ASSUME NEW S, NEW q \in Seq(S), NEW x \in S
  PROVE  /\ Lists(Append(q, x)) \in Nat
         /\ Lists(Append(q, x)) = IF x.type \in Listing THEN Lists(q) + 1 ELSE Lists(q)
  <1> DEFINE n == Len(q)
             a == Append(q, x)
  <1>1. /\ a \in Seq(S) /\ n \in Nat /\ Len(a) = n + 1 /\ a[n + 1] = x
        /\ \A i \in 1 .. n : a[i] = q[i] /\ i # n + 1
        /\ 1 .. n + 1 = 1 .. n \cup {n + 1}
    BY LenProperties
  <1> HIDE DEF n, a
  <1>2. Listed(q) = {i \in 1 .. n : q[i].type \in Listing} /\ IsFiniteSet(Listed(q))
        /\ Lists(q) = Cardinality(Listed(q))
    BY ListsType DEF n
  <1>3. /\ Listed(a) = {i \in 1 .. n + 1 : a[i].type \in Listing}
        /\ Lists(a) = Cardinality(Listed(a)) /\ Lists(a) \in Nat
    BY <1>1, ListsType
  <1>4. n + 1 \notin Listed(q) BY <1>1, <1>2
  <1>5. CASE x.type \in Listing
    <2>1. Listed(a) = Listed(q) \cup {n + 1} BY <1>1, <1>2, <1>3, <1>5
    <2>2. Cardinality(Listed(q) \cup {n + 1}) = Cardinality(Listed(q)) + 1
      BY <1>2, <1>4, FS_AddElement
    <2>3. Lists(a) = Lists(q) + 1 BY <1>2, <1>3, <2>1, <2>2
    <2> QED BY <1>3, <1>5, <2>3 DEF a
  <1>6. CASE x.type \notin Listing
    <2>1. Listed(a) = Listed(q) BY <1>1, <1>2, <1>3, <1>6
    <2> QED BY <1>2, <1>3, <1>6, <2>1 DEF a
  <1> QED BY <1>5, <1>6

LEMMA TailLists ==
  ASSUME NEW S, NEW q \in Seq(S), q # <<>>
  PROVE  /\ Lists(Tail(q)) \in Nat /\ Lists(q) \in Nat
         /\ Lists(q) <= Lists(Tail(q)) + (IF Head(q).type \in Listing THEN 1 ELSE 0)
  <1> DEFINE n == Len(q)
             b == Tail(q)
             f == [i \in Listed(q) \ {1} |-> i - 1]
  <1>1. /\ b \in Seq(S) /\ n \in Nat /\ n > 0 /\ Head(q) = q[1] /\ Len(b) = n - 1
        /\ \A i \in 1 .. n - 1 : b[i] = q[i + 1]
    BY EmptySeq, HeadTailProperties
  <1> HIDE DEF n, b
  <1>2. Listed(q) = {i \in 1 .. n : q[i].type \in Listing} /\ IsFiniteSet(Listed(q))
        /\ Lists(q) = Cardinality(Listed(q)) /\ Lists(q) \in Nat
    BY ListsType DEF n
  <1>3. /\ Listed(b) = {i \in 1 .. n - 1 : b[i].type \in Listing} /\ IsFiniteSet(Listed(b))
        /\ Lists(b) = Cardinality(Listed(b)) /\ Lists(b) \in Nat
    BY <1>1, ListsType
  <1>4. \A i \in Listed(q) \ {1} : i - 1 \in Listed(b) /\ i \in Int
    <2> SUFFICES ASSUME NEW i \in Listed(q) \ {1} PROVE i - 1 \in Listed(b) /\ i \in Int
      OBVIOUS
    <2>1. i \in 1 .. n /\ i # 1 /\ q[i].type \in Listing BY <1>2
    <2>2. i - 1 \in 1 .. n - 1 /\ (i - 1) + 1 = i BY <1>1, <2>1
    <2>3. b[i - 1] = q[i] BY <1>1, <2>2
    <2> QED BY <1>3, <2>1, <2>2, <2>3
  <1>5. f \in Injection(Listed(q) \ {1}, Listed(b))
    <2>1. f \in [Listed(q) \ {1} -> Listed(b)] BY <1>4
    <2>2. \A i, j \in Listed(q) \ {1} : f[i] = f[j] => i = j BY <1>4
    <2> QED BY <2>1, <2>2 DEF Injection, IsInjective
  <1> HIDE DEF f
  <1>6. Cardinality(Listed(q) \ {1}) <= Lists(b) BY <1>3, <1>5, FS_Injection
  <1>7. Cardinality(Listed(q) \ {1}) = IF 1 \in Listed(q) THEN Lists(q) - 1 ELSE Lists(q)
    BY <1>2, FS_RemoveElement
  <1>8. 1 \in Listed(q) => Head(q).type \in Listing BY <1>1, <1>2
  <1> QED BY <1>2, <1>3, <1>6, <1>7, <1>8 DEF b

-----------------------------------------------------------------------------
(* Users who wait.  What is claimed of a chat window is inductive: a user begins to wait  *)
(* with a request for a list, a request that is taken leaves its list or a refusal, and a *)
(* list that is taken leaves one user less waiting.                                       *)

LEMMA PendingSize ==
  ASSUME DialogType, NEW P, P \subseteq pending
  PROVE  /\ IsFiniteSet(pending) /\ Cardinality(pending) \in Nat
         /\ IsFiniteSet(P) /\ Cardinality(P) \in Nat /\ Cardinality(P) <= Cardinality(pending)
         /\ (P # pending => Cardinality(P) < Cardinality(pending))
         /\ \A w : /\ Cardinality(pending \cup {w}) \in Nat
                   /\ Cardinality(pending \cup {w}) <= Cardinality(pending) + 1
  <1>1. IsFiniteSet({"window", "dashboard"})
    <2>1. IsFiniteSet({"window"} \cup {"dashboard"}) BY FS_Singleton, FS_AddElement
    <2>2. {"window", "dashboard"} = {"window"} \cup {"dashboard"} OBVIOUS
    <2> QED BY <2>1, <2>2
  <1>2. IsFiniteSet(pending)
    <2>1. pending \in SUBSET {"window", "dashboard"} BY DEF DialogType
    <2> QED BY <1>1, <2>1, FS_Subset
  <1>3. P \in SUBSET pending OBVIOUS
  <1>4. /\ IsFiniteSet(P) /\ Cardinality(P) <= Cardinality(pending)
        /\ Cardinality(pending) = Cardinality(P) => pending = P
    BY <1>2, <1>3, FS_Subset
  <1>5. Cardinality(pending) \in Nat /\ Cardinality(P) \in Nat BY <1>2, <1>4, FS_CardinalityType
  <1>6. ASSUME NEW w
        PROVE  /\ Cardinality(pending \cup {w}) \in Nat
               /\ Cardinality(pending \cup {w}) <= Cardinality(pending) + 1
    BY <1>2, <1>5, FS_AddElement
  <1> QED BY <1>2, <1>4, <1>5, <1>6

\* Neither a user nor a window is added, and no list is taken away.
LEMMA AwaitedKept ==
  ASSUME TypeOK, TypeOK', EveryPendingIsAwaited, UNCHANGED program,
         window' = "chat" => window = "chat", pending' \subseteq pending,
         Lists(up) + Lists(down) + refused <= Lists(up') + Lists(down') + refused'
  PROVE  EveryPendingIsAwaited'
  <1> SUFFICES ASSUME program = "gui", window' = "chat"
               PROVE  Cardinality(pending') <= Lists(up') + Lists(down') + refused'
    BY DEF EveryPendingIsAwaited, Lists
  <1>1. DialogType BY Parts
  <1>2. /\ Cardinality(pending') \in Nat /\ Cardinality(pending) \in Nat
        /\ Cardinality(pending') <= Cardinality(pending)
    BY <1>1, PendingSize
  <1>3. Lists(up) \in Nat /\ Lists(down) \in Nat /\ refused \in Nat BY ListsType DEF TypeOK
  <1>4. up' \in Seq(Request) /\ down' \in Seq(Packet) /\ refused' \in Nat BY DEF TypeOK
  <1>5. Lists(up') \in Nat /\ Lists(down') \in Nat BY <1>4, ListsType
  <1>6. Cardinality(pending) <= Lists(up) + Lists(down) + refused BY DEF EveryPendingIsAwaited
  <1> QED BY <1>2, <1>3, <1>4, <1>5, <1>6

\* A step that sends nothing; a user may be forgotten.
LEMMA AwaitedSilent ==
  ASSUME TypeOK, TypeOK', EveryPendingIsAwaited, pending' \subseteq pending,
         UNCHANGED <<program, up, down, refused>>, window' = "chat" => window = "chat"
  PROVE  EveryPendingIsAwaited'
  <1>1. Lists(up) \in Nat /\ Lists(down) \in Nat /\ refused \in Nat BY ListsType DEF TypeOK
  <1>2. Lists(up) + Lists(down) + refused <= Lists(up') + Lists(down') + refused' BY <1>1
  <1> QED BY <1>2, AwaitedKept

\* A request; with one for a list a user may begin to wait.
LEMMA AwaitedPost ==
  ASSUME TypeOK, TypeOK', EveryPendingIsAwaited, NEW t, NEW r, Post(t, r),
         UNCHANGED <<program, window, down, refused>>,
         pending' \subseteq pending \/ (t = "GET_ROOMS_LIST" /\ \E w : pending' = pending \cup {w})
  PROVE  EveryPendingIsAwaited'
  <1> DEFINE x == [type |-> t, room |-> r]
  <1>1. up' = Append(up, x) /\ up \in Seq(Request) /\ up' \in Seq(Request)
    BY DEF Post, TypeOK
  <1>2. x \in Request
    <2>1. Len(up) + 1 \in 1 .. Len(up') /\ up'[Len(up) + 1] = x BY <1>1
    <2> QED BY <1>1, <2>1, ElementOfSeq
  <1>3. x.type = t OBVIOUS
  <1> HIDE DEF x
  <1>4. /\ Lists(up) \in Nat /\ Lists(down) \in Nat /\ Lists(up') \in Nat /\ refused \in Nat
        /\ Lists(up') = IF t \in Listing THEN Lists(up) + 1 ELSE Lists(up)
    BY <1>1, <1>2, <1>3, ListsType, AppendLists DEF TypeOK
  <1>5. CASE pending' \subseteq pending
    <2>1. Lists(up) + Lists(down) + refused <= Lists(up') + Lists(down') + refused' BY <1>4
    <2> QED BY <1>5, <2>1, AwaitedKept
  <1>6. CASE t = "GET_ROOMS_LIST" /\ \E w : pending' = pending \cup {w}
    <2> SUFFICES ASSUME program = "gui", window = "chat"
                 PROVE  Cardinality(pending') <= Lists(up') + Lists(down') + refused'
      BY DEF EveryPendingIsAwaited, Lists
    <2>1. DialogType BY Parts
    <2>2. /\ Cardinality(pending) \in Nat /\ Cardinality(pending') \in Nat
          /\ Cardinality(pending') <= Cardinality(pending) + 1
      BY <1>6, <2>1, PendingSize
    <2>3. Lists(up') = Lists(up) + 1 BY <1>4, <1>6 DEF Listing
    <2>4. Cardinality(pending) <= Lists(up) + Lists(down) + refused
      BY DEF EveryPendingIsAwaited
    <2> QED BY <1>4, <2>2, <2>3, <2>4
  <1> QED BY <1>5, <1>6

\* A packet is sent to the program.
LEMMA AwaitedSent ==
  ASSUME TypeOK, TypeOK', EveryPendingIsAwaited, NEW x \in Packet, down' = Append(down, x),
         UNCHANGED <<program, window, pending, up, refused>>
  PROVE  EveryPendingIsAwaited'
  <1>1. down \in Seq(Packet) /\ up \in Seq(Request) /\ refused \in Nat BY DEF TypeOK
  <1>2. Lists(down') = IF x.type \in Listing THEN Lists(down) + 1 ELSE Lists(down)
    BY <1>1, AppendLists
  <1>3. Lists(down) \in Nat /\ Lists(up) \in Nat BY <1>1, ListsType
  <1>4. Lists(up) + Lists(down) + refused <= Lists(up') + Lists(down') + refused'
    BY <1>1, <1>2, <1>3
  <1> QED BY <1>4, AwaitedKept

\* The handler of the connection takes a request: a list follows one for it, or a refusal.
LEMMA AwaitedServe ==
  ASSUME TypeOK, TypeOK', EveryPendingIsAwaited, Serve PROVE EveryPendingIsAwaited'
  <1> DEFINE q == Head(up)
  <1>1. /\ up # <<>> /\ up' = Tail(up) /\ UNCHANGED <<program, window, pending>>
        /\ \/ Granted(q) /\ refused' = refused
           \/ /\ Told("ERROR")
              /\ refused' = IF q.type = "GET_ROOMS_LIST" THEN refused + 1 ELSE refused
    BY DEF Serve, view, dialogs
  <1>2. /\ up \in Seq(Request) /\ down \in Seq(Packet) /\ q \in Request /\ refused \in Nat
        /\ down' \in Seq(Packet)
    BY <1>1 DEF TypeOK
  <1>3. Lists(up) \in Nat /\ Lists(down) \in Nat /\ Lists(up') \in Nat /\ Lists(down') \in Nat
    BY <1>1, <1>2, ListsType, TailLists
  <1> HIDE DEF q
  <1>4. Lists(up) <= Lists(up') + (IF q.type = "GET_ROOMS_LIST" THEN 1 ELSE 0)
    <2>1. Lists(up) <= Lists(up') + (IF q.type \in Listing THEN 1 ELSE 0)
      BY <1>1, <1>2, TailLists DEF q
    <2>2. q.type \in Listing <=> q.type = "GET_ROOMS_LIST"
      BY <1>2 DEF Listing, Request, Requests, Roomless
    <2> QED BY <2>1, <2>2
  <1>5. ASSUME NEW t \in {"ERROR", "ROOMS_LIST_RESP"}, Told(t)
        PROVE  Lists(down') = IF t = "ROOMS_LIST_RESP" THEN Lists(down) + 1 ELSE Lists(down)
    <2>1. Plain(t) \in Packet /\ Plain(t).type = t BY PlainType DEF Packets, Plain
    <2>2. t \in Listing <=> t = "ROOMS_LIST_RESP" BY DEF Listing
    <2> QED BY <1>2, <1>5, <2>1, <2>2, AppendLists DEF Told
  <1>6. CASE /\ Told("ERROR")
             /\ refused' = IF q.type = "GET_ROOMS_LIST" THEN refused + 1 ELSE refused
    <2>1. Lists(down') = Lists(down) BY <1>5, <1>6
    <2>2. Lists(up) + Lists(down) + refused <= Lists(up') + Lists(down') + refused'
      BY <1>2, <1>3, <1>4, <1>6, <2>1
    <2> QED BY <1>1, <2>2, AwaitedKept
  <1>7. CASE Granted(q) /\ refused' = refused
    <2>1. CASE q.type = "GET_ROOMS_LIST" /\ Told("ROOMS_LIST_RESP")
      <3>1. Lists(down') = Lists(down) + 1 BY <1>5, <2>1
      <3>2. Lists(up) + Lists(down) + refused <= Lists(up') + Lists(down') + refused'
        BY <1>2, <1>3, <1>4, <1>7, <3>1
      <3> QED BY <1>1, <3>2, AwaitedKept
    <2>2. CASE q.type # "GET_ROOMS_LIST"
      <3>1. down' = down BY <1>7, <2>2 DEF Granted, Changed, Kept
      <3>2. Lists(up) + Lists(down) + refused <= Lists(up') + Lists(down') + refused'
        BY <1>2, <1>3, <1>4, <1>7, <2>2, <3>1
      <3> QED BY <1>1, <3>2, AwaitedKept
    <2> QED BY <1>7, <2>1, <2>2 DEF Granted
  <1> QED BY <1>1, <1>6, <1>7

\* The program takes a packet.  A new chat window has no user who waits.
LEMMA AwaitedTake ==
  ASSUME TypeOK, TypeOK', EveryPendingIsAwaited, SwitchToChat \/ Dispatch \/ PrintJoined
  PROVE  EveryPendingIsAwaited'
  <1> DEFINE p == Head(down)
  <1>1. /\ down # <<>> /\ down' = Tail(down) /\ UNCHANGED <<program, up>>
        /\ (window = "chat" => refused' = refused)
    BY DEF SwitchToChat, Dispatch, PrintJoined, server
  <1>2. /\ down \in Seq(Packet) /\ up \in Seq(Request) /\ DialogType /\ refused \in Nat
        /\ refused' \in Nat /\ p \in Packet
    BY <1>1, Parts DEF TypeOK
  <1>3. /\ Lists(down') \in Nat /\ Lists(down) \in Nat /\ Lists(up) \in Nat
        /\ Lists(down) <= Lists(down') + (IF p.type \in Listing THEN 1 ELSE 0)
    BY <1>1, <1>2, TailLists, ListsType
  <1> HIDE DEF p
  <1>4. Lists(down) <= Lists(down') + (IF p.type = "ROOMS_LIST_RESP" THEN 1 ELSE 0)
    BY <1>2, <1>3 DEF Listing, Packet, Packets
  <1> SUFFICES ASSUME program = "gui", window' = "chat"
               PROVE  Cardinality(pending') <= Lists(up') + Lists(down') + refused'
    BY <1>1 DEF EveryPendingIsAwaited, Lists
  <1>5. CASE window = "chat"
    <2>1. /\ Dispatch /\ refused' = refused
          /\ IF p.type = "ROOMS_LIST_RESP" THEN pending' = StillPending ELSE pending' = pending
      BY <1>1, <1>5 DEF SwitchToChat, Dispatch, SwitchToLogin, Shows, PrintJoined, p
    <2>2. Cardinality(pending) <= Lists(up) + Lists(down) + refused
      BY <1>1, <1>5 DEF EveryPendingIsAwaited
    <2>3. pending' \subseteq pending /\ (pending # {} /\ p.type = "ROOMS_LIST_RESP" => pending' # pending)
      BY <2>1 DEF StillPending
    <2>4. /\ Cardinality(pending) \in Nat /\ Cardinality(pending') \in Nat
          /\ Cardinality(pending') <= Cardinality(pending)
          /\ pending' # pending => Cardinality(pending') < Cardinality(pending)
      BY <1>2, <2>3, PendingSize
    <2>5. CASE p.type = "ROOMS_LIST_RESP" /\ pending = {}
      <3>1. Cardinality(pending') = 0 BY <2>3, <2>5, FS_EmptySet
      <3> QED BY <1>1, <1>2, <1>3, <3>1
    <2>6. CASE p.type = "ROOMS_LIST_RESP" /\ pending # {}
      BY <1>1, <1>2, <1>3, <1>4, <2>1, <2>2, <2>3, <2>4, <2>6
    <2>7. CASE p.type # "ROOMS_LIST_RESP"
      BY <1>1, <1>2, <1>3, <1>4, <2>1, <2>2, <2>4, <2>7
    <2> QED BY <2>5, <2>6, <2>7
  <1>6. CASE window # "chat"
    <2>1. pending' = {} BY <1>6 DEF SwitchToChat, Dispatch, SwitchToLogin, Shows, PrintJoined, view
    <2> QED BY <1>1, <1>2, <1>3, <2>1, FS_EmptySet
  <1> QED BY <1>5, <1>6

LEMMA NextAwaited ==
  TypeOK /\ TypeOK' /\ EveryPendingIsAwaited /\ [Next]_vars => EveryPendingIsAwaited'
  <1> SUFFICES ASSUME TypeOK, TypeOK', EveryPendingIsAwaited, [Next]_vars
               PROVE  EveryPendingIsAwaited'
    OBVIOUS
  <1>1. CASE UNCHANGED vars BY <1>1, AwaitedSilent DEF vars, server, view, dialogs
  <1>2. CASE Serve BY <1>2, AwaitedServe
  <1>3. CASE \E i \in DOMAIN owed : Send(i)
    <2>1. PICK i \in DOMAIN owed : Send(i) BY <1>3
    <2>2. owed[i] \in Owed BY ElementOfSeq, LenProperties DEF TypeOK
    <2>3. [type |-> owed[i].type, rooms |-> owed[i].rooms] \in Packet BY <2>2 DEF Owed, Packet
    <2> QED BY <2>1, <2>3, AwaitedSent DEF Send, view, dialogs
  <1>4. CASE \E r \in Rooms : Other(r)
    <2>1. PICK r \in Rooms : Other(r) BY <1>4
    <2>2. [type |-> "gives", rooms |-> {r}] \in Packet BY DEF Packet, Packets
    <2>3. CASE down' = down BY <2>1, <2>3, AwaitedSilent DEF Other, view, dialogs
    <2>4. CASE down' = Append(down, [type |-> "gives", rooms |-> {r}])
      BY <2>1, <2>2, <2>4, AwaitedSent DEF Other, view, dialogs
    <2> QED BY <2>1, <2>3, <2>4 DEF Other, Changed, Appended
  <1>5. CASE SwitchToChat \/ Dispatch \/ PrintJoined BY <1>5, AwaitedTake
  <1>6. CASE PrintMove BY <1>6, AwaitedSilent DEF PrintMove, server
  <1>7. CASE Enter
    <2>1. UNCHANGED <<program, window, down, refused, pending>>
      BY <1>7 DEF Enter, server, view, dialogs
    <2>2. \E t, r : Post(t, r) BY <1>7 DEF Enter
    <2> QED BY <2>1, <2>2, AwaitedPost
  <1>8. CASE Type BY <1>8, AwaitedPost DEF Type, server, view, dialogs
  <1>9. CASE SelectSet \/ \E r \in Rooms : SelectCheck(r) \/ ClickRoom(r)
    BY <1>9, AwaitedSilent DEF SelectSet, SelectCheck, ClickRoom, server, view, dialogs
  <1>10. CASE ClickButton
    <2>1. UNCHANGED <<program, window, down, refused>> BY <1>10 DEF ClickButton, server, view
    <2>2. CASE Post("GET_ROOMS_LIST", NoRoom) /\ pending' = pending \ {"window"}
      BY <2>1, <2>2, AwaitedPost
    <2>3. CASE Silent /\ UNCHANGED pending BY <2>1, <2>3, AwaitedSilent DEF Silent
    <2> QED BY <1>10, <2>2, <2>3 DEF ClickButton
  <1>11. CASE Reply
    <2>1. UNCHANGED <<program, window, down, refused>> BY <1>11 DEF Reply, server, view
    <2>2. CASE Silent /\ pending' = Dismissed BY <2>1, <2>2, AwaitedSilent DEF Silent, Dismissed
    <2>3. CASE /\ Post("LEAVE_ROOM", current) \/ Post("LOGOUT", NoRoom) \/ Post("KICK_USER", current)
               /\ UNCHANGED pending
      BY <2>1, <2>3, AwaitedPost
    <2>4. CASE Post("GET_ROOMS_LIST", NoRoom) /\ pending' = pending \cup {"window"}
      BY <2>1, <2>4, AwaitedPost
    <2> QED BY <1>11, <2>2, <2>3, <2>4 DEF Reply
  <1>12. CASE Dashboard
    <2>1. /\ UNCHANGED <<program, window, down, refused>>
          /\ Post("GET_ROOMS_LIST", NoRoom) /\ pending' = pending \cup {"dashboard"}
      BY <1>12 DEF Dashboard, server, view
    <2> QED BY <2>1, AwaitedPost
  <1>13. CASE Close
    <2>1. UNCHANGED <<program, window, down, refused, pending>> BY <1>13 DEF Close, server, view
    <2>2. CASE Silent BY <2>1, <2>2, AwaitedSilent DEF Silent
    <2>3. CASE \E t, r : Post(t, r) BY <2>1, <2>3, AwaitedPost
    <2> QED BY <1>13, <2>2, <2>3 DEF Close
  <1>14. CASE Destroy BY <1>14, AwaitedSilent DEF Destroy, server
  <1> QED
    BY <1>1, <1>2, <1>3, <1>4, <1>5, <1>6, <1>7, <1>8, <1>9, <1>10, <1>11, <1>12, <1>13, <1>14
    DEF Next

\* Whatever windows, dialogs and requests overlap, and whoever logs in and out: of the users
\* who wait in a chat window, at most as many wait for a list that will not come as lists
\* were refused to this window.
THEOREM ListsAreAwaited == Spec => []EveryPendingIsAwaited
  <1>1. Init => TypeOK /\ EveryPendingIsAwaited
    <2> SUFFICES ASSUME Init PROVE EveryPendingIsAwaited BY InitType
    <2> QED BY DEF Init, EveryPendingIsAwaited
  <1> QED BY <1>1, NextType, NextAwaited, PTL DEF Spec

=============================================================================

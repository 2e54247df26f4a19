--------------------------- MODULE RoomFeedProofs ---------------------------
(***************************************************************************)
(* Theorems about RoomFeed, for any connections and any number of          *)
(* messages, with database faults.                                         *)
(***************************************************************************)
EXTENDS RoomFeed, FiniteSetTheorems, TLAPS

\* The addressee of a handler that works for one.
Locals ==
  \A c \in Conns :
    pc[c] \in {"join", "joined", "fetch", "send", "leave", "deliver"} => to[c] \in Conns

\* A history that counts is about to be sent to a member.
Fresh == \A c \in fresh : pc[c] = "send" /\ to[c] \in members

\* It has what the member was not sent already and is not about to be.
Readers ==
  \A c \in fresh : \A i \in DOMAIN stored :
    i <= HistLimit => \/ stored[i] \in heard[to[c]]
                      \/ stored[i] \in Elements(hist[c])
                      \/ Pending(stored[i], to[c])

Base == TypeOK /\ Locals
Inv == Base /\ Fresh
GapInv == Readers /\ NoMessageGap

USE DEF rooms, job, client, Recipients, Row

-----------------------------------------------------------------------------
(* Types *)

\* Nobody is in the room at first.
LEMMA InitInv == ASSUME Init PROVE Inv
BY RoomFeedAssumption DEF Init, Inv, Base, Fresh, TypeOK, Locals, Labels

\* A history is a sequence of messages.
LEMMA HistoryType == ASSUME TypeOK PROVE History \in Seq(Nat)
BY RoomFeedAssumption DEF TypeOK, History

\* A handler that is done leaves no addressee behind.
LEMMA FinishInv ==
  ASSUME Inv, NEW c \in Conns, Finish(c)
  PROVE  /\ pc' \in [Conns -> Labels] /\ msg' \in [Conns -> Nat]
         /\ todo' \in [Conns -> SUBSET Conns] /\ to' \in [Conns -> Conns \cup {NoConn}]
         /\ hist' \in [Conns -> Seq(Nat)]
         /\ Locals'
<1> USE DEF Inv, Base, TypeOK, Locals, Finish, Goto, Labels
<1>1. hist' \in [Conns -> Seq(Nat)]
  <2>1. <<>> \in Seq(Nat)
    OBVIOUS
  <2> HIDE DEF Locals
  <2> QED BY <2>1
<1>2. pc' \in [Conns -> Labels] /\ msg' \in [Conns -> Nat] /\ UNCHANGED todo
  OBVIOUS
<1>3. to' \in [Conns -> Conns \cup {NoConn}]
  OBVIOUS
<1>4. Locals'
  OBVIOUS
<1> QED BY <1>1, <1>2, <1>3, <1>4

\* The steps of a handler keep types and addressees.
LEMMA HandlerBase == ASSUME Inv, NEW c \in Conns, Handler(c) PROVE Base'
<1> USE RoomFeedAssumption DEF Inv, Base, TypeOK, Locals, Goto, Labels
<1>1. CASE Restore(c) BY <1>1 DEF Restore
<1>2. CASE Restored(c) BY <1>2 DEF Restored
<1>3. CASE JoinDb(c)
  <2>1. CASE Finish(c) BY <1>3, <2>1, FinishInv DEF JoinDb
  <2>2. CASE Goto(c, "joined") /\ UNCHANGED job BY <1>3, <2>2 DEF JoinDb
  <2> QED BY <1>3, <2>1, <2>2 DEF JoinDb
<1>4. CASE JoinMemory(c)
  <2>1. /\ members' \subseteq online /\ members \subseteq members'
        /\ UNCHANGED <<online, persisted, stored, sent, client, fresh>>
    BY <1>4 DEF JoinMemory
  <2>2. CASE Finish(c) BY <1>4, <2>1, <2>2, FinishInv DEF JoinMemory
  <2>3. CASE Goto(c, "fetch") /\ UNCHANGED job
    BY <1>4, <2>1, <2>3 DEF JoinMemory
  <2> QED BY <1>4, <2>2, <2>3 DEF JoinMemory
<1>5. CASE Fetch(c)
  <2>1. CASE Finish(c) BY <1>5, <2>1, FinishInv DEF Fetch
  <2>2. CASE hist' = [hist EXCEPT ![c] = History] /\ ~Finish(c)
    <3>1. hist' \in [Conns -> Seq(Nat)] BY <2>2, HistoryType
    <3>2. pc' = [pc EXCEPT ![c] = "send"] /\ fresh' \subseteq Conns
      BY <1>5, <2>2 DEF Fetch
    <3>3. UNCHANGED <<rooms, stored, sent, client, msg, todo, to>>
      BY <1>5, <2>2 DEF Fetch
    <3> QED BY <1>5, <3>1, <3>2, <3>3 DEF Fetch
  <2> QED BY <1>5, <2>1, <2>2 DEF Fetch
<1>6. CASE SendHistory(c)
  <2>1. to[c] \in Conns /\ hist[c] \in Seq(Nat)
    BY <1>6 DEF SendHistory
  <2>2. Elements(hist[c]) \subseteq Nat
    BY <2>1 DEF Elements
  <2>3. heard' \in [Conns -> SUBSET Nat]
    BY <1>6, <2>1, <2>2 DEF SendHistory
  <2>4. view' \in [Conns -> Seq(Nat)]
    BY <1>6, <2>1 DEF SendHistory, Redrawn
  <2>5. fresh' \subseteq Conns /\ caught' \subseteq members
    BY <1>6, <2>1 DEF SendHistory, Fresh
  <2>6. Finish(c) /\ UNCHANGED <<rooms, stored, sent>>
    BY <1>6 DEF SendHistory
  <2> QED BY <1>6, <2>3, <2>4, <2>5, <2>6, FinishInv
<1>7. CASE LeaveDb(c)
  <2>1. CASE Finish(c) BY <1>7, <2>1, FinishInv DEF LeaveDb
  <2>2. CASE ~Finish(c) BY <1>7, <2>2 DEF LeaveDb
  <2> QED BY <2>1, <2>2
<1>8. CASE LeaveMemory(c) BY <1>8, FinishInv DEF LeaveMemory, Depart
<1>9. CASE MsgMember(c)
  <2>1. CASE Finish(c) BY <1>9, <2>1, FinishInv DEF MsgMember
  <2>2. CASE ~Finish(c) BY <1>9, <2>2 DEF MsgMember
  <2> QED BY <2>1, <2>2
<1>10. CASE MsgStore(c)
  <2>1. Append(stored, msg[c]) \in Seq(Nat)
    OBVIOUS
  <2>2. stored' \in Seq(Nat)
    BY <1>10, <2>1 DEF MsgStore
  <2> QED BY <1>10, <2>2 DEF MsgStore
<1>11. CASE MsgSnapshot(c) BY <1>11 DEF MsgSnapshot
<1>12. ASSUME NEW d \in Conns, MsgVisit(c, d) PROVE Base'
  <2>1. todo' \in [Conns -> SUBSET Conns]
    <3>1. todo[c] \ {d} \in SUBSET Conns
      OBVIOUS
    <3>2. todo' = [todo EXCEPT ![c] = todo[c] \ {d}]
      BY <1>12 DEF MsgVisit
    <3> QED BY <3>1, <3>2
  <2>2. to' \in [Conns -> Conns \cup {NoConn}] /\ pc' \in [Conns -> Labels] /\ Locals'
    <3>1. CASE to' = [to EXCEPT ![c] = d] /\ pc' = [pc EXCEPT ![c] = "deliver"]
      BY <3>1
    <3>2. CASE UNCHANGED <<to, pc>>
      BY <3>2
    <3> QED BY <1>12, <3>1, <3>2 DEF MsgVisit
  <2>3. UNCHANGED <<rooms, stored, sent, msg, hist, client, fresh>>
    BY <1>12 DEF MsgVisit
  <2> HIDE DEF Locals
  <2> QED BY <2>1, <2>2, <2>3
<1>13. CASE MsgDeliver(c)
  <2>1. to[c] \in Conns /\ msg[c] \in Nat
    BY <1>13 DEF MsgDeliver
  <2>2. heard' \in [Conns -> SUBSET Nat]
    BY <1>13, <2>1 DEF MsgDeliver
  <2>3. view' \in [Conns -> Seq(Nat)]
    BY <1>13, <2>1 DEF MsgDeliver
  <2>4. to' \in [Conns -> Conns \cup {NoConn}]
    BY <1>13, <2>1 DEF MsgDeliver
  <2>5. UNCHANGED <<rooms, stored, sent, msg, todo, hist, caught, fresh>>
        /\ pc' = [pc EXCEPT ![c] = "visit"] /\ \A e \in Conns \ {c} : to'[e] = to[e]
    BY <1>13, <2>1 DEF MsgDeliver
  <2> QED BY <2>2, <2>3, <2>4, <2>5
<1>14. CASE MsgDone(c) BY <1>14, FinishInv DEF MsgDone
<1> QED BY <1>1, <1>2, <1>3, <1>4, <1>5, <1>6, <1>7, <1>8, <1>9, <1>10, <1>11,
           <1>12, <1>13, <1>14 DEF Handler

\* So do the requests.
LEMMA ClientBase == ASSUME Inv, NEW c \in Conns, Client(c) PROVE Base'
<1> USE RoomFeedAssumption DEF Inv, Base, TypeOK, Locals, Goto, Labels
<1>1. CASE Login(c) BY <1>1 DEF Login
<1>2. CASE Exit(c) BY <1>2 DEF Exit, Depart
<1>3. ASSUME NEW d \in Conns, NEW l \in {"join", "fetch", "leave"}, Request(c, d, l)
      PROVE Base'
  BY <1>3 DEF Request, Ready
<1>4. CASE Msg(c) BY <1>4 DEF Msg, Ready
<1> QED BY <1>1, <1>2, <1>3, <1>4 DEF Client, Select, Join, Leave

\* Other handlers leave a reader's locals alone, and who ceases to be a member
\* ceases to be an addressee that counts.
LEMMA FreshKept == ASSUME Inv, [Next]_vars PROVE Fresh'
<1> USE DEF Inv, Base, TypeOK, Locals, Fresh, Goto, Finish, Labels
<1>1. CASE UNCHANGED vars BY <1>1 DEF vars
<1>2. ASSUME NEW c \in Conns, Client(c) PROVE Fresh'
  BY <1>2 DEF Client, Login, Exit, Depart, Select, Join, Leave, Request, Ready, Msg
<1>3. ASSUME NEW c \in Conns, Handler(c) PROVE Fresh'
  <2>1. CASE Fetch(c)
    <3>1. fresh' \subseteq fresh \cup {c} /\ members' = members /\ to[c] \in Conns
      BY <2>1 DEF Fetch
    <3>2. \A d \in Conns \ {c} : pc'[d] = pc[d] /\ to'[d] = to[d]
      BY <2>1 DEF Fetch
    <3>3. c \in fresh' => pc'[c] = "send" /\ to'[c] = to[c] /\ to[c] \in members
      BY <2>1 DEF Fetch
    <3> QED BY <3>1, <3>2, <3>3
  <2>2. CASE SendHistory(c) BY <1>3, <2>2 DEF SendHistory
  <2>3. CASE Restore(c) \/ Restored(c) \/ JoinDb(c) \/ JoinMemory(c)
    BY <1>3, <2>3 DEF Restore, Restored, JoinDb, JoinMemory
  <2>4. CASE LeaveDb(c) \/ LeaveMemory(c)
    BY <1>3, <2>4 DEF LeaveDb, LeaveMemory, Depart
  <2>5. CASE MsgMember(c) \/ MsgStore(c) \/ MsgSnapshot(c) \/ MsgDeliver(c) \/ MsgDone(c)
    BY <1>3, <2>5 DEF MsgMember, MsgStore, MsgSnapshot, MsgDeliver, MsgDone
  <2>6. ASSUME NEW d \in Conns, MsgVisit(c, d) PROVE Fresh'
    BY <1>3, <2>6 DEF MsgVisit
  <2> QED BY <1>3, <2>1, <2>2, <2>3, <2>4, <2>5, <2>6 DEF Handler
<1> QED BY <1>1, <1>2, <1>3 DEF Next

\* The invariant without messages is inductive.
LEMMA NextInv == ASSUME Inv, [Next]_vars PROVE Inv'
<1>1. CASE UNCHANGED vars BY <1>1 DEF vars, Inv, Base, Fresh, TypeOK, Locals
<1>2. Base' BY <1>1, HandlerBase, ClientBase DEF Next, Inv
<1> QED BY <1>2, FreshKept DEF Inv

-----------------------------------------------------------------------------
(* No gap *)

\* A message on its way to a connection stays so, or is heard there.
Keeps ==
  \A d \in members :
    /\ heard[d] \subseteq heard'[d]
    /\ \A m \in Nat : Pending(m, d) => Pending(m, d)' \/ m \in heard'[d]

\* A step of a handler that is not broadcasting takes nothing off its way.
LEMMA QuietStep ==
  ASSUME Inv, NEW c \in Conns, pc[c] \notin {"snapshot", "visit", "deliver"},
         \A e \in Conns \ {c} :
           pc'[e] = pc[e] /\ msg'[e] = msg[e] /\ todo'[e] = todo[e] /\ to'[e] = to[e],
         \A d \in members : heard[d] \subseteq heard'[d]
  PROVE  Keeps
BY DEF Keeps, Pending, Inv, Base, TypeOK

\* When nothing is stored and nothing is lost on the way, who had no gap has none,
LEMMA CaughtKept ==
  ASSUME Inv, GapInv, Keeps, stored' = stored, caught' \subseteq caught
  PROVE  NoMessageGap'
<1> USE DEF Inv, Base, GapInv, TypeOK
<1>1. \A i \in DOMAIN stored : stored[i] \in Nat
  OBVIOUS
<1> SUFFICES ASSUME NEW d \in caught', NEW i \in DOMAIN stored, i <= HistLimit
             PROVE  stored[i] \in heard'[d] \/ Pending(stored[i], d)'
  BY DEF NoMessageGap, Pending
<1> QED BY <1>1 DEF NoMessageGap, Keeps

\* and a history that was complete is.
LEMMA ReadersKept ==
  ASSUME Inv, GapInv, Keeps, stored' = stored,
         \A c \in fresh' : c \in fresh /\ to'[c] = to[c] /\ hist'[c] = hist[c]
  PROVE  Readers'
<1> USE DEF Inv, Base, GapInv, TypeOK
<1>1. \A i \in DOMAIN stored : stored[i] \in Nat
  OBVIOUS
<1> SUFFICES ASSUME NEW c \in fresh', NEW i \in DOMAIN stored, i <= HistLimit
             PROVE  \/ stored'[i] \in heard'[to'[c]]
                    \/ stored'[i] \in Elements(hist'[c])
                    \/ Pending(stored[i], to[c])'
  BY DEF Readers, Pending
<1>2. c \in fresh /\ to'[c] = to[c] /\ hist'[c] = hist[c] /\ to[c] \in members
  BY DEF Fresh
<1> QED BY <1>1, <1>2 DEF Readers, Keeps

\* No request of a client opens a gap.
LEMMA ClientGap ==
  ASSUME Inv, GapInv, NEW c \in Conns, Client(c) PROVE GapInv'
<1> USE DEF Inv, Base, TypeOK, Fresh, Goto, Labels
<1>1. Keeps
  <2>1. CASE Login(c) BY <2>1, QuietStep DEF Login
  <2>2. CASE Exit(c) BY <2>2 DEF Exit, Keeps, Pending
  <2>3. CASE Msg(c) BY <2>3, QuietStep DEF Msg, Ready
  <2>4. ASSUME NEW d \in Conns, NEW l \in {"join", "fetch", "leave"}, Request(c, d, l)
        PROVE  Keeps
    BY <2>4, QuietStep DEF Request, Ready
  <2> QED BY <2>1, <2>2, <2>3, <2>4 DEF Client, Select, Join, Leave
<1>2. stored' = stored /\ caught' \subseteq caught
  BY DEF Client, Login, Exit, Depart, Msg, Select, Join, Leave, Request
<1>3. \A e \in fresh' : e \in fresh /\ to'[e] = to[e] /\ hist'[e] = hist[e]
  BY DEF Client, Login, Exit, Depart, Msg, Select, Join, Leave, Request, Ready
<1> QED BY <1>1, <1>2, <1>3, CaughtKept, ReadersKept DEF GapInv

\* The steps of a handler that neither broadcasts nor deals with a history.
LEMMA QuietGap ==
  ASSUME Inv, GapInv, NEW c \in Conns,
         \/ Restore(c) \/ Restored(c) \/ JoinDb(c) \/ JoinMemory(c)
         \/ LeaveDb(c) \/ LeaveMemory(c) \/ MsgMember(c)
  PROVE  GapInv'
<1> USE DEF Inv, Base, TypeOK, Fresh, Goto, Finish, Labels
<1>1. \A e \in Conns \ {c} : /\ pc'[e] = pc[e] /\ msg'[e] = msg[e]
                             /\ todo'[e] = todo[e] /\ to'[e] = to[e]
  BY DEF Restore, Restored, JoinDb, JoinMemory, LeaveDb, LeaveMemory, MsgMember
<1>2. pc[c] \notin {"snapshot", "visit", "deliver", "send"} /\ heard' = heard
  BY DEF Restore, Restored, JoinDb, JoinMemory, LeaveDb, LeaveMemory, MsgMember
<1>3. Keeps
  BY <1>1, <1>2, QuietStep
<1>4. stored' = stored /\ caught' \subseteq caught /\ fresh' \subseteq fresh
  BY DEF Restore, Restored, JoinDb, JoinMemory, LeaveDb, LeaveMemory, MsgMember, Depart
<1>5. \A e \in Conns \ {c} : hist'[e] = hist[e]
  BY DEF Restore, Restored, JoinDb, JoinMemory, LeaveDb, LeaveMemory, MsgMember
<1>6. \A e \in fresh' : e \in fresh /\ to'[e] = to[e] /\ hist'[e] = hist[e]
  BY <1>1, <1>2, <1>4, <1>5
<1> QED BY <1>3, <1>4, <1>6, CaughtKept, ReadersKept DEF GapInv

\* A broadcast visits every session there was after the message was stored.
LEMMA BroadcastGap ==
  ASSUME Inv, GapInv, NEW c \in Conns,
         \/ MsgSnapshot(c) \/ MsgDeliver(c) \/ MsgDone(c)
         \/ \E d \in Conns : MsgVisit(c, d)
  PROVE  GapInv'
<1> USE DEF Inv, Base, TypeOK, Fresh, Locals, Goto, Finish, Labels
<1>1. Keeps
  <2>1. CASE MsgSnapshot(c) BY <2>1 DEF MsgSnapshot, Keeps, Pending
  <2>2. CASE MsgDeliver(c) BY <2>2 DEF MsgDeliver, Keeps, Pending
  <2>3. CASE MsgDone(c) BY <2>3 DEF MsgDone, Keeps, Pending
  <2>4. ASSUME NEW d \in Conns, MsgVisit(c, d) PROVE Keeps
    <3>1. /\ pc[c] = "visit" /\ UNCHANGED <<members, msg, heard>>
          /\ todo' = [todo EXCEPT ![c] = todo[c] \ {d}]
      BY <2>4 DEF MsgVisit
    <3>2. \A e \in Conns \ {c} : pc'[e] = pc[e] /\ to'[e] = to[e] /\ todo'[e] = todo[e]
      BY <2>4 DEF MsgVisit
    <3>3. /\ todo'[c] = todo[c] \ {d} /\ pc'[c] \in {"visit", "deliver"}
          /\ d \in members => pc'[c] = "deliver" /\ to'[c] = d
      BY <2>4 DEF MsgVisit
    <3> HIDE DEF TypeOK, Locals, Fresh
    <3> QED BY <3>1, <3>2, <3>3 DEF Keeps, Pending
  <2> QED BY <2>1, <2>2, <2>3, <2>4
<1>2. stored' = stored /\ caught' = caught /\ fresh' = fresh /\ pc[c] # "send"
  BY DEF MsgSnapshot, MsgDeliver, MsgDone, MsgVisit
<1>3. \A e \in Conns \ {c} : to'[e] = to[e] /\ hist'[e] = hist[e]
  BY DEF MsgSnapshot, MsgDeliver, MsgDone, MsgVisit
<1> QED BY <1>1, <1>2, <1>3, CaughtKept, ReadersKept DEF GapInv

\* A message that is stored is on its way to everybody.
LEMMA StoreGap ==
  ASSUME Inv, GapInv, NEW c \in Conns, MsgStore(c) PROVE GapInv'
<1> USE DEF Inv, Base, TypeOK, Fresh, Goto, Labels
<1>1. /\ pc[c] = "store" /\ pc' = [pc EXCEPT ![c] = "snapshot"]
      /\ UNCHANGED <<rooms, sent, job, client, fresh>>
      /\ stored' = stored \/ stored' = Append(stored, msg[c])
  BY DEF MsgStore
<1>2. Keeps
  BY <1>1, QuietStep
<1>3. CASE stored' = stored
  BY <1>1, <1>2, <1>3, CaughtKept, ReadersKept DEF GapInv
<1>4. CASE stored' = Append(stored, msg[c])
  <2>1. \A i \in DOMAIN stored' :
          \/ i \in DOMAIN stored /\ stored'[i] = stored[i] /\ stored[i] \in Nat
          \/ stored'[i] = msg[c]
    BY <1>4
  <2>2. \A d \in Conns, m \in {msg[c]} : Pending(m, d)'
    BY <1>1 DEF Pending
  <2>3. NoMessageGap'
    <3> SUFFICES ASSUME NEW d \in caught', NEW i \in DOMAIN stored', i <= HistLimit
                 PROVE  stored'[i] \in heard'[d] \/ Pending(stored[i], d)'
      BY DEF NoMessageGap, Pending
    <3>1. d \in caught /\ d \in members /\ d \in Conns
      BY <1>1
    <3>2. \A m : m = stored'[i] /\ Pending(m, d)' => Pending(stored[i], d)'
      BY DEF Pending
    <3>3. CASE stored'[i] = msg[c] BY <2>2, <3>1, <3>2, <3>3
    <3>4. CASE i \in DOMAIN stored /\ stored'[i] = stored[i] /\ stored[i] \in Nat
      <4>1. stored[i] \in heard[d] \/ Pending(stored[i], d)
        BY <3>1, <3>4 DEF NoMessageGap, GapInv
      <4>2. stored'[i] \in heard[d] \/ (\A m : m = stored'[i] => Pending(m, d))
        BY <3>4, <4>1
      <4> HIDE DEF TypeOK
      <4> QED BY <1>2, <3>1, <3>2, <3>4, <4>2 DEF Keeps
    <3> QED BY <2>1, <3>3, <3>4
  <2>4. Readers'
    <3> SUFFICES ASSUME NEW e \in fresh', NEW i \in DOMAIN stored', i <= HistLimit
                 PROVE  \/ stored'[i] \in heard'[to'[e]]
                        \/ stored'[i] \in Elements(hist'[e])
                        \/ Pending(stored[i], to[e])'
      BY <1>1 DEF Readers, Pending
    <3>1. /\ e \in fresh /\ to'[e] = to[e] /\ hist'[e] = hist[e]
          /\ to[e] \in members /\ to[e] \in Conns
      BY <1>1
    <3>2. \A m : m = stored'[i] /\ Pending(m, to[e])' => Pending(stored[i], to[e])'
      BY DEF Pending
    <3>3. CASE stored'[i] = msg[c] BY <2>2, <3>1, <3>2, <3>3
    <3>4. CASE i \in DOMAIN stored /\ stored'[i] = stored[i] /\ stored[i] \in Nat
      <4> DEFINE d == to[e]
      <4>1. \/ stored[i] \in heard[d] \/ stored[i] \in Elements(hist[e])
            \/ Pending(stored[i], d)
        BY <3>1, <3>4 DEF Readers, GapInv
      <4>2. \/ stored'[i] \in heard[d] \/ stored'[i] \in Elements(hist'[e])
            \/ \A m : m = stored'[i] => Pending(m, d)
        BY <3>1, <3>4, <4>1
      <4> HIDE DEF TypeOK
      <4> QED BY <1>2, <3>1, <3>2, <3>4, <4>2 DEF Keeps
    <3> QED BY <2>1, <3>3, <3>4
  <2> QED BY <2>3, <2>4 DEF GapInv
<1> QED BY <1>1, <1>3, <1>4

\* A history has every message within its limit.
LEMMA HistoryHas ==
  ASSUME TypeOK, NEW i \in DOMAIN stored, i <= HistLimit
  PROVE  stored[i] \in Elements(History)
<1> DEFINE n == IF Len(stored) < HistLimit THEN Len(stored) ELSE HistLimit
<1>1. /\ stored \in Seq(Nat) /\ i \in 1..Len(stored) /\ i \in 1..n
      /\ n \in Nat /\ n <= Len(stored)
  BY RoomFeedAssumption DEF TypeOK
<1>2. History = SubSeq(stored, 1, n)
  BY DEF History
<1> HIDE DEF n
<1>3. i \in DOMAIN SubSeq(stored, 1, n) /\ SubSeq(stored, 1, n)[i] = stored[i]
  BY <1>1
<1> QED BY <1>2, <1>3 DEF Elements

\* Nor does the reading or the sending of a history: what it has not is on its way.
LEMMA HistoryGap ==
  ASSUME Inv, GapInv, NEW c \in Conns, Fetch(c) \/ SendHistory(c) PROVE GapInv'
<1> USE DEF Inv, Base, TypeOK, Fresh, Locals, Goto, Finish, Labels
<1>1. \A e \in Conns \ {c} : /\ pc'[e] = pc[e] /\ msg'[e] = msg[e] /\ hist'[e] = hist[e]
                             /\ todo'[e] = todo[e] /\ to'[e] = to[e]
  BY DEF Fetch, SendHistory
<1>2. CASE Fetch(c)
  <2>1. pc[c] = "fetch" /\ heard' = heard /\ stored' = stored /\ caught' = caught
    BY <1>2 DEF Fetch
  <2>2. Keeps
    BY <1>1, <2>1, QuietStep
  <2>3. CASE fresh' = fresh
    BY <1>1, <2>1, <2>2, <2>3, CaughtKept, ReadersKept DEF GapInv
  <2>4. CASE fresh' = fresh \cup {c} /\ hist'[c] = History
    <3>1. ASSUME NEW e \in fresh', NEW i \in DOMAIN stored, i <= HistLimit
          PROVE  \/ stored'[i] \in heard'[to'[e]]
                 \/ stored'[i] \in Elements(hist'[e])
                 \/ Pending(stored[i], to[e])'
      <4>1. CASE e = c
        BY <2>1, <2>4, <3>1, <4>1, HistoryHas
      <4>2. CASE e # c
        <5>1. e \in fresh /\ to'[e] = to[e] /\ to[e] \in members /\ hist'[e] = hist[e]
          BY <1>1, <2>4, <4>2
        <5>2. stored[i] \in Nat
          OBVIOUS
        <5> QED BY <2>1, <2>2, <3>1, <5>1, <5>2 DEF Readers, Keeps, GapInv
      <4> QED BY <4>1, <4>2
    <3>2. Readers'
      BY <2>1, <3>1 DEF Readers, Pending
    <3> QED BY <2>1, <2>2, <3>2, CaughtKept DEF GapInv
  <2> QED BY <1>2, <2>3, <2>4 DEF Fetch
<1>3. CASE SendHistory(c)
  <2> DEFINE d == to[c]
  <2>1. /\ pc[c] = "send" /\ stored' = stored /\ d \in Conns
        /\ heard' = [heard EXCEPT ![d] = heard[d] \cup Elements(hist[c])]
        /\ caught' = IF c \in fresh THEN caught \cup {d} ELSE caught
        /\ fresh' = fresh \ {c}
    BY <1>3 DEF SendHistory
  <2>2. Keeps
    BY <1>1, <2>1, QuietStep
  <2>3. Readers'
    BY <1>1, <2>1, <2>2, ReadersKept
  <2>4. ASSUME NEW e \in caught', NEW i \in DOMAIN stored, i <= HistLimit
        PROVE  stored'[i] \in heard'[e] \/ Pending(stored[i], e)'
    <3>1. stored[i] \in Nat
      OBVIOUS
    <3>2. CASE e \in caught
      BY <2>1, <2>2, <2>4, <3>1, <3>2 DEF NoMessageGap, Keeps, GapInv
    <3>3. CASE c \in fresh /\ e = d
      BY <2>1, <2>2, <2>4, <3>1, <3>3 DEF Readers, Keeps, GapInv
    <3> QED BY <2>1, <3>2, <3>3
  <2>5. NoMessageGap'
    BY <2>1, <2>4 DEF NoMessageGap, Pending
  <2> QED BY <2>3, <2>5 DEF GapInv
<1> QED BY <1>2, <1>3

\* No step opens a gap.
LEMMA NextGap == ASSUME Inv, GapInv, [Next]_vars PROVE GapInv'
<1>1. CASE UNCHANGED vars
  BY <1>1 DEF vars, GapInv, Readers, NoMessageGap, Pending
<1> QED BY <1>1, ClientGap, QuietGap, BroadcastGap, StoreGap, HistoryGap DEF Next, Handler

-----------------------------------------------------------------------------
(* No message more than twice *)

Distinct(s)  == \A i, j \in DOMAIN s : s[i] = s[j] => i = j
Places(s, m) == {i \in DOMAIN s : s[i] = m}
Times(s, m)  == Cardinality(Places(s, m))

\* Every message once, of those sent so far.
Proper(s) == Distinct(s) /\ \A i \in DOMAIN s : s[i] <= sent

Sending == {"member", "store", "snapshot", "visit", "deliver"}

\* Connection d may still get message m live.
Ahead(m, d) ==
  \E c \in Conns :
    /\ msg[c] = m
    /\ \/ pc[c] \in {"member", "store", "snapshot"}
       \/ pc[c] \in {"visit", "deliver"} /\ d \in todo[c]
       \/ pc[c] = "deliver" /\ to[c] = d

\* A message is in the hands of one handler, which visits nobody twice.
Senders ==
  /\ \A c \in Conns : /\ msg[c] <= sent
                      /\ pc[c] \in Sending => msg[c] # 0
                      /\ pc[c] = "deliver" => to[c] \notin todo[c]
  /\ \A c, d \in Conns : msg[c] # 0 /\ msg[c] = msg[d] => c = d

\* It is stored once, and so it is once in a history.
Once ==
  /\ Proper(stored)
  /\ \A c \in Conns : /\ pc[c] \in {"member", "store"} => \A i \in DOMAIN stored : stored[i] # msg[c]
                      /\ Proper(hist[c])

\* A client shows it once until it comes live.
Views ==
  \A d \in Conns : /\ \A i \in DOMAIN view[d] : view[d][i] <= sent
                   /\ \A m \in 1 .. sent : Times(view[d], m) <= IF Ahead(m, d) THEN 1 ELSE 2

TwiceInv == Senders /\ Once /\ Views

\* A sequence without repetition has a message once.
LEMMA DistinctTimes ==
  ASSUME NEW s \in Seq(Nat), NEW m, Distinct(s) PROVE Times(s, m) \in {0, 1}
<1>1. CASE Places(s, m) = {}
  BY <1>1, FS_EmptySet DEF Times
<1>2. ASSUME NEW i \in Places(s, m) PROVE Times(s, m) = 1
  <2>1. Places(s, m) = {i}
    BY <1>2 DEF Places, Distinct
  <2> QED BY <2>1, FS_Singleton DEF Times
<1> QED BY <1>1, <1>2

\* One that is appended is there once more, and no other is.
LEMMA AppendTimes ==
  ASSUME NEW s \in Seq(Nat), NEW x \in Nat, NEW m
  PROVE  /\ Times(s, m) \in Nat
         /\ Times(Append(s, x), m) = IF x = m THEN Times(s, m) + 1 ELSE Times(s, m)
<1>1. IsFiniteSet(Places(s, m))
  <2>1. Len(s) \in Nat /\ Places(s, m) \subseteq 1 .. Len(s)
    BY DEF Places
  <2>2. IsFiniteSet(1 .. Len(s))
    BY <2>1, FS_Interval
  <2> QED BY <2>1, <2>2, FS_Subset
<1>2. Len(s) + 1 \notin Places(s, m)
  BY DEF Places
<1>3. Places(Append(s, x), m) = IF x = m THEN Places(s, m) \cup {Len(s) + 1} ELSE Places(s, m)
  BY DEF Places
<1>4. Cardinality(Places(s, m) \cup {Len(s) + 1}) = Cardinality(Places(s, m)) + 1
  BY <1>1, <1>2, FS_AddElement
<1>5. CASE x = m
  BY <1>1, <1>3, <1>4, <1>5, FS_CardinalityType DEF Times
<1>6. CASE x # m
  BY <1>1, <1>3, <1>6, FS_CardinalityType DEF Times
<1> QED BY <1>5, <1>6

\* At first there is no message.
LEMMA TwiceInit == ASSUME Init PROVE TwiceInv
BY DEF Init, TwiceInv, Senders, Once, Views, Proper, Distinct, Sending

Others(c) ==
  \A d \in Conns \ {c} : /\ pc'[d] = pc[d] /\ msg'[d] = msg[d] /\ todo'[d] = todo[d]
                         /\ to'[d] = to[d] /\ hist'[d] = hist[d]

\* A step that sends no message: the handler puts down what it had, if anything, and what
\* is shown anew is a history.
LEMMA QuietTwice ==
  ASSUME Inv, TypeOK', TwiceInv, NEW c \in Conns, Others(c), UNCHANGED <<sent, stored>>,
         msg'[c] \in {0, msg[c]}, Proper(hist'[c]),
         \/ pc'[c] \notin Sending
         \/ pc[c] = "member" /\ pc'[c] = "store" /\ msg'[c] = msg[c],
         \A d \in Conns : view'[d] = view[d] \/ Proper(view'[d])
  PROVE  TwiceInv'
<1> USE DEF Inv, Base, TypeOK, Others, TwiceInv
<1>0. \A d \in Conns :
        /\ msg'[d] \in {0, msg[d]}
        /\ pc'[d] \in Sending => pc[d] \in Sending /\ msg'[d] = msg[d]
        /\ pc'[d] = "deliver" => pc[d] = "deliver" /\ to'[d] = to[d] /\ todo'[d] = todo[d]
        /\ pc'[d] \in {"member", "store"} => pc[d] \in {"member", "store"}
        /\ Proper(hist'[d])
  BY DEF Sending, Once
<1> HIDE DEF Others
<1>1. Senders'
  <2>1. \A d \in Conns : msg'[d] <= sent'
    <3>1. sent \in Nat /\ sent' = sent /\ \A d \in Conns : msg[d] <= sent
      BY DEF Senders
    <3> HIDE DEF Inv, Base, TypeOK, TwiceInv
    <3> QED BY <1>0, <3>1
  <2>2. \A d, e \in Conns : msg'[d] # 0 /\ msg'[d] = msg'[e] => d = e
    BY <1>0 DEF Senders
  <2> QED BY <1>0, <2>1, <2>2 DEF Senders
<1>2. Once'
  <2>0. Proper(stored)'
    BY DEF Once, Proper, Distinct
  <2>1. \A d \in Conns : Proper(hist[d])'
    <3> SUFFICES ASSUME NEW d \in Conns PROVE Proper(hist[d])'
      OBVIOUS
    <3> QED BY <1>0 DEF Proper, Distinct
  <2>2. \A d \in Conns : pc'[d] \in {"member", "store"} => msg'[d] = msg[d]
    BY <1>0 DEF Sending
  <2> QED BY <1>0, <2>0, <2>1, <2>2 DEF Once
<1> USE DEF Others
<1>3. ASSUME NEW m \in 1 .. sent, NEW d \in Conns, Ahead(m, d)' PROVE Ahead(m, d)
  BY <1>3 DEF Ahead, Sending
<1>4. ASSUME NEW d \in Conns
      PROVE  /\ \A i \in DOMAIN view'[d] : view'[d][i] <= sent
             /\ \A m \in 1 .. sent : Times(view'[d], m) <= IF Ahead(m, d)' THEN 1 ELSE 2
  <2>1. CASE view'[d] = view[d]
    <3> DEFINE n(m) == Times(view[d], m)
    <3>1. \A m \in 1 .. sent : n(m) \in Nat
      BY AppendTimes
    <3> HIDE DEF n
    <3>2. \A m \in 1 .. sent : n(m) <= IF Ahead(m, d) THEN 1 ELSE 2
      BY DEF Views, n
    <3>3. \A m \in 1 .. sent : n(m) <= IF Ahead(m, d)' THEN 1 ELSE 2
      BY <1>3, <3>1, <3>2
    <3> QED BY <2>1, <3>3 DEF Views, n
  <2>2. CASE Proper(view'[d])
    <3>1. view'[d] \in Seq(Nat) /\ Distinct(view'[d])
      BY <2>2 DEF Proper
    <3>2. \A m : Times(view'[d], m) \in {0, 1}
      BY <3>1, DistinctTimes
    <3>3. \A m \in 1 .. sent : Times(view'[d], m) <= IF Ahead(m, d)' THEN 1 ELSE 2
      <4> HIDE DEF Inv, Base, TypeOK, TwiceInv
      <4> DEFINE n(m) == Times(view'[d], m)
      <4>1. \A m : n(m) \in {0, 1}
        BY <3>2
      <4> HIDE DEF n
      <4>2. \A m \in 1 .. sent : n(m) <= IF Ahead(m, d)' THEN 1 ELSE 2
        BY <4>1
      <4> QED BY <4>2 DEF n
    <3> QED BY <2>2, <3>3 DEF Proper
  <2> QED BY <2>1, <2>2
<1>5. Views'
  BY <1>4 DEF Views, Times, Places
<1> QED BY <1>1, <1>2, <1>5

\* A history lists every message once.
LEMMA HistoryProper == ASSUME TypeOK, Proper(stored) PROVE Proper(History)
<1> DEFINE n == IF Len(stored) < HistLimit THEN Len(stored) ELSE HistLimit
<1>1. stored \in Seq(Nat) /\ n \in Nat /\ n <= Len(stored)
  BY RoomFeedAssumption DEF TypeOK
<1>2. History = SubSeq(stored, 1, n)
  BY DEF History
<1> HIDE DEF n
<1>3. /\ DOMAIN History = 1 .. n
      /\ \A i \in 1 .. n : History[i] = stored[i] /\ i \in DOMAIN stored
  BY <1>1, <1>2
<1> QED BY <1>3 DEF Proper, Distinct

\* Nothing is shown, and no broadcast is taken up again.
LEMMA ViewsKept ==
  ASSUME TypeOK, Views, UNCHANGED <<view, sent>>,
         \A d \in Conns, m \in 1 .. sent : Ahead(m, d)' => Ahead(m, d)
  PROVE  Views'
<1> DEFINE n(d, m) == Times(view[d], m)
<1>1. \A d \in Conns, m \in 1 .. sent : n(d, m) \in Nat
  BY AppendTimes DEF TypeOK
<1>2. \A d \in Conns, m \in 1 .. sent : n(d, m) <= IF Ahead(m, d) THEN 1 ELSE 2
  BY DEF Views
<1> HIDE DEF n
<1>3. \A d \in Conns, m \in 1 .. sent : n(d, m) <= IF Ahead(m, d)' THEN 1 ELSE 2
  BY <1>1, <1>2
<1>4. \A d \in Conns, m \in 1 .. sent : Times(view[d], m) <= IF Ahead(m, d)' THEN 1 ELSE 2
  BY <1>3 DEF n
<1> QED BY <1>4 DEF Views, Times, Places

\* A new message is shown nowhere.
LEMMA MsgTwice == ASSUME Inv, TwiceInv, NEW c \in Conns, Msg(c) PROVE TwiceInv'
<1> USE DEF Inv, Base, TypeOK, TwiceInv
<1>1. /\ pc[c] = "idle" /\ sent' = sent + 1 /\ msg' = [msg EXCEPT ![c] = sent + 1]
      /\ pc' = [pc EXCEPT ![c] = "member"] /\ UNCHANGED <<stored, todo, to, hist, view>>
  BY DEF Msg, Ready, Goto
<1>2. Senders'
  BY <1>1 DEF Senders, Sending
<1>3. Once'
  <2>1. Proper(stored)' /\ \A i \in DOMAIN stored : stored[i] \in Nat /\ stored[i] <= sent
    BY <1>1 DEF Once, Proper, Distinct
  <2>2. \A d \in Conns : Proper(hist[d])'
    BY <1>1 DEF Once, Proper, Distinct
  <2> QED BY <1>1, <2>1, <2>2 DEF Once
<1>4. ASSUME NEW d \in Conns, NEW m \in 1 .. sent + 1
      PROVE  Times(view[d], m) <= IF Ahead(m, d)' THEN 1 ELSE 2
  <2>1. CASE m = sent + 1
    <3>1. Places(view[d], m) = {}
      BY <2>1 DEF Places, Views
    <3>2. Times(view[d], m) = 0
      BY <3>1, FS_EmptySet DEF Times
    <3> QED BY <3>2
  <2>2. CASE m \in 1 .. sent
    <3>1. Ahead(m, d)' => Ahead(m, d)
      BY <1>1, <2>2 DEF Ahead
    <3>2. Times(view[d], m) \in Nat /\ Times(view[d], m) <= IF Ahead(m, d) THEN 1 ELSE 2
      BY <2>2, AppendTimes DEF Views
    <3> DEFINE n == Times(view[d], m)
    <3> HIDE DEF n
    <3>3. n \in Nat /\ n <= IF Ahead(m, d) THEN 1 ELSE 2
      BY <3>2 DEF n
    <3>4. n <= IF Ahead(m, d)' THEN 1 ELSE 2
      BY <3>1, <3>3
    <3> QED BY <3>4 DEF n
  <2> QED BY <2>1, <2>2
<1>5. Views'
  <2>1. \A d \in Conns : \A i \in DOMAIN view[d] : view[d][i] <= sent'
    BY <1>1 DEF Views
  <2> QED BY <1>1, <1>4, <2>1 DEF Views, Times, Places
<1> QED BY <1>2, <1>3, <1>5

\* It is stored by the handler that has it, once.
LEMMA StoreTwice == ASSUME Inv, TwiceInv, NEW c \in Conns, MsgStore(c) PROVE TwiceInv'
<1> USE DEF Inv, Base, TypeOK, TwiceInv
<1>1. /\ pc[c] = "store" /\ pc' = [pc EXCEPT ![c] = "snapshot"]
      /\ UNCHANGED <<sent, msg, todo, to, hist, view>>
      /\ stored' = stored \/ stored' = Append(stored, msg[c])
  BY DEF MsgStore, Goto
<1>2. Senders'
  BY <1>1 DEF Senders, Sending
<1>3. msg[c] \in Nat /\ msg[c] <= sent /\ \A i \in DOMAIN stored : stored[i] # msg[c]
  BY <1>1 DEF Once, Senders
<1>4. \A d \in Conns : Proper(hist[d])'
  BY <1>1 DEF Once, Proper, Distinct
<1>5. \A d \in Conns \ {c} : pc'[d] \in {"member", "store"} =>
        msg[d] # msg[c] /\ \A i \in DOMAIN stored : stored[i] # msg[d]
  BY <1>1 DEF Once, Senders, Sending
<1>6. \A i \in DOMAIN stored' : \/ i \in DOMAIN stored /\ stored'[i] = stored[i]
                                \/ i = Len(stored) + 1 /\ stored'[i] = msg[c]
  <2>1. CASE stored' = stored
    BY <2>1
  <2>2. CASE stored' = Append(stored, msg[c])
    BY <2>2
  <2> QED BY <1>1, <2>1, <2>2
<1>7. Proper(stored)'
  <2>1. \A i \in DOMAIN stored' : stored'[i] <= sent
    BY <1>3, <1>6 DEF Once, Proper
  <2>2. \A i, j \in DOMAIN stored' : stored'[i] = stored'[j] => i = j
    BY <1>3, <1>6 DEF Once, Proper, Distinct
  <2> QED BY <1>1, <2>1, <2>2 DEF Proper, Distinct
<1>8. Once'
  BY <1>1, <1>4, <1>5, <1>6, <1>7 DEF Once
<1>9. \A d \in Conns, m \in 1 .. sent : Ahead(m, d)' => Ahead(m, d)
  BY <1>1 DEF Ahead
<1> QED BY <1>1, <1>2, <1>8, <1>9, ViewsKept

\* Those to be visited are chosen once, and a visit takes one off.
LEMMA VisitTwice ==
  ASSUME Inv, TwiceInv, NEW c \in Conns, MsgSnapshot(c) \/ \E d \in Conns : MsgVisit(c, d)
  PROVE  TwiceInv'
<1> USE DEF Inv, Base, TypeOK, TwiceInv
<1>1. /\ UNCHANGED <<sent, stored, msg, hist, view>>
      /\ \A d \in Conns \ {c} : pc'[d] = pc[d] /\ todo'[d] = todo[d] /\ to'[d] = to[d]
      /\ pc[c] \in {"snapshot", "visit"} /\ pc'[c] \in {"visit", "deliver"}
      /\ pc'[c] = "deliver" => pc[c] = "visit" /\ to'[c] \in todo[c] \ todo'[c]
      /\ pc[c] = "visit" => todo'[c] \subseteq todo[c]
  <2>1. CASE MsgSnapshot(c)
    BY <2>1 DEF MsgSnapshot, Goto
  <2>2. ASSUME NEW d \in Conns, MsgVisit(c, d) PROVE <1>1!:
    BY <2>2 DEF MsgVisit, Goto
  <2> QED BY <2>1, <2>2
<1>2. Senders'
  BY <1>1 DEF Senders, Sending
<1>3. Once'
  BY <1>1 DEF Once, Proper, Distinct
<1>4. \A d \in Conns, m \in 1 .. sent : Ahead(m, d)' => Ahead(m, d)
  BY <1>1 DEF Ahead
<1> QED BY <1>1, <1>2, <1>3, <1>4, ViewsKept

\* Who gets it live will not get it again.
LEMMA DeliverTwice == ASSUME Inv, TypeOK', TwiceInv, NEW c \in Conns, MsgDeliver(c) PROVE TwiceInv'
<1> USE DEF Inv, Base, TypeOK, TwiceInv
<1> DEFINE e == to[c]
           k == msg[c]
<1>1. /\ UNCHANGED <<sent, stored, msg, todo, hist>>
      /\ \A d \in Conns \ {c} : pc'[d] = pc[d] /\ to'[d] = to[d]
      /\ pc[c] = "deliver" /\ pc'[c] = "visit"
      /\ e \in Conns /\ view' = [view EXCEPT ![e] = Append(view[e], k)]
  BY DEF MsgDeliver, Goto, Locals
<1>2. k \in 1 .. sent /\ e \notin todo[c] /\ \A d \in Conns : msg[d] = k => d = c
  BY <1>1 DEF Senders, Sending
<1>3. Senders'
  BY <1>1 DEF Senders, Sending
<1>4. Once'
  BY <1>1 DEF Once, Proper, Distinct
<1>5. \A d \in Conns, m \in 1 .. sent : Ahead(m, d)' => Ahead(m, d)
  BY <1>1 DEF Ahead
<1>6. \A m \in {k}, d \in {e} : Ahead(m, d) /\ ~Ahead(m, d)'
  BY <1>1, <1>2 DEF Ahead
<1> HIDE DEF e, k
<1>7. ASSUME NEW d \in Conns, NEW m \in 1 .. sent
      PROVE  Times(view'[d], m) <= IF Ahead(m, d)' THEN 1 ELSE 2
  <2> DEFINE n == Times(view[d], m)
             p == Times(view'[d], m)
  <2>1. n \in Nat /\ n <= IF Ahead(m, d) THEN 1 ELSE 2
    BY AppendTimes DEF Views
  <2>2. p = IF d = e /\ m = k THEN n + 1 ELSE n
    BY <1>1, <1>2, AppendTimes
  <2> HIDE DEF n, p
  <2>3. p <= IF Ahead(m, d)' THEN 1 ELSE 2
    <3> HIDE DEF Inv, Base, TypeOK, TwiceInv
    <3>1. CASE d = e /\ m = k
      BY <1>6, <2>1, <2>2, <3>1
    <3>2. CASE ~(d = e /\ m = k)
      BY <1>5, <2>1, <2>2, <3>2
    <3> QED BY <3>1, <3>2
  <2> QED BY <2>3 DEF p
<1>8. \A d \in Conns : \A i \in DOMAIN view'[d] : view'[d][i] <= sent
  BY <1>1, <1>2 DEF Views
<1> QED BY <1>1, <1>3, <1>4, <1>7, <1>8 DEF Views, Times, Places

\* No step shows a message a third time.
LEMMA NextTwice == ASSUME Inv, Inv', TwiceInv, [Next]_vars PROVE TwiceInv'
<1> USE DEF Inv, Base, Goto, Finish
<1>1. CASE UNCHANGED vars
  BY <1>1 DEF vars, TwiceInv, Senders, Once, Views, Ahead, Proper, Distinct, Times, Places
<1>2. Proper(<<>>) /\ Proper(History)
  BY HistoryProper DEF TwiceInv, Once, Proper, Distinct
<1>3. ASSUME NEW c \in Conns, Handler(c) PROVE TwiceInv'
  <2>0. Proper(hist[c])
    BY DEF TwiceInv, Once
  <2>1. CASE Restore(c) \/ Restored(c) \/ JoinDb(c) \/ JoinMemory(c)
    <3>1. /\ Others(c) /\ UNCHANGED <<sent, stored, view>>
          /\ msg'[c] \in {0, msg[c]} /\ hist'[c] \in {hist[c], <<>>}
          /\ \/ pc'[c] \notin Sending
             \/ pc[c] = "member" /\ pc'[c] = "store" /\ msg'[c] = msg[c]
      <4> HIDE DEF Inv, Base
      <4>0. TypeOK
        BY DEF Inv, Base
      <4>1. CASE Restore(c)
        BY <4>0, <4>1 DEF Restore, Others, Sending, TypeOK
      <4>2. CASE Restored(c)
        BY <4>0, <4>2 DEF Restored, Others, Sending, TypeOK
      <4>3. CASE JoinDb(c)
        BY <4>0, <4>3 DEF JoinDb, Others, Sending, TypeOK
      <4>4. CASE JoinMemory(c)
        BY <4>0, <4>4 DEF JoinMemory, Others, Sending, TypeOK
      <4> QED BY <2>1, <4>1, <4>2, <4>3, <4>4
    <3> QED BY <2>0, <3>1, <1>2, QuietTwice
  <2>2. CASE LeaveDb(c) \/ LeaveMemory(c) \/ MsgMember(c) \/ MsgDone(c)
    <3>1. /\ Others(c) /\ UNCHANGED <<sent, stored, view>>
          /\ msg'[c] \in {0, msg[c]} /\ hist'[c] \in {hist[c], <<>>}
          /\ \/ pc'[c] \notin Sending
             \/ pc[c] = "member" /\ pc'[c] = "store" /\ msg'[c] = msg[c]
      <4> HIDE DEF Inv, Base
      <4>0. TypeOK
        BY DEF Inv, Base
      <4>1. CASE LeaveDb(c)
        BY <4>0, <4>1 DEF LeaveDb, Others, Sending, TypeOK
      <4>2. CASE LeaveMemory(c)
        BY <4>0, <4>2 DEF LeaveMemory, Others, Sending, TypeOK
      <4>3. CASE MsgMember(c)
        BY <4>0, <4>3 DEF MsgMember, Others, Sending, TypeOK
      <4>4. CASE MsgDone(c)
        BY <4>0, <4>4 DEF MsgDone, Others, Sending, TypeOK
      <4> QED BY <2>2, <4>1, <4>2, <4>3, <4>4
    <3> QED BY <2>0, <3>1, <1>2, QuietTwice
  <2>3. CASE Fetch(c)
    <3>1. /\ Others(c) /\ UNCHANGED <<sent, stored, view>>
          /\ msg'[c] \in {0, msg[c]} /\ hist'[c] \in {hist[c], History, <<>>}
          /\ \/ pc'[c] \notin Sending
             \/ pc[c] = "member" /\ pc'[c] = "store" /\ msg'[c] = msg[c]
      BY <2>3 DEF Fetch, Others, Sending, TypeOK
    <3> QED BY <2>0, <3>1, <1>2, QuietTwice
  <2>4. CASE SendHistory(c)
    <3>1. \A d \in Conns : view'[d] \in {view[d], hist[c]}
      BY <2>4 DEF SendHistory, Redrawn, TypeOK
    <3>2. /\ Others(c) /\ UNCHANGED <<sent, stored>>
          /\ msg'[c] = 0 /\ hist'[c] = <<>> /\ pc'[c] \notin Sending
      BY <2>4 DEF SendHistory, Others, Sending, TypeOK
    <3> QED BY <2>0, <3>1, <3>2, <1>2, QuietTwice
  <2> QED BY <1>3, <2>1, <2>2, <2>3, <2>4, StoreTwice, VisitTwice, DeliverTwice DEF Handler
<1>4. ASSUME NEW c \in Conns, Client(c) PROVE TwiceInv'
  <2>0. Proper(hist[c])
    BY DEF TwiceInv, Once
  <2>1. CASE Login(c)
    <3>1. \A d \in Conns : view'[d] \in {view[d], <<>>}
      BY <2>1 DEF Login, TypeOK
    <3>2. /\ Others(c) /\ UNCHANGED <<sent, stored, msg, hist>> /\ pc'[c] \notin Sending
      BY <2>1 DEF Login, Others, Sending, TypeOK
    <3> QED BY <2>0, <3>1, <3>2, <1>2, QuietTwice
  <2>2. CASE Exit(c)
    <3>1. UNCHANGED <<sent, stored, msg, todo, to, hist, view, pc>>
      BY <2>2 DEF Exit
    <3> QED BY <3>1 DEF TwiceInv, Senders, Once, Views, Ahead, Proper, Distinct, Times, Places
  <2>3. ASSUME NEW d \in Conns, NEW l \in {"join", "fetch", "leave"}, Request(c, d, l)
        PROVE  TwiceInv'
    <3>1. /\ Others(c) /\ UNCHANGED <<sent, stored, msg, hist, view>> /\ pc'[c] \notin Sending
      BY <2>3 DEF Request, Others, Sending, TypeOK
    <3> QED BY <2>0, <3>1, QuietTwice
  <2> QED BY <1>4, <2>1, <2>2, <2>3, MsgTwice DEF Client, Select, Join, Leave
<1> QED BY <1>1, <1>3, <1>4 DEF Next

-----------------------------------------------------------------------------
(* The log *)

\* A history is a beginning of the table, as it was or is.
Prefixes ==
  \A c \in Conns : \E n \in 0 .. HistLimit :
    n <= Len(stored) /\ hist[c] = SubSeq(stored, 1, n)

\* It stays one: rows are only added, at the end.
LEMMA PrefixesKept == ASSUME Inv, Prefixes, [Next]_vars PROVE Prefixes'
<1> USE RoomFeedAssumption DEF Inv, Base, TypeOK
<1>1. \A d \in Conns : hist'[d] \in {hist[d], <<>>, History}
  <2>1. CASE UNCHANGED vars BY <2>1 DEF vars
  <2>2. ASSUME NEW c \in Conns, Client(c) PROVE hist' = hist
    BY <2>2 DEF Client, Login, Exit, Select, Join, Leave, Request, Msg
  <2>3. ASSUME NEW c \in Conns, Handler(c)
        PROVE  hist' = hist \/ \E h \in {<<>>, History} : hist' = [hist EXCEPT ![c] = h]
    BY <2>3 DEF Handler, Restore, Restored, JoinDb, JoinMemory, Fetch, SendHistory, LeaveDb,
                LeaveMemory, MsgMember, MsgStore, MsgSnapshot, MsgVisit, MsgDeliver, MsgDone,
                Finish
  <2> QED BY <2>1, <2>2, <2>3 DEF Next
<1>2. stored' = stored \/ \E m \in Nat : stored' = Append(stored, m)
  <2>1. CASE UNCHANGED vars BY <2>1 DEF vars
  <2>2. ASSUME NEW c \in Conns, Client(c) PROVE stored' = stored
    BY <2>2 DEF Client, Login, Exit, Select, Join, Leave, Request, Msg
  <2>3. ASSUME NEW c \in Conns, Handler(c) PROVE stored' \in {stored, Append(stored, msg[c])}
    BY <2>3 DEF Handler, Restore, Restored, JoinDb, JoinMemory, Fetch, SendHistory, LeaveDb,
                LeaveMemory, MsgMember, MsgStore, MsgSnapshot, MsgVisit, MsgDeliver, MsgDone
  <2> QED BY <2>1, <2>2, <2>3 DEF Next
<1>3. /\ stored \in Seq(Nat) /\ Len(stored) \in Nat /\ Len(stored) <= Len(stored')
      /\ \A n \in 0 .. HistLimit : n <= Len(stored) => SubSeq(stored', 1, n) = SubSeq(stored, 1, n)
  <2>1. stored \in Seq(Nat) /\ Len(stored) \in Nat OBVIOUS
  <2>2. CASE stored' = stored BY <2>1, <2>2
  <2>3. ASSUME NEW m \in Nat, stored' = Append(stored, m)
        PROVE  /\ Len(stored) <= Len(stored')
               /\ \A n \in 0 .. HistLimit :
                    n <= Len(stored) => SubSeq(stored', 1, n) = SubSeq(stored, 1, n)
    <3> HIDE DEF Inv, Base, TypeOK
    <3>1. stored' \in Seq(Nat) /\ Len(stored') = Len(stored) + 1
          /\ \A i \in 1 .. Len(stored) : stored'[i] = stored[i]
      BY <2>1, <2>3
    <3> QED BY <2>1, <3>1
  <2> QED BY <1>2, <2>1, <2>2, <2>3
<1> SUFFICES ASSUME NEW d \in Conns
             PROVE  \E n \in 0 .. HistLimit :
                      n <= Len(stored) /\ hist'[d] = SubSeq(stored, 1, n)
  <2> HIDE DEF Inv, Base, TypeOK
  <2>1. \A n \in 0 .. HistLimit : n <= Len(stored) => n <= Len(stored')
    <3> DEFINE k == Len(stored)
               l == Len(stored')
    <3>1. k \in Nat /\ l \in Nat /\ k <= l
      <4>1. stored' \in Seq(Nat) BY <1>2, <1>3
      <4> QED BY <1>3, <4>1
    <3> HIDE DEF k, l
    <3>2. \A n \in 0 .. HistLimit : n <= k => n <= l BY <3>1
    <3> QED BY <3>2 DEF k, l
  <2>2. \A e \in Conns, n \in 0 .. HistLimit :
          n <= Len(stored) /\ hist'[e] = SubSeq(stored, 1, n)
            => n <= Len(stored') /\ hist'[e] = SubSeq(stored', 1, n)
    BY <1>3, <2>1
  <2> QED BY <2>2 DEF Prefixes
<1>4. CASE hist'[d] = hist[d] BY <1>4 DEF Prefixes
<1> HIDE DEF Inv, Base, TypeOK
<1>5. CASE hist'[d] = <<>>
  <2>1. SubSeq(stored, 1, 0) = <<>> /\ 0 \in 0 .. HistLimit /\ 0 <= Len(stored)
    BY <1>3
  <2> QED BY <1>5, <2>1
<1>6. CASE hist'[d] = History
  <2> DEFINE n == IF Len(stored) < HistLimit THEN Len(stored) ELSE HistLimit
  <2>1. n \in 0 .. HistLimit /\ n <= Len(stored) BY <1>3
  <2>2. History = SubSeq(stored, 1, n) BY DEF History
  <2> HIDE DEF n
  <2> QED BY <1>6, <2>1, <2>2
<1> QED BY <1>1, <1>4, <1>5, <1>6

LogInv == Inv /\ TwiceInv /\ Prefixes

\* A step of one handler changes to whom its own message may come, and no other.
OnlyOf(c) == \A d \in Conns \ {c} : pc'[d] = pc[d] /\ todo'[d] = todo[d] /\ to'[d] = to[d]

LEMMA DueStep ==
  ASSUME NEW c \in Conns, OnlyOf(c)
  PROVE  [d \in Conns |-> Due(d)]' = [[d \in Conns |-> Due(d)] EXCEPT ![c] = Due(c)']
<1>1. \A d \in Conns \ {c} : Due(d)' = Due(d) BY DEF OnlyOf, Due
<1> QED BY <1>1

\* A handler that is done, or fails, drops its message.
LEMMA FinishLog ==
  ASSUME LogInv, NEW c \in Conns, Finish(c)
  PROVE  OnlyOf(c) /\ Due(c)' = {} /\ msg' = [msg EXCEPT ![c] = 0]
BY DEF LogInv, Inv, Base, TypeOK, Finish, Goto, OnlyOf, Due

LEMMA DropStep ==
  ASSUME LogInv, NEW c \in Conns, Finish(c), UNCHANGED <<sent, stored>>
  PROVE  Room!Drop(c)
BY DueStep, FinishLog DEF Room!Drop

\* A step that concerns no message, of a handler that broadcasts none or of one that
\* goes on to, is none of the log.
LEMMA QuietLog ==
  ASSUME NEW c \in Conns, OnlyOf(c), Due(c)' = Due(c), UNCHANGED <<sent, stored, msg, view>>
  PROVE  UNCHANGED Room!vars
<1>1. [d \in Conns |-> Due(d)]' = [d \in Conns |-> Due(d)] BY DueStep
<1> QED BY <1>1 DEF Room!vars

\* What the steps of a broadcast are to the log.
LEMMA BroadcastLog ==
  ASSUME LogInv, NEW c \in Conns,
         \/ MsgMember(c) \/ MsgStore(c) \/ MsgSnapshot(c) \/ MsgDeliver(c) \/ MsgDone(c)
         \/ \E d \in Conns : MsgVisit(c, d)
  PROVE  Room!Next \/ UNCHANGED Room!vars
<1> USE DEF LogInv, Inv, Base, TypeOK, Locals, Goto
<1>1. CASE MsgMember(c)
  <2>1. CASE Finish(c)
    BY <1>1, <2>1, DropStep DEF MsgMember, Room!Next
  <2>2. CASE Goto(c, "store") /\ UNCHANGED job
    BY <1>1, <2>2, QuietLog DEF MsgMember, OnlyOf, Due
  <2> QED BY <1>1, <2>1, <2>2 DEF MsgMember
<1>2. CASE MsgStore(c)
  <2>1. OnlyOf(c) /\ Due(c) = Conns /\ Due(c)' = Conns /\ UNCHANGED <<sent, msg, view>>
    BY <1>2 DEF MsgStore, OnlyOf, Due
  <2>2. CASE stored' = stored BY <2>1, <2>2, QuietLog
  <2>3. CASE stored' = Append(stored, msg[c])
    <3>1. \A i \in DOMAIN stored : stored[i] # msg[c]
      BY <1>2 DEF MsgStore, TwiceInv, Once
    <3>2. Room!Store(c) BY <2>1, <2>3, <3>1, DueStep DEF Room!Store
    <3> QED BY <3>2 DEF Room!Next
  <2> QED BY <1>2, <2>2, <2>3 DEF MsgStore
<1>3. CASE MsgSnapshot(c)
  <2>1. OnlyOf(c) /\ Due(c) = Conns /\ Due(c)' = online /\ UNCHANGED <<sent, stored, msg, view>>
    BY <1>3 DEF MsgSnapshot, OnlyOf, Due
  <2>2. online = Conns \ (Conns \ online) OBVIOUS
  <2>3. Room!Skip(c, Conns \ online) BY <2>1, <2>2, DueStep DEF Room!Skip
  <2>4. Conns \ online \in SUBSET Conns OBVIOUS
  <2> QED BY <2>3, <2>4 DEF Room!Next
<1>4. ASSUME NEW d \in Conns, MsgVisit(c, d) PROVE Room!Next \/ UNCHANGED Room!vars
  <2>1. /\ OnlyOf(c) /\ d \in todo[c] /\ Due(c) = todo[c]
        /\ Due(c)' = IF d \in members THEN todo[c] ELSE todo[c] \ {d}
        /\ UNCHANGED <<sent, stored, msg, view>>
    <3>1. /\ pc[c] = "visit" /\ d \in todo[c] /\ todo' = [todo EXCEPT ![c] = todo[c] \ {d}]
          /\ UNCHANGED <<sent, stored, msg, view>>
      BY <1>4 DEF MsgVisit
    <3>2. CASE d \in members
      <4>1. to'[c] = d /\ pc'[c] = "deliver" /\ todo'[c] = todo[c] \ {d} /\ OnlyOf(c)
        BY <1>4, <3>1, <3>2 DEF MsgVisit, OnlyOf
      <4>2. (todo[c] \ {d}) \cup {d} = todo[c] BY <3>1
      <4> QED BY <3>1, <3>2, <4>1, <4>2 DEF Due
    <3>3. CASE d \notin members
      <4>1. pc' = pc /\ todo'[c] = todo[c] \ {d} /\ OnlyOf(c)
        BY <1>4, <3>1, <3>3 DEF MsgVisit, OnlyOf
      <4> QED BY <3>1, <3>3, <4>1 DEF Due
    <3> QED BY <3>2, <3>3
  <2>2. CASE d \in members BY <2>1, <2>2, QuietLog
  <2>3. CASE d \notin members
    <3>1. Room!Skip(c, {d}) BY <2>1, <2>3, DueStep DEF Room!Skip
    <3>2. {d} \in SUBSET Conns OBVIOUS
    <3> QED BY <3>1, <3>2 DEF Room!Next
  <2> QED BY <2>2, <2>3
<1>5. CASE MsgDeliver(c)
  <2>1. PICK d \in Conns : d = to[c] BY <1>5 DEF MsgDeliver
  <2>2. /\ OnlyOf(c) /\ Due(c) = todo[c] \cup {d} /\ Due(c)' = todo[c]
        /\ view' = [view EXCEPT ![d] = Append(view[d], msg[c])]
        /\ UNCHANGED <<sent, stored, msg>>
    BY <1>5, <2>1 DEF MsgDeliver, OnlyOf, Due
  <2>3. d \notin todo[c] BY <1>5, <2>1 DEF MsgDeliver, TwiceInv, Senders
  <2>4. Due(c) \ {d} = todo[c] BY <2>2, <2>3
  <2> HIDE DEF LogInv, Inv, Base, TypeOK, Locals
  <2>5. [e \in Conns |-> Due(e)]' = [[e \in Conns |-> Due(e)] EXCEPT ![c] = Due(c) \ {d}]
    BY <2>2, <2>4, DueStep
  <2>6. Room!Deliver(c, d) BY <2>2, <2>5 DEF Room!Deliver
  <2> QED BY <2>6 DEF Room!Next
<1>6. CASE MsgDone(c)
  BY <1>6, DropStep DEF MsgDone, Room!Next
<1> QED BY <1>1, <1>2, <1>3, <1>4, <1>5, <1>6

\* What the other steps of a handler are.
LEMMA HandlerLog ==
  ASSUME LogInv, NEW c \in Conns, Handler(c)
  PROVE  Room!Next \/ UNCHANGED Room!vars
<1> USE DEF LogInv, Inv, Base, TypeOK, Goto
<1>1. CASE SendHistory(c)
  <2>1. PICK d \in Conns : d = to[c] BY <1>1 DEF SendHistory, Locals
  <2>2. Finish(c) /\ UNCHANGED <<sent, stored>> /\ view' = [view EXCEPT ![d] = hist[c]]
    BY <1>1, <2>1 DEF SendHistory, Redrawn
  <2>3. PICK n \in 0 .. HistLimit : n <= Len(stored) /\ hist[c] = SubSeq(stored, 1, n)
    BY DEF Prefixes
  <2>4. Room!Replay(d, n) BY <2>2, <2>3 DEF Room!Replay
  <2>5. Room!Drop(c) BY <2>2, DropStep
  <2> QED BY <2>4, <2>5 DEF Room!Next
<1>2. CASE Restore(c) \/ Restored(c)
  <2>1. /\ pc[c] \in {"restore", "restored"} /\ pc'[c] \in {"restored", "left", "idle"}
        /\ OnlyOf(c) /\ UNCHANGED <<sent, stored, msg, view>>
    BY <1>2 DEF Restore, Restored, OnlyOf
  <2>2. Due(c)' = Due(c) BY <2>1 DEF Due
  <2> QED BY <2>1, <2>2, QuietLog
<1>3. CASE JoinDb(c) \/ JoinMemory(c) \/ Fetch(c) \/ LeaveDb(c) \/ LeaveMemory(c)
  <2>1. UNCHANGED <<sent, stored, view>>
    BY <1>3 DEF JoinDb, JoinMemory, Fetch, LeaveDb, LeaveMemory
  <2>2. CASE Finish(c) BY <2>1, <2>2, DropStep DEF Room!Next
  <2>3. CASE ~Finish(c)
    <3>1. OnlyOf(c) /\ Due(c)' = Due(c) /\ msg' = msg
      BY <1>3, <2>3 DEF JoinDb, JoinMemory, Fetch, LeaveDb, LeaveMemory, OnlyOf, Due
    <3> QED BY <2>1, <3>1, QuietLog
  <2> QED BY <2>2, <2>3
<1> QED BY <1>1, <1>2, <1>3, BroadcastLog DEF Handler

\* Of the requests, a new message and a new login are steps of the log.
LEMMA ClientLog ==
  ASSUME LogInv, NEW c \in Conns, Client(c)
  PROVE  Room!Next \/ UNCHANGED Room!vars
<1> USE DEF LogInv, Inv, Base, TypeOK, Goto
<1>1. CASE Login(c)
  <2>1. OnlyOf(c) /\ Due(c)' = Due(c) /\ UNCHANGED <<sent, stored, msg>>
        /\ view' = [view EXCEPT ![c] = <<>>]
    BY <1>1 DEF Login, OnlyOf, Due
  <2>2. Room!Clear(c) BY <2>1, DueStep DEF Room!Clear
  <2> QED BY <2>2 DEF Room!Next
<1>2. CASE Exit(c) BY <1>2, QuietLog DEF Exit, OnlyOf, Due
<1>3. CASE Msg(c)
  <2>1. /\ OnlyOf(c) /\ Due(c) = {} /\ Due(c)' = Conns /\ UNCHANGED <<stored, view>>
        /\ sent' = sent + 1 /\ msg' = [msg EXCEPT ![c] = sent + 1]
    BY <1>3 DEF Msg, Ready, OnlyOf, Due
  <2>2. Room!Submit(c) BY <2>1, DueStep DEF Room!Submit
  <2> QED BY <2>2 DEF Room!Next
<1>4. ASSUME NEW d \in Conns, NEW l \in {"join", "fetch", "leave"}, Request(c, d, l)
      PROVE  UNCHANGED Room!vars
  BY <1>4, QuietLog DEF Request, Ready, OnlyOf, Due
<1> QED BY <1>1, <1>2, <1>3, <1>4 DEF Client, Select, Join, Leave

-----------------------------------------------------------------------------

\* Both parts of the invariant hold in every reachable state.
LEMMA InvHolds == Spec => [](Inv /\ GapInv)
<1>1. Init => Inv /\ GapInv
  BY InitInv DEF Init, GapInv, Readers, NoMessageGap
<1>2. Inv /\ GapInv /\ [Next]_vars => Inv' /\ GapInv'
  BY NextInv, NextGap
<1> QED BY <1>1, <1>2, PTL DEF Spec

\* The sessions, rooms and locals keep their types; only sessions are members, and
\* only members were sent a history that counts.
THEOREM TypeCorrect == Spec => []TypeOK
BY InvHolds, PTL DEF Inv, Base

\* A member who was sent a history since he joined misses no message, however many
\* handlers broadcast, send histories, add, remove and drop users at once
\* (socket_server.py, MSG, _send_room_history and _broadcast_to_room).
THEOREM NoGap == Spec => []NoMessageGap
BY InvHolds, PTL DEF GapInv

\* Nor is it shown more than twice, in a history and live, whatever the client joins or
\* selects and however many handlers broadcast (gui/chat_room.py, HISTORY and MSG).
THEOREM ShownTwice == Spec => []ShownAtMostTwice
<1>1. Init => TwiceInv
  BY TwiceInit
<1>2. Inv /\ TwiceInv /\ [Next]_vars => TwiceInv'
  BY NextTwice, NextInv
<1>3. Inv /\ TwiceInv => ShownAtMostTwice
  <2> SUFFICES ASSUME Inv, TwiceInv, NEW d \in Conns, NEW m \in 1 .. sent
               PROVE  Times(view[d], m) <= 2
    BY DEF ShownAtMostTwice, Times, Places
  <2> DEFINE n == Times(view[d], m)
  <2>1. n \in Nat /\ n <= IF Ahead(m, d) THEN 1 ELSE 2
    BY AppendTimes DEF Inv, Base, TypeOK, TwiceInv, Views
  <2> HIDE DEF n
  <2>2. n <= 2
    BY <2>1
  <2> QED BY <2>2 DEF n
<1> QED BY <1>1, <1>2, <1>3, InvHolds, PTL DEF Spec

\* The room is a log: a message is kept once and before anybody has it, and what a client
\* shows is a beginning of the table followed by what came live, whatever histories,
\* broadcasts, joins and faults overlap (socket_server.py, MSG and _send_room_history).
THEOREM ImplementsRoomLog == Spec => IsRoomLog
<1>1. Init => TwiceInv /\ Prefixes
  <2> SUFFICES ASSUME Init PROVE TwiceInv /\ Prefixes
    OBVIOUS
  <2>1. SubSeq(<<>>, 1, 0) = <<>> /\ Len(<<>>) = 0 /\ 0 \in 0 .. HistLimit
    BY RoomFeedAssumption
  <2> QED BY <2>1, TwiceInit DEF Init, Prefixes
<1>2. Inv /\ TwiceInv /\ Prefixes /\ [Next]_vars => TwiceInv' /\ Prefixes'
  BY NextTwice, NextInv, PrefixesKept
<1>3. Init => Room!Init
  <2> SUFFICES ASSUME Init PROVE Room!Init
    OBVIOUS
  <2>1. \A c \in Conns : Due(c) = {}
    BY DEF Init, Due
  <2> QED BY <2>1 DEF Init, Room!Init
<1>4. Inv /\ TwiceInv /\ Prefixes /\ [Next]_vars => [Room!Next]_(Room!vars)
  <2>1. CASE UNCHANGED vars
    <3>1. \A d \in Conns : Due(d)' = Due(d)
      BY <2>1 DEF vars, Due
    <3> QED BY <2>1, <3>1 DEF vars, Room!vars
  <2> QED BY <2>1, HandlerLog, ClientLog DEF Next, LogInv
<1> QED BY <1>1, <1>2, <1>3, <1>4, InvHolds, PTL DEF Spec, IsRoomLog, Room!Spec

=============================================================================

----------------------------- MODULE RoomsProofs -----------------------------
(***************************************************************************)
(* Theorems about Rooms, for any connections, users, staff and rooms, any  *)
(* number of rooms created and any number of crashes and DatabaseErrors.   *)
(***************************************************************************)
EXTENDS Rooms, TLAPS

\* TypeOK without the history.
Types ==
  /\ ids \in [Rooms -> Nat] /\ made \in Nat
  /\ rows \subseteq Users \X Rooms
  /\ logged \subseteq Conns /\ keyed \subseteq Conns
  /\ mine \in [Conns -> SUBSET Rooms]
  /\ pc \in [Conns -> Labels]
  /\ job \in [Conns -> Job]
  /\ unrestored \subseteq Conns
  /\ mishaps \in Nat

\* What the locals of a handler hold where it uses them: the room, the user and
\* his connection, and the id of a room that was there when it was read.
AtRoom == {"lookup", "kick", "create", "createJoin", "createJoined", "append", "join",
           "joined", "add", "added", "addMemory", "fetch", "remove", "removed",
           "snapshot", "sweep"}
AtUser == {"lookup", "kick", "create", "createJoin", "createJoined", "join", "joined",
           "add", "added", "addMemory", "fetch", "remove", "removed"}
AtConn == {"ban", "kick", "fetch", "remove", "removed"}

Locals ==
  \A c \in Conns :
    /\ pc[c] \in AtRoom => job[c].room \in Rooms
    /\ pc[c] \in AtUser => job[c].who \in Users
    /\ pc[c] \in {"join", "createJoin", "add"} => job[c].id # 0
    /\ pc[c] \in AtConn => job[c].at \in Conns

Inv == Types /\ Locals /\ RowsHaveRooms /\ SetsAndSessions

USE DEF db, memory

-----------------------------------------------------------------------------

\* The locals of a handler that is at no request.
LEMMA NoJobIsJob == NoJob \in Job
BY DEF NoJob, Job

\* Any one local may be replaced.
LEMMA JobParts ==
  ASSUME NEW j \in Job
  PROVE  /\ \A n \in Nat : [j EXCEPT !.id = n] \in Job
         /\ \A a \in Conns : [j EXCEPT !.at = a] \in Job
         /\ \A R \in SUBSET Rooms : [j EXCEPT !.found = R] \in Job
         /\ \A S \in SUBSET Conns : [j EXCEPT !.todo = S] \in Job
BY DEF Job

\* No room, no row and no connection at first.
LEMMA InitInv == ASSUME Init PROVE Inv
BY NoJobIsJob, RoomsAssumption
DEF Init, Inv, Types, Locals, AtRoom, AtUser, AtConn, RowsHaveRooms, SetsAndSessions, Labels

\* A handler whose step changes neither the database nor what others hold.
LEMMA LocalStep ==
  ASSUME Inv, NEW c \in Conns, NEW j \in Job, NEW l \in Labels,
         pc[c] # "free", l # "free",
         job' = [job EXCEPT ![c] = j], Goto(c, l),
         UNCHANGED <<db, memory, mishaps>>, unrestored' \subseteq Conns,
         l \in AtRoom => j.room \in Rooms,
         l \in AtUser => j.who \in Users,
         l \in {"join", "createJoin", "add"} => j.id # 0,
         l \in AtConn => j.at \in Conns,
         c \in logged \ keyed => l \in {"restore", "restored", "list", "drop"}
  PROVE  Inv'
<1>1. Types'
  BY DEF Inv, Types, Goto
<1>2. Locals'
  BY DEF Inv, Types, Locals, Goto
<1>3. RowsHaveRooms' /\ SetsAndSessions'
  BY DEF Inv, Types, RowsHaveRooms, SetsAndSessions, Goto
<1> QED BY <1>1, <1>2, <1>3 DEF Inv

\* A handler that gives up after a database call that failed.
LEMMA FailInv ==
  ASSUME Inv, NEW c \in Conns, DbFails(c), mishaps' \in Nat,
         pc[c] \in {"restore", "auth", "lookup", "join", "create", "createJoin", "add",
                    "fetch", "remove"}
  PROVE  Inv'
<1> DEFINE j == IF pc[c] \in {"create", "createJoin"} THEN job[c] ELSE NoJob
<1>1. j \in Job /\ (pc[c] \in {"create", "createJoin"} => j.room \in Rooms)
  BY NoJobIsJob DEF Inv, Types, Locals, AtRoom
<1>2. job' = [job EXCEPT ![c] = j]
  BY DEF DbFails
<1>3. /\ pc' = [pc EXCEPT ![c] = AfterError(pc[c])]
      /\ UNCHANGED <<db, memory>>
      /\ unrestored' \subseteq Conns
  BY DEF DbFails, Goto, Inv, Types
<1>4. /\ AfterError(pc[c]) \in {"list", "append", "drop", "ready"}
      /\ AfterError(pc[c]) = "append" => pc[c] \in {"create", "createJoin"}
      /\ AfterError(pc[c]) = "ready" => pc[c] # "restore"
  BY DEF AfterError
<1> HIDE DEF j
<1>5. Types'
  BY <1>1, <1>2, <1>3, <1>4 DEF Inv, Types, Labels
<1>6. Locals'
  BY <1>1, <1>2, <1>3, <1>4 DEF Inv, Types, Locals, AtRoom, AtUser, AtConn
<1>7. RowsHaveRooms' /\ SetsAndSessions'
  BY <1>3, <1>4 DEF Inv, Types, RowsHaveRooms, SetsAndSessions
<1> QED BY <1>5, <1>6, <1>7 DEF Inv

-----------------------------------------------------------------------------

\* The steps that insert a membership: the id read is that of a room that is there.
LEMMA InsertInv ==
  ASSUME Inv, NEW c \in Conns, NEW l \in {"joined", "createJoined", "added"},
         pc[c] \in {"join", "createJoin", "add"}, SameRoom(c), InsertRow(c), Goto(c, l),
         UNCHANGED <<ids, made, memory, job, unrestored, mishaps>>
  PROVE  Inv'
<1>1. /\ job[c].who \in Users /\ job[c].room \in Rooms
      /\ ids[job[c].room] # 0
  BY DEF Inv, Locals, AtRoom, AtUser, AtConn, SameRoom
<1>2. Types' /\ RowsHaveRooms'
  BY <1>1 DEF Inv, Types, RowsHaveRooms, InsertRow, Goto, Labels
<1>3. Locals' /\ SetsAndSessions'
  BY <1>1 DEF Inv, Types, Locals, AtRoom, AtUser, AtConn, SetsAndSessions, Goto
<1> QED BY <1>2, <1>3 DEF Inv

\* The steps that change sets of rooms, but not which connections have one.
LEMMA MemoryInv ==
  ASSUME Inv, NEW c \in Conns, NEW l \in {"ready", "drop"},
         pc[c] \in Labels \ {"free", "restore", "restored", "list", "drop"},
         mine' \in [Conns -> SUBSET Rooms], Finish(c, l),
         UNCHANGED <<db, logged, keyed, unrestored, mishaps>>
  PROVE  Inv'
<1>1. Types'
  BY NoJobIsJob DEF Inv, Types, Finish, Goto, Labels
<1>2. Locals'
  BY DEF Inv, Types, Locals, AtRoom, AtUser, AtConn, Finish, Goto
<1>3. RowsHaveRooms' /\ SetsAndSessions'
  BY DEF Inv, Types, RowsHaveRooms, SetsAndSessions, Finish, Goto
<1> QED BY <1>1, <1>2, <1>3 DEF Inv
-----------------------------------------------------------------------------

\* No step of a handler at work breaks the invariant.
LEMMA HandlerInv ==
  ASSUME Inv, NEW c \in Conns, Handler(c) PROVE Inv'
<1> USE DEF Goto
<1>1. job[c] \in Job
  BY DEF Inv, Types
<1>2. CASE RestoreRead(c)
  <2>1. Persisted(Owner[c]) \in SUBSET Rooms
    BY DEF Persisted
  <2> QED BY <1>1, <1>2, <2>1, JobParts, LocalStep
          DEF RestoreRead, AtRoom, AtUser, AtConn, Labels, Inv, Types
<1>3. CASE RestoreSet(c)
  <2>1. RestoredSet(c) \subseteq Rooms
    BY <1>1 DEF RestoredSet, Job
  <2>2. Types'
    BY <1>3, <2>1, NoJobIsJob DEF RestoreSet, Finish, Inv, Types, Labels
  <2> QED BY <1>3, <2>2 DEF RestoreSet, Finish, Inv, Types, Locals, AtRoom, AtUser, AtConn,
                            RowsHaveRooms, SetsAndSessions
<1>4. CASE List(c)
  <2> DEFINE l == IF c \in keyed THEN "ready" ELSE "drop"
  <2>1. Goto(c, l) /\ UNCHANGED <<db, memory, job, unrestored, mishaps>> /\ pc[c] = "list"
    BY <1>4 DEF List
  <2>2. l \in {"ready", "drop"} /\ (l = "ready" => c \in keyed)
    OBVIOUS
  <2> HIDE DEF l
  <2> QED BY <2>1, <2>2 DEF Inv, Types, Labels, Locals, AtRoom, AtUser, AtConn, RowsHaveRooms,
                            SetsAndSessions
<1>5. CASE JoinDb(c)
  <2> DEFINE l == IF pc[c] = "join" THEN "joined" ELSE "createJoined"
  <2>1. Goto(c, l) /\ l \in {"joined", "createJoined", "added"}
    BY <1>5 DEF JoinDb
  <2> HIDE DEF l
  <2> QED BY <1>5, <2>1, InsertInv DEF JoinDb
<1>6. CASE JoinMemory(c)
  <2>1. job[c].room \in Rooms
    BY <1>6 DEF JoinMemory, Inv, Locals, AtRoom
  <2>2. mine' \in [Conns -> SUBSET Rooms]
    BY <1>6, <2>1 DEF JoinMemory, Inv, Types
  <2>3. CASE Finish(c, "ready") \/ Finish(c, "drop")
    BY <1>6, <2>2, <2>3, MemoryInv DEF JoinMemory, Labels
  <2>4. CASE c \in keyed /\ Goto(c, "append") /\ UNCHANGED job
    BY <1>6, <2>1, <2>2, <2>4 DEF JoinMemory, Inv, Types, Labels, Locals, AtRoom, AtUser, AtConn,
                                  RowsHaveRooms, SetsAndSessions
  <2> QED BY <1>6, <2>3, <2>4 DEF JoinMemory
<1>7. CASE JoinFetch(c)
  <2>1. /\ job[c].room \in Rooms /\ job[c].who \in Users
        /\ c \notin logged \ keyed
    BY <1>7 DEF JoinFetch, Inv, Locals, AtRoom, AtUser, SetsAndSessions
  <2>2. CASE ids[job[c].room] # 0
    <3> DEFINE j == [job[c] EXCEPT !.id = ids[job[c].room]]
               l == IF pc[c] = "lookup" THEN "join" ELSE "createJoin"
    <3>1. j \in Job
      BY <1>1, <2>1, JobParts DEF Inv, Types
    <3>2. j.room = job[c].room /\ j.who = job[c].who /\ j.id # 0
      BY <1>1, <2>2 DEF Job
    <3>3. job' = [job EXCEPT ![c] = j] /\ Goto(c, l) /\ l \in {"join", "createJoin"}
      BY <1>7, <2>2 DEF JoinFetch
    <3> HIDE DEF j, l
    <3> QED BY <1>7, <2>1, <3>1, <3>2, <3>3, LocalStep
            DEF JoinFetch, Labels, AtRoom, AtUser, AtConn, Inv, Types
  <2>3. CASE pc[c] = "create" /\ Goto(c, "append") /\ UNCHANGED job
    BY <1>7, <2>1, <2>3 DEF JoinFetch, Inv, Types, Labels, Locals, AtRoom, AtUser, AtConn,
                            RowsHaveRooms, SetsAndSessions
  <2>4. CASE Finish(c, "ready")
    BY <1>7, <2>4, MemoryInv DEF JoinFetch, Labels, Inv, Types
  <2> QED BY <1>7, <2>2, <2>3, <2>4 DEF JoinFetch
<1>8. CASE Append(c)
  <2>1. job[c].room \in Rooms
    BY <1>8 DEF Append, Inv, Locals, AtRoom
  <2>2. mine' \in [Conns -> SUBSET Rooms]
    BY <1>8, <2>1 DEF Append, Inv, Types
  <2>3. Finish(c, "ready") \/ Finish(c, "drop")
    BY <1>8 DEF Append
  <2> QED BY <1>8, <2>2, <2>3, MemoryInv DEF Append, Labels
<1>9. CASE AddDb(c) BY <1>9, InsertInv DEF AddDb
<1>10. CASE AddFind(c)
  <2>1. /\ job[c].room \in Rooms /\ job[c].who \in Users
        /\ c \notin logged \ keyed
    BY <1>10 DEF AddFind, Inv, Locals, AtRoom, AtUser, AtConn, SetsAndSessions
  <2>2. ASSUME NEW d \in Sessions(job[c].who),
               job' = [job EXCEPT ![c].at = d], Goto(c, "addMemory")
        PROVE  Inv'
    <3> DEFINE j == [job[c] EXCEPT !.at = d]
    <3>1. j \in Job
      BY <1>1, JobParts DEF Sessions, Inv, Types
    <3>2. j.room = job[c].room /\ j.who = job[c].who
      BY <1>1 DEF Job
    <3>3. job' = [job EXCEPT ![c] = j]
      BY <2>2
    <3> HIDE DEF j
    <3> QED BY <1>10, <2>1, <2>2, <3>1, <3>2, <3>3, LocalStep
            DEF AddFind, Labels, AtRoom, AtUser, AtConn, Inv, Types
  <2>3. CASE Finish(c, "ready")
    BY <1>10, <2>3, MemoryInv DEF AddFind, Labels, Inv, Types
  <2> QED BY <1>10, <2>2, <2>3 DEF AddFind
<1>11. CASE AddMemory(c)
  <2>1. job[c].room \in Rooms
    BY <1>11 DEF AddMemory, Inv, Locals, AtRoom
  <2>2. mine' \in [Conns -> SUBSET Rooms]
    BY <1>11, <2>1 DEF AddMemory, Inv, Types
  <2> QED BY <1>11, <2>2, MemoryInv DEF AddMemory, Labels
<1>12. CASE RemoveFetch(c)
  <2>1. /\ job[c].room \in Rooms /\ job[c].who \in Users /\ job[c].at \in Conns
        /\ c \notin logged \ keyed
    BY <1>12 DEF RemoveFetch, Inv, Locals, AtRoom, AtUser, AtConn, SetsAndSessions
  <2> DEFINE j == [job[c] EXCEPT !.id = ids[job[c].room]]
  <2>2. j \in Job
    BY <1>1, <2>1, JobParts DEF Inv, Types
  <2>3. j.room = job[c].room /\ j.who = job[c].who /\ j.at = job[c].at
    BY <1>1 DEF Job
  <2>4. job' = [job EXCEPT ![c] = j]
    BY <1>12 DEF RemoveFetch
  <2> HIDE DEF j
  <2> QED BY <1>12, <2>1, <2>2, <2>3, <2>4, LocalStep
          DEF RemoveFetch, Labels, AtRoom, AtUser, AtConn, Inv, Types
<1>13. CASE RemoveDb(c)
  <2>1. rows' \subseteq rows
    BY <1>13 DEF RemoveDb
  <2>2. Types' /\ RowsHaveRooms'
    BY <1>13, <2>1 DEF RemoveDb, Inv, Types, RowsHaveRooms, Labels
  <2> QED BY <1>13, <2>2 DEF RemoveDb, Inv, Types, Locals, AtRoom, AtUser, AtConn, SetsAndSessions
<1>14. CASE RemoveMemory(c)
  <2>1. job[c].at \in Conns
    BY <1>14 DEF RemoveMemory, Inv, Locals, AtConn
  <2>2. mine' \in [Conns -> SUBSET Rooms]
    BY <1>14, <2>1 DEF RemoveMemory, AfterRemove, Inv, Types
  <2> QED BY <1>14, <2>2, MemoryInv DEF RemoveMemory, Labels
<1>15. CASE JoinRefused(c)
  BY <1>15, FailInv DEF JoinRefused, Inv, Types
<1>16. CASE DbError(c)
  BY <1>16, FailInv DEF DbError, Inv, Types
<1>17. CASE DeleteSnapshot(c)
  <2>1. job[c].room \in Rooms /\ c \notin logged \ keyed
    BY <1>17 DEF DeleteSnapshot, Inv, Locals, AtRoom, SetsAndSessions
  <2> DEFINE j == [job[c] EXCEPT !.todo = logged]
  <2>2. j \in Job
    BY <1>1, JobParts DEF Inv, Types
  <2>3. j.room = job[c].room
    BY <1>1 DEF Job
  <2>4. job' = [job EXCEPT ![c] = j]
    BY <1>17 DEF DeleteSnapshot
  <2> HIDE DEF j
  <2> QED BY <1>17, <2>1, <2>2, <2>3, <2>4, LocalStep
          DEF DeleteSnapshot, Labels, AtRoom, AtUser, AtConn, Inv, Types
<1>18. ASSUME NEW d \in Conns, Sweep(c, d) PROVE Inv'
  <2>1. job[c].room \in Rooms
    BY <1>18 DEF Sweep, Inv, Locals, AtRoom
  <2>2. mine' \in [Conns -> SUBSET Rooms]
    BY <1>18, <2>1 DEF Sweep, Inv, Types
  <2>3. CASE job' = [job EXCEPT ![c].todo = @ \ {d}] /\ UNCHANGED pc
    <3> DEFINE j == [job[c] EXCEPT !.todo = job[c].todo \ {d}]
    <3>1. j \in Job
      BY <1>1, JobParts DEF Job
    <3>2. j.room = job[c].room
      BY <1>1 DEF Job
    <3>3. job' = [job EXCEPT ![c] = j]
      BY <2>3
    <3> HIDE DEF j
    <3>4. Types'
      BY <1>18, <2>2, <2>3, <3>1, <3>3 DEF Sweep, Inv, Types
    <3>5. Locals'
      BY <1>18, <2>1, <2>3, <3>2, <3>3 DEF Sweep, Inv, Types, Locals, AtRoom, AtUser, AtConn
    <3> QED BY <1>18, <2>3, <3>4, <3>5 DEF Sweep, Inv, RowsHaveRooms, SetsAndSessions
  <2>4. CASE Finish(c, "drop")
    BY <1>18, <2>2, <2>4, MemoryInv DEF Sweep, Labels
  <2> QED BY <1>18, <2>3, <2>4 DEF Sweep
<1>19. CASE SweepDone(c)
  BY <1>19, MemoryInv DEF SweepDone, Labels, Inv, Types
<1>20. CASE BanPop(c)
  <2>1. job[c].at \in Conns
    BY <1>20 DEF BanPop, Inv, Locals, AtConn
  <2>2. Types'
    BY <1>20, <2>1, NoJobIsJob DEF BanPop, Discard, Finish, Inv, Types, Labels
  <2> QED BY <1>20, <2>1, <2>2 DEF BanPop, Discard, Finish, Inv, Types, Locals, AtRoom, AtUser,
                                   AtConn, RowsHaveRooms, SetsAndSessions
<1>21. CASE KickMember(c)
  <2>1. CASE Goto(c, "fetch") /\ UNCHANGED job
    BY <1>21, <2>1 DEF KickMember, Inv, Types, Labels, Locals, AtRoom, AtUser, AtConn,
                       RowsHaveRooms, SetsAndSessions
  <2>2. CASE Finish(c, "ready")
    BY <1>21, <2>2, MemoryInv DEF KickMember, Labels, Inv, Types
  <2> QED BY <1>21, <2>1, <2>2 DEF KickMember
<1> QED BY <1>2, <1>3, <1>4, <1>5, <1>6, <1>7, <1>8, <1>9, <1>10, <1>11, <1>12, <1>13,
           <1>14, <1>15, <1>16, <1>17, <1>18, <1>19, <1>20, <1>21 DEF Handler

\* A handler that starts on a request with new locals.
LEMMA RequestInv ==
  ASSUME Inv, NEW c \in Conns, pc[c] = "auth", NEW j \in Job,
         NEW l \in {"lookup", "add", "ban", "kick", "fetch"},
         l # "ban" => j.who \in Users /\ j.room \in Rooms,
         l = "add" => j.id # 0, l \in {"ban", "kick", "fetch"} => j.at \in Conns,
         job' = [job EXCEPT ![c] = j], Goto(c, l), UNCHANGED <<db, memory, unrestored, mishaps>>
  PROVE  Inv'
<1>1. c \notin logged \ keyed
  BY DEF Inv, SetsAndSessions
<1> QED BY <1>1, LocalStep DEF Labels, AtRoom, AtUser, AtConn, Inv, Types

\* Nor does the start of a request.
LEMMA ClientInv ==
  ASSUME Inv, NEW c \in Conns, Client(c) PROVE Inv'
<1> USE RoomsAssumption
<1>1. CASE Accept(c)
  BY <1>1 DEF Accept, Goto, Inv, Types, Labels, Locals, AtRoom, AtUser, AtConn, RowsHaveRooms,
              SetsAndSessions
<1>2. CASE Drop(c)
  <2>1. Types'
    BY <1>2, NoJobIsJob DEF Drop, Discard, Finish, Goto, Inv, Types, Labels
  <2> QED BY <1>2, <2>1 DEF Drop, Discard, Finish, Goto, Inv, Types, Locals, AtRoom, AtUser, AtConn,
                            RowsHaveRooms, SetsAndSessions
<1>3. CASE Login(c)
  BY <1>3 DEF Login, Goto, Inv, Types, Labels, Locals, AtRoom, AtUser, AtConn, RowsHaveRooms,
              SetsAndSessions
<1>4. CASE Logout(c)
  BY <1>4 DEF Logout, Goto, Inv, Types, Labels, Locals, AtRoom, AtUser, AtConn, RowsHaveRooms,
              SetsAndSessions
<1>5. ASSUME NEW d \in Conns, BanFind(c, d)
      PROVE  Inv'
  <2> DEFINE j == [NoJob EXCEPT !.at = d]
  <2>1. j \in Job /\ j.at = d
    BY <1>5 DEF NoJob, Job, BanFind, Inv, Types
  <2>2. job' = [job EXCEPT ![c] = j] /\ Goto(c, "ban")
    BY <1>5 DEF BanFind
  <2> HIDE DEF j
  <2>3. pc[c] = "auth" /\ UNCHANGED <<db, memory, unrestored, mishaps>>
    BY <1>5, <2>1 DEF BanFind
  <2> QED BY <2>1, <2>2, <2>3, RequestInv
<1>6. ASSUME NEW r \in Rooms, Join(c, r)
      PROVE  Inv'
  <2> DEFINE j == [NoJob EXCEPT !.who = Owner[c], !.room = r]
  <2>1. j \in Job /\ j.who = Owner[c] /\ j.room = r
    BY <1>6 DEF NoJob, Job, Join, Inv, Types
  <2>2. job' = [job EXCEPT ![c] = j] /\ Goto(c, "lookup")
    BY <1>6 DEF Join
  <2> HIDE DEF j
  <2>3. pc[c] = "auth" /\ UNCHANGED <<db, memory, unrestored, mishaps>>
    BY <1>6, <2>1 DEF Join
  <2> QED BY <2>1, <2>2, <2>3, RequestInv
<1>7. ASSUME NEW r \in Rooms, NEW u \in Users, Add(c, u, r)
      PROVE  Inv'
  <2> DEFINE j == [NoJob EXCEPT !.who = u, !.room = r, !.id = ids[r]]
  <2>1. j \in Job /\ j.who = u /\ j.room = r /\ j.id = ids[r]
    BY <1>7 DEF NoJob, Job, Add, Inv, Types
  <2>2. job' = [job EXCEPT ![c] = j] /\ Goto(c, "add")
    BY <1>7 DEF Add
  <2> HIDE DEF j
  <2>3. pc[c] = "auth" /\ j.id # 0 /\ UNCHANGED <<db, memory, unrestored, mishaps>>
    BY <1>7, <2>1 DEF Add
  <2> QED BY <2>1, <2>2, <2>3, RequestInv
<1>8. ASSUME NEW r \in Rooms, NEW d \in Conns, NEW l \in {"fetch", "kick"}, Remove(c, d, r, l)
      PROVE  Inv'
  <2> DEFINE j == [NoJob EXCEPT !.who = Owner[d], !.room = r, !.at = d]
  <2>1. j \in Job /\ j.who = Owner[d] /\ j.room = r /\ j.at = d
    BY <1>8 DEF NoJob, Job, Remove, Inv, Types
  <2>2. job' = [job EXCEPT ![c] = j] /\ Goto(c, l)
    BY <1>8 DEF Remove
  <2> HIDE DEF j
  <2>3. pc[c] = "auth" /\ UNCHANGED <<db, memory, unrestored, mishaps>>
    BY <1>8, <2>1 DEF Remove
  <2> QED BY <2>1, <2>2, <2>3, RequestInv
<1>9. ASSUME NEW r \in Rooms, Create(c, r) PROVE Inv'
  <2> DEFINE j == [NoJob EXCEPT !.who = Owner[c], !.room = r]
  <2>1. j \in Job /\ j.who = Owner[c] /\ j.room = r
    BY DEF NoJob, Job
  <2>2. job' = [job EXCEPT ![c] = j]
    BY <1>9 DEF Create
  <2> HIDE DEF j
  <2>3. Types'
    BY <1>9, <2>1, <2>2 DEF Create, Goto, Inv, Types, Labels
  <2>4. Locals'
    BY <1>9, <2>1, <2>2 DEF Create, Goto, Inv, Types, Locals, AtRoom, AtUser, AtConn
  <2>5. RowsHaveRooms' /\ SetsAndSessions'
    BY <1>9 DEF Create, Goto, Inv, Types, RowsHaveRooms, SetsAndSessions
  <2> QED BY <2>3, <2>4, <2>5 DEF Inv
<1>10. ASSUME NEW r \in Rooms, Delete(c, r) PROVE Inv'
  <2> DEFINE j == [NoJob EXCEPT !.room = r]
  <2>1. j \in Job /\ j.room = r
    BY DEF NoJob, Job
  <2>2. job' = [job EXCEPT ![c] = j]
    BY <1>10 DEF Delete
  <2> HIDE DEF j
  <2>3. Types'
    BY <1>10, <2>1, <2>2 DEF Delete, Goto, Inv, Types, Labels
  <2>4. Locals'
    BY <1>10, <2>1, <2>2 DEF Delete, Goto, Inv, Types, Locals, AtRoom, AtUser, AtConn
  <2>5. RowsHaveRooms'
    BY <1>10 DEF Delete, Inv, Types, RowsHaveRooms
  <2>6. SetsAndSessions'
    BY <1>10 DEF Delete, Goto, Inv, Types, SetsAndSessions
  <2> QED BY <2>3, <2>4, <2>5, <2>6 DEF Inv
<1>11. CASE Authorize(c)
  BY <1>11 DEF Authorize, Goto, Inv, Types, Labels, Locals, AtRoom, AtUser, AtConn, RowsHaveRooms,
               SetsAndSessions
<1>12. CASE Refuse(c)
  BY <1>12 DEF Refuse, Goto, Inv, Types, Labels, Locals, AtRoom, AtUser, AtConn, RowsHaveRooms,
               SetsAndSessions
<1> QED BY <1>1, <1>2, <1>3, <1>4, <1>5, <1>6, <1>7, <1>8, <1>9, <1>10, <1>11, <1>12
        DEF Client, Leave, Kick

\* After a crash there are the tables only.
LEMMA CrashInv == ASSUME Inv, Crash PROVE Inv'
BY NoJobIsJob DEF Crash, Inv, Types, Labels, Locals, AtRoom, AtUser, AtConn, RowsHaveRooms, SetsAndSessions

\* The invariant is inductive; the history has no part in it.
LEMMA StepInv == ASSUME Inv, [Next]_vars PROVE Inv'
<1>1. CASE Step
  BY <1>1, HandlerInv, ClientInv, CrashInv DEF Step
<1>2. CASE UNCHANGED vars
  BY <1>2 DEF vars, Inv, Types, Locals, RowsHaveRooms, SetsAndSessions
<1> QED BY <1>1, <1>2 DEF Next

\* It holds in every reachable state.
LEMMA InvHolds == Spec => []Inv
<1> QED BY InitInv, StepInv, PTL DEF Spec

-----------------------------------------------------------------------------

\* The history has the types that TypeOK gives it.
HistoryOK == claim \in [Pairs -> {"in", "out", "open"}] /\ raced \subseteq Pairs

LEMMA HistoryInv == ASSUME HistoryOK, [Next]_vars PROVE HistoryOK'
<1>1. CASE Track
  <2> DEFINE After(p) == IF p \in raced' \/ \E c \in Workers(p) : pc'[c] \in {"drop", "free"}
                           THEN "open"
                         ELSE IF p \in rows' \ rows THEN "in"
                         ELSE IF p \in rows \ rows' THEN "out" ELSE claim[p]
  <2>1. claim' = [p \in Pairs |-> After(p)]
    BY <1>1 DEF Track
  <2>2. \A p \in Pairs : After(p) \in {"in", "out", "open"}
    BY DEF HistoryOK
  <2>3. raced' \subseteq Pairs
    BY <1>1 DEF Track
  <2> HIDE DEF After
  <2> QED BY <2>1, <2>2, <2>3 DEF HistoryOK
<1>2. CASE UNCHANGED vars
  BY <1>2 DEF vars, history, HistoryOK, Pairs, Plain
<1> QED BY <1>1, <1>2 DEF Next

\* The tables, the memory and the locals of the handlers of socket_server.py keep
\* their types, whatever interleaving, mishap or crash.
THEOREM TypeCorrect == Spec => []TypeOK
<1>1. Init => HistoryOK
  BY DEF Init, HistoryOK
<1>2. Inv /\ HistoryOK => TypeOK
  BY DEF Inv, Types, HistoryOK, TypeOK
<1> QED BY <1>1, <1>2, HistoryInv, InvHolds, PTL DEF Spec

\* Only a login under way, or a handler about to end, leaves a session without its
\* set in self.client_rooms, and a connection that is gone leaves neither.
THEOREM SetsFollowSessions == Spec => []SetsAndSessions
<1>1. Inv => SetsAndSessions
  BY DEF Inv
<1> QED BY <1>1, InvHolds, PTL

\* No row of room_members names a room that was deleted: the id that a handler read
\* before is compared when it inserts.
THEOREM MembersHaveRooms == Spec => []RowsHaveRooms
<1>1. Inv => RowsHaveRooms
  BY DEF Inv
<1> QED BY <1>1, InvHolds, PTL
-----------------------------------------------------------------------------
(* That memberships are durable *)

Acts(c) == Handler(c) \/ Client(c)

\* Where the steps of a handler begin and end.
LEMMA Pcs ==
  ASSUME Inv, NEW c \in Conns
  PROVE  /\ Login(c) => pc[c] = "ready" /\ pc'[c] = "restore"
         /\ RestoreRead(c) => pc[c] = "restore" /\ pc'[c] = "restored"
         /\ RestoreSet(c) => pc[c] = "restored" /\ pc'[c] = "list"
         /\ List(c) => pc[c] = "list" /\ pc'[c] \in {"ready", "drop"}
         /\ BanPop(c) => pc[c] = "ban" /\ pc'[c] = "ready"
         /\ JoinFetch(c) => \/ pc[c] = "lookup" /\ pc'[c] \in {"join", "ready"}
                            \/ pc[c] = "create" /\ pc'[c] \in {"createJoin", "append"}
         /\ JoinDb(c) => \/ pc[c] = "join" /\ pc'[c] = "joined"
                         \/ pc[c] = "createJoin" /\ pc'[c] = "createJoined"
         /\ JoinMemory(c) => \/ pc[c] = "joined" /\ pc'[c] \in {"ready", "drop"}
                             \/ pc[c] = "createJoined" /\ pc'[c] \in {"append", "drop"}
         /\ Append(c) => pc[c] = "append" /\ pc'[c] \in {"ready", "drop"}
         /\ AddDb(c) => pc[c] = "add" /\ pc'[c] = "added"
         /\ AddFind(c) => pc[c] = "added" /\ pc'[c] \in {"addMemory", "ready"}
         /\ AddMemory(c) => pc[c] = "addMemory" /\ pc'[c] = "ready"
         /\ KickMember(c) => pc[c] = "kick" /\ pc'[c] \in {"fetch", "ready"}
         /\ RemoveFetch(c) => pc[c] = "fetch" /\ pc'[c] = "remove"
         /\ RemoveDb(c) => pc[c] = "remove" /\ pc'[c] = "removed"
         /\ RemoveMemory(c) => pc[c] = "removed" /\ pc'[c] \in {"ready", "drop"}
         /\ DeleteSnapshot(c) => pc[c] = "snapshot" /\ pc'[c] = "sweep"
         /\ \A d \in Conns : Sweep(c, d) => pc[c] = "sweep" /\ pc'[c] \in {"sweep", "drop"}
         /\ SweepDone(c) => pc[c] = "sweep" /\ pc'[c] = "ready"
         /\ JoinRefused(c) => /\ pc[c] \in {"join", "createJoin", "add"}
                              /\ pc'[c] \in {"append", "ready"}
         /\ DbError(c) => /\ pc[c] \in {"restore", "auth", "lookup", "join", "create",
                                        "createJoin", "add", "fetch", "remove"}
                          /\ pc'[c] = AfterError(pc[c])
         /\ Accept(c) => pc[c] = "free" /\ pc'[c] = "ready"
         /\ Drop(c) => pc[c] \in {"ready", "drop"} /\ pc'[c] = "free"
         /\ Authorize(c) => pc[c] = "ready" /\ pc'[c] = "auth"
         /\ Refuse(c) => pc[c] = "auth" /\ pc'[c] = "ready"
         /\ Logout(c) => pc[c] = "auth" /\ pc'[c] = "ready"
         /\ \A d \in Conns : BanFind(c, d) => pc[c] = "auth" /\ pc'[c] = "ban"
         /\ \A r \in Rooms : Join(c, r) => pc[c] = "auth" /\ pc'[c] = "lookup"
         /\ \A r \in Rooms : Create(c, r) => pc[c] = "auth" /\ pc'[c] = "create"
         /\ \A r \in Rooms : Delete(c, r) => pc[c] = "auth" /\ pc'[c] = "snapshot"
         /\ \A r \in Rooms : Leave(c, r) => pc[c] = "auth" /\ pc'[c] = "fetch"
         /\ \A d \in Conns, r \in Rooms : Kick(c, d, r) => pc[c] = "auth" /\ pc'[c] = "kick"
         /\ \A u \in Users, r \in Rooms : Add(c, u, r) => pc[c] = "auth" /\ pc'[c] = "add"
<1>1. pc \in [Conns -> Labels]
  BY DEF Inv, Types
<1> USE <1>1 DEF Goto, Finish
<1>2. /\ Login(c) => pc[c] = "ready" /\ pc'[c] = "restore"
      /\ RestoreRead(c) => pc[c] = "restore" /\ pc'[c] = "restored"
      /\ RestoreSet(c) => pc[c] = "restored" /\ pc'[c] = "list"
      /\ List(c) => pc[c] = "list" /\ pc'[c] \in {"ready", "drop"}
      /\ BanPop(c) => pc[c] = "ban" /\ pc'[c] = "ready"
  BY DEF Login, RestoreRead, RestoreSet, List, BanPop
<1>3. JoinFetch(c) => \/ pc[c] = "lookup" /\ pc'[c] \in {"join", "ready"}
                      \/ pc[c] = "create" /\ pc'[c] \in {"createJoin", "append"}
  BY DEF JoinFetch
<1>4. JoinDb(c) => \/ pc[c] = "join" /\ pc'[c] = "joined"
                   \/ pc[c] = "createJoin" /\ pc'[c] = "createJoined"
  BY DEF JoinDb
<1>5. JoinMemory(c) => \/ pc[c] = "joined" /\ pc'[c] \in {"ready", "drop"}
                       \/ pc[c] = "createJoined" /\ pc'[c] \in {"append", "drop"}
  BY DEF JoinMemory
<1>6. /\ Append(c) => pc[c] = "append" /\ pc'[c] \in {"ready", "drop"}
      /\ AddDb(c) => pc[c] = "add" /\ pc'[c] = "added"
      /\ AddFind(c) => pc[c] = "added" /\ pc'[c] \in {"addMemory", "ready"}
      /\ AddMemory(c) => pc[c] = "addMemory" /\ pc'[c] = "ready"
  BY DEF Append, AddDb, AddFind, AddMemory
<1>7. /\ KickMember(c) => pc[c] = "kick" /\ pc'[c] \in {"fetch", "ready"}
      /\ RemoveFetch(c) => pc[c] = "fetch" /\ pc'[c] = "remove"
      /\ RemoveDb(c) => pc[c] = "remove" /\ pc'[c] = "removed"
      /\ RemoveMemory(c) => pc[c] = "removed" /\ pc'[c] \in {"ready", "drop"}
  BY DEF KickMember, RemoveFetch, RemoveDb, RemoveMemory
<1>8. /\ DeleteSnapshot(c) => pc[c] = "snapshot" /\ pc'[c] = "sweep"
      /\ \A d \in Conns : Sweep(c, d) => pc[c] = "sweep" /\ pc'[c] \in {"sweep", "drop"}
      /\ SweepDone(c) => pc[c] = "sweep" /\ pc'[c] = "ready"
  BY DEF DeleteSnapshot, Sweep, SweepDone
<1>9. JoinRefused(c) => /\ pc[c] \in {"join", "createJoin", "add"}
                        /\ pc'[c] \in {"append", "ready"}
  BY DEF JoinRefused, DbFails, AfterError
<1>10. DbError(c) => /\ pc[c] \in {"restore", "auth", "lookup", "join", "create",
                                   "createJoin", "add", "fetch", "remove"}
                     /\ pc'[c] = AfterError(pc[c])
  BY DEF DbError, DbFails
<1>11. /\ Accept(c) => pc[c] = "free" /\ pc'[c] = "ready"
       /\ Drop(c) => pc[c] \in {"ready", "drop"} /\ pc'[c] = "free"
       /\ Authorize(c) => pc[c] = "ready" /\ pc'[c] = "auth"
       /\ Refuse(c) => pc[c] = "auth" /\ pc'[c] = "ready"
       /\ Logout(c) => pc[c] = "auth" /\ pc'[c] = "ready"
  BY DEF Accept, Drop, Authorize, Refuse, Logout
<1>12. \A l \in Labels : Goto(c, l) => pc'[c] = l
  OBVIOUS
<1> DEFINE Starts(l) == pc[c] = "auth" /\ Goto(c, l)
<1>13. ASSUME NEW d \in Conns, BanFind(c, d) PROVE Starts("ban")
  BY <1>13 DEF BanFind
<1>14. ASSUME NEW r \in Rooms, Join(c, r) PROVE Starts("lookup")
  BY <1>14 DEF Join
<1>15. ASSUME NEW r \in Rooms, Create(c, r) PROVE Starts("create")
  BY <1>15 DEF Create
<1>16. ASSUME NEW r \in Rooms, Delete(c, r) PROVE Starts("snapshot")
  BY <1>16 DEF Delete
<1>17. ASSUME NEW r \in Rooms, Leave(c, r) PROVE Starts("fetch")
  BY <1>17 DEF Leave, Remove
<1>18. ASSUME NEW d \in Conns, NEW r \in Rooms, Kick(c, d, r) PROVE Starts("kick")
  BY <1>18 DEF Kick, Remove
<1>19. ASSUME NEW u \in Users, NEW r \in Rooms, Add(c, u, r) PROVE Starts("add")
  BY <1>19 DEF Add
<1> QED BY <1>2, <1>3, <1>4, <1>5, <1>6, <1>7, <1>8, <1>9, <1>10, <1>11, <1>12, <1>13,
           <1>14, <1>15, <1>16, <1>17, <1>18, <1>19 DEF Labels

\* Which step brings a handler to a point ...
Comes(c) ==
  /\ pc'[c] = "restore" => Login(c)
  /\ pc'[c] = "restored" => RestoreRead(c)
  /\ pc'[c] = "lookup" => \E r \in Rooms : Join(c, r)
  /\ pc'[c] = "create" => \E r \in Rooms : Create(c, r)
  /\ pc'[c] = "join" => JoinFetch(c) /\ pc[c] = "lookup"
  /\ pc'[c] = "createJoin" => JoinFetch(c) /\ pc[c] = "create"
  /\ pc'[c] = "joined" => JoinDb(c) /\ pc[c] = "join"
  /\ pc'[c] = "createJoined" => JoinDb(c) /\ pc[c] = "createJoin"
  /\ pc'[c] = "added" => AddDb(c)
  /\ pc'[c] = "addMemory" => AddFind(c)
  /\ pc'[c] = "kick" => \E d \in Conns, r \in Rooms : Kick(c, d, r)
  /\ pc'[c] = "fetch" => KickMember(c) \/ \E r \in Rooms : Leave(c, r)
  /\ pc'[c] = "remove" => RemoveFetch(c)
  /\ pc'[c] = "removed" => RemoveDb(c)
  /\ pc'[c] = "snapshot" => \E r \in Rooms : Delete(c, r)
  /\ pc'[c] = "sweep" => DeleteSnapshot(c) \/ \E d \in Conns : Sweep(c, d)

\* ... and which takes it away.
Goes(c) ==
  /\ pc[c] = "restore" => RestoreRead(c) \/ DbError(c)
  /\ pc[c] = "restored" => RestoreSet(c)
  /\ pc[c] = "joined" => JoinMemory(c)
  /\ pc[c] = "added" => AddFind(c)
  /\ pc[c] = "addMemory" => AddMemory(c)
  /\ pc[c] = "kick" => KickMember(c)
  /\ pc[c] = "fetch" => RemoveFetch(c) \/ DbError(c)
  /\ pc[c] = "remove" => RemoveDb(c) \/ DbError(c)
  /\ pc[c] = "removed" => RemoveMemory(c)
  /\ pc[c] = "snapshot" => DeleteSnapshot(c)
  /\ pc[c] = "sweep" => SweepDone(c) \/ \E d \in Conns : Sweep(c, d)

LEMMA ComesAndGoes == ASSUME Inv, NEW c \in Conns, Acts(c) PROVE Comes(c) /\ Goes(c)
<1>1. CASE Handler(c)
  <2>1. Comes(c)
    BY <1>1, Pcs DEF Handler, Comes, AfterError
  <2>2. Goes(c)
    BY <1>1, Pcs DEF Handler, Goes
  <2> QED BY <2>1, <2>2
<1>2. CASE Client(c)
  <2>1. Comes(c)
    BY <1>2, Pcs DEF Client, Comes
  <2>2. Goes(c)
    BY <1>2, Pcs DEF Client, Goes
  <2> QED BY <2>1, <2>2
<1> QED BY <1>1, <1>2 DEF Acts

\* A step of one handler leaves the locals of the others alone.
LEMMA Others ==
  ASSUME Inv, NEW c \in Conns, Acts(c), NEW d \in Conns, d # c
  PROVE  pc'[d] = pc[d] /\ job'[d] = job[d]
<1>1. pc \in [Conns -> Labels] /\ job \in [Conns -> Job]
  BY DEF Inv, Types
<1> USE <1>1 DEF Goto, Finish
<1>2. CASE RestoreRead(c) \/ RestoreSet(c) \/ List(c) \/ BanPop(c) \/ JoinFetch(c) \/ JoinDb(c)
  BY <1>2 DEF RestoreRead, RestoreSet, List, BanPop, JoinFetch, JoinDb
<1>3. CASE JoinMemory(c) \/ Append(c) \/ AddDb(c) \/ AddFind(c) \/ AddMemory(c) \/ KickMember(c)
  BY <1>3 DEF JoinMemory, Append, AddDb, AddFind, AddMemory, KickMember
<1>4. CASE RemoveFetch(c) \/ RemoveDb(c) \/ RemoveMemory(c) \/ JoinRefused(c) \/ DbError(c)
  BY <1>4 DEF RemoveFetch, RemoveDb, RemoveMemory, JoinRefused, DbError, DbFails
<1>5. CASE DeleteSnapshot(c) \/ (\E e \in Conns : Sweep(c, e)) \/ SweepDone(c)
  BY <1>5 DEF DeleteSnapshot, Sweep, SweepDone
<1>6. CASE Accept(c) \/ Drop(c) \/ Login(c) \/ Authorize(c) \/ Refuse(c) \/ Logout(c)
  BY <1>6 DEF Accept, Drop, Login, Authorize, Refuse, Logout
<1> DEFINE Starts(l, j) == Goto(c, l) /\ job' = [job EXCEPT ![c] = j]
           Same == pc'[d] = pc[d] /\ job'[d] = job[d]
<1>7. ASSUME NEW l, NEW j, Starts(l, j) PROVE Same
  BY <1>7
<1> HIDE DEF Starts, Same
<1>8. ASSUME NEW e \in Conns, BanFind(c, e) PROVE Same
  <2>1. Starts("ban", [NoJob EXCEPT !.at = e])
    BY <1>8 DEF BanFind, Starts
  <2> QED BY <2>1, <1>7
<1>9. ASSUME NEW e \in Conns, NEW r \in Rooms, NEW l, Remove(c, e, r, l) PROVE Same
  <2>1. Starts(l, [NoJob EXCEPT !.who = Owner[e], !.room = r, !.at = e])
    BY <1>9 DEF Remove, Starts
  <2> QED BY <2>1, <1>7
<1>10. ASSUME NEW r \in Rooms, Join(c, r) PROVE Same
  <2>1. Starts("lookup", [NoJob EXCEPT !.who = Owner[c], !.room = r])
    BY <1>10 DEF Join, Starts
  <2> QED BY <2>1, <1>7
<1>11. ASSUME NEW r \in Rooms, Create(c, r) PROVE Same
  <2>1. Starts("create", [NoJob EXCEPT !.who = Owner[c], !.room = r])
    BY <1>11 DEF Create, Starts
  <2> QED BY <2>1, <1>7
<1>12. ASSUME NEW r \in Rooms, Delete(c, r) PROVE Same
  <2>1. Starts("snapshot", [NoJob EXCEPT !.room = r])
    BY <1>12 DEF Delete, Starts
  <2> QED BY <2>1, <1>7
<1>13. ASSUME NEW u \in Users, NEW r \in Rooms, Add(c, u, r) PROVE Same
  <2>1. Starts("add", [NoJob EXCEPT !.who = u, !.room = r, !.id = ids[r]])
    BY <1>13 DEF Add, Starts
  <2> QED BY <2>1, <1>7
<1> QED BY <1>2, <1>3, <1>4, <1>5, <1>6, <1>8, <1>9, <1>10, <1>11, <1>12, <1>13
        DEF Acts, Handler, Client, Leave, Kick, Same

\* The locals that the steps set.
LEMMA Fields ==
  ASSUME Inv, NEW c \in Conns
  PROVE  /\ RestoreRead(c) => job'[c].found = Persisted(Owner[c])
         /\ \A r \in Rooms : Join(c, r) \/ Create(c, r) =>
              job'[c].who = Owner[c] /\ job'[c].room = r
         /\ JoinFetch(c) /\ pc'[c] \in {"join", "createJoin"} =>
              job'[c].who = job[c].who /\ job'[c].room = job[c].room
         /\ AddFind(c) /\ pc'[c] = "addMemory" =>
              /\ job'[c].at \in Sessions(job[c].who)
              /\ job'[c].who = job[c].who /\ job'[c].room = job[c].room
         /\ \A d \in Conns, r \in Rooms, l \in {"fetch", "kick"} : Remove(c, d, r, l) =>
              job'[c].who = Owner[d] /\ job'[c].room = r /\ job'[c].at = d
         /\ RemoveFetch(c) =>
              /\ job'[c].who = job[c].who /\ job'[c].room = job[c].room
              /\ job'[c].at = job[c].at /\ job'[c].id = ids[job[c].room]
         /\ \A r \in Rooms : Delete(c, r) => job'[c].room = r
         /\ DeleteSnapshot(c) => job'[c].room = job[c].room /\ job'[c].todo = logged
         /\ \A d \in Conns : Sweep(c, d) /\ pc'[c] = "sweep" =>
              job'[c].room = job[c].room /\ job'[c].todo = job[c].todo \ {d}
<1>1. job \in [Conns -> Job] /\ job[c] \in Job /\ pc \in [Conns -> Labels]
  BY DEF Inv, Types
<1>2. RestoreRead(c) => job'[c].found = Persisted(Owner[c])
  BY <1>1 DEF RestoreRead, Job
<1>3. ASSUME NEW r \in Rooms, Join(c, r) \/ Create(c, r)
      PROVE  job'[c].who = Owner[c] /\ job'[c].room = r
  <2>1. job' = [job EXCEPT ![c] = [NoJob EXCEPT !.who = Owner[c], !.room = r]]
    BY <1>3 DEF Join, Create
  <2> QED BY <1>1, <2>1 DEF NoJob
<1>4. ASSUME JoinFetch(c), pc'[c] \in {"join", "createJoin"}
      PROVE  job'[c].who = job[c].who /\ job'[c].room = job[c].room
  <2>1. job' = [job EXCEPT ![c].id = ids[job[c].room]]
    BY <1>1, <1>4 DEF JoinFetch, Finish, Goto
  <2> QED BY <1>1, <2>1 DEF Job
<1>5. ASSUME AddFind(c), pc'[c] = "addMemory"
      PROVE  /\ job'[c].at \in Sessions(job[c].who)
             /\ job'[c].who = job[c].who /\ job'[c].room = job[c].room
  <2>1. PICK d \in Sessions(job[c].who) : job' = [job EXCEPT ![c].at = d]
    BY <1>1, <1>5 DEF AddFind, Finish, Goto
  <2> QED BY <1>1, <2>1 DEF Job
<1>6. ASSUME NEW d \in Conns, NEW r \in Rooms, NEW l \in {"fetch", "kick"}, Remove(c, d, r, l)
      PROVE  job'[c].who = Owner[d] /\ job'[c].room = r /\ job'[c].at = d
  <2>1. job' = [job EXCEPT ![c] = [NoJob EXCEPT !.who = Owner[d], !.room = r, !.at = d]]
    BY <1>6 DEF Remove
  <2> QED BY <1>1, <2>1 DEF NoJob
<1>7. ASSUME RemoveFetch(c)
      PROVE  /\ job'[c].who = job[c].who /\ job'[c].room = job[c].room
             /\ job'[c].at = job[c].at /\ job'[c].id = ids[job[c].room]
  <2>1. job' = [job EXCEPT ![c].id = ids[job[c].room]]
    BY <1>7 DEF RemoveFetch
  <2> QED BY <1>1, <2>1 DEF Job
<1>8. ASSUME NEW r \in Rooms, Delete(c, r) PROVE job'[c].room = r
  <2>1. job' = [job EXCEPT ![c] = [NoJob EXCEPT !.room = r]]
    BY <1>8 DEF Delete
  <2> QED BY <1>1, <2>1 DEF NoJob
<1>9. DeleteSnapshot(c) => job'[c].room = job[c].room /\ job'[c].todo = logged
  BY <1>1 DEF DeleteSnapshot, Job
<1>10. ASSUME NEW d \in Conns, Sweep(c, d), pc'[c] = "sweep"
       PROVE  job'[c].room = job[c].room /\ job'[c].todo = job[c].todo \ {d}
  <2>1. job' = [job EXCEPT ![c].todo = @ \ {d}]
    BY <1>1, <1>10 DEF Sweep, Finish, Goto
  <2> QED BY <1>1, <2>1 DEF Job
<1> QED BY <1>2, <1>3, <1>4, <1>5, <1>6, <1>7, <1>8, <1>9, <1>10

\* Whose row and whose set a handler is about to change; and a connection that was
\* dropped behind its handler's back has neither a session nor a set of rooms, until the
\* handler itself puts one back.
Role(c) ==
  /\ pc[c] \in {"lookup", "join", "joined", "create", "createJoin", "createJoined"} =>
       job[c].who = Owner[c]
  /\ pc[c] \in {"create", "createJoin", "createJoined"} => Owner[c] \in Staff
  /\ pc[c] \in {"addMemory", "kick", "fetch", "remove", "removed"} =>
       job[c].at \in Conns /\ Owner[job[c].at] = job[c].who

AtRest == {"free", "ready", "restore", "restored", "list", "drop"}

OwnSet(c) ==
  /\ pc[c] \notin AtRest /\ c \in keyed => c \in logged
  /\ c \notin keyed => mine[c] = {}
  /\ c \in logged \ keyed => Restoring(c) \/ c \in unrestored

Own == \A c \in Conns : Role(c) /\ OwnSet(c)

LEMMA RoleStep ==
  ASSUME Inv, Own, NEW c \in Conns, Acts(c), NEW d \in Conns
  PROVE  Role(d)'
<1>1. CASE d # c
  BY <1>1, Others DEF Own, Role
<1>2. CASE d = c
  <2>1. Comes(c) /\ Role(c)
    BY ComesAndGoes DEF Own
  <2>2. pc'[c] \in {"lookup", "create"} => job'[c].who = Owner[c]
    BY <2>1, Fields DEF Comes
  <2>3. pc'[c] = "create" => Owner[c] \in Staff
    BY <2>1 DEF Comes, Create, IsStaff
  <2>4. pc'[c] \in {"join", "createJoin"} =>
          job'[c].who = Owner[c] /\ (pc'[c] = "createJoin" => Owner[c] \in Staff)
    BY <2>1, Fields DEF Comes, Role
  <2>5. pc'[c] \in {"joined", "createJoined"} =>
          job'[c].who = Owner[c] /\ (pc'[c] = "createJoined" => Owner[c] \in Staff)
    BY <2>1 DEF Comes, Role, JoinDb
  <2>6. pc'[c] = "addMemory" => job'[c].at \in Conns /\ Owner[job'[c].at] = job'[c].who
    BY <2>1, Fields DEF Comes, Sessions, Inv, Types
  <2>7. pc'[c] \in {"kick", "fetch"} => job'[c].at \in Conns /\ Owner[job'[c].at] = job'[c].who
    <3>1. CASE KickMember(c)
      BY <2>1, <3>1, Pcs DEF KickMember, Role, Finish, Goto, Inv, Types
    <3>2. CASE ~KickMember(c)
      BY <2>1, <3>2, Fields DEF Comes, Kick, Leave
    <3> QED BY <3>1, <3>2
  <2>8. pc'[c] = "remove" => job'[c].at \in Conns /\ Owner[job'[c].at] = job'[c].who
    BY <2>1, Fields, Pcs DEF Comes, Role
  <2>9. pc'[c] = "removed" => job'[c].at \in Conns /\ Owner[job'[c].at] = job'[c].who
    BY <2>1, Pcs DEF Comes, Role, RemoveDb
  <2> QED BY <1>2, <2>2, <2>3, <2>4, <2>5, <2>6, <2>7, <2>8, <2>9 DEF Role
<1> QED BY <1>1, <1>2

\* Steps that change no set of rooms and no session.
Quiet(c) == UNCHANGED memory /\ unrestored \subseteq unrestored'

LEMMA QuietSteps ==
  ASSUME Inv, NEW c \in Conns, Acts(c)
  PROVE  \/ Quiet(c) \/ Accept(c) \/ Drop(c) \/ Login(c) \/ Logout(c) \/ BanPop(c)
         \/ RestoreSet(c) \/ JoinMemory(c) \/ Append(c) \/ AddMemory(c) \/ RemoveMemory(c)
         \/ \E d \in Conns : Sweep(c, d)
<1> USE DEF Quiet
<1>1. CASE RestoreRead(c) \/ List(c) \/ JoinFetch(c) \/ JoinDb(c) \/ AddDb(c) \/ AddFind(c)
  BY <1>1 DEF RestoreRead, List, JoinFetch, JoinDb, AddDb, AddFind
<1>2. CASE KickMember(c) \/ RemoveFetch(c) \/ RemoveDb(c) \/ DeleteSnapshot(c) \/ SweepDone(c)
  BY <1>2 DEF KickMember, RemoveFetch, RemoveDb, DeleteSnapshot, SweepDone
<1>3. CASE JoinRefused(c) \/ DbError(c)
  BY <1>3 DEF JoinRefused, DbError, DbFails
<1>4. CASE Authorize(c) \/ Refuse(c)
  BY <1>4 DEF Authorize, Refuse
<1>5. ASSUME NEW d \in Conns, BanFind(c, d) PROVE Quiet(c)
  BY <1>5 DEF BanFind
<1>6. ASSUME NEW r \in Rooms, NEW d \in Conns, Leave(c, r) \/ Kick(c, d, r) PROVE Quiet(c)
  <2>1. UNCHANGED <<memory, unrestored>>
    BY <1>6 DEF Leave, Kick, Remove
  <2> QED BY <2>1
<1>7. ASSUME NEW r \in Rooms, Join(c, r) \/ Create(c, r) \/ Delete(c, r) PROVE Quiet(c)
  <2>1. UNCHANGED <<memory, unrestored>>
    BY <1>7 DEF Join, Create, Delete
  <2> QED BY <2>1
<1>8. ASSUME NEW r \in Rooms, NEW u \in Users, Add(c, u, r) PROVE Quiet(c)
  BY <1>8 DEF Add
<1> HIDE DEF Quiet
<1>9. CASE Handler(c)
  BY <1>1, <1>2, <1>3, <1>9 DEF Handler
<1>10. CASE Client(c)
  BY <1>4, <1>5, <1>6, <1>7, <1>8, <1>10 DEF Client
<1> QED BY <1>9, <1>10 DEF Acts

LEMMA OwnSetStep ==
  ASSUME Inv, Own, NEW c \in Conns, Acts(c), NEW d \in Conns
  PROVE  OwnSet(d)'
<1>1. /\ OwnSet(d) /\ OwnSet(c) /\ SetsAndSessions
      /\ mine \in [Conns -> SUBSET Rooms] /\ pc \in [Conns -> Labels]
      /\ logged \subseteq Conns /\ keyed \subseteq Conns
  BY DEF Own, Inv, Types
<1>2. d # c => pc'[d] = pc[d]
  BY Others
<1>3. CASE Quiet(c)
  <2>1. pc'[c] \notin AtRest /\ pc[c] \in AtRest => c \in logged
    <3>1. Authorize(c) \/ pc[c] \notin AtRest \/ pc'[c] \in AtRest
      BY Pcs DEF Acts, Handler, Client, AtRest, AfterError
    <3> QED BY <3>1 DEF Authorize
  <2>2. Restoring(c) => Restoring(c)' \/ c \in unrestored' \/ c \in keyed
    <3>1. Restoring(c) => RestoreRead(c) \/ DbError(c) \/ RestoreSet(c)
      BY ComesAndGoes DEF Goes, Restoring
    <3>2. Restoring(c) /\ DbError(c) => c \in unrestored'
      BY ComesAndGoes, Pcs DEF DbError, DbFails, Restoring
    <3>3. RestoreSet(c) => c \in keyed'
      BY DEF RestoreSet
    <3> QED BY <1>3, <3>1, <3>2, <3>3, Pcs DEF Quiet, Restoring
  <2>3. mine' = mine /\ keyed' = keyed /\ logged' = logged /\ unrestored \subseteq unrestored'
    BY <1>3 DEF Quiet
  <2>4. CASE d # c
    BY <1>1, <1>2, <2>3, <2>4 DEF OwnSet, Restoring
  <2>5. CASE d = c
    BY <1>1, <2>1, <2>2, <2>3, <2>5 DEF OwnSet
  <2> QED BY <2>4, <2>5
<1>4. ASSUME NEW e \in Conns, Discard(e), pc'[c] \in AtRest, e = c \/ pc[c] = "ban" PROVE OwnSet(d)'
  <2>1. CASE d = c
    BY <1>1, <1>4, <2>1 DEF OwnSet, Discard, Restoring, SetsAndSessions, AtRest
  <2>2. CASE d # c
    BY <1>1, <1>2, <1>4, <2>2 DEF OwnSet, Discard, Restoring
  <2> QED BY <2>1, <2>2
<1>5. CASE Drop(c) \/ BanPop(c)
  <2>1. job[c].at \in Conns \/ Drop(c)
    BY <1>5, Pcs DEF Inv, Locals, AtConn
  <2> QED BY <1>4, <1>5, <2>1, Pcs DEF Drop, BanPop, AtRest
<1>6. CASE Accept(c) \/ Login(c) \/ Logout(c) \/ RestoreSet(c)
  BY <1>1, <1>2, <1>6, Pcs DEF Accept, Login, Logout, RestoreSet, OwnSet, Restoring, AtRest
<1>7. ASSUME logged' = logged, keyed' = keyed, unrestored' = unrestored, pc[c] \notin AtRest,
             \A e \in Conns : mine'[e] # {} => e \in keyed \/ mine[e] # {}
      PROVE  OwnSet(d)'
  BY <1>1, <1>2, <1>7 DEF OwnSet, Restoring, AtRest
<1>8. CASE JoinMemory(c) \/ AddMemory(c)
  BY <1>1, <1>7, <1>8, Pcs DEF JoinMemory, AddMemory, AtRest
<1>9. CASE Append(c)
  BY <1>1, <1>7, <1>9, Pcs DEF Append, AtRest
<1>10. CASE RemoveMemory(c)
  BY <1>1, <1>7, <1>10, Pcs DEF RemoveMemory, AfterRemove, AtRest
<1>11. ASSUME NEW e \in Conns, Sweep(c, e) PROVE OwnSet(d)'
  BY <1>1, <1>7, <1>11, Pcs DEF Sweep, AtRest
<1> QED BY <1>3, <1>5, <1>6, <1>8, <1>9, <1>10, <1>11, QuietSteps

\* The steps of the handlers that change the database.
LEMMA DbSteps ==
  ASSUME Inv, NEW c \in Conns, Acts(c)
  PROVE  \/ UNCHANGED db \/ JoinDb(c) \/ AddDb(c) \/ RemoveDb(c)
         \/ \E r \in Rooms : Create(c, r) \/ Delete(c, r)
<1> DEFINE Still == UNCHANGED db
<1>1. CASE RestoreRead(c) \/ RestoreSet(c) \/ List(c) \/ BanPop(c) \/ JoinFetch(c) \/ JoinMemory(c)
  BY <1>1 DEF RestoreRead, RestoreSet, List, BanPop, JoinFetch, JoinMemory
<1>2. CASE Append(c) \/ AddFind(c) \/ AddMemory(c) \/ KickMember(c) \/ RemoveFetch(c) \/ RemoveMemory(c)
  BY <1>2 DEF Append, AddFind, AddMemory, KickMember, RemoveFetch, RemoveMemory
<1>3. CASE JoinRefused(c) \/ DbError(c)
  BY <1>3 DEF JoinRefused, DbError, DbFails
<1>4. CASE DeleteSnapshot(c) \/ (\E d \in Conns : Sweep(c, d)) \/ SweepDone(c)
  BY <1>4 DEF DeleteSnapshot, Sweep, SweepDone
<1>5. CASE Accept(c) \/ Drop(c) \/ Login(c) \/ Authorize(c) \/ Refuse(c) \/ Logout(c)
  BY <1>5 DEF Accept, Drop, Login, Authorize, Refuse, Logout
<1>6. ASSUME NEW d \in Conns, BanFind(c, d) PROVE Still
  BY <1>6 DEF BanFind
<1>7. ASSUME NEW r \in Rooms, NEW d \in Conns, Leave(c, r) \/ Kick(c, d, r) PROVE Still
  <2>1. UNCHANGED db
    BY <1>7 DEF Leave, Kick, Remove
  <2> QED BY <2>1
<1>8. ASSUME NEW r \in Rooms, Join(c, r) PROVE Still
  BY <1>8 DEF Join
<1>9. ASSUME NEW r \in Rooms, NEW u \in Users, Add(c, u, r) PROVE Still
  BY <1>9 DEF Add
<1> HIDE DEF Still
<1>10. CASE Handler(c)
  BY <1>1, <1>2, <1>3, <1>4, <1>10 DEF Handler, Still
<1>11. CASE Client(c)
  BY <1>5, <1>6, <1>7, <1>8, <1>9, <1>11 DEF Client, Still
<1> QED BY <1>10, <1>11 DEF Acts

\* What concerns a pair is the same, but for sessions that have ended.
Same(p) ==
  /\ p \in rows' <=> p \in rows
  /\ ids'[p[2]] = ids[p[2]] \/ p \notin rows
  /\ \A d \in Sessions(p[1])' :
       /\ d \in Sessions(p[1])
       /\ d \in unrestored => d \in unrestored'
       /\ p[2] \in mine'[d] <=> p[2] \in mine[d]

\* A handler that is not at work on a pair leaves it the same.
LEMMA Untouched ==
  ASSUME Inv, Own, NEW c \in Conns, Acts(c), NEW p \in Pairs,
         c \notin Workers(p), c \notin Workers(p)'
  PROVE  Same(p)
<1>1. /\ p = <<p[1], p[2]>> /\ p[1] \in Users /\ p[1] \notin Staff /\ p[2] \in Rooms
      /\ ids \in [Rooms -> Nat] /\ mine \in [Conns -> SUBSET Rooms]
      /\ RowsHaveRooms /\ SetsAndSessions /\ Role(c) /\ logged \subseteq Conns
  BY DEF Pairs, Plain, Inv, Types, Own
<1>2. ~WorksOn(c, p) /\ ~WorksOn(c, p)'
  BY DEF Workers
<1>3. /\ p \in rows' <=> p \in rows
      /\ ids'[p[2]] = ids[p[2]] \/ p \notin rows
  <2>1. CASE UNCHANGED <<ids, rows>>
    BY <2>1
  <2>2. CASE JoinDb(c)
    <3>1. \/ pc'[c] = "joined" \/ job[c].who \in Staff
      BY <1>1, <2>2, Pcs DEF Role
    <3>2. p # <<job[c].who, job[c].room>>
      BY <1>1, <1>2, <2>2, <3>1 DEF WorksOn, JoinDb
    <3> QED BY <2>2, <3>2 DEF JoinDb, InsertRow
  <2>3. CASE AddDb(c)
    <3>1. p # <<job[c].who, job[c].room>>
      BY <1>1, <1>2, <2>3, Pcs DEF WorksOn, AddDb
    <3> QED BY <2>3, <3>1 DEF AddDb, InsertRow
  <2>4. CASE RemoveDb(c)
    <3>1. p # <<job[c].who, job[c].room>>
      BY <1>1, <1>2, <2>4, Pcs DEF WorksOn, RemoveDb
    <3> QED BY <2>4, <3>1 DEF RemoveDb
  <2>5. ASSUME NEW r \in Rooms, Create(c, r)
        PROVE  /\ p \in rows' <=> p \in rows
               /\ ids'[p[2]] = ids[p[2]] \/ p \notin rows
    <3>1. rows' = rows /\ ids[r] = 0 /\ ids' = [ids EXCEPT ![r] = made + 1]
      BY <2>5 DEF Create
    <3> QED BY <1>1, <3>1 DEF RowsHaveRooms
  <2>6. ASSUME NEW r \in Rooms, Delete(c, r)
        PROVE  /\ p \in rows' <=> p \in rows
               /\ ids'[p[2]] = ids[p[2]] \/ p \notin rows
    <3>1. p[2] # r
      BY <1>1, <1>2, <2>6, Pcs, Fields DEF WorksOn
    <3>2. rows' = {q \in rows : q[2] # r} /\ ids' = [ids EXCEPT ![r] = 0]
      BY <2>6 DEF Delete
    <3> QED BY <1>1, <3>1, <3>2
  <2> QED BY <2>1, <2>2, <2>3, <2>4, <2>5, <2>6, DbSteps
<1>4. \A d \in Sessions(p[1])' :
        /\ d \in Sessions(p[1])
        /\ d \in unrestored => d \in unrestored'
        /\ p[2] \in mine'[d] <=> p[2] \in mine[d]
  <2> SUFFICES ASSUME NEW d \in Conns, d \in logged', Owner[d] = p[1],
                      logged' \subseteq Conns
               PROVE  /\ d \in logged
                      /\ d \in unrestored => d \in unrestored'
                      /\ p[2] \in mine'[d] <=> p[2] \in mine[d]
    <3>1. logged' \subseteq Conns
      BY HandlerInv, ClientInv DEF Inv, Types, Acts
    <3> QED BY <3>1 DEF Sessions
  <2> USE <1>1
  <2>1. CASE Quiet(c)
    BY <2>1 DEF Quiet
  <2>2. CASE Accept(c)
    BY <2>2 DEF Accept, SetsAndSessions
  <2>3. ASSUME NEW e \in Conns, Discard(e)
        PROVE  /\ d \in logged
               /\ d \in unrestored => d \in unrestored'
               /\ p[2] \in mine'[d] <=> p[2] \in mine[d]
    BY <2>3 DEF Discard
  <2>4. CASE Drop(c) \/ BanPop(c)
    <3>1. job[c].at \in Conns \/ Drop(c)
      BY <2>4, Pcs DEF Inv, Locals, AtConn
    <3> QED BY <2>3, <2>4, <3>1 DEF Drop, BanPop
  <2>5. CASE Login(c)
    <3>1. d # c
      BY <1>2, <2>5, Pcs DEF WorksOn
    <3> QED BY <2>5, <3>1 DEF Login
  <2>6. CASE Logout(c)
    BY <2>6 DEF Logout
  <2>7. CASE RestoreSet(c)
    <3>1. d # c
      BY <1>2, <2>7, Pcs DEF WorksOn
    <3> QED BY <2>7, <3>1 DEF RestoreSet
  <2>8. CASE JoinMemory(c)
    <3>1. d # c \/ job[c].room # p[2]
      BY <1>2, <2>8, Pcs DEF WorksOn, Role
    <3> QED BY <2>8, <3>1 DEF JoinMemory
  <2>9. CASE Append(c)
    BY <2>9 DEF Append, IsStaff
  <2>10. CASE AddMemory(c)
    <3>1. d # job[c].at \/ job[c].room # p[2]
      BY <1>2, <2>10, Pcs DEF WorksOn, Role
    <3> QED BY <2>10, <3>1 DEF AddMemory
  <2>11. CASE RemoveMemory(c)
    <3>1. d # job[c].at \/ job[c].room # p[2]
      BY <1>2, <2>11, Pcs DEF WorksOn, Role
    <3> QED BY <2>11, <3>1 DEF RemoveMemory, AfterRemove
  <2>12. ASSUME NEW e \in Conns, Sweep(c, e)
         PROVE  /\ d \in logged
                /\ d \in unrestored => d \in unrestored'
                /\ p[2] \in mine'[d] <=> p[2] \in mine[d]
    <3>1. job[c].room # p[2]
      BY <1>2, <2>12, Pcs DEF WorksOn
    <3> QED BY <2>12, <3>1 DEF Sweep
  <2> QED BY <2>1, <2>2, <2>4, <2>5, <2>6, <2>7, <2>8, <2>9, <2>10, <2>11, <2>12, QuietSteps
<1> QED BY <1>3, <1>4 DEF Same

\* What a handler that is alone at work on a pair knows of it at each point.
Alone(c, p)   == Sessions(p[1]) \subseteq {job[c].at}
Settled(d, p) == p[2] \in mine[d] <=> p \in rows

Knows(c, p) ==
  /\ pc[c] = "restored" => (p[2] \in job[c].found <=> p \in rows)
  /\ pc[c] \in {"joined", "added", "addMemory"} => p \in rows
  /\ pc[c] \in {"addMemory", "kick", "fetch", "remove", "removed"} => Alone(c, p)
  /\ pc[c] = "remove" => SameRoom(c) \/ p \notin rows
  /\ pc[c] \in {"removed", "snapshot", "sweep"} => p \notin rows
  /\ pc[c] = "sweep" =>
       \A d \in Sessions(p[1]) \ unrestored : d \in job[c].todo \/ p[2] \notin mine[d]

\* The sessions have what the table has, unless a restoration of their own or the memory
\* step of a handler is still to come.
Between == {"joined", "added", "addMemory", "removed", "snapshot", "sweep"}

Agreed(p) ==
  \A d \in Sessions(p[1]) \ unrestored :
    Settled(d, p) \/ Restoring(d) \/ \E c \in Workers(p) : pc[c] \in Between

Kept(p) ==
  /\ Overlap(p) => p \in raced
  /\ p \in raced => claim[p] = "open"
  /\ claim[p] # "open" => (p \in rows <=> claim[p] = "in")
  /\ p \notin raced => \A c \in Workers(p) : Knows(c, p)
  /\ claim[p] # "open" => Agreed(p)

DurableInv == Inv /\ HistoryOK /\ Own /\ \A p \in Pairs : Kept(p)

\* What the history says of a pair after a step.
LEMMA TrackFacts ==
  ASSUME NEW p \in Pairs, Kept(p), Track
  PROVE  /\ Overlap(p)' => p \in raced'
         /\ p \in raced' => claim'[p] = "open"
         /\ claim'[p] # "open" => (p \in rows' <=> claim'[p] = "in")
         /\ p \notin raced' => ~Overlap(p)' /\ (p \notin raced \/ Workers(p)' = {})
         /\ claim'[p] # "open" =>
              /\ p \notin raced'
              /\ \A w \in Workers(p) : pc'[w] \notin {"drop", "free"}
              /\ claim[p] # "open" \/ ~(p \in rows' <=> p \in rows)
<1>1. p \in raced' <=> (Overlap(p)' \/ (p \in raced /\ Workers(p)' # {}))
  BY DEF Track
<1>2. claim'[p] = IF p \in raced' \/ \E c \in Workers(p) : pc'[c] \in {"drop", "free"} THEN "open"
                  ELSE IF p \in rows' \ rows THEN "in"
                  ELSE IF p \in rows \ rows' THEN "out" ELSE claim[p]
  BY DEF Track
<1> QED BY <1>1, <1>2 DEF Kept

\* Two handlers at work on a pair overlap, and so do one that changes it and a second
\* session of the user.
LEMMA Overlaps ==
  ASSUME NEW p \in Pairs
  PROVE  /\ \A c, d \in Workers(p) : c # d => Overlap(p)
         /\ \A c \in Workers(p), d, e \in Sessions(p[1]) : ~Restoring(c) /\ d # e => Overlap(p)
         /\ \A c, d \in Workers(p)' : c # d => Overlap(p)'
         /\ \A c \in Workers(p)', d, e \in Sessions(p[1])' : ~Restoring(c)' /\ d # e => Overlap(p)'
BY DEF Overlap

\* A step of a handler that is not at work on the pair.
LEMMA Bystander ==
  ASSUME DurableInv, NEW c \in Conns, Acts(c), Track, NEW p \in Pairs,
         c \notin Workers(p), c \notin Workers(p)'
  PROVE  Kept(p)'
<1>1. Same(p) /\ Kept(p)
  BY Untouched DEF DurableInv
<1>2. \A d \in Conns : d # c => pc'[d] = pc[d] /\ job'[d] = job[d]
  BY Others DEF DurableInv
<1>3. Workers(p)' = Workers(p)
  <2>1. \A d \in Conns : d # c => (WorksOn(d, p)' <=> WorksOn(d, p))
    BY <1>2 DEF WorksOn
  <2> QED BY <2>1 DEF Workers
<1>4. ASSUME p \notin raced', NEW w \in Workers(p)' PROVE Knows(w, p)'
  <2>1. p \notin raced /\ w \in Conns /\ w # c /\ WorksOn(w, p)
    BY <1>1, <1>3, <1>4, TrackFacts DEF Workers
  <2>2. Knows(w, p) /\ pc'[w] = pc[w] /\ job'[w] = job[w]
    BY <1>1, <1>2, <1>3, <1>4, <2>1 DEF Kept
  <2>3. Alone(w, p) => Alone(w, p)'
    BY <1>1, <2>2 DEF Alone, Same
  <2>4. pc[w] = "remove" =>
          ((SameRoom(w) \/ p \notin rows) => (SameRoom(w)' \/ p \notin rows'))
    <3>1. pc[w] = "remove" => job[w].room = p[2]
      BY <2>1 DEF WorksOn
    <3> QED BY <1>1, <2>2, <3>1 DEF Same, SameRoom
  <2>5. pc[w] = "sweep" =>
          \A d \in Sessions(p[1])' \ unrestored' : d \in job[w].todo \/ p[2] \notin mine'[d]
    BY <1>1, <2>2 DEF Same, Knows
  <2>6. p \in rows' <=> p \in rows
    BY <1>1 DEF Same
  <2> QED BY <2>2, <2>3, <2>4, <2>5, <2>6 DEF Knows
<1>5. ASSUME claim'[p] # "open" PROVE Agreed(p)'
  <2>1. claim[p] # "open" /\ Agreed(p)
    BY <1>1, <1>5, TrackFacts DEF Kept, Same
  <2> SUFFICES ASSUME NEW d \in Sessions(p[1])' \ unrestored'
               PROVE  \/ Settled(d, p)' \/ Restoring(d)'
                      \/ \E w \in Workers(p)' : pc'[w] \in Between
    BY DEF Agreed
  <2>2. d \in Sessions(p[1]) \ unrestored /\ d \in Conns /\ Owner[d] = p[1]
    BY <1>1 DEF Same, Sessions, DurableInv, Inv, Types
  <2>3. CASE Settled(d, p)
    BY <1>1, <2>3 DEF Same, Settled
  <2>4. CASE Restoring(d)
    BY <1>2, <2>2, <2>4 DEF Restoring, Workers, WorksOn
  <2>5. ASSUME NEW w \in Workers(p), pc[w] \in Between PROVE \E v \in Workers(p)' : pc'[v] \in Between
    BY <1>2, <1>3, <2>5 DEF Workers
  <2> QED BY <2>1, <2>2, <2>3, <2>4, <2>5 DEF Agreed
<1> QED BY <1>1, <1>4, <1>5, TrackFacts DEF Kept

\* A handler that works on the pair, alone, learns what it is said to know.
LEMMA WorkerKnows ==
  ASSUME DurableInv, NEW c \in Conns, Acts(c), NEW p \in Pairs,
         c \in Workers(p)', ~Overlap(p)', c \in Workers(p) => Knows(c, p)
  PROVE  Knows(c, p)'
<1>1. /\ Inv /\ Comes(c) /\ WorksOn(c, p)' /\ Role(c) /\ OwnSet(c)
      /\ mine \in [Conns -> SUBSET Rooms] /\ logged \subseteq Conns
  BY ComesAndGoes DEF DurableInv, Own, Workers, Inv, Types
<1>2. p = <<p[1], p[2]>> /\ p[1] \notin Staff /\ p[2] \in Rooms
  BY DEF Pairs, Plain
<1>3. ASSUME ~Restoring(c)', job'[c].at \in Sessions(p[1])' PROVE Alone(c, p)'
  BY <1>3, Overlaps DEF Alone
<1>4. pc'[c] = "restored" => (p[2] \in job'[c].found <=> p \in rows')
  <2> SUFFICES ASSUME pc'[c] = "restored" PROVE p[2] \in job'[c].found <=> p \in rows'
    OBVIOUS
  <2>1. RestoreRead(c) /\ p[1] = Owner[c]
    BY <1>1 DEF Comes, WorksOn
  <2>2. rows' = rows /\ job'[c].found = Persisted(Owner[c])
    BY <1>1, <2>1, Fields DEF RestoreRead
  <2> QED BY <1>2, <2>1, <2>2 DEF Persisted
<1>5. pc'[c] \in {"joined", "added"} => p \in rows'
  <2> SUFFICES ASSUME pc'[c] \in {"joined", "added"} PROVE p \in rows'
    OBVIOUS
  <2>1. (JoinDb(c) \/ AddDb(c)) /\ p = <<job'[c].who, job'[c].room>>
    BY <1>1 DEF Comes, WorksOn
  <2> QED BY <2>1 DEF JoinDb, AddDb, InsertRow
<1>6. pc'[c] = "addMemory" => p \in rows' /\ Alone(c, p)'
  <2> SUFFICES ASSUME pc'[c] = "addMemory" PROVE p \in rows' /\ Alone(c, p)'
    OBVIOUS
  <2>1. AddFind(c) /\ p = <<job'[c].who, job'[c].room>>
    BY <1>1 DEF Comes, WorksOn
  <2>2. /\ job'[c].at \in Sessions(job[c].who) /\ p = <<job[c].who, job[c].room>>
        /\ pc[c] = "added" /\ rows' = rows /\ logged' = logged
    BY <1>1, <2>1, Fields, Pcs DEF AddFind
  <2>3. c \in Workers(p)
    BY <2>2 DEF Workers, WorksOn
  <2>4. job'[c].at \in Sessions(p[1])'
    BY <2>2 DEF Sessions
  <2> QED BY <1>3, <2>2, <2>3, <2>4 DEF Knows, Restoring
<1>7. pc'[c] = "kick" => Alone(c, p)'
  <2> SUFFICES ASSUME pc'[c] = "kick", NEW d \in Conns, NEW r \in Rooms, Kick(c, d, r)
               PROVE  Alone(c, p)'
    BY <1>1 DEF Comes
  <2>1. d \in logged /\ Remove(c, d, r, "kick")
    BY DEF Kick
  <2>2. job'[c].at = d /\ job'[c].who = Owner[d] /\ p[1] = job'[c].who
    BY <1>1, <2>1, Fields DEF WorksOn
  <2>3. logged' = logged
    BY <2>1 DEF Remove
  <2>4. job'[c].at \in Sessions(p[1])'
    BY <2>1, <2>2, <2>3 DEF Sessions
  <2> QED BY <1>3, <2>4 DEF Restoring
<1>8. pc'[c] = "fetch" => Alone(c, p)'
  <2>1. ASSUME KickMember(c), pc'[c] = "fetch" PROVE Alone(c, p)'
    <3>1. pc[c] = "kick" /\ job' = job /\ logged' = logged
      BY <1>1, <2>1, Pcs DEF KickMember, Finish, Goto, Inv, Types
    <3>2. c \in Workers(p)
      BY <1>1, <2>1, <3>1 DEF Workers, WorksOn
    <3> QED BY <3>1, <3>2 DEF Knows, Alone, Sessions
  <2>2. ASSUME NEW r \in Rooms, Leave(c, r) PROVE Alone(c, p)'
    <3>1. r \in mine[c] /\ pc[c] = "auth" /\ Remove(c, c, r, "fetch") /\ pc'[c] = "fetch"
      BY <1>1, <2>2, Pcs DEF Leave
    <3>2. c \in logged
      BY <1>1, <3>1 DEF OwnSet, AtRest
    <3>3. job'[c].at = c /\ job'[c].who = Owner[c] /\ p[1] = job'[c].who
      BY <1>1, <3>1, Fields DEF WorksOn
    <3>4. logged' = logged
      BY <3>1 DEF Remove
    <3>5. job'[c].at \in Sessions(p[1])'
      BY <3>2, <3>3, <3>4 DEF Sessions
    <3> QED BY <1>3, <3>1, <3>5 DEF Restoring
  <2> QED BY <1>1, <2>1, <2>2 DEF Comes
<1>9. pc'[c] = "remove" => Alone(c, p)' /\ SameRoom(c)'
  <2> SUFFICES ASSUME pc'[c] = "remove" PROVE Alone(c, p)' /\ SameRoom(c)'
    OBVIOUS
  <2>1. RemoveFetch(c) /\ p = <<job'[c].who, job'[c].room>>
    BY <1>1 DEF Comes, WorksOn
  <2>2. /\ pc[c] = "fetch" /\ logged' = logged /\ ids' = ids
        /\ job'[c].who = job[c].who /\ job'[c].room = job[c].room
        /\ job'[c].at = job[c].at /\ job'[c].id = ids[job[c].room]
    BY <1>1, <2>1, Pcs, Fields DEF RemoveFetch
  <2>3. c \in Workers(p)
    BY <2>1, <2>2 DEF Workers, WorksOn
  <2> QED BY <2>2, <2>3 DEF Knows, Alone, SameRoom, Sessions
<1>10. pc'[c] = "removed" => p \notin rows' /\ Alone(c, p)'
  <2> SUFFICES ASSUME pc'[c] = "removed" PROVE p \notin rows' /\ Alone(c, p)'
    OBVIOUS
  <2>1. RemoveDb(c) /\ p = <<job'[c].who, job'[c].room>>
    BY <1>1 DEF Comes, WorksOn
  <2>2. pc[c] = "remove" /\ logged' = logged /\ job' = job
    BY <1>1, <2>1, Pcs DEF RemoveDb
  <2>3. c \in Workers(p)
    BY <2>1, <2>2 DEF Workers, WorksOn
  <2>4. p \notin rows'
    BY <2>1, <2>2, <2>3 DEF Knows, RemoveDb
  <2> QED BY <2>2, <2>3, <2>4 DEF Knows, Alone, Sessions
<1>11. pc'[c] = "snapshot" => p \notin rows'
  <2> SUFFICES ASSUME pc'[c] = "snapshot", NEW r \in Rooms, Delete(c, r) PROVE p \notin rows'
    BY <1>1 DEF Comes
  <2>1. p[2] = r
    BY <1>1, Fields DEF WorksOn
  <2> QED BY <2>1 DEF Delete
<1>12. pc'[c] = "sweep" =>
         /\ p \notin rows'
         /\ \A d \in Sessions(p[1])' \ unrestored' : d \in job'[c].todo \/ p[2] \notin mine'[d]
  <2>1. ASSUME DeleteSnapshot(c)
        PROVE  /\ p \notin rows'
               /\ \A d \in Sessions(p[1])' : d \in job'[c].todo
    <3>1. /\ pc[c] = "snapshot" /\ job'[c].room = job[c].room /\ job'[c].todo = logged
          /\ rows' = rows /\ logged' = logged /\ pc'[c] = "sweep"
      BY <1>1, <2>1, Pcs, Fields DEF DeleteSnapshot
    <3>2. c \in Workers(p)
      BY <1>1, <3>1 DEF Workers, WorksOn
    <3> QED BY <3>1, <3>2 DEF Knows, Sessions
  <2>2. ASSUME NEW e \in Conns, Sweep(c, e), pc'[c] = "sweep"
        PROVE  /\ p \notin rows'
               /\ \A d \in Sessions(p[1])' \ unrestored' :
                    d \in job'[c].todo \/ p[2] \notin mine'[d]
    <3>1. /\ pc[c] = "sweep" /\ job'[c].room = job[c].room /\ job'[c].todo = job[c].todo \ {e}
          /\ rows' = rows /\ logged' = logged /\ unrestored' = unrestored
          /\ mine' = [mine EXCEPT ![e] = @ \ {job[c].room}]
      BY <1>1, <2>2, Pcs, Fields DEF Sweep
    <3>2. c \in Workers(p) /\ p[2] = job[c].room
      BY <1>1, <2>2, <3>1 DEF Workers, WorksOn
    <3>3. \A d \in Conns : p[2] \in mine'[d] => p[2] \in mine[d] /\ d # e
      BY <1>1, <3>1, <3>2
    <3>4. Sessions(p[1])' = Sessions(p[1]) /\ Sessions(p[1]) \subseteq Conns
      BY <1>1, <3>1 DEF Sessions
    <3> QED BY <3>1, <3>2, <3>3, <3>4 DEF Knows
  <2> QED BY <1>1, <2>1, <2>2 DEF Comes
<1> QED BY <1>4, <1>5, <1>6, <1>7, <1>8, <1>9, <1>10, <1>11, <1>12 DEF Knows

\* A handler that is alone at work on the pair, and has changed nothing of it yet, finds
\* the sessions in agreement with the table.
LEMMA StillSettled ==
  ASSUME DurableInv, NEW p \in Pairs, claim[p] # "open",
         NEW c \in Workers(p), pc[c] \notin Between,
         NEW d \in Sessions(p[1]) \ unrestored, d # c \/ ~Restoring(c)
  PROVE  Settled(d, p)
<1>1. p \notin raced /\ ~Overlap(p) /\ Agreed(p)
  BY DEF DurableInv, Kept
<1>2. \A w \in Workers(p) : w = c
  BY <1>1, Overlaps
<1>3. Restoring(d) => d \in Workers(p)
  BY DEF Restoring, Workers, WorksOn, Sessions, DurableInv, Inv, Types
<1> QED BY <1>1, <1>2, <1>3 DEF Agreed

\* The steps with which a handler turns to the pair, or goes on before its change, keep
\* the sessions in agreement.
LEMMA WorkerBegins ==
  ASSUME DurableInv, NEW c \in Conns, Acts(c), Track, NEW p \in Pairs, claim'[p] # "open",
         c \in Workers(p)', pc'[c] \in {"restore", "restored", "kick", "fetch", "remove"}
  PROVE  Agreed(p)'
<1>1. Inv /\ Comes(c) /\ Goes(c) /\ Kept(p)
  BY ComesAndGoes DEF DurableInv
<1>2. \/ Login(c) \/ RestoreRead(c) \/ KickMember(c) \/ RemoveFetch(c)
      \/ \E r \in Rooms : Leave(c, r)
      \/ \E d \in Conns, r \in Rooms : Kick(c, d, r)
  BY <1>1 DEF Comes
<1>3. /\ rows' = rows /\ mine' = mine /\ unrestored' = unrestored /\ keyed' = keyed
      /\ logged' = logged \/ (Login(c) /\ logged' = logged \cup {c})
      /\ pc[c] \notin Between
  <2>1. CASE Login(c) \/ RestoreRead(c) \/ KickMember(c) \/ RemoveFetch(c)
    BY <1>1, <2>1, Pcs DEF Login, RestoreRead, KickMember, RemoveFetch, Between
  <2>2. ASSUME NEW d \in Conns, NEW r \in Rooms, Leave(c, r) \/ Kick(c, d, r)
        PROVE  UNCHANGED <<rows, mine, unrestored, keyed, logged>> /\ pc[c] = "auth"
    BY <2>2 DEF Leave, Kick, Remove
  <2> QED BY <1>2, <2>1, <2>2 DEF Between
<1>4. claim[p] # "open" /\ Agreed(p) /\ ~Overlap(p)'
  BY <1>1, <1>3, TrackFacts DEF Kept
<1> SUFFICES ASSUME NEW d \in Sessions(p[1])' \ unrestored'
             PROVE  Settled(d, p)' \/ Restoring(d)'
  BY DEF Agreed
<1>5. d \in Conns /\ Owner[d] = p[1]
  BY <1>3 DEF Sessions, Inv, Types, DurableInv
<1>6. CASE d = c /\ Login(c)
  BY <1>1, <1>6, Pcs DEF Restoring
<1>7. CASE ~(d = c /\ Login(c))
  <2>1. d \in Sessions(p[1]) \ unrestored
    BY <1>3, <1>7 DEF Sessions
  <2>2. CASE Settled(d, p)
    BY <1>3, <2>2 DEF Settled
  <2>3. CASE Restoring(d)
    <3>1. CASE d = c
      <4>1. RestoreRead(c)
        BY <1>1, <1>2, <2>3, <3>1, Pcs DEF Restoring
      <4> QED BY <1>1, <3>1, <4>1, Pcs DEF Restoring
    <3>2. CASE d # c
      BY <1>1, <1>5, <2>3, <3>2, Others DEF Restoring
    <3> QED BY <3>1, <3>2
  <2>4. ASSUME NEW w \in Workers(p), pc[w] \in Between PROVE FALSE
    <3>1. w # c /\ w \in Conns /\ WorksOn(w, p)
      BY <1>3, <2>4 DEF Workers
    <3>2. pc'[w] = pc[w] /\ job'[w] = job[w]
      BY <1>1, <3>1, Others
    <3>3. w \in Workers(p)'
      BY <3>1, <3>2 DEF Workers, WorksOn
    <3> QED BY <1>4, <3>1, <3>3, Overlaps
  <2> QED BY <1>4, <2>1, <2>2, <2>3, <2>4 DEF Agreed
<1> QED BY <1>6, <1>7

\* So do those with which it is done.
LEMMA WorkerEnds ==
  ASSUME DurableInv, NEW c \in Conns, Acts(c), Track, NEW p \in Pairs, claim'[p] # "open",
         c \in Workers(p), c \notin Workers(p)'
  PROVE  Agreed(p)'
<1>1. /\ Inv /\ Comes(c) /\ Goes(c) /\ Kept(p) /\ WorksOn(c, p) /\ ~WorksOn(c, p)'
      /\ Role(c) /\ OwnSet(c) /\ logged \subseteq Conns /\ mine \in [Conns -> SUBSET Rooms]
      /\ p = <<p[1], p[2]>>
  BY ComesAndGoes DEF DurableInv, Own, Workers, Inv, Types, Pairs
<1>2. pc'[c] \notin {"drop", "free"}
  BY <1>1, TrackFacts
<1>3. \/ RestoreSet(c) \/ DbError(c) \/ KickMember(c) \/ JoinMemory(c) \/ AddFind(c)
      \/ AddMemory(c) \/ RemoveMemory(c) \/ SweepDone(c)
  <2>1. ~(\E d \in Conns : Sweep(c, d))
    BY <1>1, <1>2, Pcs, Fields DEF WorksOn
  <2>2. ~RestoreRead(c)
    BY <1>1, Pcs DEF WorksOn
  <2>3. ~RemoveFetch(c) /\ ~RemoveDb(c) /\ ~DeleteSnapshot(c)
    <3>1. RemoveDb(c) => job' = job
      BY DEF RemoveDb
    <3> QED BY <1>1, <3>1, Pcs, Fields DEF WorksOn
  <2> QED BY <1>1, <2>1, <2>2, <2>3 DEF Goes, WorksOn
<1>4. rows' = rows /\ logged' = logged /\ unrestored' \subseteq unrestored \cup {c}
      /\ (unrestored \subseteq unrestored' \/ RestoreSet(c))
  BY <1>3 DEF RestoreSet, DbError, DbFails, KickMember, JoinMemory, AddFind, AddMemory,
              RemoveMemory, SweepDone
<1>5. claim[p] # "open" /\ p \notin raced /\ ~Overlap(p) /\ Knows(c, p)
  BY <1>1, <1>4, TrackFacts DEF Kept
<1>6. Sessions(p[1])' = Sessions(p[1])
  BY <1>4 DEF Sessions
<1> SUFFICES ASSUME NEW d \in Sessions(p[1]), d \notin unrestored' PROVE Settled(d, p)'
  BY <1>6 DEF Agreed
<1>7. d \in Conns /\ d \in logged /\ Owner[d] = p[1]
  BY <1>1 DEF Sessions
<1>8. Restoring(d) => d = c
  BY <1>5, <1>7, Overlaps DEF Workers, WorksOn, Restoring
<1>9. ASSUME pc[c] \notin Between, mine'[d] = mine[d], d \notin unrestored, d # c \/ ~Restoring(c)
      PROVE  Settled(d, p)'
  BY <1>4, <1>5, <1>9, StillSettled DEF Settled
<1>10. CASE RestoreSet(c)
  <2>1. pc[c] = "restored" /\ mine' = [mine EXCEPT ![c] = job[c].found] /\ unrestored' = unrestored \ {c}
    BY <1>1, <1>10, Pcs DEF RestoreSet, RestoredSet
  <2>2. CASE d = c
    BY <1>1, <1>4, <1>5, <1>7, <2>1, <2>2 DEF Knows, Settled
  <2>3. CASE d # c
    BY <1>1, <1>9, <2>1, <2>3 DEF Between
  <2> QED BY <2>2, <2>3
<1>11. CASE DbError(c) \/ KickMember(c)
  <2>1. mine' = mine /\ pc[c] \notin Between /\ d \notin unrestored
    BY <1>1, <1>4, <1>11, Pcs DEF DbError, DbFails, KickMember, Between
  <2>2. Restoring(c) => c \in unrestored'
    <3>1. Restoring(c) => DbError(c) /\ pc[c] = "restore"
      BY <1>1, <1>11, Pcs DEF Restoring
    <3> QED BY <3>1 DEF DbError, DbFails
  <2> QED BY <1>9, <2>1, <2>2
<1>12. CASE JoinMemory(c)
  <2>1. pc[c] = "joined" /\ p = <<job[c].who, job[c].room>> /\ job[c].who = Owner[c]
    BY <1>1, <1>12, Pcs DEF WorksOn, Role
  <2>2. c \in keyed /\ mine' = [mine EXCEPT ![c] = @ \cup {job[c].room}]
    BY <1>1, <1>2, <1>12, <2>1 DEF JoinMemory, Finish, Goto, Inv, Types
  <2>3. c \in Sessions(p[1]) /\ ~Restoring(c)
    BY <1>1, <2>1, <2>2 DEF OwnSet, AtRest, Sessions, Restoring
  <2>4. d = c
    BY <1>5, <2>3, Overlaps
  <2> QED BY <1>1, <1>4, <1>5, <2>1, <2>2, <2>4 DEF Knows, Settled
<1>13. CASE AddFind(c)
  <2>1. pc[c] = "added" /\ p = <<job[c].who, job[c].room>> /\ pc'[c] # "addMemory"
    <3>1. pc[c] = "added" /\ p = <<job[c].who, job[c].room>>
      BY <1>1, <1>13, Pcs DEF WorksOn
    <3> QED BY <1>1, <1>13, <3>1, Fields DEF WorksOn
  <2>2. Sessions(p[1]) = {}
    BY <1>1, <1>13, <2>1 DEF AddFind, Goto, Inv, Types
  <2> QED BY <2>2
<1>14. CASE AddMemory(c)
  <2>1. pc[c] = "addMemory" /\ p = <<job[c].who, job[c].room>> /\ d = job[c].at
    BY <1>1, <1>5, <1>14, Pcs DEF WorksOn, Knows, Alone
  <2>2. d \in keyed
    BY <1>4, <1>7, <1>8, <1>14, <2>1 DEF DurableInv, Own, OwnSet, Restoring, AddMemory
  <2>3. p[2] \in mine'[d]
    BY <1>1, <1>7, <1>14, <2>1, <2>2 DEF AddMemory
  <2> QED BY <1>4, <1>5, <2>1, <2>3 DEF Knows, Settled
<1>15. CASE RemoveMemory(c)
  <2>1. pc[c] = "removed" /\ p = <<job[c].who, job[c].room>> /\ d = job[c].at
    BY <1>1, <1>5, <1>15, Pcs DEF WorksOn, Knows, Alone
  <2>2. mine' = AfterRemove(c)
    BY <1>1, <1>2, <1>15 DEF RemoveMemory, Finish, Goto, Inv, Types
  <2>3. p[2] \notin mine'[d]
    BY <1>1, <1>7, <2>1, <2>2 DEF AfterRemove
  <2> QED BY <1>4, <1>5, <2>1, <2>3 DEF Knows, Settled
<1>16. CASE SweepDone(c)
  <2>1. pc[c] = "sweep" /\ mine' = mine /\ job[c].todo = {} /\ unrestored' = unrestored
    BY <1>1, <1>16, Pcs DEF SweepDone
  <2> QED BY <1>4, <1>5, <2>1 DEF Knows, Settled
<1> QED BY <1>3, <1>10, <1>11, <1>12, <1>13, <1>14, <1>15, <1>16

\* A step of a handler that is at work on the pair.
LEMMA Worker ==
  ASSUME DurableInv, NEW c \in Conns, Acts(c), Track, NEW p \in Pairs,
         c \in Workers(p) \/ c \in Workers(p)'
  PROVE  Kept(p)'
<1>1. Kept(p)
  BY DEF DurableInv
<1>2. ASSUME p \notin raced', NEW w \in Workers(p)' PROVE Knows(w, p)'
  <2>1. p \notin raced /\ ~Overlap(p) /\ ~Overlap(p)'
    BY <1>1, <1>2, TrackFacts DEF Kept
  <2>2. w = c
    <3>1. ASSUME w # c PROVE w \in Workers(p)
      <4>1. w \in Conns /\ WorksOn(w, p)'
        BY <1>2 DEF Workers
      <4>2. pc'[w] = pc[w] /\ job'[w] = job[w]
        BY <3>1, <4>1, Others DEF DurableInv
      <4> QED BY <4>1, <4>2 DEF Workers, WorksOn
    <3> QED BY <1>2, <2>1, <3>1, Overlaps
  <2>3. c \in Workers(p) => Knows(c, p)
    BY <1>1, <2>1 DEF Kept
  <2> QED BY <1>2, <2>1, <2>2, <2>3, WorkerKnows
<1>3. ASSUME claim'[p] # "open" PROVE Agreed(p)'
  <2>1. CASE c \in Workers(p)' /\ pc'[c] \in Between
    BY <2>1 DEF Agreed
  <2>2. CASE c \in Workers(p)' /\ pc'[c] \notin Between
    <3>1. pc'[c] \in {"restore", "restored", "kick", "fetch", "remove"}
      BY <2>2 DEF Workers, WorksOn, Between
    <3> QED BY <1>3, <2>2, <3>1, WorkerBegins
  <2>3. CASE c \notin Workers(p)'
    BY <1>3, <2>3, WorkerEnds
  <2> QED BY <2>1, <2>2, <2>3
<1> QED BY <1>1, <1>2, <1>3, TrackFacts DEF Kept

LEMMA CrashKept == ASSUME DurableInv, Crash, Track, NEW p \in Pairs PROVE Kept(p)'
<1>1. Kept(p) /\ Sessions(p[1])' = {} /\ Workers(p)' = {} /\ rows' = rows
  BY DEF DurableInv, Crash, Sessions, Workers, WorksOn
<1>2. \A c \in Workers(p) : pc'[c] = "free"
  BY DEF Crash, Workers
<1> QED BY <1>1, <1>2, TrackFacts DEF Kept, Agreed

\* The invariant is inductive.
LEMMA DurableStep == ASSUME DurableInv, [Next]_vars PROVE DurableInv'
<1>1. Inv' /\ HistoryOK'
  BY StepInv, HistoryInv DEF DurableInv
<1>2. CASE UNCHANGED vars
  <2>1. Own'
    BY <1>2 DEF vars, DurableInv, Own, Role, OwnSet, Restoring
  <2>2. ASSUME NEW p \in Pairs PROVE Kept(p)'
    <3>1. Kept(p) /\ UNCHANGED <<pc, job, logged, rows, ids, mine, unrestored, claim, raced>>
      BY <1>2 DEF vars, history, DurableInv
    <3>2. Workers(p)' = Workers(p) /\ Sessions(p[1])' = Sessions(p[1])
      BY <3>1 DEF Workers, WorksOn, Sessions
    <3>3. Overlap(p)' <=> Overlap(p)
      BY <3>1, <3>2 DEF Overlap, Restoring
    <3>4. \A c \in Workers(p) : Knows(c, p) => Knows(c, p)'
      BY <3>1, <3>2 DEF Knows, Alone, SameRoom
    <3>5. Agreed(p) => Agreed(p)'
      BY <3>1, <3>2 DEF Agreed, Settled, Restoring
    <3> QED BY <3>1, <3>2, <3>3, <3>4, <3>5 DEF Kept
  <2> QED BY <1>1, <2>1, <2>2 DEF DurableInv, Pairs, Plain
<1>3. ASSUME NEW c \in Conns, Acts(c), Track PROVE Own' /\ \A p \in Pairs : Kept(p)'
  <2>1. Own'
    BY <1>3, RoleStep, OwnSetStep DEF DurableInv, Own
  <2>2. ASSUME NEW p \in Pairs PROVE Kept(p)'
    BY <1>3, Bystander, Worker
  <2> QED BY <2>1, <2>2
<1>4. ASSUME Crash, Track PROVE Own' /\ \A p \in Pairs : Kept(p)'
  <2>1. Own'
    BY <1>4 DEF Crash, Own, Role, OwnSet, AtRest
  <2> QED BY <1>4, <2>1, CrashKept
<1> QED BY <1>1, <1>2, <1>3, <1>4 DEF Next, Step, Acts, DurableInv

\* No connection is at work at first, and nobody is in a room.
LEMMA DurableInit == ASSUME Init PROVE DurableInv
<1>1. Inv /\ HistoryOK
  BY InitInv DEF Init, HistoryOK
<1>2. Own
  BY DEF Init, Own, Role, OwnSet, AtRest
<1>3. \A p \in Pairs : Workers(p) = {} /\ Sessions(p[1]) = {} /\ claim[p] = "out"
  BY DEF Init, Workers, WorksOn, Sessions
<1>4. \A p \in Pairs : Kept(p)
  BY <1>3 DEF Init, Kept, Agreed, Overlap
<1> QED BY <1>1, <1>2, <1>4 DEF DurableInv

\* What one handler alone decided about a membership holds in room_members and in
\* self.client_rooms until the next decision, whatever else goes on, fails or crashes.
THEOREM DecisionsAreDurable == Spec => []Durable
<1>1. ASSUME DurableInv PROVE Durable
  <2> SUFFICES ASSUME NEW p \in Pairs, claim[p] # "open", Workers(p) = {}
               PROVE  /\ p \in rows <=> claim[p] = "in"
                      /\ \A c \in Sessions(p[1]) \ unrestored :
                           p[2] \in mine[c] <=> claim[p] = "in"
    BY DEF Durable
  <2>1. (p \in rows <=> claim[p] = "in") /\ Agreed(p)
    BY <1>1 DEF DurableInv, Kept
  <2>2. \A c \in Sessions(p[1]) \ unrestored : ~Restoring(c)
    BY <1>1 DEF Restoring, Workers, WorksOn, Sessions, DurableInv, Inv, Types
  <2> QED BY <2>1, <2>2 DEF Agreed, Settled
<1> QED BY <1>1, DurableInit, DurableStep, PTL DEF Spec

-----------------------------------------------------------------------------
(* Refinement *)

\* The points at which a handler holds the number of the room it looked up.
Looked == {"join", "createJoin", "add", "remove"}

\* How a handler comes to such a point.
LEMMA LookUp ==
  ASSUME Inv, NEW c \in Conns, Acts(c), pc'[c] \in Looked
  PROVE  /\ pc[c] \notin Looked /\ UNCHANGED db
         /\ job'[c].who \in Users /\ job'[c].room \in Rooms
         /\ job'[c].id = ids[job'[c].room]
         /\ pc'[c] # "remove" => job'[c].id # 0
<1>1. job[c] \in Job /\ ids \in [Rooms -> Nat] /\ job \in [Conns -> Job] /\ pc \in [Conns -> Labels]
  BY DEF Inv, Types
<1>2. JoinFetch(c) \/ RemoveFetch(c) \/ \E u \in Users, r \in Rooms : Add(c, u, r)
  BY Pcs DEF Acts, Handler, Client, Looked, AfterError
<1>3. CASE JoinFetch(c)
  <2>1. job[c].who \in Users /\ job[c].room \in Rooms
    BY <1>3 DEF JoinFetch, Inv, Locals, AtRoom, AtUser
  <2>2. ids[job[c].room] # 0 /\ job' = [job EXCEPT ![c].id = ids[job[c].room]]
    BY <1>1, <1>3 DEF JoinFetch, Finish, Goto, Looked
  <2>3. job'[c].who = job[c].who /\ job'[c].room = job[c].room /\ job'[c].id = ids[job[c].room]
    BY <1>1, <2>2 DEF Job
  <2> QED BY <1>3, <2>1, <2>2, <2>3 DEF JoinFetch, Looked
<1>4. CASE RemoveFetch(c)
  <2>1. job[c].who \in Users /\ job[c].room \in Rooms
    BY <1>4 DEF RemoveFetch, Inv, Locals, AtRoom, AtUser
  <2>2. job' = [job EXCEPT ![c].id = ids[job[c].room]] /\ pc'[c] = "remove"
    BY <1>4, Pcs DEF RemoveFetch
  <2>3. job'[c].who = job[c].who /\ job'[c].room = job[c].room /\ job'[c].id = ids[job[c].room]
    BY <1>1, <2>2 DEF Job
  <2> QED BY <1>4, <2>1, <2>2, <2>3 DEF RemoveFetch, Looked
<1>5. ASSUME NEW u \in Users, NEW r \in Rooms, Add(c, u, r)
      PROVE  /\ pc[c] \notin Looked /\ UNCHANGED db
             /\ job'[c].who = u /\ job'[c].room = r /\ job'[c].id = ids[r] /\ ids[r] # 0
  BY <1>1, <1>5 DEF Add, NoJob, Looked
<1> QED BY <1>2, <1>3, <1>4, <1>5

\* No two rooms have one number, none has a number that is yet to be used, and the number
\* that a handler holds is that of its room or of none.
Numbered ==
  /\ \A r \in Rooms : ids[r] <= made
  /\ \A q, r \in Rooms : ids[q] = ids[r] /\ ids[r] # 0 => q = r
  /\ \A c \in Conns : pc[c] \in Looked =>
       /\ job[c].id <= made
       /\ \A q \in Rooms : ids[q] = job[c].id /\ ids[q] # 0 => q = job[c].room

LEMMA NumberedStep == ASSUME Inv, Numbered, [Next]_vars PROVE Numbered'
<1> ids \in [Rooms -> Nat] /\ made \in Nat /\ \A c \in Conns : job[c].id \in Nat
  BY DEF Inv, Types, Job
<1> USE DEF Numbered
<1>1. ASSUME NEW c \in Conns, Acts(c) PROVE Numbered'
  <2>1. CASE UNCHANGED db
    <3>1. ASSUME NEW d \in Conns, pc'[d] \in Looked
          PROVE  /\ job'[d].id <= made
                 /\ \A q \in Rooms : ids[q] = job'[d].id /\ ids[q] # 0 => q = job'[d].room
      <4>1. CASE d = c BY <1>1, <3>1, <4>1, LookUp
      <4>2. CASE d # c BY <1>1, <3>1, <4>2, Others
      <4> QED BY <4>1, <4>2
    <3> QED BY <2>1, <3>1
  <2>2. ASSUME ~UNCHANGED db, NEW d \in Conns, pc'[d] \in Looked
        PROVE  pc[d] \in Looked /\ job'[d] = job[d]
    BY <1>1, <2>2, LookUp, Others
  <2>3. ASSUME NEW r \in Rooms, Create(c, r), ~UNCHANGED db PROVE Numbered'
    <3>1. ids' = [ids EXCEPT ![r] = made + 1] /\ made' = made + 1 BY <2>3 DEF Create
    <3>2. \A q \in Rooms : ids'[q] = IF q = r THEN made + 1 ELSE ids[q] BY <3>1
    <3> QED BY <2>2, <2>3, <3>1, <3>2
  <2>4. ASSUME NEW r \in Rooms, Delete(c, r), ~UNCHANGED db PROVE Numbered'
    <3>1. ids' = [ids EXCEPT ![r] = 0] /\ made' = made BY <2>4 DEF Delete
    <3>2. \A q \in Rooms : ids'[q] = IF q = r THEN 0 ELSE ids[q] BY <3>1
    <3> QED BY <2>2, <2>4, <3>1, <3>2
  <2>5. CASE (JoinDb(c) \/ AddDb(c) \/ RemoveDb(c)) /\ ~UNCHANGED db
    <3>1. UNCHANGED <<ids, made>> BY <2>5 DEF JoinDb, AddDb, RemoveDb
    <3> QED BY <2>2, <2>5, <3>1
  <2> QED BY <1>1, <2>1, <2>3, <2>4, <2>5, DbSteps
<1>2. CASE Crash BY <1>2 DEF Crash, Looked
<1>3. CASE UNCHANGED vars BY <1>3 DEF vars
<1> QED BY <1>1, <1>2, <1>3 DEF Next, Step, Acts

\* What the mapping makes of the tables.
Live == {ids[r] : r \in Rooms} \ {0}
Roll == {<<p[1], ids[p[2]]>> : p \in rows}

LEMMA AskedFacts ==
  ASSUME NEW c \in Conns
  PROVE  /\ pc[c] \in Looked =>
              Asked(c) = [to   |-> IF pc[c] = "remove" THEN "leave" ELSE "enter",
                          user |-> job[c].who, room |-> job[c].id]
         /\ pc[c] \notin Looked => Asked(c) = Tables!NoRequest
BY DEF Asked, Entering, Looked, Tables!NoRequest

\* A step of one handler changes its own request only.
LEMMA AskedStep ==
  ASSUME Inv, NEW c \in Conns, Acts(c), NEW a, a = Asked(c)'
  PROVE  [d \in Conns |-> Asked(d)]' = [[d \in Conns |-> Asked(d)] EXCEPT ![c] = a]
<1>1. \A d \in Conns \ {c} : Asked(d)' = Asked(d) BY Others DEF Asked, Entering
<1> QED BY <1>1

\* The handler looks up the room of its request.
LEMMA AskStep ==
  ASSUME Inv, NEW c \in Conns, Acts(c), pc'[c] \in Looked
  PROVE  Tables!Next
<1>1. PICK way, u, n : /\ way = IF pc'[c] = "remove" THEN "leave" ELSE "enter"
                       /\ u = job'[c].who /\ n = job'[c].id
  OBVIOUS
<1>2. Asked(c)' = [to |-> way, user |-> u, room |-> n]
  BY <1>1 DEF Asked, Entering, Looked
<1>3. PICK r \in Rooms : n = ids[r] BY <1>1, LookUp
<1>4. ids \in [Rooms -> Nat] BY DEF Inv, Types
<1>5. u \in Users /\ (n \in Live \/ (way = "leave" /\ n = 0))
  BY <1>1, <1>3, <1>4, LookUp DEF Live
<1>6. [d \in Conns |-> Asked(d)]'
      = [[d \in Conns |-> Asked(d)] EXCEPT ![c] = [to |-> way, user |-> u, room |-> n]]
  BY <1>2, AskedStep
<1>7. Asked(c) = Tables!NoRequest /\ UNCHANGED db BY LookUp, AskedFacts
<1>8. Tables!Ask(c, way, u, n)
  BY <1>5, <1>6, <1>7 DEF Tables!Ask, Live
<1>9. way \in {"enter", "leave"} BY <1>1
<1> QED BY <1>5, <1>8, <1>9 DEF Tables!Next, Live

\* A request that is refused, or gives up, or has looked up nothing yet.
LEMMA QuietAsked ==
  ASSUME Inv, NEW c \in Conns, Acts(c), UNCHANGED db, pc'[c] \notin Looked
  PROVE  Tables!Next
<1>1. Asked(c)' = Tables!NoRequest BY DEF Asked, Entering, Looked, Tables!NoRequest
<1>2. [d \in Conns |-> Asked(d)]'
      = [[d \in Conns |-> Asked(d)] EXCEPT ![c] = Tables!NoRequest]
  BY <1>1, AskedStep
<1>3. Tables!GiveUp({c}) BY <1>2 DEF Tables!GiveUp
<1>4. {c} \in SUBSET Conns OBVIOUS
<1> QED BY <1>3, <1>4 DEF Tables!Next

\* The row that is written or deleted is that of the room whose number was read: where
\* that room has gone, no row is written, and there is none to delete.
LEMMA RowStep ==
  ASSUME Inv, Numbered, NEW c \in Conns, JoinDb(c) \/ AddDb(c) \/ RemoveDb(c)
  PROVE  Tables!Next
<1>1. PICK u, r, n : u = job[c].who /\ r = job[c].room /\ n = job[c].id OBVIOUS
<1>2. /\ u \in Users /\ r \in Rooms /\ ids \in [Rooms -> Nat] /\ rows \subseteq Users \X Rooms
      /\ \A p \in rows : ids[p[2]] # 0
  BY <1>1 DEF Inv, Types, Locals, AtRoom, AtUser, JoinDb, AddDb, RemoveDb, RowsHaveRooms
<1>3. Acts(c) /\ ids' = ids /\ made' = made /\ pc[c] \in Looked /\ pc'[c] \notin Looked
  BY Pcs DEF Acts, Handler, JoinDb, AddDb, RemoveDb, Looked
<1>4. Asked(c)' = Tables!NoRequest BY <1>3 DEF Asked, Entering, Looked, Tables!NoRequest
<1>5. [d \in Conns |-> Asked(d)]'
      = [[d \in Conns |-> Asked(d)] EXCEPT ![c] = Tables!NoRequest]
  BY <1>3, <1>4, AskedStep
<1>6. Asked(c) = [to |-> IF pc[c] = "remove" THEN "leave" ELSE "enter", user |-> u, room |-> n]
  BY <1>1, <1>3, AskedFacts
<1>7. CASE JoinDb(c) \/ AddDb(c)
  <2>1. n = ids[r] /\ n # 0 /\ pc[c] # "remove" /\ rows' = rows \cup {<<u, r>>}
    BY <1>1, <1>7 DEF JoinDb, AddDb, SameRoom, InsertRow, Inv, Locals
  <2>2. Roll' = Roll \cup {<<u, n>>}
    <3>1. Roll' = {<<p[1], ids[p[2]]>> : p \in rows \cup {<<u, r>>}} BY <1>3, <2>1 DEF Roll
    <3>2. <<<<u, r>>[1], ids[<<u, r>>[2]]>> = <<u, n>> BY <2>1
    <3>3. \A q : q \in Roll' <=> q \in Roll \cup {<<u, n>>} BY <3>1, <3>2 DEF Roll
    <3> QED BY <3>3
  <2>3. n \in Live BY <1>2, <2>1 DEF Live
  <2>4. Tables!Enter(c)
    BY <1>3, <1>5, <1>6, <2>1, <2>2, <2>3 DEF Tables!Enter, Tables!Done, Live, Roll
  <2> QED BY <2>4 DEF Tables!Next
<1>8. CASE RemoveDb(c)
  <2>1. pc[c] = "remove" /\ rows' = IF n = ids[r] THEN rows \ {<<u, r>>} ELSE rows
    BY <1>1, <1>8 DEF RemoveDb, SameRoom
  <2>2. \A p \in rows : ids[p[2]] = n => p[2] = r
    BY <1>1, <1>2, <1>3 DEF Numbered
  <2>3. Roll' = Roll \ {<<u, n>>}
    <3>1. \A p \in rows : p = <<p[1], p[2]>> BY <1>2
    <3>2. CASE n = ids[r]
      <4>1. rows' = rows \ {<<u, r>>} BY <2>1, <3>2
      <4>2. \A p \in rows : p # <<u, r>> <=> <<p[1], ids[p[2]]>> # <<u, n>>
        BY <2>2, <3>1, <3>2
      <4> QED BY <1>3, <4>1, <4>2 DEF Roll
    <3>3. CASE n # ids[r]
      <4>1. \A p \in rows : <<p[1], ids[p[2]]>> # <<u, n>> BY <2>2, <3>3
      <4> QED BY <1>3, <2>1, <3>3, <4>1 DEF Roll
    <3> QED BY <3>2, <3>3
  <2>4. Tables!Leave(c)
    BY <1>3, <1>5, <1>6, <2>1, <2>3 DEF Tables!Leave, Tables!Done, Roll
  <2> QED BY <2>4 DEF Tables!Next
<1> QED BY <1>7, <1>8

\* A room is created with a number of its own, and deleted with its rows.
LEMMA RoomStep ==
  ASSUME Inv, Numbered, NEW c \in Conns, NEW r \in Rooms, Create(c, r) \/ Delete(c, r)
  PROVE  [Tables!Next]_Tables!vars
<1>1. /\ ids \in [Rooms -> Nat] /\ made \in Nat /\ rows \subseteq Users \X Rooms
      /\ \A p \in rows : ids[p[2]] # 0
  BY DEF Inv, Types, RowsHaveRooms
<1>2. Acts(c) /\ pc[c] \notin Looked /\ pc'[c] \notin Looked
  BY Pcs DEF Acts, Client, Looked
<1>3. [d \in Conns |-> Asked(d)]' = [d \in Conns |-> Asked(d)]
  <2>1. \A d \in Conns : Asked(d)' = Asked(d)
    BY <1>2, Others DEF Asked, Entering, Looked
  <2> QED BY <2>1
<1>4. CASE Create(c, r)
  <2>1. ids[r] = 0 /\ ids' = [ids EXCEPT ![r] = made + 1] /\ made' = made + 1 /\ rows' = rows
    BY <1>4 DEF Create
  <2>2. Live' = Live \cup {made + 1} BY <1>1, <2>1 DEF Live
  <2>3. Roll' = Roll
    <3>1. \A p \in rows : ids'[p[2]] = ids[p[2]] BY <1>1, <2>1
    <3> QED BY <2>1, <3>1 DEF Roll
  <2>4. Tables!Create BY <1>3, <2>1, <2>2, <2>3 DEF Tables!Create, Live, Roll
  <2> QED BY <2>4 DEF Tables!Next
<1>5. CASE Delete(c, r)
  <2>1. PICK n : n = ids[r] OBVIOUS
  <2>2. ids' = [ids EXCEPT ![r] = 0] /\ rows' = {p \in rows : p[2] # r} /\ made' = made
    BY <1>5 DEF Delete
  <2>3. CASE n = 0
    <3>1. ids' = ids /\ rows' = rows BY <1>1, <2>1, <2>2, <2>3
    <3> QED BY <1>3, <2>2, <3>1 DEF Tables!vars
  <2>4. CASE n # 0
    <3>1. n \in Live /\ Live' = Live \ {n}
      BY <1>1, <2>1, <2>2, <2>4 DEF Live, Numbered
    <3>2. \A p \in rows : p[2] # r <=> ids[p[2]] # n BY <1>1, <2>1, <2>4 DEF Numbered
    <3>3. \A p \in rows : p[2] # r => ids'[p[2]] = ids[p[2]] BY <1>1, <2>2
    <3>4. Roll' = {m \in Roll : m[2] # n} BY <2>2, <3>2, <3>3 DEF Roll
    <3>5. Tables!Delete(n) BY <1>3, <2>2, <3>1, <3>4 DEF Tables!Delete, Live, Roll
    <3> QED BY <3>1, <3>5 DEF Tables!Next, Live
  <2> QED BY <2>3, <2>4
<1> QED BY <1>4, <1>5

LEMMA RosterStep == ASSUME Inv, Numbered, [Next]_vars PROVE [Tables!Next]_Tables!vars
<1>1. ASSUME NEW c \in Conns, Acts(c) PROVE [Tables!Next]_Tables!vars
  <2>1. CASE pc'[c] \in Looked BY <1>1, <2>1, AskStep
  <2>2. CASE UNCHANGED db /\ pc'[c] \notin Looked BY <1>1, <2>2, QuietAsked
  <2> QED BY <1>1, <2>1, <2>2, DbSteps, RowStep, RoomStep
<1>2. CASE Crash
  <2>1. \A d \in Conns : Asked(d)' = Tables!NoRequest
    BY <1>2 DEF Crash, Asked, Entering, Tables!NoRequest
  <2>2. Tables!GiveUp(Conns) BY <1>2, <2>1 DEF Crash, Tables!GiveUp
  <2> QED BY <2>2 DEF Tables!Next
<1>3. CASE UNCHANGED vars
  BY <1>3 DEF vars, Tables!vars, Asked, Entering
<1> QED BY <1>1, <1>2, <1>3 DEF Next, Step, Acts

\* The tables of rooms and members implement Roster: a request changes the membership of
\* the room that it looked up, however rooms of the same name are deleted and created
\* between its two calls, for any connections, users and rooms, across faults and crashes.
THEOREM ImplementsRoster == Spec => IsRoster
<1>1. Init => Numbered BY DEF Init, Numbered, Looked
<1>2. Init => Tables!Init
  BY DEF Init, Tables!Init, Asked, Entering, Tables!NoRequest
<1>3. Inv /\ Numbered /\ [Next]_vars => Numbered' BY NumberedStep
<1>4. Inv /\ Numbered /\ [Next]_vars => [Tables!Next]_Tables!vars BY RosterStep
<1> QED BY <1>1, <1>2, <1>3, <1>4, InvHolds, PTL DEF Spec, IsRoster, Tables!Spec

=============================================================================

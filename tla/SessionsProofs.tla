--------------------------- MODULE SessionsProofs ---------------------------
(***************************************************************************)
(* Theorems about Sessions, for any sets of connections, users and roles,  *)
(* any logins and grants, with the monitor, database faults and crashes.   *)
(***************************************************************************)
EXTENDS Sessions, TLAPS

\* The types, with what the locals hold where they are used.
Inv == TypeOK /\ Locals

USE DEF net, db, RoleOf, MayLogIn, PoppedSocket, PopSession

-----------------------------------------------------------------------------

\* No connection and no session at first.
LEMMA InitInv == ASSUME Init PROVE Inv
BY SessionsAssumption, NoSessionAssumption
DEF Init, Inv, TypeOK, Locals, HasSession, MonIdle, Monitor, NoJob, Job, Labels, Statuses

\* What a client does leaves the invariant alone.
LEMMA ClientInv ==
  ASSUME Inv, NEW c \in Conns, Client(c) PROVE Inv'
<1> USE SessionsAssumption, NoSessionAssumption
        DEF Inv, TypeOK, Locals, HasSession, Goto, Labels
<1>1. CASE Accept(c) BY <1>1 DEF Accept
<1>2. CASE ClientClose(c) BY <1>2 DEF ClientClose
<1>3. CASE Receive(c)
  <2>1. CASE HasSession(c) /\ sessions[c].status = "Idle"
    <3> DEFINE s == [sessions[c] EXCEPT !.status = "Online"]
               j == [job[c] EXCEPT !.user = sessions[c].user]
    <3>1. s \in Session /\ j \in Job /\ j.user \in Users
      BY <2>1 DEF Session, Job
    <3>2. sessions' = [sessions EXCEPT ![c] = s] /\ job' = [job EXCEPT ![c] = j]
      BY <1>3, <2>1 DEF Receive
    <3>3. /\ sessions' \in [Conns -> Session \cup {NoSession}]
          /\ \A d \in Conns : sessions'[d] # NoSession <=> sessions[d] # NoSession
      BY <2>1, <3>1, <3>2
    <3>4. pc' = [pc EXCEPT ![c] = "wake"]
      BY <1>3, <2>1 DEF Receive
    <3> HIDE DEF s, j
    <3> QED BY <1>3, <3>1, <3>2, <3>3, <3>4 DEF Receive, Monitor
  <2>2. CASE ~(HasSession(c) /\ sessions[c].status = "Idle")
    BY <1>3, <2>2 DEF Receive
  <2> QED BY <2>1, <2>2
<1> QED BY <1>1, <1>2, <1>3 DEF Client

\* The steps of a handler keep it: each sets the locals that the next one uses.
LEMMA HandlerInv ==
  ASSUME Inv, NEW c \in Conns, Handler(c) PROVE Inv'
<1> USE SessionsAssumption, NoSessionAssumption
        DEF Inv, TypeOK, Locals, HasSession, Goto, Labels
<1>1. CASE HangUp(c) BY <1>1 DEF HangUp
<1>2. CASE Reply(c) BY <1>2 DEF Reply
<1>3. CASE LoginRole(c) BY <1>3 DEF LoginRole, Job
<1>4. CASE LoginSession(c) BY <1>4 DEF LoginSession, Session, Job, Detach, Monitor
<1>5. CASE LogoutPop(c) BY <1>5 DEF LogoutPop, Detach, Monitor
<1>6. CASE WritePresence(c) BY <1>6 DEF WritePresence, Statuses, NoJob, Job
<1>7. CASE Drop(c) BY <1>7 DEF Drop, NoJob, Job
<1>8. CASE Pop(c)
  <2> DEFINE a == job[c].addr
  <2>1. a \in Conns /\ sessions' = [sessions EXCEPT ![a] = NoSession]
    BY <1>8 DEF Pop
  <2>2. /\ job' \in [Conns -> Job] /\ job'[c].addr = a
        /\ HasSession(a) => job'[c].user \in Users
    <3> DEFINE s == IF a \in clients THEN a ELSE NoConn
               u == IF HasSession(a) THEN sessions[a].user ELSE NoUser
    <3>1. s \in Conns \cup {NoConn} /\ u \in Users \cup {NoUser}
      BY <2>1 DEF Session
    <3>2. HasSession(a) => u \in Users
      BY <2>1 DEF Session
    <3> DEFINE j == [NoJob EXCEPT !.addr = a, !.sock = s, !.user = u]
    <3>3. job' = [job EXCEPT ![c] = j]
      BY <1>8 DEF Pop
    <3> HIDE DEF s, u
    <3>4. j \in Job /\ j.addr = a /\ j.user = u
      BY <2>1, <3>1 DEF NoJob, Job
    <3> HIDE DEF j
    <3> QED BY <3>2, <3>3, <3>4
  <2>3. pc' \in [Conns -> Labels] /\ pc'[c] = IF HasSession(a) THEN "offline" ELSE "close"
    BY <1>8 DEF Pop
  <2>4. \A d \in Conns \ {c} : job'[d] = job[d] /\ pc'[d] = pc[d]
    BY <1>8 DEF Pop
  <2>5. mon' \in Monitor /\ mon'.conn # a
        /\ (mon'.conn # NoConn => mon.conn = mon'.conn)
    <3> DEFINE m == IF mon.conn = a THEN NoConn ELSE mon.conn
    <3>1. mon' = [mon EXCEPT !.conn = m]
      BY <1>8 DEF Pop, Detach
    <3>2. m \in Conns \cup {NoConn} /\ m # a /\ (m # NoConn => m = mon.conn)
      BY <2>1 DEF Monitor
    <3> HIDE DEF m
    <3> QED BY <3>1, <3>2 DEF Monitor
  <2>6. mon'.at = mon.at /\ mon'.user = mon.user
    BY <1>8 DEF Pop, Detach, Monitor
  <2>7. Locals'
    BY <2>1, <2>2, <2>3, <2>4, <2>5, <2>6
  <2> QED BY <1>8, <2>1, <2>2, <2>3, <2>5, <2>7 DEF Pop
<1>9. CASE Close(c) BY <1>9 DEF Close, NoJob, Job
<1>10. CASE BanWrite(c) BY <1>10 DEF BanWrite, Statuses
<1>11. CASE BanFind(c)
  <2>1. ASSUME NEW a \in Conns, job' = [job EXCEPT ![c].addr = a], Goto(c, "pop")
        PROVE Inv'
    BY <1>11, <2>1 DEF BanFind, Job
  <2>2. CASE job' = [job EXCEPT ![c] = NoJob] /\ Goto(c, "reply")
    BY <1>11, <2>2 DEF BanFind, NoJob, Job
  <2> QED BY <1>11, <2>1, <2>2 DEF BanFind, Lookup
<1>12. CASE RevokeWrite(c) BY <1>12 DEF RevokeWrite, Statuses, NoJob, Job
<1>13. CASE GrantWrite(c) BY <1>13 DEF GrantWrite, Job
<1>14. CASE GrantFind(c)
  <2>1. ASSUME NEW a \in Conns, job' = [job EXCEPT ![c].addr = a], Goto(c, "grantSet")
        PROVE Inv'
    BY <1>14, <2>1 DEF GrantFind, Job
  <2>2. CASE job' = [job EXCEPT ![c] = NoJob] /\ Goto(c, "reply")
    BY <1>14, <2>2 DEF GrantFind, NoJob, Job
  <2> QED BY <1>14, <2>1, <2>2 DEF GrantFind, Lookup
<1>15. CASE GrantSet(c)
  <2> DEFINE a == job[c].addr
  <2>1. a \in Conns
    BY <1>15 DEF GrantSet
  <2>2. CASE HasSession(a)
    <3>1. [sessions[a] EXCEPT !.role = job[c].role] \in Session
      BY <2>1, <2>2 DEF Session, Job
    <3>2. sessions' = [sessions EXCEPT ![a] = [sessions[a] EXCEPT !.role = job[c].role]]
      BY <1>15, <2>2 DEF GrantSet
    <3>3. /\ sessions' \in [Conns -> Session \cup {NoSession}]
          /\ \A d \in Conns : sessions'[d] # NoSession <=> sessions[d] # NoSession
      BY <2>1, <2>2, <3>1, <3>2
    <3>4. pc' = [pc EXCEPT ![c] = "grantSend"] /\ UNCHANGED job
      BY <1>15, <2>2 DEF GrantSet
    <3>5. UNCHANGED <<net, db, mon, firm, crashes>>
      BY <1>15 DEF GrantSet
    <3> HIDE DEF a
    <3> QED BY <1>15, <3>3, <3>4, <3>5 DEF GrantSet, Monitor
  <2>3. CASE ~HasSession(a)
    BY <1>15, <2>3 DEF GrantSet, NoJob, Job
  <2> QED BY <2>2, <2>3
<1>16. CASE GrantSend(c) BY <1>16 DEF GrantSend, NoJob, Job
<1>17. CASE DbError(c) BY <1>17 DEF DbError, NoJob, Job
<1> QED BY <1>1, <1>2, <1>3, <1>4, <1>5, <1>6, <1>7, <1>8, <1>9, <1>10, <1>11, <1>12, <1>13, <1>14, <1>15, <1>16, <1>17 DEF Handler


\* So does the start of every request.
LEMMA DispatchInv ==
  ASSUME Inv, NEW c \in Conns, Dispatch(c) PROVE Inv'
<1> USE SessionsAssumption, NoSessionAssumption
        DEF Inv, TypeOK, Locals, HasSession, Goto, Labels
<1>1. CASE Answer(c) \/ Raise(c) BY <1>1 DEF Answer, Raise
<1>2. CASE Refuse(c) BY <1>2 DEF Refuse
<1>3. CASE Logout(c) BY <1>3 DEF Logout, Session, Job
<1>4. ASSUME NEW u \in Users, LoginCheck(c, u) PROVE Inv'
  BY <1>4 DEF LoginCheck, Job
<1>5. ASSUME NEW t \in Users, NEW r \in Roles, NEW l \in {"ban", "revoke", "grant"},
             Request(c, t, r, l)
      PROVE Inv'
  <2>1. job' \in [Conns -> Job] /\ job'[c].target = t
    BY <1>5 DEF Request, NoJob, Job
  <2>2. pc' \in [Conns -> Labels] /\ pc'[c] = l
    BY <1>5 DEF Request
  <2>3. \A d \in Conns \ {c} : job'[d] = job[d] /\ pc'[d] = pc[d]
    BY <1>5 DEF Request
  <2> QED BY <1>5, <2>1, <2>2, <2>3 DEF Request
<1>6. \A g \in Grants : g[1] \in Users /\ g[2] \in Roles
  OBVIOUS
<1> QED BY <1>1, <1>2, <1>3, <1>4, <1>5, <1>6 DEF Dispatch, Ban, Revoke, Promote

\* And the presence monitor, whose session is still in the dict.
LEMMA MonitorInv ==
  ASSUME Inv, PresenceMonitor PROVE Inv'
<1> USE SessionsAssumption, NoSessionAssumption
        DEF Inv, TypeOK, Locals, HasSession, Monitor
<1>1. ASSUME NEW c \in Conns, MonitorFind(c) PROVE Inv'
  BY <1>1 DEF MonitorFind, Session
<1>2. CASE MonitorSet
  <2>1. CASE mon.conn = NoConn BY <1>2, <2>1 DEF MonitorSet
  <2>2. CASE mon.conn # NoConn
    <3>1. mon.conn \in Conns /\ sessions[mon.conn] \in Session
      BY <1>2, <2>2 DEF MonitorSet
    <3>2. [sessions[mon.conn] EXCEPT !.status = "Idle"] \in Session
      BY <3>1 DEF Session
    <3>3. sessions' = [sessions EXCEPT ![mon.conn] = [sessions[mon.conn] EXCEPT !.status = "Idle"]]
      BY <1>2, <2>2 DEF MonitorSet
    <3>4. /\ sessions' \in [Conns -> Session \cup {NoSession}]
          /\ \A d \in Conns : sessions[d] # NoSession => sessions'[d] # NoSession
      BY <3>1, <3>2, <3>3
    <3> QED BY <1>2, <3>1, <3>4 DEF MonitorSet
  <2> QED BY <2>1, <2>2
<1>3. CASE MonitorWrite BY <1>3 DEF MonitorWrite, MonIdle, Statuses
<1> QED BY <1>1, <1>2, <1>3 DEF PresenceMonitor

\* The invariant is inductive.
LEMMA NextInv == ASSUME Inv, [Next]_vars PROVE Inv'
<1>1. CASE Crash
  BY <1>1, SessionsAssumption, NoSessionAssumption
  DEF Crash, Inv, TypeOK, Locals, HasSession, MonIdle, Monitor, NoJob, Job, Labels
<1>2. CASE UNCHANGED vars
  BY <1>2 DEF vars, Inv, TypeOK, Locals, HasSession
<1> QED BY <1>1, <1>2, ClientInv, HandlerInv, DispatchInv, MonitorInv DEF Next

\* It holds in every reachable state.
LEMMA InvHolds == Spec => []Inv
<1>1. Init => Inv BY InitInv
<1>2. Inv /\ [Next]_vars => Inv' BY NextInv
<1> QED BY <1>1, <1>2, PTL DEF Spec

\* The types hold in every reachable state: in particular the monitor never
\* marks a session that was popped since it found it, and no step of a handler
\* uses a local that an earlier step has not set.
THEOREM TypeCorrect == Spec => []TypeOK
BY InvHolds, PTL DEF Inv

-----------------------------------------------------------------------------

\* At first there is nothing to clean.
LEMMA ExitInit == ASSUME Init PROVE CleanExit
BY SessionsAssumption DEF Init, CleanExit, HasSession, NoJob, MonIdle

\* Only a handler itself registers its connection and gives it a session.
LEMMA ExitStep == ASSUME Inv, CleanExit, [Next]_vars PROVE CleanExit'
<1> USE SessionsAssumption, NoSessionAssumption
        DEF Inv, TypeOK, Locals, Goto, CleanExit, HasSession
<1>1. ASSUME NEW c \in Conns, Client(c) PROVE CleanExit'
  <2>1. CASE Accept(c) BY <2>1 DEF Accept
  <2>2. CASE ClientClose(c) BY <2>2 DEF ClientClose
  <2>3. CASE Receive(c) BY <2>3 DEF Receive
  <2> QED BY <1>1, <2>1, <2>2, <2>3 DEF Client
<1>2. ASSUME NEW c \in Conns, Dispatch(c) PROVE CleanExit'
  <2>1. CASE Answer(c) \/ Raise(c) BY <2>1 DEF Answer, Raise
  <2>2. CASE Refuse(c) BY <2>2 DEF Refuse
  <2>3. CASE Logout(c) BY <2>3 DEF Logout
  <2>4. ASSUME NEW u \in Users, LoginCheck(c, u) PROVE CleanExit'
    BY <2>4 DEF LoginCheck
  <2>5. ASSUME NEW t \in Users, NEW r \in Roles, NEW l \in {"ban", "revoke", "grant"},
               Request(c, t, r, l)
        PROVE CleanExit'
    BY <2>5 DEF Request, NoJob
  <2>6. \A g \in Grants : g[1] \in Users /\ g[2] \in Roles
    OBVIOUS
  <2> QED BY <1>2, <2>1, <2>2, <2>3, <2>4, <2>5, <2>6 DEF Dispatch, Ban, Revoke, Promote
<1>3. ASSUME NEW c \in Conns, Handler(c) PROVE CleanExit'
  <2>1. CASE HangUp(c) BY <2>1 DEF HangUp
  <2>2. CASE Reply(c) BY <2>2 DEF Reply
  <2>3. CASE LoginRole(c) BY <2>3 DEF LoginRole
  <2>4. CASE LoginSession(c) BY <2>4 DEF LoginSession, Detach
  <2>5. CASE LogoutPop(c) BY <2>5 DEF LogoutPop, Detach
  <2>6. CASE WritePresence(c) BY <2>6 DEF WritePresence, NoJob
  <2>7. CASE Drop(c) BY <2>7 DEF Drop, NoJob
  <2>8. CASE Pop(c) BY <2>8 DEF Pop, NoJob, Detach
  <2>9. CASE Close(c) BY <2>9 DEF Close, NoJob
  <2>10. CASE BanWrite(c) BY <2>10 DEF BanWrite
  <2>11. CASE BanFind(c) BY <2>11 DEF BanFind, Lookup, NoJob
  <2>12. CASE RevokeWrite(c) BY <2>12 DEF RevokeWrite, NoJob
  <2>13. CASE GrantWrite(c) BY <2>13 DEF GrantWrite
  <2>14. CASE GrantFind(c) BY <2>14 DEF GrantFind, Lookup, NoJob
  <2>15. CASE GrantSet(c) BY <2>15 DEF GrantSet, NoJob
  <2>16. CASE GrantSend(c) BY <2>16 DEF GrantSend, NoJob
  <2>17. CASE DbError(c) BY <2>17 DEF DbError, NoJob
  <2> QED BY <1>3, <2>1, <2>2, <2>3, <2>4, <2>5, <2>6, <2>7, <2>8, <2>9, <2>10, <2>11, <2>12, <2>13, <2>14, <2>15, <2>16, <2>17 DEF Handler
<1>4. CASE PresenceMonitor
  BY <1>4 DEF PresenceMonitor, MonitorFind, MonitorSet, MonitorWrite, MonIdle, Monitor
<1>5. CASE Crash BY <1>5 DEF Crash, NoJob, MonIdle
<1>6. CASE UNCHANGED vars BY <1>6 DEF vars
<1> QED BY <1>1, <1>2, <1>3, <1>4, <1>5, <1>6 DEF Next

\* Whatever interleaving of handlers, moderators, monitor, faults and crashes, a
\* handler that has ended has left no socket and no session behind.
THEOREM ExitsAreClean == Spec => []CleanExit
<1>1. Init => CleanExit BY ExitInit
<1>2. Inv /\ CleanExit /\ [Next]_vars => CleanExit' BY ExitStep
<1> QED BY <1>1, <1>2, InvHolds, PTL DEF Spec

-----------------------------------------------------------------------------

\* At first there are no sockets.
LEMMA OwnerInit == ASSUME Init PROVE SocketOwnership
BY SessionsAssumption DEF Init, SocketOwnership, Closing, HasSession, NoJob, MonIdle

\* A socket is popped from the registry under the lock, by one caller.
LEMMA OwnerStep == ASSUME Inv, SocketOwnership, [Next]_vars PROVE SocketOwnership'
<1> USE SessionsAssumption, NoSessionAssumption
        DEF Inv, TypeOK, Locals, Goto, SocketOwnership, Closing, HasSession
<1>1. ASSUME NEW c \in Conns, Client(c) PROVE SocketOwnership'
  <2>1. CASE Accept(c) BY <2>1 DEF Accept
  <2>2. CASE ClientClose(c) BY <2>2 DEF ClientClose
  <2>3. CASE Receive(c) BY <2>3 DEF Receive
  <2> QED BY <1>1, <2>1, <2>2, <2>3 DEF Client
<1>2. ASSUME NEW c \in Conns, Dispatch(c) PROVE SocketOwnership'
  <2>1. CASE Answer(c) \/ Raise(c) BY <2>1 DEF Answer, Raise
  <2>2. CASE Refuse(c) BY <2>2 DEF Refuse
  <2>3. CASE Logout(c) BY <2>3 DEF Logout
  <2>4. ASSUME NEW u \in Users, LoginCheck(c, u) PROVE SocketOwnership'
    BY <2>4 DEF LoginCheck
  <2>5. ASSUME NEW t \in Users, NEW r \in Roles, NEW l \in {"ban", "revoke", "grant"},
               Request(c, t, r, l)
        PROVE SocketOwnership'
    BY <2>5 DEF Request, NoJob
  <2>6. \A g \in Grants : g[1] \in Users /\ g[2] \in Roles
    OBVIOUS
  <2> QED BY <1>2, <2>1, <2>2, <2>3, <2>4, <2>5, <2>6 DEF Dispatch, Ban, Revoke, Promote
<1>3. ASSUME NEW c \in Conns, Handler(c) PROVE SocketOwnership'
  <2>1. CASE HangUp(c) BY <2>1 DEF HangUp
  <2>2. CASE Reply(c) BY <2>2 DEF Reply
  <2>3. CASE LoginRole(c) BY <2>3 DEF LoginRole
  <2>4. CASE LoginSession(c) BY <2>4 DEF LoginSession, Detach
  <2>5. CASE LogoutPop(c) BY <2>5 DEF LogoutPop, Detach
  <2>6. CASE WritePresence(c) BY <2>6 DEF WritePresence, NoJob
  <2>7. CASE Drop(c) BY <2>7 DEF Drop, NoJob
  <2>8. CASE Pop(c) BY <2>8 DEF Pop, NoJob, Detach
  <2>9. CASE Close(c) BY <2>9 DEF Close, NoJob
  <2>10. CASE BanWrite(c) BY <2>10 DEF BanWrite
  <2>11. CASE BanFind(c) BY <2>11 DEF BanFind, Lookup, NoJob
  <2>12. CASE RevokeWrite(c) BY <2>12 DEF RevokeWrite, NoJob
  <2>13. CASE GrantWrite(c) BY <2>13 DEF GrantWrite
  <2>14. CASE GrantFind(c) BY <2>14 DEF GrantFind, Lookup, NoJob
  <2>15. CASE GrantSet(c) BY <2>15 DEF GrantSet, NoJob
  <2>16. CASE GrantSend(c) BY <2>16 DEF GrantSend, NoJob
  <2>17. CASE DbError(c) BY <2>17 DEF DbError, NoJob
  <2> QED BY <1>3, <2>1, <2>2, <2>3, <2>4, <2>5, <2>6, <2>7, <2>8, <2>9, <2>10, <2>11, <2>12, <2>13, <2>14, <2>15, <2>16, <2>17 DEF Handler
<1>4. CASE PresenceMonitor
  BY <1>4 DEF PresenceMonitor, MonitorFind, MonitorSet, MonitorWrite, MonIdle, Monitor
<1>5. CASE Crash BY <1>5 DEF Crash, NoJob, MonIdle
<1>6. CASE UNCHANGED vars BY <1>6 DEF vars
<1> QED BY <1>1, <1>2, <1>3, <1>4, <1>5, <1>6 DEF Next

\* Every open socket is in the registry or in the hands of exactly one closer.
THEOREM SocketsAreOwned == Spec => []SocketOwnership
<1>1. Init => SocketOwnership BY OwnerInit
<1>2. Inv /\ SocketOwnership /\ [Next]_vars => SocketOwnership' BY OwnerStep
<1> QED BY <1>1, <1>2, InvHolds, PTL DEF Spec

-----------------------------------------------------------------------------

\* At first nobody is banned.
LEMMA FirmInit == ASSUME Init PROVE FirmBanHolds
BY SessionsAssumption DEF Init, FirmBanHolds, Serving, SessionOf, HasSession, NoJob, MonIdle

\* Nobody starts to serve a user who was not served, and no status changes.
LEMMA FirmFrame ==
  ASSUME FirmBanHolds, UNCHANGED <<firm, status>>,
         \A u \in firm, d \in Conns :
           SessionOf(d, u)' \/ job'[d].user = u => Serving(u),
         \A u \in firm : mon'.user = u => Serving(u)
  PROVE  FirmBanHolds'
BY DEF FirmBanHolds, Serving

\* Nothing but a revocation lets a firmly banned user in: whoever could write his
\* status would have to serve him.
LEMMA FirmStep == ASSUME Inv, FirmBanHolds, [Next]_vars PROVE FirmBanHolds'
<1> USE SessionsAssumption, NoSessionAssumption
        DEF Inv, TypeOK, Locals, Goto, FirmBanHolds, Serving, SessionOf, HasSession
<1>1. ASSUME NEW c \in Conns, Client(c) PROVE FirmBanHolds'
  <2>1. CASE Accept(c) BY <2>1 DEF Accept
  <2>2. CASE ClientClose(c) BY <2>2 DEF ClientClose
  <2>3. CASE Receive(c)
    <3>1. \A d \in Conns, u \in firm : SessionOf(d, u)' => SessionOf(d, u)
      BY <2>3 DEF Receive, Session
    <3>2. \A d \in Conns, u \in firm : job'[d].user = u => job[d].user = u \/ SessionOf(d, u)
      BY <2>3 DEF Receive, Job
    <3>3. UNCHANGED <<firm, status, mon>>
      BY <2>3 DEF Receive
    <3> QED BY <3>1, <3>2, <3>3, FirmFrame
  <2> QED BY <1>1, <2>1, <2>2, <2>3 DEF Client
<1>2. ASSUME NEW c \in Conns, Dispatch(c) PROVE FirmBanHolds'
  <2>1. CASE Answer(c) \/ Raise(c) BY <2>1 DEF Answer, Raise
  <2>2. CASE Refuse(c) BY <2>2 DEF Refuse
  <2>3. CASE Logout(c) BY <2>3 DEF Logout
  <2>4. ASSUME NEW u \in Users, LoginCheck(c, u) PROVE FirmBanHolds'
    BY <2>4 DEF LoginCheck
  <2>5. ASSUME NEW t \in Users, NEW r \in Roles, NEW l \in {"ban", "revoke", "grant"},
               Request(c, t, r, l)
        PROVE FirmBanHolds'
    BY <2>5 DEF Request, NoJob
  <2>6. \A g \in Grants : g[1] \in Users /\ g[2] \in Roles
    OBVIOUS
  <2> QED BY <1>2, <2>1, <2>2, <2>3, <2>4, <2>5, <2>6 DEF Dispatch, Ban, Revoke, Promote
<1>3. ASSUME NEW c \in Conns, Handler(c) PROVE FirmBanHolds'
  <2>1. CASE HangUp(c) BY <2>1 DEF HangUp
  <2>2. CASE Reply(c) BY <2>2 DEF Reply
  <2>3. CASE LoginRole(c) BY <2>3 DEF LoginRole
  <2>4. CASE LoginSession(c) BY <2>4 DEF LoginSession, Detach
  <2>5. CASE LogoutPop(c) BY <2>5 DEF LogoutPop, Detach
  <2>6. CASE WritePresence(c) BY <2>6 DEF WritePresence, NoJob
  <2>7. CASE Drop(c) BY <2>7 DEF Drop, NoJob
  <2>8. CASE Pop(c) BY <2>8 DEF Pop, NoJob, Detach
  <2>9. CASE Close(c) BY <2>9 DEF Close, NoJob
  <2>10. CASE BanWrite(c) BY <2>10 DEF BanWrite
  <2>11. CASE BanFind(c)
    <3>1. \A d \in Conns : job'[d].user \in {job[d].user, NoUser}
      BY <2>11 DEF BanFind, Lookup, NoJob, Job
    <3>2. UNCHANGED <<firm, status, mon, sessions>>
      BY <2>11 DEF BanFind
    <3> QED BY <3>1, <3>2, FirmFrame
  <2>12. CASE RevokeWrite(c) BY <2>12 DEF RevokeWrite, NoJob
  <2>13. CASE GrantWrite(c) BY <2>13 DEF GrantWrite
  <2>14. CASE GrantFind(c)
    <3>1. \A d \in Conns : job'[d].user \in {job[d].user, NoUser}
      BY <2>14 DEF GrantFind, Lookup, NoJob, Job
    <3>2. UNCHANGED <<firm, status, mon, sessions>>
      BY <2>14 DEF GrantFind
    <3> QED BY <3>1, <3>2, FirmFrame
  <2>15. CASE GrantSet(c)
    <3>1. \A d \in Conns : job'[d].user \in {job[d].user, NoUser}
      BY <2>15 DEF GrantSet, NoJob, Job
    <3>2. \A d \in Conns, u \in firm : SessionOf(d, u)' => SessionOf(d, u)
      BY <2>15 DEF GrantSet, Session
    <3>3. UNCHANGED <<firm, status, mon>>
      BY <2>15 DEF GrantSet
    <3> QED BY <3>1, <3>2, <3>3, FirmFrame
  <2>16. CASE GrantSend(c) BY <2>16 DEF GrantSend, NoJob
  <2>17. CASE DbError(c) BY <2>17 DEF DbError, NoJob
  <2> QED BY <1>3, <2>1, <2>2, <2>3, <2>4, <2>5, <2>6, <2>7, <2>8, <2>9, <2>10, <2>11, <2>12, <2>13, <2>14, <2>15, <2>16, <2>17 DEF Handler
<1>4. CASE PresenceMonitor
  <2>1. ASSUME NEW c \in Conns, MonitorFind(c) PROVE FirmBanHolds'
    BY <2>1 DEF MonitorFind
  <2>2. CASE MonitorSet
    <3>1. \A d \in Conns, u \in firm : SessionOf(d, u)' => SessionOf(d, u)
      BY <2>2 DEF MonitorSet, Session, Monitor
    <3>2. UNCHANGED <<firm, status, job>> /\ mon'.user = mon.user
      BY <2>2 DEF MonitorSet, Monitor
    <3> QED BY <3>1, <3>2, FirmFrame
  <2>3. CASE MonitorWrite
    BY <2>3 DEF MonitorWrite, MonIdle
  <2> QED BY <1>4, <2>1, <2>2, <2>3 DEF PresenceMonitor
<1>5. CASE Crash BY <1>5 DEF Crash, NoJob, MonIdle
<1>6. CASE UNCHANGED vars BY <1>6 DEF vars
<1> QED BY <1>1, <1>2, <1>3, <1>4, <1>5, <1>6 DEF Next

\* A ban of a user who was not being served lasts until it is revoked.
THEOREM FirmBansHold == Spec => []FirmBanHolds
<1>1. Init => FirmBanHolds BY FirmInit
<1>2. Inv /\ FirmBanHolds /\ [Next]_vars => FirmBanHolds' BY FirmStep
<1> QED BY <1>1, <1>2, InvHolds, PTL DEF Spec

-----------------------------------------------------------------------------
(* That who is served is present.  It needs what the run Sessions_live gives:  *)
(* no database fault, and no user who logs in on two connections.              *)

OneHome == \A c, d \in Conns, u \in Users : <<c, u>> \in Logins /\ <<d, u>> \in Logins => c = d

\* A session is of a user of its connection, and so is the status that a handler is about
\* to write: that of its own user, or of one whose connection it has popped.
Homes ==
  \A c \in Conns :
    /\ HasSession(c) => <<c, sessions[c].user>> \in Logins
    /\ pc[c] \in {"wake", "role", "session", "online", "logoutDb"}
         => <<c, job[c].user>> \in Logins
    /\ pc[c] = "offline" => <<job[c].addr, job[c].user>> \in Logins /\ job[c].addr \notin clients
    /\ pc[c] = "online" /\ HasSession(c) => job[c].user = sessions[c].user

\* A handler is about to make user u present, or to end his session on c.
Changing(c, u) ==
  \/ pc[c] \in {"online", "logoutPop"}
  \/ \E d \in Conns : job[d].target = u /\ \/ pc[d] = "banFind"
                                           \/ pc[d] = "pop" /\ job[d].addr = c

\* Only so long may a user with a session and a socket be shown as absent.
Shown(u) == status[u] \in {"Online", "Idle"}

Present == \A c \in clients, u \in Users : SessionOf(c, u) => Shown(u) \/ Changing(c, u)

HomeInv == Homes /\ CleanExit

\* At first nobody has a session.
LEMMA HomeInit == ASSUME Init PROVE Homes /\ Present
BY DEF Init, Homes, Present, HasSession

\* A grant changes no session's user.
LEMMA GrantedUsers ==
  ASSUME Inv, NEW c \in Conns, GrantSet(c), NEW d \in Conns
  PROVE  (HasSession(d)' <=> HasSession(d)) /\ (HasSession(d) => sessions'[d].user = sessions[d].user)
<1> USE NoSessionAssumption DEF Inv, TypeOK, Locals, HasSession
<1> DEFINE a == job[c].addr
<1>1. a \in Conns
  BY DEF GrantSet
<1>2. CASE HasSession(a)
  <2> DEFINE s == [sessions[a] EXCEPT !.role = job[c].role]
  <2>1. s \in Session /\ s.user = sessions[a].user
    BY <1>1, <1>2 DEF Session, Job
  <2>2. sessions' = [sessions EXCEPT ![a] = s]
    BY <1>2 DEF GrantSet
  <2> HIDE DEF a, s
  <2> QED BY <1>1, <1>2, <2>1, <2>2
<1>3. CASE ~HasSession(a)
  BY <1>3 DEF GrantSet
<1> QED BY <1>2, <1>3

\* A session begins with its own handler's login, and its connection is new when it is
\* accepted.
LEMMA HomeStep == ASSUME Inv, HomeInv, [Next]_vars PROVE Homes'
<1> USE SessionsAssumption, NoSessionAssumption
        DEF Inv, TypeOK, Locals, Goto, HomeInv, Homes, HasSession
<1>1. ASSUME NEW c \in Conns, Client(c) PROVE Homes'
  <2>1. CASE Accept(c) BY <2>1 DEF Accept
  <2>2. CASE ClientClose(c) BY <2>2 DEF ClientClose
  <2>3. CASE Receive(c)
    <3>1. \A d \in Conns : /\ HasSession(d)' <=> HasSession(d)
                           /\ HasSession(d) => sessions'[d].user = sessions[d].user
      BY <2>3 DEF Receive, Session
    <3>2. \A d \in Conns \ {c} : pc'[d] = pc[d] /\ job'[d] = job[d]
      BY <2>3 DEF Receive
    <3>3. /\ pc'[c] \in {"wake", "ready"} /\ UNCHANGED clients
          /\ pc'[c] = "wake" => HasSession(c) /\ job'[c].user = sessions[c].user
      BY <2>3 DEF Receive, Job
    <3> QED BY <3>1, <3>2, <3>3
  <2> QED BY <1>1, <2>1, <2>2, <2>3 DEF Client
<1>2. ASSUME NEW c \in Conns, Dispatch(c) PROVE Homes'
  <2>1. CASE Answer(c) \/ Raise(c) BY <2>1 DEF Answer, Raise
  <2>2. CASE Refuse(c) BY <2>2 DEF Refuse
  <2>3. CASE Logout(c)
    <3>1. HasSession(c) /\ job'[c].user = sessions[c].user
      BY <2>3 DEF Logout, Job
    <3> QED BY <2>3, <3>1 DEF Logout
  <2>4. ASSUME NEW u \in Users, LoginCheck(c, u) PROVE Homes'
    <3>1. <<c, u>> \in Logins /\ job'[c].user = u
      BY <2>4 DEF LoginCheck, Job
    <3> QED BY <2>4, <3>1 DEF LoginCheck
  <2>5. ASSUME NEW t \in Users, NEW r \in Roles, NEW l \in {"ban", "revoke", "grant"},
               Request(c, t, r, l)
        PROVE Homes'
    BY <2>5 DEF Request
  <2>6. \A g \in Grants : g[1] \in Users /\ g[2] \in Roles
    OBVIOUS
  <2> QED BY <1>2, <2>1, <2>2, <2>3, <2>4, <2>5, <2>6 DEF Dispatch, Ban, Revoke, Promote
<1>3. ASSUME NEW c \in Conns, Handler(c) PROVE Homes'
  <2>1. CASE HangUp(c) BY <2>1 DEF HangUp
  <2>2. CASE Reply(c) BY <2>2 DEF Reply
  <2>3. CASE LoginRole(c)
    <3>1. job'[c].user = job[c].user
      BY <2>3 DEF LoginRole, Job
    <3> QED BY <2>3, <3>1 DEF LoginRole
  <2>4. CASE LoginSession(c) BY <2>4 DEF LoginSession, Session
  <2>5. CASE LogoutPop(c) BY <2>5 DEF LogoutPop
  <2>6. CASE WritePresence(c) BY <2>6 DEF WritePresence
  <2>7. CASE Drop(c) BY <2>7 DEF Drop
  <2>8. CASE Pop(c)
    <3> DEFINE a == job[c].addr
    <3>1. /\ a \in Conns /\ clients' = clients \ {a}
          /\ sessions' = [sessions EXCEPT ![a] = NoSession]
      BY <2>8 DEF Pop
    <3>2. /\ pc'[c] \in {"offline", "close"} /\ job'[c].addr = a
          /\ pc'[c] = "offline" => HasSession(a) /\ job'[c].user = sessions[a].user
      BY <2>8 DEF Pop, NoJob
    <3>3. \A d \in Conns \ {c} : pc'[d] = pc[d] /\ job'[d] = job[d]
      BY <2>8 DEF Pop
    <3> HIDE DEF a
    <3> QED BY <3>1, <3>2, <3>3
  <2>9. CASE Close(c) BY <2>9 DEF Close
  <2>10. CASE BanWrite(c) BY <2>10 DEF BanWrite
  <2>11. CASE BanFind(c)
    <3>1. /\ UNCHANGED <<sessions, clients>> /\ pc'[c] \in {"pop", "reply"}
          /\ \A d \in Conns \ {c} : pc'[d] = pc[d] /\ job'[d] = job[d]
      BY <2>11 DEF BanFind, Lookup
    <3> QED BY <3>1
  <2>12. CASE RevokeWrite(c) BY <2>12 DEF RevokeWrite
  <2>13. CASE GrantWrite(c) BY <2>13 DEF GrantWrite
  <2>14. CASE GrantFind(c)
    <3>1. /\ UNCHANGED <<sessions, clients>> /\ pc'[c] \in {"grantSet", "reply"}
          /\ \A d \in Conns \ {c} : pc'[d] = pc[d] /\ job'[d] = job[d]
      BY <2>14 DEF GrantFind, Lookup
    <3> QED BY <3>1
  <2>15. CASE GrantSet(c)
    <3>1. \A d \in Conns : /\ HasSession(d)' <=> HasSession(d)
                           /\ HasSession(d) => sessions'[d].user = sessions[d].user
      BY <2>15, GrantedUsers
    <3>2. \A d \in Conns \ {c} : pc'[d] = pc[d] /\ job'[d] = job[d]
      BY <2>15 DEF GrantSet
    <3>3. pc'[c] \in {"grantSend", "drop"} /\ UNCHANGED clients
      BY <2>15 DEF GrantSet
    <3> QED BY <3>1, <3>2, <3>3
  <2>16. CASE GrantSend(c) BY <2>16 DEF GrantSend
  <2>17. CASE DbError(c) BY <2>17 DEF DbError
  <2> QED BY <1>3, <2>1, <2>2, <2>3, <2>4, <2>5, <2>6, <2>7, <2>8, <2>9, <2>10, <2>11, <2>12,
             <2>13, <2>14, <2>15, <2>16, <2>17 DEF Handler
<1>4. CASE PresenceMonitor
  <2>1. \A d \in Conns : /\ HasSession(d)' <=> HasSession(d)
                         /\ HasSession(d) => sessions'[d].user = sessions[d].user
    <3>1. CASE MonitorSet BY <3>1 DEF MonitorSet, Session, Monitor
    <3>2. CASE ~MonitorSet BY <1>4, <3>2 DEF PresenceMonitor, MonitorFind, MonitorWrite
    <3> QED BY <3>1, <3>2
  <2>2. UNCHANGED <<clients, pc, job>>
    BY <1>4 DEF PresenceMonitor, MonitorFind, MonitorSet, MonitorWrite
  <2> QED BY <2>1, <2>2
<1>5. CASE Crash BY <1>5 DEF Crash
<1>6. CASE UNCHANGED vars BY <1>6 DEF vars
<1> QED BY <1>1, <1>2, <1>3, <1>4, <1>5, <1>6 DEF Next

\* A step that gives nobody a session, hides nobody, and keeps what is about to change.
LEMMA PresentFrame ==
  ASSUME Present, clients' \subseteq clients,
         \A d \in Conns, u \in Users : SessionOf(d, u)' => SessionOf(d, u),
         \A u \in Users : Shown(u) => Shown(u)',
         \A d \in clients, u \in Users :
           Changing(d, u) /\ SessionOf(d, u)' => Changing(d, u)' \/ Shown(u)'
  PROVE  (clients \subseteq Conns) => Present'
BY DEF Present

\* So is one of a handler that is not about to change anybody.
LEMMA Uninvolved ==
  ASSUME NEW c \in Conns, pc[c] \notin {"online", "logoutPop", "banFind", "pop"},
         \A d \in Conns \ {c} : pc'[d] = pc[d] /\ job'[d] = job[d]
  PROVE  \A d \in Conns, u \in Users : Changing(d, u) => Changing(d, u)'
BY DEF Changing

\* The steps of a handler that writes no status and touches no session.
LEMMA PresentQuiet ==
  ASSUME Inv, Present, NEW c \in Conns,
         pc[c] \notin {"online", "logoutPop", "banFind", "pop"},
         \A d \in Conns \ {c} : pc'[d] = pc[d] /\ job'[d] = job[d],
         UNCHANGED <<clients, status>>,
         \A d \in Conns, u \in Users : SessionOf(d, u)' => SessionOf(d, u)
  PROVE  Present'
<1>1. clients \subseteq Conns
  BY DEF Inv, TypeOK
<1>2. \A u \in Users : Shown(u) => Shown(u)'
  BY DEF Shown
<1> QED BY <1>1, <1>2, Uninvolved, PresentFrame

\* What clients do, and the start of a request.
LEMMA PresentClient ==
  ASSUME Inv, HomeInv, Present, NEW c \in Conns, Client(c) \/ Dispatch(c) PROVE Present'
<1> USE DEF Goto
<1>1. CASE Accept(c)
  <2>1. /\ ~HasSession(c) /\ pc[c] = "free" /\ clients' = clients \cup {c}
        /\ UNCHANGED <<sessions, status, job>> /\ \A d \in Conns \ {c} : pc'[d] = pc[d]
    BY <1>1 DEF Accept, HomeInv, CleanExit, Inv, TypeOK
  <2>2. \A d \in Conns, u \in Users : Changing(d, u) => Changing(d, u)'
    BY <2>1, Uninvolved
  <2> QED BY <2>1, <2>2 DEF Present, SessionOf, HasSession, Shown, Inv, TypeOK
<1>2. CASE ClientClose(c)
  BY <1>2 DEF ClientClose, Present, SessionOf, HasSession, Shown, Changing
<1>3. CASE Receive(c)
  <2>1. \A d \in Conns, u \in Users : SessionOf(d, u)' => SessionOf(d, u)
    BY <1>3, NoSessionAssumption DEF Receive, SessionOf, HasSession, Session, Inv, TypeOK
  <2>2. /\ pc[c] = "recv" /\ UNCHANGED <<clients, status>>
        /\ \A d \in Conns \ {c} : pc'[d] = pc[d] /\ job'[d] = job[d]
    BY <1>3 DEF Receive, Inv, TypeOK
  <2> QED BY <2>1, <2>2, PresentQuiet
<1>4. CASE Dispatch(c)
  <2>1. /\ pc[c] = "ready" /\ UNCHANGED <<clients, status, sessions>>
        /\ \A d \in Conns \ {c} : pc'[d] = pc[d] /\ job'[d] = job[d]
    BY <1>4 DEF Dispatch, Answer, Raise, Refuse, Logout, LoginCheck, Ban, Revoke, Promote,
                Request, Inv, TypeOK
  <2>2. \A d \in Conns, u \in Users : SessionOf(d, u)' => SessionOf(d, u)
    BY <2>1 DEF SessionOf, HasSession
  <2> QED BY <2>1, <2>2, PresentQuiet
<1> QED BY <1>1, <1>2, <1>3, <1>4 DEF Client

\* A presence that is written is of the writer's own user, or of one whose connection is
\* no longer registered.
LEMMA PresentWrite ==
  ASSUME Inv, HomeInv, Present, OneHome, ~DbFaults, NEW c \in Conns, WritePresence(c)
  PROVE  Present'
<1> DEFINE w == job[c].user
<1>1. /\ pc[c] \in {"wake", "online", "logoutDb", "offline"} /\ w \in Users
      /\ \A u \in Users \ {w} : status'[u] = status[u]
      /\ status'[w] = IF pc[c] \in {"wake", "online"} THEN "Online" ELSE "Offline"
      /\ UNCHANGED <<clients, sessions>>
      /\ \A d \in Conns \ {c} : pc'[d] = pc[d] /\ job'[d] = job[d]
      /\ pc[c] = "logoutDb" => pc'[c] = "logoutPop"
  BY DEF WritePresence, Goto, Inv, TypeOK, Locals
<1>2. SUFFICES ASSUME NEW d \in clients, NEW u \in Users, SessionOf(d, u)
               PROVE  Shown(u)' \/ Changing(d, u)'
  BY <1>1 DEF Present, SessionOf, HasSession
<1>3. d \in Conns /\ <<d, u>> \in Logins /\ (Shown(u) \/ Changing(d, u))
  BY <1>2 DEF Present, HomeInv, Homes, SessionOf, Inv, TypeOK
<1> HIDE DEF w
<1>4. CASE u = w /\ pc[c] \in {"wake", "online"}
  BY <1>1, <1>4 DEF Shown
<1>5. CASE u = w /\ pc[c] = "logoutDb"
  <2>1. c = d
    BY <1>3, <1>5 DEF w, OneHome, HomeInv, Homes
  <2> QED BY <1>1, <1>5, <2>1 DEF Changing
<1>6. CASE u = w /\ pc[c] = "offline"
  <2>1. <<job[c].addr, u>> \in Logins /\ job[c].addr \notin clients /\ job[c].addr \in Conns
    BY <1>6 DEF w, HomeInv, Homes, Inv, Locals
  <2> QED BY <1>3, <2>1 DEF OneHome
<1>7. CASE u # w
  <2>1. Shown(u) => Shown(u)'
    BY <1>1, <1>7 DEF Shown
  <2>2. CASE pc[c] = "online" /\ d = c
    BY <1>2, <1>7, <2>2 DEF w, SessionOf, HomeInv, Homes
  <2>3. CASE ~(pc[c] = "online" /\ d = c)
    <3>1. Changing(d, u) => Changing(d, u)'
      BY <1>1, <1>3, <2>3 DEF Changing
    <3> QED BY <1>3, <2>1, <3>1
  <2> QED BY <2>2, <2>3
<1> QED BY <1>1, <1>4, <1>5, <1>6, <1>7

\* BAN_USER finds the connection of the user it banned, if he is on one.
LEMMA PresentBan ==
  ASSUME Inv, HomeInv, Present, OneHome, NEW c \in Conns, BanWrite(c) \/ BanFind(c)
  PROVE  Present'
<1> DEFINE t == job[c].target
<1>1. CASE BanWrite(c)
  <2>1. /\ pc[c] = "ban" /\ pc'[c] = "banFind" /\ job'[c].target = t
        /\ \A d \in Conns \ {c} : pc'[d] = pc[d] /\ job'[d] = job[d]
        /\ \A u \in Users \ {t} : status'[u] = status[u]
        /\ UNCHANGED <<clients, sessions>>
    BY <1>1 DEF BanWrite, Goto, Inv, TypeOK
  <2> HIDE DEF t
  <2>2. \A d \in Conns, u \in {t} : Changing(d, u)'
    BY <2>1 DEF Changing
  <2>3. \A d \in Conns, u \in Users : Changing(d, u) => Changing(d, u)'
    BY <2>1, Uninvolved
  <2> QED BY <2>1, <2>2, <2>3 DEF Present, SessionOf, HasSession, Shown, Inv, TypeOK
<1>2. CASE BanFind(c)
  <2>1. /\ pc[c] = "banFind" /\ UNCHANGED <<clients, sessions, status>>
        /\ \A d \in Conns \ {c} : pc'[d] = pc[d] /\ job'[d] = job[d]
        /\ pc'[c] \in {"pop", "reply"}
    BY <1>2 DEF BanFind, Lookup, Goto, Inv, TypeOK
  <2>2. \/ \E a \in clients : /\ SessionOf(a, t) /\ pc'[c] = "pop"
                              /\ job'[c].addr = a /\ job'[c].target = t
        \/ \A a \in Conns : ~SessionOf(a, t)
        \/ \E a \in Conns : SessionOf(a, t) /\ a \notin clients
    BY <1>2 DEF BanFind, Lookup, Goto, Inv, TypeOK, Job
  <2>3. SUFFICES ASSUME NEW d \in clients, NEW u \in Users, SessionOf(d, u)
                 PROVE  Shown(u)' \/ Changing(d, u)'
    BY <2>1 DEF Present, SessionOf, HasSession
  <2>4. d \in Conns /\ <<d, u>> \in Logins /\ (Shown(u) \/ Changing(d, u))
    BY <2>3 DEF Present, HomeInv, Homes, SessionOf, Inv, TypeOK
  <2>5. Shown(u) => Shown(u)'
    BY <2>1 DEF Shown
  <2> HIDE DEF t
  <2>6. CASE u = t
    <3>1. \A a \in Conns : SessionOf(a, u) => a = d
      BY <2>4 DEF HomeInv, Homes, SessionOf, OneHome
    <3>2. pc'[c] = "pop" /\ job'[c].addr = d /\ job'[c].target = u
      BY <2>2, <2>3, <2>4, <2>6, <3>1 DEF Inv, TypeOK
    <3> QED BY <3>2 DEF Changing
  <2>7. CASE u # t
    <3>1. Changing(d, u) => Changing(d, u)'
      BY <2>1, <2>4, <2>7 DEF Changing, t
    <3> QED BY <2>4, <2>5, <3>1
  <2> QED BY <2>6, <2>7
<1> QED BY <1>1, <1>2

\* The end of a session, by its own handler or by a moderator's.
LEMMA PresentPop ==
  ASSUME Inv, Present, NEW c \in Conns, LogoutPop(c) \/ Pop(c) PROVE Present'
<1> DEFINE a == IF pc[c] = "pop" THEN job[c].addr ELSE c
<1>1. /\ a \in Conns /\ sessions' = [sessions EXCEPT ![a] = NoSession]
      /\ pc[c] = "logoutPop" => a = c
      /\ pc[c] = "pop" => a = job[c].addr
      /\ pc[c] \in {"logoutPop", "pop"}
      /\ clients' \subseteq clients /\ UNCHANGED status
      /\ \A d \in Conns \ {c} : pc'[d] = pc[d] /\ job'[d] = job[d]
  BY DEF LogoutPop, Pop, Goto, Inv, TypeOK, Locals
<1> HIDE DEF a
<1>2. /\ \A d \in Conns, u \in Users : SessionOf(d, u)' => SessionOf(d, u)
      /\ \A d \in {a}, u \in Users : ~SessionOf(d, u)'
  BY <1>1 DEF SessionOf, HasSession, Inv, TypeOK
<1>3. \A u \in Users : Shown(u) => Shown(u)'
  BY <1>1 DEF Shown
<1>4. ASSUME NEW d \in clients, NEW u \in Users, Changing(d, u), SessionOf(d, u)'
      PROVE  Changing(d, u)'
  <2>1. d \in Conns /\ d # a
    BY <1>2, <1>4 DEF Inv, TypeOK
  <2> QED BY <1>1, <1>4, <2>1 DEF Changing
<1>5. clients \subseteq Conns
  BY DEF Inv, TypeOK
<1> QED BY <1>1, <1>2, <1>3, <1>4, <1>5, PresentFrame

\* The other steps of a handler.
LEMMA PresentHandler ==
  ASSUME Inv, HomeInv, Present, OneHome, ~DbFaults, NEW c \in Conns, Handler(c)
  PROVE  Present'
<1> USE DEF Goto
<1>1. ASSUME pc[c] \notin {"online", "logoutPop", "banFind", "pop"},
             \A d \in Conns \ {c} : pc'[d] = pc[d] /\ job'[d] = job[d],
             UNCHANGED <<clients, status, sessions>>
      PROVE  Present'
  BY <1>1, PresentQuiet DEF SessionOf, HasSession
<1>2. CASE HangUp(c) \/ Reply(c) \/ LoginRole(c) \/ Drop(c) \/ Close(c) \/ GrantWrite(c)
  BY <1>1, <1>2 DEF HangUp, Reply, LoginRole, Drop, Close, GrantWrite, Inv, TypeOK
<1>3. CASE GrantFind(c) \/ GrantSend(c) \/ DbError(c)
  BY <1>1, <1>3 DEF GrantFind, Lookup, GrantSend, DbError, Inv, TypeOK
<1>4. CASE LoginSession(c)
  <2>1. /\ pc[c] = "session" /\ pc'[c] = "online" /\ UNCHANGED <<clients, status>>
        /\ \A d \in Conns \ {c} : pc'[d] = pc[d] /\ job'[d] = job[d]
        /\ \A d \in Conns \ {c} : sessions'[d] = sessions[d]
    BY <1>4 DEF LoginSession, Inv, TypeOK
  <2>2. \A d \in Conns, u \in Users : Changing(d, u) => Changing(d, u)'
    BY <2>1, Uninvolved
  <2>3. \A u \in Users : Changing(c, u)'
    BY <2>1 DEF Changing
  <2> QED BY <2>1, <2>2, <2>3 DEF Present, SessionOf, HasSession, Shown, Inv, TypeOK
<1>5. CASE RevokeWrite(c)
  <2>1. /\ pc[c] = "revoke" /\ UNCHANGED <<clients, sessions>>
        /\ \A d \in Conns \ {c} : pc'[d] = pc[d] /\ job'[d] = job[d]
    BY <1>5 DEF RevokeWrite, Inv, TypeOK
  <2>2. \A u \in Users : Shown(u) => Shown(u)'
    BY <1>5 DEF RevokeWrite, Shown, Inv, TypeOK
  <2> QED BY <2>1, <2>2, Uninvolved, PresentFrame DEF SessionOf, HasSession, Inv, TypeOK
<1>6. CASE GrantSet(c)
  <2>1. /\ pc[c] = "grantSet" /\ UNCHANGED <<clients, status>>
        /\ \A d \in Conns \ {c} : pc'[d] = pc[d] /\ job'[d] = job[d]
    BY <1>6 DEF GrantSet, Inv, TypeOK
  <2>2. \A d \in Conns, u \in Users : SessionOf(d, u)' => SessionOf(d, u)
    BY <1>6, GrantedUsers DEF SessionOf
  <2> QED BY <2>1, <2>2, PresentQuiet
<1> QED BY <1>2, <1>3, <1>4, <1>5, <1>6, PresentWrite, PresentBan, PresentPop DEF Handler

\* The monitor shows users as Idle, which is present.
LEMMA PresentMonitor ==
  ASSUME Inv, Present, PresenceMonitor PROVE Present'
<1>1. UNCHANGED <<clients, pc, job>> /\ \A u \in Users : Shown(u) => Shown(u)'
  BY DEF PresenceMonitor, MonitorFind, MonitorSet, MonitorWrite, Shown, Inv, TypeOK
<1>2. \A d \in Conns, u \in Users : SessionOf(d, u)' => SessionOf(d, u)
  <2>1. CASE MonitorSet
    <3> DEFINE m == mon.conn
               s == [sessions[m] EXCEPT !.status = "Idle"]
    <3>1. \/ sessions' = sessions
          \/ m \in Conns /\ HasSession(m) /\ sessions' = [sessions EXCEPT ![m] = s]
      BY <2>1 DEF MonitorSet, Monitor, Inv, TypeOK, Locals
    <3>2. m \in Conns /\ HasSession(m) => s.user = sessions[m].user
      BY DEF HasSession, Session, Inv, TypeOK
    <3> HIDE DEF m, s
    <3> QED BY <3>1, <3>2 DEF SessionOf, HasSession, Inv, TypeOK
  <2>2. CASE ~MonitorSet
    BY <2>2 DEF PresenceMonitor, MonitorFind, MonitorWrite, SessionOf, HasSession
  <2> QED BY <2>1, <2>2
<1> QED BY <1>1, <1>2, PresentFrame DEF Changing, Inv, TypeOK

\* Nobody who has a session and a socket is shown as absent for long.
LEMMA PresentStep ==
  ASSUME Inv, HomeInv, Present, OneHome, ~DbFaults, [Next]_vars PROVE Present'
<1>1. CASE Crash
  BY <1>1 DEF Crash, Present
<1>2. CASE UNCHANGED vars
  BY <1>2 DEF vars, Present, SessionOf, HasSession, Shown, Changing
<1> QED BY <1>1, <1>2, PresentClient, PresentHandler, PresentMonitor DEF Next

\* A user whose only session rests is shown as present, however his requests, the
\* moderators and the monitor interleave, as long as no database call fails and nobody
\* logs in on two connections (_update_db_presence, BAN_USER, _presence_monitor_loop).
THEOREM ServedArePresent ==
  ASSUME OneHome, ~DbFaults PROVE Spec => []ServedIsPresent
<1>1. Init => Homes /\ Present
  BY HomeInit
<1>2. Inv /\ CleanExit /\ Homes /\ Present /\ [Next]_vars => Homes' /\ Present'
  BY HomeStep, PresentStep DEF HomeInv
<1>3. Inv /\ Present => ServedIsPresent
  <2> SUFFICES ASSUME Inv, Present, NEW c \in Conns, Resting(c) PROVE Shown(sessions[c].user)
    BY DEF ServedIsPresent, Shown
  <2>1. sessions[c].user \in Users /\ SessionOf(c, sessions[c].user) /\ c \in clients
    BY DEF Resting, SessionOf, HasSession, Session, Inv, TypeOK
  <2>2. ~Changing(c, sessions[c].user)
    BY DEF Resting, Settled, Changing
  <2> QED BY <2>1, <2>2 DEF Present
<1> QED BY <1>1, <1>2, <1>3, InvHolds, ExitsAreClean, PTL DEF Spec

-----------------------------------------------------------------------------
(* The life of a connection *)

\* The socket that was popped is that of the address that was looked up.
Popped ==
  \A c \in Conns : pc[c] \in {"offline", "close"} => job[c].sock \in {NoConn, job[c].addr}

\* Only the pop leads there, and nothing else is done to these locals.
LEMMA PoppedStep == ASSUME Inv, Popped, [Next]_vars PROVE Popped'
<1> USE DEF Inv, TypeOK, Popped, Goto
<1>1. ASSUME NEW c \in Conns, Client(c) PROVE Popped'
  BY <1>1 DEF Client, Accept, ClientClose, Receive
<1>2. ASSUME NEW c \in Conns, Dispatch(c) PROVE Popped'
  <2>1. /\ pc'[c] \notin {"offline", "close"}
        /\ \A d \in Conns \ {c} : pc'[d] = pc[d] /\ job'[d] = job[d]
    BY <1>2 DEF Dispatch, Answer, Raise, Refuse, Logout, LoginCheck, Ban, Revoke, Promote, Request
  <2> QED BY <2>1
<1>3. ASSUME NEW c \in Conns, Handler(c) PROVE Popped'
  <2>1. CASE Pop(c)
    BY <2>1 DEF Pop, NoJob
  <2>2. CASE WritePresence(c)
    <3>1. /\ \A d \in Conns \ {c} : pc'[d] = pc[d] /\ job'[d] = job[d]
          /\ pc'[c] \in {"offline", "close"} => pc[c] = "offline" /\ job'[c] = [job[c] EXCEPT !.user = NoUser]
      BY <2>2 DEF WritePresence
    <3>2. [job[c] EXCEPT !.user = NoUser].sock = job[c].sock
          /\ [job[c] EXCEPT !.user = NoUser].addr = job[c].addr
      BY DEF Job
    <3> QED BY <3>1, <3>2
  <2>3. CASE ~Pop(c) /\ ~WritePresence(c)
    <3>1. /\ pc'[c] \notin {"offline", "close"}
          /\ \A d \in Conns \ {c} : pc'[d] = pc[d] /\ job'[d] = job[d]
      BY <1>3, <2>3 DEF Handler, HangUp, Reply, LoginRole, LoginSession, LogoutPop, Drop, Close,
           BanWrite, BanFind, RevokeWrite, GrantWrite, GrantFind, GrantSet, GrantSend, DbError, Lookup
    <3> QED BY <3>1
  <2> QED BY <2>1, <2>2, <2>3
<1>4. CASE PresenceMonitor
  BY <1>4 DEF PresenceMonitor, MonitorFind, MonitorSet, MonitorWrite
<1>5. CASE Crash BY <1>5 DEF Crash
<1>6. CASE UNCHANGED vars BY <1>6 DEF vars
<1> QED BY <1>1, <1>2, <1>3, <1>4, <1>5, <1>6 DEF Next

LifeInv == Inv /\ CleanExit /\ SocketOwnership /\ Popped

\* A step that starts and ends no thread, and changes nobody's user, is none of the
\* connection's life.
LEMMA QuietLife ==
  ASSUME UNCHANGED <<clients, open>>,
         \A c \in Conns : (pc'[c] = "free" <=> pc[c] = "free") /\ UserOn(c)' = UserOn(c)
  PROVE  UNCHANGED Life!vars
BY DEF Life!vars

\* The user of one connection changes.
LEMMA UserStep ==
  ASSUME NEW a \in Conns, \A d \in Conns \ {a} : sessions'[d] = sessions[d]
  PROVE  [d \in Conns |-> UserOn(d)]' = [[d \in Conns |-> UserOn(d)] EXCEPT ![a] = UserOn(a)']
<1>1. \A d \in Conns \ {a} : UserOn(d)' = UserOn(d) BY DEF UserOn, HasSession
<1> QED BY <1>1

\* A session keeps its user when its status or its role is set.
LEMMA SameUser ==
  ASSUME Inv, NEW a \in Conns, HasSession(a), NEW s \in Session, s.user = sessions[a].user,
         sessions' = [sessions EXCEPT ![a] = s]
  PROVE  \A d \in Conns : UserOn(d)' = UserOn(d)
BY NoSessionAssumption DEF Inv, TypeOK, UserOn, HasSession

\* So does the session of which nothing is set.
LEMMA SameSessions ==
  ASSUME sessions' = sessions PROVE \A d \in Conns : UserOn(d)' = UserOn(d)
BY DEF UserOn, HasSession

\* What a client does: only a new connection counts.
LEMMA ClientLife ==
  ASSUME LifeInv, NEW c \in Conns, Client(c)
  PROVE  Life!Next \/ UNCHANGED Life!vars
<1> USE DEF LifeInv, Inv, TypeOK, Goto
<1>1. CASE Accept(c)
  <2>1. c \notin {d \in Conns : pc[d] # "free"} /\ c \notin open /\ UserOn(c) = NoUser
    BY <1>1 DEF Accept, CleanExit, UserOn
  <2>2. {d \in Conns : pc[d] # "free"}' = {d \in Conns : pc[d] # "free"} \cup {c}
    BY <1>1 DEF Accept
  <2>3. Life!Accept(c)
    BY <1>1, <2>1, <2>2, SameSessions DEF Accept, Life!Accept
  <2> QED BY <2>3 DEF Life!Next
<1>2. CASE ClientClose(c)
  BY <1>2, QuietLife, SameSessions DEF ClientClose
<1>3. CASE Receive(c)
  <2>1. UNCHANGED <<clients, open>> /\ \A d \in Conns : pc'[d] = "free" <=> pc[d] = "free"
    BY <1>3 DEF Receive
  <2>2. CASE sessions' = sessions
    BY <2>1, <2>2, QuietLife, SameSessions
  <2>3. CASE HasSession(c) /\ sessions' = [sessions EXCEPT ![c].status = "Online"]
    <3> DEFINE s == [sessions[c] EXCEPT !.status = "Online"]
    <3>1. s \in Session /\ s.user = sessions[c].user
      BY <2>3 DEF HasSession, Session
    <3>2. sessions' = [sessions EXCEPT ![c] = s]
      BY <2>3
    <3> HIDE DEF s
    <3>3. \A d \in Conns : UserOn(d)' = UserOn(d)
      BY <2>3, <3>1, <3>2, SameUser
    <3> QED BY <2>1, <3>3, QuietLife
  <2> QED BY <1>3, <2>2, <2>3 DEF Receive
<1> QED BY <1>1, <1>2, <1>3 DEF Client

\* The steps of a handler that have to do with sockets and sessions.
LEMMA HandlerLife ==
  ASSUME LifeInv, NEW c \in Conns, Handler(c)
  PROVE  Life!Next \/ UNCHANGED Life!vars
<1> USE DEF LifeInv, Inv, TypeOK, Goto
<1>1. CASE LoginSession(c)
  <2> DEFINE s == [user |-> job[c].user, role |-> job[c].role, status |-> "Online"]
  <2>1. PICK u \in Users : u = job[c].user
    BY <1>1 DEF LoginSession, Locals
  <2>2. s \in Session /\ s.user = u
    BY <2>1 DEF Session, Job
  <2>3. /\ sessions' = [sessions EXCEPT ![c] = s] /\ UNCHANGED <<clients, open>>
        /\ pc[c] # "free" /\ \A d \in Conns : pc'[d] = "free" <=> pc[d] = "free"
    BY <1>1 DEF LoginSession
  <2> HIDE DEF s
  <2>4. UserOn(c)' = u
    BY <2>2, <2>3, NoSessionAssumption DEF UserOn, HasSession
  <2>5. Life!LogIn(c, u)
    BY <2>3, <2>4, UserStep DEF Life!LogIn
  <2> QED BY <2>5 DEF Life!Next
<1>2. CASE LogoutPop(c)
  <2>1. /\ sessions' = [sessions EXCEPT ![c] = NoSession] /\ UNCHANGED <<clients, open>>
        /\ \A d \in Conns : pc'[d] = "free" <=> pc[d] = "free"
    BY <1>2 DEF LogoutPop
  <2>2. UserOn(c)' = NoUser
    BY <2>1 DEF UserOn, HasSession
  <2>3. Life!LogOut(c)
    BY <2>1, <2>2, UserStep DEF Life!LogOut
  <2> QED BY <2>3 DEF Life!Next
<1>3. CASE Pop(c)
  <2>1. PICK a \in Conns : a = job[c].addr
    BY <1>3 DEF Pop, Locals
  <2>2. /\ clients' = clients \ {a} /\ sessions' = [sessions EXCEPT ![a] = NoSession]
        /\ UNCHANGED open /\ \A d \in Conns : pc'[d] = "free" <=> pc[d] = "free"
    BY <1>3, <2>1 DEF Pop
  <2>3. UserOn(a)' = NoUser
    BY <2>2 DEF UserOn, HasSession
  <2>4. Life!Unregister(a)
    BY <2>2, <2>3, UserStep DEF Life!Unregister
  <2> QED BY <2>4 DEF Life!Next
<1>4. CASE Close(c)
  <2>1. PICK a \in Conns : a = job[c].addr
    BY <1>4 DEF Close, Locals
  <2>2. /\ pc[c] = "close" /\ job[c].sock \in {NoConn, a}
        /\ open' = open \ {job[c].sock} /\ clients' = clients /\ sessions' = sessions
        /\ pc' = [pc EXCEPT ![c] = IF a = c THEN "free" ELSE "reply"]
    BY <1>4, <2>1 DEF Close, Popped
  <2>3. open' = open \/ (job[c].sock = a /\ open' = open \ {a})
    BY <2>2, SessionsAssumption
  <2>4. CASE a = c
    <3>1. c \notin clients /\ UserOn(c) = NoUser
      BY <2>1, <2>2, <2>4 DEF CleanExit, UserOn
    <3>2. {d \in Conns : pc[d] # "free"}' = {d \in Conns : pc[d] # "free"} \ {c}
          /\ c \in {d \in Conns : pc[d] # "free"}
      BY <2>2, <2>4
    <3>3. Life!End(c)
      BY <2>2, <2>3, <2>4, <3>1, <3>2, SameSessions DEF Life!End
    <3> QED BY <3>3 DEF Life!Next
  <2>5. CASE a # c /\ open' = open
    BY <2>2, <2>5, SameSessions, QuietLife
  <2>6. CASE a # c /\ job[c].sock = a /\ open' = open \ {a}
    <3>1. a \in open \ clients
      BY <2>2, <2>6 DEF SocketOwnership, Closing
    <3>2. {d \in Conns : pc[d] # "free"}' = {d \in Conns : pc[d] # "free"}
      BY <2>2, <2>6
    <3>3. Life!Close(a)
      BY <2>2, <2>6, <3>1, <3>2, SameSessions DEF Life!Close
    <3> QED BY <3>3 DEF Life!Next
  <2> QED BY <2>3, <2>4, <2>5, <2>6
<1>5. CASE GrantSet(c)
  <2>1. PICK a \in Conns : a = job[c].addr
    BY <1>5 DEF GrantSet, Locals
  <2>2. UNCHANGED <<clients, open>> /\ \A d \in Conns : pc'[d] = "free" <=> pc[d] = "free"
    BY <1>5 DEF GrantSet
  <2>3. CASE sessions' = sessions
    BY <2>2, <2>3, SameSessions, QuietLife
  <2>4. CASE HasSession(a) /\ sessions' = [sessions EXCEPT ![a].role = job[c].role]
    <3> DEFINE s == [sessions[a] EXCEPT !.role = job[c].role]
    <3>1. s \in Session /\ s.user = sessions[a].user
      BY <2>4 DEF HasSession, Session, Job
    <3>2. sessions' = [sessions EXCEPT ![a] = s]
      BY <2>4
    <3> HIDE DEF s
    <3>3. \A d \in Conns : UserOn(d)' = UserOn(d)
      BY <2>4, <3>1, <3>2, SameUser
    <3> QED BY <2>2, <3>3, QuietLife
  <2> QED BY <1>5, <2>1, <2>3, <2>4 DEF GrantSet
<1>6. CASE \/ HangUp(c) \/ Reply(c) \/ LoginRole(c) \/ WritePresence(c) \/ Drop(c)
           \/ BanWrite(c) \/ BanFind(c) \/ RevokeWrite(c)
           \/ GrantWrite(c) \/ GrantFind(c) \/ GrantSend(c) \/ DbError(c)
  <2>1. UNCHANGED <<clients, open, sessions>>
    BY <1>6 DEF HangUp, Reply, LoginRole, WritePresence, Drop, BanWrite, BanFind,
                RevokeWrite, GrantWrite, GrantFind, GrantSend, DbError
  <2>2. \A d \in Conns : pc'[d] = "free" <=> pc[d] = "free"
    BY <1>6 DEF HangUp, Reply, LoginRole, WritePresence, Drop, BanWrite, BanFind, Lookup,
                RevokeWrite, GrantWrite, GrantFind, GrantSend, DbError
  <2> QED BY <2>1, <2>2, SameSessions, QuietLife
<1> QED BY <1>1, <1>2, <1>3, <1>4, <1>5, <1>6 DEF Handler

\* The monitor changes the status of a session, and a crash ends all.
LEMMA MonitorLife ==
  ASSUME LifeInv, PresenceMonitor \/ Crash
  PROVE  Life!Next \/ UNCHANGED Life!vars
<1> USE DEF LifeInv, Inv, TypeOK
<1>1. CASE PresenceMonitor
  <2>1. UNCHANGED <<clients, open, pc>>
    BY <1>1 DEF PresenceMonitor, MonitorFind, MonitorSet, MonitorWrite
  <2>2. CASE sessions' = sessions
    BY <2>1, <2>2, SameSessions, QuietLife
  <2>3. CASE mon.conn # NoConn /\ sessions' = [sessions EXCEPT ![mon.conn].status = "Idle"]
    <3>1. PICK a \in Conns : a = mon.conn
      BY <2>3 DEF Monitor
    <3> DEFINE s == [sessions[a] EXCEPT !.status = "Idle"]
    <3>2. HasSession(a)
      BY <2>3, <3>1 DEF Locals
    <3>3. s \in Session /\ s.user = sessions[a].user
      BY <3>2 DEF HasSession, Session
    <3>4. sessions' = [sessions EXCEPT ![a] = s]
      BY <2>3, <3>1
    <3> HIDE DEF s
    <3>5. \A d \in Conns : UserOn(d)' = UserOn(d)
      BY <3>2, <3>3, <3>4, SameUser
    <3> QED BY <2>1, <3>5, QuietLife
  <2> QED BY <1>1, <2>2, <2>3 DEF PresenceMonitor, MonitorFind, MonitorSet, MonitorWrite
<1>2. CASE Crash
  <2>1. {d \in Conns : pc[d] # "free"}' = {} /\ \A d \in Conns : UserOn(d)' = NoUser
    BY <1>2 DEF Crash, UserOn, HasSession
  <2>2. Life!Crash
    BY <1>2, <2>1 DEF Crash, Life!Crash
  <2> QED BY <2>2 DEF Life!Next
<1> QED BY <1>1, <1>2

\* Every connection goes through its life in order, whatever handlers, bans, the monitor
\* and crashes do to it: it is registered and served, users come and go on it only while
\* its thread runs, and it is unregistered before it is closed and its thread ends
\* (socket_server.py, _accept_loop, _handle_client and _disconnect_client).
THEOREM ImplementsConnectionTable == Spec => IsConnectionTable
<1>1. Init => Popped BY DEF Init, Popped
<1>2. Inv /\ Popped /\ [Next]_vars => Popped' BY PoppedStep
<1>3. Init => Life!Init
  <2> SUFFICES ASSUME Init PROVE Life!Init
    OBVIOUS
  <2>1. \A c \in Conns : UserOn(c) = NoUser BY DEF Init, UserOn, HasSession
  <2> QED BY <2>1 DEF Init, Life!Init
<1>4. LifeInv /\ [Next]_vars => [Life!Next]_(Life!vars)
  <2>1. CASE UNCHANGED vars
    BY <2>1, SameSessions, QuietLife DEF vars
  <2>2. ASSUME LifeInv, NEW c \in Conns, Dispatch(c) PROVE UNCHANGED Life!vars
    <3>1. /\ UNCHANGED <<clients, open, sessions>>
          /\ \A d \in Conns : pc'[d] = "free" <=> pc[d] = "free"
      BY <2>2 DEF Dispatch, Answer, Raise, Refuse, Logout, LoginCheck, Ban, Revoke, Promote,
                  Request, Goto, LifeInv, Inv, TypeOK
    <3> QED BY <3>1, SameSessions, QuietLife
  <2> QED BY <2>1, <2>2, ClientLife, HandlerLife, MonitorLife DEF Next
<1> QED BY <1>1, <1>2, <1>3, <1>4, InvHolds, ExitsAreClean, SocketsAreOwned, PTL
        DEF Spec, IsConnectionTable, Life!Spec, LifeInv

=============================================================================

--------------------------- MODULE PrivateMessages ---------------------------
(***************************************************************************)
(* Private messages (src/server/socket_server.py): the handler of PM       *)
(* stores the message, looks up one connection of the addressee and sends  *)
(* it there; the handler of LOGIN opens a session, answers, and then sends *)
(* the messages stored for the user.  The client shows what comes while    *)
(* its chat window is open, from the answer to LOGIN to that to LOGOUT;    *)
(* its login window drops everything else (src/client/gui).                *)
(*                                                                         *)
(* Every send is one step.  The packets of a connection arrive in order    *)
(* (Framing), so window[c] is the window that is open when those sent so   *)
(* far have arrived, and is closed once the client has gone.  A connection *)
(* is used once, by some users in turn; they are registered.  A ban, which *)
(* ends a session from another handler, is in Sessions.                    *)
(***************************************************************************)
EXTENDS Naturals, Sequences, FiniteSets

CONSTANTS
  Conns, Users,
  Logins,     \* the users who may log in on each connection
  MaxMsgs,    \* bound on the number of private messages
  MaxLogins,  \* bound on the number of logins
  HistLimit,  \* rows of a history, 50 in the code
  MaxFaults,  \* bound on the number of calls of the database that fail
  NoUser, NoConn

ASSUME MessagesAssumption ==
  /\ Logins \in [Conns -> SUBSET Users]
  /\ MaxMsgs \in Nat /\ MaxLogins \in Nat /\ HistLimit \in Nat /\ MaxFaults \in Nat
  /\ NoUser \notin Users /\ NoConn \notin Conns

VARIABLES
  session,  \* self.sessions: the user logged in on each connection
  mail,     \* the private messages accepted so far
  rows,     \* the numbers of those stored, in the order of the table
  pc, job,  \* control point and locals of each connection's handler
  window,   \* the window of the client, or "closed" once the client has
            \* closed the connection
  seen,     \* messages that the chat window was given since it was opened
  caught,   \* history: sessions that were sent their messages
  users,    \* history: who was logged in on each connection so far
  went,     \* history: the connection found for each message
  logins,   \* number of logins so far
  faults    \* number of calls of the database that failed so far

client  == <<window, seen>>
history == <<caught, users, went, logins, faults>>
vars    == <<session, mail, rows, pc, job, client, history>>

Message == [from : Users, to : Users]

Job == [who : Users \cup {NoUser}, msg : Nat, at : Conns \cup {NoConn}, found : SUBSET Nat]

NoJob == [who |-> NoUser, msg |-> 0, at |-> NoConn, found |-> {}]

\* The types of the tables, the handlers and the clients; a handler that is about to
\* deliver a message has it and its addressee's connection.
TypeOK ==
  /\ session \in [Conns -> Users \cup {NoUser}]
  /\ mail \in Seq(Message) /\ Len(mail) <= MaxMsgs
  /\ rows \in Seq(1 .. Len(mail))
  /\ pc \in [Conns -> {"ready", "welcome", "read", "send", "goodbye", "find",
                       "deliver", "ended"}]
  /\ job \in [Conns -> Job]
  /\ \A c \in Conns : /\ pc[c] \in {"find", "deliver"} => job[c].msg \in 1 .. Len(mail)
                      /\ pc[c] = "deliver" => job[c].at # NoConn
  /\ window \in [Conns -> {"login", "chat", "closed"}]
  /\ seen \in [Conns -> SUBSET (1 .. Len(mail))]
  /\ caught \subseteq Conns
  /\ users \in [Conns -> SUBSET Users]
  /\ went \in [1 .. MaxMsgs -> Conns \cup {NoConn}] /\ logins \in Nat /\ faults \in Nat

Init ==
  /\ session = [c \in Conns |-> NoUser]
  /\ mail = <<>> /\ rows = <<>>
  /\ pc = [c \in Conns |-> "ready"] /\ job = [c \in Conns |-> NoJob]
  /\ window = [c \in Conns |-> "login"] /\ seen = [c \in Conns |-> {}]
  /\ caught = {} /\ users = [c \in Conns |-> {}] /\ went = [m \in 1 .. MaxMsgs |-> NoConn]
  /\ logins = 0 /\ faults = 0

-----------------------------------------------------------------------------

Goto(c, l)   == pc' = [pc EXCEPT ![c] = l]
Finish(c, l) == Goto(c, l) /\ job' = [job EXCEPT ![c] = NoJob]
DbFails      == faults < MaxFaults /\ faults' = faults + 1

\* Only the chat window shows what it is given.
Shown(c, S) == IF window[c] = "chat" THEN seen[c] \cup S ELSE seen[c]

\* The query of _send_pm_history: the first rows of those from and to the user.
Concerns(m, u) == u \in {mail[m].from, mail[m].to}
SlipAmong(u, i) == Cardinality({j \in i .. Len(rows) : Concerns(rows[j], u)}) <= HistLimit
Among(u, i)    == Cardinality({j \in 1 .. i : Concerns(rows[j], u)}) <= HistLimit
Listed(u)      == {i \in 1 .. Len(rows) : Concerns(rows[i], u) /\ Among(u, i)}
SlipHistory(u) == {rows[i] : i \in {j \in Listed(u) : mail[rows[j]].to # u}}
History(u)     == {rows[i] : i \in Listed(u)}

-----------------------------------------------------------------------------
(* LOGIN and LOGOUT *)

Login(c, u) ==
  /\ pc[c] = "ready" /\ window[c] = "login" /\ u \in Logins[c]
  /\ logins < MaxLogins /\ logins' = logins + 1
  /\ session' = [session EXCEPT ![c] = u]
  /\ job' = [job EXCEPT ![c] = [NoJob EXCEPT !.who = u]]
  /\ Goto(c, "welcome")
  /\ users' = [users EXCEPT ![c] = @ \cup {u}]
  /\ UNCHANGED <<mail, rows, client, caught, went, faults>>

\* LOGIN_RESP opens a new chat window.
Open(c, w) ==
  /\ window' = [window EXCEPT ![c] = IF @ = "closed" THEN @ ELSE w]
  /\ seen' = [seen EXCEPT ![c] = {}]

Welcome(c) ==
  /\ pc[c] = "welcome"
  /\ Open(c, "chat")
  /\ Goto(c, "read")
  /\ UNCHANGED <<session, mail, rows, job, history>>

HistoryRead(c) ==
  /\ pc[c] = "read"
  /\ \/ /\ job' = [job EXCEPT ![c].found = History(job[c].who)] /\ Goto(c, "send")
        /\ UNCHANGED faults
     \/ DbFails /\ Finish(c, "ready")
  /\ UNCHANGED <<session, mail, rows, client, caught, users, went, logins>>

HistorySend(c) ==
  /\ pc[c] = "send"
  /\ seen' = [seen EXCEPT ![c] = Shown(c, job[c].found)]
  /\ caught' = caught \cup {c}
  /\ Finish(c, "ready")
  /\ UNCHANGED <<session, mail, rows, window, users, went, logins, faults>>

Logout(c) ==
  /\ pc[c] = "ready" /\ session[c] # NoUser
  /\ session' = [session EXCEPT ![c] = NoUser]
  /\ caught' = caught \ {c}
  /\ Goto(c, "goodbye")
  /\ UNCHANGED <<mail, rows, job, client, users, went, logins, faults>>

\* LOGOUT_RESP.
Goodbye(c) ==
  /\ pc[c] = "goodbye"
  /\ Open(c, "login")
  /\ Goto(c, "ready")
  /\ UNCHANGED <<session, mail, rows, job, history>>

EndSession(c) ==
  /\ session' = [session EXCEPT ![c] = NoUser]
  /\ caught' = caught \ {c}
  /\ Open(c, "closed")

\* The handler ends: there is nothing more to receive, or it sends to a client that has
\* left.  (If the first query of PM raises it ends too, as if the client had left.)
Drop(c) ==
  /\ window[c] = "closed" /\ pc[c] \in {"ready", "welcome", "send", "goodbye"}
  /\ EndSession(c)
  /\ Finish(c, "ended")
  /\ UNCHANGED <<mail, rows, users, went, logins, faults>>

Leave(c) ==
  /\ window[c] # "closed" /\ Open(c, "closed")
  /\ UNCHANGED <<session, mail, rows, pc, job, history>>

-----------------------------------------------------------------------------
(* PM *)

SlipNumber == Len(mail)
Number     == Len(mail) + 1

\* The message is accepted when it is stored: nothing that is done before concerns
\* another handler.  One that could not be stored is sent all the same.
Pm(c, u) ==
  /\ pc[c] = "ready" /\ session[c] \notin {NoUser, u} /\ Len(mail) < MaxMsgs
  /\ mail' = Append(mail, [from |-> session[c], to |-> u])
  /\ \/ rows' = Append(rows, Number) /\ UNCHANGED faults
     \/ DbFails /\ UNCHANGED rows
  /\ job' = [job EXCEPT ![c] = [NoJob EXCEPT !.who = session[c], !.msg = Number]]
  /\ Goto(c, "find")
  /\ UNCHANGED <<session, client, caught, users, went, logins>>

\* _get_online_user_socket: some connection of the addressee.  If there is none, the
\* sender is told that the message has been saved.
SlipOnline(u) == {d \in Conns : session[d] # NoUser}
Online(u)     == {d \in Conns : session[d] = u}

Find(c) ==
  /\ pc[c] = "find"
  /\ LET D == Online(mail[job[c].msg].to) IN
     \/ \E d \in D : /\ job' = [job EXCEPT ![c].at = d] /\ Goto(c, "deliver")
                     /\ went' = [went EXCEPT ![job[c].msg] = d]
     \/ D = {} /\ Finish(c, "ready") /\ UNCHANGED went
  /\ UNCHANGED <<session, mail, rows, client, caught, users, logins, faults>>

\* A send that fails, the peer being gone, is logged.
Deliver(c) ==
  /\ pc[c] = "deliver"
  /\ seen' = [seen EXCEPT ![job[c].at] = Shown(job[c].at, {job[c].msg})]
  /\ Finish(c, "ready")
  /\ UNCHANGED <<session, mail, rows, window, history>>

Next ==
  \E c \in Conns :
    \/ Welcome(c) \/ HistoryRead(c) \/ HistorySend(c) \/ Logout(c) \/ Goodbye(c)
    \/ Drop(c) \/ Leave(c) \/ Find(c) \/ Deliver(c)
    \/ \E u \in Users : Login(c, u) \/ Pm(c, u)

Spec == Init /\ [][Next]_vars

-----------------------------------------------------------------------------
(* Properties *)

\* The handler of its sender has still to look up the addressee, or to send it.
Underway(m) == \E d \in Conns : pc[d] \in {"find", "deliver"} /\ job[d].msg = m

\* However a message and a login of its addressee overlap, nothing falls between the
\* stored messages that the login sends and those that are delivered: a user whose
\* messages have been sent has been shown every stored message to him within the limit,
\* but those under way, or found for another connection of his.
NoPmGap ==
  \A c \in {d \in caught : window[d] # "closed"} : \A i \in Listed(session[c]) :
    mail[rows[i]].to = session[c] =>
      rows[i] \in seen[c] \/ Underway(rows[i]) \/ went[rows[i]] \notin {c, NoConn}

\* A connection shows the messages of users who logged in on it only, although a
\* message may arrive when another user has logged in there since.
OnlyParties ==
  \A c \in Conns : \A m \in seen[c] : {mail[m].from, mail[m].to} \cap users[c] # {}

\* Whatever logins, ends and other messages fall between the steps of PM and of LOGIN, a
\* message is delivered to one connection at most, one that its addressee was found on,
\* is given up only when he has none, and is otherwise shown only in a history, which
\* leaves out none of a user's messages before those it has.
Mail ==
  INSTANCE Mailbox WITH
    Clients <- Conns,
    Nowhere <- NoConn,
    letters <- mail,
    kept    <- rows,
    owner   <- session,
    hand    <- [c \in Conns |-> job[c].msg],
    course  <- [c \in Conns |-> job[c].at],
    replay  <- [c \in Conns |-> job[c].found],
    box     <- seen
IsMailbox == Mail!Spec

=============================================================================

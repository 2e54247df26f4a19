------------------------ MODULE PrivateMessagesProofs ------------------------
(***************************************************************************)
(* No message falls between the stored ones that a login sends and those   *)
(* that are delivered, and no connection is shown the messages of others.  *)
(* Both rest on what the locals of the handlers hold (Local): a message    *)
(* being delivered is that of one handler alone, and went names its        *)
(* connection.  The last part shows that private messages are a mailbox.   *)
(***************************************************************************)
EXTENDS PrivateMessages, SequenceTheorems, FiniteSetTheorems, TLAPS

\* A handler at work on the message of a PM.
Sending(c) == pc[c] \in {"find", "deliver"}

Local(c) ==
  /\ pc[c] \in {"welcome", "read", "send"} => job[c].who \in Users /\ session[c] = job[c].who
  /\ pc[c] \in {"read", "send"} => window[c] # "login"
  /\ pc[c] = "send" => \A m \in job[c].found : m \in 1 .. Len(mail) /\ Concerns(m, job[c].who)
  /\ pc[c] = "deliver" => /\ went[job[c].msg] = job[c].at
                          /\ mail[job[c].msg].to \in users[job[c].at]
  /\ pc[c] = "goodbye" => session[c] = NoUser
  /\ session[c] # NoUser => session[c] \in users[c]
  /\ c \in caught => session[c] # NoUser /\ window[c] # "login" /\ pc[c] # "welcome"

Locals == \A c \in Conns : Local(c)

Single == \A c, d \in Conns : Sending(c) /\ Sending(d) /\ job[c].msg = job[d].msg => c = d

\* What the query lists, as a function of the tables.
Stored(ma, ro, u) ==
  {i \in 1 .. Len(ro) :
     /\ u \in {ma[ro[i]].from, ma[ro[i]].to}
     /\ Cardinality({j \in 1 .. i : u \in {ma[ro[j]].from, ma[ro[j]].to}}) <= HistLimit}

\* The stored messages to u that no other connection than c was found for.
Due(ma, ro, we, c, u) ==
  {ro[i] : i \in {j \in Stored(ma, ro, u) : ma[ro[j]].to = u /\ we[ro[j]] \in {c, NoConn}}}

InHand == {m \in 1 .. Len(mail) : Underway(m)}

\* From its query on, the handler of LOGIN accounts for all that is due.
Gapless(c) ==
  /\ c \in caught /\ window[c] = "chat" =>
       Due(mail, rows, went, c, session[c]) \subseteq seen[c] \cup InHand
  /\ pc[c] = "send" /\ window[c] = "chat" =>
       Due(mail, rows, went, c, session[c]) \subseteq (seen[c] \cup job[c].found) \cup InHand

GapInv == \A c \in Conns : Gapless(c)

IInv == TypeOK /\ Locals /\ Single /\ GapInv /\ OnlyParties

-----------------------------------------------------------------------------
(* The table and the histories *)

LEMMA JobType ==
  /\ NoJob \in Job
  /\ \A j \in Job, d \in Conns :
       /\ [j EXCEPT !.at = d] \in Job /\ [j EXCEPT !.at = d].at = d
       /\ [j EXCEPT !.at = d].msg = j.msg
  /\ \A j \in Job, S \in SUBSET Nat :
       /\ [j EXCEPT !.found = S] \in Job /\ [j EXCEPT !.found = S].found = S
       /\ [j EXCEPT !.found = S].who = j.who
BY DEF NoJob, Job

LEMMA RowsType ==
  ASSUME TypeOK
  PROVE  /\ Len(mail) \in Nat /\ Len(rows) \in Nat
         /\ \A m \in 1 .. Len(mail) : mail[m] \in Message
         /\ \A i \in 1 .. Len(rows) : rows[i] \in 1 .. Len(mail)
  <1>1. mail \in Seq(Message) /\ rows \in Seq(1 .. Len(mail)) BY DEF TypeOK
  <1> QED BY <1>1, LenProperties, ElementOfSeq

LEMMA ListedType ==
  ASSUME TypeOK, NEW u
  PROVE  /\ \A i \in Listed(u) : i \in 1 .. Len(rows) /\ rows[i] \in 1 .. Len(mail)
         /\ \A m \in History(u) : m \in 1 .. Len(mail) /\ Concerns(m, u)
BY RowsType DEF Listed, History

\* A step that leaves the table and the messages alone.
LEMMA TableKept ==
  ASSUME UNCHANGED <<mail, rows>>, NEW u
  PROVE  Listed(u)' = Listed(u) /\ \A m : Concerns(m, u)' <=> Concerns(m, u)
BY DEF Listed, Among, Concerns

-----------------------------------------------------------------------------
(* Types *)

LEMMA InitIInv == Init => IInv
  <1> SUFFICES ASSUME Init PROVE IInv
    OBVIOUS
  <1>1. Len(mail) = 0 /\ Len(rows) = 0 /\ mail \in Seq(Message) /\ rows \in Seq(1 .. Len(mail))
    BY EmptySeq DEF Init
  <1>2. \A c \in Conns : job[c] = NoJob /\ pc[c] = "ready" /\ session[c] = NoUser
                         /\ window[c] = "login" /\ seen[c] = {} /\ users[c] = {} /\ c \notin caught
    BY DEF Init
  <1>3. NoJob \in Job
    BY DEF NoJob, Job
  <1>4. TypeOK
    <2>1. /\ session \in [Conns -> Users \cup {NoUser}] /\ job \in [Conns -> Job]
          /\ pc \in [Conns -> {"ready", "welcome", "read", "send", "goodbye", "find",
                              "deliver", "ended"}]
          /\ window \in [Conns -> {"login", "chat", "closed"}]
          /\ seen \in [Conns -> SUBSET (1 .. Len(mail))] /\ users \in [Conns -> SUBSET Users]
          /\ went \in [1 .. MaxMsgs -> Conns \cup {NoConn}]
      BY <1>3 DEF Init
    <2>2. /\ Len(mail) <= MaxMsgs /\ caught \subseteq Conns /\ logins \in Nat /\ faults \in Nat
      BY <1>1, MessagesAssumption DEF Init
    <2> QED BY <1>1, <1>2, <2>1, <2>2 DEF TypeOK
  <1>5. Locals /\ Single /\ GapInv /\ OnlyParties
    BY <1>2 DEF Locals, Local, Single, Sending, GapInv, Gapless, OnlyParties
  <1> QED BY <1>4, <1>5 DEF IInv

\* The steps that touch no message, and those that do.
QuietStep(c) ==
  \/ \E u \in Users : Login(c, u)
  \/ Welcome(c) \/ HistoryRead(c) \/ HistorySend(c) \/ Logout(c) \/ Goodbye(c) \/ Drop(c) \/ Leave(c)

MessageStep(c) == (\E u \in Users : Pm(c, u)) \/ Find(c) \/ Deliver(c)

LEMMA QuietTypes ==
  ASSUME TypeOK, Locals, NEW c \in Conns, QuietStep(c)
  PROVE  TypeOK'
  <1> USE MessagesAssumption
  <1>0. Len(mail) \in Nat /\ NoJob \in Job
    BY RowsType DEF NoJob, Job
  <1>1. ASSUME NEW u \in Users, Login(c, u) PROVE TypeOK'
    <2>1. [NoJob EXCEPT !.who = u] \in Job
      BY DEF NoJob, Job
    <2> QED BY <1>1, <2>1 DEF TypeOK, Login, Goto, client
  <1>2. CASE Welcome(c)
    BY <1>2 DEF TypeOK, Welcome, Open, Goto, history
  <1>3. CASE HistoryRead(c)
    <2>1. History(job[c].who) \in SUBSET Nat
      BY <1>0, ListedType
    <2>2. [job[c] EXCEPT !.found = History(job[c].who)] \in Job
      BY <2>1, JobType DEF TypeOK
    <2>3. CASE job' = [job EXCEPT ![c].found = History(job[c].who)] /\ Goto(c, "send") /\ UNCHANGED faults
      BY <1>3, <2>2, <2>3 DEF TypeOK, HistoryRead, Goto, client
    <2>4. CASE DbFails /\ Finish(c, "ready")
      BY <1>0, <1>3, <2>4 DEF TypeOK, HistoryRead, Goto, Finish, DbFails, client
    <2> QED BY <1>3, <2>3, <2>4 DEF HistoryRead
  <1>4. CASE HistorySend(c)
    <2>1. job[c].found \subseteq 1 .. Len(mail)
      BY <1>4 DEF Locals, Local, HistorySend
    <2> QED BY <1>0, <1>4, <2>1 DEF TypeOK, HistorySend, Goto, Finish, Shown
  <1>5. CASE Logout(c)
    BY <1>5 DEF TypeOK, Logout, Goto, client
  <1>6. CASE Goodbye(c)
    BY <1>6 DEF TypeOK, Goodbye, Open, Goto, history
  <1>7. CASE Drop(c)
    BY <1>0, <1>7 DEF TypeOK, Drop, EndSession, Open, Goto, Finish
  <1>8. CASE Leave(c)
    BY <1>8 DEF TypeOK, Leave, Open, history
  <1> QED BY <1>1, <1>2, <1>3, <1>4, <1>5, <1>6, <1>7, <1>8 DEF QuietStep

\* What PM appends.
LEMMA PmMail ==
  ASSUME TypeOK, NEW c \in Conns, NEW u \in Users, Pm(c, u)
  PROVE  /\ Len(mail)' = Len(mail) + 1 /\ mail' \in Seq(Message) /\ Len(mail) \in Nat
         /\ \A m \in 1 .. Len(mail) : mail'[m] = mail[m]
         /\ rows' \in Seq(1 .. Len(mail) + 1) /\ Len(rows) \in Nat
         /\ \/ rows' = rows
            \/ Len(rows') = Len(rows) + 1 /\ rows'[Len(rows) + 1] = Number
         /\ \A i \in 1 .. Len(rows) : rows'[i] = rows[i]
  <1>1. session[c] \in Users /\ [from |-> session[c], to |-> u] \in Message
    BY DEF TypeOK, Pm, Message
  <1>2. mail' = Append(mail, [from |-> session[c], to |-> u])
    BY DEF Pm
  <1>3. mail \in Seq(Message) /\ rows \in Seq(1 .. Len(mail)) /\ Len(mail) \in Nat /\ Len(rows) \in Nat
    BY LenProperties DEF TypeOK
  <1>4. /\ mail' \in Seq(Message) /\ Len(mail') = Len(mail) + 1
        /\ \A m \in 1 .. Len(mail) : mail'[m] = mail[m]
    BY <1>1, <1>2, <1>3, AppendProperties
  <1>5. rows \in Seq(1 .. Len(mail) + 1) /\ Number \in 1 .. Len(mail) + 1
    <2>1. \A i \in 1 .. Len(rows) : rows[i] \in 1 .. Len(mail) + 1
      BY <1>3, ElementOfSeq
    <2>2. rows = [i \in 1 .. Len(rows) |-> rows[i]]
      BY <1>3, LenProperties
    <2> QED BY <1>3, <2>1, <2>2, IsASeq DEF Number
  <1>6. CASE rows' = rows
    BY <1>3, <1>4, <1>5, <1>6
  <1>7. CASE rows' = Append(rows, Number)
    BY <1>3, <1>4, <1>5, <1>7, AppendProperties
  <1> QED BY <1>6, <1>7 DEF Pm

LEMMA SendingTypes ==
  ASSUME TypeOK, NEW c \in Conns, MessageStep(c)
  PROVE  TypeOK'
  <1> USE MessagesAssumption
  <1>0. NoJob \in Job
    BY DEF NoJob, Job
  <1>1. ASSUME NEW u \in Users, Pm(c, u) PROVE TypeOK'
    <2>1. Number \in Nat /\ Number = Len(mail)' /\ Len(mail)' \in Nat /\ Len(mail)' <= MaxMsgs
      <3>1. Len(mail)' = Len(mail) + 1 /\ Len(mail) \in Nat
        BY <1>1, PmMail
      <3> QED BY <1>1, <3>1 DEF Number, Pm
    <2>2. [NoJob EXCEPT !.who = session[c], !.msg = Number] \in Job
          /\ [NoJob EXCEPT !.who = session[c], !.msg = Number].msg = Number
      BY <2>1 DEF TypeOK, NoJob, Job
    <2>3. mail' \in Seq(Message) /\ rows' \in Seq(1 .. Len(mail)')
      BY <1>1, PmMail
    <2>4. \A d \in Conns : seen[d] \in SUBSET (1 .. Len(mail)')
      BY <1>1, PmMail DEF TypeOK
    <2>5. /\ pc' \in [Conns -> {"ready", "welcome", "read", "send", "goodbye", "find",
                                "deliver", "ended"}]
          /\ job' \in [Conns -> Job]
      BY <1>1, <2>2 DEF TypeOK, Pm, Goto
    <2>6. \A d \in Conns : /\ pc'[d] \in {"find", "deliver"} => job'[d].msg \in 1 .. Len(mail)'
                           /\ pc'[d] = "deliver" => job'[d].at # NoConn
      <3> TAKE d \in Conns
      <3>1. CASE d = c
        BY <1>1, <2>1, <2>2, <3>1 DEF TypeOK, Pm, Goto
      <3>2. CASE d # c
        <4>1. Len(mail)' = Len(mail) + 1 /\ Len(mail) \in Nat
          BY <1>1, PmMail
        <4>2. pc'[d] = pc[d] /\ job'[d] = job[d]
          BY <1>1, <3>2 DEF TypeOK, Pm, Goto
        <4> QED BY <4>1, <4>2 DEF TypeOK
      <3> QED BY <3>1, <3>2
    <2>7. UNCHANGED <<session, window, seen, caught, users, went, logins>>
      BY <1>1 DEF Pm, client
    <2>8. faults' \in Nat
      BY <1>1 DEF TypeOK, Pm, DbFails
    <2>9. seen' \in [Conns -> SUBSET (1 .. Len(mail)')]
      BY <2>4, <2>7 DEF TypeOK
    <2> QED BY <2>1, <2>3, <2>5, <2>6, <2>7, <2>8, <2>9 DEF TypeOK
  <1>2. CASE Find(c)
    <2>1. ASSUME NEW d \in Conns
          PROVE  [job[c] EXCEPT !.at = d] \in Job /\ [job[c] EXCEPT !.at = d].at = d
                 /\ [job[c] EXCEPT !.at = d].msg = job[c].msg
      BY JobType DEF TypeOK
    <2>2. ASSUME NEW d \in Conns, job' = [job EXCEPT ![c].at = d], Goto(c, "deliver"),
                 went' = [went EXCEPT ![job[c].msg] = d]
          PROVE  TypeOK'
      <3>1. job' \in [Conns -> Job]
        BY <2>1, <2>2 DEF TypeOK
      <3>2. went' \in [1 .. MaxMsgs -> Conns \cup {NoConn}]
        BY <2>2 DEF TypeOK
      <3>3. \A e \in Conns : /\ pc'[e] \in {"find", "deliver"} => job'[e].msg \in 1 .. Len(mail)
                             /\ pc'[e] = "deliver" => job'[e].at # NoConn
        BY <1>2, <2>1, <2>2 DEF TypeOK, Goto, Find
      <3> QED BY <1>2, <2>2, <3>1, <3>2, <3>3 DEF TypeOK, Find, Goto, client
    <2>3. CASE Finish(c, "ready") /\ UNCHANGED went
      BY <1>0, <1>2, <2>3 DEF TypeOK, Find, Goto, Finish, client
    <2> QED BY <1>2, <2>2, <2>3 DEF Find, Online
  <1>3. CASE Deliver(c)
    <2>1. job[c].at \in Conns /\ job[c].msg \in 1 .. Len(mail)
      BY <1>3 DEF TypeOK, Deliver, Job
    <2> QED BY <1>0, <1>3, <2>1 DEF TypeOK, Deliver, Goto, Finish, Shown, history
  <1> QED BY <1>1, <1>2, <1>3 DEF MessageStep

-----------------------------------------------------------------------------
(* What a step of one handler leaves alone *)

LEMMA Elsewhere ==
  ASSUME TypeOK, NEW c \in Conns, QuietStep(c) \/ MessageStep(c)
  PROVE  /\ \A d \in Conns : d # c => /\ pc'[d] = pc[d] /\ job'[d] = job[d] /\ session'[d] = session[d]
                                    /\ window'[d] = window[d] /\ users'[d] = users[d]
                                    /\ (d \in caught' <=> d \in caught)
         /\ \A d \in Conns : users[d] \subseteq users'[d]
  <1>1. /\ \A d \in Conns : d # c => pc'[d] = pc[d] /\ job'[d] = job[d]
        /\ \A d \in Conns : d # c => session'[d] = session[d] /\ window'[d] = window[d]
    BY DEF TypeOK, QuietStep, MessageStep, Login, Welcome, HistoryRead, HistorySend, Logout, Goodbye, Drop,
           EndSession, Leave, Pm, Find, Deliver, Open, Goto, Finish, client, history
  <1>2. \A d \in Conns : d # c => (d \in caught' <=> d \in caught)
    BY DEF QuietStep, MessageStep, Login, Welcome, HistoryRead, HistorySend, Logout, Goodbye, Drop,
           EndSession, Leave, Pm, Find, Deliver, history
  <1>3. users' = users \/ \E u \in Users : users' = [users EXCEPT ![c] = @ \cup {u}]
    BY DEF QuietStep, MessageStep, Login, Welcome, HistoryRead, HistorySend, Logout, Goodbye, Drop,
           Leave, Pm, Find, Deliver, history
  <1>4. /\ \A d \in Conns : d # c => users'[d] = users[d]
        /\ \A d \in Conns : users[d] \subseteq users'[d]
    BY <1>3 DEF TypeOK
  <1> QED BY <1>1, <1>2, <1>4

LEMMA QuietKeeps ==
  ASSUME TypeOK, NEW c \in Conns, QuietStep(c)
  PROVE  /\ UNCHANGED <<mail, rows, went>>
         /\ \A d \in Conns : d # c => seen'[d] = seen[d]
         /\ \A d \in Conns : Sending(d)' <=> Sending(d)
         /\ \A d \in Conns : Sending(d) => job'[d] = job[d] /\ pc'[d] = pc[d]
BY DEF TypeOK, Sending, QuietStep, Login, Welcome, HistoryRead, HistorySend, Logout, Goodbye, Drop, EndSession,
       Leave, Open, Goto, Finish, client, history

LEMMA MailKept ==
  ASSUME TypeOK, NEW c \in Conns, QuietStep(c) \/ MessageStep(c)
  PROVE  /\ Len(mail) \in Nat /\ Len(mail)' \in Nat /\ Len(mail) <= Len(mail)'
         /\ \A m \in 1 .. Len(mail) : mail'[m] = mail[m]
  <1>1. Len(mail) \in Nat
    BY RowsType
  <1>2. CASE UNCHANGED mail
    BY <1>1, <1>2
  <1>3. ASSUME NEW u \in Users, Pm(c, u)
        PROVE  Len(mail)' = Len(mail) + 1 /\ \A m \in 1 .. Len(mail) : mail'[m] = mail[m]
    BY <1>3, PmMail
  <1>4. QuietStep(c) \/ Find(c) \/ Deliver(c) => UNCHANGED mail
    BY QuietKeeps DEF Find, Deliver, history
  <1> QED BY <1>1, <1>2, <1>3, <1>4 DEF MessageStep

-----------------------------------------------------------------------------
(* The locals of the handlers *)

LEMMA LocalOthers ==
  ASSUME TypeOK, Locals, Single, NEW c \in Conns, QuietStep(c) \/ MessageStep(c),
         NEW d \in Conns, d # c
  PROVE  Local(d)'
  <1>1. /\ pc'[d] = pc[d] /\ job'[d] = job[d] /\ session'[d] = session[d]
        /\ window'[d] = window[d] /\ users'[d] = users[d] /\ (d \in caught' <=> d \in caught)
        /\ \A e \in Conns : users[e] \subseteq users'[e]
    BY Elsewhere
  <1>2. Local(d)
    BY DEF Locals
  <1>3. /\ Len(mail) \in Nat /\ Len(mail)' \in Nat /\ Len(mail) <= Len(mail)'
        /\ \A m \in 1 .. Len(mail) : mail'[m] = mail[m]
    BY MailKept
  <1>4. ASSUME pc[d] = "send", NEW m \in job[d].found
        PROVE  m \in 1 .. Len(mail)' /\ Concerns(m, job[d].who)'
    <2>1. m \in 1 .. Len(mail) /\ Concerns(m, job[d].who)
      BY <1>2, <1>4 DEF Local
    <2> QED BY <1>1, <1>3, <2>1 DEF Concerns
  <1>5. ASSUME pc[d] = "deliver"
        PROVE  went'[job[d].msg] = job[d].at /\ mail'[job[d].msg].to \in users'[job[d].at]
    <2>1. /\ job[d].msg \in 1 .. Len(mail) /\ job[d].at \in Conns
          /\ went[job[d].msg] = job[d].at /\ mail[job[d].msg].to \in users[job[d].at]
      BY <1>2, <1>5 DEF Local, TypeOK, Job
    <2>2. CASE QuietStep(c) \/ Deliver(c) \/ \E u \in Users : Pm(c, u)
      <3>1. UNCHANGED went
        BY <2>2, QuietKeeps DEF Deliver, Pm, history
      <3> QED BY <1>1, <1>3, <2>1, <3>1
    <2>3. CASE Find(c)
      <3>1. job[c].msg # job[d].msg
        BY <1>5, <2>3 DEF Single, Sending, Find
      <3>2. went'[job[d].msg] = went[job[d].msg]
        <4>1. went' = went \/ \E e \in Conns : went' = [went EXCEPT ![job[c].msg] = e]
          BY <2>3 DEF Find, Online
        <4>2. job[d].msg \in 1 .. MaxMsgs
          BY <1>3, <2>1, MessagesAssumption DEF TypeOK
        <4> QED BY <3>1, <4>1, <4>2 DEF TypeOK
      <3> QED BY <1>1, <1>3, <2>1, <3>2
    <2> QED BY <2>2, <2>3 DEF MessageStep
  <1>6. /\ pc[d] \in {"welcome", "read", "send"} => job[d].who \in Users /\ session[d] = job[d].who
        /\ pc[d] \in {"read", "send"} => window[d] # "login"
        /\ pc[d] = "goodbye" => session[d] = NoUser
        /\ session[d] # NoUser => session[d] \in users[d]
        /\ d \in caught => session[d] # NoUser /\ window[d] # "login" /\ pc[d] # "welcome"
    BY <1>2 DEF Local
  <1> QED BY <1>1, <1>4, <1>5, <1>6 DEF Local

LEMMA LocalOwnQuiet ==
  ASSUME TypeOK, Locals, NEW c \in Conns, QuietStep(c)
  PROVE  Local(c)'
  <1>0. UNCHANGED <<mail, rows, went>> /\ users[c] \subseteq users'[c] /\ Local(c)
    BY QuietKeeps, Elsewhere DEF Locals
  <1>b. \A m, u : Concerns(m, u)' <=> Concerns(m, u)
    BY <1>0 DEF Concerns
  <1>1. ASSUME NEW u \in Users, Login(c, u) PROVE Local(c)'
    <2>1. pc'[c] = "welcome" /\ job'[c].who = u /\ session'[c] = u /\ u \in users'[c]
      BY <1>1 DEF TypeOK, Login, Goto, NoJob
    <2>2. c \notin caught' /\ u # NoUser
      BY <1>0, <1>1, MessagesAssumption DEF Local, Login
    <2> QED BY <2>1, <2>2 DEF Local
  <1>2. CASE Welcome(c)
    BY <1>0, <1>2 DEF TypeOK, Local, Welcome, Open, Goto, history
  <1>3. CASE HistoryRead(c)
    <2>0. /\ session'[c] = session[c] /\ window'[c] = window[c] /\ users' = users /\ caught' = caught
          /\ pc[c] = "read" /\ pc'[c] \in {"send", "ready"}
      BY <1>3 DEF TypeOK, HistoryRead, Goto, Finish, client
    <2>1. ASSUME pc'[c] = "send"
          PROVE  job'[c].found = History(job[c].who) /\ job'[c].who = job[c].who
      <3>1. History(job[c].who) \in SUBSET Nat /\ job[c] \in Job
        BY ListedType, RowsType DEF TypeOK
      <3>2. job' = [job EXCEPT ![c].found = History(job[c].who)]
        BY <1>3, <2>1 DEF TypeOK, HistoryRead, Goto, Finish
      <3> QED BY <3>1, <3>2, JobType DEF TypeOK
    <2>2. \A m \in History(job[c].who) : m \in 1 .. Len(mail)' /\ job[c].who \in {mail'[m].from, mail'[m].to}
      <3>1. \A m \in History(job[c].who) : m \in 1 .. Len(mail) /\ Concerns(m, job[c].who)
        BY ListedType
      <3> QED BY <1>0, <3>1 DEF Concerns
    <2>3. ASSUME pc'[c] = "send", NEW m \in job'[c].found
          PROVE  m \in 1 .. Len(mail)' /\ job'[c].who \in {mail'[m].from, mail'[m].to}
      BY <2>1, <2>2, <2>3
    <2>4. /\ pc'[c] = "send" => job'[c].who \in Users /\ session'[c] = job'[c].who
          /\ window'[c] # "login"
          /\ session'[c] # NoUser => session'[c] \in users'[c]
          /\ c \in caught' => session'[c] # NoUser
      BY <1>0, <2>0, <2>1 DEF Local
    <2> QED BY <2>0, <2>3, <2>4 DEF Local, Concerns
  <1>4. CASE HistorySend(c)
    BY <1>0, <1>4, MessagesAssumption DEF TypeOK, Local, HistorySend, Goto, Finish
  <1>5. CASE Logout(c)
    BY <1>0, <1>5 DEF TypeOK, Local, Logout, Goto, client
  <1>6. CASE Goodbye(c)
    BY <1>0, <1>6 DEF TypeOK, Local, Goodbye, Open, Goto, history
  <1>7. CASE Drop(c)
    BY <1>0, <1>7 DEF TypeOK, Local, Drop, EndSession, Open, Goto, Finish
  <1>8. CASE Leave(c)
    BY <1>0, <1>8, <1>b DEF TypeOK, Local, Leave, Open, history
  <1> QED BY <1>1, <1>2, <1>3, <1>4, <1>5, <1>6, <1>7, <1>8 DEF QuietStep

LEMMA LocalOwnMessage ==
  ASSUME TypeOK, Locals, NEW c \in Conns, MessageStep(c)
  PROVE  Local(c)'
  <1>0. Local(c)
    BY DEF Locals
  <1>1. /\ session' = session /\ window' = window /\ users' = users /\ caught' = caught
        /\ pc'[c] \in {"ready", "find", "deliver"}
    BY DEF TypeOK, MessageStep, Pm, Find, Deliver, Goto, Finish, client, history
  <1>2. ASSUME pc'[c] = "deliver"
        PROVE  went'[job'[c].msg] = job'[c].at /\ mail'[job'[c].msg].to \in users'[job'[c].at]
    <2>1. pc[c] = "find" /\ UNCHANGED <<mail, users>> /\ Find(c)
      BY <1>2 DEF TypeOK, MessageStep, Pm, Find, Deliver, Goto, Finish
    <2>2. PICK d \in Conns : /\ session[d] = mail[job[c].msg].to /\ job' = [job EXCEPT ![c].at = d]
                             /\ went' = [went EXCEPT ![job[c].msg] = d]
      BY <1>2, <2>1 DEF TypeOK, Find, Online, Goto, Finish
    <2>3. job'[c].msg = job[c].msg /\ job'[c].at = d
      BY <2>2, JobType DEF TypeOK
    <2>4. job[c].msg \in 1 .. MaxMsgs
      BY <2>1, RowsType, MessagesAssumption DEF TypeOK
    <2>5. session[d] \in Users
      BY <2>1, <2>2, RowsType DEF TypeOK, Message
    <2>6. session[d] \in users[d]
      BY <2>5, MessagesAssumption DEF Locals, Local
    <2> QED BY <2>1, <2>2, <2>3, <2>4, <2>6 DEF TypeOK
  <1> QED BY <1>0, <1>1, <1>2 DEF Local

LEMMA SingleStep ==
  ASSUME TypeOK, Single, NEW c \in Conns, QuietStep(c) \/ MessageStep(c)
  PROVE  Single'
  <1> SUFFICES ASSUME NEW d \in Conns, NEW e \in Conns, Sending(d)', Sending(e)', job'[d].msg = job'[e].msg
               PROVE  d = e
    BY DEF Single
  <1>1. CASE QuietStep(c)
    BY <1>1, QuietKeeps DEF Single
  <1>2. ASSUME NEW u \in Users, Pm(c, u) PROVE d = e
    <2>1. job'[c].msg = Len(mail) + 1 /\ Len(mail) \in Nat
      <3>1. job' = [job EXCEPT ![c] = [NoJob EXCEPT !.who = session[c], !.msg = Number]]
        BY <1>2 DEF Pm
      <3> QED BY <3>1, RowsType DEF TypeOK, NoJob, Number
    <2>2. \A f \in Conns : f # c => job'[f] = job[f] /\ pc'[f] = pc[f]
      BY <1>2, Elsewhere DEF MessageStep
    <2>3. \A f \in Conns : f # c /\ Sending(f)' => Sending(f) /\ job'[f].msg # Len(mail) + 1
      BY <2>1, <2>2 DEF Sending, TypeOK
    <2> QED BY <2>1, <2>2, <2>3 DEF Single
  <1>3. CASE Find(c) \/ Deliver(c)
    <2>1. \A f \in Conns : f # c => job'[f] = job[f] /\ pc'[f] = pc[f]
      BY <1>3, Elsewhere DEF MessageStep
    <2>2. Sending(c)' => job'[c].msg = job[c].msg
      <3>1. job[c] \in Job
        BY DEF TypeOK
      <3>2. CASE Find(c)
        <4>1. CASE Finish(c, "ready")
          BY <4>1 DEF TypeOK, Sending, Goto, Finish
        <4>2. ASSUME NEW a \in Conns, job' = [job EXCEPT ![c].at = a] PROVE job'[c].msg = job[c].msg
          BY <3>1, <4>2, JobType DEF TypeOK
        <4> QED BY <3>2, <4>1, <4>2 DEF Find, Online
      <3>3. CASE Deliver(c)
        BY <3>3 DEF TypeOK, Sending, Deliver, Goto, Finish
      <3> QED BY <1>3, <3>2, <3>3
    <2>3. Sending(c)
      BY <1>3 DEF Sending, Find, Deliver
    <2>4. \A f \in Conns : Sending(f)' => Sending(f) /\ job'[f].msg = job[f].msg
      BY <2>1, <2>2, <2>3 DEF Sending
    <2> QED BY <2>4 DEF Single
  <1> QED BY <1>1, <1>2, <1>3 DEF MessageStep

-----------------------------------------------------------------------------
(* The messages a connection has to be shown *)

LEMMA InHandQuiet ==
  ASSUME TypeOK, NEW c \in Conns, QuietStep(c)
  PROVE  InHand' = InHand
  <1>1. mail' = mail
    BY QuietKeeps
  <1>2. \A m : Underway(m)' <=> Underway(m)
    <2> SUFFICES ASSUME NEW m PROVE Underway(m)' <=> Underway(m)
      OBVIOUS
    <2>1. Underway(m)' <=> \E d \in Conns : Sending(d)' /\ job'[d].msg = m
      BY DEF Underway, Sending
    <2>2. Underway(m) <=> \E d \in Conns : Sending(d) /\ job[d].msg = m
      BY DEF Underway, Sending
    <2> QED BY <2>1, <2>2, QuietKeeps
  <1> QED BY <1>1, <1>2 DEF InHand

\* The query accounts for all that is due.
LEMMA DueListed ==
  ASSUME NEW c, NEW u
  PROVE  Due(mail, rows, went, c, u) \subseteq History(u)
BY DEF Due, Stored, History, Listed, Among, Concerns

LEMMA GaplessQuiet ==
  ASSUME TypeOK, Locals, GapInv, NEW c \in Conns, QuietStep(c)
  PROVE  GapInv'
  <1> SUFFICES ASSUME NEW d \in Conns PROVE Gapless(d)'
    BY DEF GapInv
  <1>0. Gapless(d) /\ Local(d) /\ InHand' = InHand /\ UNCHANGED <<mail, rows, went>>
    BY InHandQuiet, QuietKeeps DEF GapInv, Locals
  <1>1. CASE d # c
    <2>1. /\ pc'[d] = pc[d] /\ job'[d] = job[d] /\ session'[d] = session[d] /\ window'[d] = window[d]
          /\ seen'[d] = seen[d] /\ (d \in caught' <=> d \in caught)
      BY <1>1, Elsewhere, QuietKeeps
    <2> QED BY <1>0, <2>1 DEF Gapless
  <1>2. CASE d = c
    <2>1. ASSUME NEW u \in Users, Login(c, u) PROVE Gapless(c)'
      BY <1>2, <2>1 DEF TypeOK, Gapless, Login, Goto, client
    <2>2. CASE Welcome(c)
      BY <1>0, <1>2, <2>2 DEF TypeOK, Local, Gapless, Welcome, Goto, history
    <2>3. CASE HistoryRead(c)
      <3>1. /\ session'[c] = session[c] /\ window' = window /\ seen' = seen /\ caught' = caught
            /\ pc[c] = "read" /\ session[c] = job[c].who
        BY <1>0, <1>2, <2>3 DEF HistoryRead, client, Local
      <3>2. ASSUME pc'[c] = "send" PROVE job'[c].found = History(job[c].who)
        <4>1. job[c] \in Job /\ History(job[c].who) \in SUBSET Nat
          BY ListedType, RowsType DEF TypeOK
        <4>2. job' = [job EXCEPT ![c].found = History(job[c].who)]
          BY <2>3, <3>2 DEF TypeOK, HistoryRead, Goto, Finish
        <4> QED BY <4>1, <4>2, JobType DEF TypeOK
      <3>3. Due(mail, rows, went, c, session[c]) \subseteq History(job[c].who)
        BY <3>1, DueListed
      <3> QED BY <1>0, <1>2, <3>1, <3>2, <3>3 DEF Gapless
    <2>4. CASE HistorySend(c)
      <3>1. /\ session' = session /\ window' = window /\ pc[c] = "send" /\ pc'[c] = "ready"
            /\ window[c] = "chat" => seen'[c] = seen[c] \cup job[c].found
        BY <2>4 DEF TypeOK, HistorySend, Goto, Finish, Shown
      <3> QED BY <1>0, <1>2, <3>1 DEF Gapless
    <2>5. CASE Logout(c)
      BY <1>2, <2>5 DEF TypeOK, Gapless, Logout, Goto
    <2>6. CASE Goodbye(c)
      BY <1>2, <2>6 DEF TypeOK, Gapless, Goodbye, Open, Goto
    <2>7. CASE Drop(c)
      BY <1>2, <2>7 DEF TypeOK, Gapless, Drop, EndSession, Open
    <2>8. CASE Leave(c)
      BY <1>2, <2>8 DEF TypeOK, Gapless, Leave, Open
    <2> QED BY <1>2, <2>1, <2>2, <2>3, <2>4, <2>5, <2>6, <2>7, <2>8 DEF QuietStep
  <1> QED BY <1>1, <1>2

\* What PM stores is due next to what was; nothing else becomes due.
LEMMA DuePm ==
  ASSUME TypeOK, NEW c \in Conns, NEW v \in Users, Pm(c, v), NEW d \in Conns, NEW u
  PROVE  Due(mail', rows', went', d, u) \subseteq Due(mail, rows, went, d, u) \cup {Number}
  <1>1. /\ \A m \in 1 .. Len(mail) : mail'[m] = mail[m]
        /\ \A i \in 1 .. Len(rows) : rows'[i] = rows[i] /\ rows[i] \in 1 .. Len(mail)
        /\ Len(rows) \in Nat /\ went' = went
        /\ \/ Len(rows') = Len(rows)
           \/ Len(rows') = Len(rows) + 1 /\ rows'[Len(rows) + 1] = Number
    BY PmMail, RowsType DEF Pm
  <1> SUFFICES ASSUME NEW i \in Stored(mail', rows', u), mail'[rows'[i]].to = u,
                      went'[rows'[i]] \in {d, NoConn}, rows'[i] # Number
               PROVE  i \in Stored(mail, rows, u) /\ rows'[i] = rows[i]
                      /\ mail[rows[i]].to = u /\ went[rows[i]] \in {d, NoConn}
    BY DEF Due
  <1>2. i \in 1 .. Len(rows)
    BY <1>1 DEF Stored
  <1>3. \A j \in 1 .. i : rows'[j] = rows[j] /\ mail'[rows'[j]] = mail[rows[j]]
    BY <1>1, <1>2
  <1>4. {j \in 1 .. i : u \in {mail'[rows'[j]].from, mail'[rows'[j]].to}}
          = {j \in 1 .. i : u \in {mail[rows[j]].from, mail[rows[j]].to}}
    BY <1>3
  <1>5. i \in 1 .. i
    BY <1>2, <1>1
  <1> QED BY <1>1, <1>2, <1>3, <1>4, <1>5 DEF Stored

\* A step of the handlers of PM leaves every message due to a connection shown or in
\* hand.
LEMMA DueStep ==
  ASSUME TypeOK, Locals, Single, NEW c \in Conns, MessageStep(c), NEW d \in Conns,
         session[d] \in Users, NEW X, NEW Y, X \subseteq Y,
         Due(mail, rows, went, d, session[d]) \subseteq X \cup InHand,
         Deliver(c) /\ job[c].at = d => job[c].msg \in Y
  PROVE  Due(mail', rows', went', d, session[d]) \subseteq Y \cup InHand'
  <1>0. Len(mail) \in Nat /\ \A m \in InHand : \E e \in Conns : Sending(e) /\ job[e].msg = m
    BY RowsType DEF InHand, Underway, Sending
  <1>a. \A e \in Conns : e # c => pc'[e] = pc[e] /\ job'[e] = job[e]
    BY Elsewhere
  <1>b. \A m \in InHand : m \in 1 .. Len(mail)'
    BY MailKept DEF InHand
  <1>c. \A m \in 1 .. Len(mail)', e \in Conns : Sending(e)' /\ job'[e].msg = m => m \in InHand'
    BY DEF InHand, Underway, Sending
  <1>d. \A m \in InHand : m \in InHand' \/ (Sending(c) /\ job[c].msg = m)
    <2> SUFFICES ASSUME NEW m \in InHand, ~(Sending(c) /\ job[c].msg = m) PROVE m \in InHand'
      OBVIOUS
    <2>1. PICK e \in Conns : Sending(e) /\ job[e].msg = m
      BY <1>0
    <2>2. e # c
      BY <2>1
    <2> QED BY <1>a, <1>b, <1>c, <2>1, <2>2 DEF Sending
  <1>1. ASSUME NEW v \in Users, Pm(c, v)
        PROVE  Due(mail', rows', went', d, session[d]) \subseteq Y \cup InHand'
    <2>1. ~Sending(c)
      BY <1>1 DEF Pm, Sending
    <2>2. Number \in InHand'
      <3>1. job' = [job EXCEPT ![c] = [NoJob EXCEPT !.who = session[c], !.msg = Number]] /\ Sending(c)'
        BY <1>1 DEF TypeOK, Pm, Goto, Sending
      <3>2. job'[c].msg = Number
        BY <3>1 DEF TypeOK, NoJob
      <3>3. Number \in 1 .. Len(mail)'
        <4>1. Len(mail)' = Len(mail) + 1
          BY <1>1, PmMail
        <4> QED BY <1>0, <4>1 DEF Number
      <3> QED BY <1>c, <3>1, <3>2, <3>3
    <2> QED BY <1>1, <1>d, <2>1, <2>2, DuePm
  <1>2. ASSUME Find(c)
        PROVE  Due(mail', rows', went', d, session[d]) \subseteq Y \cup InHand'
    <2>0. UNCHANGED <<mail, rows>>
      BY <1>2 DEF Find
    <2>1. ASSUME NEW e \in Conns, job' = [job EXCEPT ![c].at = e], Goto(c, "deliver"),
                 went' = [went EXCEPT ![job[c].msg] = e]
          PROVE  Due(mail', rows', went', d, session[d]) \subseteq Y \cup InHand'
      <3>1. Sending(c)' /\ job'[c].msg = job[c].msg /\ job[c].msg \in 1 .. Len(mail)'
        BY <1>2, <2>0, <2>1, JobType DEF TypeOK, Find, Goto, Sending
      <3>2. job[c].msg \in InHand'
        BY <1>c, <3>1
      <3>3. \A m \in Nat : m # job[c].msg => went'[m] = went[m]
        BY <2>1 DEF TypeOK
      <3>4. \A i \in 1 .. Len(rows) : rows[i] \in Nat
        BY <1>0, RowsType
      <3>5. Due(mail', rows', went', d, session[d])
              \subseteq Due(mail, rows, went, d, session[d]) \cup {job[c].msg}
        BY <2>0, <3>3, <3>4 DEF Due, Stored
      <3> QED BY <1>d, <3>2, <3>5
    <2>2. ASSUME Online(mail[job[c].msg].to) = {}, UNCHANGED went
          PROVE  Due(mail', rows', went', d, session[d]) \subseteq Y \cup InHand'
      <3>1. session[d] # mail[job[c].msg].to
        BY <2>2 DEF Online
      <3>2. job[c].msg \notin Due(mail, rows, went, d, session[d])
        BY <3>1 DEF Due
      <3> QED BY <1>d, <2>0, <2>2, <3>2
    <2> QED BY <1>2, <2>1, <2>2 DEF Find, Online
  <1>3. ASSUME Deliver(c)
        PROVE  Due(mail', rows', went', d, session[d]) \subseteq Y \cup InHand'
    <2>0. UNCHANGED <<mail, rows, went>>
      BY <1>3 DEF Deliver, history
    <2>1. CASE job[c].at = d
      BY <1>3, <1>d, <2>0, <2>1
    <2>2. CASE job[c].at # d
      <3>1. job[c].msg \notin Due(mail, rows, went, d, session[d])
        <4>1. went[job[c].msg] = job[c].at /\ job[c].at \in Conns
          BY <1>3 DEF Locals, Local, Deliver, TypeOK, Job
        <4> QED BY <2>2, <4>1, MessagesAssumption DEF Due
      <3> QED BY <1>d, <2>0, <3>1
    <2> QED BY <2>1, <2>2
  <1> QED BY <1>1, <1>2, <1>3 DEF MessageStep

LEMMA GaplessMessage ==
  ASSUME TypeOK, Locals, Single, GapInv, NEW c \in Conns, MessageStep(c)
  PROVE  GapInv'
  <1> SUFFICES ASSUME NEW d \in Conns PROVE Gapless(d)'
    BY DEF GapInv
  <1>0. Gapless(d) /\ Local(d)
    BY DEF GapInv, Locals
  <1>1. UNCHANGED <<session, window, caught>>
    BY DEF MessageStep, Pm, Find, Deliver, client, history
  <1>2. pc'[d] = "send" => pc[d] = "send" /\ job'[d] = job[d]
    <2>1. CASE d = c
      BY <2>1 DEF TypeOK, MessageStep, Pm, Find, Deliver, Goto, Finish
    <2>2. CASE d # c
      BY <2>2, Elsewhere
    <2> QED BY <2>1, <2>2
  <1>3. seen[d] \subseteq seen'[d]
    <2>1. seen' = seen \/ seen' = [seen EXCEPT ![job[c].at] = Shown(job[c].at, {job[c].msg})]
      BY DEF MessageStep, Pm, Find, Deliver, client
    <2> QED BY <2>1 DEF TypeOK, Shown
  <1>4. window[d] = "chat" /\ Deliver(c) /\ job[c].at = d => job[c].msg \in seen'[d]
    BY DEF TypeOK, Deliver, Shown
  <1>5. ASSUME d \in caught, window[d] = "chat"
        PROVE  Due(mail', rows', went', d, session[d]) \subseteq seen'[d] \cup InHand'
    <2>1. session[d] \in Users /\ Due(mail, rows, went, d, session[d]) \subseteq seen[d] \cup InHand
      BY <1>0, <1>5 DEF Gapless, Local, TypeOK
    <2> QED BY <1>3, <1>4, <1>5, <2>1, DueStep
  <1>6. ASSUME pc[d] = "send", window[d] = "chat"
        PROVE  Due(mail', rows', went', d, session[d]) \subseteq (seen'[d] \cup job[d].found) \cup InHand'
    <2>1. session[d] \in Users
          /\ Due(mail, rows, went, d, session[d]) \subseteq (seen[d] \cup job[d].found) \cup InHand
      BY <1>0, <1>6 DEF Gapless, Local
    <2> DEFINE X == seen[d] \cup job[d].found
               Y == seen'[d] \cup job[d].found
    <2>2. X \subseteq Y
      BY <1>3
    <2>3. Deliver(c) /\ job[c].at = d => job[c].msg \in Y
      BY <1>4, <1>6
    <2>4. Due(mail, rows, went, d, session[d]) \subseteq X \cup InHand
      BY <2>1
    <2> HIDE DEF X, Y
    <2>5. Due(mail', rows', went', d, session[d]) \subseteq Y \cup InHand'
      BY <2>1, <2>2, <2>3, <2>4, DueStep
    <2> QED BY <2>5 DEF Y
  <1> QED BY <1>1, <1>2, <1>5, <1>6 DEF Gapless

-----------------------------------------------------------------------------
(* Who is shown what *)

LEMMA PartiesStep ==
  ASSUME TypeOK, Locals, OnlyParties, NEW c \in Conns, QuietStep(c) \/ MessageStep(c)
  PROVE  OnlyParties'
  <1> SUFFICES ASSUME NEW d \in Conns, NEW m \in seen'[d]
               PROVE  {mail'[m].from, mail'[m].to} \cap users'[d] # {}
    BY DEF OnlyParties
  <1>0. users[d] \subseteq users'[d] /\ Local(c)
    BY Elsewhere DEF Locals
  <1>1. \A n \in 1 .. Len(mail) : mail'[n] = mail[n]
    BY MailKept
  <1>2. CASE m \in seen[d]
    BY <1>0, <1>1, <1>2 DEF OnlyParties, TypeOK
  <1>3. CASE HistorySend(c) /\ d = c /\ m \in job[c].found
    <2>1. /\ m \in 1 .. Len(mail) /\ job[c].who \in {mail[m].from, mail[m].to}
          /\ session[c] = job[c].who /\ job[c].who \in Users
      BY <1>0, <1>3 DEF Local, HistorySend, Concerns
    <2>2. job[c].who \in users[c]
      BY <1>0, <2>1, MessagesAssumption DEF Local
    <2> QED BY <1>0, <1>1, <1>3, <2>1, <2>2
  <1>4. CASE Deliver(c) /\ d = job[c].at /\ m = job[c].msg
    <2>1. m \in 1 .. Len(mail) /\ mail[m].to \in users[d]
      BY <1>0, <1>4 DEF Local, Deliver, TypeOK
    <2> QED BY <1>0, <1>1, <2>1
  <1>5. \/ m \in seen[d]
        \/ HistorySend(c) /\ d = c /\ m \in job[c].found
        \/ Deliver(c) /\ d = job[c].at /\ m = job[c].msg
    <2>1. CASE HistorySend(c)
      BY <2>1 DEF TypeOK, HistorySend, Shown
    <2>2. CASE Deliver(c)
      BY <2>2 DEF TypeOK, Deliver, Shown
    <2>3. CASE ~HistorySend(c) /\ ~Deliver(c)
      BY <2>3 DEF TypeOK, QuietStep, MessageStep, Login, Welcome, HistoryRead, Logout, Goodbye, Drop, EndSession,
                  Leave, Pm, Find, Open, client
    <2> QED BY <2>1, <2>2, <2>3
  <1> QED BY <1>2, <1>3, <1>4, <1>5

-----------------------------------------------------------------------------
(* The invariant *)

LEMMA IInvStep == IInv /\ [Next]_vars => IInv'
  <1> SUFFICES ASSUME IInv, [Next]_vars PROVE IInv'
    OBVIOUS
  <1>0. TypeOK /\ Locals /\ Single /\ GapInv /\ OnlyParties
    BY DEF IInv
  <1>1. ASSUME NEW c \in Conns, QuietStep(c) PROVE IInv'
    <2>1. TypeOK' /\ Single' /\ GapInv' /\ OnlyParties'
      BY <1>0, <1>1, QuietTypes, SingleStep, GaplessQuiet, PartiesStep
    <2>2. Locals'
      BY <1>0, <1>1, LocalOthers, LocalOwnQuiet DEF Locals
    <2> QED BY <2>1, <2>2 DEF IInv
  <1>2. ASSUME NEW c \in Conns, MessageStep(c) PROVE IInv'
    <2>1. TypeOK' /\ Single' /\ GapInv' /\ OnlyParties'
      BY <1>0, <1>2, SendingTypes, SingleStep, GaplessMessage, PartiesStep
    <2>2. Locals'
      BY <1>0, <1>2, LocalOthers, LocalOwnMessage DEF Locals
    <2> QED BY <2>1, <2>2 DEF IInv
  <1>3. CASE UNCHANGED vars
    BY <1>0, <1>3 DEF IInv, vars, client, history, TypeOK, Locals, Local, Concerns, Single, Sending, GapInv, Gapless,
                      InHand, Underway, OnlyParties
  <1> QED BY <1>1, <1>2, <1>3 DEF Next, QuietStep, MessageStep

LEMMA IInvAlways == Spec => []IInv
BY InitIInv, IInvStep, PTL DEF Spec

\* The tables, the handlers and the clients keep their types.
THEOREM TypeCorrect == Spec => []TypeOK
  <1>1. IInv => TypeOK
    BY DEF IInv
  <1> QED BY <1>1, IInvAlways, PTL

\* However a message and a login of its addressee overlap, no stored message within the
\* limit falls between what the login sends and what is delivered.
THEOREM NoMessageLost == Spec => []NoPmGap
  <1>1. IInv => NoPmGap
    <2> SUFFICES ASSUME IInv, NEW c \in Conns, c \in caught, window[c] # "closed",
                        NEW i \in Listed(session[c]), mail[rows[i]].to = session[c]
                 PROVE  rows[i] \in seen[c] \/ Underway(rows[i]) \/ went[rows[i]] \notin {c, NoConn}
      BY DEF NoPmGap, IInv, TypeOK
    <2>1. window[c] = "chat"
      BY DEF IInv, TypeOK, Locals, Local
    <2>2. Due(mail, rows, went, c, session[c]) \subseteq seen[c] \cup InHand
      BY <2>1 DEF IInv, GapInv, Gapless
    <2>3. i \in Stored(mail, rows, session[c])
      BY DEF Listed, Stored, Among, Concerns
    <2>4. went[rows[i]] \in {c, NoConn} => rows[i] \in Due(mail, rows, went, c, session[c])
      BY <2>3 DEF Due
    <2> QED BY <2>2, <2>4 DEF InHand
  <1> QED BY <1>1, IInvAlways, PTL

\* A connection is shown the messages of users who logged in on it only.
THEOREM PartiesOnly == Spec => []OnlyParties
  <1>1. IInv => OnlyParties
    BY DEF IInv
  <1> QED BY <1>1, IInvAlways, PTL

-----------------------------------------------------------------------------
(* The mailbox *)

\* A handler holds only what its control point uses, a session is opened in the login
\* window only, and a window that is not the chat window shows nothing.
Rest(c) ==
  /\ ~Sending(c) => job[c].msg = 0
  /\ pc[c] # "deliver" => job[c].at = NoConn
  /\ pc[c] # "send" => job[c].found = {}
  /\ session[c] # NoUser /\ window[c] = "login" => pc[c] = "welcome"
  /\ window[c] # "chat" => seen[c] = {}

Rested == \A c \in Conns : Rest(c)

LEMMA JobFields ==
  /\ NoJob.msg = 0 /\ NoJob.at = NoConn /\ NoJob.found = {}
  /\ \A u, m : LET j == [NoJob EXCEPT !.who = u, !.msg = m]
               IN  j.msg = m /\ j.at = NoConn /\ j.found = {}
  /\ \A u : LET j == [NoJob EXCEPT !.who = u]
            IN  j.msg = 0 /\ j.at = NoConn /\ j.found = {}
  /\ \A j \in Job : \A d : /\ [j EXCEPT !.at = d].msg = j.msg
                            /\ [j EXCEPT !.at = d].found = j.found
                            /\ [j EXCEPT !.at = d].at = d
  /\ \A j \in Job : \A S : /\ [j EXCEPT !.found = S].msg = j.msg
                            /\ [j EXCEPT !.found = S].at = j.at
                            /\ [j EXCEPT !.found = S].found = S
BY DEF NoJob, Job

\* What a step does to the locals of its handler.
LEMMA JobStep ==
  ASSUME TypeOK, Rested, NEW c \in Conns
  PROVE  /\ \A l : Finish(c, l) =>
              job'[c].msg = 0 /\ job'[c].at = NoConn /\ job'[c].found = {} /\ pc'[c] = l
         /\ \A u \in Users : Login(c, u) =>
              job'[c].msg = 0 /\ job'[c].at = NoConn /\ job'[c].found = {}
         /\ \A u \in Users : Pm(c, u) =>
              job'[c].msg = Number /\ job'[c].at = NoConn /\ job'[c].found = {}
         /\ \A d \in Conns : Find(c) /\ job' = [job EXCEPT ![c].at = d] =>
              job'[c].msg = job[c].msg /\ job'[c].at = d /\ job'[c].found = {}
         /\ \A S : HistoryRead(c) /\ job' = [job EXCEPT ![c].found = S] =>
              job'[c].msg = 0 /\ job'[c].at = NoConn /\ job'[c].found = S
<1> job \in [Conns -> Job] /\ pc \in [Conns -> {"ready", "welcome", "read", "send", "goodbye",
                                               "find", "deliver", "ended"}] /\ Rest(c)
  BY DEF TypeOK, Rested
<1>1. ASSUME NEW l, Finish(c, l)
      PROVE  job'[c].msg = 0 /\ job'[c].at = NoConn /\ job'[c].found = {} /\ pc'[c] = l
  BY <1>1, JobFields DEF Finish, Goto
<1>2. ASSUME NEW u \in Users, Login(c, u)
      PROVE  job'[c].msg = 0 /\ job'[c].at = NoConn /\ job'[c].found = {}
  BY <1>2, JobFields DEF Login
<1>3. ASSUME NEW u \in Users, Pm(c, u)
      PROVE  job'[c].msg = Number /\ job'[c].at = NoConn /\ job'[c].found = {}
  BY <1>3, JobFields DEF Pm
<1>4. ASSUME NEW d \in Conns, Find(c), job' = [job EXCEPT ![c].at = d]
      PROVE  job'[c].msg = job[c].msg /\ job'[c].at = d /\ job'[c].found = {}
  BY <1>4, JobFields DEF Find, Rest
<1>5. ASSUME NEW S, HistoryRead(c), job' = [job EXCEPT ![c].found = S]
      PROVE  job'[c].msg = 0 /\ job'[c].at = NoConn /\ job'[c].found = S
  BY <1>5, JobFields DEF HistoryRead, Rest, Sending
<1> QED BY <1>1, <1>2, <1>3, <1>4, <1>5

LEMMA RestOthers ==
  ASSUME TypeOK, Rested, NEW c \in Conns, QuietStep(c) \/ MessageStep(c),
         NEW d \in Conns, d # c
  PROVE  Rest(d)'
<1>1. /\ pc'[d] = pc[d] /\ job'[d] = job[d] /\ session'[d] = session[d] /\ window'[d] = window[d]
  BY Elsewhere
<1>2. window[d] # "chat" => seen'[d] = seen[d]
  <2>1. CASE QuietStep(c) BY <2>1, QuietKeeps
  <2>2. CASE MessageStep(c)
    BY <2>2 DEF MessageStep, Pm, Find, Deliver, Shown, client, TypeOK
  <2> QED BY <2>1, <2>2
<1> QED BY <1>1, <1>2 DEF Rested, Rest, Sending

LEMMA RestOwn ==
  ASSUME TypeOK, Locals, Rested, NEW c \in Conns, QuietStep(c) \/ MessageStep(c)
  PROVE  Rest(c)'
<1> Rest(c) /\ Local(c) BY DEF Rested, Locals
<1>0. /\ pc \in [Conns -> {"ready", "welcome", "read", "send", "goodbye", "find", "deliver", "ended"}]
      /\ session \in [Conns -> Users \cup {NoUser}] /\ job \in [Conns -> Job]
      /\ window \in [Conns -> {"login", "chat", "closed"}]
      /\ DOMAIN seen = Conns
  BY DEF TypeOK
<1>1. ASSUME NEW u \in Users, Login(c, u) PROVE Rest(c)'
  BY <1>0, <1>1, JobStep DEF Rest, Sending, Login, Goto, client
<1>2. CASE Welcome(c)
  BY <1>0, <1>2 DEF Rest, Sending, Welcome, Goto, Open
<1>3. CASE HistoryRead(c)
  <2>1. CASE Finish(c, "ready")
    BY <1>0, <1>3, <2>1, JobStep DEF Rest, Local, Sending, HistoryRead, client
  <2>2. CASE job' = [job EXCEPT ![c].found = History(job[c].who)] /\ Goto(c, "send")
    BY <1>0, <1>3, <2>2, JobStep DEF Rest, Local, Sending, HistoryRead, Goto, client
  <2> QED BY <1>3, <2>1, <2>2 DEF HistoryRead
<1>4. CASE HistorySend(c)
  BY <1>0, <1>4, JobStep DEF Rest, Local, Sending, HistorySend, Shown
<1>5. CASE Logout(c)
  BY <1>0, <1>5 DEF Rest, Sending, Logout, Goto, client
<1>6. CASE Goodbye(c)
  BY <1>0, <1>6 DEF Rest, Local, Sending, Goodbye, Goto, Open, history
<1>7. CASE Drop(c)
  BY <1>0, <1>7, JobStep DEF Rest, Sending, Drop, EndSession, Open
<1>8. CASE Leave(c)
  BY <1>0, <1>8 DEF Rest, Sending, Leave, Open, history
<1>9. ASSUME NEW u \in Users, Pm(c, u) PROVE Rest(c)'
  BY <1>0, <1>9, JobStep DEF Rest, Sending, Pm, Goto, client
<1>10. CASE Find(c)
  <2>1. CASE Finish(c, "ready")
    BY <1>0, <1>10, <2>1, JobStep DEF Rest, Sending, Find, client
  <2>2. ASSUME NEW d \in Conns, job' = [job EXCEPT ![c].at = d], Goto(c, "deliver") PROVE Rest(c)'
    BY <1>0, <1>10, <2>2, JobStep DEF Rest, Sending, Find, Goto, client
  <2> QED BY <1>10, <2>1, <2>2 DEF Find, Online
<1>11. CASE Deliver(c)
  BY <1>0, <1>11, JobStep DEF Rest, Sending, Deliver, Shown, history
<1> QED BY <1>1, <1>2, <1>3, <1>4, <1>5, <1>6, <1>7, <1>8, <1>9, <1>10, <1>11
        DEF QuietStep, MessageStep

LEMMA RestStep == ASSUME IInv, Rested, [Next]_vars PROVE Rested'
<1>1. CASE UNCHANGED vars
  BY <1>1 DEF vars, client, Rested, Rest, Sending
<1>2. ASSUME NEW c \in Conns, QuietStep(c) \/ MessageStep(c) PROVE Rested'
  BY <1>2, RestOthers, RestOwn DEF IInv, Rested
<1> QED BY <1>1, <1>2 DEF Next, QuietStep, MessageStep

\* What the mailbox sees of a change of one handler's locals.
LEMMA Fields ==
  ASSUME NEW c \in Conns, \A d \in Conns : d # c => job'[d] = job[d]
  PROVE  /\ [d \in Conns |-> job'[d].msg] = [[d \in Conns |-> job[d].msg] EXCEPT ![c] = job'[c].msg]
         /\ [d \in Conns |-> job'[d].at] = [[d \in Conns |-> job[d].at] EXCEPT ![c] = job'[c].at]
         /\ [d \in Conns |-> job'[d].found]
              = [[d \in Conns |-> job[d].found] EXCEPT ![c] = job'[c].found]
         /\ job'[c].msg = job[c].msg =>
              [d \in Conns |-> job'[d].msg] = [d \in Conns |-> job[d].msg]
         /\ job'[c].at = job[c].at =>
              [d \in Conns |-> job'[d].at] = [d \in Conns |-> job[d].at]
         /\ job'[c].found = job[c].found =>
              [d \in Conns |-> job'[d].found] = [d \in Conns |-> job[d].found]
OBVIOUS

\* A history leaves out none of a user's messages before one that it has.
LEMMA HistoryFirst ==
  ASSUME TypeOK, NEW u
  PROVE  Listed(u) \in Mail!Firsts(u)
<1> Len(rows) \in Nat BY RowsType
<1>1. Listed(u) \subseteq Mail!Places(u)
  BY DEF Listed, Concerns, Mail!Places
<1>2. ASSUME NEW i \in Listed(u), NEW j \in Mail!Places(u), j < i PROVE j \in Listed(u)
  <2> DEFINE Upto(k) == {l \in 1 .. k : Concerns(rows[l], u)}
  <2>1. i \in 1 .. Len(rows) /\ j \in 1 .. Len(rows) /\ Concerns(rows[j], u)
    BY <1>2 DEF Listed, Concerns, Mail!Places
  <2>2. IsFiniteSet(Upto(i))
    <3>1. IsFiniteSet(1 .. i) BY <2>1, FS_Interval
    <3> QED BY <3>1, FS_Subset
  <2>3. Upto(j) \subseteq Upto(i) BY <1>2, <2>1
  <2>4. /\ Cardinality(Upto(j)) \in Nat /\ Cardinality(Upto(i)) \in Nat
        /\ Cardinality(Upto(j)) <= Cardinality(Upto(i))
    BY <2>2, <2>3, FS_Subset, FS_CardinalityType
  <2>5. Cardinality(Upto(i)) <= HistLimit BY DEF Listed, Among
  <2>6. Cardinality(Upto(j)) <= HistLimit BY <2>4, <2>5, MessagesAssumption
  <2> QED BY <2>1, <2>6 DEF Listed, Among
<1> QED BY <1>1, <1>2 DEF Mail!Firsts

\* The steps of a login and of the client.
LEMMA QuietMail ==
  ASSUME IInv, Rested, NEW c \in Conns, QuietStep(c)
  PROVE  [Mail!Next]_(Mail!vars)
<1> USE DEF Mail!vars
<1> TypeOK /\ Rest(c) /\ Local(c) BY DEF IInv, Rested, Locals
<1>0. /\ \A d \in Conns : d # c => job'[d] = job[d]
      /\ UNCHANGED <<mail, rows>>
      /\ session \in [Conns -> Users \cup {NoUser}] /\ seen \in [Conns -> SUBSET (1 .. Len(mail))]
      /\ window \in [Conns -> {"login", "chat", "closed"}]
  BY Elsewhere, QuietKeeps DEF TypeOK
<1>1. ASSUME NEW u \in Users, Login(c, u) PROVE Mail!LogIn(c, u)
  <2>1. session[c] = NoUser BY <1>0, <1>1 DEF Login, Rest
  <2>2. job'[c].msg = job[c].msg /\ job'[c].at = job[c].at /\ job'[c].found = job[c].found
    BY <1>1, JobStep DEF Login, Rest, Sending
  <2> QED BY <1>0, <1>1, <2>1, <2>2, Fields DEF Login, client, Mail!LogIn
<1>2. ASSUME UNCHANGED <<session, job>>, seen' = [seen EXCEPT ![c] = {}]
      PROVE  Mail!Clear(c) \/ UNCHANGED Mail!vars
  <2>1. CASE seen[c] = {} BY <1>0, <1>2, <2>1
  <2>2. CASE seen[c] # {} BY <1>0, <1>2, <2>2 DEF Mail!Clear
  <2> QED BY <2>1, <2>2
<1>3. CASE Welcome(c) \/ Goodbye(c) \/ Leave(c)
  <2>1. UNCHANGED <<session, job>> /\ seen' = [seen EXCEPT ![c] = {}]
    BY <1>3 DEF Welcome, Goodbye, Leave, Open, history
  <2> QED BY <1>2, <2>1 DEF Mail!Next
<1>4. CASE HistoryRead(c)
  <2>1. CASE Finish(c, "ready")
    <3>1. job'[c].msg = job[c].msg /\ job'[c].at = job[c].at /\ job'[c].found = job[c].found
      BY <1>4, <2>1, JobStep DEF HistoryRead, Rest, Sending
    <3> QED BY <1>0, <1>4, <3>1, Fields DEF HistoryRead, client
  <2>2. CASE job' = [job EXCEPT ![c].found = History(job[c].who)]
    <3>1. /\ job'[c].msg = job[c].msg /\ job'[c].at = job[c].at /\ job[c].found = {}
          /\ job'[c].found = History(job[c].who)
      BY <1>4, <2>2, JobStep DEF HistoryRead, Rest, Sending
    <3>2. session[c] = job[c].who /\ session[c] # NoUser
      BY <1>4, MessagesAssumption DEF HistoryRead, Local
    <3>3. Listed(session[c]) \in Mail!Firsts(session[c])
      BY HistoryFirst
    <3>4. Mail!Collect(c)
      BY <1>0, <1>4, <3>1, <3>2, <3>3, Fields DEF HistoryRead, client, History, Mail!Collect
    <3> QED BY <3>4 DEF Mail!Next
  <2> QED BY <1>4, <2>1, <2>2 DEF HistoryRead
<1>5. CASE HistorySend(c)
  <2>1. job'[c].msg = job[c].msg /\ job'[c].at = job[c].at /\ job'[c].found = {}
    BY <1>5, JobStep DEF HistorySend, Rest, Sending
  <2>2. seen' \in {seen, [seen EXCEPT ![c] = @ \cup job[c].found]}
    BY <1>0, <1>5 DEF HistorySend, Shown
  <2>3. CASE job[c].found = {}
    <3>1. seen' = seen BY <1>0, <2>2, <2>3
    <3> QED BY <1>0, <1>5, <2>1, <2>3, <3>1, Fields DEF HistorySend
  <2>4. CASE job[c].found # {}
    <3>1. Mail!Hand(c) BY <1>0, <1>5, <2>1, <2>2, <2>4, Fields DEF HistorySend, Mail!Hand, Mail!Show
    <3> QED BY <3>1 DEF Mail!Next
  <2> QED BY <2>3, <2>4
<1>6. ASSUME session' = [session EXCEPT ![c] = NoUser], seen' = seen,
             job'[c].msg = job[c].msg, job'[c].at = job[c].at, job'[c].found \in {{}, job[c].found},
             session[c] = NoUser => job'[c].found = job[c].found
      PROVE  Mail!LogOut(c) \/ UNCHANGED Mail!vars
  <2>1. CASE session[c] = NoUser BY <1>0, <1>6, <2>1, Fields
  <2>2. CASE session[c] # NoUser BY <1>0, <1>6, <2>2, Fields DEF Mail!LogOut
  <2> QED BY <2>1, <2>2
<1>7. CASE Logout(c)
  BY <1>6, <1>7 DEF Logout, client, Mail!Next
<1>8. CASE Drop(c)
  <2>1. job'[c].msg = job[c].msg /\ job'[c].at = job[c].at /\ job'[c].found = {}
    BY <1>8, JobStep DEF Drop, Rest, Sending
  <2>2. seen' = seen
    BY <1>0, <1>8 DEF Drop, EndSession, Open, Rest
  <2>3. session[c] = NoUser => job[c].found = {}
    BY <1>8, MessagesAssumption DEF Drop, Rest, Local
  <2> QED BY <1>6, <1>8, <2>1, <2>2, <2>3 DEF Drop, EndSession, Mail!Next
<1> QED BY <1>1, <1>3, <1>4, <1>5, <1>7, <1>8 DEF QuietStep, Mail!Next

\* The steps of PM.
LEMMA MessageMail ==
  ASSUME IInv, Rested, NEW c \in Conns, MessageStep(c)
  PROVE  Mail!Next
<1> TypeOK /\ Rest(c) BY DEF IInv, Rested
<1>0. /\ \A d \in Conns : d # c => job'[d] = job[d]
      /\ session \in [Conns -> Users \cup {NoUser}] /\ seen \in [Conns -> SUBSET (1 .. Len(mail))]
      /\ Len(mail) \in Nat
  BY Elsewhere, RowsType DEF TypeOK
<1>1. ASSUME NEW u \in Users, Pm(c, u) PROVE Mail!Post(c, u)
  <2>1. /\ job'[c].msg = Len(mail) + 1 /\ job[c].msg = 0
        /\ job'[c].at = job[c].at /\ job'[c].found = job[c].found
    BY <1>1, JobStep DEF Pm, Number, Rest, Sending
  <2> QED BY <1>0, <1>1, <2>1, Fields DEF Pm, Number, client, Mail!Post
<1>2. CASE Find(c)
  <2>1. job[c].msg # 0 /\ job[c].at = NoConn
    BY <1>2, RowsType DEF Find, TypeOK, Rest
  <2>2. ASSUME NEW d \in Online(mail[job[c].msg].to), job' = [job EXCEPT ![c].at = d]
        PROVE  Mail!Route(c, d)
    <3>1. d \in Conns /\ session[d] = mail[job[c].msg].to BY DEF Online
    <3>2. job'[c].msg = job[c].msg /\ job'[c].at = d /\ job'[c].found = job[c].found
      BY <1>2, <2>2, <3>1, JobStep DEF Find, Rest
    <3> QED BY <1>0, <1>2, <2>1, <3>1, <3>2, Fields DEF Find, client, Mail!Route
  <2>3. CASE Online(mail[job[c].msg].to) = {} /\ Finish(c, "ready")
    <3>1. job'[c].msg = 0 /\ job'[c].at = job[c].at /\ job'[c].found = job[c].found
      BY <1>2, <2>1, <2>3, JobStep DEF Find, Rest
    <3>2. \A d \in Conns : session[d] # mail[job[c].msg].to BY <2>3 DEF Online
    <3>3. Mail!GiveUp(c) BY <1>0, <1>2, <2>1, <3>1, <3>2, Fields DEF Find, client, Mail!GiveUp
    <3> QED BY <3>3 DEF Mail!Next
  <2> QED BY <1>2, <2>2, <2>3 DEF Find, Online, Mail!Next
<1>3. CASE Deliver(c)
  <2>1. job'[c].msg = 0 /\ job'[c].at = NoConn /\ job'[c].found = job[c].found
    BY <1>3, JobStep DEF Deliver, Rest
  <2>2. job[c].at # NoConn /\ job[c].at \in Conns
    BY <1>3 DEF Deliver, TypeOK, Job
  <2>3. seen' \in {seen, [seen EXCEPT ![job[c].at] = @ \cup {job[c].msg}]}
    BY <1>0, <1>3, <2>2 DEF Deliver, Shown
  <2>4. Mail!Deliver(c)
    BY <1>0, <1>3, <2>1, <2>2, <2>3, Fields DEF Deliver, history, Mail!Deliver, Mail!Show
  <2> QED BY <2>4 DEF Mail!Next
<1> QED BY <1>1, <1>2, <1>3 DEF MessageStep, Mail!Next

\* However PM, LOGIN and the ends of connections overlap, private messages are a mailbox:
\* PrivateMessages implements Mailbox.
THEOREM ImplementsMailbox == Spec => IsMailbox
<1>1. Init => Rested
  BY JobFields DEF Init, Rested, Rest, Sending
<1>2. IInv /\ Rested /\ [Next]_vars => Rested' BY RestStep
<1>3. Init => Mail!Init
  <2> SUFFICES ASSUME Init PROVE Mail!Init OBVIOUS
  <2>1. \A c \in Conns : job[c].msg = 0 /\ job[c].at = NoConn /\ job[c].found = {}
    BY JobFields DEF Init
  <2> QED BY <2>1 DEF Init, Mail!Init
<1>4. IInv /\ Rested /\ [Next]_vars => [Mail!Next]_(Mail!vars)
  <2>1. CASE UNCHANGED vars BY <2>1 DEF vars, client, Mail!vars
  <2>2. ASSUME IInv, Rested, NEW c \in Conns, QuietStep(c) \/ MessageStep(c)
        PROVE  [Mail!Next]_(Mail!vars)
    BY <2>2, QuietMail, MessageMail
  <2> QED BY <2>1, <2>2 DEF Next, QuietStep, MessageStep
<1> QED BY <1>1, <1>2, <1>3, <1>4, IInvAlways, PTL DEF Spec, IsMailbox, Mail!Spec

=============================================================================

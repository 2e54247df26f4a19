---------------------------- MODULE Registration ----------------------------
(***************************************************************************)
(* REGISTER (register_user of src/server/auth.py): the tables users and    *)
(* permissions while several handler threads register accounts.  The       *)
(* database layer holds its lock for one call only, so the four calls of   *)
(* one registration interleave with those of others, and a fault or a      *)
(* crash may fall between any two of them.  Nothing deletes a user;        *)
(* promotions, which take an administrator, are in Sessions.               *)
(***************************************************************************)
EXTENDS Naturals

CONSTANTS
  Threads,     \* handler threads
  Names,       \* usernames, stripped of blanks
  DbFaults,    \* whether a database call may raise DatabaseError
  MaxCrashes,  \* bound on the number of server crashes
  NoName, NoRole

ASSUME RegistrationAssumption ==
  /\ DbFaults \in BOOLEAN /\ MaxCrashes \in Nat
  /\ NoName \notin Names /\ NoRole \notin {"Admin", "User"}

VARIABLES
  users,    \* names with a row in the table users
  perms,    \* permissions.role by name, NoRole where there is no row
  pc, job,  \* control point and locals of register_user in each thread
  acked,    \* names whose registration was confirmed to a client
  first,    \* history: the first name ever inserted
  crashes

vars == <<users, perms, pc, job, acked, first, crashes>>

Granted == {"Admin", "User"}
NoJob   == [name |-> NoName, role |-> "User"]

\* The types of the tables and of the locals of each thread.
TypeOK ==
  /\ users \subseteq Names
  /\ perms \in [Names -> Granted \cup {NoRole}]
  /\ pc \in [Threads -> {"idle", "count", "insert", "fetch", "grant"}]
  /\ job \in [Threads -> [name : Names \cup {NoName}, role : Granted]]
  /\ acked \subseteq Names
  /\ first \in Names \cup {NoName}
  /\ crashes \in Nat

Init ==
  /\ users = {} /\ acked = {} /\ first = NoName
  /\ perms = [n \in Names |-> NoRole]
  /\ pc = [t \in Threads |-> "idle"]
  /\ job = [t \in Threads |-> NoJob]
  /\ crashes = 0

-----------------------------------------------------------------------------

\* The registration of t ends; a client that asks again starts another one.
Finish(t) ==
  /\ pc' = [pc EXCEPT ![t] = "idle"]
  /\ job' = [job EXCEPT ![t] = NoJob]

\* A request with a name and a password; one without is refused unread.
Register(t, n) ==
  /\ pc[t] = "idle"
  /\ pc' = [pc EXCEPT ![t] = "count"]
  /\ job' = [job EXCEPT ![t].name = n]
  /\ UNCHANGED <<users, perms, acked, first, crashes>>

\* SELECT COUNT(*): whoever finds the table empty will be an administrator.
SlipRoleFor(t) == "User"
SlipNoRoleFor(t) == NoRole
RoleFor(t) == IF users = {} THEN "Admin" ELSE "User"

Count(t) ==
  /\ pc[t] = "count"
  /\ job' = [job EXCEPT ![t].role = RoleFor(t)]
  /\ pc' = [pc EXCEPT ![t] = "insert"]
  /\ UNCHANGED <<users, perms, acked, first, crashes>>

\* The UNIQUE constraint of users.username.
SlipIsFree(n) == TRUE
IsFree(n) == n \notin users

InsertUser(t) ==
  LET n == job[t].name IN
  /\ pc[t] = "insert" /\ IsFree(n)
  /\ users' = users \cup {n}
  /\ first' = IF users = {} THEN n ELSE first
  /\ pc' = [pc EXCEPT ![t] = "fetch"]
  /\ UNCHANGED <<perms, job, acked, crashes>>

InsertFails(t) ==
  /\ pc[t] = "insert" /\ ~IsFree(job[t].name)
  /\ Finish(t)
  /\ UNCHANGED <<users, perms, acked, first, crashes>>

FetchId(t) ==
  /\ pc[t] = "fetch"
  /\ pc' = [pc EXCEPT ![t] = "grant"]
  /\ UNCHANGED <<users, perms, job, acked, first, crashes>>

\* The row in permissions, and the answer "Registration successful.".
InsertPermission(t) ==
  /\ pc[t] = "grant"
  /\ perms' = [perms EXCEPT ![job[t].name] = job[t].role]
  /\ acked' = acked \cup {job[t].name}
  /\ Finish(t)
  /\ UNCHANGED <<users, first, crashes>>

\* A DatabaseError of any of the calls is answered "Username already exists.":
\* what was committed before stays.
SlipFaultAnswer(t) == acked' = acked \cup {job[t].name}
FaultAnswer(t)     == UNCHANGED acked

DbError(t) ==
  /\ DbFaults /\ pc[t] # "idle"
  /\ FaultAnswer(t)
  /\ Finish(t)
  /\ UNCHANGED <<users, perms, first, crashes>>

\* The process dies and is started again.
Crash ==
  /\ crashes < MaxCrashes
  /\ crashes' = crashes + 1
  /\ pc' = [t \in Threads |-> "idle"]
  /\ job' = [t \in Threads |-> NoJob]
  /\ UNCHANGED <<users, perms, acked, first>>

Step(t) ==
  \/ \E n \in Names : Register(t, n)
  \/ Count(t) \/ InsertUser(t) \/ InsertFails(t) \/ FetchId(t)
  \/ InsertPermission(t) \/ DbError(t)

Next == (\E t \in Threads : Step(t)) \/ Crash

Spec == Init /\ [][Next]_vars

-----------------------------------------------------------------------------
(* Properties *)

\* The threads that have inserted the user n and not yet his role.
Granting(n) == {t \in Threads : pc[t] \in {"fetch", "grant"} /\ job[t].name = n}

\* Several threads may race for one name: at most one of them goes on to write
\* its role, and nobody writes a role over the one a user has.
OneWinner ==
  \A n \in Names :
    /\ \A s, t \in Granting(n) : s = t
    /\ Granting(n) # {} => n \in users /\ perms[n] = NoRole

\* A registration is confirmed only when both rows are there, and roles belong
\* to users, wherever a fault or a crash fell.
AckedComplete ==
  /\ \A n \in acked : n \in users /\ perms[n] # NoRole
  /\ \A n \in Names : perms[n] # NoRole => n \in users

\* login_user asks for the row in users only, and the LOGIN handler makes a User of
\* whoever has no row in permissions.
MayLogIn(n)    == n \in users
RoleAtLogin(n) == IF perms[n] = NoRole THEN "User" ELSE perms[n]

\* Seen from outside, a name is taken once, with an account in the role User, and its
\* own role is granted once, as it is confirmed, whatever counts and inserts of other
\* registrations fall between the calls and wherever they are cut; the first name is
\* granted the role of an administrator and no other.
Outside ==
  INSTANCE Accounts WITH
    role <- [n \in Names |-> IF MayLogIn(n) THEN RoleAtLogin(n) ELSE "free"],
    underway <- {n \in Names : Granting(n) # {}},
    first <- first,
    confirmed <- acked

IsAccounts == Outside!Spec

\* "Execute registration inside a transaction block to maintain database consistency.
\* Inserts user and establishes permissions in one go": whoever is in users has his
\* role as well, but while his registration is still going on.
InOneGo == \A n \in users : perms[n] # NoRole \/ Granting(n) # {}

\* "The first registered user is automatically set to Admin role": he, and
\* nobody else without an administrator's doing.
OnlyFirstIsAdmin == \A n \in Names : perms[n] = "Admin" => n = first

=============================================================================

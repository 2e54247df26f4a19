------------------------- MODULE RegistrationProofs -------------------------
(***************************************************************************)
(* Theorems about Registration, for any threads and names, with faults and *)
(* any number of crashes.                                                  *)
(***************************************************************************)
EXTENDS Registration, TLAPS

\* A thread that is at work has a name, and a thread that counted while the
\* table is still empty has counted nobody.
Locals ==
  \A t \in Threads :
    /\ pc[t] # "idle" => job[t].name \in Names
    /\ pc[t] = "insert" /\ users = {} => job[t].role = "Admin"

Inv == TypeOK /\ Locals /\ OneWinner /\ AckedComplete

USE DEF Granted, RoleFor, IsFree, FaultAnswer

-----------------------------------------------------------------------------

\* Nobody is registered at first.
LEMMA InitInv == ASSUME Init PROVE Inv
BY RegistrationAssumption
DEF Init, Inv, TypeOK, Locals, OneWinner, AckedComplete, Granting, NoJob

\* No database call of any thread breaks the invariant.
LEMMA StepInv ==
  ASSUME Inv, NEW t \in Threads, Step(t) PROVE Inv'
<1> USE RegistrationAssumption
        DEF Inv, TypeOK, Locals, OneWinner, AckedComplete, Granting, Finish, NoJob
<1>1. ASSUME NEW n \in Names, Register(t, n) PROVE Inv'
  BY <1>1 DEF Register
<1>2. CASE Count(t) BY <1>2 DEF Count
<1>3. CASE InsertUser(t) BY <1>3 DEF InsertUser
<1>4. CASE InsertFails(t) BY <1>4 DEF InsertFails
<1>5. CASE FetchId(t) BY <1>5 DEF FetchId
<1>6. CASE InsertPermission(t) BY <1>6 DEF InsertPermission
<1>7. CASE DbError(t) BY <1>7 DEF DbError
<1> QED BY <1>1, <1>2, <1>3, <1>4, <1>5, <1>6, <1>7 DEF Step

\* Nor does a crash, which leaves only what is in the tables.
LEMMA NextInv == ASSUME Inv, [Next]_vars PROVE Inv'
<1> USE RegistrationAssumption
        DEF Inv, TypeOK, Locals, OneWinner, AckedComplete, Granting
<1>1. CASE Crash BY <1>1 DEF Crash, NoJob
<1>2. CASE UNCHANGED vars BY <1>2 DEF vars
<1> QED BY <1>1, <1>2, StepInv DEF Next

\* The invariant holds in every reachable state.
LEMMA InvHolds == Spec => []Inv
<1>1. Init => Inv BY InitInv
<1>2. Inv /\ [Next]_vars => Inv' BY NextInv
<1> QED BY <1>1, <1>2, PTL DEF Spec

\* The tables users and permissions and the locals of register_user keep their types.
THEOREM TypeCorrect == Spec => []TypeOK
BY InvHolds, PTL DEF Inv

\* However many handlers register one name at once, one of them wins and only
\* it writes the role.
THEOREM OneHandlerWins == Spec => []OneWinner
BY InvHolds, PTL DEF Inv

\* A confirmed account has its role, across faults and restarts.
THEOREM ConfirmedIsComplete == Spec => []AckedComplete
BY InvHolds, PTL DEF Inv

-----------------------------------------------------------------------------
(* Refinement *)

\* Whoever took the first name counted nobody, and goes on as an administrator.
FirstInv ==
  /\ IF users = {} THEN first = NoName ELSE first \in users
  /\ \A t \in Threads :
       pc[t] \in {"fetch", "grant"} /\ job[t].name = first => job[t].role = "Admin"

LEMMA FirstStep == ASSUME Inv, FirstInv, [Next]_vars PROVE FirstInv'
<1> USE RegistrationAssumption
        DEF Inv, TypeOK, Locals, OneWinner, AckedComplete, Granting, FirstInv
<1>1. ASSUME NEW t \in Threads, Step(t) PROVE FirstInv'
  <2> USE DEF Finish, NoJob
  <2>1. ASSUME NEW n \in Names, Register(t, n) PROVE FirstInv' BY <2>1 DEF Register
  <2>2. CASE Count(t) BY <2>2 DEF Count
  <2>3. CASE InsertUser(t) BY <2>3 DEF InsertUser
  <2>4. CASE InsertFails(t) BY <2>4 DEF InsertFails
  <2>5. CASE FetchId(t) BY <2>5 DEF FetchId
  <2>6. CASE InsertPermission(t) BY <2>6 DEF InsertPermission
  <2>7. CASE DbError(t) BY <2>7 DEF DbError
  <2> QED BY <1>1, <2>1, <2>2, <2>3, <2>4, <2>5, <2>6, <2>7 DEF Step
<1>2. CASE Crash BY <1>2 DEF Crash, NoJob
<1>3. CASE UNCHANGED vars BY <1>3 DEF vars
<1> QED BY <1>1, <1>2, <1>3 DEF Next

Role     == [n \in Names |-> IF MayLogIn(n) THEN RoleAtLogin(n) ELSE "free"]
Underway == {n \in Names : Granting(n) # {}}

\* A step that leaves the tables alone cuts the registrations of the threads it ends.
LEMMA CutStep ==
  ASSUME UNCHANGED <<users, perms, acked, first>>,
         \A n \in Names : Granting(n)' \subseteq Granting(n)
  PROVE  Outside!Next
<1> PICK S : S = Underway \ Underway' OBVIOUS
<1>1. S \in SUBSET Underway /\ Underway' = Underway \ S BY DEF Underway
<1>2. Role' = Role BY DEF Role, MayLogIn, RoleAtLogin
<1>3. Outside!Cut(S) BY <1>1, <1>2 DEF Outside!Cut, Role, Underway
<1> QED BY <1>1, <1>3 DEF Outside!Next, Underway

\* Nothing changes for those outside when no thread takes a name or writes a role.
LEMMA UnseenStep ==
  ASSUME UNCHANGED <<users, perms, acked, first>>,
         \A n \in Names : Granting(n)' = Granting(n)
  PROVE  UNCHANGED Outside!vars
BY DEF Outside!vars, MayLogIn, RoleAtLogin

LEMMA AccountsStep ==
  ASSUME Inv, FirstInv, [Next]_vars PROVE [Outside!Next]_Outside!vars
<1> USE RegistrationAssumption
<1>1. ASSUME NEW t \in Threads, Step(t) PROVE [Outside!Next]_Outside!vars
  <2> USE DEF Finish, NoJob
  <2>1. ASSUME NEW n \in Names, Register(t, n) PROVE UNCHANGED Outside!vars
    BY <2>1, UnseenStep DEF Register, Granting, Inv, TypeOK
  <2>2. CASE Count(t) BY <2>2, UnseenStep DEF Count, Granting, Inv, TypeOK
  <2>3. CASE InsertUser(t)
    <3> PICK n : n = job[t].name OBVIOUS
    <3>1. n \in Names /\ n \notin users BY <2>3 DEF InsertUser, Inv, Locals
    <3>2. Granting(n)' # {} /\ \A m \in Names \ {n} : Granting(m)' = Granting(m)
      BY <2>3 DEF InsertUser, Granting, Inv, TypeOK
    <3>3. perms[n] = NoRole /\ users' = users \cup {n} /\ UNCHANGED <<perms, acked>>
      BY <2>3, <3>1 DEF InsertUser, Inv, AckedComplete
    <3>4. Role[n] = "free" /\ Role' = [Role EXCEPT ![n] = "User"]
      BY <3>1, <3>3 DEF Role, MayLogIn, RoleAtLogin
    <3>5. Underway' = Underway \cup {n} BY <3>1, <3>2 DEF Underway
    <3>6. first' = IF first = NoName THEN n ELSE first
      BY <2>3 DEF InsertUser, FirstInv, Inv, TypeOK
    <3>7. Outside!Take(n)
      BY <3>3, <3>4, <3>5, <3>6 DEF Outside!Take, Role, Underway
    <3> QED BY <3>1, <3>7 DEF Outside!Next
  <2>4. CASE InsertFails(t) BY <2>4, UnseenStep DEF InsertFails, Granting, Inv, TypeOK
  <2>5. CASE FetchId(t) BY <2>5, UnseenStep DEF FetchId, Granting, Inv, TypeOK
  <2>6. CASE InsertPermission(t)
    <3> PICK n, granted : n = job[t].name /\ granted = job[t].role OBVIOUS
    <3>1. n \in Names /\ granted \in {"Admin", "User"} /\ t \in Granting(n)
      BY <2>6 DEF InsertPermission, Inv, Locals, TypeOK, Granting
    <3>2. /\ perms' = [perms EXCEPT ![n] = granted] /\ acked' = acked \cup {n}
          /\ UNCHANGED <<users, first>>
      BY <2>6 DEF InsertPermission
    <3>3. n \in users BY <3>1 DEF Inv, OneWinner
    <3>4. Role' = [Role EXCEPT ![n] = granted]
      BY <3>1, <3>2, <3>3 DEF Role, MayLogIn, RoleAtLogin, Inv, TypeOK
    <3>5. Granting(n)' = {} /\ \A m \in Names \ {n} : Granting(m)' = Granting(m)
      BY <2>6, <3>1 DEF InsertPermission, Granting, Inv, TypeOK, OneWinner
    <3>6. n \in Underway /\ Underway' = Underway \ {n} BY <3>1, <3>5 DEF Underway
    <3>7. n = first => granted = "Admin"
      BY <2>6 DEF InsertPermission, FirstInv
    <3>8. Outside!Confirm(n, granted)
      BY <3>2, <3>4, <3>6, <3>7 DEF Outside!Confirm, Role, Underway
    <3> QED BY <3>1, <3>8 DEF Outside!Next
  <2>7. CASE DbError(t)
    <3>1. \A n \in Names : Granting(n)' \subseteq Granting(n)
      BY <2>7 DEF DbError, Granting, Inv, TypeOK
    <3> QED BY <2>7, <3>1, CutStep DEF DbError
  <2> QED BY <1>1, <2>1, <2>2, <2>3, <2>4, <2>5, <2>6, <2>7 DEF Step
<1>2. CASE Crash
  <2>1. \A n \in Names : Granting(n)' \subseteq Granting(n) BY <1>2 DEF Crash, Granting
  <2> QED BY <1>2, <2>1, CutStep DEF Crash
<1>3. CASE UNCHANGED vars BY <1>3, UnseenStep DEF vars, Granting
<1> QED BY <1>1, <1>2, <1>3 DEF Next

\* For any threads and names a name is taken once and can log in from then on, and is
\* confirmed with its own role once, the first one with that of an administrator, across
\* faults and crashes; one that is cut stays a User.
THEOREM ImplementsAccounts == Spec => IsAccounts
<1>1. Init => FirstInv BY DEF Init, FirstInv
<1>2. Init => Outside!Init
  BY DEF Init, Outside!Init, MayLogIn, Granting
<1>3. Inv /\ FirstInv /\ [Next]_vars => FirstInv' BY FirstStep
<1>4. Inv /\ FirstInv /\ [Next]_vars => [Outside!Next]_Outside!vars BY AccountsStep
<1> QED BY <1>1, <1>2, <1>3, <1>4, InvHolds, PTL DEF Spec, IsAccounts, Outside!Spec

=============================================================================

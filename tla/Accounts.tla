------------------------------- MODULE Accounts -------------------------------
(***************************************************************************)
(* What registration promises, whoever registers at the same time and      *)
(* wherever it is cut.  A name is taken once, and whoever took it can log  *)
(* in from then on, as a User.  His own role is granted at most once, in   *)
(* the step that confirms the registration; that of the first name ever    *)
(* taken is Admin.  A registration that is cut is never confirmed: its     *)
(* account stays, with the role User.  Registration implements it.         *)
(***************************************************************************)
CONSTANTS Names, NoName

VARIABLES
  role,       \* by name, the role in which a login gets in, "free" if none does
  underway,   \* the names whose registration is still going on
  first,      \* the first name that was taken
  confirmed   \* the names whose registration was confirmed

vars == <<role, underway, first, confirmed>>

Init ==
  /\ role = [n \in Names |-> "free"]
  /\ underway = {} /\ first = NoName /\ confirmed = {}

Take(n) ==
  /\ role[n] = "free"
  /\ role' = [role EXCEPT ![n] = "User"]
  /\ underway' = underway \cup {n}
  /\ first' = IF first = NoName THEN n ELSE first
  /\ UNCHANGED confirmed

Confirm(n, granted) ==
  /\ n \in underway
  /\ n = first => granted = "Admin"
  /\ role' = [role EXCEPT ![n] = granted]
  /\ underway' = underway \ {n}
  /\ confirmed' = confirmed \cup {n}
  /\ UNCHANGED first

\* A fault cuts one registration, a crash all of them.
Cut(S) ==
  /\ underway' = underway \ S
  /\ UNCHANGED <<role, first, confirmed>>

Next ==
  \/ \E n \in Names : Take(n) \/ \E granted \in {"Admin", "User"} : Confirm(n, granted)
  \/ \E S \in SUBSET underway : Cut(S)

Spec == Init /\ [][Next]_vars

=============================================================================

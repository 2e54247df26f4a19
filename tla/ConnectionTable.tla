--------------------------- MODULE ConnectionTable ---------------------------
(***************************************************************************)
(* The life of a connection, as the rest of the server counts on it: it is *)
(* registered and served by a thread, a user may be logged in on it only   *)
(* while the thread runs, it is taken out of the register together with    *)
(* its user before its socket is closed, and the thread ends after that.   *)
(* A connection that somebody has still to close is not taken again.       *)
(* Sessions implements it.                                                 *)
(***************************************************************************)

CONSTANTS Clients, Users, NoUser

VARIABLES
  served,      \* connections with a handler thread
  registered,  \* those in the register
  open,        \* those whose socket is open
  user         \* by connection, who is logged in on it

vars == <<served, registered, open, user>>

Init ==
  /\ served = {} /\ registered = {} /\ open = {}
  /\ user = [c \in Clients |-> NoUser]

Accept(c) ==
  /\ c \notin open /\ c \notin served /\ user[c] = NoUser
  /\ served' = served \cup {c}
  /\ registered' = registered \cup {c}
  /\ open' = open \cup {c}
  /\ UNCHANGED user

LogIn(c, u) ==
  /\ c \in served
  /\ user' = [user EXCEPT ![c] = u]
  /\ UNCHANGED <<served, registered, open>>

LogOut(c) ==
  /\ UNCHANGED <<registered, open>>
  /\ user' = [user EXCEPT ![c] = NoUser]
  /\ UNCHANGED served

\* By its own thread or by another one, perhaps more than once.
Unregister(c) ==
  /\ registered' = registered \ {c}
  /\ user' = [user EXCEPT ![c] = NoUser]
  /\ UNCHANGED <<served, open>>

Close(c) ==
  /\ c \in open \ registered
  /\ open' = open \ {c}
  /\ UNCHANGED <<served, registered, user>>

\* The thread ends; it closes the socket unless another one has to.
End(c) ==
  /\ c \in served \ registered /\ user[c] = NoUser
  /\ served' = served \ {c}
  /\ open' \in {open, open \ {c}}
  /\ UNCHANGED <<registered, user>>

Crash ==
  /\ served' = {} /\ registered' = {} /\ open' = {}
  /\ user' = [c \in Clients |-> NoUser]

Next ==
  \/ \E c \in Clients :
       \/ LogOut(c) \/ \E u \in Users : LogIn(c, u)
       \/ Unregister(c) \/ Close(c) \/ Accept(c) \/ End(c)
  \/ Crash

Spec == Init /\ [][Next]_vars

=============================================================================

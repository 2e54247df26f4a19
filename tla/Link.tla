--------------------------------- MODULE Link ---------------------------------
(***************************************************************************)
(* What the connection manager of the client promises to the windows above *)
(* it: one connection at a time, each given up before the next is made;    *)
(* and once the program stops, at most the attempt that was under way may  *)
(* still succeed.  SocketClient implements it.                             *)
(***************************************************************************)
EXTENDS Naturals

VARIABLES
  link,  \* the connection the program has, 0 for none
  made,  \* number of connections made; they are numbered in this order
  mode   \* "running", "stopping" while an attempt may be under way, "stopped"

vars == <<link, made, mode>>

Init == link = 0 /\ made = 0 /\ mode = "running"

\* The next connection replaces none.
Connect ==
  /\ mode = "running" /\ link = 0
  /\ made' = made + 1 /\ link' = made + 1
  /\ UNCHANGED mode

\* The connection is lost or closed.
Close ==
  /\ link # 0 /\ link' = 0
  /\ UNCHANGED <<made, mode>>

Stop ==
  /\ mode = "running" /\ mode' \in {"stopping", "stopped"}
  /\ UNCHANGED <<link, made>>

\* The attempt that was under way ends, with a connection or without.
LastAttempt ==
  /\ mode = "stopping" /\ mode' = "stopped"
  /\ \/ made' = made + 1 /\ link' = made + 1
     \/ link' \in {link, 0} /\ UNCHANGED made

Next == Connect \/ Close \/ Stop \/ LastAttempt

Spec == Init /\ [][Next]_vars

=============================================================================

------------------------------- MODULE RoomLog -------------------------------
(***************************************************************************)
(* What a room promises to those who read it: one log, that only grows and *)
(* has every message once; what a client shows of the room is a beginning  *)
(* of the log, followed by what came live, and a message comes live to a   *)
(* client once, from its sender's relay.  RoomFeed implements it.          *)
(***************************************************************************)
EXTENDS Naturals, Sequences

CONSTANTS
  Clients,
  MaxReplay   \* a replay has at most this many messages

VARIABLES
  issued,  \* number of messages so far; a message is its number
  log,     \* those kept
  message, \* by client, its message in flight,
  due,     \* and to whom that may still come
  shown    \* by client, what it shows of the room

vars == <<issued, log, message, due, shown>>

Init ==
  /\ issued = 0 /\ log = <<>>
  /\ message = [c \in Clients |-> 0]
  /\ due = [c \in Clients |-> {}]
  /\ shown = [c \in Clients |-> <<>>]

\* One message at a time.
Submit(c) ==
  /\ due[c] = {}
  /\ issued' = issued + 1
  /\ message' = [message EXCEPT ![c] = issued + 1]
  /\ due' = [due EXCEPT ![c] = Clients]
  /\ UNCHANGED <<log, shown>>

\* A message is kept before anybody gets it, or never.
Store(c) ==
  /\ due[c] = Clients
  /\ \A i \in DOMAIN log : log[i] # message[c]
  /\ log' = Append(log, message[c])
  /\ UNCHANGED <<issued, message, due, shown>>

Deliver(c, d) ==
  /\ d \in due[c]
  /\ shown' = [shown EXCEPT ![d] = Append(@, message[c])]
  /\ due' = [due EXCEPT ![c] = @ \ {d}]
  /\ UNCHANGED <<issued, log, message>>

\* Those who are gone, or not of the room, do not get it.
Skip(c, S) ==
  /\ UNCHANGED <<issued, log, message, shown>>
  /\ due' = [due EXCEPT ![c] = @ \ S]

\* The client is done with its message, or with the replay it asked for.
Drop(c) ==
  /\ message' = [message EXCEPT ![c] = 0]
  /\ due' = [due EXCEPT ![c] = {}]
  /\ UNCHANGED <<issued, log>>

Replay(d, n) ==
  /\ n <= Len(log)
  /\ shown' = [shown EXCEPT ![d] = SubSeq(log, 1, n)]

Clear(d) ==
  /\ shown' = [shown EXCEPT ![d] = <<>>]
  /\ UNCHANGED <<issued, log, message, due>>

Next ==
  \E c \in Clients :
    \/ \E S \in SUBSET Clients : Skip(c, S)
    \/ Submit(c) \/ Store(c) \/ Clear(c)
    \/ Drop(c) /\ UNCHANGED shown
    \/ \E d \in Clients : Deliver(c, d)
    \/ Drop(c) /\ \E d \in Clients, n \in 0 .. MaxReplay : Replay(d, n)

Spec == Init /\ [][Next]_vars

=============================================================================

-------------------------------- MODULE Roster --------------------------------
(***************************************************************************)
(* What the tables of rooms and their members promise to the requests that *)
(* change them: a request is about the room that had the name when it was  *)
(* looked up, not about a later one of that name.  A room is born empty,   *)
(* is joined or left in one step while it lasts, and dies with all its     *)
(* memberships; its number is never used again.  Rooms implements it.      *)
(***************************************************************************)
EXTENDS Naturals

CONSTANTS Clients, Users, NoUser

VARIABLES
  rooms,    \* the numbers of the rooms there are
  members,  \* the <<user, number>> pairs
  issued,   \* the last number used
  asked     \* by client, the request that has looked up its room

vars == <<rooms, members, issued, asked>>

NoRequest == [to |-> "none", user |-> NoUser, room |-> 0]

Init ==
  /\ rooms = {} /\ members = {} /\ issued = 0
  /\ asked = [c \in Clients |-> NoRequest]

Create ==
  /\ issued' = issued + 1
  /\ rooms' = rooms \cup {issued + 1}
  /\ UNCHANGED <<members, asked>>

Delete(n) ==
  /\ n \in rooms
  /\ rooms' = rooms \ {n}
  /\ members' = {m \in members : m[2] # n}
  /\ UNCHANGED <<issued, asked>>

\* The room is looked up; nobody enters one that is not there.  (That of a request to
\* leave may have gone: 0.)
Ask(c, way, u, n) ==
  /\ asked[c] = NoRequest
  /\ n \in rooms \/ (way = "leave" /\ n = 0)
  /\ asked' = [asked EXCEPT ![c] = [to |-> way, user |-> u, room |-> n]]
  /\ UNCHANGED <<rooms, members, issued>>

Done(c) == asked' = [asked EXCEPT ![c] = NoRequest] /\ UNCHANGED <<rooms, issued>>

Enter(c) ==
  /\ asked[c].to = "enter" /\ asked[c].room \in rooms
  /\ members' = members \cup {<<asked[c].user, asked[c].room>>}
  /\ Done(c)

Leave(c) ==
  /\ asked[c].to = "leave"
  /\ members' = members \ {<<asked[c].user, asked[c].room>>}
  /\ Done(c)

\* A request is refused or fails; a crash ends all of them.
GiveUp(S) ==
  /\ asked' = [c \in Clients |-> IF c \in S THEN NoRequest ELSE asked[c]]
  /\ UNCHANGED <<rooms, members, issued>>

Next ==
  \/ Create
  \/ \E n \in rooms : Delete(n)
  \/ \E c \in Clients :
       \/ Enter(c) \/ Leave(c)
       \/ \E way \in {"enter", "leave"}, u \in Users, n \in rooms \cup {0} : Ask(c, way, u, n)
  \/ \E S \in SUBSET Clients : GiveUp(S)

Spec == Init /\ [][Next]_vars

=============================================================================

------------------------------- MODULE Mailbox -------------------------------
(***************************************************************************)
(* What private messages promise to the users: a letter comes live on one  *)
(* connection at most, one on which its addressee was found; it is given   *)
(* up only while the addressee is nowhere; whoever logs in is handed the   *)
(* first letters kept that are from or to him, with none left out; and     *)
(* nothing else is ever shown.  PrivateMessages implements it.             *)
(***************************************************************************)
EXTENDS Naturals, Sequences

CONSTANTS Clients, Users, NoUser, Nowhere

VARIABLES
  letters,  \* who wrote to whom; a letter is its number
  kept,     \* the letters kept, in their order
  owner,    \* by connection, who is logged in on it,
  hand,     \* the letter sent from it that is not yet disposed of, or 0,
  course,   \* the connection that letter goes to, once it is found,
  replay,   \* the letters collected and not yet handed over,
  box       \* and the letters it shows

vars == <<letters, kept, owner, hand, course, replay, box>>

Init ==
  /\ letters = <<>> /\ kept = <<>>
  /\ owner = [c \in Clients |-> NoUser]
  /\ hand = [c \in Clients |-> 0] /\ course = [c \in Clients |-> Nowhere]
  /\ replay = [c \in Clients |-> {}] /\ box = [c \in Clients |-> {}]

LogIn(c, u) ==
  /\ owner[c] = NoUser /\ owner' = [owner EXCEPT ![c] = u]
  /\ UNCHANGED <<letters, kept, hand, course, replay, box>>

\* What was collected is not handed over if the connection ends.
LogOut(c) ==
  /\ owner[c] # NoUser /\ owner' = [owner EXCEPT ![c] = NoUser]
  /\ replay' \in {replay, [replay EXCEPT ![c] = {}]}
  /\ UNCHANGED <<letters, kept, hand, course, box>>

\* One letter at a time.  A letter that cannot be kept is sent all the same.
Post(c, u) ==
  /\ owner[c] \notin {NoUser, u} /\ hand[c] = 0
  /\ letters' = Append(letters, [from |-> owner[c], to |-> u])
  /\ kept' \in {kept, Append(kept, Len(letters) + 1)}
  /\ hand' = [hand EXCEPT ![c] = Len(letters) + 1]
  /\ UNCHANGED <<owner, course, replay, box>>

Route(c, d) ==
  /\ hand[c] # 0 /\ course[c] = Nowhere /\ owner[d] = letters[hand[c]].to
  /\ course' = [course EXCEPT ![c] = d]
  /\ UNCHANGED <<letters, kept, owner, hand, replay, box>>

GiveUp(c) ==
  /\ hand[c] # 0 /\ course[c] = Nowhere
  /\ \A d \in Clients : owner[d] # letters[hand[c]].to
  /\ hand' = [hand EXCEPT ![c] = 0]
  /\ UNCHANGED <<letters, kept, owner, course, replay, box>>

\* A window that is not open shows nothing.
Show(c, S) == box' \in {box, [box EXCEPT ![c] = @ \cup S]}

Deliver(c) ==
  /\ course[c] # Nowhere /\ Show(course[c], {hand[c]})
  /\ hand' = [hand EXCEPT ![c] = 0] /\ course' = [course EXCEPT ![c] = Nowhere]
  /\ UNCHANGED <<letters, kept, owner, replay>>

\* The places of a user's letters, and the beginnings of them.
Places(u) == {i \in 1 .. Len(kept) : u \in {letters[kept[i]].from, letters[kept[i]].to}}
Firsts(u) == {P \in SUBSET Places(u) : \A i \in P, j \in Places(u) : j < i => j \in P}

Collect(c) ==
  /\ owner[c] # NoUser /\ replay[c] = {}
  /\ UNCHANGED <<letters, kept, owner, box, hand, course>>
  /\ \E P \in Firsts(owner[c]) : replay' = [replay EXCEPT ![c] = {kept[i] : i \in P}]

Hand(c) ==
  /\ replay[c] # {} /\ Show(c, replay[c])
  /\ replay' = [replay EXCEPT ![c] = {}]
  /\ UNCHANGED <<letters, kept, owner, hand, course>>

\* The window is opened anew, or closed.
Clear(c) ==
  /\ box[c] # {} /\ box' = [box EXCEPT ![c] = {}]
  /\ UNCHANGED <<letters, kept, owner, hand, course, replay>>

Next ==
  \E c \in Clients :
    \/ Clear(c) \/ LogOut(c) \/ Hand(c) \/ GiveUp(c) \/ Deliver(c)
    \/ \E d \in Clients : Route(c, d)
    \/ \E u \in Users : LogIn(c, u) \/ Post(c, u)
    \/ Collect(c)

Spec == Init /\ [][Next]_vars

=============================================================================

-------------------------- MODULE MCPrivateMessages --------------------------
(* Instances of PrivateMessages for TLC. *)
EXTENDS PrivateMessages, TLC

CONSTANTS c1, c2, c3, u1, u2, u3

\* Everybody on every connection: connections are alike, and so are users.
Anywhere == [c \in Conns |-> Users]
Alike    == Permutations(Conns) \cup Permutations(Users)

=============================================================================

---------------------------- MODULE PacketChannel ----------------------------
(***************************************************************************)
(* What one direction of a connection promises to the two programs: the    *)
(* packets of one side reach the other whole, in the order they were sent, *)
(* none twice, until the connection ends; then the last of them may be     *)
(* lost.  Framing implements it over a stream of bytes.                    *)
(***************************************************************************)
EXTENDS Naturals, Sequences

CONSTANT Packets

VARIABLES
  sent,  \* packets handed to the connection
  got,   \* packets the other side took
  open   \* the connection still stands

vars == <<sent, got, open>>

Init == sent = <<>> /\ got = <<>> /\ open = TRUE

Send(p) ==
  /\ open
  /\ sent' = Append(sent, p)
  /\ UNCHANGED <<got, open>>

Receive ==
  /\ Len(got) < Len(sent)
  /\ got' = Append(got, sent[Len(got) + 1])
  /\ UNCHANGED <<sent, open>>

End ==
  /\ open /\ open' = FALSE
  /\ UNCHANGED <<sent, got>>

Next == (\E p \in Packets : Send(p)) \/ Receive \/ End

Spec == Init /\ [][Next]_vars

\* What was sent arrives as long as the connection stands.
FairSpec == Spec /\ WF_vars(open /\ Receive)

=============================================================================

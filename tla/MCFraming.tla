------------------------------ MODULE MCFraming ------------------------------
(* Instances of Framing for TLC. *)
EXTENDS Framing, TLC

CONSTANTS p1, p2

\* A packet as short as can be, and one that is longer than the header.
Sizes == (p1 :> 1) @@ (p2 :> 3)

=============================================================================

------------------------------- MODULE MCRooms -------------------------------
(* Instances of Rooms for TLC. *)
EXTENDS Rooms, TLC

CONSTANTS c1, c2, u1, u2

\* One connection of the administrator u1, one of u2.
TwoConns == (c1 :> u1) @@ (c2 :> u2)

=============================================================================

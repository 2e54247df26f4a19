----------------------------- MODULE MCRoomFeed -----------------------------
(* Instances of RoomFeed for TLC. *)
EXTENDS RoomFeed, TLC

=============================================================================

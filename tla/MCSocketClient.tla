--------------------------- MODULE MCSocketClient ---------------------------
(* Instances of SocketClient for TLC. *)
EXTENDS SocketClient, TLC

=============================================================================

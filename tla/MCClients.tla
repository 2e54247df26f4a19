------------------------------ MODULE MCClients ------------------------------
(* Instances of Clients for TLC. *)
EXTENDS Clients, TLC

CONSTANTS GuiActs, ConsoleActs

Acts == ("gui" :> GuiActs) @@ ("console" :> ConsoleActs)

=============================================================================

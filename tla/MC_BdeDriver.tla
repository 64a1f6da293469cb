---------------------------- MODULE MC_BdeDriver ----------------------------
(* The driver on a machine with several cores. *)
EXTENDS BdeDriver

MCPageKind == <<"reserved", "ram", "reserved">>
MCPools == {[first |-> 3, last |-> 3]}
=============================================================================

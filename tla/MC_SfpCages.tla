---------------------------- MODULE MC_SfpCages ----------------------------
(* A port committed to auto, and optics of both rates to put into its cage. *)
EXTENDS SfpCages

MCRequests == {[enabled |-> TRUE, speed |-> "auto"]}
=============================================================================

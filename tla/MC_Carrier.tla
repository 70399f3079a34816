---------------------------- MODULE MC_Carrier ----------------------------
(* Carrier on small sets, for TLC. *)
EXTENDS Carrier
===========================================================================

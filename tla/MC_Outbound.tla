---------------------------- MODULE MC_Outbound ----------------------------
(* Outbound on small sets, for TLC. *)
EXTENDS Outbound
=============================================================================

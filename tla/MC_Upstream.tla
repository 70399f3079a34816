---------------------------- MODULE MC_Upstream ----------------------------
(* Upstream on small sets, for TLC. *)
EXTENDS Upstream
=============================================================================

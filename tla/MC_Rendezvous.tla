--------------------------- MODULE MC_Rendezvous ---------------------------
(* Rendezvous on small sets, for TLC. *)
EXTENDS Rendezvous
============================================================================

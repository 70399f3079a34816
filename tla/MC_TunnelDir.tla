---------------------------- MODULE MC_TunnelDir ----------------------------
(* TunnelDir for TLC. *)
EXTENDS TunnelDir
=============================================================================

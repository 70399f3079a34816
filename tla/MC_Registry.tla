----------------------------- MODULE MC_Registry -----------------------------
(* Registry on small sets, for TLC. *)
EXTENDS Registry, TLC

\* Connections are interchangeable, and so are daemons.
Symmetry == Permutations(Conns) \cup Permutations(Daemons)
=============================================================================

------------------------------ MODULE MC_SegLog ------------------------------
(* SegLog with small segments and windows, for TLC. *)
EXTENDS SegLog, FiniteSetsExt

\* docs/TRANSPORTS.md:291-292: the on-disk backlog is bounded "to ~Window per
\* direction plus one segment". (Doubled here: the claim is about growth.)
BacklogBounded ==
    MapThenSumSet(Written, linked) <= 2 * (Parts * Window + MaxSeg)
=============================================================================

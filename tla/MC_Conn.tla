------------------------------- MODULE MC_Conn -------------------------------
(* Conn for TLC: windows and lengths of a few bytes. *)
EXTENDS Conn

Ends(i, a) == [e \in End |-> IF e = "initiator" THEN i ELSE a]

\* By the acceptor's window an ACK is due for three bytes, more than the
\* initiator may have in flight: a writer out of room depends on maintLoop.
Windows == Ends(2, 12)
Lengths == Ends(3, 0)

=============================================================================

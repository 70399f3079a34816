------------------------------ MODULE BytePipe ------------------------------
(***************************************************************************)
(* What a carrier promises in one direction (docs/TRANSPORTS.md, section    *)
(* 2): the bytes written come out, each once and in order.                  *)
(***************************************************************************)
EXTENDS Naturals, Sequences

CONSTANT Byte

VARIABLES sent, got

Init == sent = <<>> /\ got = <<>>

Send(b) == sent' = Append(sent, b) /\ UNCHANGED got

Receive ==
    /\ Len(got) < Len(sent)
    /\ got' = Append(got, sent[Len(got) + 1])
    /\ UNCHANGED sent

Next == (\E b \in Byte : Send(b)) \/ Receive

Spec == Init /\ [][Next]_<<sent, got>>
=============================================================================

-------------------------------- MODULE Conn --------------------------------
(***************************************************************************)
(* A filesystem tunnel as the net.Conn of its two ends, transport/fstun/    *)
(* conn.go: Read and Write of the application, recvLoop and maintLoop of    *)
(* each end, Close, the send window and the idle timeout.                   *)
(*                                                                         *)
(* The segment files of a direction are a queue of frames here (module      *)
(* SegLog is about the files). A HEARTBEAT has one effect, that its reader  *)
(* is not idle, and is modelled by the guard of IdleTimeout.                *)
(***************************************************************************)
EXTENDS Integers, Sequences

CONSTANTS
    Window,    \* synParams.window of each end
    maxFrame,  \* synParams.maxFrame
    ToWrite,   \* how many bytes the application of each end writes, in one Write
    Closers,   \* the ends whose application closes the conn
    Crashers,  \* the ends whose process may die
    NetFS      \* the root is on a network filesystem

End == {"initiator", "acceptor"}

ASSUME ConnOK ==
    /\ Window \in [End -> Nat \ {0}] /\ maxFrame \in Nat \ {0}
    /\ ToWrite \in [End -> Nat]
    /\ Closers \subseteq End /\ Crashers \subseteq End /\ NetFS \in BOOLEAN

peer(e) == IF e = "initiator" THEN "acceptor" ELSE "initiator"

VARIABLES
    log,                          \* frames an end has written and its peer not read
    sentData, peerAck, lastAckSent, sendClosed,    \* under sendMu
    recvBuf, recvData, recvEOF, recvErr,           \* under recvMu
    dataSig, flowSig,             \* the coalescing signals
    closed, dead,                 \* the channels that are closed once
    lpc,                          \* recvLoop: "run", "last" or "done" (recvDone is closed)
    wpc, left, room,              \* Write: where it is, bytes to go, room found
    rpc, rd,                      \* Read, and the offset its maybeAck acknowledges
    mpc, mrd,                     \* maintLoop, and the offset of its catch-up ACK
    cpc,                          \* Close
    alive,                        \* the process of the end runs
    reaped                        \* the acceptor has removed the subtree

send == <<sentData, peerAck, lastAckSent, sendClosed>>
recv == <<recvBuf, recvData, recvEOF, recvErr>>
sigs == <<dataSig, flowSig>>
chans == <<closed, lpc, dead>>
write == <<wpc, left, room>>
read == <<rpc, rd>>
maint == <<mpc, mrd>>
world == <<alive, reaped>>
vars == <<log, send, recv, sigs, chans, write, read, maint, cpc, world>>

\* A frame: its type, its dataOff, and the length of its DATA or the value of an ACK.
Data(off, n) == [t |-> "DATA", off |-> off, v |-> n]
Ack(off, n) == [t |-> "ACK", off |-> off, v |-> n]
FIN(off) == [t |-> "FIN", off |-> off, v |-> 0]

minimum(a, b) == IF a < b THEN a ELSE b

-----------------------------------------------------------------------------
Init ==
    /\ log = [e \in End |-> <<>>]
    /\ sentData = [e \in End |-> 0] /\ peerAck = [e \in End |-> 0]
    /\ lastAckSent = [e \in End |-> 0] /\ sendClosed = [e \in End |-> FALSE]
    /\ recvBuf = [e \in End |-> 0] /\ recvData = [e \in End |-> 0]
    /\ recvEOF = [e \in End |-> FALSE] /\ recvErr = [e \in End |-> FALSE]
    /\ dataSig = [e \in End |-> FALSE] /\ flowSig = [e \in End |-> FALSE]
    /\ closed = [e \in End |-> FALSE] /\ lpc = [e \in End |-> "run"]
    /\ dead = [e \in End |-> FALSE]
    /\ wpc = [e \in End |-> IF ToWrite[e] > 0 THEN "check" ELSE "returned"]
    /\ left = ToWrite /\ room = [e \in End |-> 0]
    /\ rpc = [e \in End |-> "check"] /\ rd = [e \in End |-> 0]
    /\ mpc = [e \in End |-> "wait"] /\ mrd = [e \in End |-> 0]
    /\ cpc = [e \in End |-> "open"]
    /\ alive = [e \in End |-> TRUE] /\ reaped = FALSE

-----------------------------------------------------------------------------
(* The send path *)

\* emit of a control frame; it fails once the send side is closed.
emit(e, f) == log' = IF sendClosed[e] THEN log ELSE [log EXCEPT ![e] = Append(@, f)]

\* waitSendWindow looks: an error, room, or go to sleep.
CheckWindow(e) ==
    LET free == Window[e] - (sentData[e] - peerAck[e])
    IN  /\ alive[e] /\ wpc[e] = "check"
        /\ wpc' = [wpc EXCEPT ![e] = IF recvErr[e] \/ sendClosed[e] THEN "failed"
                                     ELSE IF free > 0 THEN "emit" ELSE "sleep"]
        /\ room' = [room EXCEPT ![e] = free]
        /\ UNCHANGED <<log, send, recv, sigs, chans, left, read, maint, cpc, world>>

\* waitSendWindow sleeps until flowSig or closed.
WakeWriter(e) ==
    /\ alive[e] /\ wpc[e] = "sleep"
    /\ \/ flowSig[e] /\ flowSig' = [flowSig EXCEPT ![e] = FALSE]
          /\ wpc' = [wpc EXCEPT ![e] = "check"]
       \/ closed[e] /\ wpc' = [wpc EXCEPT ![e] = "failed"] /\ UNCHANGED flowSig
    /\ UNCHANGED <<log, send, recv, dataSig, chans, left, room, read, maint, cpc, world>>

\* Mutant: the chunk is cut to the frame size and not to the room.
Mut_chunk(e) == minimum(left[e], maxFrame)

\* How much of the rest the next DATA frame takes.
chunk(e) == minimum(minimum(left[e], room[e]), maxFrame)

\* Write emits a DATA frame.
EmitData(e) ==
    LET n == chunk(e)
    IN  /\ alive[e] /\ wpc[e] = "emit"
        /\ IF sendClosed[e]
           THEN wpc' = [wpc EXCEPT ![e] = "failed"] /\ UNCHANGED <<log, sentData, left>>
           ELSE /\ log' = [log EXCEPT ![e] = Append(@, Data(sentData[e], n))]
                /\ sentData' = [sentData EXCEPT ![e] = @ + n]
                /\ left' = [left EXCEPT ![e] = @ - n]
                /\ wpc' = [wpc EXCEPT ![e] = IF left[e] = n THEN "returned" ELSE "check"]
        /\ UNCHANGED <<peerAck, lastAckSent, sendClosed, recv, sigs, chans, room, read, maint,
                       cpc, world>>

-----------------------------------------------------------------------------
(* Read, called again whenever it has returned data *)

\* Read looks at the buffer: it takes what there is, or part of it.
ReadSome(e, n) ==
    /\ alive[e] /\ rpc[e] = "check" /\ n \in 1..recvBuf[e]
    /\ recvBuf' = [recvBuf EXCEPT ![e] = @ - n]
    /\ recvData' = [recvData EXCEPT ![e] = @ + n]
    /\ rd' = [rd EXCEPT ![e] = recvData[e] + n]
    /\ rpc' = [rpc EXCEPT ![e] = "due"]
    /\ UNCHANGED <<log, send, recvEOF, recvErr, sigs, chans, write, maint, cpc, world>>

\* Nothing to take: an error, the end of the stream, or sleep.
ReadNone(e) ==
    /\ alive[e] /\ rpc[e] = "check" /\ recvBuf[e] = 0
    /\ rpc' = [rpc EXCEPT ![e] = IF recvErr[e] THEN "failed"
                                 ELSE IF recvEOF[e] THEN "eof" ELSE "sleep"]
    /\ UNCHANGED <<log, send, recv, sigs, chans, write, rd, maint, cpc, world>>

\* A Read after the end of the stream that does not merely report it again.
ReadAgain(e) ==
    /\ alive[e] /\ rpc[e] = "eof" /\ (recvErr[e] \/ recvBuf[e] > 0)
    /\ rpc' = [rpc EXCEPT ![e] = "check"]
    /\ UNCHANGED <<log, send, recv, sigs, chans, write, rd, maint, cpc, world>>

\* Read sleeps until dataSig or closed.
WakeReader(e) ==
    /\ alive[e] /\ rpc[e] = "sleep"
    /\ \/ dataSig[e] /\ dataSig' = [dataSig EXCEPT ![e] = FALSE]
          /\ rpc' = [rpc EXCEPT ![e] = "check"]
       \/ closed[e] /\ rpc' = [rpc EXCEPT ![e] = "failed"] /\ UNCHANGED dataSig
    /\ UNCHANGED <<log, send, recv, flowSig, chans, write, rd, maint, cpc, world>>

\* maybeAck: due by the window of this end.
AckDue(e) ==
    /\ alive[e] /\ rpc[e] = "due"
    /\ rpc' = [rpc EXCEPT ![e] = IF rd[e] - lastAckSent[e] >= Window[e] \div 4
                                 THEN "ack" ELSE "check"]
    /\ UNCHANGED <<log, send, recv, sigs, chans, write, rd, maint, cpc, world>>

\* sendAck, of Read and of maintLoop: emit, then lastAckSent under a second lock.
ReadAck(e) ==
    /\ alive[e] /\ rpc[e] = "ack"
    /\ emit(e, Ack(sentData[e], rd[e]))
    /\ rpc' = [rpc EXCEPT ![e] = IF sendClosed[e] THEN "check" ELSE "acked"]
    /\ UNCHANGED <<send, recv, sigs, chans, write, rd, maint, cpc, world>>

ReadAcked(e) ==
    /\ alive[e] /\ rpc[e] = "acked"
    /\ lastAckSent' = [lastAckSent EXCEPT ![e] = IF rd[e] > @ THEN rd[e] ELSE @]
    /\ rpc' = [rpc EXCEPT ![e] = "check"]
    /\ UNCHANGED <<log, sentData, peerAck, sendClosed, recv, sigs, chans, write, rd, maint,
                   cpc, world>>

-----------------------------------------------------------------------------
(* maintLoop *)

\* Mutant: the catch-up ACK is left out.
Mut_MaintTick(e) == FALSE /\ UNCHANGED vars

\* Mutant: the ACK counts what has arrived and not what was read.
Mut_MaintTickArrived(e) ==
    /\ alive[e] /\ mpc[e] = "wait" /\ ~closed[e]
    /\ recvData[e] > lastAckSent[e]
    /\ mrd' = [mrd EXCEPT ![e] = recvData[e] + recvBuf[e]]
    /\ mpc' = [mpc EXCEPT ![e] = "ack"]
    /\ UNCHANGED <<log, send, recv, sigs, chans, write, read, cpc, world>>

\* A tick that finds data to acknowledge (on any other it sends a HEARTBEAT only).
MaintTick(e) ==
    /\ alive[e] /\ mpc[e] = "wait" /\ ~closed[e]
    /\ recvData[e] > lastAckSent[e]
    /\ mrd' = [mrd EXCEPT ![e] = recvData[e]]
    /\ mpc' = [mpc EXCEPT ![e] = "ack"]
    /\ UNCHANGED <<log, send, recv, sigs, chans, write, read, cpc, world>>

MaintAck(e) ==
    /\ alive[e] /\ mpc[e] = "ack"
    /\ emit(e, Ack(sentData[e], mrd[e]))
    /\ mpc' = [mpc EXCEPT ![e] = IF sendClosed[e] THEN "wait" ELSE "acked"]
    /\ UNCHANGED <<send, recv, sigs, chans, write, read, mrd, cpc, world>>

MaintAcked(e) ==
    /\ alive[e] /\ mpc[e] = "acked"
    /\ lastAckSent' = [lastAckSent EXCEPT ![e] = IF mrd[e] > @ THEN mrd[e] ELSE @]
    /\ mpc' = [mpc EXCEPT ![e] = "wait"]
    /\ UNCHANGED <<log, sentData, peerAck, sendClosed, recv, sigs, chans, write, read, mrd,
                   cpc, world>>

MaintStops(e) ==
    /\ alive[e] /\ mpc[e] = "wait" /\ closed[e]
    /\ mpc' = [mpc EXCEPT ![e] = "stopped"]
    /\ UNCHANGED <<log, send, recv, sigs, chans, write, read, mrd, cpc, world>>

\* The log of the peer can be read: a subtree that was removed cannot be opened
\* anew on a network filesystem.
Readable(e) == log[peer(e)] # <<>> /\ ~(reaped /\ NetFS)

\* The peer sends no more heartbeats and what it sent was read.
Silent(e) == ~Readable(e) /\ (~alive[peer(e)] \/ mpc[peer(e)] = "stopped")

\* Mutant: failRecv does not mark the pipe dead.
Mut_IdleTimeout(e) ==
    /\ alive[e] /\ mpc[e] = "wait" /\ ~closed[e] /\ Silent(e)
    /\ recvErr' = [recvErr EXCEPT ![e] = TRUE]
    /\ dataSig' = [dataSig EXCEPT ![e] = TRUE]
    /\ flowSig' = [flowSig EXCEPT ![e] = TRUE]
    /\ mpc' = [mpc EXCEPT ![e] = "stopped"]
    /\ UNCHANGED <<log, send, recvBuf, recvData, recvEOF, chans, write, read, mrd, cpc,
                   world>>

\* A tick after IdleTimeout of silence: failRecv, and the loop ends.
IdleTimeout(e) ==
    /\ alive[e] /\ mpc[e] = "wait" /\ ~closed[e] /\ Silent(e)
    /\ recvErr' = [recvErr EXCEPT ![e] = TRUE]
    /\ dataSig' = [dataSig EXCEPT ![e] = TRUE]
    /\ flowSig' = [flowSig EXCEPT ![e] = TRUE]
    /\ dead' = [dead EXCEPT ![e] = TRUE]
    /\ mpc' = [mpc EXCEPT ![e] = "stopped"]
    /\ UNCHANGED <<log, send, recvBuf, recvData, recvEOF, closed, lpc, write, read, mrd,
                   cpc, world>>

-----------------------------------------------------------------------------
(* recvLoop *)

Pop(e) == log' = [log EXCEPT ![peer(e)] = Tail(@)]

\* next returns a frame. closed is looked at before each, so that one more frame
\* may be dispatched after it.
Receives(e, type) ==
    /\ alive[e] /\ lpc[e] = "run" /\ Readable(e)
    /\ Head(log[peer(e)]).t = type
    /\ Pop(e)
    /\ lpc' = [lpc EXCEPT ![e] = IF closed[e] THEN "last" ELSE "run"]
    /\ UNCHANGED <<closed, dead>>

\* Mutant: data that arrives does not wake a Read.
Mut_DispatchData(e) ==
    /\ Receives(e, "DATA")
    /\ recvBuf' = [recvBuf EXCEPT ![e] = @ + Head(log[peer(e)]).v]
    /\ UNCHANGED <<send, recvData, recvEOF, recvErr, sigs, write, read, maint, cpc,
                   world>>

\* dispatch, by the type of the frame.
DispatchData(e) ==
    /\ Receives(e, "DATA")
    /\ recvBuf' = [recvBuf EXCEPT ![e] = @ + Head(log[peer(e)]).v]
    /\ dataSig' = [dataSig EXCEPT ![e] = TRUE]
    /\ UNCHANGED <<send, recvData, recvEOF, recvErr, flowSig, write, read, maint, cpc,
                   world>>

newAck(old, v) == IF v > old THEN v ELSE old

DispatchAck(e) ==
    /\ Receives(e, "ACK")
    /\ peerAck' = [peerAck EXCEPT ![e] = newAck(@, Head(log[peer(e)]).v)]
    /\ flowSig' = [flowSig EXCEPT ![e] = TRUE]
    /\ UNCHANGED <<sentData, lastAckSent, sendClosed, recv, dataSig, write, read, maint,
                   cpc, world>>

DispatchFin(e) ==
    /\ Receives(e, "FIN")
    /\ recvEOF' = [recvEOF EXCEPT ![e] = TRUE]
    /\ dataSig' = [dataSig EXCEPT ![e] = TRUE]
    /\ UNCHANGED <<send, recvBuf, recvData, recvErr, flowSig, write, read, maint, cpc,
                   world>>

RecvLoopEnds(e) ==
    /\ alive[e] /\ closed[e] /\ lpc[e] # "done"
    /\ lpc' = [lpc EXCEPT ![e] = "done"]
    /\ UNCHANGED <<log, send, recv, sigs, closed, dead, write, read, maint, cpc, world>>

-----------------------------------------------------------------------------
(* Close *)

\* FIN; then sendClosed under a second lock; then the loops are told and waited
\* for; then the pipe is dead.
CloseFin(e) ==
    /\ alive[e] /\ e \in Closers /\ cpc[e] = "open"
    /\ log' = [log EXCEPT ![e] = Append(@, FIN(sentData[e]))]
    /\ cpc' = [cpc EXCEPT ![e] = "fin"]
    /\ UNCHANGED <<send, recv, sigs, chans, write, read, maint, world>>

CloseSend(e) ==
    /\ alive[e] /\ cpc[e] = "fin"
    /\ sendClosed' = [sendClosed EXCEPT ![e] = TRUE]
    /\ cpc' = [cpc EXCEPT ![e] = "send"]
    /\ UNCHANGED <<log, sentData, peerAck, lastAckSent, recv, sigs, chans, write, read, maint,
                   world>>

CloseLoops(e) ==
    /\ alive[e] /\ cpc[e] = "send"
    /\ closed' = [closed EXCEPT ![e] = TRUE]
    /\ cpc' = [cpc EXCEPT ![e] = "wait"]
    /\ UNCHANGED <<log, send, recv, sigs, lpc, dead, write, read, maint, world>>

CloseReturns(e) ==
    /\ alive[e] /\ cpc[e] = "wait" /\ lpc[e] = "done"
    /\ dead' = [dead EXCEPT ![e] = TRUE]
    /\ cpc' = [cpc EXCEPT ![e] = "closed"]
    /\ UNCHANGED <<log, send, recv, sigs, closed, lpc, write, read, maint, world>>

\* reapWhenDone of the listener.
Reap ==
    /\ alive["acceptor"] /\ dead["acceptor"] /\ ~reaped
    /\ reaped' = TRUE
    /\ UNCHANGED <<log, send, recv, sigs, chans, write, read, maint, cpc, alive>>

\* The process of an end dies (external).
Crash(e) ==
    /\ e \in Crashers /\ alive[e]
    /\ alive' = [alive EXCEPT ![e] = FALSE]
    /\ UNCHANGED <<log, send, recv, sigs, chans, write, read, maint, cpc, reaped>>

-----------------------------------------------------------------------------
Write(e) == CheckWindow(e) \/ WakeWriter(e) \/ EmitData(e)

Read(e) ==
    \/ \E n \in 1..recvBuf[e] : ReadSome(e, n)
    \/ ReadNone(e) \/ WakeReader(e) \/ AckDue(e) \/ ReadAck(e) \/ ReadAcked(e)

maintLoop(e) == MaintTick(e) \/ MaintAck(e) \/ MaintAcked(e) \/ MaintStops(e) \/ IdleTimeout(e)

recvLoop(e) == DispatchData(e) \/ DispatchAck(e) \/ DispatchFin(e) \/ RecvLoopEnds(e)

Close(e) == CloseSend(e) \/ CloseLoops(e) \/ CloseReturns(e)

Running == \E e \in End : Write(e) \/ Read(e) \/ recvLoop(e) \/ Close(e)

Next ==
    \/ Running
    \/ \E e \in End : maintLoop(e) \/ ReadAgain(e) \/ CloseFin(e) \/ Crash(e)
    \/ Reap

Spec == Init /\ [][Next]_vars

\* Every goroutine that can run does; the application keeps reading (yamux has a
\* read loop), and need not close. Finitely many bytes are written and no action
\* of Running can be taken for ever, so a behaviour that is fair to those
\* goroutines together leaves none of them behind; maintLoop may tick for ever.
FairSpec == Spec /\ WF_vars(Running) /\ \A e \in End : WF_vars(maintLoop(e))

-----------------------------------------------------------------------------
\* The types of what the flow control goes by.
FlowTypeOK ==
    /\ log \in [End -> Seq([t : {"DATA", "ACK", "FIN"}, off : Nat, v : Nat])]
    /\ sentData \in [End -> Nat] /\ peerAck \in [End -> Nat] /\ lastAckSent \in [End -> Nat]
    /\ recvBuf \in [End -> Nat] /\ recvData \in [End -> Nat]
    /\ left \in [End -> Nat] /\ room \in [End -> Int]
    /\ rd \in [End -> Nat] /\ mrd \in [End -> Nat]
    /\ wpc \in [End -> {"check", "sleep", "emit", "returned", "failed"}]

\* Never more than a window of bytes is written and not read by the peer's
\* application: waitSendWindow measures the room and EmitData uses it later,
\* while ACKs come in from two goroutines of the peer, in any order.
WindowKept == \A e \in End : sentData[e] - recvData[peer(e)] <= Window[e]

\* What the writer takes as acknowledged was read by the peer's application, and
\* what was read had been written.
AckedWasRead ==
    \A e \in End : peerAck[e] <= recvData[peer(e)] /\ recvData[peer(e)] <= sentData[e]

\* The peer's acknowledgements are never taken back, although sendAck of Read and
\* of maintLoop may emit them out of order.
AckNeverFalls == [][\A e \in End : peerAck'[e] >= peerAck[e]]_vars

\* A Write that has no room gets on, or fails because a side has closed or died:
\* no lost wakeup, and no ACK that is never due when the two windows differ.
WriteGetsOn == []<>\A e \in End : wpc[e] # "sleep" \/ ~alive[e]

\* A goroutine that sleeps sleeps for a reason: a signal that was sent between its
\* look under the lock and its sleep, or taken by an earlier wait, is not missed.
\* A Read has nothing to report, a Write has no room, unless its signal is
\* pending; and a send side that was closed under a Write ends it by `closed`.
NoLostWakeup ==
    \A e \in End :
        /\ rpc[e] = "sleep" /\ ~dataSig[e] => recvBuf[e] = 0 /\ ~recvEOF[e] /\ ~recvErr[e]
        /\ wpc[e] = "sleep" /\ ~flowSig[e] =>
              /\ sentData[e] - peerAck[e] >= Window[e] /\ ~recvErr[e]
              /\ sendClosed[e] => closed[e] \/ cpc[e] = "send"

\* And what it waits for is on its way: as long as bytes are not acknowledged, some
\* are in the log, or in the peer's buffer, or read and owed an ACK by lastAckSent,
\* or a newer ACK is in the log. No ACK counts as sent that the writer will not see.
AckUnderway ==
    \A e \in End : peerAck[e] < sentData[e] =>
        \/ \E i \in 1..Len(log[e]) : log[e][i].t = "DATA"
        \/ recvBuf[peer(e)] > 0
        \/ lastAckSent[peer(e)] < recvData[peer(e)]
        \/ \E i \in 1..Len(log[peer(e)]) :
              log[peer(e)][i].t = "ACK" /\ log[peer(e)][i].v > peerAck[e]

\* A Read asleep is woken by whatever comes: data, FIN, failure, Close.
ReadWakes ==
    []<>\A e \in End :
        rpc[e] = "sleep" /\ (recvBuf[e] > 0 \/ recvEOF[e] \/ recvErr[e] \/ closed[e])
            => ~alive[e]

\* A side whose peer has closed or died finds out: its pipe ends.
SilenceNoticed ==
    []<>\A e \in End :
        ~alive[peer(e)] \/ cpc[peer(e)] = "closed" => dead[e] \/ ~alive[e]

-----------------------------------------------------------------------------
(* What the documentation says and the code does not do. *)

\* docs/TRANSPORTS.md:259: FIN is "last data frame": "writer will send no more
\* DATA".
NoDataAfterFin ==
    \A e \in End : \A i \in 1..Len(log[e]) : \A j \in 1..(i - 1) :
        log[e][j].t = "FIN" => log[e][i].t # "DATA"

\* docs/TRANSPORTS.md:353: Read blocks until "data, FIN (-> io.EOF), ERROR".
\* Once the end of the stream was reported, it stays that.
EofStays == [][\A e \in End : recvEOF[e] /\ ~closed[e] => ~(rpc[e] # "failed" /\ rpc'[e] = "failed")]_vars

\* docs/TRANSPORTS.md:287-288: the reader emits an ACK "at least every Window/4
\* bytes consumed"; Window is the limit of the writer.
AckEveryQuarter ==
    \A e \in End : rpc[e] \in {"check", "sleep"} =>
        recvData[e] - lastAckSent[e] <= (Window[peer(e)] + 3) \div 4

\* docs/TRANSPORTS.md:357-358: "Full close after both FINs lets the acceptor reap
\* the subdir."
ReapAfterBothFins ==
    reaped => recvErr["acceptor"] \/ recvEOF["acceptor"]
=============================================================================

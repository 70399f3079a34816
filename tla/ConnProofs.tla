----------------------------- MODULE ConnProofs -----------------------------
(***************************************************************************)
(* The flow control of Conn, for windows, frame sizes and writes of any     *)
(* length: WindowKept, AckedWasRead, AckNeverFalls, and what keeps a Read   *)
(* or a Write from sleeping for ever, NoLostWakeup and AckUnderway.         *)
(***************************************************************************)
EXTENDS Conn, TLAPS

\* Most leaves are first-order reasoning; those that need arithmetic, sequences
\* or the values of functions cite SMT.
USE Zenon

Frame == [t : {"DATA", "ACK", "FIN"}, off : Nat, v : Nat]

-----------------------------------------------------------------------------
(* The inductive invariant *)

\* The room that Write found is still there when it uses it: ACKs only add.
RoomSound ==
    \A e \in End :
        /\ sentData[e] - peerAck[e] <= Window[e]
        /\ wpc[e] = "emit" => 0 < room[e] /\ sentData[e] + room[e] <= peerAck[e] + Window[e]
        /\ wpc[e] \in {"check", "emit", "sleep"} => left[e] > 0

\* Whatever an ACK says, on its way or about to be sent, was read.
AcksSound ==
    \A e \in End :
        /\ rd[e] <= recvData[e] /\ mrd[e] <= recvData[e]
        /\ peerAck[peer(e)] <= recvData[e]
        /\ \A i \in 1..Len(log[e]) : log[e][i].t = "ACK" => log[e][i].v <= recvData[e]

\* The DATA frames on their way cover the bytes from what arrived to what was
\* sent, one after the other: no sum over the log is needed.
DataSound ==
    \A e \in End :
        /\ recvData[peer(e)] + recvBuf[peer(e)] <= sentData[e]
        /\ \A i \in 1..Len(log[e]) : log[e][i].t = "DATA" =>
              /\ recvData[peer(e)] + recvBuf[peer(e)] <= log[e][i].off
              /\ log[e][i].off + log[e][i].v <= sentData[e]
              /\ \A j \in 1..(i - 1) : log[e][j].t = "DATA" =>
                    log[e][j].off + log[e][j].v <= log[e][i].off

IInv == FlowTypeOK /\ RoomSound /\ AcksSound /\ DataSound

-----------------------------------------------------------------------------
\* The two ends are each other's peer.
LEMMA Peers ==
    ASSUME NEW e \in End
    PROVE  peer(e) \in End /\ peer(e) # e /\ peer(peer(e)) = e
BY DEF End, peer

\* What appending a frame does to a log.
LEMMA Appended ==
    ASSUME NEW s \in Seq(Frame), NEW f \in Frame
    PROVE  /\ Append(s, f) \in Seq(Frame)
           /\ Len(Append(s, f)) = Len(s) + 1 /\ Len(s) \in Nat
           /\ \A i \in 1..Len(s) : Append(s, f)[i] = s[i]
           /\ Append(s, f)[Len(s) + 1] = f
BY SMT

\* What taking the first frame does to a log.
LEMMA Popped ==
    ASSUME NEW s \in Seq(Frame), s # <<>>
    PROVE  /\ Tail(s) \in Seq(Frame) /\ Head(s) = s[1] /\ Head(s) \in Frame
           /\ Len(Tail(s)) = Len(s) - 1 /\ Len(s) \in Nat \ {0}
           /\ \A i \in 1..Len(Tail(s)) : Tail(s)[i] = s[i + 1]
BY SMT

\* What is in a log is a frame, and its fields are numbers.
LEMMA FrameAt ==
    ASSUME NEW s \in Seq(Frame), NEW i \in 1..Len(s)
    PROVE  s[i].off \in Nat /\ s[i].v \in Nat
<1>1. s[i] \in Frame
    BY SMT
<1> QED BY <1>1 DEF Frame

\* A fresh pipe satisfies the invariant.
LEMMA InitIInv == Init => IInv
<1> SUFFICES ASSUME Init PROVE IInv
    OBVIOUS
<1>1. FlowTypeOK
    BY ConnOK, SMT DEF Init, FlowTypeOK
<1>2. RoomSound
    BY ConnOK, SMT DEF Init, RoomSound
<1>3. AcksSound
    BY Peers, SMT DEF Init, AcksSound
<1>4. DataSound
    BY Peers, SMT DEF Init, DataSound
<1> QED BY <1>1, <1>2, <1>3, <1>4 DEF IInv

-----------------------------------------------------------------------------
(* Every step keeps it *)

\* A step that only moves bytes that no conjunct is about.
LEMMA Irrelevant ==
    ASSUME IInv,
           UNCHANGED <<log, sentData, peerAck, recvBuf, recvData, wpc, left, room, rd, mrd>>
    PROVE  RoomSound' /\ AcksSound' /\ DataSound'
<1>1. RoomSound'
    BY DEF IInv, RoomSound
<1>2. AcksSound'
    BY DEF IInv, AcksSound
<1>3. DataSound'
    BY DEF IInv, DataSound
<1> QED BY <1>1, <1>2, <1>3

\* A control frame is appended. An ACK among them says what was read.
LEMMA Emitted ==
    ASSUME IInv, NEW e \in End, NEW f \in Frame, f.t # "DATA",
           f.t = "ACK" => f.v <= recvData[e],
           log' = [log EXCEPT ![e] = Append(@, f)],
           UNCHANGED <<sentData, peerAck, recvBuf, recvData, wpc, left, room, rd, mrd>>
    PROVE  RoomSound' /\ AcksSound' /\ DataSound' /\ log' \in [End -> Seq(Frame)]
<1>0. log \in [End -> Seq(Frame)]
    BY DEF IInv, FlowTypeOK, Frame
<1>1. RoomSound'
    BY DEF IInv, RoomSound
<1>2. /\ log' \in [End -> Seq(Frame)]
      /\ \A d \in End : d # e => log'[d] = log[d]
      /\ Len(log[e]) \in Nat /\ Len(log'[e]) = Len(log[e]) + 1
      /\ \A i \in 1..Len(log[e]) : log'[e][i] = log[e][i]
      /\ log'[e][Len(log[e]) + 1] = f
    BY <1>0, Appended
<1>3. AcksSound'
    <2> SUFFICES ASSUME NEW d \in End, NEW i \in 1..Len(log'[d]), log'[d][i].t = "ACK"
                 PROVE  log'[d][i].v <= recvData[d]
        BY DEF IInv, AcksSound
    <2>1. CASE d = e /\ i = Len(log[e]) + 1
        BY <1>2, <2>1
    <2>2. CASE d # e \/ i # Len(log[e]) + 1
        <3>1. i \in 1..Len(log[d]) /\ log'[d][i] = log[d][i]
            BY <1>2, <2>2, SMT
        <3> QED BY <3>1 DEF IInv, AcksSound
    <2> QED BY <2>1, <2>2
<1>4. DataSound'
    <2> SUFFICES ASSUME NEW d \in End, NEW i \in 1..Len(log'[d]), log'[d][i].t = "DATA"
                 PROVE  /\ recvData[peer(d)] + recvBuf[peer(d)] <= log'[d][i].off
                        /\ log'[d][i].off + log'[d][i].v <= sentData[d]
                        /\ \A j \in 1..(i - 1) : log'[d][j].t = "DATA" =>
                              log'[d][j].off + log'[d][j].v <= log'[d][i].off
        BY DEF IInv, DataSound
    <2>1. /\ i \in 1..Len(log[d]) /\ log'[d][i] = log[d][i]
          /\ \A j \in 1..(i - 1) : log'[d][j] = log[d][j]
        <3>1. CASE d = e
            <4>1. i # Len(log[e]) + 1
                BY <1>2, <3>1
            <4> QED BY <1>2, <3>1, <4>1, SMT
        <3>2. CASE d # e
            BY <1>2, <3>2
        <3> QED BY <3>1, <3>2
    <2> QED BY <2>1 DEF IInv, DataSound
<1> QED BY <1>1, <1>2, <1>3, <1>4

\* The counters are numbers.
Counters ==
    /\ sentData \in [End -> Nat] /\ peerAck \in [End -> Nat] /\ lastAckSent \in [End -> Nat]
    /\ recvBuf \in [End -> Nat] /\ recvData \in [End -> Nat]
    /\ left \in [End -> Nat] /\ room \in [End -> Int]
    /\ rd \in [End -> Nat] /\ mrd \in [End -> Nat]
    /\ wpc \in [End -> {"check", "sleep", "emit", "returned", "failed"}]

\* The type of the flow variables, the log apart from the counters.
LEMMA FlowTypes == FlowTypeOK <=> Counters /\ log \in [End -> Seq(Frame)]
BY DEF FlowTypeOK, Counters, Frame

\* What has arrived at an end, read or not, is a number.
LEMMA Sums ==
    ASSUME Counters, NEW e \in End
    PROVE  recvData[peer(e)] + recvBuf[peer(e)] \in Nat
BY Peers, SMT DEF Counters

\* A DATA frame within the room that was found.
LEMMA DataEmitted ==
    ASSUME IInv, NEW e \in End, EmitData(e)
    PROVE  IInv'
<1> DEFINE n == chunk(e)
<1>0. log \in [End -> Seq(Frame)] /\ Counters /\ RoomSound
    BY FlowTypes DEF IInv
<1>1. CASE sendClosed[e]
    <2>1. /\ wpc' = [wpc EXCEPT ![e] = "failed"]
          /\ UNCHANGED <<log, sentData, left, peerAck, lastAckSent, recvBuf, recvData, room,
                         rd, mrd>>
        BY <1>1 DEF EmitData, recv, read, maint
    <2>2. FlowTypeOK'
        <3>1. Counters'
            BY <1>0, <2>1 DEF Counters
        <3>2. log' \in [End -> Seq(Frame)]
            BY <1>0, <2>1
        <3>3. FlowTypeOK' <=> Counters' /\ log' \in [End -> Seq(Frame)]
            BY DEF FlowTypeOK, Counters, Frame
        <3> QED BY <3>1, <3>2, <3>3
    <2>3. RoomSound'
        BY <1>0, <2>1 DEF Counters, RoomSound
    <2>4. AcksSound' /\ DataSound'
        BY <2>1 DEF IInv, AcksSound, DataSound
    <2> QED BY <2>2, <2>3, <2>4 DEF IInv
<1>2. CASE ~sendClosed[e]
    <2>1. n \in Nat /\ n <= left[e] /\ n <= room[e]
        <3>1. wpc[e] = "emit" /\ room[e] > 0
            BY <1>0 DEF EmitData, RoomSound
        <3> QED BY <1>0, <3>1, ConnOK, SMT DEF Counters, chunk, minimum
    <2> HIDE DEF n
    <2>2. /\ log' = [log EXCEPT ![e] = Append(@, Data(sentData[e], n))]
          /\ sentData' = [sentData EXCEPT ![e] = @ + n]
          /\ left' = [left EXCEPT ![e] = @ - n]
          /\ wpc' = [wpc EXCEPT ![e] = IF left[e] = n THEN "returned" ELSE "check"]
          /\ UNCHANGED <<peerAck, lastAckSent, recvBuf, recvData, room, rd, mrd>>
          /\ wpc[e] = "emit"
        BY <1>2 DEF EmitData, recv, read, maint, n
    <2>3. Data(sentData[e], n) \in Frame
        BY <1>0, <2>1 DEF Counters, Data, Frame
    <2>4. /\ log' \in [End -> Seq(Frame)]
          /\ \A d \in End : d # e => log'[d] = log[d]
          /\ Len(log[e]) \in Nat /\ Len(log'[e]) = Len(log[e]) + 1
          /\ \A i \in 1..Len(log[e]) : log'[e][i] = log[e][i]
          /\ log'[e][Len(log[e]) + 1] = Data(sentData[e], n)
        BY <1>0, <2>2, <2>3, Appended
    <2>5. Counters'
        <3>1. sentData' \in [End -> Nat]
            BY <1>0, <2>1, <2>2, SMT DEF Counters
        <3>2. left' \in [End -> Nat]
            BY <1>0, <2>1, <2>2, SMT DEF Counters
        <3>3. wpc' \in [End -> {"check", "sleep", "emit", "returned", "failed"}]
            BY <1>0, <2>2 DEF Counters
        <3> QED BY <1>0, <2>2, <3>1, <3>2, <3>3 DEF Counters
    <2>10. /\ sentData'[e] = sentData[e] + n /\ left'[e] = left[e] - n
           /\ wpc'[e] = (IF left[e] = n THEN "returned" ELSE "check")
           /\ \A d \in End : d # e => /\ sentData'[d] = sentData[d] /\ left'[d] = left[d]
                                     /\ wpc'[d] = wpc[d]
        BY <1>0, <2>2 DEF Counters
    <2>11. \A d \in End : /\ sentData[d] \in Nat /\ peerAck[d] \in Nat /\ room[d] \in Int
                           /\ left[d] \in Nat /\ Window[d] \in Nat
        BY <1>0, ConnOK DEF Counters
    <2>6. RoomSound'
        <3> SUFFICES ASSUME NEW d \in End
                     PROVE  /\ sentData'[d] - peerAck[d] <= Window[d]
                            /\ wpc'[d] = "emit" => /\ 0 < room[d]
                                                   /\ sentData'[d] + room[d] <= peerAck[d] + Window[d]
                            /\ wpc'[d] \in {"check", "emit", "sleep"} => left'[d] > 0
            BY <2>2 DEF RoomSound
        <3>1. CASE d = e
            <4>1. sentData[e] + room[e] <= peerAck[e] + Window[e]
                BY <1>0, <2>2 DEF RoomSound
            <4>2. sentData'[d] - peerAck[d] <= Window[d]
                BY <2>1, <2>10, <2>11, <3>1, <4>1, SMT
            <4>3. wpc'[d] # "emit"
                BY <2>10, <3>1
            <4>4. wpc'[d] \in {"check", "emit", "sleep"} => left'[d] > 0
                BY <2>1, <2>10, <2>11, <3>1, SMT
            <4> QED BY <4>2, <4>3, <4>4
        <3>2. CASE d # e
            BY <1>0, <2>10, <3>2 DEF RoomSound
        <3> QED BY <3>1, <3>2
    <2>9. FlowTypeOK'
        BY <2>4, <2>5 DEF FlowTypeOK, Counters, Frame
    <2>7. AcksSound'
        <3> SUFFICES ASSUME NEW d \in End, NEW i \in 1..Len(log'[d]), log'[d][i].t = "ACK"
                     PROVE  log'[d][i].v <= recvData[d]
            BY <2>2 DEF IInv, AcksSound
        <3>1. i \in 1..Len(log[d]) /\ log'[d][i] = log[d][i]
            BY <2>4, SMT DEF Data
        <3> QED BY <3>1 DEF IInv, AcksSound
    <2>8. DataSound'
        <3>1. \A d \in End : sentData'[d] >= sentData[d] /\ sentData[d] \in Nat
            BY <2>1, <2>10, <2>11, SMT
        <3>2. \A d \in End : /\ recvData[peer(d)] + recvBuf[peer(d)] \in Nat
                             /\ recvData[peer(d)] + recvBuf[peer(d)] <= sentData[d]
            BY <1>0, Sums DEF IInv, DataSound
        <3>3. \A d \in End : recvData[peer(d)] + recvBuf[peer(d)] <= sentData'[d]
            BY <2>5, <3>1, <3>2, SMT DEF Counters
        <3>4. ASSUME NEW d \in End, NEW i \in 1..Len(log'[d]), log'[d][i].t = "DATA"
              PROVE  /\ recvData[peer(d)] + recvBuf[peer(d)] <= log'[d][i].off
                     /\ log'[d][i].off + log'[d][i].v <= sentData'[d]
                     /\ \A j \in 1..(i - 1) : log'[d][j].t = "DATA" =>
                           log'[d][j].off + log'[d][j].v <= log'[d][i].off
            <4>1. CASE d = e /\ i = Len(log[e]) + 1
                <5>1. log'[d][i].off = sentData[e] /\ log'[d][i].v = n
                    BY <2>4, <4>1, SMT DEF Data
                <5>2. sentData'[d] = sentData[e] + n
                    BY <1>0, <2>2, <4>1 DEF Counters
                <5>3. \A j \in 1..(i - 1) : log'[d][j] = log[e][j] /\ j \in 1..Len(log[e])
                    BY <2>4, <4>1, SMT
                <5>4. \A j \in 1..Len(log[e]) : log[e][j].t = "DATA" =>
                         log[e][j].off + log[e][j].v <= sentData[e]
                    BY DEF IInv, DataSound
                <5>5. sentData[e] \in Nat
                    BY <1>0 DEF Counters
                <5>6. \A j \in 1..(i - 1) : log'[d][j].t = "DATA" =>
                         log'[d][j].off + log'[d][j].v <= log'[d][i].off
                    BY <5>1, <5>3, <5>4
                <5>7. log'[d][i].off + log'[d][i].v <= sentData'[d]
                    BY <2>1, <5>1, <5>2, <5>5, SMT
                <5>8. recvData[peer(d)] + recvBuf[peer(d)] <= log'[d][i].off
                    BY <3>2, <4>1, <5>1
                <5> QED BY <5>6, <5>7, <5>8
            <4>2. CASE ~(d = e /\ i = Len(log[e]) + 1)
                <5>1. /\ i \in 1..Len(log[d]) /\ log'[d][i] = log[d][i]
                      /\ \A j \in 1..(i - 1) : log'[d][j] = log[d][j]
                    <6>1. CASE d = e
                        BY <2>4, <4>2, <6>1, SMT
                    <6>2. CASE d # e
                        BY <2>4, <6>2
                    <6> QED BY <6>1, <6>2
                <5>2. log[d][i] \in Frame
                    BY <1>0, <5>1, SMT
                <5>3. log[d][i].off + log[d][i].v <= sentData[d]
                    BY <3>4, <5>1 DEF IInv, DataSound
                <5>4. log[d][i].off + log[d][i].v <= sentData'[d]
                    <6>1. log[d][i].off + log[d][i].v \in Nat
                        BY <5>2, SMT DEF Frame
                    <6>2. sentData'[d] \in Nat
                        BY <2>5 DEF Counters
                    <6> QED BY <3>1, <5>3, <6>1, <6>2, SMT
                <5> QED BY <3>4, <5>1, <5>4 DEF IInv, DataSound
            <4> QED BY <4>1, <4>2
        <3> QED BY <2>2, <3>3, <3>4 DEF DataSound
    <2> QED BY <2>6, <2>7, <2>8, <2>9 DEF IInv
<1> QED BY <1>1, <1>2

\* What taking the first frame does to the log of the peer.
LEMMA Received ==
    ASSUME IInv, NEW e \in End, NEW type, Receives(e, type)
    PROVE  LET p == peer(e)
           IN  /\ log[p] # <<>> /\ log[p][1] = Head(log[p]) /\ log[p][1] \in Frame
               /\ log[p][1].t = type /\ 1 \in 1..Len(log[p])
               /\ log' \in [End -> Seq(Frame)]
               /\ log'[e] = log[e]
               /\ \A i \in 1..Len(log'[p]) :
                     /\ i + 1 \in 1..Len(log[p]) /\ 1 \in 1..((i + 1) - 1)
                     /\ log'[p][i] = log[p][i + 1]
                     /\ \A j \in 1..(i - 1) : /\ j + 1 \in 1..((i + 1) - 1)
                                              /\ log'[p][j] = log[p][j + 1]
<1> DEFINE p == peer(e)
<1>1. p \in End /\ p # e /\ log \in [End -> Seq(Frame)]
    BY Peers, FlowTypes DEF IInv
<1>2. log[p] # <<>> /\ log' = [log EXCEPT ![p] = Tail(@)] /\ Head(log[p]).t = type
    BY DEF Receives, Readable, Pop
<1> HIDE DEF p
<1>3. log[p] \in Seq(Frame)
    BY <1>1
<1>4. /\ Tail(log[p]) \in Seq(Frame) /\ Head(log[p]) = log[p][1] /\ Head(log[p]) \in Frame
      /\ Len(Tail(log[p])) = Len(log[p]) - 1 /\ Len(log[p]) \in Nat \ {0}
      /\ \A i \in 1..Len(Tail(log[p])) : Tail(log[p])[i] = log[p][i + 1]
    BY <1>2, <1>3, Popped
<1>5. log'[p] = Tail(log[p]) /\ log'[e] = log[e] /\ log' \in [End -> Seq(Frame)]
    BY <1>1, <1>2, <1>4
<1>6. ASSUME NEW i \in 1..Len(log'[p])
      PROVE  /\ i + 1 \in 1..Len(log[p]) /\ 1 \in 1..((i + 1) - 1)
             /\ log'[p][i] = log[p][i + 1]
             /\ \A j \in 1..(i - 1) : /\ j + 1 \in 1..((i + 1) - 1)
                                      /\ log'[p][j] = log[p][j + 1]
    BY <1>4, <1>5, <1>6, SMT
<1> QED BY <1>2, <1>4, <1>5, <1>6, SMT DEF p

\* The shorter log is as sound as it was, when the counters do not fall behind it.
LEMMA PoppedAcks ==
    ASSUME IInv, NEW e \in End, NEW type, Receives(e, type),
           UNCHANGED <<recvData, rd, mrd>>,
           \A d \in End : peerAck'[peer(d)] <= recvData[d]
    PROVE  AcksSound'
<1> SUFFICES ASSUME NEW d \in End, NEW i \in 1..Len(log'[d]), log'[d][i].t = "ACK"
             PROVE  log'[d][i].v <= recvData[d]
    BY DEF IInv, AcksSound
<1>1. d = e \/ d = peer(e)
    BY DEF End, peer
<1>2. CASE d = e
    BY <1>2, Received DEF IInv, AcksSound
<1>3. CASE d = peer(e)
    BY <1>3, Received, SMTT(30) DEF IInv, AcksSound
<1> QED BY <1>1, <1>2, <1>3

\* When taking a frame moves no bytes, those left in the log still follow.
LEMMA PoppedData ==
    ASSUME IInv, NEW e \in End, NEW type, Receives(e, type),
           UNCHANGED <<sentData, recvData, recvBuf>>
    PROVE  DataSound'
<1> SUFFICES ASSUME NEW d \in End, NEW i \in 1..Len(log'[d]), log'[d][i].t = "DATA"
             PROVE  /\ recvData[peer(d)] + recvBuf[peer(d)] <= log'[d][i].off
                    /\ log'[d][i].off + log'[d][i].v <= sentData[d]
                    /\ \A j \in 1..(i - 1) : log'[d][j].t = "DATA" =>
                          log'[d][j].off + log'[d][j].v <= log'[d][i].off
    BY DEF IInv, DataSound
<1>1. d = e \/ d = peer(e)
    BY DEF End, peer
<1>2. CASE d = e
    <2>1. log'[d] = log[d]
        BY <1>2, Received
    <2> QED BY <2>1 DEF IInv, DataSound
<1>3. CASE d = peer(e)
    <2>1. /\ i + 1 \in 1..Len(log[d]) /\ log'[d][i] = log[d][i + 1]
          /\ \A j \in 1..(i - 1) : /\ j + 1 \in 1..((i + 1) - 1)
                                   /\ log'[d][j] = log[d][j + 1]
        BY <1>3, Received
    <2> QED BY <2>1 DEF IInv, DataSound
<1> QED BY <1>1, <1>2, <1>3

\* A FIN moves no bytes.
LEMMA FinDispatched ==
    ASSUME IInv, NEW e \in End, DispatchFin(e)
    PROVE  IInv'
<1>1. /\ Receives(e, "FIN")
      /\ UNCHANGED <<sentData, peerAck, lastAckSent, recvBuf, recvData, left, room, rd, mrd, wpc>>
    BY DEF DispatchFin, send, write, read, maint
<1>2. Counters /\ Counters'
    BY <1>1, FlowTypes DEF IInv, Counters
<1>3. FlowTypeOK'
    BY <1>1, <1>2, Received DEF FlowTypeOK, Counters, Frame
<1>4. RoomSound'
    BY <1>1 DEF IInv, RoomSound
<1>5. AcksSound'
    <2>1. \A d \in End : peerAck'[peer(d)] <= recvData[d]
        BY <1>1 DEF IInv, AcksSound
    <2> QED BY <1>1, <2>1, PoppedAcks
<1>6. DataSound'
    BY <1>1, PoppedData
<1> QED BY <1>3, <1>4, <1>5, <1>6 DEF IInv

\* An ACK raises what the writer takes for read, up to what was read.
LEMMA AckDispatched ==
    ASSUME IInv, NEW e \in End, DispatchAck(e)
    PROVE  IInv' /\ \A d \in End : peerAck'[d] >= peerAck[d]
<1> DEFINE v == log[peer(e)][1].v
<1>1. /\ Receives(e, "ACK")
      /\ peerAck' = [peerAck EXCEPT ![e] = newAck(@, Head(log[peer(e)]).v)]
      /\ UNCHANGED <<sentData, lastAckSent, recvBuf, recvData, left, room, rd, mrd, wpc>>
    BY DEF DispatchAck, recv, write, read, maint
<1>2. Counters /\ RoomSound /\ AcksSound
    BY FlowTypes DEF IInv
<1>3. /\ v \in Nat /\ v <= recvData[peer(e)]
      /\ peerAck' = [peerAck EXCEPT ![e] = newAck(@, v)]
    BY <1>1, <1>2, Received, Peers, SMT DEF AcksSound, Frame
<1> HIDE DEF v
<1>4. /\ peerAck'[e] = newAck(peerAck[e], v)
      /\ \A d \in End : d # e => peerAck'[d] = peerAck[d]
      /\ \A d \in End : peerAck[d] \in Nat
    BY <1>2, <1>3 DEF Counters
<1>5. peerAck' \in [End -> Nat] /\ \A d \in End : peerAck'[d] >= peerAck[d]
    <2>1. newAck(peerAck[e], v) \in Nat /\ newAck(peerAck[e], v) >= peerAck[e]
        BY <1>3, <1>4, SMT DEF newAck
    <2>2. peerAck' \in [End -> Nat]
        BY <1>2, <1>3, <2>1 DEF Counters
    <2>3. \A d \in End : peerAck'[d] >= peerAck[d]
        BY <1>4, <2>1, SMT
    <2> QED BY <2>2, <2>3
<1>6. Counters'
    BY <1>1, <1>2, <1>5 DEF Counters
<1>7. FlowTypeOK'
    BY <1>1, <1>6, Received DEF FlowTypeOK, Counters, Frame
<1>8. RoomSound'
    <2>1. \A d \in End : /\ sentData[d] \in Nat /\ room[d] \in Int /\ Window[d] \in Nat
                         /\ peerAck'[d] \in Nat
        BY <1>2, <1>6, ConnOK DEF Counters
    <2> QED BY <1>1, <1>2, <1>4, <1>5, <2>1, SMT DEF RoomSound
<1>9. AcksSound'
    <2>1. \A d \in End : peerAck'[peer(d)] <= recvData[d]
        <3> SUFFICES ASSUME NEW d \in End PROVE peerAck'[peer(d)] <= recvData[d]
            OBVIOUS
        <3>1. peerAck[peer(d)] <= recvData[d]
            BY <1>2 DEF AcksSound
        <3>2. CASE peer(d) = e
            <4>1. d = peer(e)
                BY <3>2, Peers
            <4> QED BY <1>3, <1>4, <3>1, <3>2, <4>1 DEF newAck
        <3>3. CASE peer(d) # e
            BY <1>4, <3>1, <3>3, Peers
        <3> QED BY <3>2, <3>3
    <2> QED BY <1>1, <2>1, PoppedAcks
<1>10. DataSound'
    BY <1>1, PoppedData
<1> QED BY <1>5, <1>7, <1>8, <1>9, <1>10 DEF IInv

\* The bytes of a DATA frame are those that follow what has arrived.
LEMMA DataDispatched ==
    ASSUME IInv, NEW e \in End, DispatchData(e)
    PROVE  IInv'
<1> DEFINE p == peer(e)
           h == log[p][1]
<1>1. /\ Receives(e, "DATA")
      /\ recvBuf' = [recvBuf EXCEPT ![e] = @ + Head(log[p]).v]
      /\ UNCHANGED <<sentData, peerAck, lastAckSent, recvData, left, room, rd, mrd, wpc>>
    BY DEF DispatchData, send, write, read, maint
<1>2. Counters /\ RoomSound /\ AcksSound /\ DataSound /\ p \in End /\ p # e /\ peer(p) = e
    BY FlowTypes, Peers DEF IInv
<1>3. h \in Frame /\ h.t = "DATA" /\ h = Head(log[p]) /\ 1 \in 1..Len(log[p])
    BY <1>1, Received
<1>4. /\ recvBuf'[e] = recvBuf[e] + h.v /\ recvBuf'[p] = recvBuf[p]
      /\ recvBuf' \in [End -> Nat]
    <2>1. h.v \in Nat
        BY <1>3 DEF Frame
    <2>2. recvBuf' = [recvBuf EXCEPT ![e] = @ + h.v] /\ recvBuf \in [End -> Nat]
        BY <1>1, <1>2, <1>3 DEF Counters
    <2> HIDE DEF h
    <2> QED BY <1>2, <2>1, <2>2, SMT
<1>5. recvData[e] + recvBuf[e] <= h.off /\ h.off + h.v <= sentData[p]
    BY <1>2, <1>3 DEF DataSound
<1>6. /\ recvData[e] \in Nat /\ recvBuf[e] \in Nat /\ sentData[p] \in Nat
      /\ h.off \in Nat /\ h.v \in Nat
    BY <1>2, <1>3 DEF Counters, Frame
<1>7. recvData[e] + recvBuf'[e] <= h.off + h.v
    BY <1>4, <1>5, <1>6, SMT
<1>8. FlowTypeOK'
    BY <1>1, <1>2, <1>4, Received DEF FlowTypeOK, Counters, Frame
<1>9. RoomSound'
    BY <1>1, <1>2 DEF RoomSound
<1>10. AcksSound'
    <2>1. \A d \in End : peerAck'[peer(d)] <= recvData[d]
        BY <1>1, <1>2 DEF AcksSound
    <2> QED BY <1>1, <2>1, PoppedAcks
<1>11. DataSound'
    <2>1. recvData[e] + recvBuf'[e] <= sentData[p]
        BY <1>4, <1>5, <1>6, SMT
    <2>2. recvData[p] + recvBuf'[p] <= sentData[e]
        BY <1>2, <1>4 DEF DataSound
    <2>3. ASSUME NEW i \in 1..Len(log'[p]), log'[p][i].t = "DATA"
          PROVE  /\ recvData[e] + recvBuf'[e] <= log'[p][i].off
                 /\ log'[p][i].off + log'[p][i].v <= sentData[p]
                 /\ \A j \in 1..(i - 1) : log'[p][j].t = "DATA" =>
                       log'[p][j].off + log'[p][j].v <= log'[p][i].off
        <3>1. /\ i + 1 \in 1..Len(log[p]) /\ 1 \in 1..((i + 1) - 1)
              /\ log'[p][i] = log[p][i + 1]
              /\ \A j \in 1..(i - 1) : /\ j + 1 \in 1..((i + 1) - 1)
                                       /\ log'[p][j] = log[p][j + 1]
            BY <1>1, Received
        <3>2. h.off + h.v <= log[p][i + 1].off
            BY <1>2, <1>3, <2>3, <3>1 DEF DataSound
        <3>3. log'[p][i].off \in Nat
            <4>1. log' \in [End -> Seq(Frame)]
                BY <1>1, Received
            <4>2. log'[p][i] \in Frame
                BY <1>2, <4>1, SMT
            <4> QED BY <4>2 DEF Frame
        <3>4. recvData[e] + recvBuf'[e] <= log'[p][i].off
            <4>1. recvData[e] + recvBuf'[e] \in Nat /\ h.off + h.v \in Nat
                <5>1. recvBuf'[e] \in Nat
                    BY <1>4
                <5> HIDE DEF h, p
                <5>2. recvData[e] + recvBuf'[e] \in Nat
                    BY <1>6, <5>1, SMT
                <5>3. h.off + h.v \in Nat
                    BY <1>6, SMT
                <5> QED BY <5>2, <5>3
            <4>2. h.off + h.v <= log'[p][i].off
                BY <3>1, <3>2
            <4> HIDE DEF h, p
            <4> QED BY <1>7, <3>3, <4>1, <4>2, SMT
        <3> QED BY <1>2, <2>3, <3>1, <3>4 DEF DataSound
    <2>4. ASSUME NEW i \in 1..Len(log'[e]), log'[e][i].t = "DATA"
          PROVE  /\ recvData[p] + recvBuf'[p] <= log'[e][i].off
                 /\ log'[e][i].off + log'[e][i].v <= sentData[e]
                 /\ \A j \in 1..(i - 1) : log'[e][j].t = "DATA" =>
                       log'[e][j].off + log'[e][j].v <= log'[e][i].off
        <3>1. log'[e] = log[e]
            BY <1>1, Received
        <3> QED BY <1>2, <1>4, <2>4, <3>1 DEF DataSound
    <2>5. \A d \in End : d = e \/ d = p
        BY SMT DEF End, peer
    <2> HIDE DEF p
    <2> QED BY <1>1, <1>2, <2>1, <2>2, <2>3, <2>4, <2>5 DEF DataSound, p
<1> QED BY <1>8, <1>9, <1>10, <1>11 DEF IInv

\* Read moves bytes from the buffer to the count, and takes its ACK from there.
LEMMA SomeRead ==
    ASSUME IInv, NEW e \in End, NEW n \in 1..recvBuf[e], ReadSome(e, n)
    PROVE  IInv'
<1>1. /\ recvBuf' = [recvBuf EXCEPT ![e] = @ - n]
      /\ recvData' = [recvData EXCEPT ![e] = @ + n]
      /\ rd' = [rd EXCEPT ![e] = recvData[e] + n]
      /\ UNCHANGED <<log, sentData, peerAck, lastAckSent, left, room, mrd, wpc>>
    BY DEF ReadSome, send, write, maint
<1>2. Counters /\ RoomSound /\ AcksSound /\ DataSound /\ log \in [End -> Seq(Frame)]
    BY FlowTypes DEF IInv
<1>3. \A d \in End : /\ recvBuf[d] \in Nat /\ recvData[d] \in Nat /\ rd[d] \in Nat
                     /\ mrd[d] \in Nat /\ peerAck[d] \in Nat
    BY <1>2 DEF Counters
<1>4. /\ recvBuf'[e] = recvBuf[e] - n /\ recvData'[e] = recvData[e] + n
      /\ rd'[e] = recvData[e] + n /\ n \in Nat /\ recvBuf[e] - n \in Nat
      /\ \A d \in End : d # e => /\ recvBuf'[d] = recvBuf[d] /\ recvData'[d] = recvData[d]
                                 /\ rd'[d] = rd[d]
    BY <1>1, <1>2, <1>3, SMT DEF Counters
<1>5. recvBuf' \in [End -> Nat] /\ recvData' \in [End -> Nat] /\ rd' \in [End -> Nat]
    BY <1>1, <1>2, <1>3, <1>4, SMTT(30) DEF Counters
<1>6. FlowTypeOK'
    BY <1>1, <1>2, <1>5 DEF FlowTypeOK, Counters, Frame
<1>7. RoomSound'
    BY <1>1, <1>2 DEF RoomSound
<1>8. \A d \in End : recvData'[d] >= recvData[d] /\ recvData'[d] \in Nat
    BY <1>3, <1>4, SMT
<1>9. AcksSound'
    <2>1. \A d \in End : rd'[d] <= recvData'[d] /\ mrd[d] <= recvData'[d]
        <3> SUFFICES ASSUME NEW d \in End
                     PROVE  rd'[d] <= recvData'[d] /\ mrd[d] <= recvData'[d]
            OBVIOUS
        <3>1. rd[d] <= recvData[d] /\ mrd[d] <= recvData[d]
            BY <1>2 DEF AcksSound
        <3>2. mrd[d] <= recvData'[d]
            BY <1>3, <1>8, <3>1, SMT
        <3>3. rd'[d] <= recvData'[d]
            BY <1>3, <1>4, <1>8, <3>1, SMT
        <3> QED BY <3>2, <3>3
    <2>2. \A d \in End : peerAck[peer(d)] <= recvData'[d]
        <3> SUFFICES ASSUME NEW d \in End PROVE peerAck[peer(d)] <= recvData'[d]
            OBVIOUS
        <3>1. peerAck[peer(d)] <= recvData[d] /\ peerAck[peer(d)] \in Nat
            BY <1>2, <1>3, Peers DEF AcksSound
        <3> QED BY <1>3, <1>8, <3>1, SMT
    <2>3. ASSUME NEW d \in End, NEW i \in 1..Len(log[d]), log[d][i].t = "ACK"
          PROVE  log[d][i].v <= recvData'[d]
        <3>1. log[d][i].v <= recvData[d]
            BY <1>2, <2>3 DEF AcksSound
        <3>2. log[d][i] \in Frame
            BY <1>2, SMT
        <3>3. log[d][i].v \in Nat
            BY <3>2 DEF Frame
        <3> QED BY <1>3, <1>8, <3>1, <3>3, SMT
    <2> QED BY <1>1, <2>1, <2>2, <2>3 DEF AcksSound
<1>10. DataSound'
    <2>1. \A d \in End : recvData'[d] + recvBuf'[d] = recvData[d] + recvBuf[d]
        <3> SUFFICES ASSUME NEW d \in End
                     PROVE  recvData'[d] + recvBuf'[d] = recvData[d] + recvBuf[d]
            OBVIOUS
        <3>1. CASE d = e
            <4>1. (recvData[e] + n) + (recvBuf[e] - n) = recvData[e] + recvBuf[e]
                BY <1>3, <1>4, SMT
            <4> QED BY <1>4, <3>1, <4>1
        <3>2. CASE d # e
            BY <1>4, <3>2
        <3> QED BY <3>1, <3>2
    <2>2. \A d \in End : recvData'[peer(d)] + recvBuf'[peer(d)] = recvData[peer(d)] + recvBuf[peer(d)]
        BY <2>1, Peers
    <2> QED BY <1>1, <1>2, <2>2 DEF DataSound
<1> QED BY <1>6, <1>7, <1>9, <1>10 DEF IInv

\* waitSendWindow finds the room that there is.
LEMMA WindowChecked ==
    ASSUME IInv, NEW e \in End, CheckWindow(e)
    PROVE  IInv'
<1> DEFINE free == Window[e] - (sentData[e] - peerAck[e])
<1>1. /\ wpc' = [wpc EXCEPT ![e] = IF recvErr[e] \/ sendClosed[e] THEN "failed"
                                   ELSE IF free > 0 THEN "emit" ELSE "sleep"]
      /\ room' = [room EXCEPT ![e] = free]
      /\ wpc[e] = "check"
      /\ UNCHANGED <<log, sentData, peerAck, lastAckSent, recvBuf, recvData, left, rd, mrd>>
    BY DEF CheckWindow, send, recv, read, maint
<1>2. Counters /\ RoomSound /\ log \in [End -> Seq(Frame)]
    BY FlowTypes DEF IInv
<1>3. /\ free \in Int /\ sentData[e] \in Nat /\ peerAck[e] \in Nat /\ Window[e] \in Nat
      /\ sentData[e] + free = peerAck[e] + Window[e]
    BY <1>2, ConnOK, SMT DEF Counters
<1> HIDE DEF free
<1>4. /\ room'[e] = free
      /\ wpc'[e] = "emit" => free > 0
      /\ \A d \in End : d # e => wpc'[d] = wpc[d] /\ room'[d] = room[d]
    BY <1>1, <1>2 DEF Counters
<1>5. FlowTypeOK'
    <2>1. wpc' \in [End -> {"check", "sleep", "emit", "returned", "failed"}]
        BY <1>1, <1>2 DEF Counters
    <2>2. room' \in [End -> Int]
        BY <1>1, <1>2, <1>3 DEF Counters
    <2> QED BY <1>1, <1>2, <2>1, <2>2 DEF FlowTypeOK, Counters, Frame
<1>6. RoomSound'
    <2> SUFFICES ASSUME NEW d \in End
                 PROVE  /\ sentData[d] - peerAck[d] <= Window[d]
                        /\ wpc'[d] = "emit" =>
                              0 < room'[d] /\ sentData[d] + room'[d] <= peerAck[d] + Window[d]
                        /\ wpc'[d] \in {"check", "emit", "sleep"} => left[d] > 0
        BY <1>1 DEF RoomSound
    <2>1. CASE d = e
        <3>1. sentData[e] - peerAck[e] <= Window[e] /\ left[e] > 0
            BY <1>1, <1>2 DEF RoomSound
        <3>2. wpc'[e] = "emit" =>
                  0 < room'[e] /\ sentData[e] + room'[e] <= peerAck[e] + Window[e]
            BY <1>3, <1>4, SMT
        <3> QED BY <2>1, <3>1, <3>2
    <2>2. CASE d # e
        BY <1>2, <1>4, <2>2 DEF RoomSound
    <2> QED BY <2>1, <2>2
<1>7. AcksSound' /\ DataSound'
    BY <1>1 DEF IInv, AcksSound, DataSound
<1> QED BY <1>5, <1>6, <1>7 DEF IInv

\* A Write that wakes looks again, or fails.
LEMMA WriterWoken ==
    ASSUME IInv, NEW e \in End, WakeWriter(e)
    PROVE  IInv'
<1>1. /\ wpc[e] = "sleep"
      /\ \E w \in {"check", "failed"} : wpc' = [wpc EXCEPT ![e] = w]
      /\ UNCHANGED <<log, sentData, peerAck, lastAckSent, recvBuf, recvData, left, room, rd, mrd>>
    BY DEF WakeWriter, send, recv, read, maint
<1>2. Counters /\ RoomSound /\ log \in [End -> Seq(Frame)]
    BY FlowTypes DEF IInv
<1>3. FlowTypeOK'
    BY <1>1, <1>2 DEF FlowTypeOK, Counters, Frame
<1>4. RoomSound'
    BY <1>1, <1>2 DEF RoomSound, Counters
<1>5. AcksSound' /\ DataSound'
    BY <1>1 DEF IInv, AcksSound, DataSound
<1> QED BY <1>3, <1>4, <1>5 DEF IInv

\* sendAck and Close emit control frames.
LEMMA ControlEmitted ==
    ASSUME IInv, NEW e \in End, ReadAck(e) \/ MaintAck(e) \/ CloseFin(e)
    PROVE  IInv'
<1>1. UNCHANGED <<sentData, peerAck, lastAckSent, recvBuf, recvData, left, room, rd, mrd, wpc>>
    BY DEF ReadAck, MaintAck, CloseFin, send, recv, write, read, maint
<1>2. Counters /\ Counters' /\ log \in [End -> Seq(Frame)]
    BY <1>1, FlowTypes DEF IInv, Counters
<1>3. \/ UNCHANGED log
      \/ \E f \in Frame : /\ f.t # "DATA" /\ (f.t = "ACK" => f.v <= recvData[e])
                          /\ log' = [log EXCEPT ![e] = Append(@, f)]
    <2>1. sentData[e] \in Nat /\ rd[e] \in Nat /\ mrd[e] \in Nat
        BY <1>2 DEF Counters
    <2>2. rd[e] <= recvData[e] /\ mrd[e] <= recvData[e]
        BY DEF IInv, AcksSound
    <2>3. CASE ReadAck(e)
        <3>1. Ack(sentData[e], rd[e]) \in Frame
            BY <2>1 DEF Ack, Frame
        <3>2. Ack(sentData[e], rd[e]).t = "ACK" /\ Ack(sentData[e], rd[e]).v = rd[e]
            BY DEF Ack
        <3> QED BY <2>2, <2>3, <3>1, <3>2 DEF ReadAck, emit
    <2>4. CASE MaintAck(e)
        <3>1. Ack(sentData[e], mrd[e]) \in Frame
            BY <2>1 DEF Ack, Frame
        <3>2. Ack(sentData[e], mrd[e]).t = "ACK" /\ Ack(sentData[e], mrd[e]).v = mrd[e]
            BY DEF Ack
        <3> QED BY <2>2, <2>4, <3>1, <3>2 DEF MaintAck, emit
    <2>5. CASE CloseFin(e)
        <3>1. FIN(sentData[e]) \in Frame /\ FIN(sentData[e]).t = "FIN"
            BY <2>1 DEF FIN, Frame
        <3> QED BY <2>5, <3>1 DEF CloseFin
    <2> QED BY <2>3, <2>4, <2>5
<1>4. CASE UNCHANGED log
    <2>1. FlowTypeOK'
        BY <1>2, <1>4 DEF FlowTypeOK, Counters, Frame
    <2> QED BY <1>1, <1>4, <2>1, Irrelevant DEF IInv
<1>5. CASE ~UNCHANGED log
    <2>1. PICK f \in Frame : /\ f.t # "DATA" /\ (f.t = "ACK" => f.v <= recvData[e])
                             /\ log' = [log EXCEPT ![e] = Append(@, f)]
        BY <1>3, <1>5
    <2>2. RoomSound' /\ AcksSound' /\ DataSound' /\ log' \in [End -> Seq(Frame)]
        BY <1>1, <2>1, Emitted
    <2>3. FlowTypeOK'
        BY <1>2, <2>2 DEF FlowTypeOK, Counters, Frame
    <2> QED BY <2>2, <2>3 DEF IInv
<1> QED BY <1>4, <1>5

\* maintLoop takes the value of its catch-up ACK from what was read.
LEMMA MaintTicked ==
    ASSUME IInv, NEW e \in End, MaintTick(e)
    PROVE  IInv'
<1>1. /\ mrd' = [mrd EXCEPT ![e] = recvData[e]]
      /\ UNCHANGED <<log, sentData, peerAck, lastAckSent, recvBuf, recvData, left, room, rd, wpc>>
    BY DEF MaintTick, send, recv, write, read
<1>2. Counters /\ RoomSound /\ log \in [End -> Seq(Frame)]
    BY FlowTypes DEF IInv
<1>3. FlowTypeOK'
    BY <1>1, <1>2 DEF FlowTypeOK, Counters, Frame
<1>4. RoomSound' /\ DataSound'
    BY <1>1 DEF IInv, RoomSound, DataSound
<1>5. AcksSound'
    <2>1. \A d \in End : mrd'[d] <= recvData[d]
        BY <1>1, <1>2, SMT DEF IInv, AcksSound, Counters
    <2> QED BY <1>1, <2>1 DEF IInv, AcksSound
<1> QED BY <1>3, <1>4, <1>5 DEF IInv

\* The rest: lastAckSent at most, and the control state.
LEMMA OthersStep ==
    ASSUME IInv, NEW e \in End,
           \/ ReadNone(e) \/ ReadAgain(e) \/ WakeReader(e) \/ AckDue(e) \/ ReadAcked(e)
           \/ MaintAcked(e) \/ MaintStops(e) \/ IdleTimeout(e) \/ RecvLoopEnds(e)
           \/ CloseSend(e) \/ CloseLoops(e) \/ CloseReturns(e) \/ Crash(e) \/ Reap
    PROVE  IInv' /\ UNCHANGED peerAck
<1>1. UNCHANGED <<log, sentData, peerAck, recvBuf, recvData, wpc, left, room, rd, mrd>>
    BY DEF ReadNone, ReadAgain, WakeReader, AckDue, ReadAcked, MaintAcked, MaintStops,
           IdleTimeout, RecvLoopEnds, CloseSend, CloseLoops, CloseReturns, Crash, Reap,
           send, recv, write, read, maint
<1>2. \/ UNCHANGED lastAckSent
      \/ lastAckSent' = [lastAckSent EXCEPT ![e] = IF rd[e] > @ THEN rd[e] ELSE @]
      \/ lastAckSent' = [lastAckSent EXCEPT ![e] = IF mrd[e] > @ THEN mrd[e] ELSE @]
    BY DEF ReadNone, ReadAgain, WakeReader, AckDue, ReadAcked, MaintAcked, MaintStops,
           IdleTimeout, RecvLoopEnds, CloseSend, CloseLoops, CloseReturns, Crash, Reap, send
<1>3. Counters /\ log \in [End -> Seq(Frame)]
    BY FlowTypes DEF IInv
<1>4. lastAckSent' \in [End -> Nat]
    BY <1>2, <1>3 DEF Counters
<1>5. FlowTypeOK'
    BY <1>1, <1>3, <1>4 DEF FlowTypeOK, Counters, Frame
<1> QED BY <1>1, <1>5, Irrelevant DEF IInv

\* Every step preserves the invariant.
LEMMA StepIInv ==
    ASSUME IInv, [Next]_vars
    PROVE  IInv' /\ \A d \in End : peerAck'[d] >= peerAck[d]
<1>0. \A d \in End : peerAck[d] \in Nat
    BY FlowTypes DEF IInv, Counters
<1>1. ASSUME NEW e \in End, Write(e)
      PROVE  IInv' /\ UNCHANGED peerAck
    <2>1. UNCHANGED peerAck
        BY <1>1 DEF Write, CheckWindow, WakeWriter, EmitData, send
    <2> QED BY <1>1, <2>1, WindowChecked, WriterWoken, DataEmitted DEF Write
<1>2. ASSUME NEW e \in End, Read(e) \/ ReadAgain(e)
      PROVE  IInv' /\ UNCHANGED peerAck
    <2>1. CASE \E n \in 1..recvBuf[e] : ReadSome(e, n)
        BY <2>1, SomeRead DEF ReadSome, send
    <2>2. CASE ReadAck(e)
        BY <2>2, ControlEmitted DEF ReadAck, send
    <2>3. CASE ReadNone(e) \/ ReadAgain(e) \/ WakeReader(e) \/ AckDue(e) \/ ReadAcked(e)
        BY <2>3, OthersStep
    <2> QED BY <1>2, <2>1, <2>2, <2>3 DEF Read
<1>3. ASSUME NEW e \in End, maintLoop(e)
      PROVE  IInv' /\ UNCHANGED peerAck
    <2>1. CASE MaintTick(e)
        BY <2>1, MaintTicked DEF MaintTick, send
    <2>2. CASE MaintAck(e)
        BY <2>2, ControlEmitted DEF MaintAck, send
    <2>3. CASE MaintAcked(e) \/ MaintStops(e) \/ IdleTimeout(e)
        BY <2>3, OthersStep
    <2> QED BY <1>3, <2>1, <2>2, <2>3 DEF maintLoop
<1>4. ASSUME NEW e \in End, recvLoop(e)
      PROVE  IInv' /\ \A d \in End : peerAck'[d] >= peerAck[d]
    <2>1. CASE DispatchData(e)
        <3>1. UNCHANGED peerAck
            BY <2>1 DEF DispatchData, send
        <3> QED BY <1>0, <2>1, <3>1, DataDispatched, SMT
    <2>2. CASE DispatchFin(e)
        <3>1. UNCHANGED peerAck
            BY <2>2 DEF DispatchFin, send
        <3> QED BY <1>0, <2>2, <3>1, FinDispatched, SMT
    <2>3. CASE DispatchAck(e)
        BY <2>3, AckDispatched
    <2>4. CASE RecvLoopEnds(e)
        BY <1>0, <2>4, OthersStep, SMT
    <2> QED BY <1>4, <2>1, <2>2, <2>3, <2>4 DEF recvLoop
<1>5. ASSUME NEW e \in End, CloseFin(e) \/ Close(e) \/ Crash(e)
      PROVE  IInv' /\ UNCHANGED peerAck
    <2>1. CASE CloseFin(e)
        BY <2>1, ControlEmitted DEF CloseFin, send
    <2>2. CASE Close(e) \/ Crash(e)
        BY <2>2, OthersStep DEF Close
    <2> QED BY <1>5, <2>1, <2>2
<1>6. CASE Reap
    BY <1>0, <1>6, OthersStep, SMT DEF End
<1>7. CASE UNCHANGED vars
    <2>1. UNCHANGED <<log, sentData, peerAck, lastAckSent, recvBuf, recvData, wpc, left, room,
                      rd, mrd>>
        BY <1>7 DEF vars, send, recv, write, read, maint
    <2>2. FlowTypeOK'
        BY <2>1 DEF IInv, FlowTypeOK
    <2> QED BY <1>0, <2>1, <2>2, Irrelevant, SMT DEF IInv
<1> QED BY <1>0, <1>1, <1>2, <1>3, <1>4, <1>5, <1>6, <1>7, SMT DEF Next, Running

-----------------------------------------------------------------------------
\* The invariant holds throughout.
THEOREM Invariance == Spec => []IInv
<1>1. IInv /\ [Next]_vars => IInv'
    BY StepIInv
<1> QED BY InitIInv, <1>1, PTL DEF Spec

\* Whatever the windows, the frame size and the order of ACKs: never more than a
\* window of bytes is written that the peer's application has not read.
THEOREM WindowHolds == Spec => []WindowKept
<1>1. IInv => WindowKept
    <2> SUFFICES ASSUME IInv, NEW e \in End
                 PROVE  sentData[e] - recvData[peer(e)] <= Window[e]
        BY DEF WindowKept
    <2>1. /\ sentData[e] \in Nat /\ peerAck[e] \in Nat /\ recvData[peer(e)] \in Nat
          /\ Window[e] \in Nat
        BY FlowTypes, Peers, ConnOK DEF IInv, Counters
    <2>2. sentData[e] - peerAck[e] <= Window[e]
        BY DEF IInv, RoomSound
    <2>3. peerAck[peer(peer(e))] <= recvData[peer(e)]
        BY Peers DEF IInv, AcksSound
    <2> QED BY <2>1, <2>2, <2>3, Peers, SMT
<1> QED BY Invariance, <1>1, PTL

\* The writer never takes more for read than was, nor is more read than written.
THEOREM AcksAreReads == Spec => []AckedWasRead
<1>1. IInv => AckedWasRead
    <2> SUFFICES ASSUME IInv, NEW e \in End
                 PROVE  /\ peerAck[e] <= recvData[peer(e)]
                        /\ recvData[peer(e)] <= sentData[e]
        BY DEF AckedWasRead
    <2>1. sentData[e] \in Nat /\ recvData[peer(e)] \in Nat /\ recvBuf[peer(e)] \in Nat
        BY FlowTypes, Peers DEF IInv, Counters
    <2>2. recvData[peer(e)] + recvBuf[peer(e)] <= sentData[e]
        BY DEF IInv, DataSound
    <2>3. peerAck[peer(peer(e))] <= recvData[peer(e)]
        BY Peers DEF IInv, AcksSound
    <2> QED BY <2>1, <2>2, <2>3, Peers, SMT
<1> QED BY Invariance, <1>1, PTL

\* An ACK that was overtaken takes nothing back.
THEOREM AcksNeverFall == Spec => AckNeverFalls
<1>1. IInv /\ [Next]_vars => [\A e \in End : peerAck'[e] >= peerAck[e]]_vars
    BY StepIInv
<1> QED BY Invariance, <1>1, PTL DEF Spec, AckNeverFalls

-----------------------------------------------------------------------------
(* Nobody sleeps through what it waits for *)

SignalTypes ==
    /\ dataSig \in [End -> BOOLEAN] /\ flowSig \in [End -> BOOLEAN]
    /\ recvEOF \in [End -> BOOLEAN] /\ recvErr \in [End -> BOOLEAN]
    /\ sendClosed \in [End -> BOOLEAN] /\ closed \in [End -> BOOLEAN]
    /\ DOMAIN rpc = End /\ DOMAIN mpc = End /\ DOMAIN cpc = End

\* What a Read that sleeps has not seen is signalled; so is what a Write has not.
ReaderSleeps(e) ==
    rpc[e] = "sleep" /\ ~dataSig[e] => recvBuf[e] = 0 /\ ~recvEOF[e] /\ ~recvErr[e]

WriterSleeps(e) ==
    wpc[e] = "sleep" /\ ~flowSig[e] => sentData[e] - peerAck[e] >= Window[e] /\ ~recvErr[e]

\* Close tells the loops right after it has closed the send side.
CloseOrder == \A e \in End : sendClosed[e] => closed[e] \/ cpc[e] = "send"

SleepInv ==
    /\ SignalTypes /\ CloseOrder
    /\ \A e \in End : ReaderSleeps(e) /\ WriterSleeps(e)

\* Nobody sleeps and nothing is closed at first.
LEMMA SleepInit == Init => SleepInv
<1> SUFFICES ASSUME Init PROVE SleepInv
    OBVIOUS
<1>1. SignalTypes /\ CloseOrder
    BY DEF Init, SignalTypes, CloseOrder
<1>2. \A e \in End : rpc[e] # "sleep" /\ wpc[e] # "sleep"
    BY DEF Init
<1> QED BY <1>1, <1>2 DEF SleepInv, ReaderSleeps, WriterSleeps

\* What a step does to a sleeper at end d. Whoever changes what it waits for
\* signals; whoever takes the signal is awake.
ReaderTold(d) ==
    \/ dataSig'[d] \/ rpc'[d] # "sleep"
    \/ /\ rpc'[d] = rpc[d] /\ dataSig'[d] = dataSig[d] /\ recvBuf'[d] = recvBuf[d]
       /\ recvEOF'[d] = recvEOF[d] /\ recvErr'[d] = recvErr[d]
    \/ recvBuf'[d] = 0 /\ ~recvEOF'[d] /\ ~recvErr'[d]

WriterTold(d) ==
    \/ flowSig'[d] \/ wpc'[d] # "sleep"
    \/ /\ wpc'[d] = wpc[d] /\ flowSig'[d] = flowSig[d] /\ recvErr'[d] = recvErr[d]
       /\ sentData'[d] = sentData[d] /\ peerAck'[d] = peerAck[d]
    \/ sentData'[d] - peerAck'[d] >= Window[d] /\ ~recvErr'[d]

Told == SignalTypes' /\ CloseOrder' /\ \A d \in End : ReaderTold(d) /\ WriterTold(d)

\* That is enough.
LEMMA ToldIsEnough ==
    ASSUME SleepInv, Told
    PROVE  SleepInv'
BY DEF SleepInv, Told, ReaderTold, WriterTold, ReaderSleeps, WriterSleeps

\* A Write goes to sleep only after it has seen that there is no room.
LEMMA WriteTells ==
    ASSUME IInv, SleepInv, NEW e \in End, Write(e)
    PROVE  Told
<1>0. Counters
    BY FlowTypes DEF IInv
<1>1. UNCHANGED <<recv, dataSig, chans, read, maint, cpc, sendClosed, peerAck>>
    BY DEF Write, CheckWindow, WakeWriter, EmitData, sigs, send
<1>2. flowSig' \in [End -> BOOLEAN]
    BY DEF Write, CheckWindow, WakeWriter, EmitData, sigs, SleepInv, SignalTypes
<1>3. \A d \in End : d # e => /\ wpc'[d] = wpc[d] /\ flowSig'[d] = flowSig[d]
                              /\ sentData'[d] = sentData[d]
    BY <1>0 DEF Write, CheckWindow, WakeWriter, EmitData, sigs, send, Counters, SleepInv,
                       SignalTypes
<1>4. WriterTold(e)
    <2>1. CASE CheckWindow(e)
        <3>1. /\ sentData' = sentData /\ peerAck' = peerAck /\ recvErr' = recvErr
              /\ wpc'[e] = IF recvErr[e] \/ sendClosed[e] THEN "failed"
                           ELSE IF Window[e] - (sentData[e] - peerAck[e]) > 0 THEN "emit" ELSE "sleep"
            BY <1>0, <2>1 DEF CheckWindow, send, recv, Counters
        <3>2. Window[e] \in Nat /\ sentData[e] \in Nat /\ peerAck[e] \in Nat
            BY <1>0, ConnOK DEF Counters
        <3>3. wpc'[e] = "sleep" => /\ ~recvErr[e]
                                   /\ ~(Window[e] - (sentData[e] - peerAck[e]) > 0)
            BY <3>1
        <3>4. wpc'[e] = "sleep" => sentData[e] - peerAck[e] >= Window[e]
            BY <3>2, <3>3, SMT
        <3> QED BY <3>1, <3>3, <3>4 DEF WriterTold
    <2>2. CASE WakeWriter(e) \/ EmitData(e)
        <3>1. wpc'[e] \in {"check", "failed", "returned"}
            BY <1>0, <2>2 DEF WakeWriter, EmitData, Counters
        <3> QED BY <3>1 DEF WriterTold
    <2> QED BY <2>1, <2>2 DEF Write
<1>5. SignalTypes' /\ CloseOrder'
    BY <1>1, <1>2 DEF SleepInv, SignalTypes, CloseOrder, recv, chans, read, maint
<1>6. \A d \in End : ReaderTold(d) /\ WriterTold(d)
    BY <1>1, <1>3, <1>4 DEF ReaderTold, WriterTold, recv, read
<1> QED BY <1>5, <1>6 DEF Told

\* A Read goes to sleep only after it has seen that there is nothing.
LEMMA ReadTells ==
    ASSUME IInv, SleepInv, NEW e \in End, Read(e) \/ ReadAgain(e)
    PROVE  Told
<1>0. Counters
    BY FlowTypes DEF IInv
<1>1. /\ UNCHANGED <<sentData, peerAck, sendClosed, recvEOF, recvErr, flowSig, chans, write>>
      /\ UNCHANGED <<maint, cpc>>
    BY DEF Read, ReadAgain, ReadSome, ReadNone, WakeReader, AckDue, ReadAck, ReadAcked, send,
                 recv, sigs
<1>2. dataSig' \in [End -> BOOLEAN] /\ DOMAIN rpc' = End
    BY DEF Read, ReadAgain, ReadSome, ReadNone, WakeReader, AckDue, ReadAck, ReadAcked, sigs,
                 SleepInv, SignalTypes
<1>3. \A d \in End : d # e => /\ rpc'[d] = rpc[d] /\ dataSig'[d] = dataSig[d]
                              /\ recvBuf'[d] = recvBuf[d]
    BY <1>0 DEF Read, ReadAgain, ReadSome, ReadNone, WakeReader, AckDue, ReadAck, ReadAcked,
                       recv, sigs, Counters, SleepInv, SignalTypes
<1>4. ReaderTold(e)
    <2>1. CASE ReadNone(e)
        <3>1. /\ recvBuf[e] = 0 /\ recvBuf' = recvBuf
              /\ rpc'[e] = IF recvErr[e] THEN "failed" ELSE IF recvEOF[e] THEN "eof" ELSE "sleep"
            BY <2>1 DEF ReadNone, recv, SleepInv, SignalTypes
        <3>2. rpc'[e] = "sleep" => ~recvErr[e] /\ ~recvEOF[e]
            BY <3>1
        <3> QED BY <1>1, <3>1, <3>2 DEF ReaderTold
    <2>2. CASE ~ReadNone(e)
        <3>1. rpc'[e] \in {"due", "check", "failed", "ack", "acked"}
            BY <2>2 DEF Read, ReadAgain, ReadSome, WakeReader, AckDue, ReadAck, ReadAcked,
                               SleepInv, SignalTypes
        <3> QED BY <3>1 DEF ReaderTold
    <2> QED BY <2>1, <2>2
<1>5. SignalTypes' /\ CloseOrder'
    BY <1>1, <1>2 DEF SleepInv, SignalTypes, CloseOrder, chans, maint
<1>6. \A d \in End : ReaderTold(d) /\ WriterTold(d)
    BY <1>1, <1>3, <1>4 DEF ReaderTold, WriterTold, write
<1> QED BY <1>5, <1>6 DEF Told

\* The loops signal whatever they change.
LEMMA LoopsTell ==
    ASSUME IInv, SleepInv, NEW e \in End, maintLoop(e) \/ recvLoop(e)
    PROVE  Told
<1>1. /\ UNCHANGED <<sentData, sendClosed, closed, write, read, cpc>>
      /\ DOMAIN mpc' = End
    BY DEF maintLoop, MaintTick, MaintAck, MaintAcked, MaintStops, IdleTimeout, recvLoop,
                 DispatchData, DispatchAck, DispatchFin, Receives, RecvLoopEnds, send, chans, maint,
                 SleepInv, SignalTypes
<1>2. CASE MaintTick(e) \/ MaintAck(e) \/ MaintAcked(e) \/ MaintStops(e) \/ RecvLoopEnds(e)
    <2>1. UNCHANGED <<recv, sigs, peerAck>>
        BY <1>2 DEF MaintTick, MaintAck, MaintAcked, MaintStops, RecvLoopEnds, send
    <2>2. SignalTypes' /\ CloseOrder'
        BY <1>1, <2>1 DEF SleepInv, SignalTypes, CloseOrder, recv, sigs, read
    <2> QED BY <1>1, <2>1, <2>2 DEF Told, ReaderTold, WriterTold, recv, sigs, read, write
<1>3. CASE IdleTimeout(e)
    <2>1. /\ UNCHANGED <<peerAck, recvBuf, recvEOF>>
          /\ recvErr' \in [End -> BOOLEAN] /\ dataSig' \in [End -> BOOLEAN]
          /\ flowSig' \in [End -> BOOLEAN] /\ dataSig'[e] /\ flowSig'[e]
          /\ \A d \in End : d # e => /\ recvErr'[d] = recvErr[d] /\ dataSig'[d] = dataSig[d]
                                     /\ flowSig'[d] = flowSig[d]
        BY <1>3 DEF IdleTimeout, send, SleepInv, SignalTypes
    <2>2. SignalTypes' /\ CloseOrder'
        BY <1>1, <2>1 DEF SleepInv, SignalTypes, CloseOrder, read
    <2> QED BY <1>1, <2>1, <2>2 DEF Told, ReaderTold, WriterTold, read, write
<1>4. CASE DispatchData(e) \/ DispatchFin(e)
    <2>1. UNCHANGED <<peerAck, recvErr, flowSig>>
        BY <1>4 DEF DispatchData, DispatchFin, send
    <2>2. /\ dataSig' \in [End -> BOOLEAN] /\ recvEOF' \in [End -> BOOLEAN] /\ dataSig'[e]
          /\ \A d \in End : d # e => dataSig'[d] = dataSig[d] /\ recvEOF'[d] = recvEOF[d]
        BY <1>4 DEF DispatchData, DispatchFin, SleepInv, SignalTypes
    <2>3. \A d \in End : d # e => recvBuf'[d] = recvBuf[d]
        BY <1>4, FlowTypes DEF DispatchData, DispatchFin, IInv, Counters
    <2>4. SignalTypes' /\ CloseOrder'
        BY <1>1, <2>1, <2>2 DEF SleepInv, SignalTypes, CloseOrder, read
    <2> QED BY <1>1, <2>1, <2>2, <2>3, <2>4 DEF Told, ReaderTold, WriterTold, read, write
<1>5. CASE DispatchAck(e)
    <2>1. UNCHANGED <<recv, dataSig>>
        BY <1>5 DEF DispatchAck
    <2>2. /\ flowSig' \in [End -> BOOLEAN] /\ flowSig'[e]
          /\ \A d \in End : d # e => flowSig'[d] = flowSig[d]
        BY <1>5 DEF DispatchAck, SleepInv, SignalTypes
    <2>3. \A d \in End : d # e => peerAck'[d] = peerAck[d]
        BY <1>5, FlowTypes DEF DispatchAck, IInv, Counters
    <2>4. SignalTypes' /\ CloseOrder'
        BY <1>1, <2>1, <2>2 DEF SleepInv, SignalTypes, CloseOrder, read, recv
    <2> QED BY <1>1, <2>1, <2>2, <2>3, <2>4
            DEF Told, ReaderTold, WriterTold, read, write, recv
<1> QED BY <1>2, <1>3, <1>4, <1>5 DEF maintLoop, recvLoop

\* Close does not touch what a Read or a Write waits for.
LEMMA CloseTells ==
    ASSUME SleepInv, NEW e \in End,
           CloseFin(e) \/ Close(e) \/ Crash(e) \/ Reap \/ UNCHANGED vars
    PROVE  Told
<1>1. UNCHANGED <<sentData, peerAck, recv, sigs, write, read, maint>>
    BY DEF CloseFin, Close, CloseSend, CloseLoops, CloseReturns, Crash, Reap, vars, send
<1>2. \A d \in End : ReaderTold(d) /\ WriterTold(d)
    BY <1>1 DEF ReaderTold, WriterTold, recv, sigs, write, read
<1>3. /\ sendClosed' \in [End -> BOOLEAN] /\ closed' \in [End -> BOOLEAN] /\ DOMAIN cpc' = End
      /\ CloseOrder'
    <2>1. CASE CloseSend(e)
        <3>1. /\ sendClosed' = [sendClosed EXCEPT ![e] = TRUE] /\ cpc' = [cpc EXCEPT ![e] = "send"]
              /\ closed' = closed
            BY <2>1 DEF CloseSend, chans
        <3> QED BY <3>1 DEF SleepInv, SignalTypes, CloseOrder
    <2>2. CASE CloseLoops(e)
        <3>1. /\ closed' = [closed EXCEPT ![e] = TRUE] /\ cpc' = [cpc EXCEPT ![e] = "wait"]
              /\ sendClosed' = sendClosed
            BY <2>2 DEF CloseLoops, send
        <3> QED BY <3>1 DEF SleepInv, SignalTypes, CloseOrder
    <2>3. CASE CloseFin(e) \/ CloseReturns(e)
        <3>1. /\ cpc[e] # "send" /\ UNCHANGED <<sendClosed, closed>>
              /\ \E s : cpc' = [cpc EXCEPT ![e] = s]
            BY <2>3 DEF CloseFin, CloseReturns, send, chans
        <3> QED BY <3>1 DEF SleepInv, SignalTypes, CloseOrder
    <2>4. CASE Crash(e) \/ Reap \/ UNCHANGED vars
        <3>1. UNCHANGED <<sendClosed, closed, cpc>>
            BY <2>4 DEF Crash, Reap, vars, send, chans
        <3> QED BY <3>1 DEF SleepInv, SignalTypes, CloseOrder
    <2> QED BY <2>1, <2>2, <2>3, <2>4 DEF Close
<1> QED BY <1>1, <1>2, <1>3 DEF Told, SleepInv, SignalTypes, recv, sigs, read, maint

\* Every step preserves the invariant.
LEMMA SleepStep ==
    ASSUME IInv, SleepInv, [Next]_vars
    PROVE  SleepInv'
<1>1. Told
    BY WriteTells, ReadTells, LoopsTell, CloseTells DEF Next, Running, End
<1> QED BY <1>1, ToldIsEnough

\* However the goroutines of both ends interleave, a Read or Write that sleeps has
\* nothing to wake up for, or is signalled, or is being closed.
THEOREM WakeupsAreNotLost == Spec => []NoLostWakeup
<1>1. SleepInv => NoLostWakeup
    BY DEF SleepInv, NoLostWakeup, ReaderSleeps, WriterSleeps, CloseOrder
<1>2. IInv /\ SleepInv /\ [Next]_vars => SleepInv'
    BY SleepStep
<1> QED BY SleepInit, Invariance, <1>1, <1>2, PTL DEF Spec

-----------------------------------------------------------------------------
(* What a writer out of room waits for is on its way *)

\* An ACK of v is in the log s, or was taken by a writer that is at a.
AckIn(s, a, v) == v <= a \/ \E i \in 1..Len(s) : s[i].t = "ACK" /\ s[i].v >= v

\* Byte n is in a DATA frame of the log s.
Covers(f, n) == f.t = "DATA" /\ f.off <= n /\ n < f.off + f.v

DataIn(s, n) == \E i \in 1..Len(s) : Covers(s[i], n)

\* What counts as acknowledged, or is about to, has been sent and not been lost.
AcksArrive ==
    \A e \in End :
        /\ AckIn(log[e], peerAck[peer(e)], lastAckSent[e])
        /\ rpc[e] = "acked" => AckIn(log[e], peerAck[peer(e)], rd[e])
        /\ mpc[e] = "acked" => AckIn(log[e], peerAck[peer(e)], mrd[e])

\* Every byte sent has arrived or is in the log.
StreamWhole ==
    \A e \in End, n \in Nat :
        recvData[peer(e)] + recvBuf[peer(e)] <= n /\ n < sentData[e] => DataIn(log[e], n)

UnderwayInv == AcksArrive /\ StreamWhole

\* A longer log has all that it had, and the new frame.
LEMMA LongerLog ==
    ASSUME NEW s \in Seq(Frame), NEW f \in Frame, NEW a \in Nat, NEW v \in Nat
    PROVE  /\ AckIn(s, a, v) => AckIn(Append(s, f), a, v)
           /\ f.t = "ACK" /\ f.v >= v => AckIn(Append(s, f), a, v)
           /\ DataIn(s, v) => DataIn(Append(s, f), v)
           /\ Covers(f, v) => DataIn(Append(s, f), v)
<1> DEFINE t == Append(s, f)
<1>1. /\ Len(s) \in Nat /\ Len(t) = Len(s) + 1 /\ t[Len(s) + 1] = f
      /\ \A i \in 1..Len(s) : t[i] = s[i]
    BY Appended
<1> HIDE DEF t
<1>2. Len(s) + 1 \in 1..Len(t) /\ \A i \in 1..Len(s) : i \in 1..Len(t)
    BY <1>1, SMT
<1>3. AckIn(s, a, v) => AckIn(t, a, v)
    BY <1>1, <1>2 DEF AckIn
<1>4. f.t = "ACK" /\ f.v >= v => AckIn(t, a, v)
    BY <1>1, <1>2 DEF AckIn
<1>5. (DataIn(s, v) => DataIn(t, v)) /\ (Covers(f, v) => DataIn(t, v))
    BY <1>1, <1>2 DEF DataIn
<1> QED BY <1>3, <1>4, <1>5 DEF t

\* A log without its first frame has all but that.
LEMMA ShorterLog ==
    ASSUME NEW s \in Seq(Frame), s # <<>>, NEW a \in Nat, NEW v \in Nat
    PROVE  /\ AckIn(s, a, v) /\ ~(Head(s).t = "ACK" /\ Head(s).v >= v) => AckIn(Tail(s), a, v)
           /\ DataIn(s, v) /\ ~Covers(Head(s), v) => DataIn(Tail(s), v)
<1> DEFINE t == Tail(s)
<1>1. /\ Head(s) = s[1] /\ Len(s) \in Nat \ {0} /\ Len(t) = Len(s) - 1
      /\ \A i \in 1..Len(t) : t[i] = s[i + 1]
    BY Popped
<1> HIDE DEF t
<1>2. ASSUME NEW i \in 1..Len(s), i # 1
      PROVE  i - 1 \in 1..Len(t) /\ t[i - 1] = s[i]
    <2>1. i \in Nat /\ i - 1 \in 1..Len(t) /\ (i - 1) + 1 = i
        BY <1>1, <1>2, SMT
    <2> QED BY <1>1, <2>1
<1>3. AckIn(s, a, v) /\ ~(Head(s).t = "ACK" /\ Head(s).v >= v) => AckIn(t, a, v)
    BY <1>1, <1>2 DEF AckIn
<1>4. DataIn(s, v) /\ ~Covers(Head(s), v) => DataIn(t, v)
    BY <1>1, <1>2 DEF DataIn
<1> QED BY <1>3, <1>4 DEF t

\* Nothing was sent at first.
LEMMA UnderwayInit == Init => UnderwayInv
<1> SUFFICES ASSUME Init PROVE UnderwayInv
    OBVIOUS
<1>1. \A e \in End : /\ lastAckSent[e] = 0 /\ peerAck[peer(e)] = 0 /\ sentData[e] = 0
                     /\ rpc[e] = "check" /\ mpc[e] = "wait"
    BY Peers DEF Init
<1>2. AcksArrive
    <2>1. \A e \in End : lastAckSent[e] <= peerAck[peer(e)]
        BY <1>1, SMT
    <2> QED BY <1>1, <2>1 DEF AcksArrive, AckIn
<1>3. StreamWhole
    <2>1. \A e \in End, n \in Nat : ~(n < sentData[e])
        BY <1>1, SMT
    <2> QED BY <2>1 DEF StreamWhole
<1> QED BY <1>2, <1>3 DEF UnderwayInv

\* What a step does to the log of e: nothing, a frame more, or the first frame
\* goes to the recvLoop of its peer.
LEMMA LogSteps ==
    ASSUME IInv, [Next]_vars, NEW e \in End
    PROVE  \/ log'[e] = log[e]
           \/ \E f \in Frame : log'[e] = Append(log[e], f)
           \/ /\ log[e] # <<>> /\ log'[e] = Tail(log[e])
              /\ DispatchData(peer(e)) \/ DispatchAck(peer(e)) \/ DispatchFin(peer(e))
<1> DEFINE P == \/ log'[e] = log[e]
                \/ \E f \in Frame : log'[e] = Append(log[e], f)
                \/ /\ log[e] # <<>> /\ log'[e] = Tail(log[e])
                   /\ DispatchData(peer(e)) \/ DispatchAck(peer(e)) \/ DispatchFin(peer(e))
<1>0. Counters /\ log \in [End -> Seq(Frame)]
    BY FlowTypes DEF IInv
<1>1. ASSUME NEW d \in End, NEW f \in Frame, log' = [log EXCEPT ![d] = Append(@, f)]
      PROVE  P
    BY <1>0, <1>1
<1>2. ASSUME NEW d \in End, DispatchData(d) \/ DispatchAck(d) \/ DispatchFin(d) PROVE P
    <2>1. log[peer(d)] # <<>> /\ log' = [log EXCEPT ![peer(d)] = Tail(@)]
        BY <1>2 DEF DispatchData, DispatchAck, DispatchFin, Receives, Readable, Pop
    <2>2. CASE e = peer(d)
        <3>1. peer(e) = d
            BY <2>2, Peers
        <3> QED BY <1>0, <1>2, <2>1, <2>2, <3>1
    <2>3. CASE e # peer(d)
        BY <1>0, <2>1, <2>3
    <2> QED BY <2>2, <2>3
<1>3. ASSUME NEW d \in End, ReadAck(d) \/ MaintAck(d) \/ CloseFin(d) \/ EmitData(d) PROVE P
    <2>1. /\ Ack(sentData[d], rd[d]) \in Frame /\ Ack(sentData[d], mrd[d]) \in Frame
          /\ FIN(sentData[d]) \in Frame
        BY <1>0 DEF Counters, Ack, FIN, Frame
    <2>2. CASE EmitData(d)
        <3>1. chunk(d) \in Nat
            <4>1. wpc[d] = "emit" /\ room[d] > 0
                BY <2>2 DEF EmitData, IInv, RoomSound
            <4>2. left[d] \in Nat /\ room[d] \in Int /\ maxFrame \in Nat
                BY <1>0, ConnOK DEF Counters
            <4> QED BY <4>1, <4>2, SMT DEF chunk, minimum
        <3>2. Data(sentData[d], chunk(d)) \in Frame
            BY <1>0, <3>1 DEF Counters, Data, Frame
        <3>3. log' = log \/ log' = [log EXCEPT ![d] = Append(@, Data(sentData[d], chunk(d)))]
            BY <2>2 DEF EmitData
        <3> QED BY <1>1, <3>2, <3>3
    <2>3. CASE ReadAck(d) \/ MaintAck(d) \/ CloseFin(d)
        <3>1. \/ log' = log
              \/ log' = [log EXCEPT ![d] = Append(@, Ack(sentData[d], rd[d]))]
              \/ log' = [log EXCEPT ![d] = Append(@, Ack(sentData[d], mrd[d]))]
              \/ log' = [log EXCEPT ![d] = Append(@, FIN(sentData[d]))]
            BY <2>3 DEF ReadAck, MaintAck, CloseFin, emit
        <3> QED BY <1>1, <2>1, <3>1
    <2> QED BY <1>3, <2>2, <2>3
<1>4. ASSUME UNCHANGED log PROVE P
    BY <1>4
<1>5. \/ UNCHANGED log
      \/ \E d \in End : \/ DispatchData(d) \/ DispatchAck(d) \/ DispatchFin(d)
                        \/ ReadAck(d) \/ MaintAck(d) \/ CloseFin(d) \/ EmitData(d)
    BY DEF Next, Running, Write, Read, maintLoop, recvLoop, Close, CheckWindow, WakeWriter,
                 ReadSome, ReadNone, ReadAgain, WakeReader, AckDue, ReadAcked, MaintTick,
                 MaintAcked, MaintStops, IdleTimeout, RecvLoopEnds, CloseSend, CloseLoops,
                 CloseReturns, Crash, Reap, vars
<1> QED BY <1>2, <1>3, <1>4, <1>5

\* An ACK that was sent is in the log until the writer has taken it.
LEMMA AckStays ==
    ASSUME IInv, [Next]_vars, NEW e \in End, NEW v \in Nat,
           AckIn(log[e], peerAck[peer(e)], v)
    PROVE  AckIn(log'[e], peerAck'[peer(e)], v)
<1> DEFINE p == peer(e)
<1>1. p \in End /\ log[e] \in Seq(Frame) /\ peerAck[p] \in Nat
    BY Peers, FlowTypes DEF IInv, Counters
<1>2. peerAck'[p] \in Nat /\ peerAck'[p] >= peerAck[p]
    BY <1>1, StepIInv DEF IInv, FlowTypeOK
<1>3. ASSUME NEW s, AckIn(s, peerAck[p], v) PROVE AckIn(s, peerAck'[p], v)
    <2>1. v <= peerAck[p] => v <= peerAck'[p]
        BY <1>1, <1>2, SMT
    <2> QED BY <1>3, <2>1 DEF AckIn
<1>4. CASE log'[e] = log[e]
    BY <1>3, <1>4
<1>5. ASSUME NEW f \in Frame, log'[e] = Append(log[e], f)
      PROVE  AckIn(log'[e], peerAck'[p], v)
    <2>1. AckIn(log'[e], peerAck[p], v)
        BY <1>1, <1>5, LongerLog
    <2> QED BY <1>3, <2>1
<1>6. CASE /\ log[e] # <<>> /\ log'[e] = Tail(log[e])
           /\ DispatchData(p) \/ DispatchAck(p) \/ DispatchFin(p)
    <2>1. CASE Head(log[e]).t = "ACK" /\ Head(log[e]).v >= v
        <3>1. DispatchAck(p)
            BY <1>6, <2>1, Peers DEF DispatchData, DispatchFin, Receives
        <3>2. peerAck'[p] = newAck(peerAck[p], Head(log[e]).v)
            BY <1>1, <3>1, Peers, FlowTypes DEF DispatchAck, IInv, Counters
        <3>3. Head(log[e]).v \in Nat
            BY <1>1, <1>6, Popped DEF Frame
        <3>4. peerAck'[p] >= v
            BY <1>1, <2>1, <3>2, <3>3, SMT DEF newAck
        <3>5. v <= peerAck'[p]
            BY <1>2, <3>4
        <3> QED BY <3>5 DEF AckIn
    <2>2. CASE ~(Head(log[e]).t = "ACK" /\ Head(log[e]).v >= v)
        <3>1. log[e] # <<>> /\ log'[e] = Tail(log[e])
            BY <1>6
        <3>2. AckIn(Tail(log[e]), peerAck[p], v)
            BY <1>1, <2>2, <3>1, ShorterLog
        <3> QED BY <1>3, <3>1, <3>2
    <2> QED BY <2>1, <2>2
<1> QED BY <1>4, <1>5, <1>6, LogSteps

\* lastAckSent is only raised to an ACK that was sent.
LEMMA LastAckSteps ==
    ASSUME IInv, SleepInv, [Next]_vars, NEW d \in End
    PROVE  /\ \/ lastAckSent'[d] = lastAckSent[d]
              \/ rpc[d] = "acked" /\ lastAckSent'[d] = rd[d]
              \/ mpc[d] = "acked" /\ lastAckSent'[d] = mrd[d]
           /\ rpc'[d] = "acked" =>
                 \/ rpc[d] = "acked" /\ rd'[d] = rd[d]
                 \/ rd'[d] = rd[d] /\ log'[d] = Append(log[d], Ack(sentData[d], rd[d]))
           /\ mpc'[d] = "acked" =>
                 \/ mpc[d] = "acked" /\ mrd'[d] = mrd[d]
                 \/ mrd'[d] = mrd[d] /\ log'[d] = Append(log[d], Ack(sentData[d], mrd[d]))
<1> DEFINE L == \/ lastAckSent'[d] = lastAckSent[d]
                \/ rpc[d] = "acked" /\ lastAckSent'[d] = rd[d]
                \/ mpc[d] = "acked" /\ lastAckSent'[d] = mrd[d]
           A == rpc'[d] = "acked" =>
                   \/ rpc[d] = "acked" /\ rd'[d] = rd[d]
                   \/ rd'[d] = rd[d] /\ log'[d] = Append(log[d], Ack(sentData[d], rd[d]))
           M == mpc'[d] = "acked" =>
                   \/ mpc[d] = "acked" /\ mrd'[d] = mrd[d]
                   \/ mrd'[d] = mrd[d] /\ log'[d] = Append(log[d], Ack(sentData[d], mrd[d]))
<1>0. /\ Counters /\ log \in [End -> Seq(Frame)] /\ DOMAIN rpc = End /\ DOMAIN mpc = End
      /\ sendClosed \in [End -> BOOLEAN]
    BY FlowTypes DEF IInv, SleepInv, SignalTypes
<1>1. ASSUME NEW e \in End, Read(e) \/ ReadAgain(e) PROVE L /\ A /\ M
    <2>1. UNCHANGED <<mpc, mrd>>
        BY <1>1 DEF Read, ReadAgain, ReadSome, ReadNone, WakeReader, AckDue, ReadAck,
                           ReadAcked, maint
    <2>2. L
        BY <1>0, <1>1 DEF Read, ReadAgain, ReadSome, ReadNone, WakeReader, AckDue, ReadAck,
                                 ReadAcked, send, Counters
    <2>3. CASE d # e
        <3>1. rpc'[d] = rpc[d] /\ rd'[d] = rd[d]
            BY <1>0, <1>1, <2>3 DEF Read, ReadAgain, ReadSome, ReadNone, WakeReader,
                                           AckDue, ReadAck, ReadAcked, Counters
        <3> QED BY <2>1, <2>2, <3>1
    <2>4. CASE d = e /\ ReadAck(e)
        <3>1. A
            BY <1>0, <2>4 DEF ReadAck, emit
        <3> QED BY <2>1, <2>2, <3>1
    <2>5. CASE d = e /\ ~ReadAck(e)
        <3>1. rpc'[d] # "acked"
            BY <1>0, <1>1, <2>5 DEF Read, ReadAgain, ReadSome, ReadNone, WakeReader,
                                           AckDue, ReadAcked
        <3> QED BY <2>1, <2>2, <3>1
    <2> QED BY <2>3, <2>4, <2>5
<1>2. ASSUME NEW e \in End, maintLoop(e) PROVE L /\ A /\ M
    <2>1. UNCHANGED <<rpc, rd>>
        BY <1>2 DEF maintLoop, MaintTick, MaintAck, MaintAcked, MaintStops, IdleTimeout, read
    <2>2. L
        BY <1>0, <1>2 DEF maintLoop, MaintTick, MaintAck, MaintAcked, MaintStops,
                                 IdleTimeout, send, Counters
    <2>3. CASE d # e
        <3>1. mpc'[d] = mpc[d] /\ mrd'[d] = mrd[d]
            BY <1>0, <1>2, <2>3 DEF maintLoop, MaintTick, MaintAck, MaintAcked, MaintStops,
                                           IdleTimeout, Counters
        <3> QED BY <2>1, <2>2, <3>1
    <2>4. CASE d = e /\ MaintAck(e)
        <3>1. M
            BY <1>0, <2>4 DEF MaintAck, emit
        <3> QED BY <2>1, <2>2, <3>1
    <2>5. CASE d = e /\ ~MaintAck(e)
        <3>1. mpc'[d] # "acked"
            BY <1>0, <1>2, <2>5 DEF maintLoop, MaintTick, MaintAcked, MaintStops, IdleTimeout
        <3> QED BY <2>1, <2>2, <3>1
    <2> QED BY <2>3, <2>4, <2>5
<1>3. ASSUME UNCHANGED <<lastAckSent, rpc, rd, mpc, mrd>> PROVE L /\ A /\ M
    BY <1>3
<1>4. \/ UNCHANGED <<lastAckSent, rpc, rd, mpc, mrd>>
      \/ \E e \in End : Read(e) \/ ReadAgain(e) \/ maintLoop(e)
    <2>1. \A e \in End : Write(e) \/ recvLoop(e) => UNCHANGED <<lastAckSent, rpc, rd, mpc, mrd>>
        BY DEF Write, CheckWindow, WakeWriter, EmitData, recvLoop, DispatchData, DispatchAck,
               DispatchFin, RecvLoopEnds, send, read, maint
    <2>2. \A e \in End : CloseFin(e) \/ Close(e) \/ Crash(e) =>
              UNCHANGED <<lastAckSent, rpc, rd, mpc, mrd>>
        BY DEF CloseFin, Close, CloseSend, CloseLoops, CloseReturns, Crash, send, read, maint
    <2>3. Reap \/ UNCHANGED vars => UNCHANGED <<lastAckSent, rpc, rd, mpc, mrd>>
        BY DEF Reap, vars, send, read, maint
    <2> QED BY <2>1, <2>2, <2>3 DEF Next, Running
<1> QED BY <1>1, <1>2, <1>3, <1>4

\* No ACK is lost between its sender's notes and the writer.
LEMMA AcksStep ==
    ASSUME IInv, SleepInv, AcksArrive, [Next]_vars
    PROVE  AcksArrive'
<1> SUFFICES ASSUME NEW d \in End
             PROVE  /\ AckIn(log'[d], peerAck'[peer(d)], lastAckSent'[d])
                    /\ rpc'[d] = "acked" => AckIn(log'[d], peerAck'[peer(d)], rd'[d])
                    /\ mpc'[d] = "acked" => AckIn(log'[d], peerAck'[peer(d)], mrd'[d])
    BY DEF AcksArrive
<1>1. /\ lastAckSent[d] \in Nat /\ rd[d] \in Nat /\ mrd[d] \in Nat /\ sentData[d] \in Nat
      /\ log[d] \in Seq(Frame)
    BY FlowTypes DEF IInv, Counters
<1>2. peerAck'[peer(d)] \in Nat
    BY StepIInv, Peers DEF IInv, FlowTypeOK
<1>3. \A v \in Nat : AckIn(log[d], peerAck[peer(d)], v) => AckIn(log'[d], peerAck'[peer(d)], v)
    BY AckStays
<1>4. ASSUME NEW v \in Nat, log'[d] = Append(log[d], Ack(sentData[d], v))
      PROVE  AckIn(log'[d], peerAck'[peer(d)], v)
    <2>1. Ack(sentData[d], v) \in Frame /\ Ack(sentData[d], v).t = "ACK"
          /\ Ack(sentData[d], v).v >= v
        BY <1>1, SMT DEF Ack, Frame
    <2> QED BY <1>1, <1>2, <1>4, <2>1, LongerLog
<1>5. /\ AckIn(log[d], peerAck[peer(d)], lastAckSent[d])
      /\ rpc[d] = "acked" => AckIn(log[d], peerAck[peer(d)], rd[d])
      /\ mpc[d] = "acked" => AckIn(log[d], peerAck[peer(d)], mrd[d])
    BY DEF AcksArrive
<1> QED BY <1>1, <1>3, <1>4, <1>5, LastAckSteps

\* What a step does to the stream from e.
LEMMA StreamSteps ==
    ASSUME IInv, [Next]_vars, NEW e \in End
    PROVE  \/ EmitData(e) /\ ~sendClosed[e]
           \/ DispatchData(peer(e))
           \/ /\ sentData'[e] = sentData[e]
              /\ recvData'[peer(e)] + recvBuf'[peer(e)] = recvData[peer(e)] + recvBuf[peer(e)]
<1>0. Counters /\ peer(e) \in End
    BY FlowTypes, Peers DEF IInv
<1>1. \/ UNCHANGED sentData
      \/ \E d \in End : EmitData(d) /\ ~sendClosed[d] /\ \E n : sentData' = [sentData EXCEPT ![d] = n]
    <2>1. \A d \in End : Write(d) =>
              \/ UNCHANGED sentData
              \/ EmitData(d) /\ ~sendClosed[d] /\ \E n : sentData' = [sentData EXCEPT ![d] = n]
        BY DEF Write, CheckWindow, WakeWriter, EmitData, send
    <2>2. \A d \in End : Read(d) \/ ReadAgain(d) \/ recvLoop(d) => UNCHANGED sentData
        BY DEF Read, ReadSome, ReadNone, ReadAgain, WakeReader, AckDue, ReadAck, ReadAcked,
               recvLoop, DispatchData, DispatchAck, DispatchFin, RecvLoopEnds, send
    <2>3. \A d \in End : maintLoop(d) \/ CloseFin(d) \/ Close(d) \/ Crash(d) => UNCHANGED sentData
        BY DEF maintLoop, MaintTick, MaintAck, MaintAcked, MaintStops, IdleTimeout, CloseFin,
               Close, CloseSend, CloseLoops, CloseReturns, Crash, send
    <2>4. Reap \/ UNCHANGED vars => UNCHANGED sentData
        BY DEF Reap, vars, send
    <2> QED BY <2>1, <2>2, <2>3, <2>4 DEF Next, Running
<1>2. sentData'[e] = sentData[e] \/ (EmitData(e) /\ ~sendClosed[e])
    BY <1>0, <1>1 DEF Counters
<1>3. \/ UNCHANGED <<recvData, recvBuf>>
      \/ \E d \in End : DispatchData(d)
      \/ \E d \in End : \E n \in 1..recvBuf[d] : ReadSome(d, n)
    <2>1. \A d \in End : Write(d) \/ maintLoop(d) => UNCHANGED <<recvData, recvBuf>>
        BY DEF Write, CheckWindow, WakeWriter, EmitData, maintLoop, MaintTick, MaintAck,
                     MaintAcked, MaintStops, IdleTimeout, recv
    <2>2. \A d \in End : Read(d) \/ ReadAgain(d) \/ recvLoop(d) =>
              \/ UNCHANGED <<recvData, recvBuf>> \/ DispatchData(d)
              \/ \E n \in 1..recvBuf[d] : ReadSome(d, n)
        BY DEF Read, ReadAgain, ReadNone, WakeReader, AckDue, ReadAck, ReadAcked, recvLoop,
                     DispatchAck, DispatchFin, RecvLoopEnds, recv
    <2>3. \A d \in End : CloseFin(d) \/ Close(d) \/ Crash(d) => UNCHANGED <<recvData, recvBuf>>
        BY DEF CloseFin, Close, CloseSend, CloseLoops, CloseReturns, Crash, recv
    <2>4. Reap \/ UNCHANGED vars => UNCHANGED <<recvData, recvBuf>>
        BY DEF Reap, vars, recv
    <2> QED BY <2>1, <2>2, <2>3, <2>4 DEF Next, Running
<1> DEFINE Same == recvData'[peer(e)] + recvBuf'[peer(e)] = recvData[peer(e)] + recvBuf[peer(e)]
<1>4. ASSUME NEW d \in End, DispatchData(d) PROVE Same \/ DispatchData(peer(e))
    <2>1. d # peer(e) => recvBuf'[peer(e)] = recvBuf[peer(e)] /\ recvData' = recvData
        BY <1>0, <1>4 DEF DispatchData, Counters
    <2> QED BY <1>4, <2>1
<1>5. ASSUME NEW d \in End, NEW n \in 1..recvBuf[d], ReadSome(d, n) PROVE Same
    <2>1. CASE d = peer(e)
        <3>1. /\ recvBuf'[peer(e)] = recvBuf[peer(e)] - n
              /\ recvData'[peer(e)] = recvData[peer(e)] + n
            BY <1>0, <1>5, <2>1 DEF ReadSome, Counters
        <3>2. recvBuf[peer(e)] \in Nat /\ recvData[peer(e)] \in Nat /\ n \in Int
            BY <1>0, <2>1, SMT DEF Counters
        <3> QED BY <3>1, <3>2, SMT
    <2>2. CASE d # peer(e)
        BY <1>0, <1>5, <2>2 DEF ReadSome, Counters
    <2> QED BY <2>1, <2>2
<1> QED BY <1>2, <1>3, <1>4, <1>5

\* Bytes leave the log at its front and only to arrive.
LEMMA StreamStep ==
    ASSUME IInv, StreamWhole, [Next]_vars
    PROVE  StreamWhole'
<1> SUFFICES ASSUME NEW e \in End, NEW n \in Nat,
                    recvData'[peer(e)] + recvBuf'[peer(e)] <= n, n < sentData'[e]
             PROVE  DataIn(log'[e], n)
    BY DEF StreamWhole
<1> DEFINE got == recvData[peer(e)] + recvBuf[peer(e)]
<1>0. log[e] \in Seq(Frame) /\ sentData[e] \in Nat /\ peer(e) \in End /\ Counters
    BY FlowTypes, Peers DEF IInv, Counters
<1>1. got \in Nat
    BY <1>0, Sums
<1>2. \A m \in Nat : got <= m /\ m < sentData[e] => DataIn(log[e], m)
    BY DEF StreamWhole
<1>3. CASE EmitData(e) /\ ~sendClosed[e]
    <2> DEFINE k == chunk(e)
    <2>1. /\ log'[e] = Append(log[e], Data(sentData[e], k)) /\ sentData'[e] = sentData[e] + k
          /\ recvData' = recvData /\ recvBuf' = recvBuf
        BY <1>0, <1>3, FlowTypes DEF EmitData, recv, IInv, Counters
    <2>2. k \in Nat
        <3>1. wpc[e] = "emit" /\ room[e] > 0
            BY <1>3 DEF EmitData, IInv, RoomSound
        <3>2. left[e] \in Nat /\ room[e] \in Int /\ maxFrame \in Nat
            BY <1>0, ConnOK DEF Counters
        <3> QED BY <3>1, <3>2, SMT DEF chunk, minimum
    <2> HIDE DEF k
    <2>3. /\ Data(sentData[e], k) \in Frame
          /\ sentData[e] <= n /\ n < sentData[e] + k => Covers(Data(sentData[e], k), n)
        BY <1>0, <2>2 DEF Data, Frame, Covers
    <2>4. n < sentData[e] \/ (sentData[e] <= n /\ n < sentData[e] + k)
        BY <1>0, <2>1, SMT
    <2>5. DataIn(log[e], n) => DataIn(log'[e], n)
        BY <1>0, <2>1, <2>3, LongerLog
    <2>6. Covers(Data(sentData[e], k), n) => DataIn(log'[e], n)
        BY <1>0, <2>1, <2>3, LongerLog
    <2> QED BY <1>2, <2>1, <2>3, <2>4, <2>5, <2>6
<1>4. CASE DispatchData(peer(e))
    <2> DEFINE h == Head(log[e])
    <2>1. /\ log[e] # <<>> /\ h.t = "DATA" /\ log'[e] = Tail(log[e]) /\ sentData' = sentData
          /\ recvData' = recvData /\ recvBuf'[peer(e)] = recvBuf[peer(e)] + h.v
        BY <1>0, <1>4, Peers, FlowTypes
           DEF DispatchData, Receives, Readable, Pop, send, IInv, Counters
    <2>2. h = log[e][1] /\ h \in Frame /\ Len(log[e]) \in Nat /\ 1 \in 1..Len(log[e])
        BY <1>0, <2>1, Popped, SMT
    <2>3. h.off \in Nat /\ h.v \in Nat
        BY <2>2 DEF Frame
    <2>4. /\ recvData[peer(e)] \in Nat /\ recvBuf[peer(e)] \in Nat /\ sentData[e] \in Nat
          /\ recvData[peer(e)] + (recvBuf[peer(e)] + h.v) <= n /\ n < sentData[e]
        BY <1>0, <2>1 DEF Counters
    <2>5. got + h.v <= n /\ got <= n /\ got < sentData[e]
        BY <2>3, <2>4, SMT
    <2>6. PICK i \in 1..Len(log[e]) : Covers(log[e][i], got)
        BY <1>1, <1>2, <2>5, SMT DEF DataIn
    <2>7. /\ log[e][i].t = "DATA" /\ log[e][i].off <= got /\ got <= log[e][i].off
          /\ \A j \in 1..(i - 1) : log[e][j].t = "DATA" =>
                log[e][j].off + log[e][j].v <= log[e][i].off
        BY <2>6 DEF IInv, DataSound, Covers
    <2>8. log[e][i].off \in Nat
        BY <1>0, <2>6, FrameAt
    <2>9. h.off + h.v <= n
        <3>1. CASE i = 1
            BY <1>1, <2>2, <2>3, <2>5, <2>7, <2>8, <3>1, SMT
        <3>2. CASE i # 1
            <4>1. 1 \in 1..(i - 1)
                BY <2>6, <3>2, SMT
            <4>2. h.off + h.v <= log[e][i].off
                BY <2>1, <2>2, <2>7, <4>1
            <4> QED BY <1>1, <2>3, <2>5, <2>7, <2>8, <4>2, SMT
        <3> QED BY <3>1, <3>2
    <2>10. ~Covers(h, n)
        BY <2>3, <2>9, SMT DEF Covers
    <2>11. DataIn(log[e], n)
        BY <1>2, <2>1, <2>5
    <2> QED BY <1>0, <2>1, <2>10, <2>11, ShorterLog
<1>5. CASE /\ ~DispatchData(peer(e)) /\ sentData'[e] = sentData[e]
           /\ recvData'[peer(e)] + recvBuf'[peer(e)] = got
    <2>1. DataIn(log[e], n)
        BY <1>2, <1>5
    <2>2. CASE log'[e] = log[e]
        BY <2>1, <2>2
    <2>3. ASSUME NEW f \in Frame, log'[e] = Append(log[e], f) PROVE DataIn(log'[e], n)
        BY <1>0, <2>1, <2>3, LongerLog
    <2>4. CASE /\ log[e] # <<>> /\ log'[e] = Tail(log[e])
               /\ DispatchAck(peer(e)) \/ DispatchFin(peer(e))
        <3>1. log[e] # <<>> /\ log'[e] = Tail(log[e]) /\ Head(log[e]).t # "DATA"
            BY <2>4, Peers DEF DispatchAck, DispatchFin, Receives
        <3>2. ~Covers(Head(log[e]), n)
            BY <3>1 DEF Covers
        <3> QED BY <1>0, <2>1, <3>1, <3>2, ShorterLog
    <2> QED BY <1>5, <2>2, <2>3, <2>4, LogSteps
<1> QED BY <1>3, <1>4, <1>5, StreamSteps

\* Whatever the two windows are: a writer whose bytes are not all acknowledged can
\* always count on a frame, on a Read or on an ACK that is owed to get on.
THEOREM AcksAreUnderway == Spec => []AckUnderway
<1>1. IInv /\ UnderwayInv => AckUnderway
    <2> SUFFICES ASSUME IInv, UnderwayInv, NEW e \in End, peerAck[e] < sentData[e],
                        ~ \E i \in 1..Len(log[e]) : log[e][i].t = "DATA",
                        ~(recvBuf[peer(e)] > 0),
                        ~(lastAckSent[peer(e)] < recvData[peer(e)])
                 PROVE  \E i \in 1..Len(log[peer(e)]) :
                            log[peer(e)][i].t = "ACK" /\ log[peer(e)][i].v > peerAck[e]
        BY DEF AckUnderway
    <2> DEFINE p == peer(e)
    <2>1. /\ p \in End /\ peer(p) = e /\ log[p] \in Seq(Frame)
          /\ peerAck[e] \in Nat /\ sentData[e] \in Nat
          /\ recvBuf[p] \in Nat /\ recvData[p] \in Nat /\ lastAckSent[p] \in Nat
        BY Peers, FlowTypes DEF IInv, Counters
    <2>2. recvData[p] >= sentData[e]
        <3>1. \A n \in Nat : ~DataIn(log[e], n)
            BY DEF DataIn, Covers
        <3>2. ~(recvData[p] + recvBuf[p] <= recvData[p] /\ recvData[p] < sentData[e])
            BY <2>1, <3>1 DEF UnderwayInv, StreamWhole
        <3> QED BY <2>1, <3>2, SMT
    <2>3. lastAckSent[p] > peerAck[e]
        BY <2>1, <2>2, SMT
    <2>4. AckIn(log[p], peerAck[e], lastAckSent[p])
        BY <2>1 DEF UnderwayInv, AcksArrive
    <2>5. ~(lastAckSent[p] <= peerAck[e])
        BY <2>1, <2>3, SMT
    <2>6. PICK i \in 1..Len(log[p]) : log[p][i].t = "ACK" /\ log[p][i].v >= lastAckSent[p]
        BY <2>4, <2>5 DEF AckIn
    <2>7. log[p][i].v \in Nat
        BY <2>1, <2>6, FrameAt
    <2>8. log[p][i].v > peerAck[e]
        BY <2>1, <2>3, <2>6, <2>7, SMT
    <2> QED BY <2>6, <2>8
<1>2. IInv /\ SleepInv /\ UnderwayInv /\ [Next]_vars => UnderwayInv'
    BY AcksStep, StreamStep DEF UnderwayInv
<1>3. IInv /\ SleepInv /\ [Next]_vars => SleepInv'
    BY SleepStep
<1> QED BY SleepInit, UnderwayInit, Invariance, <1>1, <1>2, <1>3, PTL DEF Spec
=============================================================================

------------------------------- MODULE SegLog -------------------------------
(***************************************************************************)
(* One direction of a filesystem tunnel: a segWriter that appends frames to *)
(* segment files, rolls and reaps them, and the segReader that follows it   *)
(* (transport/fstun/seglog.go), on a local or on a network filesystem.      *)
(*                                                                         *)
(* A frame is Parts pieces long, so that a reader can see part of one; the  *)
(* CRC of decodeFrame tells whether the pieces of a frame belong together.  *)
(* DATA frame n carries byte n of the stream. The other frames that Conn    *)
(* emits (ACK, HEARTBEAT, FIN) are "ctl" here.                              *)
(***************************************************************************)
EXTENDS Integers, Sequences, Functions

CONSTANTS
    Parts,    \* pieces in a frame
    MaxSeg,   \* segWriter.maxSeg, in pieces
    Window,   \* synParams.window, in DATA bytes
    NetModes, \* whether the root may be on a network filesystem
    MaxData,  \* bound on DATA frames
    MaxCtl,   \* bound on control frames
    MaxDrops  \* bound on reopens that fail for no lasting reason

ASSUME SegLogOK ==
    /\ Parts \in Nat \ {0} /\ MaxSeg \in Nat /\ Window \in Nat \ {0}
    /\ NetModes \subseteq BOOLEAN /\ NetModes # {}
    /\ MaxData \in Nat /\ MaxCtl \in Nat /\ MaxDrops \in Nat

VARIABLES
    cur, size, reapOff, flushTimer, closed, \* segWriter (reapOff in no order)
    sentData, peerAck,   \* of the Conn that owns it
    nctl,                \* control frames written so far
    seg,                 \* the frames of each segment
    linked,              \* the segments that exist in the directory
    synced,              \* pieces of each segment that were fsynced
    seen,                \* pieces of each segment that the server shows
    netFS,               \* of both: the root is on a network filesystem
    drops,               \* reopens that have failed so
    rcur, rf, off, buf,  \* segReader: segment, open file?, offset, carry-over
    broken,              \* next returned a fatal error
    got,                 \* the DATA bytes delivered, in order
    first,               \* history: those of them that were new, in order
    consumed             \* how many the application has read

writer == <<cur, size, reapOff, flushTimer, closed, sentData, nctl>>
files == <<seg, linked, synced>>
reader == <<rcur, rf, off, buf, broken, got, first>>
stream == <<got, first, consumed>>
vars == <<writer, peerAck, files, seen, netFS, drops, reader, consumed>>

Segs == 0..(MaxData + MaxCtl)

Data(n) == [t |-> "data", v |-> n]
Ctl == [t |-> "ctl", v |-> 0]
Roll(i) == [t |-> "roll", v |-> i]

Written(i) == Parts * Len(seg[i])

\* How much of a segment a read sees: a local filesystem hides nothing.
Visible(i) == IF netFS THEN seen[i] ELSE Written(i)

-----------------------------------------------------------------------------
Init ==
    /\ cur = 0 /\ size = 0 /\ reapOff = {} /\ flushTimer = FALSE /\ closed = FALSE
    /\ sentData = 0 /\ peerAck = 0 /\ nctl = 0
    /\ seg = [i \in Segs |-> <<>>]
    /\ linked = {0}
    /\ synced = [i \in Segs |-> 0]
    /\ seen = [i \in Segs |-> 0]
    /\ netFS \in NetModes /\ drops = 0
    /\ rcur = 0 /\ rf = FALSE /\ off = 0 /\ buf = <<>> /\ broken = FALSE
    /\ got = <<>> /\ first = <<>> /\ consumed = 0

-----------------------------------------------------------------------------
(* segWriter *)

\* Mutant: the ROLL is not synced.
Mut_append(f, dataEnd) ==
    LET rolls == size > 0 /\ size + Parts > MaxSeg
        next  == cur + 1
        into  == IF rolls THEN next ELSE cur
        ended == [seg EXCEPT ![cur] = Append(@, Roll(next))]
    IN  /\ seg' = [(IF rolls THEN ended ELSE seg) EXCEPT ![into] = Append(@, f)]
        /\ reapOff' = IF rolls THEN reapOff \cup {[idx |-> cur, dataEnd |-> dataEnd]}
                               ELSE reapOff
        /\ linked' = linked \cup {into}
        /\ cur' = into
        /\ size' = IF rolls THEN Parts ELSE size + Parts
        /\ flushTimer' = (flushTimer \/ netFS)
        /\ UNCHANGED <<closed, synced>>

\* append: roll first if the frame would not fit. The ROLL is synced and the old
\* segment is remembered with dataEnd, which already counts the new frame.
append(f, dataEnd) ==
    LET rolls == size > 0 /\ size + Parts > MaxSeg
        next  == cur + 1
        into  == IF rolls THEN next ELSE cur
        ended == [seg EXCEPT ![cur] = Append(@, Roll(next))]
    IN  /\ seg' = [(IF rolls THEN ended ELSE seg) EXCEPT ![into] = Append(@, f)]
        /\ synced' = IF rolls /\ netFS
                     THEN [synced EXCEPT ![cur] = Parts * Len(ended[cur])] ELSE synced
        /\ reapOff' = IF rolls THEN reapOff \cup {[idx |-> cur, dataEnd |-> dataEnd]}
                               ELSE reapOff
        /\ linked' = linked \cup {into}
        /\ cur' = into
        /\ size' = IF rolls THEN Parts ELSE size + Parts
        /\ flushTimer' = (flushTimer \/ netFS)
        /\ UNCHANGED closed

\* emit of a DATA frame, within the window.
WriteData ==
    /\ ~closed /\ sentData < MaxData /\ sentData - peerAck < Window
    /\ sentData' = sentData + 1
    /\ append(Data(sentData + 1), sentData + 1)
    /\ UNCHANGED <<peerAck, nctl, seen, netFS, drops, reader, consumed>>

\* emit of any other frame: never held back.
WriteCtl ==
    /\ ~closed /\ nctl < MaxCtl
    /\ nctl' = nctl + 1
    /\ append(Ctl, sentData)
    /\ UNCHANGED <<peerAck, sentData, seen, netFS, drops, reader, consumed>>

\* The Nagle timer: fsync the current segment.
timedFlush ==
    /\ flushTimer
    /\ flushTimer' = FALSE
    /\ synced' = [synced EXCEPT ![cur] = Written(cur)]
    /\ UNCHANGED <<cur, size, reapOff, closed, sentData, nctl, peerAck, seg, linked, seen,
                   netFS, drops, reader, consumed>>

\* Mutant: one byte too many counts as acknowledged.
Mut_Consumed(s, acked) == s.dataEnd <= acked + 1

\* What reap takes for a segment that the reader has consumed.
Consumed(s, acked) == s.dataEnd <= acked

\* An ACK comes in on the opposite direction; reap unlinks segments.
GetAck(v) ==
    LET acked == IF v > peerAck THEN v ELSE peerAck
        gone  == {s \in reapOff : Consumed(s, acked)}
    IN  /\ peerAck' = acked
        /\ linked' = linked \ {s.idx : s \in gone}
        /\ reapOff' = reapOff \ gone
        /\ UNCHANGED <<cur, size, flushTimer, closed, sentData, nctl, seg, synced, seen,
                       netFS, drops, reader, consumed>>

\* close: flush the tail.
close ==
    /\ ~closed
    /\ closed' = TRUE
    /\ flushTimer' = FALSE
    /\ synced' = IF netFS THEN [synced EXCEPT ![cur] = Written(cur)] ELSE synced
    /\ UNCHANGED <<cur, size, reapOff, sentData, nctl, peerAck, seg, linked, seen,
                   netFS, drops, reader, consumed>>

-----------------------------------------------------------------------------
(* The network filesystem (external) *)

\* Another piece of a segment becomes visible: at some time once it is synced,
\* perhaps before.
Appear(i) ==
    /\ netFS /\ seen[i] < Written(i)
    /\ seen' = [seen EXCEPT ![i] = @ + 1]
    /\ UNCHANGED <<writer, peerAck, files, netFS, drops, reader, consumed>>

-----------------------------------------------------------------------------
(* segReader.next, as recvLoop calls it over and over *)

\* openWait: the segment is there to be opened.
Open ==
    /\ ~broken /\ ~rf /\ rcur \in linked
    /\ rf' = TRUE
    /\ off' = 0
    /\ UNCHANGED <<writer, peerAck, files, seen, netFS, drops, rcur, buf, broken, stream>>

\* The n-th piece of a segment's file.
Piece(i, n) == [at |-> i, frame |-> ((n - 1) \div Parts) + 1, part |-> ((n - 1) % Parts) + 1]

\* decodeFrame on the carry-over: too short, a frame, or corrupt.
Complete == Len(buf) >= Parts
Sound == \A k \in 1..Parts : buf[k] = [buf[1] EXCEPT !.part = k]

\* dispatch of a frame: DATA is delivered, the rest is not the stream's business.
dispatch(f) ==
    /\ got' = IF f.t = "data" THEN Append(got, f.v) ELSE got
    /\ first' = IF f.t = "data" /\ f.v \notin Range(first) THEN Append(first, f.v) ELSE first

\* Mutant: ROLL is taken for a frame like any other.
Mut_DecodeRoll ==
    LET f == seg[buf[1].at][buf[1].frame]
    IN  /\ ~broken /\ rf /\ Complete /\ Sound
        /\ dispatch(f)
        /\ buf' = SubSeq(buf, Parts + 1, Len(buf))
        /\ UNCHANGED <<writer, peerAck, files, seen, netFS, drops, rcur, rf, off, broken, consumed>>

\* Mutant: what was read with a frame is lost with it.
Mut_DecodeLoses ==
    LET f == seg[buf[1].at][buf[1].frame]
    IN  /\ ~broken /\ rf /\ Complete /\ Sound
        /\ dispatch(f)
        /\ buf' = <<>>
        /\ IF f.t = "roll" THEN rcur' = f.v /\ rf' = FALSE ELSE UNCHANGED <<rcur, rf>>
        /\ UNCHANGED <<writer, peerAck, files, seen, netFS, drops, off, broken, consumed>>

\* A frame is decoded: ROLL is followed (advance drops what is left of the
\* carry-over), the others are dispatched.
Decode ==
    LET f == seg[buf[1].at][buf[1].frame]
    IN  /\ ~broken /\ rf /\ Complete /\ Sound
        /\ dispatch(f)
        /\ IF f.t = "roll"
           THEN rcur' = f.v /\ rf' = FALSE /\ buf' = <<>>
           ELSE buf' = SubSeq(buf, Parts + 1, Len(buf)) /\ UNCHANGED <<rcur, rf>>
        /\ UNCHANGED <<writer, peerAck, files, seen, netFS, drops, off, broken, consumed>>

\* errCorruptFrame: recvLoop fails the pipe.
Corrupt ==
    /\ ~broken /\ rf /\ Complete /\ ~Sound
    /\ broken' = TRUE
    /\ UNCHANGED <<writer, peerAck, files, seen, netFS, drops, rcur, rf, off, buf, stream>>

\* Mutant: the offset is not moved.
Mut_fill ==
    /\ ~broken /\ rf /\ ~Complete
    /\ netFS => rcur \in linked
    /\ off < Visible(rcur)
    /\ buf' = buf \o [k \in 1..(Visible(rcur) - off) |-> Piece(rcur, off + k)]
    /\ UNCHANGED <<writer, peerAck, files, seen, netFS, drops, rcur, rf, off, broken, stream>>

\* fill: everything visible past off is read. A network segment is opened anew,
\* by name.
fill ==
    /\ ~broken /\ rf /\ ~Complete
    /\ netFS => rcur \in linked
    /\ off < Visible(rcur)
    /\ buf' = buf \o [k \in 1..(Visible(rcur) - off) |-> Piece(rcur, off + k)]
    /\ off' = Visible(rcur)
    /\ UNCHANGED <<writer, peerAck, files, seen, netFS, drops, rcur, rf, broken, stream>>

\* The segment cannot be opened anew, gone or for a passing reason: the file is
\* dropped, to be opened again from its start.
fillDrops ==
    /\ ~broken /\ rf /\ ~Complete /\ netFS
    /\ IF rcur \in linked THEN drops < MaxDrops /\ drops' = drops + 1 ELSE UNCHANGED drops
    /\ rf' = FALSE
    /\ UNCHANGED <<writer, peerAck, files, seen, netFS, rcur, off, buf, broken, stream>>

\* The application reads a byte: it now counts for the next ACK.
Consume ==
    /\ consumed < Len(got)
    /\ consumed' = consumed + 1
    /\ UNCHANGED <<writer, peerAck, files, seen, netFS, drops, reader>>

-----------------------------------------------------------------------------
Reader == Open \/ Decode \/ Corrupt \/ fill \/ fillDrops

Next ==
    \/ WriteData \/ WriteCtl \/ timedFlush \/ close
    \/ \E v \in 1..consumed : GetAck(v)
    \/ \E i \in Segs : Appear(i)
    \/ Reader
    \/ Consume

Spec == Init /\ [][Next]_vars

\* recvLoop polls for ever, the timer fires, and what is synced is in the end
\* visible (docs/TRANSPORTS.md, section 4). The application is not assumed to
\* read or to write.
FairSpec ==
    /\ Spec
    /\ WF_vars(Open) /\ WF_vars(Decode) /\ WF_vars(Corrupt) /\ WF_vars(fill) /\ WF_vars(timedFlush)
    /\ \A i \in Segs : WF_vars(seen[i] < synced[i] /\ Appear(i))

-----------------------------------------------------------------------------
\* The direction implements a byte pipe: whatever the chunking, the rolls, torn
\* tails, reaping and failed reopens, the bytes written are delivered for the
\* first time in order, and none is skipped.
Pipe == INSTANCE BytePipe WITH
            Byte <- 1..MaxData, sent <- [n \in 1..sentData |-> n], got <- first

DeliversInOrder == Pipe!Spec

\* Each byte is delivered once and the pipe does not fail, as long as no reopen
\* fails for a passing reason: a torn tail alone is never taken for corruption.
ExactUnlessDropped ==
    drops = 0 => ~broken /\ \A n \in 1..Len(got) : got[n] = n

\* The reader waits for a segment that is no longer there.
Stranded == rcur \notin linked /\ (netFS \/ ~rf)

\* Every byte written is delivered in the end, unless its reader is stranded or
\* has failed the pipe: no torn tail, late flush or roll by itself stops the
\* stream, and no reader waits but for a segment that reap took away.
OnlyReapStrands ==
    \A n \in 1..MaxData : (sentData >= n) ~> (n \in Range(got) \/ Stranded \/ broken)

\* What was appended and not yet synced will be: the Nagle timer is set, however
\* appends, its firing, rolls and close interleave, and no segment is left
\* behind unsynced by a roll.
NoUnsyncedTail ==
    netFS => \A i \in 0..cur :
        synced[i] < Written(i) => i = cur /\ flushTimer /\ ~closed

\* A segment that is unlinked holds no byte that the reader's application has not
\* read, unless a replay has made it count bytes twice: reap goes by the DATA
\* offset at the segment's end.
ReapedDataRead ==
    drops = 0 => \A i \in 0..cur \ linked : \A f \in Range(seg[i]) :
                    f.t = "data" => \E k \in 1..consumed : got[k] = f.v

-----------------------------------------------------------------------------
(* What comments and documentation say and the code does not do. *)

\* seglog.go:138 and docs/TRANSPORTS.md:301: the writer unlinks a closed segment
\* when "the reader has consumed the whole segment", so what is sent is delivered
\* (a "reliable, ordered" stream, docs/TRANSPORTS.md:87).
DeliversAll ==
    \A n \in 1..MaxData : (sentData >= n) ~> (Len(got) >= n)

\* seglog.go:259-260: a failed reopen is "Vanished (e.g. reaped) or transient;
\* drop the fd and retry next round via openWait. Not fatal."
ReopenHarmless == ~broken /\ \A n \in 1..Len(got) : got[n] = n
=============================================================================

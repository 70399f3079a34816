---------------------------- MODULE SegLogProofs ----------------------------
(* Theorems about SegLog, for any frame and segment size, window, and bounds. *)
EXTENDS SegLog, SequenceTheorems, TLAPS

\* Most leaves are first-order reasoning; those that need arithmetic, sequences
\* or the values of functions cite SMT.
USE Zenon

-----------------------------------------------------------------------------
(* Frames and their pieces *)

LEMMA WholeFrames ==
    ASSUME NEW m \in Nat, NEW n \in Nat
    PROVE  /\ Parts * m \in Nat /\ Parts * (m + 1) = Parts * m + Parts
           /\ m <= n => Parts * m <= Parts * n
           /\ Parts * m + Parts <= Parts * n => m + 1 <= n
<1>1. Parts \in Nat /\ Parts > 0
    BY SegLogOK, SMT
<1>2. Parts * m \in Nat /\ Parts * (m + 1) = Parts * m + Parts
    BY <1>1, SMT
<1>3. m <= n => Parts * m <= Parts * n
    BY <1>1, SMT
<1>4. ASSUME Parts * m + Parts <= Parts * n PROVE m + 1 <= n
    BY <1>1, <1>4, SMT
<1> QED BY <1>2, <1>3, <1>4

LEMMA PieceAt ==
    ASSUME NEW i, NEW k \in Nat, NEW p \in 1..Parts
    PROVE  Piece(i, Parts * k + p) = [at |-> i, frame |-> k + 1, part |-> p]
<1>1. Parts \in Nat /\ Parts > 0 /\ Parts * k \in Nat
    BY SegLogOK, SMT
<1> DEFINE n == Parts * k + p
<1>2. n - 1 = Parts * k + (p - 1) /\ p - 1 \in 0..(Parts - 1)
    BY <1>1, SMT
<1>3. (n - 1) \div Parts = k
    BY <1>1, <1>2, SMT
<1>4. (n - 1) % Parts = p - 1
    BY <1>1, <1>2, SMT
<1> QED BY <1>3, <1>4, SMT DEF Piece

-----------------------------------------------------------------------------
(* The log *)

Frame == [t : {"data", "ctl", "roll"}, v : Nat]

LogTypes ==
    /\ cur \in Nat /\ size \in Nat /\ sentData \in 0..MaxData /\ nctl \in 0..MaxCtl
    /\ cur <= sentData + nctl
    /\ seg \in [Segs -> Seq(Frame)]
    /\ linked \subseteq Segs /\ cur \in linked

\* Frame j of segment i is a DATA frame.
DataAt(i, j) == seg[i][j].t = "data"
Before(a, b, i, j) == a < i \/ (a = i /\ b < j)

\* ROLL is only ever the last frame of a segment that is not current.
RollsLast ==
    /\ \A i \in Segs : i > cur => seg[i] = <<>>
    /\ \A i \in Segs : \A j \in 1..Len(seg[i]) :
          seg[i][j].t = "roll" => i < cur /\ j = Len(seg[i]) /\ seg[i][j].v = i + 1

\* The bytes are in the log in order, each with the one before it somewhere
\* earlier.
Increasing ==
    \A i, a \in Segs : \A j \in 1..Len(seg[i]), b \in 1..Len(seg[a]) :
        DataAt(i, j) /\ DataAt(a, b) /\ Before(a, b, i, j) => seg[a][b].v < seg[i][j].v

Chained ==
    /\ \A i \in Segs : \A j \in 1..Len(seg[i]) : DataAt(i, j) =>
          /\ seg[i][j].v \in 1..sentData
          /\ seg[i][j].v > 1 =>
                \E a \in Segs : \E b \in 1..Len(seg[a]) :
                    /\ Before(a, b, i, j)
                    /\ DataAt(a, b) /\ seg[a][b].v = seg[i][j].v - 1
    /\ sentData > 0 =>
          \E a \in Segs : \E b \in 1..Len(seg[a]) : DataAt(a, b) /\ seg[a][b].v = sentData

LogInv == LogTypes /\ RollsLast /\ Increasing /\ Chained

-----------------------------------------------------------------------------
(* The reader *)

Pieces == [at : Nat, frame : Nat, part : Nat]

ReaderTypes ==
    /\ seen \in [Segs -> Nat] /\ \A i \in Segs : seen[i] <= Written(i)
    /\ rcur \in 0..cur /\ off \in Nat /\ buf \in Seq(Pieces)
    /\ got \in Seq(Nat) /\ first \in Seq(Nat) /\ drops \in Nat
    /\ \A n \in 1..Len(first) : first[n] = n
    /\ Len(first) <= sentData

\* The carry-over begins with the frame after the k-th.
Clean(k) ==
    /\ off = Parts * k + Len(buf) /\ off <= Written(rcur)
    /\ \A j \in 1..Len(buf) : buf[j] = Piece(rcur, Parts * k + j)

\* The carry-over begins with part of a frame that the rest of it will not follow.
Torn ==
    \E b \in 1..(Parts - 1) :
        /\ b <= Len(buf) /\ \A j \in 1..b : buf[j].part = j
        /\ b < Len(buf) => buf[b + 1].part = 1
        /\ b = Len(buf) /\ rf => off = 0

\* What is before frame k + 1 of the reader's segment has been delivered; what is
\* not has not.
Behind(k) ==
    \A i \in Segs : \A j \in 1..Len(seg[i]) :
        DataAt(i, j) /\ Before(i, j, rcur, k + 1) => seg[i][j].v <= Len(first)

Ahead(k) ==
    \A i \in Segs : \A j \in 1..Len(seg[i]) :
        DataAt(i, j) /\ ~Before(i, j, rcur, k + 1) => seg[i][j].v > Len(first)

ReaderInv ==
    /\ ReaderTypes
    /\ Behind(0)
    /\ Torn \/ IF rf THEN \E k \in 0..Len(seg[rcur]) : Clean(k) /\ Behind(k) ELSE buf = <<>>

ExactInv ==
    drops = 0 =>
        /\ ~broken /\ got = first
        /\ rf => \E k \in 0..Len(seg[rcur]) : Clean(k) /\ Behind(k) /\ Ahead(k)
        /\ ~rf /\ rcur \in linked => buf = <<>> /\ Ahead(0)

-----------------------------------------------------------------------------
(* Reaping and syncing *)

\* Segments are remembered with at least the bytes in them, and unlinked when
\* these are acknowledged.
ReapInv ==
    /\ peerAck \in Nat /\ consumed \in Nat /\ peerAck <= consumed /\ consumed <= Len(got)
    /\ \A s \in reapOff :
          /\ s \in [idx : 0..(cur - 1), dataEnd : Nat]
          /\ \A j \in 1..Len(seg[s.idx]) : DataAt(s.idx, j) => seg[s.idx][j].v <= s.dataEnd
    /\ \A i \in 0..cur \ linked : \A j \in 1..Len(seg[i]) :
          DataAt(i, j) => seg[i][j].v <= peerAck

SyncTypes ==
    /\ synced \in [Segs -> Nat] /\ flushTimer \in BOOLEAN /\ closed \in BOOLEAN
    /\ netFS \in BOOLEAN

IInv == LogInv /\ ReaderInv /\ ExactInv /\ ReapInv /\ SyncTypes /\ NoUnsyncedTail

\* The log grows at its end: by f, after a ROLL if the current segment is full.
Grows(f) ==
    /\ seg' \in [Segs -> Seq(Frame)] /\ cur' \in Segs /\ cur' \in {cur, cur + 1}
    /\ \A i \in Segs : i > cur' => seg'[i] = <<>>
    /\ \A i \in Segs : i < cur => seg'[i] = seg[i]
    /\ \A i \in Segs : /\ Len(seg[i]) <= Len(seg'[i])
                       /\ \A j \in 1..Len(seg[i]) : seg'[i][j] = seg[i][j]
    /\ \A i \in Segs : \A j \in 1..Len(seg'[i]) :
          \/ j <= Len(seg[i])
          \/ i = cur' /\ j = Len(seg'[i])
          \/ i = cur /\ cur' = cur + 1 /\ j = Len(seg'[i]) /\ seg'[i][j] = Roll(cur + 1)
    /\ Len(seg'[cur']) > Len(seg[cur']) /\ seg'[cur'][Len(seg'[cur'])] = f

LEMMA AppendGrows ==
    ASSUME LogInv, NEW f \in Frame, NEW dataEnd, append(f, dataEnd),
           sentData + nctl < MaxData + MaxCtl
    PROVE  /\ Grows(f) /\ size' \in Nat /\ linked' = linked \cup {cur'}
           /\ reapOff' = reapOff \/ (cur' = cur + 1 /\ reapOff' =
                                        reapOff \cup {[idx |-> cur, dataEnd |-> dataEnd]})
           /\ closed' = closed /\ flushTimer' = (flushTimer \/ netFS)
           /\ cur' = cur + 1 /\ netFS =>
                 synced' = [synced EXCEPT ![cur] = Parts * Len(seg'[cur])]
           /\ ~ (cur' = cur + 1 /\ netFS) => synced' = synced
<1> DEFINE rolls == size > 0 /\ size + Parts > MaxSeg
<1>0. /\ cur \in Segs /\ cur + 1 \in Segs /\ cur # cur + 1
      /\ seg \in [Segs -> Seq(Frame)] /\ Roll(cur + 1) \in Frame
      /\ seg[cur] \in Seq(Frame) /\ seg[cur + 1] = <<>> /\ Parts \in Nat /\ size \in Nat
    BY SegLogOK, SMT DEF LogInv, LogTypes, RollsLast, Segs, Frame, Roll
<1>1. CASE rolls
    <2>1. /\ cur' = cur + 1 /\ size' = Parts /\ linked' = linked \cup {cur'}
          /\ reapOff' = reapOff \cup {[idx |-> cur, dataEnd |-> dataEnd]}
          /\ closed' = closed /\ flushTimer' = (flushTimer \/ netFS)
        BY <1>1 DEF append
    <2> DEFINE ended == [seg EXCEPT ![cur] = Append(@, Roll(cur + 1))]
    <2>2. seg' = [ended EXCEPT ![cur + 1] = Append(@, f)]
        BY <1>1 DEF append
    <2>3. seg'[cur] = Append(seg[cur], Roll(cur + 1)) /\ seg'[cur + 1] = Append(<<>>, f)
        BY <1>0, <2>2
    <2>4. /\ seg' \in [Segs -> Seq(Frame)]
          /\ \A i \in Segs : i # cur /\ i # cur + 1 => seg'[i] = seg[i]
        <3>1. Append(seg[cur], Roll(cur + 1)) \in Seq(Frame) /\ Append(<<>>, f) \in Seq(Frame)
            BY <1>0, SMT
        <3> QED BY <1>0, <2>2, <3>1
    <2>5. /\ Len(seg'[cur]) = Len(seg[cur]) + 1 /\ Len(seg'[cur + 1]) = 1
          /\ seg'[cur][Len(seg[cur]) + 1] = Roll(cur + 1) /\ seg'[cur + 1][1] = f
          /\ \A j \in 1..Len(seg[cur]) : seg'[cur][j] = seg[cur][j]
          /\ Len(seg[cur]) \in Nat /\ Len(seg[cur + 1]) = 0
        BY <1>0, <2>3, SMT
    <2>6. Grows(f)
        <3>1. \A i \in Segs : i > cur' => seg'[i] = <<>>
            <4>1. \A i \in Segs : i > cur' => i > cur /\ i # cur /\ i # cur + 1
                BY <2>1, SegLogOK, SMT DEF LogInv, LogTypes, Segs
            <4> QED BY <2>4, <4>1 DEF LogInv, RollsLast
        <3>2. \A i \in Segs : i < cur => seg'[i] = seg[i]
            BY <1>0, <2>4, SMT DEF Segs
        <3>3. ASSUME NEW i \in Segs
              PROVE  /\ Len(seg[i]) <= Len(seg'[i])
                     /\ \A j \in 1..Len(seg[i]) : seg'[i][j] = seg[i][j]
                     /\ \A j \in 1..Len(seg'[i]) :
                           \/ j <= Len(seg[i])
                           \/ i = cur' /\ j = Len(seg'[i])
                           \/ /\ i = cur /\ cur' = cur + 1 /\ j = Len(seg'[i])
                              /\ seg'[i][j] = Roll(cur + 1)
            <4>1. CASE i = cur
                BY <2>1, <2>5, <4>1, SMT
            <4>2. CASE i = cur + 1
                <5>1. Len(seg'[i]) = 1 /\ Len(seg[i]) = 0 /\ i = cur'
                    BY <2>1, <2>5, <4>2
                <5> QED BY <5>1, SMT
            <4>3. CASE i # cur /\ i # cur + 1
                <5>1. seg'[i] = seg[i] /\ Len(seg[i]) \in Nat
                    BY <1>0, <2>4, <4>3, SMT
                <5> QED BY <5>1, SMT
            <4> QED BY <4>1, <4>2, <4>3
        <3> QED BY <1>0, <2>1, <2>4, <2>5, <3>1, <3>2, <3>3, SMT DEF Grows
    <2>7. /\ netFS => synced' = [synced EXCEPT ![cur] = Parts * Len(seg'[cur])]
          /\ ~netFS => synced' = synced
        <3>1. ended[cur] = seg'[cur]
            BY <1>0, <2>3
        <3>2. /\ netFS => synced' = [synced EXCEPT ![cur] = Parts * Len(ended[cur])]
              /\ ~netFS => synced' = synced
            BY <1>1 DEF append
        <3> QED BY <3>1, <3>2
    <2> QED BY <1>0, <2>1, <2>6, <2>7
<1>2. CASE ~rolls
    <2>1. /\ cur' = cur /\ size' = size + Parts /\ linked' = linked \cup {cur'}
          /\ reapOff' = reapOff /\ synced' = synced
          /\ closed' = closed /\ flushTimer' = (flushTimer \/ netFS)
          /\ seg' = [seg EXCEPT ![cur] = Append(@, f)]
        BY <1>2 DEF append
    <2>2. /\ seg' \in [Segs -> Seq(Frame)] /\ seg'[cur] = Append(seg[cur], f)
          /\ \A i \in Segs : i # cur => seg'[i] = seg[i]
        BY <1>0, <2>1, SMT
    <2>3. /\ Len(seg'[cur]) = Len(seg[cur]) + 1 /\ seg'[cur][Len(seg[cur]) + 1] = f
          /\ \A j \in 1..Len(seg[cur]) : seg'[cur][j] = seg[cur][j]
          /\ Len(seg[cur]) \in Nat
        BY <1>0, <2>2, SMT
    <2>4. Grows(f)
        <3>1. \A i \in Segs : i > cur' => seg'[i] = <<>>
            BY <1>0, <2>1, <2>2, SMT DEF LogInv, LogTypes, RollsLast, Segs
        <3>2. \A i \in Segs : i < cur => seg'[i] = seg[i]
            BY <1>0, <2>2, SMT DEF Segs
        <3>3. ASSUME NEW i \in Segs
              PROVE  /\ Len(seg[i]) <= Len(seg'[i])
                     /\ \A j \in 1..Len(seg[i]) : seg'[i][j] = seg[i][j]
                     /\ \A j \in 1..Len(seg'[i]) :
                           j <= Len(seg[i]) \/ (i = cur' /\ j = Len(seg'[i]))
            <4>1. CASE i = cur
                BY <2>1, <2>3, <4>1, SMT
            <4>2. CASE i # cur
                <5>1. seg'[i] = seg[i] /\ Len(seg[i]) \in Nat
                    BY <1>0, <2>2, <4>2, SMT
                <5> QED BY <5>1, SMT
            <4> QED BY <4>1, <4>2
        <3> QED BY <1>0, <2>1, <2>2, <2>3, <3>1, <3>2, <3>3, SMT DEF Grows
    <2> QED BY <1>0, <2>1, <2>4, SMT
<1> QED BY <1>1, <1>2

LEMMA LogInit == Init => LogInv
<1> SUFFICES ASSUME Init PROVE LogInv
    OBVIOUS
<1>1. 0 \in Segs /\ MaxData \in Nat /\ MaxCtl \in Nat
    BY SegLogOK, SMT DEF Segs
<1>2. seg = [i \in Segs |-> <<>>] /\ <<>> \in Seq(Frame)
    BY SMT DEF Init
<1>3. seg \in [Segs -> Seq(Frame)] /\ \A i \in Segs : seg[i] = <<>> /\ Len(seg[i]) = 0
    BY <1>2
<1>4. LogTypes
    BY <1>1, <1>3, SMT DEF Init, LogTypes
<1> QED BY <1>3, <1>4, SMT DEF LogInv, RollsLast, Increasing, Chained, Init

\* The numbers in a log.
LEMMA LogNumbers ==
    ASSUME LogInv
    PROVE  /\ cur \in Nat /\ cur \in Segs /\ sentData \in Nat /\ Parts \in Nat /\ Parts > 0
           /\ \A i \in Segs : i \in Nat /\ seg[i] \in Seq(Frame) /\ Len(seg[i]) \in Nat
<1>1. cur \in Nat /\ cur \in Segs /\ sentData \in Nat /\ Parts \in Nat /\ Parts > 0
    BY SegLogOK, SMT DEF LogInv, LogTypes, Segs
<1>2. \A i \in Segs : i \in Nat
    BY SegLogOK, SMT DEF Segs
<1>3. \A i \in Segs : seg[i] \in Seq(Frame)
    BY DEF LogInv, LogTypes
<1> QED BY <1>1, <1>2, <1>3, LenProperties

LEMMA GrownNumbers ==
    ASSUME LogInv, NEW f, Grows(f)
    PROVE  /\ cur' \in Nat /\ cur' \in Segs /\ cur <= cur'
           /\ \A i \in Segs : seg'[i] \in Seq(Frame) /\ Len(seg'[i]) \in Nat
<1>1. cur' \in Segs /\ cur' \in Nat /\ cur <= cur'
    BY LogNumbers, SMT DEF Grows
<1>2. \A i \in Segs : seg'[i] \in Seq(Frame)
    BY DEF Grows
<1> QED BY <1>1, <1>2, LenProperties

\* Every position of a DATA frame in a grown log is an old one, or the new one,
\* which is after all of them.
LEMMA GrownData ==
    ASSUME LogInv, NEW f, Grows(f), NEW i \in Segs, NEW j \in 1..Len(seg'[i]), DataAt(i, j)'
    PROVE  \/ j \in 1..Len(seg[i]) /\ seg'[i][j] = seg[i][j] /\ DataAt(i, j)
              /\ i <= cur /\ Before(i, j, cur', Len(seg'[cur']))
           \/ i = cur' /\ j = Len(seg'[i]) /\ seg'[i][j] = f
<1>1. /\ cur \in Nat /\ Len(seg[i]) \in Nat /\ Len(seg'[i]) \in Nat /\ i \in Nat
      /\ seg[i] \in Seq(Frame) /\ j \in Nat /\ 1 <= j
    BY LogNumbers, GrownNumbers, SMT
<1>2. CASE j <= Len(seg[i])
    <2>1. j \in 1..Len(seg[i]) /\ seg'[i][j] = seg[i][j]
        BY <1>1, <1>2, SMT DEF Grows
    <2>2. DataAt(i, j)
        BY <2>1 DEF DataAt
    <2>3. i <= cur
        <3>1. seg[i] # <<>>
            BY <1>1, <1>2, SMT
        <3> QED BY <1>1, <3>1, SMT DEF LogInv, RollsLast
    <2>4. Before(i, j, cur', Len(seg'[cur']))
        BY <1>1, <1>2, <2>3, SMT DEF Grows, Before
    <2> QED BY <2>1, <2>2, <2>3, <2>4
<1>3. CASE seg'[i][j] = Roll(cur + 1)
    BY <1>3, SMT DEF DataAt, Roll
<1> QED BY <1>2, <1>3 DEF Grows

\* What is written in the log stays, and what it says of the log's end carries on.
LEMMA GrownLog ==
    ASSUME LogInv, NEW f \in Frame, Grows(f), f.t # "roll",
           \/ f.t # "data" /\ sentData' = sentData
           \/ f = Data(sentData + 1) /\ sentData' = sentData + 1
    PROVE  RollsLast' /\ Increasing' /\ Chained'
<1>1. /\ cur \in Nat /\ sentData \in Nat /\ cur' \in Segs /\ cur' \in Nat
      /\ \A i \in Segs : Len(seg[i]) \in Nat /\ Len(seg'[i]) \in Nat /\ i \in Nat
    BY LogNumbers, GrownNumbers
<1> DEFINE last == Len(seg'[cur'])
<1>2. last \in 1..Len(seg'[cur']) /\ seg'[cur'][last] = f
    BY <1>1, SMT DEF Grows
<1>3. RollsLast'
    <2>1. ASSUME NEW i \in Segs, NEW j \in 1..Len(seg'[i]), seg'[i][j].t = "roll"
          PROVE  i < cur' /\ j = Len(seg'[i]) /\ seg'[i][j].v = i + 1
        <3>1. CASE j <= Len(seg[i])
            <4>1. j \in 1..Len(seg[i]) /\ seg'[i][j] = seg[i][j]
                <5>1. j \in 1..Len(seg[i])
                    BY <1>1, <3>1, SMT
                <5> QED BY <5>1 DEF Grows
            <4>2. i < cur /\ j = Len(seg[i]) /\ seg[i][j].v = i + 1
                BY <2>1, <4>1 DEF LogInv, RollsLast
            <4>3. seg'[i] = seg[i] /\ i < cur'
                <5>1. seg'[i] = seg[i] /\ cur' \in {cur, cur + 1}
                    BY <4>2 DEF Grows
                <5> QED BY <1>1, <4>2, <5>1, SMT
            <4> QED BY <4>1, <4>2, <4>3
        <3>2. CASE seg'[i][j] = Roll(cur + 1) /\ i = cur /\ cur' = cur + 1 /\ j = Len(seg'[i])
            BY <1>1, <3>2, SMT DEF Roll
        <3> QED BY <1>2, <2>1, <3>1, <3>2 DEF Grows
    <2> QED BY <2>1 DEF RollsLast, Grows, Segs
<1>4. ASSUME NEW i \in Segs, NEW j \in 1..Len(seg'[i]), DataAt(i, j)'
      PROVE  \/ /\ j \in 1..Len(seg[i]) /\ seg'[i][j] = seg[i][j] /\ DataAt(i, j)
                /\ Before(i, j, cur', last)
             \/ i = cur' /\ j = last /\ seg'[i][j] = f
    BY <1>4, GrownData
<1>5. Increasing'
    <2> SUFFICES ASSUME NEW i \in Segs, NEW a \in Segs, NEW j \in 1..Len(seg'[i]),
                        NEW b \in 1..Len(seg'[a]), DataAt(i, j)', DataAt(a, b)',
                        Before(a, b, i, j)
                 PROVE  seg'[a][b].v < seg'[i][j].v
        BY DEF Increasing, Segs, Before, DataAt
    <2>1. CASE i = cur' /\ j = last /\ seg'[i][j] = f
        <3>1. ~(a = cur' /\ b = last)
            BY <1>1, <2>1, SMT DEF Before
        <3>2. b \in 1..Len(seg[a]) /\ seg'[a][b] = seg[a][b] /\ DataAt(a, b)
            BY <1>4, <3>1
        <3>3. seg[a][b].v \in 1..sentData
            BY <3>2 DEF LogInv, Chained
        <3>4. seg'[i][j].v = sentData + 1
            BY <2>1, SMT DEF DataAt, Data
        <3> QED BY <1>1, <3>2, <3>3, <3>4, SMT
    <2>2. CASE j \in 1..Len(seg[i]) /\ seg'[i][j] = seg[i][j] /\ DataAt(i, j)
               /\ Before(i, j, cur', last)
        <3>1. ~(a = cur' /\ b = last)
            BY <1>1, <2>2, SMT DEF Before
        <3>2. b \in 1..Len(seg[a]) /\ seg'[a][b] = seg[a][b] /\ DataAt(a, b)
            BY <1>4, <3>1
        <3> QED BY <2>2, <3>2 DEF LogInv, Increasing
    <2> QED BY <1>4, <2>1, <2>2
<1>6. ASSUME NEW a \in Segs, NEW b \in 1..Len(seg[a]), DataAt(a, b)
      PROVE  b \in 1..Len(seg'[a]) /\ DataAt(a, b)' /\ seg'[a][b] = seg[a][b]
    <2>1. b \in 1..Len(seg'[a]) /\ seg'[a][b] = seg[a][b]
        BY <1>1, SMT DEF Grows
    <2> QED BY <1>6, <2>1 DEF DataAt
<1>7. Chained'
    <2>1. ASSUME NEW i \in Segs, NEW j \in 1..Len(seg'[i]), DataAt(i, j)'
          PROVE  /\ seg'[i][j].v \in 1..sentData'
                 /\ seg'[i][j].v > 1 =>
                       \E a \in Segs : \E b \in 1..Len(seg'[a]) :
                           /\ Before(a, b, i, j)
                           /\ DataAt(a, b)' /\ seg'[a][b].v = seg'[i][j].v - 1
        <3>1. CASE j \in 1..Len(seg[i]) /\ seg'[i][j] = seg[i][j] /\ DataAt(i, j)
            <4>1. /\ seg[i][j].v \in 1..sentData
                  /\ seg[i][j].v > 1 =>
                        \E a \in Segs : \E b \in 1..Len(seg[a]) :
                            /\ Before(a, b, i, j)
                            /\ DataAt(a, b) /\ seg[a][b].v = seg[i][j].v - 1
                BY <3>1 DEF LogInv, Chained
            <4>2. seg'[i][j].v \in 1..sentData'
                BY <1>1, <3>1, <4>1, SMT
            <4>3. ASSUME seg'[i][j].v > 1
                  PROVE  \E a \in Segs : \E b \in 1..Len(seg'[a]) :
                            /\ Before(a, b, i, j)
                            /\ DataAt(a, b)' /\ seg'[a][b].v = seg'[i][j].v - 1
                <5>1. PICK a \in Segs, b \in Nat :
                            /\ b \in 1..Len(seg[a]) /\ Before(a, b, i, j)
                            /\ DataAt(a, b) /\ seg[a][b].v = seg[i][j].v - 1
                    BY <3>1, <4>1, <4>3, SMT
                <5> QED BY <1>6, <3>1, <5>1
            <4> QED BY <4>2, <4>3
        <3>2. CASE i = cur' /\ j = last /\ seg'[i][j] = f
            <4>1. seg'[i][j].v = sentData + 1 /\ sentData' = sentData + 1
                BY <2>1, <3>2, SMT DEF DataAt, Data
            <4>2. ASSUME sentData > 0
                  PROVE  \E a \in Segs : \E b \in 1..Len(seg'[a]) :
                            /\ Before(a, b, i, j)
                            /\ DataAt(a, b)' /\ seg'[a][b].v = sentData
                <5>1. PICK a \in Segs, b \in Nat :
                            b \in 1..Len(seg[a]) /\ DataAt(a, b) /\ seg[a][b].v = sentData
                    BY <4>2, SMT DEF LogInv, Chained
                <5>2. b \in 1..Len(seg'[a]) /\ DataAt(a, b)' /\ seg'[a][b] = seg[a][b]
                    BY <1>6, <5>1
                <5>3. Before(a, b, i, j)
                    <6>1. ~(a = cur' /\ b = last)
                        BY <1>1, <5>1, SMT DEF Grows
                    <6> QED BY <1>4, <3>2, <5>2, <6>1
                <5> QED BY <5>1, <5>2, <5>3
            <4> QED BY <1>1, <4>1, <4>2, SMT
        <3> QED BY <1>4, <2>1, <3>1, <3>2
    <2>2. ASSUME sentData' > 0
          PROVE  \E a \in Segs : \E b \in 1..Len(seg'[a]) :
                     DataAt(a, b)' /\ seg'[a][b].v = sentData'
        <3>1. CASE sentData' = sentData
            <4>1. PICK a \in Segs, b \in Nat :
                            b \in 1..Len(seg[a]) /\ DataAt(a, b) /\ seg[a][b].v = sentData
                BY <2>2, <3>1, SMT DEF LogInv, Chained
            <4> QED BY <1>6, <3>1, <4>1
        <3>2. CASE f = Data(sentData + 1) /\ sentData' = sentData + 1
            BY <1>1, <1>2, <3>2, SMT DEF DataAt, Data
        <3> QED BY <3>1, <3>2
    <2> QED BY <2>1, <2>2 DEF Chained, Segs, Before, DataAt
<1> QED BY <1>3, <1>5, <1>7

-----------------------------------------------------------------------------
(* What decodeFrame finds in the carry-over *)

LEMMA ReaderAt ==
    ASSUME LogInv, ReaderTypes
    PROVE  rcur \in Segs /\ rcur \in Nat /\ rcur <= cur
BY SegLogOK, SMT DEF LogInv, LogTypes, ReaderTypes, Segs

LEMMA CleanSound ==
    ASSUME LogInv, ReaderTypes, NEW k \in 0..Len(seg[rcur]), Clean(k), Complete
    PROVE  /\ Sound /\ k + 1 \in 1..Len(seg[rcur])
           /\ buf[1].at = rcur /\ buf[1].frame = k + 1
<1>1. /\ Parts \in Nat /\ Parts > 0 /\ k \in Nat /\ Len(buf) \in Nat /\ rcur \in Segs
      /\ Len(seg[rcur]) \in Nat /\ Len(buf) >= Parts
    BY LogNumbers, ReaderAt, SMT DEF ReaderTypes, Complete
<1>2. \A j \in 1..Parts : buf[j] = [at |-> rcur, frame |-> k + 1, part |-> j]
    <2> TAKE j \in 1..Parts
    <2>1. j \in 1..Len(buf)
        BY <1>1, SMT
    <2> QED BY <1>1, <2>1, PieceAt DEF Clean
<1>3. Sound /\ buf[1].at = rcur /\ buf[1].frame = k + 1
    <2>1. buf[1] = [at |-> rcur, frame |-> k + 1, part |-> 1]
        BY <1>1, <1>2, SMT
    <2>2. \A j \in 1..Parts :
              [buf[1] EXCEPT !.part = j] = [at |-> rcur, frame |-> k + 1, part |-> j]
        BY <2>1, SMT
    <2>3. ASSUME NEW j \in 1..Parts PROVE buf[j] = [buf[1] EXCEPT !.part = j]
        BY <1>2, <2>2
    <2> QED BY <2>1, <2>3, SMT DEF Sound
<1>4. Parts * k + Parts <= Parts * Len(seg[rcur])
    BY <1>1, WholeFrames, SMT DEF Clean, Written
<1> QED BY <1>1, <1>3, <1>4, WholeFrames, SMT

LEMMA TornUnsound ==
    ASSUME ReaderTypes, Torn, Complete
    PROVE  ~Sound
<1>1. PICK b \in 1..(Parts - 1) : b <= Len(buf) /\ (b < Len(buf) => buf[b + 1].part = 1)
    BY DEF Torn
<1>2. /\ b + 1 \in 1..Parts /\ b < Len(buf) /\ buf[1] \in Pieces
      /\ b + 1 # 1
    BY SegLogOK, SMT DEF Complete, ReaderTypes
<1>3. [buf[1] EXCEPT !.part = b + 1].part = b + 1
    BY <1>2 DEF Pieces
<1> QED BY <1>1, <1>2, <1>3 DEF Sound

LEMMA PieceIs ==
    ASSUME NEW i \in Nat, NEW n \in Nat \ {0}
    PROVE  Piece(i, n) \in Pieces /\ Piece(i, 1).part = 1
<1>1. Parts \in Nat /\ Parts > 0 /\ n - 1 \in Nat
    BY SegLogOK, SMT
<1>2. (n - 1) \div Parts \in Nat /\ (n - 1) % Parts \in Nat
    BY <1>1, SMT
<1>3. Piece(i, Parts * 0 + 1).part = 1
    <2>1. 0 \in Nat /\ 1 \in 1..Parts
        BY <1>1, SMT
    <2>2. Piece(i, Parts * 0 + 1) = [at |-> i, frame |-> 0 + 1, part |-> 1]
        BY <2>1, PieceAt
    <2> QED BY <2>2, SMT
<1>4. Parts * 0 + 1 = 1
    BY <1>1, SMT
<1> QED BY <1>2, <1>3, <1>4, SMT DEF Piece, Pieces

-----------------------------------------------------------------------------
(* The reader's position, and the writer *)

LEMMA ReaderInit == Init => ReaderInv /\ ExactInv
<1> SUFFICES ASSUME Init PROVE ReaderInv /\ ExactInv
    OBVIOUS
<1>1. /\ rcur = 0 /\ rf = FALSE /\ buf = <<>> /\ first = <<>> /\ got = <<>> /\ cur = 0 /\ off = 0
      /\ broken = FALSE /\ sentData = 0 /\ drops = 0
    BY DEF Init
<1>2. \A i \in Segs : seg[i] = <<>> /\ Len(seg[i]) = 0 /\ seen[i] = 0
    BY DEF Init
<1>3. seen \in [Segs -> Nat]
    BY DEF Init
<1>4. ReaderTypes
    BY <1>1, <1>2, <1>3, SegLogOK, SMT DEF ReaderTypes, Written
<1>5. Behind(0) /\ Ahead(0)
    BY <1>2, SMT DEF Behind, Ahead
<1> QED BY <1>1, <1>4, <1>5 DEF ReaderInv, ExactInv

\* The reader does not move while the log grows, nor when nothing does.
LEMMA GrownReader ==
    ASSUME LogInv, ReaderInv, ExactInv, NEW f \in Frame, Grows(f),
           \/ f.t # "data" /\ sentData' = sentData
           \/ f = Data(sentData + 1) /\ sentData' = sentData + 1,
           linked' = linked \cup {cur'}, UNCHANGED <<reader, seen, drops>>
    PROVE  ReaderInv' /\ ExactInv'
<1>0. UNCHANGED <<rcur, rf, off, buf, broken, got, first, seen, drops>>
    BY DEF reader
<1>1. /\ cur \in Nat /\ sentData \in Nat /\ cur' \in Segs /\ cur' \in Nat /\ cur <= cur'
      /\ \A i \in Segs : Len(seg[i]) \in Nat /\ Len(seg'[i]) \in Nat /\ i \in Nat
      /\ rcur \in Segs /\ rcur \in Nat /\ rcur <= cur /\ cur \in linked
    BY LogNumbers, GrownNumbers, ReaderAt DEF LogInv, LogTypes, ReaderInv
<1>2. \A i \in Segs : Written(i) <= Written(i)' /\ Written(i) \in Nat /\ Written(i)' \in Nat
    BY <1>1, WholeFrames DEF Grows, Written
<1>3. ReaderTypes'
    <2>1. \A i \in Segs : seen'[i] <= Written(i)'
        BY <1>0, <1>2, SMT DEF ReaderInv, ReaderTypes
    <2>2. Len(first) \in Nat /\ Len(first) <= sentData
        BY SMT DEF ReaderInv, ReaderTypes
    <2> QED BY <1>0, <1>1, <2>1, <2>2, SMT DEF ReaderInv, ReaderTypes, Segs, Written
<1>4. ASSUME NEW k \in 0..Len(seg[rcur]), Behind(k) PROVE Behind(k)'
    <2> SUFFICES ASSUME NEW i \in Segs, NEW j \in 1..Len(seg'[i]), DataAt(i, j)',
                        Before(i, j, rcur, k + 1)
                 PROVE  seg'[i][j].v <= Len(first)
        BY <1>0 DEF Behind, DataAt, Before, Segs
    <2>1. ~(i = cur' /\ j = Len(seg'[i]))
        BY <1>1, SMT DEF Before, Grows
    <2> QED BY <1>4, <2>1, GrownData DEF Behind
<1>5. ASSUME NEW k \in Nat, Ahead(k) PROVE Ahead(k)'
    <2> SUFFICES ASSUME NEW i \in Segs, NEW j \in 1..Len(seg'[i]), DataAt(i, j)',
                        ~Before(i, j, rcur, k + 1)
                 PROVE  seg'[i][j].v > Len(first)
        BY <1>0 DEF Ahead, DataAt, Before, Segs
    <2>1. CASE i = cur' /\ j = Len(seg'[i]) /\ seg'[i][j] = f
        <3>1. seg'[i][j].v = sentData + 1
            BY <2>1, SMT DEF DataAt, Data
        <3> QED BY <1>1, <3>1, SMT DEF ReaderInv, ReaderTypes
    <2>2. CASE j \in 1..Len(seg[i]) /\ seg'[i][j] = seg[i][j] /\ DataAt(i, j)
        BY <1>5, <2>2 DEF Ahead
    <2> QED BY <2>1, <2>2, GrownData
<1>6. ASSUME NEW k \in 0..Len(seg[rcur]), Clean(k)
      PROVE  k \in 0..Len(seg'[rcur']) /\ Clean(k)'
    <2>1. off <= Written(rcur)' /\ rcur' = rcur
        <3>1. off \in Nat /\ off <= Written(rcur) /\ Written(rcur) \in Nat
            BY <1>1, <1>2, <1>6 DEF Clean, ReaderInv, ReaderTypes
        <3>2. Written(rcur) <= Parts * Len(seg'[rcur]) /\ Parts * Len(seg'[rcur]) \in Nat
            BY <1>1, <1>2 DEF Written
        <3>3. off <= Parts * Len(seg'[rcur])
            BY <3>1, <3>2, SMT
        <3> QED BY <1>0, <3>3 DEF Written
    <2> QED BY <1>0, <1>1, <1>6, <2>1, SMT DEF Clean, Grows, Piece
<1>7. ReaderInv'
    <2>1. Behind(0)'
        BY <1>1, <1>4, SMT DEF ReaderInv
    <2>2. CASE Torn
        <3>1. Torn'
            BY <1>0, <2>2 DEF Torn
        <3> QED BY <1>3, <2>1, <3>1 DEF ReaderInv
    <2>3. CASE rf /\ \E k \in 0..Len(seg[rcur]) : Clean(k) /\ Behind(k)
        <3>1. PICK k \in 0..Len(seg[rcur]) : Clean(k) /\ Behind(k)
            BY <2>3
        <3> QED BY <1>0, <1>3, <1>4, <1>6, <2>1, <2>3, <3>1 DEF ReaderInv
    <2>4. CASE ~rf /\ buf = <<>>
        BY <1>0, <1>3, <2>1, <2>4 DEF ReaderInv
    <2> QED BY <2>2, <2>3, <2>4 DEF ReaderInv
<1>8. ExactInv'
    <2> SUFFICES ASSUME drops = 0 PROVE ExactInv'
        BY <1>0 DEF ExactInv
    <2>1. ASSUME rf PROVE \E k \in 0..Len(seg'[rcur']) : Clean(k)' /\ Behind(k)' /\ Ahead(k)'
        <3>1. PICK k \in 0..Len(seg[rcur]) : Clean(k) /\ Behind(k) /\ Ahead(k)
            BY <2>1 DEF ExactInv
        <3>2. k \in Nat
            BY <1>1, SMT
        <3> QED BY <1>4, <1>5, <1>6, <3>1, <3>2
    <2>2. ASSUME ~rf, rcur \in linked' PROVE buf = <<>> /\ Ahead(0)'
        <3>1. rcur \in linked
            BY <1>1, <2>2, SMT
        <3> QED BY <1>5, <2>2, <3>1 DEF ExactInv
    <2> QED BY <1>0, <2>1, <2>2 DEF ExactInv
<1> QED BY <1>7, <1>8

-----------------------------------------------------------------------------
(* The steps that leave a part alone *)

LEMMA LogKept ==
    ASSUME LogInv, UNCHANGED <<cur, size, sentData, nctl, seg>>,
           linked' \subseteq linked, cur \in linked'
    PROVE  LogInv'
<1>1. LogTypes'
    BY DEF LogInv, LogTypes, Segs
<1>2. RollsLast'
    BY DEF LogInv, RollsLast, Segs
<1>3. Increasing'
    BY DEF LogInv, Increasing, Segs, DataAt, Before
<1>4. Chained'
    BY DEF LogInv, Chained, Segs, DataAt, Before
<1> QED BY <1>1, <1>2, <1>3, <1>4 DEF LogInv

LEMMA PositionKept ==
    ASSUME UNCHANGED <<seg, rcur, off, buf, first>>
    PROVE  /\ \A k : (Clean(k)' <=> Clean(k)) /\ (Behind(k)' <=> Behind(k)) /\ (Ahead(k)' <=> Ahead(k))
           /\ 0..Len(seg[rcur])' = 0..Len(seg[rcur])
<1>1. \A k : Clean(k)' <=> Clean(k)
    BY DEF Clean, Written, Piece
<1>2. \A k : Behind(k)' <=> Behind(k)
    BY DEF Behind, Segs, DataAt, Before
<1>3. \A k : Ahead(k)' <=> Ahead(k)
    BY DEF Ahead, Segs, DataAt, Before
<1> QED BY <1>1, <1>2, <1>3

LEMMA ReaderKept ==
    ASSUME ReaderInv, ExactInv, UNCHANGED <<seg, cur, sentData, seen, drops, reader>>,
           linked' \subseteq linked
    PROVE  ReaderInv' /\ ExactInv'
<1>1. UNCHANGED <<rcur, rf, off, buf, broken, got, first>>
    BY DEF reader
<1>2. /\ \A k : (Clean(k)' <=> Clean(k)) /\ (Behind(k)' <=> Behind(k)) /\ (Ahead(k)' <=> Ahead(k))
      /\ Len(seg[rcur])' = Len(seg[rcur])
    BY <1>1, PositionKept
<1>3. ReaderTypes' /\ (Torn' <=> Torn)
    BY <1>1 DEF ReaderInv, ReaderTypes, Torn, Segs, Written
<1>4. ReaderInv'
    BY <1>1, <1>2, <1>3 DEF ReaderInv
<1>5. ExactInv'
    BY <1>1, <1>2 DEF ExactInv
<1> QED BY <1>4, <1>5

LEMMA ReapKept ==
    ASSUME LogInv, ReaderTypes, ReapInv, UNCHANGED <<peerAck, reapOff, cur, seg, linked>>,
           got' \in Seq(Nat), Len(got) <= Len(got'), consumed' = consumed
    PROVE  ReapInv'
<1>1. consumed \in Nat /\ consumed' <= Len(got')
    BY SMT DEF ReapInv, ReaderTypes
<1> QED BY <1>1 DEF ReapInv, DataAt

LEMMA SyncKept ==
    ASSUME SyncTypes, NoUnsyncedTail, UNCHANGED <<synced, flushTimer, closed, netFS, cur, seg>>
    PROVE  SyncTypes' /\ NoUnsyncedTail'
BY DEF SyncTypes, NoUnsyncedTail, Segs, Written

-----------------------------------------------------------------------------
(* The writer's steps *)

\* What WriteData and WriteCtl have in common.
Writes(f, dataEnd) ==
    /\ append(f, dataEnd) /\ ~closed /\ dataEnd = sentData'
    /\ \/ /\ f = Ctl /\ nctl < MaxCtl
          /\ nctl' = nctl + 1 /\ sentData' = sentData
       \/ /\ f = Data(sentData + 1) /\ sentData < MaxData
          /\ nctl' = nctl /\ sentData' = sentData + 1
    /\ UNCHANGED <<peerAck, seen, netFS, drops, reader, consumed>>

LEMMA WriteStep ==
    ASSUME IInv, NEW f, NEW dataEnd, Writes(f, dataEnd)
    PROVE  IInv'
<1>1. /\ f \in Frame /\ f.t # "roll" /\ sentData' \in 0..MaxData /\ nctl' \in 0..MaxCtl
      /\ sentData' + nctl' = sentData + nctl + 1 /\ sentData + nctl < MaxData + MaxCtl
      /\ \/ f.t # "data" /\ sentData' = sentData
         \/ f = Data(sentData + 1) /\ sentData' = sentData + 1
    <2>1. MaxData \in Nat /\ MaxCtl \in Nat /\ sentData \in 0..MaxData /\ nctl \in 0..MaxCtl
        BY SegLogOK DEF IInv, LogInv, LogTypes
    <2>2. CASE /\ f = Ctl /\ nctl < MaxCtl
               /\ nctl' = nctl + 1 /\ sentData' = sentData
        BY <2>1, <2>2, SMT DEF Frame, Ctl
    <2>3. CASE /\ f = Data(sentData + 1) /\ sentData < MaxData
               /\ nctl' = nctl /\ sentData' = sentData + 1
        BY <2>1, <2>3, SMT DEF Frame, Data
    <2> QED BY <2>2, <2>3 DEF Writes
<1>2. /\ Grows(f) /\ size' \in Nat /\ linked' = linked \cup {cur'}
      /\ reapOff' = reapOff \/ (cur' = cur + 1 /\ reapOff' =
                                   reapOff \cup {[idx |-> cur, dataEnd |-> dataEnd]})
      /\ closed' = closed /\ flushTimer' = (flushTimer \/ netFS)
      /\ cur' = cur + 1 /\ netFS => synced' = [synced EXCEPT ![cur] = Parts * Len(seg'[cur])]
      /\ ~ (cur' = cur + 1 /\ netFS) => synced' = synced
    BY <1>1, AppendGrows DEF IInv, Writes
<1>3. /\ cur \in Nat /\ cur \in Segs /\ sentData \in Nat /\ cur' \in Nat /\ cur' \in Segs
      /\ cur' \in {cur, cur + 1} /\ cur <= cur' /\ cur \in linked
      /\ \A i \in Segs : i \in Nat /\ Len(seg'[i]) \in Nat /\ Len(seg[i]) \in Nat
      /\ \A i \in Segs : i < cur => seg'[i] = seg[i]
    BY <1>2, LogNumbers, GrownNumbers DEF IInv, LogInv, LogTypes, Grows
<1>4. RollsLast' /\ Increasing' /\ Chained'
    BY <1>1, <1>2, GrownLog DEF IInv
<1>5. LogInv'
    <2>1. cur' <= sentData' + nctl'
        <3>1. cur <= sentData + nctl /\ sentData \in Nat /\ nctl \in Nat /\ cur \in Nat
            <4>1. cur <= sentData + nctl /\ nctl \in 0..MaxCtl
                BY DEF IInv, LogInv, LogTypes
            <4> QED BY <1>3, <4>1, SegLogOK, SMT
        <3>2. sentData' + nctl' = sentData + nctl + 1 /\ cur' \in {cur, cur + 1}
            BY <1>1, <1>3
        <3> QED BY <3>1, <3>2, SMT
    <2>2. linked' \subseteq Segs /\ cur' \in linked' /\ seg' \in [Segs -> Seq(Frame)]
        BY <1>2, <1>3 DEF IInv, LogInv, LogTypes, Grows
    <2> QED BY <1>1, <1>2, <1>3, <1>4, <2>1, <2>2 DEF LogInv, LogTypes, Segs
<1>6. ReaderInv' /\ ExactInv'
    BY <1>1, <1>2, GrownReader DEF IInv, Writes
<1>7. \A i \in 0..(cur - 1) : i \in Segs /\ i < cur /\ i \in 0..(cur' - 1) /\ seg'[i] = seg[i]
    <2>1. \A i \in 0..(cur - 1) : i \in Segs /\ i < cur /\ i \in 0..(cur' - 1)
        <3> TAKE i \in 0..(cur - 1)
        <3>1. cur \in Nat /\ cur' \in Nat /\ cur <= cur'
            BY <1>3
        <3>2. MaxData \in Nat /\ MaxCtl \in Nat /\ cur \in Segs
            BY <1>3, SegLogOK
        <3>3. i \in Segs
            BY <3>1, <3>2, SMT DEF Segs
        <3>4. i < cur /\ i \in 0..(cur' - 1)
            <4>1. \A c, d \in Nat : c <= d => \A n \in 0..(c - 1) : n < c /\ n \in 0..(d - 1)
                BY SMT
            <4> QED BY <3>1, <4>1
        <3> QED BY <3>3, <3>4
    <2> QED BY <1>3, <2>1
<1>8. ReapInv'
    <2>1. UNCHANGED <<peerAck, consumed, got>>
        BY DEF Writes, reader
    <2>2. ASSUME NEW s \in reapOff'
          PROVE  /\ s \in [idx : 0..(cur' - 1), dataEnd : Nat]
                 /\ \A j \in 1..Len(seg'[s.idx]) : DataAt(s.idx, j)' => seg'[s.idx][j].v <= s.dataEnd
        <3>1. CASE s \in reapOff
            <4>1. s \in [idx : 0..(cur - 1), dataEnd : Nat]
                BY <3>1 DEF IInv, ReapInv
            <4>2. seg'[s.idx] = seg[s.idx] /\ s \in [idx : 0..(cur' - 1), dataEnd : Nat]
                <5>1. s.idx \in 0..(cur - 1) /\ s.dataEnd \in Nat
                    BY <4>1
                <5>2. s.idx \in 0..(cur' - 1) /\ seg'[s.idx] = seg[s.idx]
                    BY <1>7, <5>1
                <5> QED BY <4>1, <5>1, <5>2, SMT
            <4> QED BY <3>1, <4>2 DEF IInv, ReapInv, DataAt
        <3>2. CASE cur' = cur + 1 /\ s = [idx |-> cur, dataEnd |-> dataEnd]
            <4>1. s.idx = cur /\ s.dataEnd = sentData' /\ s \in [idx : 0..(cur' - 1), dataEnd : Nat]
                BY <1>1, <1>3, <3>2, SMT DEF Writes
            <4>2. \A j \in 1..Len(seg'[cur]) :
                      seg'[cur][j].t = "data" => seg'[cur][j].v \in 1..sentData'
                <5>1. \A i \in Segs : \A j \in 1..Len(seg'[i]) :
                          seg'[i][j].t = "data" => seg'[i][j].v \in 1..sentData'
                    BY <1>4 DEF Chained, DataAt, Segs
                <5> QED BY <1>3, <5>1
            <4>3. \A v \in 1..sentData' : v <= sentData'
                BY <1>1, SegLogOK, SMT
            <4> QED BY <4>1, <4>2, <4>3 DEF DataAt
        <3> QED BY <1>2, <3>1, <3>2
    <2>3. ASSUME NEW i \in 0..cur' \ linked', NEW j \in 1..Len(seg'[i]), DataAt(i, j)'
          PROVE  seg'[i][j].v <= peerAck
        <3>1. i \in 0..(cur - 1) /\ i \in 0..cur /\ i \notin linked
            BY <1>2, <1>3, SMT
        <3> QED BY <1>7, <2>3, <3>1 DEF IInv, ReapInv, DataAt
    <2> QED BY <2>1, <2>2, <2>3 DEF IInv, ReapInv, DataAt
<1>9. SyncTypes'
    <2>1. Parts * Len(seg'[cur]) \in Nat
        BY <1>3, WholeFrames
    <2> QED BY <1>2, <2>1 DEF IInv, SyncTypes, Writes, Segs
<1>10. NoUnsyncedTail'
    <2> SUFFICES ASSUME netFS, NEW i \in 0..cur', synced'[i] < Parts * Len(seg'[i])
                 PROVE  i = cur' /\ flushTimer' /\ ~closed'
        BY DEF NoUnsyncedTail, Writes, Written
    <2>1. flushTimer' /\ ~closed'
        BY <1>2 DEF Writes
    <2>2. ASSUME i \in 0..(cur - 1) PROVE FALSE
        <3>1. synced'[i] = synced[i] /\ i \in 0..cur /\ i # cur
            <4>1. i \in 0..cur /\ i # cur /\ i \in Segs
                <5>1. cur \in Nat /\ i \in Segs
                    BY <1>3, <1>7, <2>2
                <5> QED BY <2>2, <5>1, SMT
            <4> QED BY <1>2, <1>3, <4>1 DEF IInv, SyncTypes
        <3> QED BY <1>7, <2>2, <3>1 DEF IInv, NoUnsyncedTail, Written
    <2>3. ASSUME i = cur, i # cur' PROVE FALSE
        <3>1. cur' = cur + 1
            BY <1>3, <2>3
        <3>2. synced'[i] = Parts * Len(seg'[i])
            BY <1>2, <1>3, <2>3, <3>1 DEF IInv, SyncTypes
        <3>3. Parts * Len(seg'[i]) \in Nat
            BY <1>3, <2>3, WholeFrames
        <3> QED BY <3>2, <3>3, SMT
    <2>4. i \in 0..(cur - 1) \/ i = cur \/ i = cur'
        BY <1>3, SMT
    <2> QED BY <2>1, <2>2, <2>3, <2>4
<1> QED BY <1>5, <1>6, <1>8, <1>9, <1>10 DEF IInv

LEMMA SyncStep ==
    ASSUME IInv, timedFlush \/ close
    PROVE  IInv'
<1>1. /\ UNCHANGED <<cur, size, reapOff, sentData, nctl, peerAck, seg, linked, seen, netFS, drops>>
      /\ UNCHANGED <<reader, consumed>>
      /\ flushTimer' = FALSE /\ closed' \in {closed, TRUE}
      /\ synced' = synced \/ synced' = [synced EXCEPT ![cur] = Written(cur)]
      /\ netFS => synced' = [synced EXCEPT ![cur] = Written(cur)]
    BY DEF timedFlush, close
<1>2. LogInv' /\ ReaderInv' /\ ExactInv'
    BY <1>1, LogKept, ReaderKept DEF IInv, LogInv, LogTypes
<1>3. ReapInv'
    <2>1. got' = got /\ got \in Seq(Nat) /\ Len(got) \in Nat
        BY <1>1, SMT DEF reader, IInv, ReaderInv, ReaderTypes
    <2> QED BY <1>1, <2>1, ReapKept, SMT DEF IInv, ReaderInv
<1>4. cur \in Segs /\ Len(seg[cur]) \in Nat /\ Written(cur) \in Nat
    BY LogNumbers, WholeFrames DEF IInv, Written
<1>5. SyncTypes'
    BY <1>1, <1>4 DEF IInv, SyncTypes, Segs
<1>6. NoUnsyncedTail'
    <2> SUFFICES ASSUME netFS, NEW i \in 0..cur, synced'[i] < Written(i)
                 PROVE  FALSE
        BY <1>1 DEF NoUnsyncedTail, Written
    <2>1. CASE i = cur
        BY <1>1, <1>4, <2>1, SMT DEF IInv, SyncTypes
    <2>2. CASE i # cur
        <3>1. synced'[i] = synced[i]
            <4>1. i \in Segs
                BY LogNumbers, SegLogOK, SMT DEF IInv, Segs
            <4> QED BY <1>1, <2>2, <4>1 DEF IInv, SyncTypes
        <3> QED BY <2>2, <3>1 DEF IInv, NoUnsyncedTail
    <2> QED BY <2>1, <2>2
<1> QED BY <1>2, <1>3, <1>5, <1>6 DEF IInv

\* An acknowledgement: what is unlinked has been acknowledged.
LEMMA AckStep ==
    ASSUME IInv, NEW v \in 1..consumed, GetAck(v)
    PROVE  IInv'
<1> DEFINE acked == IF v > peerAck THEN v ELSE peerAck
           gone == {s \in reapOff : Consumed(s, acked)}
<1>1. /\ UNCHANGED <<cur, size, flushTimer, closed, sentData, nctl, seg, synced, seen, netFS, drops>>
      /\ UNCHANGED <<reader, consumed>> /\ peerAck' = acked
      /\ linked' = linked \ {s.idx : s \in gone} /\ reapOff' = reapOff \ gone
    BY DEF GetAck
<1>2. /\ peerAck \in Nat /\ consumed \in Nat /\ acked \in Nat /\ peerAck <= acked
      /\ acked <= consumed /\ cur \in Nat
    BY LogNumbers, SMT DEF IInv, ReapInv
<1>3. \A s \in reapOff : s.idx \in 0..(cur - 1) /\ s.dataEnd \in Nat
    BY DEF IInv, ReapInv
<1>4. cur \in linked' /\ linked' \subseteq linked
    <2>1. \A s \in gone : s.idx # cur
        BY <1>2, <1>3, SMT
    <2> QED BY <1>1, <2>1 DEF IInv, LogInv, LogTypes
<1>5. LogInv' /\ ReaderInv' /\ ExactInv' /\ SyncTypes' /\ NoUnsyncedTail'
    BY <1>1, <1>4, LogKept, ReaderKept, SyncKept DEF IInv
<1>6. ReapInv'
    <2>1. got' = got /\ peerAck' \in Nat /\ peerAck' <= consumed
        BY <1>1, <1>2 DEF reader
    <2>2. ASSUME NEW i \in 0..cur \ linked', NEW j \in 1..Len(seg[i]), DataAt(i, j)
          PROVE  seg[i][j].v <= acked
        <3>1. i \in Segs /\ seg[i] \in Seq(Frame) /\ seg[i][j].v \in Nat
            <4>1. i \in Segs
                <5>1. cur <= MaxData + MaxCtl
                    BY LogNumbers, SMT DEF IInv, Segs
                <5> QED BY <1>2, <5>1, SegLogOK, SMT DEF Segs
            <4>2. seg[i] \in Seq(Frame)
                BY <4>1, LogNumbers DEF IInv
            <4>3. seg[i][j] \in Frame
                BY <4>2, SMT
            <4> QED BY <4>1, <4>2, <4>3 DEF Frame
        <3>2. CASE i \notin linked
            <4>1. seg[i][j].v <= peerAck
                BY <2>2, <3>2 DEF IInv, ReapInv
            <4> QED BY <1>2, <3>1, <4>1, SMT
        <3>3. CASE i \in linked
            <4>1. PICK s \in gone : i = s.idx
                BY <1>1, <3>3
            <4>2. s \in reapOff /\ s.dataEnd <= acked /\ s.dataEnd \in Nat
                BY <1>3, <4>1 DEF Consumed
            <4>3. seg[i][j].v <= s.dataEnd
                BY <2>2, <4>1, <4>2 DEF IInv, ReapInv
            <4> QED BY <1>2, <3>1, <4>2, <4>3, SMT
        <3> QED BY <3>2, <3>3
    <2> QED BY <1>1, <2>1, <2>2 DEF IInv, ReapInv, DataAt
<1> QED BY <1>5, <1>6 DEF IInv

LEMMA ConsumeStep ==
    ASSUME IInv, Consume
    PROVE  IInv'
<1>1. /\ UNCHANGED <<writer, peerAck, files, seen, netFS, drops, reader>>
      /\ consumed' = consumed + 1 /\ consumed < Len(got)
    BY DEF Consume
<1>2. UNCHANGED <<cur, size, reapOff, flushTimer, closed, sentData, nctl, seg, linked, synced, got>>
    BY <1>1 DEF writer, files, reader
<1>3. LogInv' /\ ReaderInv' /\ ExactInv' /\ SyncTypes' /\ NoUnsyncedTail'
    BY <1>1, <1>2, LogKept, ReaderKept, SyncKept DEF IInv, LogInv, LogTypes
<1>4. /\ peerAck \in Nat /\ consumed \in Nat /\ peerAck <= consumed
      /\ got \in Seq(Nat)
    BY DEF IInv, ReapInv, ReaderInv, ReaderTypes
<1>5. consumed' \in Nat /\ peerAck <= consumed' /\ consumed' <= Len(got)
    BY <1>1, <1>4, SMT
<1> QED BY <1>1, <1>2, <1>3, <1>5 DEF IInv, ReapInv, DataAt

LEMMA AppearStep ==
    ASSUME IInv, NEW i \in Segs, Appear(i)
    PROVE  IInv'
<1>1. /\ UNCHANGED <<writer, peerAck, files, netFS, drops, reader, consumed>>
      /\ seen[i] < Written(i) /\ seen' = [seen EXCEPT ![i] = seen[i] + 1]
    BY DEF Appear
<1>2. /\ UNCHANGED <<cur, size, reapOff, flushTimer, closed, sentData, nctl, seg, linked, synced>>
      /\ UNCHANGED <<rcur, rf, off, buf, broken, got, first>>
    BY <1>1 DEF writer, files, reader
<1>3. LogInv' /\ SyncTypes' /\ NoUnsyncedTail'
    BY <1>1, <1>2, LogKept, SyncKept DEF IInv, LogInv, LogTypes
<1>4. ReapInv'
    BY <1>1, <1>2 DEF IInv, ReapInv, DataAt
<1>5. /\ \A k : (Clean(k)' <=> Clean(k)) /\ (Behind(k)' <=> Behind(k)) /\ (Ahead(k)' <=> Ahead(k))
      /\ Len(seg[rcur])' = Len(seg[rcur])
    BY <1>2, PositionKept
<1>6. ReaderTypes'
    <2>1. seen[i] \in Nat /\ Written(i) \in Nat /\ seen \in [Segs -> Nat]
        BY LogNumbers, WholeFrames DEF IInv, ReaderInv, ReaderTypes, Written
    <2>2. seen[i] + 1 \in Nat /\ seen[i] + 1 <= Written(i)
        BY <1>1, <2>1, SMT
    <2>3. seen' \in [Segs -> Nat] /\ \A n \in Segs : seen'[n] <= Written(n)
        BY <1>1, <2>1, <2>2 DEF IInv, ReaderInv, ReaderTypes
    <2> QED BY <1>1, <1>2, <2>3 DEF IInv, ReaderInv, ReaderTypes, Segs, Written
<1>7. ReaderInv'
    BY <1>2, <1>5, <1>6 DEF IInv, ReaderInv, Torn
<1>8. ExactInv'
    BY <1>1, <1>2, <1>5 DEF IInv, ExactInv
<1> QED BY <1>3, <1>4, <1>7, <1>8 DEF IInv

-----------------------------------------------------------------------------
(* The reader's steps *)

\* Whatever the reader does, it leaves the log, and what is reaped and synced.
LEMMA ReaderSide ==
    ASSUME IInv, UNCHANGED <<writer, peerAck, files, seen, netFS, consumed>>,
           ReaderInv', ExactInv', Len(got) <= Len(got')
    PROVE  IInv'
<1>1. UNCHANGED <<cur, size, reapOff, flushTimer, closed, sentData, nctl, seg, linked, synced>>
    BY DEF writer, files
<1>2. LogInv' /\ SyncTypes' /\ NoUnsyncedTail'
    BY <1>1, LogKept, SyncKept DEF IInv, LogInv, LogTypes
<1>3. got' \in Seq(Nat)
    BY DEF ReaderInv, ReaderTypes
<1>4. ReapInv'
    BY <1>1, <1>3, ReapKept DEF IInv, ReaderInv
<1> QED BY <1>2, <1>4 DEF IInv

LEMMA OpenStep ==
    ASSUME IInv, Open
    PROVE  IInv'
<1>1. /\ UNCHANGED <<seg, cur, sentData, linked, seen, drops, rcur, buf, broken, got, first>>
      /\ UNCHANGED <<writer, peerAck, files, netFS, consumed>>
      /\ ~rf /\ rf' = TRUE /\ off' = 0 /\ rcur \in linked
    BY DEF Open, writer, files, stream
<1>2. ReaderTypes'
    BY <1>1, SMT DEF IInv, ReaderInv, ReaderTypes, Segs, Written
<1>3. \A k : (Behind(k)' <=> Behind(k)) /\ (Ahead(k)' <=> Ahead(k))
    BY <1>1 DEF Behind, Ahead, DataAt, Before, Segs
<1>4. Len(seg[rcur]) \in Nat /\ rcur' = rcur /\ seg' = seg
    BY <1>1, LogNumbers, ReaderAt DEF IInv, ReaderInv
<1>5. ASSUME buf = <<>> PROVE 0 \in 0..Len(seg'[rcur']) /\ Clean(0)'
    <2>1. Parts * 0 = 0 /\ 0 <= Parts * Len(seg[rcur])
        BY <1>4, WholeFrames, SegLogOK, SMT
    <2>2. off' = Parts * 0 + Len(buf')
        BY <1>1, <1>5, <2>1, SMT
    <2>3. \A j \in 1..Len(buf') : buf'[j] = Piece(rcur', Parts * 0 + j)
        BY <1>1, <1>5, SMT
    <2>4. 0 \in 0..Len(seg'[rcur'])
        BY <1>4, SMT
    <2> QED BY <1>1, <1>4, <2>1, <2>2, <2>3, <2>4 DEF Clean, Written, Piece
<1>6. ReaderInv'
    <2>1. CASE Torn
        <3>1. Torn'
            BY <1>1, <2>1 DEF Torn
        <3> QED BY <1>2, <1>3, <3>1 DEF IInv, ReaderInv
    <2>2. CASE buf = <<>>
        BY <1>1, <1>2, <1>3, <1>5, <2>2 DEF IInv, ReaderInv
    <2> QED BY <1>1, <2>1, <2>2 DEF IInv, ReaderInv
<1>7. ExactInv'
    <2> SUFFICES ASSUME drops = 0 PROVE ExactInv'
        BY <1>1 DEF ExactInv
    <2>1. ~broken /\ got = first /\ buf = <<>> /\ Ahead(0) /\ Behind(0)
        BY <1>1 DEF IInv, ExactInv, ReaderInv
    <2> QED BY <1>1, <1>3, <1>5, <2>1 DEF ExactInv
<1>8. Len(got) <= Len(got')
    BY <1>1, SMT DEF IInv, ReaderInv, ReaderTypes
<1> QED BY <1>1, <1>6, <1>7, <1>8, ReaderSide

LEMMA CorruptStep ==
    ASSUME IInv, Corrupt
    PROVE  IInv'
<1>1. /\ UNCHANGED <<seg, cur, sentData, linked, seen, drops, rcur, rf, off, buf, got, first>>
      /\ UNCHANGED <<writer, peerAck, files, netFS, consumed>>
      /\ rf /\ Complete /\ ~Sound
    BY DEF Corrupt, writer, files, stream
<1>2. drops # 0
    <2>1. ASSUME drops = 0 PROVE FALSE
        <3>1. PICK k \in 0..Len(seg[rcur]) : Clean(k)
            BY <1>1, <2>1 DEF IInv, ExactInv
        <3> QED BY <1>1, <3>1, CleanSound DEF IInv, ReaderInv
    <2> QED BY <2>1
<1>3. ExactInv'
    BY <1>1, <1>2 DEF ExactInv
<1>4. ReaderTypes' /\ (Torn' <=> Torn)
    BY <1>1 DEF IInv, ReaderInv, ReaderTypes, Torn, Segs, Written
<1>5. /\ \A k : (Clean(k)' <=> Clean(k)) /\ (Behind(k)' <=> Behind(k))
      /\ Len(seg[rcur])' = Len(seg[rcur])
    BY <1>1, PositionKept
<1>6. ReaderInv'
    BY <1>1, <1>4, <1>5 DEF IInv, ReaderInv
<1>7. Len(got) <= Len(got')
    BY <1>1, SMT DEF IInv, ReaderInv, ReaderTypes
<1> QED BY <1>1, <1>3, <1>6, <1>7, ReaderSide

LEMMA DropStep ==
    ASSUME IInv, fillDrops
    PROVE  IInv'
<1>1. /\ UNCHANGED <<seg, cur, sentData, linked, seen, rcur, off, buf, broken, got, first>>
      /\ UNCHANGED <<writer, peerAck, files, netFS, consumed>>
      /\ rf /\ rf' = FALSE /\ ~Complete
      /\ IF rcur \in linked THEN drops' = drops + 1 ELSE drops' = drops
    BY DEF fillDrops, writer, files, stream
<1>2. drops' \in Nat /\ (drops' = 0 => drops = 0 /\ rcur \notin linked)
    BY <1>1, SMT DEF IInv, ReaderInv, ReaderTypes
<1>3. ReaderTypes'
    BY <1>1, <1>2 DEF IInv, ReaderInv, ReaderTypes, Segs, Written
<1>4. \A k : Behind(k)' <=> Behind(k)
    BY <1>1, PositionKept
<1>5. ReaderInv'
    <2>1. CASE Torn
        <3>1. Torn'
            BY <1>1, <2>1 DEF Torn
        <3> QED BY <1>3, <1>4, <3>1 DEF IInv, ReaderInv
    <2>2. CASE \E k \in 0..Len(seg[rcur]) : Clean(k)
        <3>1. PICK k \in 0..Len(seg[rcur]) : Clean(k)
            BY <2>2
        <3>2. /\ buf \in Seq(Pieces) /\ Len(buf) \in Nat /\ k \in Nat
              /\ Parts \in Nat /\ Len(buf) < Parts
            <4>1. buf \in Seq(Pieces) /\ Parts \in Nat /\ Len(seg[rcur]) \in Nat
                BY LogNumbers, ReaderAt DEF IInv, ReaderInv, ReaderTypes
            <4> QED BY <1>1, <4>1, SMT DEF Complete
        <3>3. CASE Len(buf) = 0
            <4>1. buf' = <<>>
                BY <1>1, <3>2, <3>3, EmptySeq
            <4> QED BY <1>1, <1>3, <1>4, <4>1 DEF IInv, ReaderInv
        <3>4. CASE Len(buf) # 0
            <4>1. Len(buf) \in 1..(Parts - 1) /\ Len(buf) <= Len(buf) /\ ~(Len(buf) < Len(buf))
                BY <3>2, <3>4, SMT
            <4>2. ASSUME NEW j \in 1..Len(buf) PROVE buf[j].part = j
                <5>1. j \in 1..Parts
                    BY <3>2, SMT
                <5>2. buf[j] = [at |-> rcur, frame |-> k + 1, part |-> j]
                    BY <3>1, <3>2, <5>1, PieceAt DEF Clean
                <5> QED BY <5>2, SMT
            <4>3. Torn'
                BY <1>1, <4>1, <4>2 DEF Torn
            <4> QED BY <1>3, <1>4, <4>3 DEF IInv, ReaderInv
        <3> QED BY <3>3, <3>4
    <2> QED BY <1>1, <2>1, <2>2 DEF IInv, ReaderInv
<1>6. ExactInv'
    BY <1>1, <1>2 DEF IInv, ExactInv
<1>7. Len(got) <= Len(got')
    BY <1>1, SMT DEF IInv, ReaderInv, ReaderTypes
<1> QED BY <1>1, <1>5, <1>6, <1>7, ReaderSide

\* fill reads on where the carry-over ends.
LEMMA FillReads ==
    ASSUME IInv, fill
    PROVE  /\ off' \in Nat /\ off' <= Written(rcur) /\ off < off'
           /\ buf' \in Seq(Pieces) /\ Len(buf') = Len(buf) + (off' - off)
           /\ \A j \in 1..Len(buf) : buf'[j] = buf[j]
           /\ \A j \in 1..(off' - off) : buf'[Len(buf) + j] = Piece(rcur, off + j)
<1>1. /\ off < Visible(rcur) /\ off' = Visible(rcur)
      /\ buf' = buf \o [k \in 1..(Visible(rcur) - off) |-> Piece(rcur, off + k)]
    BY DEF fill
<1>2. rcur \in Segs /\ rcur \in Nat /\ Written(rcur) \in Nat /\ off \in Nat /\ buf \in Seq(Pieces)
    BY LogNumbers, ReaderAt, WholeFrames DEF IInv, ReaderInv, ReaderTypes, Written
<1>3. Visible(rcur) \in Nat /\ Visible(rcur) <= Written(rcur)
    <2>1. seen[rcur] \in Nat /\ seen[rcur] <= Written(rcur)
        BY <1>2 DEF IInv, ReaderInv, ReaderTypes
    <2>2. Written(rcur) <= Written(rcur)
        BY <1>2, SMT
    <2> QED BY <1>2, <2>1, <2>2 DEF Visible
<1> DEFINE n == off' - off
           more == [k \in 1..n |-> Piece(rcur, off + k)]
<1>4. n \in Nat /\ n > 0
    BY <1>1, <1>2, <1>3, SMT
<1>5. \A k \in 1..n : Piece(rcur, off + k) \in Pieces
    <2> TAKE k \in 1..n
    <2>1. off + k \in Nat \ {0}
        BY <1>2, <1>4, SMT
    <2> QED BY <1>2, <2>1, PieceIs
<1> HIDE DEF n
<1>6. more \in Seq(Pieces) /\ Len(more) = n /\ \A k \in 1..n : more[k] = Piece(rcur, off + k)
    <2>1. more \in [1..n -> Pieces]
        BY <1>5
    <2> HIDE DEF more
    <2>2. more \in Seq(Pieces) /\ DOMAIN more = 1..n
        BY <1>4, <2>1, SeqDef
    <2>3. Len(more) = n
        BY <1>4, <2>2, SMT
    <2> QED BY <2>2, <2>3 DEF more
<1>7. buf' = buf \o more
    BY <1>1 DEF n
<1> HIDE DEF more
<1>8. /\ buf' \in Seq(Pieces) /\ Len(buf') = Len(buf) + n
      /\ \A j \in 1..Len(buf) : buf'[j] = buf[j]
      /\ \A j \in 1..n : buf'[Len(buf) + j] = more[j]
    <2>1. Len(buf) \in Nat /\ Len(more) = n /\ n \in Nat
        BY <1>2, <1>4, <1>6, LenProperties
    <2>2. /\ buf' \in Seq(Pieces) /\ Len(buf') = Len(buf) + n
          /\ \A j \in 1..(Len(buf) + n) :
                buf'[j] = IF j <= Len(buf) THEN buf[j] ELSE more[j - Len(buf)]
        <3>1. /\ buf \o more \in Seq(Pieces) /\ Len(buf \o more) = Len(buf) + Len(more)
              /\ \A j \in 1..(Len(buf) + Len(more)) :
                    (buf \o more)[j] = IF j <= Len(buf) THEN buf[j] ELSE more[j - Len(buf)]
            BY <1>2, <1>6, ConcatProperties
        <3>2. /\ buf' \in Seq(Pieces) /\ Len(buf') = Len(buf) + Len(more)
              /\ \A j \in 1..(Len(buf) + Len(more)) :
                    buf'[j] = IF j <= Len(buf) THEN buf[j] ELSE more[j - Len(buf)]
            BY <1>7, <3>1
        <3> QED BY <2>1, <3>2
    <2>3. ASSUME NEW j \in 1..Len(buf) PROVE buf'[j] = buf[j]
        <3>1. j \in 1..(Len(buf) + n) /\ j <= Len(buf)
            BY <2>1, SMT
        <3> QED BY <2>2, <3>1
    <2>4. ASSUME NEW j \in 1..n PROVE buf'[Len(buf) + j] = more[j]
        <3>1. /\ Len(buf) + j \in 1..(Len(buf) + n) /\ ~(Len(buf) + j <= Len(buf))
              /\ (Len(buf) + j) - Len(buf) = j
            BY <2>1, SMT
        <3> QED BY <2>2, <3>1
    <2> QED BY <2>2, <2>3, <2>4
<1> QED BY <1>1, <1>3, <1>6, <1>8 DEF n

LEMMA FillStep ==
    ASSUME IInv, fill
    PROVE  IInv'
<1>1. /\ UNCHANGED <<seg, cur, sentData, linked, seen, drops, rcur, rf, broken, got, first>>
      /\ UNCHANGED <<writer, peerAck, files, netFS, consumed>>
      /\ rf
    BY DEF fill, writer, files, stream
<1>2. /\ off' \in Nat /\ off' <= Written(rcur) /\ off < off'
      /\ buf' \in Seq(Pieces) /\ Len(buf') = Len(buf) + (off' - off)
      /\ \A j \in 1..Len(buf) : buf'[j] = buf[j]
      /\ \A j \in 1..(off' - off) : buf'[Len(buf) + j] = Piece(rcur, off + j)
    BY FillReads
<1>3. /\ off \in Nat /\ off' \in Nat /\ Len(buf) \in Nat /\ Len(buf') \in Nat
      /\ off < off' /\ Len(buf') = Len(buf) + (off' - off)
    <2>1. off \in Nat /\ buf \in Seq(Pieces) /\ buf' \in Seq(Pieces)
        BY <1>2 DEF IInv, ReaderInv, ReaderTypes
    <2> QED BY <1>2, <2>1, LenProperties
<1>4. rcur \in Segs /\ rcur \in Nat /\ Len(seg[rcur]) \in Nat
    BY LogNumbers, ReaderAt DEF IInv, ReaderInv
<1>5. ReaderTypes'
    BY <1>1, <1>2 DEF IInv, ReaderInv, ReaderTypes, Segs, Written
<1>6. \A k : (Behind(k)' <=> Behind(k)) /\ (Ahead(k)' <=> Ahead(k))
    BY <1>1 DEF Behind, Ahead, DataAt, Before, Segs
<1>7. ASSUME NEW k \in 0..Len(seg[rcur]), Clean(k)
      PROVE  k \in 0..Len(seg'[rcur']) /\ Clean(k)'
    <2>1. Parts * k \in Nat
        <3>1. k \in Nat
            BY <1>4, SMT
        <3> QED BY <3>1, WholeFrames
    <2>2. off = Parts * k + Len(buf)
        BY <1>7 DEF Clean
    <2>3. off' = Parts * k + Len(buf')
        <3>1. \A P, L, n \in Nat : n = P + (L + (n - (P + L)))
            BY SMT
        <3>2. off' = Parts * k + (Len(buf) + (off' - (Parts * k + Len(buf))))
            BY <1>3, <2>1, <3>1
        <3>3. Len(buf') = Len(buf) + (off' - off)
            BY <1>3
        <3> QED BY <2>2, <3>2, <3>3
    <2>4. ASSUME NEW j \in 1..Len(buf') PROVE buf'[j] = Piece(rcur, Parts * k + j)
        <3>1. CASE j \in 1..Len(buf)
            BY <1>2, <1>7, <3>1 DEF Clean
        <3>2. CASE j \notin 1..Len(buf)
            <4>1. /\ j - Len(buf) \in 1..(off' - off) /\ Len(buf) + (j - Len(buf)) = j
                  /\ off + (j - Len(buf)) = Parts * k + j
                <5>1. j \in 1..(Len(buf) + (off' - off)) /\ j \in Nat
                    BY <1>3, SMT
                <5>2. \A L, n, o \in Nat : \A i \in 1..(L + (n - o)) :
                          i \notin 1..L => i - L \in 1..(n - o)
                    BY SMT
                <5>3. (Parts * k + Len(buf)) + (j - Len(buf)) = Parts * k + j
                    <6>1. \A P, L, i \in Nat : (P + L) + (i - L) = P + i
                        BY SMT
                    <6> QED BY <1>3, <2>1, <5>1, <6>1
                <5>4. Len(buf) + (j - Len(buf)) = j
                    <6>1. \A L, i \in Nat : L + (i - L) = i
                        BY SMT
                    <6> QED BY <1>3, <5>1, <6>1
                <5> QED BY <1>3, <2>2, <3>2, <5>1, <5>2, <5>3, <5>4
            <4> QED BY <1>2, <4>1
        <3> QED BY <3>1, <3>2
    <2> QED BY <1>1, <1>2, <2>3, <2>4 DEF Clean, Written, Piece
<1>8. ASSUME Torn PROVE Torn'
    <2>1. PICK b \in 1..(Parts - 1) :
              /\ b <= Len(buf) /\ \A j \in 1..b : buf[j].part = j
              /\ b < Len(buf) => buf[b + 1].part = 1
              /\ b = Len(buf) /\ rf => off = 0
        BY <1>8 DEF Torn
    <2>2. b <= Len(buf') /\ b # Len(buf')
        BY <1>3, <2>1, SegLogOK, SMT
    <2>3. ASSUME NEW j \in 1..b PROVE buf'[j].part = j
        <3>1. j \in 1..Len(buf)
            BY <1>3, <2>1, SegLogOK, SMT
        <3> QED BY <1>2, <2>1, <3>1
    <2>4. buf'[b + 1].part = 1
        <3>1. CASE b < Len(buf)
            <4>1. b + 1 \in 1..Len(buf)
                BY <1>3, <3>1, SegLogOK, SMT
            <4> QED BY <1>2, <2>1, <3>1, <4>1
        <3>2. CASE ~(b < Len(buf))
            <4>1. b = Len(buf) /\ 1 \in 1..(off' - off)
                <5>1. \A n, o \in Nat : o < n => 1 \in 1..(n - o)
                    BY SMT
                <5>2. b = Len(buf)
                    BY <1>3, <2>1, <3>2, SegLogOK, SMT
                <5> QED BY <1>3, <5>1, <5>2
            <4>2. off = 0 /\ off + 1 = 1
                BY <1>1, <2>1, <4>1, SMT
            <4>3. buf'[b + 1] = Piece(rcur, 1)
                BY <1>2, <4>1, <4>2
            <4>4. 1 \in Nat \ {0}
                BY SMT
            <4> QED BY <1>4, <4>3, <4>4, PieceIs
        <3> QED BY <3>1, <3>2
    <2> QED BY <2>2, <2>3, <2>4 DEF Torn
<1>9. ReaderInv'
    <2>1. CASE Torn
        BY <1>5, <1>6, <1>8, <2>1 DEF IInv, ReaderInv
    <2>2. CASE \E k \in 0..Len(seg[rcur]) : Clean(k) /\ Behind(k)
        BY <1>1, <1>5, <1>6, <1>7, <2>2 DEF IInv, ReaderInv
    <2> QED BY <1>1, <2>1, <2>2 DEF IInv, ReaderInv
<1>10. ExactInv'
    BY <1>1, <1>6, <1>7 DEF IInv, ExactInv
<1>11. Len(got) <= Len(got')
    BY <1>1, SMT DEF IInv, ReaderInv, ReaderTypes
<1> QED BY <1>1, <1>9, <1>10, <1>11, ReaderSide

-----------------------------------------------------------------------------
(* Decoding *)

\* The frame decoded is the one after those that are behind the reader.
LEMMA DecodeAt ==
    ASSUME IInv, rf, Complete, Sound
    PROVE  \E k \in 0..Len(seg[rcur]) :
               /\ k \in Nat /\ Clean(k) /\ Behind(k) /\ (drops = 0 => Ahead(k))
               /\ k + 1 \in 1..Len(seg[rcur]) /\ seg[buf[1].at][buf[1].frame] = seg[rcur][k + 1]
<1>1. ~Torn
    BY TornUnsound DEF IInv, ReaderInv
<1>2. \E k \in 0..Len(seg[rcur]) : Clean(k) /\ Behind(k) /\ (drops = 0 => Ahead(k))
    BY <1>1 DEF IInv, ReaderInv, ExactInv
<1>3. PICK k \in 0..Len(seg[rcur]) : Clean(k) /\ Behind(k) /\ (drops = 0 => Ahead(k))
    BY <1>2
<1>4. k + 1 \in 1..Len(seg[rcur]) /\ buf[1].at = rcur /\ buf[1].frame = k + 1
    BY <1>3, CleanSound DEF IInv, ReaderInv
<1>5. k \in Nat
    <2>1. Len(seg[rcur]) \in Nat
        BY LogNumbers, ReaderAt DEF IInv, ReaderInv
    <2> QED BY <2>1, SMT
<1> QED BY <1>3, <1>4, <1>5

\* A byte that is decoded is the next new one, or an old one.
LEMMA Delivers ==
    ASSUME LogInv, ReaderTypes, NEW k \in Nat, Behind(k), k + 1 \in 1..Len(seg[rcur]),
           NEW f, f = seg[rcur][k + 1], f.t = "data", dispatch(f)
    PROVE  /\ f.v \in Nat /\ f.v <= sentData /\ got' = Append(got, f.v)
           /\ \/ f.v <= Len(first) /\ first' = first
              \/ f.v = Len(first) + 1 /\ first' = Append(first, f.v)
<1>1. rcur \in Segs /\ sentData \in Nat
    BY LogNumbers, ReaderAt
<1>2. DataAt(rcur, k + 1)
    BY DEF DataAt
<1>3. /\ f.v \in 1..sentData
      /\ f.v > 1 => \E a \in Segs : \E b \in 1..Len(seg[a]) :
                        Before(a, b, rcur, k + 1) /\ DataAt(a, b) /\ seg[a][b].v = f.v - 1
    BY <1>1, <1>2 DEF LogInv, Chained
<1>4. first \in Seq(Nat) /\ Len(first) \in Nat /\ \A n \in 1..Len(first) : first[n] = n
    BY LenProperties DEF ReaderTypes
<1>5. f.v \in Nat /\ f.v >= 1 /\ f.v <= sentData
    BY <1>1, <1>3, SMT
<1>6. f.v > 1 => f.v - 1 <= Len(first)
    BY <1>3 DEF Behind
<1>7. f.v <= Len(first) + 1
    BY <1>4, <1>5, <1>6, SMT
<1>8. got' = Append(got, f.v)
    BY DEF dispatch
<1>9. CASE f.v <= Len(first)
    <2>1. f.v \in 1..Len(first)
        BY <1>4, <1>5, <1>9, SMT
    <2>2. first[f.v] = f.v /\ f.v \in DOMAIN first
        <3>1. DOMAIN first = 1..Len(first)
            BY <1>4, LenProperties
        <3> QED BY <1>4, <2>1, <3>1
    <2>3. f.v \in Range(first)
        BY <2>2 DEF Range
    <2> QED BY <1>5, <1>8, <1>9, <2>3 DEF dispatch
<1>10. CASE f.v = Len(first) + 1
    <2>1. \A n \in DOMAIN first : first[n] # f.v
        <3>1. DOMAIN first = 1..Len(first)
            BY <1>4, LenProperties
        <3>2. \A n \in 1..Len(first) : n # f.v
            BY <1>4, <1>10, SMT
        <3> QED BY <1>4, <3>1, <3>2
    <2>2. f.v \notin Range(first)
        BY <2>1 DEF Range
    <2> QED BY <1>5, <1>8, <1>10, <2>2 DEF dispatch
<1> QED BY <1>4, <1>5, <1>7, <1>9, <1>10, SMT

\* What is behind the reader stays behind it, and one frame more is.
LEMMA Passes ==
    ASSUME LogInv, ReaderTypes, NEW k \in Nat, Behind(k), UNCHANGED <<seg, rcur>>,
           Len(first') \in Nat, Len(first) <= Len(first'),
           DataAt(rcur, k + 1) => seg[rcur][k + 1].v <= Len(first')
    PROVE  Behind(k)' /\ Behind(k + 1)'
<1>1. ASSUME NEW i \in Segs, NEW j \in 1..Len(seg[i]), DataAt(i, j), Before(i, j, rcur, k + 1)
      PROVE  seg[i][j].v <= Len(first')
    <2>1. seg[i][j].v <= Len(first)
        BY <1>1 DEF Behind
    <2>2. seg[i][j].v \in Nat /\ Len(first) \in Nat
        <3>1. seg[i][j] \in Frame
            BY LogNumbers, ElementOfSeq
        <3>2. first \in Seq(Nat)
            BY DEF ReaderTypes
        <3> QED BY <3>1, <3>2, LenProperties DEF Frame
    <2> QED BY <2>1, <2>2, SMT
<1>2. ASSUME NEW i \in Segs, NEW j \in 1..Len(seg[i]), Before(i, j, rcur, k + 2)
      PROVE  Before(i, j, rcur, k + 1) \/ (i = rcur /\ j = k + 1)
    <2>1. i \in Nat /\ rcur \in Nat /\ Len(seg[i]) \in Nat
        BY LogNumbers, ReaderAt
    <2> QED BY <1>2, <2>1, SMT DEF Before
<1>3. (k + 1) + 1 = k + 2
    BY SMT
<1>4. Behind(k)'
    BY <1>1 DEF Behind, DataAt, Before, Segs
<1>5. ASSUME NEW i \in Segs, NEW j \in 1..Len(seg[i]), DataAt(i, j), Before(i, j, rcur, k + 2)
      PROVE  seg[i][j].v <= Len(first')
    BY <1>1, <1>2, <1>5
<1>6. Behind(k + 1)'
    BY <1>3, <1>5 DEF Behind, DataAt, Before, Segs
<1> QED BY <1>4, <1>6

\* The carry-over without the frame is that of a reader one frame on.
LEMMA Advances ==
    ASSUME IInv, NEW k \in Nat, Clean(k), k + 1 \in 1..Len(seg[rcur]), Complete,
           UNCHANGED <<seg, rcur, off>>, buf' = SubSeq(buf, Parts + 1, Len(buf))
    PROVE  k + 1 \in 0..Len(seg'[rcur']) /\ Clean(k + 1)' /\ buf' \in Seq(Pieces)
<1>1. /\ buf \in Seq(Pieces) /\ Len(buf) \in Nat /\ Parts \in Nat /\ Parts * k \in Nat
      /\ Len(buf) >= Parts /\ Parts * (k + 1) = Parts * k + Parts /\ Len(seg[rcur]) \in Nat
    BY LogNumbers, ReaderAt, WholeFrames, LenProperties
       DEF IInv, ReaderInv, ReaderTypes, Complete
<1>2. /\ buf' \in Seq(Pieces) /\ Len(buf') = Len(buf) - Parts
      /\ \A j \in 1..(Len(buf) - Parts) : buf'[j] = buf[Parts + j]
    BY <1>1, SMT
<1>3. off' = Parts * (k + 1) + Len(buf')
    <2>1. off = Parts * k + Len(buf)
        BY DEF Clean
    <2>2. \A a, p, n \in Nat : a + n = (a + p) + (n - p)
        BY SMT
    <2>3. Parts * k + Len(buf) = (Parts * k + Parts) + (Len(buf) - Parts)
        BY <1>1, <2>2
    <2>4. off' = off /\ Parts * (k + 1) = Parts * k + Parts /\ Len(buf') = Len(buf) - Parts
        BY <1>1, <1>2
    <2> QED BY <2>1, <2>3, <2>4
<1>4. ASSUME NEW j \in 1..Len(buf') PROVE buf'[j] = Piece(rcur', Parts * (k + 1) + j)
    <2>1. /\ j \in 1..(Len(buf) - Parts) /\ Parts + j \in 1..Len(buf)
          /\ Parts * k + (Parts + j) = Parts * (k + 1) + j
        BY <1>1, <1>2, SMT
    <2>2. buf[Parts + j] = Piece(rcur, Parts * k + (Parts + j))
        BY <2>1 DEF Clean
    <2> QED BY <1>2, <2>1, <2>2
<1>5. k + 1 \in 0..Len(seg'[rcur'])
    BY <1>1, SMT
<1>6. off' <= Parts * Len(seg'[rcur'])
    BY DEF Clean, Written
<1> QED BY <1>2, <1>3, <1>4, <1>5, <1>6 DEF Clean, Written, Piece

\* After a ROLL the reader is at the start of the next segment.
LEMMA RollStep ==
    ASSUME IInv, NEW k \in Nat, Behind(k), drops = 0 => Ahead(k),
           k + 1 \in 1..Len(seg[rcur]), seg[rcur][k + 1].t = "roll",
           UNCHANGED <<seg, cur, sentData, linked, seen, drops, off, broken, got, first>>,
           rcur' = seg[rcur][k + 1].v, rf' = FALSE, buf' = <<>>
    PROVE  ReaderInv' /\ ExactInv'
<1>1. rcur \in Segs /\ rcur \in Nat /\ cur \in Nat /\ \A i \in Segs : i \in Nat /\ Len(seg[i]) \in Nat
    BY LogNumbers, ReaderAt DEF IInv, ReaderInv
<1>2. rcur < cur /\ k + 1 = Len(seg[rcur]) /\ rcur' = rcur + 1
    BY <1>1 DEF IInv, LogInv, RollsLast
<1>3. rcur' \in 0..cur' /\ rcur' \in Nat
    BY <1>1, <1>2, SMT
<1>4. ReaderTypes'
    <2>1. buf' \in Seq(Pieces)
        BY SMT
    <2> QED BY <1>3, <2>1 DEF IInv, ReaderInv, ReaderTypes, Segs, Written
<1>5. ASSUME NEW i \in Segs, NEW j \in 1..Len(seg[i]), DataAt(i, j)
      PROVE  Before(i, j, rcur', 1) <=> Before(i, j, rcur, k + 1)
    <2>1. ~(i = rcur /\ j = k + 1)
        BY <1>5 DEF DataAt
    <2>2. i \in Nat /\ j \in Nat /\ 1 <= j /\ (i = rcur => j <= k + 1)
        <3>1. Len(seg[i]) \in Nat /\ i \in Nat
            BY <1>1
        <3>2. j \in Nat /\ 1 <= j /\ j <= Len(seg[i])
            BY <3>1, SMT
        <3> QED BY <1>2, <3>1, <3>2
    <2> QED BY <1>1, <1>2, <2>1, <2>2, SMT DEF Before
<1>6. 0 + 1 = 1
    BY SMT
<1>7. Behind(0)'
    BY <1>5, <1>6 DEF Behind, DataAt, Before, Segs
<1>8. drops = 0 => Ahead(0)'
    BY <1>5, <1>6 DEF Ahead, DataAt, Before, Segs
<1> QED BY <1>4, <1>7, <1>8 DEF IInv, ReaderInv, ExactInv

\* After another frame it is one frame on, and has delivered a byte or not.
LEMMA FrameStep ==
    ASSUME IInv, NEW k \in Nat, Clean(k), Behind(k), drops = 0 => Ahead(k), Complete, rf,
           k + 1 \in 1..Len(seg[rcur]), NEW f, f = seg[rcur][k + 1], f.t # "roll", dispatch(f),
           UNCHANGED <<seg, cur, sentData, linked, seen, drops, off, broken, rcur, rf>>,
           buf' = SubSeq(buf, Parts + 1, Len(buf))
    PROVE  ReaderInv' /\ ExactInv'
<1>1. /\ first \in Seq(Nat) /\ Len(first) \in Nat /\ got \in Seq(Nat) /\ sentData \in Nat
      /\ Len(first) <= sentData /\ \A n \in 1..Len(first) : first[n] = n
    BY LogNumbers, LenProperties DEF IInv, ReaderInv, ReaderTypes
<1>2. k + 1 \in 0..Len(seg'[rcur']) /\ Clean(k + 1)' /\ buf' \in Seq(Pieces)
    BY Advances
<1>3. /\ first' \in Seq(Nat) /\ Len(first') \in Nat /\ Len(first) <= Len(first')
      /\ got' \in Seq(Nat) /\ Len(first') <= sentData
      /\ \A n \in 1..Len(first') : first'[n] = n
      /\ f.t = "data" => f.v <= Len(first')
    <2>1. CASE f.t # "data"
        <3>1. first' = first /\ got' = got
            BY <2>1 DEF dispatch
        <3>2. Len(first) <= Len(first)
            BY <1>1, SMT
        <3> QED BY <1>1, <2>1, <3>1, <3>2
    <2>2. CASE f.t = "data"
        <3>1. /\ f.v \in Nat /\ f.v <= sentData /\ got' = Append(got, f.v)
              /\ \/ f.v <= Len(first) /\ first' = first
                 \/ f.v = Len(first) + 1 /\ first' = Append(first, f.v)
            BY <2>2, Delivers DEF IInv, ReaderInv
        <3>2. got' \in Seq(Nat)
            BY <1>1, <3>1, SMT
        <3>3. CASE f.v <= Len(first) /\ first' = first
            <4>1. Len(first) <= Len(first)
                BY <1>1, SMT
            <4> QED BY <1>1, <3>2, <3>3, <4>1
        <3>4. CASE f.v = Len(first) + 1 /\ first' = Append(first, f.v)
            <4>1. /\ first' \in Seq(Nat) /\ Len(first') = Len(first) + 1
                  /\ \A n \in 1..Len(first) : first'[n] = first[n]
                  /\ first'[Len(first) + 1] = f.v
                BY <1>1, <3>1, <3>4, SMT
            <4>2. \A n \in 1..(Len(first) + 1) : n \in 1..Len(first) \/ n = Len(first) + 1
                BY <1>1, SMT
            <4>3. \A n \in 1..Len(first') : first'[n] = n
                BY <1>1, <3>4, <4>1, <4>2
            <4>4. /\ Len(first') \in Nat /\ Len(first) <= Len(first') /\ f.v <= Len(first')
                  /\ Len(first') <= sentData
                BY <1>1, <3>1, <3>4, <4>1, SMT
            <4> QED BY <3>2, <4>1, <4>3, <4>4
        <3> QED BY <3>1, <3>3, <3>4
    <2> QED BY <2>1, <2>2
<1>4. ReaderTypes'
    BY <1>2, <1>3 DEF IInv, ReaderInv, ReaderTypes, Segs, Written
<1>5. Behind(k + 1)'
    BY <1>3, Passes DEF IInv, ReaderInv, DataAt
<1>6. Behind(0)'
    <2>1. 0 \in Nat /\ 0 + 1 = 1
        BY SMT
    <2>2. ASSUME NEW i \in Segs, NEW j \in 1..Len(seg[i]), DataAt(i, j), Before(i, j, rcur, 1)
          PROVE  seg[i][j].v <= Len(first')
        <3>1. seg[i][j].v <= Len(first)
            BY <2>1, <2>2 DEF IInv, ReaderInv, Behind
        <3>2. seg[i][j].v \in Nat
            <4>1. seg[i][j] \in Frame
                BY LogNumbers, ElementOfSeq DEF IInv
            <4> QED BY <4>1 DEF Frame
        <3>3. Len(first) \in Nat /\ Len(first') \in Nat /\ Len(first) <= Len(first')
            BY <1>1, <1>3
        <3> QED BY <3>1, <3>2, <3>3, SMT
    <2> QED BY <2>1, <2>2 DEF Behind, DataAt, Before, Segs
<1>7. ReaderInv'
    BY <1>2, <1>4, <1>5, <1>6 DEF ReaderInv
<1>8. ASSUME drops = 0 PROVE got' = first' /\ Ahead(k + 1)'
    <2>1. Ahead(k) /\ got = first /\ rcur \in Segs /\ rcur \in Nat
        BY <1>8, ReaderAt DEF IInv, ExactInv, ReaderInv
    <2>2. ASSUME NEW i \in Segs, NEW j \in 1..Len(seg[i]), ~Before(i, j, rcur, k + 2)
          PROVE  ~Before(i, j, rcur, k + 1) /\ Before(rcur, k + 1, i, j)
        <3>1. i \in Nat /\ Len(seg[i]) \in Nat /\ rcur \in Nat
            BY <2>1, LogNumbers DEF IInv
        <3> QED BY <2>2, <3>1, SMT DEF Before
    <2>3. (k + 1) + 1 = k + 2
        BY SMT
    <2>4. CASE f.t # "data"
        <3>1. first' = first /\ got' = got
            BY <2>4 DEF dispatch
        <3>2. \A i \in Segs : \A j \in 1..Len(seg[i]) :
                  DataAt(i, j) /\ ~Before(i, j, rcur, k + 2) => seg[i][j].v > Len(first)
            BY <2>1, <2>2 DEF Ahead
        <3> QED BY <2>1, <2>3, <3>1, <3>2 DEF Ahead, DataAt, Before, Segs
    <2>5. CASE f.t = "data"
        <3>1. /\ f.v \in Nat /\ got' = Append(got, f.v)
              /\ \/ f.v <= Len(first) /\ first' = first
                 \/ f.v = Len(first) + 1 /\ first' = Append(first, f.v)
            BY <2>5, Delivers DEF IInv, ReaderInv
        <3>2. DataAt(rcur, k + 1) /\ ~Before(rcur, k + 1, rcur, k + 1)
            BY <2>1, <2>5, SMT DEF DataAt, Before
        <3>3. f.v > Len(first)
            BY <2>1, <3>2 DEF Ahead
        <3>4. f.v = Len(first) + 1 /\ first' = Append(first, f.v) /\ Len(first') = f.v
            BY <1>1, <3>1, <3>3, SMT
        <3>5. ASSUME NEW i \in Segs, NEW j \in 1..Len(seg[i]), DataAt(i, j),
                     ~Before(i, j, rcur, k + 2)
              PROVE  seg[i][j].v > Len(first')
            <4>1. f.v < seg[i][j].v
                BY <2>1, <2>2, <3>2, <3>5 DEF IInv, LogInv, Increasing
            <4>2. seg[i][j] \in Frame
                BY LogNumbers, ElementOfSeq DEF IInv
            <4>3. seg[i][j].v \in Nat
                BY <4>2 DEF Frame
            <4> QED BY <3>1, <3>4, <4>1, <4>3, SMT
        <3> QED BY <2>1, <2>3, <3>1, <3>4, <3>5 DEF Ahead, DataAt, Before, Segs
    <2> QED BY <2>4, <2>5
<1>9. ExactInv'
    BY <1>2, <1>5, <1>8 DEF IInv, ExactInv
<1> QED BY <1>7, <1>9

LEMMA DecodeStep ==
    ASSUME IInv, Decode
    PROVE  /\ IInv'
           /\ \/ first' = first
              \/ Len(first) < sentData /\ first' = Append(first, Len(first) + 1)
<1>1. /\ UNCHANGED <<seg, cur, sentData, linked, seen, drops, off, broken>>
      /\ UNCHANGED <<writer, peerAck, files, netFS, consumed>>
      /\ rf /\ Complete /\ Sound
    BY DEF Decode, writer, files
<1>2. PICK k \in 0..Len(seg[rcur]) :
          /\ k \in Nat /\ Clean(k) /\ Behind(k) /\ (drops = 0 => Ahead(k))
          /\ k + 1 \in 1..Len(seg[rcur]) /\ seg[buf[1].at][buf[1].frame] = seg[rcur][k + 1]
    BY <1>1, DecodeAt
<1> DEFINE f == seg[rcur][k + 1]
<1>3. /\ dispatch(f)
      /\ IF f.t = "roll"
         THEN rcur' = f.v /\ rf' = FALSE /\ buf' = <<>>
         ELSE buf' = SubSeq(buf, Parts + 1, Len(buf)) /\ UNCHANGED <<rcur, rf>>
    BY <1>2 DEF Decode
<1>4. first \in Seq(Nat) /\ got \in Seq(Nat) /\ Len(first) \in Nat /\ sentData \in Nat
    BY LogNumbers, LenProperties DEF IInv, ReaderInv, ReaderTypes
<1>5. /\ \/ first' = first
         \/ Len(first) < sentData /\ first' = Append(first, Len(first) + 1)
      /\ Len(got) <= Len(got')
    <2>1. CASE f.t # "data"
        <3>1. first' = first /\ got' = got
            BY <1>3, <2>1 DEF dispatch
        <3> QED BY <1>4, <3>1, SMT
    <2>2. CASE f.t = "data"
        <3>1. /\ f.v \in Nat /\ f.v <= sentData /\ got' = Append(got, f.v)
              /\ \/ f.v <= Len(first) /\ first' = first
                 \/ f.v = Len(first) + 1 /\ first' = Append(first, f.v)
            BY <1>2, <1>3, <2>2, Delivers DEF IInv, ReaderInv
        <3>2. Len(got) <= Len(got')
            BY <1>4, <3>1, SMT
        <3>3. f.v = Len(first) + 1 => Len(first) < sentData
            BY <1>4, <3>1, SMT
        <3> QED BY <3>1, <3>2, <3>3
    <2> QED BY <2>1, <2>2
<1>6. CASE f.t = "roll"
    <2>1. first' = first /\ got' = got
        BY <1>3, <1>6 DEF dispatch
    <2>2. ReaderInv' /\ ExactInv'
        BY <1>1, <1>2, <1>3, <1>6, <2>1, RollStep
    <2> QED BY <1>1, <1>5, <2>2, ReaderSide
<1>7. CASE f.t # "roll"
    <2>1. ReaderInv' /\ ExactInv'
        BY <1>1, <1>2, <1>3, <1>7, FrameStep
    <2> QED BY <1>1, <1>5, <2>1, ReaderSide
<1> QED BY <1>6, <1>7

-----------------------------------------------------------------------------
(* The invariant *)

LEMMA InvariantInit == Init => IInv
<1> SUFFICES ASSUME Init PROVE IInv
    OBVIOUS
<1>1. LogInv /\ ReaderInv /\ ExactInv
    BY LogInit, ReaderInit
<1>2. cur = 0 /\ linked = {0} /\ reapOff = {} /\ peerAck = 0 /\ consumed = 0 /\ got = <<>>
    BY DEF Init
<1>3. ReapInv
    <2>1. \A i \in 0..cur : i \in linked
        BY <1>2, SMT
    <2>2. 0 \in Nat /\ 0 <= 0 /\ 0 <= Len(got)
        BY <1>2, SMT
    <2> QED BY <1>2, <2>1, <2>2 DEF ReapInv
<1>4. SyncTypes
    <2>1. 0 \in Nat
        BY SMT
    <2> QED BY <2>1, SegLogOK DEF Init, SyncTypes
<1>5. NoUnsyncedTail
    <2>1. \A i \in 0..cur : i = 0 /\ i \in Segs
        BY <1>2, SegLogOK, SMT DEF Segs
    <2>2. ASSUME NEW i \in 0..cur PROVE synced[i] = 0 /\ Written(i) = 0
        <3>1. synced[i] = 0 /\ seg[i] = <<>> /\ Len(<<>>) = 0
            BY <2>1, SMT DEF Init
        <3>2. Parts * 0 = 0
            BY SegLogOK, SMT
        <3> QED BY <3>1, <3>2 DEF Written
    <2>3. ~(0 < 0)
        BY SMT
    <2> QED BY <2>2, <2>3 DEF NoUnsyncedTail
<1> QED BY <1>1, <1>3, <1>4, <1>5 DEF IInv

LEMMA InvariantNext ==
    ASSUME IInv, [Next]_vars
    PROVE  IInv'
<1>1. CASE WriteData
    <2>1. Writes(Data(sentData + 1), sentData + 1)
        BY <1>1 DEF WriteData, Writes
    <2> QED BY <2>1, WriteStep
<1>2. CASE WriteCtl
    <2>1. Writes(Ctl, sentData)
        BY <1>2 DEF WriteCtl, Writes
    <2> QED BY <2>1, WriteStep
<1>3. CASE timedFlush \/ close
    BY <1>3, SyncStep
<1>4. ASSUME NEW v \in 1..consumed, GetAck(v) PROVE IInv'
    BY <1>4, AckStep
<1>5. ASSUME NEW i \in Segs, Appear(i) PROVE IInv'
    BY <1>5, AppearStep
<1>6. CASE Reader
    BY <1>6, OpenStep, DecodeStep, CorruptStep, FillStep, DropStep DEF Reader
<1>7. CASE Consume
    BY <1>7, ConsumeStep
<1>8. CASE UNCHANGED vars
    <2>1. /\ UNCHANGED <<writer, peerAck, files, seen, netFS, drops, reader, consumed>>
          /\ UNCHANGED <<cur, size, sentData, nctl, seg, linked, got>>
        BY <1>8 DEF vars, writer, files, reader
    <2>2. ReaderInv' /\ ExactInv'
        BY <2>1, ReaderKept DEF IInv
    <2>3. Len(got) <= Len(got')
        BY <2>1, SMT DEF IInv, ReaderInv, ReaderTypes
    <2> QED BY <2>1, <2>2, <2>3, ReaderSide
<1> QED BY <1>1, <1>2, <1>3, <1>4, <1>5, <1>6, <1>7, <1>8 DEF Next

LEMMA Invariant == Spec => []IInv
<1>1. IInv /\ [Next]_vars => IInv'
    BY InvariantNext
<1> QED BY <1>1, InvariantInit, PTL DEF Spec

-----------------------------------------------------------------------------
(* Theorems *)

\* Whatever segWriter.append, its Nagle timer and close do in whatever order, what
\* is not yet synced is in the current segment and the timer that will is set.
THEOREM TailsAreSynced == Spec => []NoUnsyncedTail
<1>1. IInv => NoUnsyncedTail
    BY DEF IInv
<1> QED BY <1>1, Invariant, PTL

\* As long as no reopen fails for a passing reason, segReader delivers each byte
\* once, in order, and meets no frame that it takes for corrupt.
THEOREM DeliversExactly == Spec => []ExactUnlessDropped
<1>1. ASSUME IInv PROVE ExactUnlessDropped
    BY <1>1 DEF IInv, ExactInv, ReaderInv, ReaderTypes, ExactUnlessDropped
<1> QED BY <1>1, Invariant, PTL

\* segWriter.reap takes no segment away before the application at the other end
\* has read the bytes in it, as long as bytes are counted once.
THEOREM ReapsWhatIsRead == Spec => []ReapedDataRead
<1>1. ASSUME IInv PROVE ReapedDataRead
    <2> SUFFICES ASSUME drops = 0, NEW i \in 0..cur \ linked, NEW f \in Range(seg[i]),
                        f.t = "data"
                 PROVE  \E k \in 1..consumed : got[k] = f.v
        BY DEF ReapedDataRead
    <2>1. i \in Segs
        <3>1. cur \in Nat /\ cur \in Segs
            BY <1>1, LogNumbers DEF IInv
        <3> QED BY <3>1, SegLogOK, SMT DEF Segs
    <2>2. seg[i] \in Seq(Frame) /\ DOMAIN seg[i] = 1..Len(seg[i])
        BY <1>1, <2>1, LogNumbers, LenProperties DEF IInv
    <2>3. PICK j \in 1..Len(seg[i]) : seg[i][j] = f
        BY <2>2 DEF Range
    <2>4. f.v <= peerAck /\ f.v \in 1..sentData
        BY <1>1, <2>1, <2>3 DEF IInv, ReapInv, LogInv, Chained, DataAt
    <2>5. /\ peerAck \in Nat /\ consumed \in Nat /\ sentData \in Nat /\ Len(got) \in Nat
          /\ peerAck <= consumed /\ consumed <= Len(got)
        BY <1>1, LogNumbers, LenProperties DEF IInv, ReapInv, ReaderInv, ReaderTypes
    <2>6. f.v \in 1..consumed /\ f.v \in 1..Len(got)
        BY <2>4, <2>5, SMT
    <2>7. got[f.v] = f.v
        BY <1>1, <2>6 DEF IInv, ExactInv, ReaderInv, ReaderTypes
    <2> QED BY <2>6, <2>7
<1> QED BY <1>1, Invariant, PTL

\* A direction of a tunnel implements a byte pipe, with no assumption: through
\* rolls, torn tails, reaping and failed reopens, replays included.
THEOREM ImplementsPipe == Spec => DeliversInOrder
<1> DEFINE sent == [n \in 1..sentData |-> n]
<1>1. Init => Pipe!Init
    <2> SUFFICES ASSUME Init PROVE sent = <<>> /\ first = <<>>
        BY DEF Pipe!Init
    <2> QED BY SMT DEF Init
<1>2. ASSUME IInv, [Next]_vars PROVE [Pipe!Next]_<<sent, first>>
    <2>1. CASE WriteData
        <3>1. sentData' = sentData + 1 /\ first' = first /\ sentData < MaxData
            BY <2>1 DEF WriteData, reader
        <3>2. sentData \in Nat /\ MaxData \in Nat
            BY <1>2, LogNumbers, SegLogOK DEF IInv
        <3>3. sentData + 1 \in 1..MaxData
            BY <3>1, <3>2, SMT
        <3>4. [n \in 1..(sentData + 1) |-> n] = Append(sent, sentData + 1)
            BY <3>2, SMT
        <3>5. sent' = Append(sent, sentData + 1)
            BY <3>1, <3>4
        <3> QED BY <3>1, <3>3, <3>5 DEF Pipe!Next, Pipe!Send
    <2>2. CASE Decode
        <3>1. sentData' = sentData
            BY <2>2 DEF Decode, writer
        <3>2. CASE Len(first) < sentData /\ first' = Append(first, Len(first) + 1)
            <4>1. sentData \in Nat /\ Len(first) \in Nat
                BY <1>2, LogNumbers, LenProperties DEF IInv, ReaderInv, ReaderTypes
            <4>2. Len(sent) = sentData /\ sent[Len(first) + 1] = Len(first) + 1
                BY <3>2, <4>1, SMT
            <4> QED BY <3>1, <3>2, <4>2 DEF Pipe!Next, Pipe!Receive
        <3> QED BY <1>2, <2>2, <3>1, <3>2, DecodeStep
    <2>3. CASE \/ WriteCtl \/ timedFlush \/ close \/ Open \/ Corrupt \/ fill \/ fillDrops
               \/ Consume \/ UNCHANGED vars
        BY <2>3 DEF WriteCtl, timedFlush, close, Open, Corrupt, fill, fillDrops, Consume, vars,
                    writer, reader, stream
    <2>4. ASSUME NEW v, GetAck(v) PROVE UNCHANGED <<sentData, first>>
        BY <2>4 DEF GetAck, reader
    <2>5. ASSUME NEW i, Appear(i) PROVE UNCHANGED <<sentData, first>>
        BY <2>5 DEF Appear, writer, reader
    <2> QED BY <1>2, <2>1, <2>2, <2>3, <2>4, <2>5 DEF Next, Reader
<1> QED BY <1>1, <1>2, Invariant, PTL DEF Spec, DeliversInOrder, Pipe!Spec
=============================================================================

-------------------------- MODULE TunnelDirProofs ---------------------------
(***************************************************************************)
(* Whose business a tunnel's subtree is, for every set of Dials and every   *)
(* number of crashes of the acceptor.                                      *)
(***************************************************************************)
EXTENDS TunnelDir, TLAPS

DialStates == InFlight \cup Ended \cup {"idle", "up", "giveUp"}
Segments == {"none", "empty", "syn"}
AcceptStates == {"none", "open", "syn", "wait", "offer", "up", "failed", "done"}

\* A Dial that has ended stays so: a subtree that is old is nobody's any more on
\* the initiator's side.
OldIsOver == \A id \in Dials : id \in treeOld => dial[id] \in Ended

TunnelInv ==
    /\ dial \in [Dials -> DialStates]
    /\ c2s \in [Dials -> Segments]
    /\ acc \in [Dials -> AcceptStates]
    /\ EngagedIsSeen
    /\ OldIsOver

\* Nothing is there at first.
LEMMA TunnelInit == Init => TunnelInv
BY DEF Init, TunnelInv, DialStates, Segments, AcceptStates, EngagedIsSeen, OldIsOver

\* Every step of a Dial: the acceptor is not touched, no subtree grows old, and
\* what has ended does not begin again.
LEMMA DialSteps ==
    ASSUME TunnelInv, NEW id \in Dials,
           Dial(id) \/ HandshakeFails(id) \/ DialCloses(id) \/ DialDies(id)
    PROVE  TunnelInv'
<1>1. /\ UNCHANGED <<seen, acc>> /\ treeOld' \subseteq treeOld
      /\ dial[id] \notin Ended /\ c2s' \in [Dials -> Segments]
      /\ \E s \in DialStates : dial' = [dial EXCEPT ![id] = s]
    BY DEF Dial, Create, WriteSyn, Mark, MarkFails, Ring, DialUp, DialFails, HandshakeFails,
           DialCloses, DialDies, Step, RemoveTrees, tree, acceptor, DialStates, InFlight, Ended,
           Segments, TunnelInv
<1> QED BY <1>1 DEF TunnelInv, EngagedIsSeen, OldIsOver

\* Files appear and grow old.
LEMMA FileSteps ==
    ASSUME TunnelInv, NEW id \in Dials, Appear(id) \/ MarkerAges(id) \/ TreeAges(id)
    PROVE  TunnelInv'
BY DEF Appear, MarkerAges, TreeAges, initiator, acceptor, tree, TunnelInv, EngagedIsSeen,
       OldIsOver

\* One goroutine gets on with its accept, from engaged to engaged.
LEMMA AcceptSteps ==
    ASSUME TunnelInv, NEW id \in Dials,
           AccOpen(id) \/ AccSyn(id) \/ AccUp(id) \/ AccFails(id) \/ Accept(id) \/ AccDone(id)
    PROVE  TunnelInv'
<1>1. /\ UNCHANGED <<seen, dial>> /\ treeOld' \subseteq treeOld
      /\ acc[id] # "none" /\ UNCHANGED c2s
      /\ \E s \in AcceptStates \ {"none"} : acc' = [acc EXCEPT ![id] = s]
    BY DEF AccOpen, AccSyn, AccUp, AccFails, Accept, AccDone, AccStep, initiator, tree,
           AcceptStates
<1> QED BY <1>1 DEF TunnelInv, EngagedIsSeen, OldIsOver

\* A goroutine that ends takes its conn-id out of seen in the same step.
LEMMA ForgetSteps ==
    ASSUME TunnelInv, NEW id \in Dials, AccForgets(id) \/ reapWhenDone(id)
    PROVE  TunnelInv'
<1>1. /\ UNCHANGED dial /\ treeOld' \subseteq treeOld /\ c2s' \in [Dials -> Segments]
      /\ seen' = seen \ {id} /\ acc' = [acc EXCEPT ![id] = "none"]
    BY DEF AccForgets, reapWhenDone, AccStep, RemoveTrees, initiator, tree, Segments, TunnelInv
<1> QED BY <1>1 DEF TunnelInv, EngagedIsSeen, OldIsOver, AcceptStates

\* A scan engages what it adds to seen, and nothing that was in seen before.
LEMMA ScanStep ==
    ASSUME TunnelInv, scanInbox, UNCHANGED <<dial, c2s, treeOld>>
    PROVE  TunnelInv'
<1> DEFINE new == {id \in marker \ seen : Visible(id)}
<1>1. /\ seen' = seen \cup new
      /\ acc' = [id \in Dials |-> IF id \in new THEN "open" ELSE acc[id]]
    BY DEF scanInbox
<1> HIDE DEF new
<1> QED BY <1>1 DEF TunnelInv, EngagedIsSeen, OldIsOver, AcceptStates

\* The listener's ticks, its death and its start.
LEMMA ListenerSteps ==
    ASSUME TunnelInv, FastTick \/ SlowTick \/ ageSweep \/ Crash \/ Listen
    PROVE  TunnelInv'
<1>1. UNCHANGED dial /\ treeOld' \subseteq treeOld /\ c2s' \in [Dials -> Segments]
    BY DEF FastTick, SlowTick, ageSweep, Crash, Listen, RemoveTrees, initiator, tree, Segments,
           TunnelInv
<1>2. CASE scanInbox
    <2>1. UNCHANGED <<dial, c2s, treeOld>> \/ UNCHANGED <<seen, acc>>
        BY DEF FastTick, SlowTick, ageSweep, Crash, Listen, initiator, tree, acceptor, scanInbox
    <2> QED BY <1>1, <1>2, <2>1, ScanStep DEF TunnelInv, EngagedIsSeen, OldIsOver
<1>3. CASE UNCHANGED <<seen, acc>>
    BY <1>1, <1>3 DEF TunnelInv, EngagedIsSeen, OldIsOver
<1>4. CASE Crash \/ Listen
    BY <1>1, <1>4 DEF Crash, Listen, TunnelInv, EngagedIsSeen, OldIsOver, AcceptStates
<1> QED BY <1>2, <1>3, <1>4 DEF FastTick, SlowTick, ageSweep, acceptor

\* Every step keeps the invariant.
LEMMA TunnelStep == TunnelInv /\ [Next]_vars => TunnelInv'
<1> SUFFICES ASSUME TunnelInv, [Next]_vars PROVE TunnelInv'
    OBVIOUS
<1>1. CASE UNCHANGED vars
    BY <1>1 DEF vars, initiator, acceptor, tree, TunnelInv, EngagedIsSeen, OldIsOver
<1>2. CASE Next
    BY <1>2, DialSteps, FileSteps, AcceptSteps, ForgetSteps, ListenerSteps DEF Next, accept
<1> QED BY <1>1, <1>2

\* For any number of Dials, scans, failures and restarts: a conn-id is in
\* Listener.seen exactly while a goroutine or an open pipe stands for it.
THEOREM EngagedAreSeen == Spec => []EngagedIsSeen
<1>1. TunnelInv => EngagedIsSeen
    BY DEF TunnelInv
<1> QED BY TunnelInit, TunnelStep, <1>1, PTL DEF Spec

\* A step that removes the subtree of a Dial in flight or of an open pipe is the
\* Dial's own giving up, or the reaping of a pipe that is done.
LEMMA OwnersRemove ==
    ASSUME TunnelInv, Next, NEW id \in Dials, dial[id] \in InFlight \cup {"up"},
           c2s[id] # "none", c2s'[id] = "none"
    PROVE  dial'[id] = "giveUp" \/ acc[id] = "done"
<1>1. CASE \E x \in Dials : HandshakeFails(x)
    BY <1>1 DEF HandshakeFails, Step, RemoveTrees, TunnelInv
<1>2. CASE \E x \in Dials : reapWhenDone(x)
    BY <1>2 DEF reapWhenDone, AccStep, RemoveTrees
<1>3. CASE ageSweep
    <2>1. id \in treeOld
        BY <1>3 DEF ageSweep, RemoveTrees
    <2> QED BY <2>1 DEF TunnelInv, OldIsOver, InFlight, Ended
<1>4. CASE \E x \in Dials : Create(x) \/ WriteSyn(x)
    <2>1. PICK x \in Dials : c2s' = [c2s EXCEPT ![x] = "empty"] \/ c2s' = [c2s EXCEPT ![x] = "syn"]
        BY <1>4 DEF Create, WriteSyn
    <2> QED BY <2>1 DEF TunnelInv
<1> QED BY <1>1, <1>2, <1>3, <1>4
        DEF Next, Dial, accept, Mark, MarkFails, Ring, DialUp, DialFails, DialCloses, DialDies,
            Appear, MarkerAges, TreeAges, AccOpen, AccSyn, AccUp, AccFails, AccForgets, Accept,
            AccDone, FastTick, SlowTick, Crash, Listen, tree

\* Neither the age sweep nor another tunnel's end takes away a subtree that is in
\* use, through any number of restarts of the acceptor.
THEOREM LiveTreesKept == Spec => LiveTreeKept
<1> DEFINE Owned == \A id \in Dials :
               dial[id] \in InFlight \cup {"up"} /\ c2s[id] # "none" /\ c2s'[id] = "none"
                   => dial'[id] = "giveUp" \/ acc[id] = "done"
<1>1. TunnelInv /\ [Next]_vars => [Owned]_vars
    BY OwnersRemove
<1> QED BY TunnelInit, TunnelStep, <1>1, PTL DEF Spec, LiveTreeKept
=============================================================================

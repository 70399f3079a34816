------------------------------ MODULE TunnelDir ------------------------------
(***************************************************************************)
(* How filesystem tunnels are set up and cleaned away in the shared root:   *)
(* Dial and handshake of the initiators, the listener's watchLoop with      *)
(* doorbell, inbox, startup scan and age sweep, its accepts, and the reaping *)
(* of subtrees (dial.go, listen.go, inbox.go and doorbell.go of             *)
(* transport/fstun). What a pipe does once it is up is in Conn.             *)
(***************************************************************************)
EXTENDS Integers, FiniteSets

CONSTANTS
    Dials,           \* conn-ids: one per Dial
    doorbellRescans, \* scans that one ring leads to
    Flaky,           \* those whose file operations may fail
    MaxCrashes       \* bound on crashes of the acceptor

ASSUME TunnelDirOK == doorbellRescans \in Nat /\ Flaky \subseteq Dials /\ MaxCrashes \in Nat

VARIABLES
    dial,       \* where each Dial is
    c2s, s2c,   \* the first segment of each direction: "none", "empty" or "syn"
    c2sSeen,    \* the initiator's segment is visible to the acceptor
    marker,     \* the arrival markers in the inbox
    markerOld, treeOld, \* no activity for AgeSweepThreshold
    rung,       \* the doorbell's mtime differs from the one last seen
    rescans,    \* of watchLoop
    alive, run, \* the acceptor's process: is there one, and which
    seen,       \* Listener.seen
    acc,        \* where the accept of each conn-id is
    synOf,      \* which run of the acceptor wrote the first SYN of s2c
    peerOf      \* which run's SYN the initiator has read

initiator == <<dial, peerOf>>
tree == <<c2s, s2c, c2sSeen, synOf, treeOld>>
inbox == <<marker, markerOld>>
bell == <<rung, rescans>>
acceptor == <<alive, run, seen, acc>>
vars == <<initiator, tree, inbox, bell, acceptor>>

InFlight == {"created", "syn", "marked", "wait"}
Ended == {"failed", "closed", "dead"}
Tree(id) == c2s[id] # "none" \/ s2c[id] # "none"

-----------------------------------------------------------------------------
Init ==
    /\ dial = [id \in Dials |-> "idle"] /\ peerOf = [id \in Dials |-> 0]
    /\ c2s = [id \in Dials |-> "none"] /\ s2c = [id \in Dials |-> "none"]
    /\ c2sSeen = [id \in Dials |-> FALSE] /\ synOf = [id \in Dials |-> 0]
    /\ marker = {} /\ markerOld = {} /\ treeOld = {}
    /\ rung = FALSE /\ rescans = 0
    /\ alive = TRUE /\ run = 1 /\ seen = {} /\ acc = [id \in Dials |-> "none"]

\* RemoveAll of a subtree.
RemoveTrees(S) ==
    /\ c2s' = [id \in Dials |-> IF id \in S THEN "none" ELSE c2s[id]]
    /\ s2c' = [id \in Dials |-> IF id \in S THEN "none" ELSE s2c[id]]
    /\ c2sSeen' = [id \in Dials |-> id \notin S /\ c2sSeen[id]]
    /\ synOf' = [id \in Dials |-> IF id \in S THEN 0 ELSE synOf[id]]
    /\ treeOld' = treeOld \ S

-----------------------------------------------------------------------------
(* Dial: handshake of the initiator *)

Step(id, from, to) == dial[id] = from /\ dial' = [dial EXCEPT ![id] = to]

\* newSegWriter, then the SYN.
Create(id) ==
    /\ Step(id, "idle", "created")
    /\ c2s' = [c2s EXCEPT ![id] = "empty"]
    /\ UNCHANGED <<peerOf, s2c, c2sSeen, synOf, treeOld, inbox, bell, acceptor>>

WriteSyn(id) ==
    /\ Step(id, "created", "syn")
    /\ c2s' = [c2s EXCEPT ![id] = "syn"]
    /\ UNCHANGED <<peerOf, s2c, c2sSeen, synOf, treeOld, inbox, bell, acceptor>>

\* writeInboxMarker; if it fails the doorbell is not rung.
Mark(id) ==
    /\ Step(id, "syn", "marked")
    /\ marker' = marker \cup {id}
    /\ UNCHANGED <<peerOf, tree, markerOld, bell, acceptor>>

MarkFails(id) ==
    /\ id \in Flaky
    /\ Step(id, "syn", "wait")
    /\ UNCHANGED <<peerOf, tree, inbox, bell, acceptor>>

\* ringDoorbell, which may fail too or be merged with another ring.
Ring(id) ==
    /\ Step(id, "marked", "wait")
    /\ rung' \in {rung, TRUE}
    /\ UNCHANGED <<peerOf, tree, inbox, rescans, acceptor>>

\* waitSYN finds the acceptor's SYN.
DialUp(id) ==
    /\ Step(id, "wait", "up")
    /\ s2c[id] = "syn"
    /\ peerOf' = [peerOf EXCEPT ![id] = synOf[id]]
    /\ UNCHANGED <<tree, inbox, bell, acceptor>>

\* The handshake fails, in waitSYN or before it: the subtree is removed, and then
\* the marker.
HandshakeFails(id) ==
    /\ dial[id] = "wait" \/ (id \in Flaky /\ dial[id] = "created")
    /\ Step(id, dial[id], "giveUp")
    /\ RemoveTrees({id})
    /\ UNCHANGED <<peerOf, inbox, bell, acceptor>>

DialFails(id) ==
    /\ Step(id, "giveUp", "failed")
    /\ marker' = marker \ {id} /\ markerOld' = markerOld \ {id}
    /\ UNCHANGED <<peerOf, tree, bell, acceptor>>

\* The pipe ends at the initiator: Close, or failRecv.
DialCloses(id) ==
    /\ Step(id, "up", "closed")
    /\ UNCHANGED <<peerOf, tree, inbox, bell, acceptor>>

\* The process of the initiator dies (external).
DialDies(id) ==
    /\ dial[id] \in InFlight \cup {"up", "giveUp"}
    /\ dial' = [dial EXCEPT ![id] = "dead"]
    /\ UNCHANGED <<peerOf, tree, inbox, bell, acceptor>>

-----------------------------------------------------------------------------
(* The filesystem (external) *)

\* The initiator's segment becomes visible, perhaps after its marker.
Appear(id) ==
    /\ c2s[id] # "none" /\ ~c2sSeen[id]
    /\ c2sSeen' = [c2sSeen EXCEPT ![id] = TRUE]
    /\ UNCHANGED <<initiator, c2s, s2c, synOf, treeOld, inbox, bell, acceptor>>

\* Time without activity. A handshake takes less than the threshold, and a pipe
\* that is up writes heartbeats.
MarkerAges(id) ==
    /\ id \in marker \ markerOld /\ dial[id] \notin InFlight
    /\ markerOld' = markerOld \cup {id}
    /\ UNCHANGED <<initiator, tree, marker, bell, acceptor>>

TreeAges(id) ==
    /\ Tree(id) /\ id \notin treeOld
    /\ dial[id] \in Ended /\ acc[id] = "none"
    /\ treeOld' = treeOld \cup {id}
    /\ UNCHANGED <<initiator, c2s, s2c, c2sSeen, synOf, inbox, bell, acceptor>>

-----------------------------------------------------------------------------
(* The listener: watchLoop *)

\* Stat of the first segment of c2s.
Visible(id) == c2s[id] # "none" /\ c2sSeen[id]

\* scanInbox: markers of known tunnels are removed, visible ones engaged.
scanInbox ==
    LET new == {id \in marker \ seen : Visible(id)}
    IN  /\ marker' = marker \ (seen \cup new) /\ markerOld' = markerOld \ (seen \cup new)
        /\ seen' = seen \cup new
        /\ acc' = [id \in Dials |-> IF id \in new THEN "open" ELSE acc[id]]
        /\ UNCHANGED <<alive, run>>

\* A tick that looks at the doorbell, and scans if it moved or rescans are left.
FastTick ==
    LET left == IF rung THEN doorbellRescans ELSE rescans
    IN  /\ alive /\ rung' = FALSE
        /\ IF left > 0 THEN rescans' = left - 1 /\ scanInbox
                       ELSE rescans' = 0 /\ UNCHANGED <<inbox, acceptor>>
        /\ UNCHANGED <<initiator, tree>>

\* Mutant: there is no backstop.
Mut_SlowTick == FALSE /\ UNCHANGED vars

SlowTick ==
    /\ alive /\ scanInbox
    /\ UNCHANGED <<initiator, tree, bell>>

\* Mutant: the sweep looks at seen only.
Mut_ageSweep ==
    LET gone == {id \in Dials \ seen : Tree(id)}
    IN  /\ alive
        /\ marker' = marker \ (markerOld \ seen) /\ markerOld' = markerOld \cap seen
        /\ RemoveTrees(gone)
        /\ UNCHANGED <<initiator, bell, acceptor>>

\* ageSweep: what is old and not engaged is removed.
ageSweep ==
    /\ alive
    /\ marker' = marker \ (markerOld \ seen) /\ markerOld' = markerOld \cap seen
    /\ RemoveTrees(treeOld \ seen)
    /\ UNCHANGED <<initiator, bell, acceptor>>

\* The process of the acceptor dies (external): files and initiators stay.
Crash ==
    /\ alive /\ run <= MaxCrashes
    /\ alive' = FALSE
    /\ seen' = {} /\ acc' = [id \in Dials |-> "none"]
    /\ rescans' = 0 /\ rung' = FALSE
    /\ UNCHANGED <<initiator, tree, inbox, run>>

\* Listen: startupScan engages every subtree with a c2s segment, and the doorbell
\* is primed.
Listen ==
    LET found == {id \in Dials : Visible(id)}
    IN  /\ ~alive /\ alive' = TRUE
        /\ run' = run + 1
        /\ seen' = found
        /\ acc' = [id \in Dials |-> IF id \in found THEN "open" ELSE "none"]
        /\ rung' = FALSE
        /\ UNCHANGED <<initiator, tree, inbox, rescans>>

-----------------------------------------------------------------------------
(* The listener: one goroutine per accept *)

AccStep(id, from, to) == alive /\ acc[id] = from /\ acc' = [acc EXCEPT ![id] = to]

\* newSegWriter makes the directories, again if they were removed meanwhile.
AccOpen(id) ==
    /\ AccStep(id, "open", "syn")
    /\ s2c' = [s2c EXCEPT ![id] = IF @ = "none" THEN "empty" ELSE @]
    /\ treeOld' = treeOld \ {id}
    /\ UNCHANGED <<initiator, c2s, c2sSeen, synOf, inbox, bell, alive, run, seen>>

\* The SYN is appended: to a file that may be gone, or hold an earlier SYN.
AccSyn(id) ==
    /\ AccStep(id, "syn", "wait")
    /\ s2c' = [s2c EXCEPT ![id] = IF @ = "empty" THEN "syn" ELSE @]
    /\ synOf' = [synOf EXCEPT ![id] = IF s2c[id] = "empty" THEN run ELSE @]
    /\ UNCHANGED <<initiator, c2s, c2sSeen, treeOld, inbox, bell, alive, run, seen>>

\* waitSYN finds the initiator's SYN; the pipe waits for Accept.
AccUp(id) ==
    /\ AccStep(id, "wait", "offer")
    /\ c2s[id] = "syn" /\ c2sSeen[id]
    /\ UNCHANGED <<initiator, tree, inbox, bell, alive, run, seen>>

\* The handshake fails: waitSYN has looked for the last time, or a file operation
\* failed.
AccFails(id) ==
    /\ \/ acc[id] = "wait" /\ ~(c2s[id] = "syn" /\ c2sSeen[id])
       \/ id \in Flaky /\ acc[id] \in {"open", "syn"}
    /\ AccStep(id, acc[id], "failed")
    /\ UNCHANGED <<initiator, tree, inbox, bell, alive, run, seen>>

\* Mutant: a tunnel whose handshake failed stays in seen.
Mut_AccForgets(id) ==
    /\ AccStep(id, "failed", "none")
    /\ UNCHANGED <<initiator, tree, inbox, bell, alive, run, seen>>

\* forget, so that the conn-id may be tried again.
AccForgets(id) ==
    /\ AccStep(id, "failed", "none")
    /\ seen' = seen \ {id}
    /\ UNCHANGED <<initiator, tree, inbox, bell, alive, run>>

Accept(id) ==
    /\ AccStep(id, "offer", "up")
    /\ UNCHANGED <<initiator, tree, inbox, bell, alive, run, seen>>

\* Done: the application closes the pipe, or it fails: its peer is silent, or its
\* files are gone.
AccDone(id) ==
    /\ acc[id] = "up" \/ (acc[id] = "offer" /\ dial[id] \in Ended \cup {"giveUp"})
    /\ AccStep(id, acc[id], "done")
    /\ UNCHANGED <<initiator, tree, inbox, bell, alive, run, seen>>

\* Mutant: forgotten when done, and reaped later.
Mut_reapWhenDone(id) ==
    \/ /\ acc[id] = "done" /\ id \in seen
       /\ seen' = seen \ {id}
       /\ UNCHANGED <<initiator, tree, inbox, bell, alive, run, acc>>
    \/ /\ AccStep(id, "done", "none") /\ id \notin seen
       /\ RemoveTrees({id})
       /\ marker' = marker \ {id} /\ markerOld' = markerOld \ {id}
       /\ UNCHANGED <<initiator, bell, alive, run, seen>>

\* The subtree and a lingering marker are removed, then the conn-id forgotten.
reapWhenDone(id) ==
    /\ AccStep(id, "done", "none")
    /\ RemoveTrees({id})
    /\ marker' = marker \ {id} /\ markerOld' = markerOld \ {id}
    /\ seen' = seen \ {id}
    /\ UNCHANGED <<initiator, bell, alive, run>>

-----------------------------------------------------------------------------
Dial(id) ==
    \/ Create(id) \/ WriteSyn(id) \/ Mark(id) \/ MarkFails(id) \/ Ring(id)
    \/ DialUp(id) \/ DialFails(id)

accept(id) == AccOpen(id) \/ AccSyn(id) \/ AccUp(id) \/ AccFails(id) \/ AccForgets(id)

Next ==
    \/ \E id \in Dials : \/ Dial(id) \/ HandshakeFails(id) \/ DialCloses(id) \/ DialDies(id)
                         \/ Appear(id) \/ MarkerAges(id) \/ TreeAges(id)
                         \/ accept(id) \/ Accept(id) \/ AccDone(id) \/ reapWhenDone(id)
    \/ FastTick \/ SlowTick \/ ageSweep \/ Crash \/ Listen

Spec == Init /\ [][Next]_vars

\* The acceptor is started again, its goroutines run and its slow and age tickers
\* fire; the broker accepts; a pipe whose initiator is gone ends, by IdleTimeout;
\* files become visible and old. An initiator that has begun gets on. Nothing
\* makes a Dial begin, time out or close, and no ring need be noticed.
FairSpec ==
    /\ Spec
    /\ WF_vars(SlowTick) /\ WF_vars(ageSweep) /\ WF_vars(Listen)
    /\ \A id \in Dials :
        /\ WF_vars(accept(id)) /\ WF_vars(Accept(id)) /\ WF_vars(reapWhenDone(id))
        /\ WF_vars(dial[id] \in Ended /\ AccDone(id))
        /\ WF_vars(Appear(id)) /\ WF_vars(MarkerAges(id)) /\ WF_vars(TreeAges(id))
        /\ WF_vars(dial[id] # "idle" /\ Dial(id))

-----------------------------------------------------------------------------
\* A tunnel is in seen for as long as a goroutine is at work on it or its pipe is
\* open, whatever the scans find: it is not accepted twice, and what the
\* goroutine writes is not swept.
EngagedIsSeen == \A id \in Dials : acc[id] # "none" <=> id \in seen

\* The subtree of a Dial in flight or of an open pipe is removed by the Dial that
\* gives up, or when the acceptor's pipe is done, and by nobody else.
LiveTreeKept ==
    [][\A id \in Dials :
          dial[id] \in InFlight \cup {"up"} /\ c2s[id] # "none" /\ c2s'[id] = "none"
              => dial'[id] = "giveUp" \/ acc[id] = "done"]_vars

\* A Dial that waits gets through without its timeout: the acceptor engages it
\* however late the subtree appears, whatever rings are lost and through restarts,
\* unless a file operation fails or the acceptor's side closes the new pipe at
\* once and reaps it.
DialGetsThrough ==
    \A id \in Dials \ Flaky : (dial[id] = "wait" /\ Tree(id)) ~> (dial[id] # "wait" \/ ~Tree(id))

\* Nothing is left of a tunnel that is over, neither a marker that nobody picked up
\* nor what an accept that came too late has made again, after crashes on either
\* side: reapWhenDone and ageSweep between them remove it.
ResidueGoes ==
    \A id \in Dials :
        (dial[id] \in Ended /\ (Tree(id) \/ id \in marker)) ~> (~Tree(id) /\ id \notin marker)

-----------------------------------------------------------------------------
(* What the code and the documentation say and does not hold. *)

\* docs/TRANSPORTS.md:310-311: the initiator cleans up its own subtree when a dial
\* never establishes, for "the acceptor never engaged it".
FailedDialNotEngaged ==
    \A id \in Dials : dial[id] = "failed" => acc[id] \notin {"offer", "up"}

\* listen.go:163-164: startupScan is "to re-engage tunnels that were live before
\* this acceptor (re)started". A pipe that it hands out begins with the first
\* byte, so its initiator must not be one that has spoken to an earlier run.
ReengagedFromStart ==
    \A id \in Dials : acc[id] = "up" /\ dial[id] = "up" => peerOf[id] = run
=============================================================================

------------------------------ MODULE Carrier ------------------------------
(***************************************************************************)
(* The carrier link between an inside and an outside broker: the shared    *)
(* yamux session of the inside (carrierClient in carrier.go, MuxDialer),   *)
(* the accept loops of the outside (MuxListener in transport/carrier), and *)
(* the hand-over of pipes by the inner listener, a WebSocket one           *)
(* (wscarrier) or a filesystem one (fstun).                                *)
(*                                                                         *)
(* A pipe carries one yamux session, and both are named by the pipe. A     *)
(* call of carrierClient.dial opens at most one stream, named by the call. *)
(***************************************************************************)
EXTENDS Integers, FiniteSets

CONSTANTS
    NCalls,   \* bound on the calls of carrierClient.dial, in the order they are made
    NPipes,   \* bound on the pipes, in the order they come up
    Backlog   \* yamux AcceptBacklog: streams opened and not yet accepted

ASSUME CarrierOK ==
    NCalls \in Nat /\ NPipes \in Nat /\ Backlog \in Nat \ {0}

VARIABLES
    ws,          \* the inner listener is a WebSocket one
    \* The inside
    mu,          \* the call that holds carrierClient.mu over a dial
    md,          \* carrierClient.md
    done,        \* carrierClient.done
    cpc,         \* where each call is
    sess,        \* the session a call was given
    opener,      \* the goroutine of MuxDialer.Open, and what is in its channel
    cst,         \* the inside's end of each stream
    cli,         \* the yamux client of each pipe
    \* The pipe
    wire,
    \* The outside
    hpc,         \* Listener.handle of a WebSocket, Listener.accept of a tunnel
    apc,         \* MuxListener.acceptPipes
    srv,         \* the yamux server of each pipe
    spc,         \* MuxListener.acceptStreams
    cur,         \* the stream it is offering
    sst,         \* the outside's end of each stream
    vpc,         \* the command server's loop over MuxListener.Accept
    muxClosed,   \* MuxListener.ctx is cancelled
    innerClosed  \* the inner listener's ctx is cancelled

session == <<mu, md, done, cli>>
call == <<cpc, sess, opener>>
outside == <<hpc, apc, srv, spc, cur, vpc, muxClosed, innerClosed>>
vars == <<ws, session, call, cst, wire, outside, sst>>

Calls == 1..NCalls
Pipes == 1..NPipes

\* No pipe, no call.
None == 0

-----------------------------------------------------------------------------
Init ==
    /\ ws \in BOOLEAN
    /\ mu = None /\ md = None /\ done = FALSE
    /\ cpc = [c \in Calls |-> "idle"]
    /\ sess = [c \in Calls |-> None]
    /\ opener = [c \in Calls |-> "none"]
    /\ cst = [c \in Calls |-> "none"]
    /\ cli = [p \in Pipes |-> "none"]
    /\ wire = [p \in Pipes |-> "none"]
    /\ hpc = [p \in Pipes |-> "none"]
    /\ apc = "accept"
    /\ srv = [p \in Pipes |-> "none"]
    /\ spc = [p \in Pipes |-> "none"]
    /\ cur = [p \in Pipes |-> None]
    /\ sst = [c \in Calls |-> "none"]
    /\ vpc = "accept"
    /\ muxClosed = FALSE /\ innerClosed = FALSE

-----------------------------------------------------------------------------
(* The callers (cedar) and the network (external). *)

Call(c) ==
    /\ cpc[c] = "idle" /\ \A b \in 1..(c - 1) : cpc[b] # "idle"
    /\ cpc' = [cpc EXCEPT ![c] = "lock"]
    /\ UNCHANGED <<ws, session, sess, opener, cst, wire, outside, sst>>

CallerCloses(c) ==
    /\ cpc[c] = "held" /\ cst[c] = "open"
    /\ cst' = [cst EXCEPT ![c] = "closed"]
    /\ UNCHANGED <<ws, session, call, wire, outside, sst>>

WireFails(p) ==
    /\ wire[p] = "up"
    /\ wire' = [wire EXCEPT ![p] = "cut"]
    /\ UNCHANGED <<ws, session, call, cst, outside, sst>>

-----------------------------------------------------------------------------
(* yamux (external): a session that ends takes its streams and its pipe along, *)
(* and each end notices a pipe that failed, by an error or by its keepalive.   *)

StreamsEnd(p) ==
    [c \in Calls |-> IF sess[c] = p /\ cst[c] = "open" THEN "closed" ELSE cst[c]]

BacklogEnds(p) ==
    [c \in Calls |-> IF sess[c] = p /\ sst[c] = "backlog" THEN "closed" ELSE sst[c]]

ClientNotices(p) ==
    /\ cli[p] = "up" /\ wire[p] = "cut"
    /\ cli' = [cli EXCEPT ![p] = "closed"]
    /\ cst' = StreamsEnd(p)
    /\ UNCHANGED <<ws, mu, md, done, call, wire, outside, sst>>

ServerNotices(p) ==
    /\ srv[p] = "up" /\ wire[p] = "cut"
    /\ srv' = [srv EXCEPT ![p] = "closed"]
    /\ sst' = BacklogEnds(p)
    /\ UNCHANGED <<ws, session, call, cst, wire, hpc, apc, spc, cur, vpc, muxClosed,
                   innerClosed>>

Unaccepted(p) ==
    {c \in Calls : sess[c] = p /\ cst[c] = "open" /\ sst[c] \in {"none", "backlog"}}

-----------------------------------------------------------------------------
(* carrierClient.dial: session *)

\* A session in hand: Open starts its goroutine.
Opens(c, p) ==
    /\ sess' = [sess EXCEPT ![c] = p]
    /\ cpc' = [cpc EXCEPT ![c] = "open"]
    /\ opener' = [opener EXCEPT ![c] = "opening"]

Fails(c) ==
    /\ cpc' = [cpc EXCEPT ![c] = "failed"]
    /\ UNCHANGED <<sess, opener>>

\* c.md != nil && !c.md.Closed()
HasSession == md # None /\ cli[md] = "up"

\* Mutant: the lock is released for the dial.
SessionUnlocked(c) ==
    /\ cpc[c] = "lock" /\ mu = None
    /\ \/ /\ done
          /\ Fails(c)
          /\ UNCHANGED md
       \/ /\ ~done /\ HasSession
          /\ Opens(c, md)
          /\ UNCHANGED md
       \/ /\ ~done /\ ~HasSession
          /\ md' = None
          /\ cpc' = [cpc EXCEPT ![c] = "dial"]
          /\ UNCHANGED <<sess, opener>>
    /\ UNCHANGED <<ws, mu, done, cli, cst, wire, outside, sst>>

\* The start of session, up to the dial; what it returns without dialing.
Session(c) ==
    /\ cpc[c] = "lock" /\ mu = None
    /\ \/ /\ done
          /\ Fails(c)
          /\ UNCHANGED <<mu, md>>
       \/ /\ ~done /\ HasSession
          /\ Opens(c, md)
          /\ UNCHANGED <<mu, md>>
       \/ /\ ~done /\ ~HasSession
          /\ mu' = c /\ md' = None
          /\ cpc' = [cpc EXCEPT ![c] = "dial"]
          /\ UNCHANGED <<sess, opener>>
    /\ UNCHANGED <<ws, done, cli, cst, wire, outside, sst>>

NextPipe(p) == wire[p] = "none" /\ \A q \in 1..(p - 1) : wire[q] # "none"

\* dialPipe and NewMuxDialer. The outside's handler is there once the upgrade or
\* the handshake is through.
DialPipe(c, p) ==
    /\ cpc[c] = "dial" /\ NextPipe(p) /\ ~innerClosed
    /\ wire' = [wire EXCEPT ![p] = "up"]
    /\ hpc' = [hpc EXCEPT ![p] = "offer"]
    /\ cli' = [cli EXCEPT ![p] = "up"]
    /\ md' = p /\ mu' = None
    /\ Opens(c, p)
    /\ UNCHANGED <<ws, done, cst, apc, srv, spc, cur, vpc, muxClosed, innerClosed,
                   sst>>

\* Mutant: the error return leaves the lock held.
DialFailsLocked(c) ==
    /\ cpc[c] = "dial"
    /\ Fails(c)
    /\ UNCHANGED <<ws, session, cst, wire, outside, sst>>

\* The dial is refused, or times out.
DialFails(c) ==
    /\ cpc[c] = "dial"
    /\ mu' = None
    /\ Fails(c)
    /\ UNCHANGED <<ws, md, done, cli, cst, wire, outside, sst>>

\* The outside accepted, but too late for the inside, which closes the pipe.
DialLate(c, p) ==
    /\ cpc[c] = "dial" /\ NextPipe(p) /\ ~innerClosed
    /\ wire' = [wire EXCEPT ![p] = "cut"]
    /\ hpc' = [hpc EXCEPT ![p] = "offer"]
    /\ mu' = None
    /\ Fails(c)
    /\ UNCHANGED <<ws, md, done, cli, cst, apc, srv, spc, cur, vpc, muxClosed,
                   innerClosed, sst>>

\* close, on the end of the server's context.
Close ==
    /\ mu = None /\ ~done
    /\ done' = TRUE /\ md' = None
    /\ IF md = None
       THEN UNCHANGED <<cli, cst, wire>>
       ELSE /\ cli' = [cli EXCEPT ![md] = "closed"]
            /\ cst' = StreamsEnd(md)
            /\ wire' = [wire EXCEPT ![md] = "cut"]
    /\ UNCHANGED <<ws, mu, call, outside, sst>>

-----------------------------------------------------------------------------
(* MuxDialer.Open *)

\* The goroutine: OpenStream fails on a closed session and waits while the
\* backlog is full. Its channel has room for the result.
OpenStream(c) ==
    LET p == sess[c]
    IN  /\ opener[c] = "opening"
        /\ \/ /\ cli[p] = "closed"
              /\ opener' = [opener EXCEPT ![c] = "err"]
              /\ UNCHANGED <<cst, sst>>
           \/ /\ cli[p] = "up" /\ Cardinality(Unaccepted(p)) < Backlog
              /\ opener' = [opener EXCEPT ![c] = "stream"]
              /\ cst' = [cst EXCEPT ![c] = "open"]
              /\ sst' = [sst EXCEPT ![c] = IF wire[p] = "up" /\ srv[p] # "closed"
                                           THEN "backlog" ELSE "none"]
        /\ UNCHANGED <<ws, session, cpc, sess, wire, outside>>

OpenReturns(c) ==
    /\ cpc[c] = "open" /\ opener[c] \in {"stream", "err"}
    /\ cpc' = [cpc EXCEPT ![c] = IF opener[c] = "stream" THEN "held" ELSE "failed"]
    /\ UNCHANGED <<ws, session, sess, opener, cst, wire, outside, sst>>

\* The caller's context ends: nobody takes the stream from the channel.
OpenGivesUp(c) ==
    /\ cpc[c] = "open"
    /\ cpc' = [cpc EXCEPT ![c] = "failed"]
    /\ UNCHANGED <<ws, session, sess, opener, cst, wire, outside, sst>>

-----------------------------------------------------------------------------
(* The inner listener and acceptPipes *)

\* The unbuffered hand-over to Accept, and yamux.Server on the pipe. select may
\* choose it although the listener is closed. A tunnel's accept is done then; a
\* WebSocket's handler stays.
HandOver(p) ==
    /\ hpc[p] = "offer" /\ apc = "accept"
    /\ hpc' = [hpc EXCEPT ![p] = IF ws THEN "kept" ELSE "done"]
    /\ srv' = [srv EXCEPT ![p] = "up"]
    /\ spc' = [spc EXCEPT ![p] = "accept"]
    /\ UNCHANGED <<ws, session, call, cst, wire, apc, cur, vpc, muxClosed, innerClosed, sst>>

OfferCancelled(p) ==
    /\ hpc[p] = "offer" /\ innerClosed
    /\ hpc' = [hpc EXCEPT ![p] = "done"]
    /\ wire' = [wire EXCEPT ![p] = "cut"]
    /\ UNCHANGED <<ws, session, call, cst, apc, srv, spc, cur, vpc, muxClosed, innerClosed, sst>>

\* Mutants: the handler waits for one of the two only.
HandlerReturnsOnClose(p) ==
    /\ hpc[p] = "kept" /\ innerClosed
    /\ hpc' = [hpc EXCEPT ![p] = "done"]
    /\ wire' = [wire EXCEPT ![p] = "cut"]
    /\ UNCHANGED <<ws, session, call, cst, apc, srv, spc, cur, vpc, muxClosed, innerClosed, sst>>

HandlerReturnsOnDone(p) ==
    /\ hpc[p] = "kept" /\ srv[p] = "closed"
    /\ hpc' = [hpc EXCEPT ![p] = "done"]
    /\ UNCHANGED <<ws, session, call, cst, wire, apc, srv, spc, cur, vpc, muxClosed,
                   innerClosed, sst>>

\* The pipe was closed (connWrap.done), or the listener is.
HandlerReturns(p) ==
    /\ hpc[p] = "kept"
    /\ \/ srv[p] = "closed" /\ UNCHANGED wire
       \/ innerClosed /\ wire' = [wire EXCEPT ![p] = "cut"]
    /\ hpc' = [hpc EXCEPT ![p] = "done"]
    /\ UNCHANGED <<ws, session, call, cst, apc, srv, spc, cur, vpc, muxClosed, innerClosed, sst>>

AcceptPipesEnds ==
    /\ apc = "accept" /\ innerClosed
    /\ apc' = "done"
    /\ UNCHANGED <<ws, session, call, cst, wire, hpc, srv, spc, cur, vpc, muxClosed,
                   innerClosed, sst>>

-----------------------------------------------------------------------------
(* acceptStreams, Accept and Close of MuxListener *)

AcceptStream(p, c) ==
    /\ spc[p] = "accept" /\ srv[p] = "up" /\ sess[c] = p /\ sst[c] = "backlog"
    /\ spc' = [spc EXCEPT ![p] = "offer"]
    /\ cur' = [cur EXCEPT ![p] = c]
    /\ sst' = [sst EXCEPT ![c] = "offered"]
    /\ UNCHANGED <<ws, session, call, cst, wire, hpc, apc, srv, vpc, muxClosed, innerClosed>>

AcceptStreamsEnds(p) ==
    /\ spc[p] = "accept" /\ srv[p] = "closed"
    /\ spc' = [spc EXCEPT ![p] = "done"]
    /\ UNCHANGED <<ws, session, call, cst, wire, hpc, apc, srv, cur, vpc, muxClosed,
                   innerClosed, sst>>

\* The unbuffered hand-over to Accept, which the command server's loop called.
Serve(p) ==
    /\ spc[p] = "offer" /\ vpc = "accept"
    /\ sst' = [sst EXCEPT ![cur[p]] = "serving"]
    /\ spc' = [spc EXCEPT ![p] = "accept"]
    /\ cur' = [cur EXCEPT ![p] = None]
    /\ UNCHANGED <<ws, session, call, cst, wire, hpc, apc, srv, vpc, muxClosed, innerClosed>>

\* Mutant: the session is left open.
OfferStreamOnlyCancelled(p) ==
    /\ spc[p] = "offer" /\ muxClosed
    /\ spc' = [spc EXCEPT ![p] = "done"]
    /\ sst' = [sst EXCEPT ![cur[p]] = "closed"]
    /\ cur' = [cur EXCEPT ![p] = None]
    /\ UNCHANGED <<ws, session, call, cst, wire, hpc, apc, srv, vpc, muxClosed, innerClosed>>

\* The stream is closed, and by the deferred call the session with it.
OfferStreamCancelled(p) ==
    /\ spc[p] = "offer" /\ muxClosed
    /\ spc' = [spc EXCEPT ![p] = "done"]
    /\ sst' = [BacklogEnds(p) EXCEPT ![cur[p]] = "closed"]
    /\ cur' = [cur EXCEPT ![p] = None]
    /\ srv' = [srv EXCEPT ![p] = "closed"]
    /\ wire' = [wire EXCEPT ![p] = "cut"]
    /\ UNCHANGED <<ws, session, call, cst, hpc, apc, vpc, muxClosed, innerClosed>>

ServeStops ==
    /\ vpc = "accept" /\ muxClosed
    /\ vpc' = "done"
    /\ UNCHANGED <<ws, session, call, cst, wire, hpc, apc, srv, spc, cur, muxClosed,
                   innerClosed, sst>>

CloseMux ==
    /\ ~muxClosed
    /\ muxClosed' = TRUE
    /\ UNCHANGED <<ws, session, call, cst, wire, hpc, apc, srv, spc, cur, vpc, innerClosed, sst>>

CloseInner ==
    /\ muxClosed /\ ~innerClosed
    /\ innerClosed' = TRUE
    /\ UNCHANGED <<ws, session, call, cst, wire, hpc, apc, srv, spc, cur, vpc, muxClosed, sst>>

-----------------------------------------------------------------------------
Dialing(c) ==
    \/ Session(c)
    \/ \E p \in Pipes : DialPipe(c, p) \/ DialLate(c, p)
    \/ DialFails(c)
    \/ OpenReturns(c)

AcceptStreams(p) ==
    \/ \E c \in Calls : AcceptStream(p, c)
    \/ AcceptStreamsEnds(p) \/ Serve(p) \/ OfferStreamCancelled(p)

Handler(p) == HandOver(p) \/ OfferCancelled(p) \/ HandlerReturns(p)

\* What the goroutines of the two brokers and yamux do by themselves: those that
\* can go on do, dials are bounded by their timeouts, and each end of a failed
\* pipe notices.
System ==
    \/ \E c \in Calls : Dialing(c) \/ OpenStream(c)
    \/ \E p \in Pipes : ClientNotices(p) \/ ServerNotices(p) \/ Handler(p) \/ AcceptStreams(p)
    \/ AcceptPipesEnds \/ ServeStops \/ CloseInner

\* Nobody need call, give up, close or cut anything.
Environment ==
    \/ \E c \in Calls : Call(c) \/ CallerCloses(c) \/ OpenGivesUp(c)
    \/ \E p \in Pipes : WireFails(p)
    \/ Close \/ CloseMux

Next == System \/ Environment

Spec == Init /\ [][Next]_vars

\* No action can be taken for ever, since the calls and the pipes are bounded: a
\* behaviour that is fair to System as a whole leaves none of its actions enabled.
FairSpec == Spec /\ WF_vars(System)

-----------------------------------------------------------------------------
\* There is one link: a yamux client that is up is the one carrierClient hands
\* out, although several callers find the old one dead at once, and there is
\* none any more once close has returned.
SoleSession == \A p \in Pipes : cli[p] = "up" => md = p /\ ~done

\* The calls of dial under way end, with a stream or an error, and so do the
\* goroutines that Open started for them: neither a dead session, nor another
\* caller's dial under the lock, nor a full backlog, nor a caller that gave up
\* holds one for ever.
CallEnds ==
    []<>\A c \in Calls : cpc[c] \in {"idle", "held", "failed"} /\ opener[c] # "opening"

\* A stream that was opened is served by the outside, or one of its ends is
\* closed: it is not lost between the accept loops, whichever of them are
\* shutting down.
StreamSettles ==
    []<>\A c \in Calls : cst[c] = "open" => sst[c] \in {"serving", "closed"}

\* Once a pipe has failed at either end, all that the outside keeps for it
\* returns: the HTTP handler and the stream loop.
PipeGoesDown ==
    []<>\A p \in Pipes : wire[p] = "cut" => hpc[p] = "done" /\ spc[p] \in {"none", "done"}

\* After a close of the listener over WebSockets all of its goroutines return,
\* also those of pipes that were handed over while it was closing.
CloseEndsAll ==
    []<>(ws /\ muxClosed =>
        /\ apc = "done" /\ vpc = "done"
        /\ \A p \in Pipes : hpc[p] \in {"none", "done"} /\ spc[p] \in {"none", "done"})
=============================================================================

----------------------------- MODULE Rendezvous -----------------------------
(***************************************************************************)
(* The request side of the broker: CCB_REQUEST in standard and in streaming *)
(* (proxy) mode, inbound relay hops, the result reports and the raw         *)
(* CCB_REVERSE_CONNECTs that targets send back, and the splice              *)
(* (request.go, proxy.go, serveTarget and deliverResult of server.go).      *)
(*                                                                         *)
(* How targets register is the business of Registry; here a target is      *)
(* registered until it is gone. Every request, reverse connection and      *)
(* target below is one connection, and is not reused.                      *)
(***************************************************************************)
EXTENDS Integers, Sequences, FiniteSets

CONSTANTS
    Requests,   \* connections carrying a CCB_REQUEST, and inbound relays
    Targets,    \* registered targets
    RevConns,   \* connections carrying a CCB_REVERSE_CONNECT
    ConnectIDs, \* what a request's ClaimId may be
    Modes,      \* which of "standard", "proxy", "relay" are asked for
    MaxAtStop,  \* bound on the requests taken when the server's context is cancelled
    None        \* nobody, nothing

ASSUME RendezvousOK ==
    /\ IsFiniteSet(Requests)
    /\ Modes \subseteq {"standard", "proxy", "relay"} /\ MaxAtStop \in Nat
    /\ None \notin Requests \cup Targets \cup RevConns \cup ConnectIDs /\ None # "ok"

VARIABLES
    nextReq,   \* Server.nextReq
    requests,  \* Server.requests: the handler waiting for each request id
    proxies,   \* Server.proxies: the handler whose session a connect id names
    targets,   \* the targets in Server.targets
    pc,        \* where each handleRequest or startInboundRelay is
    ask,       \* what was asked: mode, target and connect id
    reqID,     \* the request id given to it
    replyCh,   \* request.replyCh, of capacity 1
    targetCh,  \* proxySession.targetCh, of capacity 1
    targetConn,\* the connection the handler took from targetCh
    done,      \* proxySession.done is closed
    answer,    \* what the requester was told
    reqOpen,   \* the requester's (a relay's upstream) connection is open
    fwd,       \* the messages each target has received
    said,      \* what each target has reported, on which of them
    reports,   \* the reports on their way on its registration connection
    held,      \* the request deliverResult looked up, with the result
    rpc,       \* where each handleReverseConnect is
    rev,       \* who sent the reverse connection, and for which connect id
    sess,      \* the session it found
    revOpen,   \* the reverse connection is open
    stopped    \* the server's context is cancelled

handler == <<pc, reqID, replyCh, targetCh, targetConn, done, answer>>
tables == <<nextReq, requests, proxies>>
target == <<targets, fwd, said, reports, held>>
reverse == <<rpc, rev, sess>>
vars == <<tables, handler, ask, reqOpen, target, reverse, revOpen, stopped>>

ReqIDs == 1..Cardinality(Requests)
Asked == [mode : Modes, target : Targets, connectID : ConnectIDs]

-----------------------------------------------------------------------------
Init ==
    /\ nextReq = 0
    /\ requests = [i \in ReqIDs |-> None]
    /\ proxies = [k \in ConnectIDs |-> None]
    /\ targets = Targets
    /\ pc = [r \in Requests |-> "idle"]
    /\ ask = [r \in Requests |-> None]
    /\ reqID = [r \in Requests |-> 0]
    /\ replyCh = [r \in Requests |-> None]
    /\ targetCh = [r \in Requests |-> None]
    /\ targetConn = [r \in Requests |-> None]
    /\ done = [r \in Requests |-> FALSE]
    /\ answer = [r \in Requests |-> None]
    /\ reqOpen = [r \in Requests |-> FALSE]
    /\ fwd = [t \in Targets |-> {}]
    /\ said = [t \in Targets |-> {}]
    /\ reports = [t \in Targets |-> <<>>]
    /\ held = [t \in Targets |-> None]
    /\ rpc = [v \in RevConns |-> "idle"]
    /\ rev = [v \in RevConns |-> None]
    /\ sess = [v \in RevConns |-> None]
    /\ revOpen = [v \in RevConns |-> FALSE]
    /\ stopped = FALSE

-----------------------------------------------------------------------------
(* Requesters, targets and the network (external). *)

\* Names are taken in a fixed order: connections, connect ids and targets that
\* have not been seen are as good as one another.
Unused(S, used) == IF S \subseteq used THEN None ELSE CHOOSE x \in S : x \notin used

Taken == {r \in Requests : pc[r] # "idle"}

\* A request arrives, while the server accepts. A requester that tries again may
\* use its connect id again, for the same target; a relay's is generated by the
\* broker itself.
Arrive(r, a) ==
    /\ ~stopped /\ r = Unused(Requests, Taken)
    /\ LET ids  == {ask[q].connectID : q \in Taken}
           used == {ask[q].target : q \in Taken}
       IN  /\ a.connectID \in ids \cup {Unused(ConnectIDs, ids)}
           /\ a.target \in used \cup {Unused(Targets, used)}
    /\ \A q \in Requests :
          q \in Taken /\ ask[q].connectID = a.connectID =>
              "relay" \notin {a.mode, ask[q].mode} /\ ask[q].target = a.target
    /\ ask' = [ask EXCEPT ![r] = a]
    /\ reqOpen' = [reqOpen EXCEPT ![r] = TRUE]
    /\ pc' = [pc EXCEPT ![r] = "read"]
    /\ UNCHANGED <<tables, reqID, replyCh, targetCh, targetConn, done, answer,
                   target, reverse, revOpen, stopped>>

\* The requester closes its connection: before the greeting or the splice, and
\* after them, nobody would notice.
RequesterCloses(r) ==
    /\ reqOpen[r] /\ pc[r] \in {"greet", "splice"}
    /\ reqOpen' = [reqOpen EXCEPT ![r] = FALSE]
    /\ UNCHANGED <<tables, handler, ask, target, reverse, revOpen, stopped>>

\* A target reports, once, on a request that it received in standard mode.
Report(t, m, ok) ==
    /\ t \in targets /\ m \in fwd[t] /\ m.mode = "standard"
    /\ \A x \in said[t] : x.of # m.of
    /\ said' = [said EXCEPT ![t] = @ \cup {[of |-> m.of, success |-> ok]}]
    /\ reports' = [reports EXCEPT ![t] = Append(@, [id |-> m.id, success |-> ok])]
    /\ UNCHANGED <<tables, handler, ask, reqOpen, targets, fwd, held, reverse,
                   revOpen, stopped>>

\* A target that received a proxy request connects to the broker, at any later
\* time and possibly again.
ReverseConnect(v, t, m) ==
    /\ ~stopped /\ v = Unused(RevConns, {w \in RevConns : rpc[w] # "idle"})
    /\ m \in fwd[t] /\ m.mode # "standard"
    /\ rev' = [rev EXCEPT ![v] = [target |-> t, connectID |-> m.connectID]]
    /\ rpc' = [rpc EXCEPT ![v] = "read"]
    /\ revOpen' = [revOpen EXCEPT ![v] = TRUE]
    /\ UNCHANGED <<tables, handler, ask, reqOpen, target, sess, stopped>>

\* The target closes its connection; only a splice notices.
RevConnCloses(v) ==
    /\ revOpen[v] /\ \E r \in Requests : pc[r] = "splice" /\ targetConn[r] = v
    /\ revOpen' = [revOpen EXCEPT ![v] = FALSE]
    /\ UNCHANGED <<tables, handler, ask, reqOpen, target, reverse, stopped>>

\* The target's registration connection ends; what it carried is not read. (Of
\* targets that somebody is asking for.)
TargetGone(t) ==
    /\ t \in targets /\ held[t] = None
    /\ \E r \in Taken : pc[r] # "done" /\ ask[r].target = t
    /\ targets' = targets \ {t}
    /\ reports' = [reports EXCEPT ![t] = <<>>]
    /\ UNCHANGED <<tables, handler, ask, reqOpen, fwd, said, held, reverse,
                   revOpen, stopped>>

\* Serve's context is cancelled.
Stop ==
    /\ ~stopped /\ Cardinality(Taken) <= MaxAtStop
    /\ stopped' = TRUE
    /\ UNCHANGED <<tables, handler, ask, reqOpen, target, reverse, revOpen>>

-----------------------------------------------------------------------------
(* How a handler ends *)

Client(r) == ask[r].mode # "relay"

\* Mutant: a relay's upstream is not closed.
Mut_Fails(r, at) ==
    /\ pc' = [pc EXCEPT ![r] = at]
    /\ answer' = IF Client(r) THEN [answer EXCEPT ![r] = "fail"] ELSE answer
    /\ UNCHANGED reqOpen

\* replyFailure and proxyFail: a client is told, a relay's upstream is closed.
Fails(r, at) ==
    /\ pc' = [pc EXCEPT ![r] = at]
    /\ answer' = IF Client(r) THEN [answer EXCEPT ![r] = "fail"] ELSE answer
    /\ reqOpen' = IF Client(r) THEN reqOpen ELSE [reqOpen EXCEPT ![r] = FALSE]

\* The deferred delete of the request or of the session.
Leave(r) ==
    /\ pc[r] = "leave"
    /\ pc' = [pc EXCEPT ![r] = "done"]
    /\ IF ask[r].mode = "standard"
       THEN requests' = [requests EXCEPT ![reqID[r]] = None] /\ UNCHANGED proxies
       ELSE proxies' = [proxies EXCEPT ![ask[r].connectID] = None] /\ UNCHANGED requests
    /\ UNCHANGED <<nextReq, reqID, replyCh, targetCh, targetConn, done, answer,
                   ask, reqOpen, target, reverse, revOpen, stopped>>

-----------------------------------------------------------------------------
(* handleRequest and startInboundRelay up to the table entry *)

\* The ad is bad, the peer is not authorized, or no such target is registered.
Refuse(r) ==
    /\ pc[r] = "read"
    /\ Fails(r, "done")
    /\ UNCHANGED <<tables, reqID, replyCh, targetCh, targetConn, done, ask,
                   target, reverse, revOpen, stopped>>

\* The ad cannot be read: nobody is answered.
Unreadable(r) ==
    /\ pc[r] = "read" /\ Client(r)
    /\ pc' = [pc EXCEPT ![r] = "done"]
    /\ UNCHANGED <<tables, reqID, replyCh, targetCh, targetConn, done, answer, ask,
                   reqOpen, target, reverse, revOpen, stopped>>

\* The target is looked up under the lock, which is then released.
Lookup(r) ==
    /\ pc[r] = "read" /\ ask[r].target \in targets
    /\ pc' = [pc EXCEPT ![r] = "register"]
    /\ UNCHANGED <<tables, reqID, replyCh, targetCh, targetConn, done, answer,
                   ask, reqOpen, target, reverse, revOpen, stopped>>

\* Mutant: ids are reused when requests leave.
Mut_NextReq == Cardinality({i \in ReqIDs : requests[i] # None}) + 1

\* s.nextReq++
NextReq == nextReq + 1

RegisterStandard(r) ==
    /\ pc[r] = "register" /\ ask[r].mode = "standard"
    /\ nextReq' = NextReq
    /\ reqID' = [reqID EXCEPT ![r] = NextReq]
    /\ requests' = [requests EXCEPT ![NextReq] = r]
    /\ pc' = [pc EXCEPT ![r] = "forward"]
    /\ UNCHANGED <<proxies, replyCh, targetCh, targetConn, done, answer, ask,
                   reqOpen, target, reverse, revOpen, stopped>>

\* Mutant: the deferred delete is set up before the duplicate check.
Mut_RegisterProxy(r) ==
    LET k == ask[r].connectID
    IN  /\ pc[r] = "register" /\ ask[r].mode # "standard"
        /\ nextReq' = NextReq
        /\ reqID' = [reqID EXCEPT ![r] = NextReq]
        /\ IF proxies[k] # None
           THEN Fails(r, "leave") /\ UNCHANGED proxies
           ELSE /\ proxies' = [proxies EXCEPT ![k] = r]
                /\ pc' = [pc EXCEPT ![r] = "forward"]
                /\ UNCHANGED <<answer, reqOpen>>
        /\ UNCHANGED <<requests, replyCh, targetCh, targetConn, done, ask, target,
                       reverse, revOpen, stopped>>

\* proxyRelay's critical section: a connect id in use is refused.
RegisterProxy(r) ==
    LET k == ask[r].connectID
    IN  /\ pc[r] = "register" /\ ask[r].mode # "standard"
        /\ nextReq' = NextReq
        /\ reqID' = [reqID EXCEPT ![r] = NextReq]
        /\ IF proxies[k] # None
           THEN Fails(r, "done") /\ UNCHANGED proxies
           ELSE /\ proxies' = [proxies EXCEPT ![k] = r]
                /\ pc' = [pc EXCEPT ![r] = "forward"]
                /\ UNCHANGED <<answer, reqOpen>>
        /\ UNCHANGED <<requests, replyCh, targetCh, targetConn, done, ask, target,
                       reverse, revOpen, stopped>>

-----------------------------------------------------------------------------
(* Forwarding, and waiting for the target *)

\* target.write: on a connection that is gone it may still seem to succeed.
\* The target tells messages apart, whatever their ids: of says for which request
\* each was sent.
Forward(r) ==
    /\ pc[r] = "forward"
    /\ pc' = [pc EXCEPT ![r] = "wait"]
    /\ fwd' = IF ask[r].target \in targets
              THEN [fwd EXCEPT ![ask[r].target] = @ \cup
                       {[of |-> r, id |-> reqID[r], mode |-> ask[r].mode,
                         connectID |-> ask[r].connectID]}]
              ELSE fwd
    /\ UNCHANGED <<tables, reqID, replyCh, targetCh, targetConn, done, answer, ask,
                   reqOpen, targets, said, reports, held, reverse, revOpen, stopped>>

ForwardFails(r) ==
    /\ pc[r] = "forward" /\ ask[r].target \notin targets
    /\ Fails(r, "leave")
    /\ UNCHANGED <<tables, reqID, replyCh, targetCh, targetConn, done, ask, target,
                   reverse, revOpen, stopped>>

\* Mutant: the wait has no time limit.
Mut_Timeout(r) ==
    /\ pc[r] = "wait" /\ stopped
    /\ Fails(r, "leave")
    /\ UNCHANGED <<tables, reqID, replyCh, targetCh, targetConn, done, ask, target,
                   reverse, revOpen, stopped>>

\* RequestTimeout passes. select may choose this although an answer or a
\* connection is there.
Timeout(r) ==
    /\ pc[r] = "wait"
    /\ Fails(r, "leave")
    /\ UNCHANGED <<tables, reqID, replyCh, targetCh, targetConn, done, ask, target,
                   reverse, revOpen, stopped>>

\* ctx.Done: nobody is told anything.
Cancelled(r) ==
    /\ pc[r] = "wait" /\ stopped
    /\ pc' = [pc EXCEPT ![r] = "leave"]
    /\ UNCHANGED <<tables, reqID, replyCh, targetCh, targetConn, done, answer, ask,
                   reqOpen, target, reverse, revOpen, stopped>>

\* The target's report is relayed to the requester.
TakeReply(r) ==
    /\ pc[r] = "wait" /\ replyCh[r] # None
    /\ replyCh' = [replyCh EXCEPT ![r] = None]
    /\ answer' = [answer EXCEPT ![r] = IF replyCh[r].success THEN "ok" ELSE "fail"]
    /\ pc' = [pc EXCEPT ![r] = "leave"]
    /\ UNCHANGED <<tables, reqID, targetCh, targetConn, done, ask, reqOpen, target,
                   reverse, revOpen, stopped>>

\* The target's connection has come: a client is greeted before the splice, a
\* relay is not.
TakeTarget(r) ==
    /\ pc[r] = "wait" /\ targetCh[r] # None
    /\ targetConn' = [targetConn EXCEPT ![r] = targetCh[r]]
    /\ targetCh' = [targetCh EXCEPT ![r] = None]
    /\ pc' = [pc EXCEPT ![r] = IF Client(r) THEN "greet" ELSE "splice"]
    /\ UNCHANGED <<tables, reqID, replyCh, done, answer, ask, reqOpen, target,
                   reverse, revOpen, stopped>>

\* The reply ad and the reverse-connect hello.
Greet(r) ==
    /\ pc[r] = "greet"
    /\ answer' = [answer EXCEPT ![r] = "proxied"]
    /\ pc' = [pc EXCEPT ![r] = "splice"]
    /\ UNCHANGED <<tables, reqID, replyCh, targetCh, targetConn, done, ask, reqOpen,
                   target, reverse, revOpen, stopped>>

\* Mutant: the target's connection is left open.
Mut_GreetFails(r) ==
    /\ pc[r] = "greet" /\ ~reqOpen[r]
    /\ done' = [done EXCEPT ![r] = TRUE]
    /\ pc' = [pc EXCEPT ![r] = "leave"]
    /\ UNCHANGED <<tables, reqID, replyCh, targetCh, targetConn, answer, ask,
                   reqOpen, target, reverse, revOpen, stopped>>

\* The first or the second write fails because the requester has gone.
GreetFails(r) ==
    /\ pc[r] = "greet" /\ ~reqOpen[r]
    /\ \E a \in {answer[r], "proxied"} : answer' = [answer EXCEPT ![r] = a]
    /\ revOpen' = [revOpen EXCEPT ![targetConn[r]] = FALSE]
    /\ done' = [done EXCEPT ![r] = TRUE]
    /\ pc' = [pc EXCEPT ![r] = "leave"]
    /\ UNCHANGED <<tables, reqID, replyCh, targetCh, targetConn, ask, reqOpen, target,
                   reverse, stopped>>

\* Mutant: done is not closed after the splice.
Mut_SpliceEnds(r) ==
    /\ pc[r] = "splice" /\ (~reqOpen[r] \/ ~revOpen[targetConn[r]])
    /\ reqOpen' = [reqOpen EXCEPT ![r] = FALSE]
    /\ revOpen' = [revOpen EXCEPT ![targetConn[r]] = FALSE]
    /\ pc' = [pc EXCEPT ![r] = "leave"]
    /\ UNCHANGED <<tables, reqID, replyCh, targetCh, targetConn, done, answer, ask,
                   target, reverse, stopped>>

\* spliceConns: one side closes, both are closed, and both copies return.
SpliceEnds(r) ==
    /\ pc[r] = "splice" /\ (~reqOpen[r] \/ ~revOpen[targetConn[r]])
    /\ reqOpen' = [reqOpen EXCEPT ![r] = FALSE]
    /\ revOpen' = [revOpen EXCEPT ![targetConn[r]] = FALSE]
    /\ done' = [done EXCEPT ![r] = TRUE]
    /\ pc' = [pc EXCEPT ![r] = "leave"]
    /\ UNCHANGED <<tables, reqID, replyCh, targetCh, targetConn, answer, ask, target,
                   reverse, stopped>>

-----------------------------------------------------------------------------
(* serveTarget and deliverResult *)

\* A report is read and its request looked up; it may have left.
ReadReport(t) ==
    LET x == Head(reports[t])
    IN  /\ t \in targets /\ held[t] = None /\ reports[t] # <<>>
        /\ reports' = [reports EXCEPT ![t] = Tail(@)]
        /\ held' = [held EXCEPT ![t] = IF requests[x.id] = None THEN None
                                       ELSE [to |-> requests[x.id], res |-> x]]
        /\ UNCHANGED <<tables, handler, ask, reqOpen, targets, fwd, said, reverse,
                       revOpen, stopped>>

\* The non-blocking send on replyCh.
Deliver(t) ==
    LET r == held[t].to
    IN  /\ held[t] # None
        /\ replyCh' = IF replyCh[r] = None THEN [replyCh EXCEPT ![r] = held[t].res]
                                           ELSE replyCh
        /\ held' = [held EXCEPT ![t] = None]
        /\ UNCHANGED <<tables, pc, reqID, targetCh, targetConn, done, answer, ask,
                       reqOpen, targets, fwd, said, reports, reverse, revOpen, stopped>>

-----------------------------------------------------------------------------
(* handleReverseConnect *)

\* An error return: the command server closes the connection.
RevFails(v) ==
    /\ rpc' = [rpc EXCEPT ![v] = "done"]
    /\ revOpen' = [revOpen EXCEPT ![v] = FALSE]

\* Mutant: any pending session will do.
Mut_FindSession(v) ==
    /\ rpc[v] = "read"
    /\ IF \A k \in ConnectIDs : proxies[k] = None
       THEN RevFails(v) /\ UNCHANGED sess
       ELSE /\ \E k \in ConnectIDs :
                  proxies[k] # None /\ sess' = [sess EXCEPT ![v] = proxies[k]]
            /\ rpc' = [rpc EXCEPT ![v] = "handOff"]
            /\ UNCHANGED revOpen
    /\ UNCHANGED <<tables, handler, ask, reqOpen, target, rev, stopped>>

FindSession(v) ==
    LET found == proxies[rev[v].connectID]
    IN  /\ rpc[v] = "read"
        /\ IF found = None
           THEN RevFails(v) /\ UNCHANGED sess
           ELSE /\ sess' = [sess EXCEPT ![v] = found]
                /\ rpc' = [rpc EXCEPT ![v] = "handOff"]
                /\ UNCHANGED revOpen
        /\ UNCHANGED <<tables, handler, ask, reqOpen, target, rev, stopped>>

\* The non-blocking send on targetCh.
HandOff(v) ==
    /\ rpc[v] = "handOff"
    /\ IF targetCh[sess[v]] = None
       THEN /\ targetCh' = [targetCh EXCEPT ![sess[v]] = v]
            /\ rpc' = [rpc EXCEPT ![v] = "wait"]
            /\ UNCHANGED revOpen
       ELSE RevFails(v) /\ UNCHANGED targetCh
    /\ UNCHANGED <<tables, pc, reqID, replyCh, targetConn, done, answer, ask, reqOpen,
                   target, rev, sess, stopped>>

\* The session is done: the handler returns and the connection is kept.
RevReturns(v) ==
    /\ rpc[v] = "wait" /\ (done[sess[v]] \/ stopped)
    /\ rpc' = [rpc EXCEPT ![v] = "done"]
    /\ UNCHANGED <<tables, handler, ask, reqOpen, target, rev, sess, revOpen, stopped>>

-----------------------------------------------------------------------------
HandleRequest(r) ==
    \/ Refuse(r) \/ Unreadable(r) \/ Lookup(r) \/ RegisterStandard(r) \/ RegisterProxy(r)
    \/ Forward(r) \/ ForwardFails(r) \/ Timeout(r) \/ Cancelled(r)
    \/ TakeReply(r) \/ TakeTarget(r) \/ Greet(r) \/ GreetFails(r)
    \/ SpliceEnds(r) \/ Leave(r)

HandleReverseConnect(v) == FindSession(v) \/ HandOff(v) \/ RevReturns(v)

ServeTarget(t) == ReadReport(t) \/ Deliver(t)

Environment ==
    \/ \E r \in Requests : (\E a \in Asked : Arrive(r, a)) \/ RequesterCloses(r)
    \/ \E t \in Targets :
          \/ \E m \in fwd[t] :
                \/ \E ok \in BOOLEAN : Report(t, m, ok)
                \/ \E v \in RevConns : ReverseConnect(v, t, m)
          \/ TargetGone(t)
    \/ \E v \in RevConns : RevConnCloses(v)
    \/ Stop

Broker ==
    \/ \E r \in Requests : HandleRequest(r)
    \/ \E v \in RevConns : HandleReverseConnect(v)
    \/ \E t \in Targets : ServeTarget(t)

Next == Broker \/ Environment

Spec == Init /\ [][Next]_vars

\* Goroutines that can go on do, and timers fire. Peers owe us nothing. Every
\* connection is used once and no action can be taken for ever, so a behaviour
\* that is fair to the broker as a whole leaves none of its goroutines behind.
FairSpec == Spec /\ WF_vars(Broker)

-----------------------------------------------------------------------------
\* A requester is told of success only when the target it asked for reported
\* success on the message sent for this very request: a report carries only the
\* request id, and one that comes after its request timed out answers no other.
AnswerIsOurs ==
    \A r \in Requests : answer[r] = "ok" =>
        [of |-> r, success |-> TRUE] \in said[ask[r].target]

\* A requester is only ever spliced to a connection from the target it asked
\* for, made for its own connect id, and shares it with no other session, even
\* if the connection was made for an earlier session under the same id.
SplicedToAskedTarget ==
    \A r \in Requests : targetConn[r] # None =>
        /\ rev[targetConn[r]] = [target |-> ask[r].target, connectID |-> ask[r].connectID]
        /\ \A q \in Requests : targetConn[q] = targetConn[r] => q = r

\* A session can be found for as long as its handler waits: neither a refused
\* duplicate nor the end of an earlier session with the same connect id takes
\* its entry away.
SessionFindable ==
    \A r \in Requests :
        pc[r] \in {"forward", "wait", "greet", "splice", "leave"} /\ ask[r].mode # "standard"
            => proxies[ask[r].connectID] = r

\* A handler leaves no connection behind: what it took from targetCh is closed by
\* the time it has returned, whether it was spliced or the greeting failed; and a
\* relay hop, which has no one to answer, closes its upstream connection however
\* it ends, or the outer broker would never fail its client (while the server
\* runs: a cancelled handler leaves that to the end of the process).
NothingLeftOpen ==
    \A r \in Requests : pc[r] = "done" =>
        /\ targetConn[r] # None => ~revOpen[targetConn[r]]
        /\ ask[r].mode = "relay" /\ ~stopped => ~reqOpen[r]

\* Every request comes to an answer, to a splice, or to its end: neither a target
\* that says nothing nor one that goes away holds a requester for ever.
RequestEnds == []<>\A r \in Requests : pc[r] \in {"idle", "splice", "done"}

\* The handler of a connection that was spliced returns when the splice is over.
SplicedHandlerReturns ==
    []<>\A r \in Requests, v \in RevConns :
        targetConn[r] = v /\ pc[r] \in {"leave", "done"} => rpc[v] = "done"

-----------------------------------------------------------------------------
(* What the code says of itself and does not do. *)

\* proxy.go:214-215: handleReverseConnect is to "wait until the splice finishes
\* before returning": once its session is over, it returns.
HandedOffReturns ==
    \A v \in RevConns :
        (rpc[v] = "wait" /\ pc[sess[v]] = "done") ~> (rpc[v] = "done")

\* proxy.go:219: a connection that comes to a session which has one is refused:
\* "proxy session already satisfied".
OneTargetPerSession ==
    \A v, w \in RevConns :
        rpc[v] = "wait" /\ rpc[w] = "wait" /\ sess[v] = sess[w] => v = w
=============================================================================

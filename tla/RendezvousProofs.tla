-------------------------- MODULE RendezvousProofs --------------------------
(* Theorems about Rendezvous, for any requests, targets, connections and    *)
(* connect ids.                                                             *)
EXTENDS Rendezvous, FiniteSetTheorems, TLAPS

\* Most leaves are first-order reasoning; those that need arithmetic, sequences
\* or the values of functions cite SMT.
USE Zenon

-----------------------------------------------------------------------------
(* What peers cannot do *)

\* Peers leave the broker's tables and handlers alone.
LEMMA EnvironmentKeeps ==
    ASSUME Environment
    PROVE  /\ UNCHANGED <<nextReq, requests, proxies, reqID, replyCh, targetCh, targetConn,
                          done, answer, fwd, held, sess>>
           /\ UNCHANGED pc \/ \E r \in Requests, a \in Asked : Arrive(r, a)
           /\ \/ UNCHANGED said
              \/ \E t \in Targets : \E m \in fwd[t] : \E ok \in BOOLEAN : Report(t, m, ok)
<1> USE DEF tables, handler, target, reverse
<1>1. ASSUME NEW r \in Requests, NEW a \in Asked, Arrive(r, a)
      PROVE  UNCHANGED <<nextReq, requests, proxies, reqID, replyCh, targetCh, targetConn,
                         done, answer, fwd, held, sess, said>>
    BY <1>1 DEF Arrive
<1>2. ASSUME NEW t \in Targets, NEW m \in fwd[t], NEW ok \in BOOLEAN, Report(t, m, ok)
      PROVE  UNCHANGED <<nextReq, requests, proxies, reqID, replyCh, targetCh, targetConn,
                         done, answer, fwd, held, sess, pc>>
    BY <1>2 DEF Report
<1> DEFINE P == UNCHANGED <<nextReq, requests, proxies, reqID, replyCh, targetCh,
                            targetConn, done, answer, fwd, held, sess, pc, said>>
<1>3. ASSUME NEW r \in Requests, RequesterCloses(r) PROVE P
    BY <1>3 DEF RequesterCloses
<1>4. ASSUME NEW t \in Targets, NEW m \in fwd[t], NEW v \in RevConns,
             ReverseConnect(v, t, m)
      PROVE  P
    BY <1>4 DEF ReverseConnect
<1>5. ASSUME NEW t \in Targets, TargetGone(t) PROVE P
    BY <1>5 DEF TargetGone
<1>6. ASSUME NEW v \in RevConns, RevConnCloses(v) PROVE P
    BY <1>6 DEF RevConnCloses
<1>7. CASE Stop
    BY <1>7 DEF Stop
<1> QED BY <1>1, <1>2, <1>3, <1>4, <1>5, <1>6, <1>7 DEF Environment

\* Only its own handler moves a request that has come.
LEMMA HandlerMoves ==
    ASSUME [Next]_vars, ~ \E r \in Requests : HandleRequest(r),
           ~ \E r \in Requests, a \in Asked : Arrive(r, a)
    PROVE  UNCHANGED pc
<1> USE DEF handler
<1>1. ASSUME NEW v \in RevConns, HandleReverseConnect(v) PROVE UNCHANGED pc
    BY <1>1 DEF HandleReverseConnect, FindSession, HandOff, RevReturns
<1>2. ASSUME NEW t \in Targets, ServeTarget(t) PROVE UNCHANGED pc
    BY <1>2 DEF ServeTarget, ReadReport, Deliver
<1>3. CASE UNCHANGED vars
    BY <1>3 DEF vars
<1> QED BY <1>1, <1>2, <1>3, EnvironmentKeeps DEF Next, Broker

-----------------------------------------------------------------------------
(* A connect id and its session *)

Session == {"forward", "wait", "greet", "splice", "leave"}
BeforeSession == {"read", "register"}

SessionTypes ==
    /\ pc \in [Requests -> {"idle", "done"} \cup BeforeSession \cup Session]
    /\ ask \in [Requests -> Asked \cup {None}]
    /\ proxies \in [ConnectIDs -> Requests \cup {None}]

\* Requests that have come asked for something, and those with the same connect
\* id asked for the same target.
AskSound ==
    /\ \A r \in Requests : pc[r] # "idle" => ask[r] \in Asked
    /\ \A q, r \in Requests :
          pc[q] # "idle" /\ pc[r] # "idle" /\ ask[q].connectID = ask[r].connectID
              => ask[q].target = ask[r].target

\* An entry of the table leads to a request with that connect id.
EntrySound ==
    \A k \in ConnectIDs : proxies[k] # None =>
        pc[proxies[k]] # "idle" /\ ask[proxies[k]].connectID = k

SessionInv == SessionTypes /\ AskSound /\ EntrySound /\ SessionFindable

\* What a step other than an arrival does to a request, as far as sessions are
\* concerned: it keeps what was asked, and the table.
Onwards ==
    /\ UNCHANGED <<ask, proxies>>
    /\ pc' \in [Requests -> {"idle", "done"} \cup BeforeSession \cup Session]
    /\ \A r \in Requests :
          \/ pc'[r] = pc[r]
          \/ pc[r] \in BeforeSession /\ pc'[r] \in BeforeSession \cup {"done"}
          \/ pc[r] \in Session /\ pc'[r] \in Session
          \/ pc[r] = "register" /\ ask[r].mode = "standard" /\ pc'[r] = "forward"

LEMMA SessionInit == Init => SessionInv
BY RendezvousOK, SMT DEF Init, SessionInv, SessionTypes, AskSound, EntrySound, SessionFindable

\* A name that Unused finds is one that was not used.
LEMMA UnusedIs ==
    ASSUME NEW S, NEW used, NEW x \in S, None \notin S, x = Unused(S, used)
    PROVE  x \notin used
BY DEF Unused

LEMMA ArriveStep ==
    ASSUME SessionInv, NEW r \in Requests, NEW a \in Asked, Arrive(r, a)
    PROVE  SessionInv' /\ pc[r] = "idle"
<1> USE DEF SessionInv, Session, BeforeSession
<1>1. pc[r] = "idle"
    BY RendezvousOK, UnusedIs, SMT DEF Arrive, Taken
<1>2. pc' = [pc EXCEPT ![r] = "read"] /\ ask' = [ask EXCEPT ![r] = a] /\ proxies' = proxies
    BY DEF Arrive, tables
<1>3. SessionTypes'
    BY <1>2 DEF SessionTypes
<1>4. \A q \in Requests : q # r /\ pc[q] # "idle" /\ ask[q].connectID = a.connectID
                            => ask[q].target = a.target
    BY DEF Arrive, Taken
<1>5. AskSound'
    BY <1>1, <1>2, <1>4 DEF SessionTypes, AskSound
<1>6. EntrySound'
    BY <1>1, <1>2 DEF SessionTypes, EntrySound
<1>7. SessionFindable'
    BY <1>1, <1>2 DEF SessionTypes, SessionFindable
<1> QED BY <1>1, <1>3, <1>5, <1>6, <1>7

LEMMA OnwardsStep == ASSUME SessionInv, Onwards PROVE SessionInv'
<1> USE DEF SessionInv, Onwards, Session, BeforeSession
<1>1. SessionTypes'
    BY DEF SessionTypes
<1>2. \A r \in Requests : pc'[r] # "idle" <=> pc[r] # "idle"
    BY DEF SessionTypes
<1>3. AskSound'
    BY <1>2 DEF AskSound
<1>4. EntrySound'
    BY RendezvousOK, <1>2, SMT DEF SessionTypes, EntrySound
<1>5. SessionFindable'
    BY DEF SessionTypes, SessionFindable
<1> QED BY <1>1, <1>3, <1>4, <1>5

LEMMA RegisterProxyStep ==
    ASSUME SessionInv, NEW r \in Requests, RegisterProxy(r)
    PROVE  SessionInv'
<1> USE DEF SessionInv, Session, BeforeSession
<1> DEFINE k == ask[r].connectID
<1>1. k \in ConnectIDs /\ pc[r] = "register" /\ ask' = ask
    BY DEF RegisterProxy, AskSound, Asked
<1>2. CASE proxies[k] # None
    <2>1. Onwards
        BY <1>1, <1>2 DEF RegisterProxy, Fails, Onwards, SessionTypes
    <2> QED BY <2>1, OnwardsStep
<1>3. CASE proxies[k] = None
    <2>1. pc' = [pc EXCEPT ![r] = "forward"] /\ proxies' = [proxies EXCEPT ![k] = r]
        BY <1>3 DEF RegisterProxy
    <2>2. SessionTypes'
        BY <1>1, <2>1 DEF SessionTypes
    <2>3. AskSound'
        BY <1>1, <2>1 DEF SessionTypes, AskSound
    <2>4. EntrySound'
        BY <1>1, <2>1, RendezvousOK, SMT DEF SessionTypes, EntrySound
    <2>5. SessionFindable'
        BY <1>1, <1>3, <2>1, RendezvousOK, SMT DEF SessionTypes, SessionFindable
    <2> QED BY <2>2, <2>3, <2>4, <2>5
<1> QED BY <1>2, <1>3

LEMMA LeaveStep ==
    ASSUME SessionInv, NEW r \in Requests, Leave(r)
    PROVE  SessionInv'
<1> USE DEF SessionInv, Session, BeforeSession
<1> DEFINE k == ask[r].connectID
<1>1. k \in ConnectIDs /\ pc[r] = "leave" /\ ask' = ask /\ pc' = [pc EXCEPT ![r] = "done"]
    BY DEF Leave, AskSound, Asked
<1>2. \/ ask[r].mode = "standard" /\ proxies' = proxies
      \/ ask[r].mode # "standard" /\ proxies' = [proxies EXCEPT ![k] = None]
    BY DEF Leave
<1>3. SessionTypes'
    BY <1>1, <1>2 DEF SessionTypes
<1>4. AskSound'
    BY <1>1 DEF SessionTypes, AskSound
<1>5. EntrySound'
    BY <1>1, <1>2, RendezvousOK, SMT DEF SessionTypes, EntrySound
<1>6. ASSUME NEW q \in Requests, pc'[q] \in Session, ask'[q].mode # "standard"
      PROVE  proxies'[ask'[q].connectID] = q
    <2>1. q # r /\ pc[q] \in Session /\ ask[q].mode # "standard"
        BY <1>1, <1>6 DEF SessionTypes
    <2>2. ask[q].connectID \in ConnectIDs
        BY <2>1 DEF AskSound, Asked
    <2>3. proxies[ask[q].connectID] = q
        BY <2>1 DEF SessionFindable
    <2>4. ask[r].mode # "standard" => proxies[k] = r
        BY <1>1 DEF SessionFindable
    <2> QED BY <1>1, <1>2, <2>1, <2>2, <2>3, <2>4 DEF SessionTypes
<1>7. SessionFindable'
    BY <1>6 DEF SessionFindable
<1> QED BY <1>3, <1>4, <1>5, <1>7

\* Every other step is one Onwards.
LEMMA OtherSteps ==
    ASSUME SessionInv, [Next]_vars,
           ~ \E r \in Requests, a \in Asked : Arrive(r, a),
           ~ \E r \in Requests : RegisterProxy(r) \/ Leave(r)
    PROVE  Onwards
<1> USE DEF SessionInv, SessionTypes, Onwards, Session, BeforeSession, handler, tables
<1>1. ASSUME NEW r \in Requests, HandleRequest(r) PROVE Onwards
    <2>1. CASE Refuse(r) \/ Unreadable(r) \/ Lookup(r) \/ RegisterStandard(r)
        BY <2>1 DEF Refuse, Unreadable, Lookup, RegisterStandard, Fails
    <2>2. CASE Forward(r) \/ ForwardFails(r) \/ Timeout(r) \/ Cancelled(r) \/ TakeReply(r)
        BY <2>2 DEF Forward, ForwardFails, Timeout, Cancelled, TakeReply, Fails
    <2>3. CASE TakeTarget(r) \/ Greet(r) \/ GreetFails(r) \/ SpliceEnds(r)
        BY <2>3 DEF TakeTarget, Greet, GreetFails, SpliceEnds
    <2> QED BY <1>1, <2>1, <2>2, <2>3 DEF HandleRequest
<1>2. ASSUME NEW v \in RevConns, HandleReverseConnect(v) PROVE Onwards
    BY <1>2 DEF HandleReverseConnect, FindSession, HandOff, RevReturns
<1>3. ASSUME NEW t \in Targets, ServeTarget(t) PROVE Onwards
    BY <1>3 DEF ServeTarget, ReadReport, Deliver
<1>4. CASE Environment
    <2>1. ASSUME NEW r \in Requests, RequesterCloses(r) PROVE Onwards
        BY <2>1 DEF RequesterCloses
    <2>2. ASSUME NEW t \in Targets, NEW m \in fwd[t], NEW ok \in BOOLEAN, Report(t, m, ok)
          PROVE  Onwards
        BY <2>2 DEF Report
    <2>3. ASSUME NEW t \in Targets, NEW m \in fwd[t], NEW v \in RevConns,
                 ReverseConnect(v, t, m)
          PROVE  Onwards
        BY <2>3 DEF ReverseConnect
    <2>4. ASSUME NEW t \in Targets, TargetGone(t) PROVE Onwards
        BY <2>4 DEF TargetGone
    <2>5. ASSUME NEW v \in RevConns, RevConnCloses(v) PROVE Onwards
        BY <2>5 DEF RevConnCloses
    <2>6. CASE Stop
        BY <2>6 DEF Stop
    <2> QED BY <1>4, <2>1, <2>2, <2>3, <2>4, <2>5, <2>6 DEF Environment
<1>5. CASE UNCHANGED vars
    BY <1>5 DEF vars
<1> QED BY <1>1, <1>2, <1>3, <1>4, <1>5 DEF Next, Broker

LEMMA SessionStep == SessionInv /\ [Next]_vars => SessionInv'
BY ArriveStep, RegisterProxyStep, LeaveStep, OtherSteps, OnwardsStep

LEMMA SessionInvariance == Spec => []SessionInv
BY SessionInit, SessionStep, PTL DEF Spec

\* A session can be found under its connect id for as long as its handler waits:
\* neither a refused duplicate nor the end of an earlier session under the same
\* id takes its entry away.
THEOREM SessionsFindable == Spec => []SessionFindable
<1>1. SessionInv => SessionFindable
    BY DEF SessionInv
<1> QED BY <1>1, SessionInvariance, PTL

-----------------------------------------------------------------------------
(* A connection and the session it was made for *)

Message == [of : Requests, id : Nat, mode : Modes, connectID : ConnectIDs]
From == [target : Targets, connectID : ConnectIDs]

SpliceTypes ==
    /\ fwd \in [Targets -> SUBSET Message]
    /\ reqID \in [Requests -> Nat]
    /\ nextReq \in Nat
    /\ rpc \in [RevConns -> {"idle", "read", "handOff", "wait", "done"}]
    /\ rev \in [RevConns -> From \cup {None}]
    /\ sess \in [RevConns -> Requests \cup {None}]
    /\ targetCh \in [Requests -> RevConns \cup {None}]
    /\ targetConn \in [Requests -> RevConns \cup {None}]

Come(r) == r \in Requests /\ pc[r] # "idle"

\* What a target has received was sent for a request for it.
FwdSound ==
    \A t \in Targets : \A m \in fwd[t] :
        Come(m.of) /\ ask[m.of].target = t /\ ask[m.of].connectID = m.connectID

\* A reverse connection comes from the target of some request with its connect id.
RevSound ==
    \A v \in RevConns : rpc[v] # "idle" =>
        /\ rev[v] \in From
        /\ \E q \in Requests : /\ Come(q) /\ ask[q].target = rev[v].target
                               /\ ask[q].connectID = rev[v].connectID

\* v was made for the connect id of r's session.
MadeFor(v, r) == Come(r) /\ ask[r].connectID = rev[v].connectID

SessSound ==
    \A v \in RevConns : rpc[v] \in {"handOff", "wait"} => MadeFor(v, sess[v])

\* A connection is handed to the session it found, and is not handed over again.
HandedOver ==
    \A r \in Requests, v \in RevConns : v \in {targetCh[r], targetConn[r]} =>
        rpc[v] \in {"wait", "done"} /\ sess[v] = r /\ MadeFor(v, r)

SpliceInv == SpliceTypes /\ FwdSound /\ RevSound /\ SessSound /\ HandedOver

\* A request that has come stays, with what it asked for.
Stays == \A r \in Requests : Come(r) => Come(r)' /\ ask'[r] = ask[r]

LEMMA StaysStep == SessionInv /\ [Next]_vars => Stays
<1> SUFFICES ASSUME SessionInv, [Next]_vars PROVE Stays
    OBVIOUS
<1> USE DEF Stays, Come, SessionInv, SessionTypes
<1>1. ASSUME NEW r \in Requests, NEW a \in Asked, Arrive(r, a) PROVE Stays
    BY <1>1, ArriveStep DEF Arrive
<1>2. ASSUME NEW r \in Requests, RegisterProxy(r) \/ Leave(r) PROVE Stays
    BY <1>2 DEF RegisterProxy, Leave, Fails
<1>3. CASE Onwards
    BY <1>3 DEF Onwards, Session, BeforeSession
<1> QED BY <1>1, <1>2, <1>3, OtherSteps

LEMMA SpliceInit == Init => SpliceInv
BY RendezvousOK, SMT
   DEF Init, SpliceInv, SpliceTypes, FwdSound, RevSound, SessSound, HandedOver

\* What only the requests' progress can disturb.
LEMMA SpliceFrame ==
    ASSUME SpliceInv, Stays, SpliceTypes',
           UNCHANGED <<fwd, rpc, rev, sess, targetCh, targetConn>>
    PROVE  SpliceInv'
<1> USE DEF SpliceInv, Stays
<1>1. FwdSound'
    BY SMT DEF FwdSound, SpliceTypes, Message, Come
<1>2. RevSound'
    BY SMT DEF RevSound, Come
<1>3. SessSound'
    BY DEF SessSound, MadeFor, Come
<1>4. HandedOver'
    BY SMT DEF HandedOver, MadeFor, Come
<1> QED BY <1>1, <1>2, <1>3, <1>4

LEMMA ForwardSplice ==
    ASSUME SessionInv, SpliceInv, Stays, NEW r \in Requests, Forward(r)
    PROVE  SpliceInv'
<1> USE DEF SpliceInv, Stays
<1> DEFINE m0 == [of |-> r, id |-> reqID[r], mode |-> ask[r].mode,
                  connectID |-> ask[r].connectID]
<1>1. UNCHANGED <<rpc, rev, sess, targetCh, targetConn, reqID, nextReq, ask>>
    BY DEF Forward, reverse, tables
<1>2. Come(r) /\ ask[r] \in Asked
    BY DEF Forward, SessionInv, AskSound, Come
<1>3. m0 \in Message
    BY <1>2 DEF Message, Asked, SpliceTypes
<1>4. fwd' = fwd \/ fwd' = [fwd EXCEPT ![ask[r].target] = @ \cup {m0}]
    BY DEF Forward
<1>5. SpliceTypes'
    BY <1>1, <1>2, <1>3, <1>4, SMT DEF SpliceTypes, Asked
<1>6. FwdSound'
    <2> SUFFICES ASSUME NEW t \in Targets, NEW m \in fwd'[t]
                 PROVE  Come(m.of)' /\ ask[m.of].target = t
                        /\ ask[m.of].connectID = m.connectID
        BY <1>1 DEF FwdSound
    <2>1. m \in fwd[t] \/ (m = m0 /\ t = ask[r].target)
        BY <1>2, <1>4, SMT DEF SpliceTypes, Asked
    <2>2. Come(m.of) /\ ask[m.of].target = t /\ ask[m.of].connectID = m.connectID
        <3>1. CASE m \in fwd[t]
            BY <3>1 DEF FwdSound
        <3>2. CASE m = m0 /\ t = ask[r].target
            BY <1>2, <3>2
        <3> QED BY <2>1, <3>1, <3>2
    <2> QED BY <2>2 DEF Come
<1>7. RevSound'
    BY <1>1 DEF RevSound, Come
<1>8. SessSound'
    BY <1>1 DEF SessSound, MadeFor, Come
<1>9. HandedOver'
    BY <1>1, SMT DEF HandedOver, MadeFor, Come
<1> QED BY <1>5, <1>6, <1>7, <1>8, <1>9

LEMMA ReverseConnectSplice ==
    ASSUME SpliceInv, Stays, NEW t \in Targets, NEW m \in fwd[t], NEW v \in RevConns,
           ReverseConnect(v, t, m)
    PROVE  SpliceInv'
<1> USE DEF SpliceInv, Stays
<1>1. rpc[v] = "idle"
    BY RendezvousOK, UnusedIs, SMT DEF ReverseConnect
<1>2. /\ UNCHANGED <<fwd, sess, targetCh, targetConn, reqID, nextReq, ask, pc>>
      /\ rev' = [rev EXCEPT ![v] = [target |-> t, connectID |-> m.connectID]]
      /\ rpc' = [rpc EXCEPT ![v] = "read"]
    BY DEF ReverseConnect, target, tables, handler
<1>3. m \in Message /\ Come(m.of) /\ ask[m.of].target = t
      /\ ask[m.of].connectID = m.connectID
    BY DEF FwdSound, SpliceTypes
<1>4. SpliceTypes'
    BY <1>2, <1>3 DEF SpliceTypes, Message, From
<1>5. FwdSound'
    BY <1>2, SMT DEF FwdSound, Come
<1>6. RevSound'
    BY <1>2, <1>3 DEF RevSound, SpliceTypes, From, Message, Come
<1>7. SessSound'
    BY <1>2 DEF SessSound, SpliceTypes, MadeFor, Come
<1>8. HandedOver'
    BY <1>1, <1>2, SMT DEF HandedOver, SpliceTypes, MadeFor, Come
<1> QED BY <1>4, <1>5, <1>6, <1>7, <1>8

LEMMA ReverseHandlerSplice ==
    ASSUME SessionInv, SpliceInv, Stays, NEW v \in RevConns, HandleReverseConnect(v)
    PROVE  SpliceInv'
<1> USE DEF SpliceInv
<1>1. UNCHANGED <<fwd, rev, targetConn, reqID, nextReq, ask, pc>>
    BY DEF HandleReverseConnect, FindSession, HandOff, RevReturns, target, tables, handler
<1>2. CASE FindSession(v)
    <2>1. rpc[v] = "read" /\ targetCh' = targetCh
        BY <1>2 DEF FindSession, handler
    <2>2. \/ rpc' = [rpc EXCEPT ![v] = "done"] /\ sess' = sess
          \/ /\ rpc' = [rpc EXCEPT ![v] = "handOff"]
             /\ sess' = [sess EXCEPT ![v] = proxies[rev[v].connectID]]
             /\ proxies[rev[v].connectID] # None
        BY <1>2 DEF FindSession, RevFails
    <2>3. rev[v].connectID \in ConnectIDs
        BY <2>1 DEF RevSound, From
    <2>4. proxies[rev[v].connectID] # None => MadeFor(v, proxies[rev[v].connectID])
        BY <2>3 DEF SessionInv, SessionTypes, EntrySound, MadeFor, Come
    <2>5. SpliceTypes'
        BY <1>1, <2>1, <2>2, <2>3 DEF SpliceTypes, SessionInv, SessionTypes
    <2>6. FwdSound' /\ RevSound'
        <3>1. FwdSound'
            BY <1>1 DEF FwdSound, Come
        <3>2. RevSound'
            BY <1>1, <2>1, <2>2 DEF RevSound, SpliceTypes, Come
        <3> QED BY <3>1, <3>2
    <2>7. SessSound'
        BY <1>1, <2>2, <2>4, SMT DEF SessSound, SpliceTypes, MadeFor, Come
    <2>8. HandedOver'
        BY <1>1, <2>1, <2>2, SMT DEF HandedOver, SpliceTypes, MadeFor, Come
    <2> QED BY <2>5, <2>6, <2>7, <2>8
<1>3. CASE HandOff(v)
    <2>1. rpc[v] = "handOff" /\ sess' = sess /\ MadeFor(v, sess[v])
        BY <1>3 DEF HandOff, SessSound
    <2>2. \/ rpc' = [rpc EXCEPT ![v] = "wait"] /\ targetCh' = [targetCh EXCEPT ![sess[v]] = v]
          \/ rpc' = [rpc EXCEPT ![v] = "done"] /\ targetCh' = targetCh
        BY <1>3 DEF HandOff, RevFails
    <2>3. SpliceTypes'
        BY <1>1, <2>1, <2>2, SMT DEF SpliceTypes
    <2>4. FwdSound' /\ RevSound'
        <3>1. FwdSound'
            BY <1>1 DEF FwdSound, Come
        <3>2. RevSound'
            BY <1>1, <2>1, <2>2 DEF RevSound, SpliceTypes, Come
        <3> QED BY <3>1, <3>2
    <2>5. SessSound'
        BY <1>1, <2>1, <2>2 DEF SessSound, SpliceTypes, MadeFor, Come
    <2>6. HandedOver'
        BY <1>1, <2>1, <2>2, SMT DEF HandedOver, SpliceTypes, MadeFor, Come
    <2> QED BY <2>3, <2>4, <2>5, <2>6
<1>4. CASE RevReturns(v)
    <2>1. /\ rpc[v] = "wait" /\ UNCHANGED <<sess, targetCh>>
          /\ rpc' = [rpc EXCEPT ![v] = "done"]
        BY <1>4 DEF RevReturns, handler
    <2>2. SpliceTypes'
        BY <1>1, <2>1 DEF SpliceTypes
    <2>3. FwdSound' /\ RevSound'
        BY <1>1, <2>1, SMT DEF FwdSound, RevSound, SpliceTypes, Come
    <2>4. SessSound' /\ HandedOver'
        BY <1>1, <2>1, SMT DEF SessSound, HandedOver, SpliceTypes, MadeFor, Come
    <2> QED BY <2>2, <2>3, <2>4
<1> QED BY <1>2, <1>3, <1>4 DEF HandleReverseConnect

LEMMA TakeTargetSplice ==
    ASSUME SpliceInv, Stays, NEW r \in Requests, TakeTarget(r)
    PROVE  SpliceInv'
<1> USE DEF SpliceInv, Stays
<1>1. /\ UNCHANGED <<fwd, rpc, rev, sess, reqID, nextReq>>
      /\ targetConn' = [targetConn EXCEPT ![r] = targetCh[r]]
      /\ targetCh' = [targetCh EXCEPT ![r] = None]
    BY DEF TakeTarget, target, reverse, tables
<1>2. SpliceTypes'
    BY <1>1 DEF SpliceTypes
<1>3. FwdSound'
    BY <1>1, SMT DEF FwdSound, SpliceTypes, Message, Come
<1>4. RevSound' /\ SessSound'
    BY <1>1, SMT DEF RevSound, SessSound, MadeFor, Come
<1>5. HandedOver'
    BY <1>1, RendezvousOK, SMT DEF HandedOver, SpliceTypes, MadeFor, Come
<1> QED BY <1>2, <1>3, <1>4, <1>5

\* The steps that move neither a message nor a connection.
LEMMA OtherSplice ==
    ASSUME SpliceInv, [Next]_vars,
           ~ \E r \in Requests : Forward(r) \/ TakeTarget(r),
           ~ \E v \in RevConns : HandleReverseConnect(v),
           ~ \E t \in Targets, v \in RevConns : \E m \in fwd[t] : ReverseConnect(v, t, m)
    PROVE  SpliceTypes' /\ UNCHANGED <<fwd, rpc, rev, sess, targetCh, targetConn>>
<1> DEFINE P == SpliceTypes' /\ UNCHANGED <<fwd, rpc, rev, sess, targetCh, targetConn>>
<1> USE DEF SpliceInv, SpliceTypes, handler, tables, target, reverse
<1>1. ASSUME NEW r \in Requests, HandleRequest(r) PROVE P
    <2>1. CASE Refuse(r) \/ Unreadable(r) \/ Lookup(r)
        BY <2>1 DEF Refuse, Unreadable, Lookup
    <2>2. CASE RegisterStandard(r) \/ RegisterProxy(r)
        <3>1. /\ UNCHANGED <<fwd, rpc, rev, sess, targetCh, targetConn>>
              /\ nextReq' = nextReq + 1 /\ reqID' = [reqID EXCEPT ![r] = nextReq + 1]
            BY <2>2 DEF RegisterStandard, RegisterProxy, NextReq
        <3> QED BY <3>1, SMT
    <2>5. CASE Leave(r)
        BY <2>5 DEF Leave
    <2>3. CASE ForwardFails(r) \/ Timeout(r) \/ Cancelled(r) \/ TakeReply(r)
        BY <2>3 DEF ForwardFails, Timeout, Cancelled, TakeReply
    <2>4. CASE Greet(r) \/ GreetFails(r) \/ SpliceEnds(r)
        BY <2>4, SMT DEF Greet, GreetFails, SpliceEnds
    <2> QED BY <1>1, <2>1, <2>2, <2>3, <2>4, <2>5 DEF HandleRequest
<1>2. ASSUME NEW t \in Targets, ServeTarget(t) PROVE P
    BY <1>2 DEF ServeTarget, ReadReport, Deliver
<1>3. CASE Environment
    <2>1. ASSUME NEW r \in Requests, NEW a \in Asked, Arrive(r, a) PROVE P
        BY <2>1 DEF Arrive
    <2>2. ASSUME NEW r \in Requests, RequesterCloses(r) PROVE P
        BY <2>2 DEF RequesterCloses
    <2>3. ASSUME NEW t \in Targets, NEW m \in fwd[t], NEW ok \in BOOLEAN, Report(t, m, ok)
          PROVE  P
        BY <2>3 DEF Report
    <2>4. ASSUME NEW t \in Targets, TargetGone(t) PROVE P
        BY <2>4 DEF TargetGone
    <2>5. ASSUME NEW v \in RevConns, RevConnCloses(v) PROVE P
        BY <2>5 DEF RevConnCloses
    <2>6. CASE Stop
        BY <2>6 DEF Stop
    <2> QED BY <1>3, <2>1, <2>2, <2>3, <2>4, <2>5, <2>6 DEF Environment
<1>4. CASE UNCHANGED vars
    BY <1>4 DEF vars
<1> QED BY <1>1, <1>2, <1>3, <1>4 DEF Next, Broker

LEMMA SpliceStep == SessionInv /\ SpliceInv /\ [Next]_vars => SpliceInv'
BY StaysStep, ForwardSplice, TakeTargetSplice, ReverseHandlerSplice,
   ReverseConnectSplice, OtherSplice, SpliceFrame

LEMMA SpliceInvariance == Spec => []SpliceInv
BY SpliceInit, SpliceStep, SessionInvariance, PTL DEF Spec

\* A requester is only ever spliced to a connection from the target it asked for,
\* made for its own connect id, and shared with no other session: proxyRelay takes
\* from targetCh only what handleReverseConnect found under that id.
THEOREM SplicesAreAsked == Spec => []SplicedToAskedTarget
<1>1. SessionInv /\ SpliceInv => SplicedToAskedTarget
    <2> SUFFICES ASSUME SessionInv, SpliceInv, NEW r \in Requests, targetConn[r] # None
                 PROVE  /\ rev[targetConn[r]] = [target |-> ask[r].target,
                                                 connectID |-> ask[r].connectID]
                        /\ \A q \in Requests : targetConn[q] = targetConn[r] => q = r
        BY DEF SplicedToAskedTarget
    <2> DEFINE v == targetConn[r]
    <2>1. v \in RevConns
        BY DEF SpliceInv, SpliceTypes
    <2>2. rpc[v] # "idle" /\ sess[v] = r /\ MadeFor(v, r)
        BY <2>1 DEF SpliceInv, HandedOver
    <2>3. PICK q \in Requests : /\ Come(q) /\ ask[q].target = rev[v].target
                                /\ ask[q].connectID = rev[v].connectID
        BY <2>1, <2>2 DEF SpliceInv, RevSound
    <2>4. ask[r].target = rev[v].target /\ ask[r].connectID = rev[v].connectID
        BY <2>2, <2>3 DEF SessionInv, AskSound, MadeFor, Come
    <2>5. rev[v] \in From
        BY <2>1, <2>2 DEF SpliceInv, RevSound
    <2>6. rev[v] = [target |-> ask[r].target, connectID |-> ask[r].connectID]
        BY <2>4, <2>5 DEF From
    <2>7. \A q1 \in Requests : targetConn[q1] = v => q1 = r
        BY <2>1, <2>2 DEF SpliceInv, HandedOver
    <2> QED BY <2>6, <2>7
<1> QED BY <1>1, SessionInvariance, SpliceInvariance, PTL

-----------------------------------------------------------------------------
(* Request ids *)

Numbered == {r \in Requests : reqID[r] # 0}

\* nextReq counts the requests that were given an id, and no two have the same.
NumberInv ==
    /\ nextReq = Cardinality(Numbered)
    /\ \A r \in Requests : reqID[r] <= nextReq
    /\ \A r \in Requests : pc[r] \in {"idle", "read", "register"} => reqID[r] = 0
    /\ \A r \in Requests : pc[r] \in Session => reqID[r] # 0
    /\ \A q, r \in Requests : reqID[q] = reqID[r] /\ reqID[r] # 0 => q = r

LEMMA NumberedFinite ==
    ASSUME SpliceTypes
    PROVE  IsFiniteSet(Numbered) /\ Cardinality(Numbered) <= Cardinality(Requests)
BY RendezvousOK, FS_Subset DEF Numbered

LEMMA NumberInit == Init => NumberInv
<1> SUFFICES ASSUME Init PROVE NumberInv
    OBVIOUS
<1>1. Numbered = {}
    BY DEF Init, Numbered
<1>2. Cardinality(Numbered) = 0
    BY <1>1, FS_EmptySet
<1> QED BY <1>2, SMT DEF Init, NumberInv, Session

\* s.nextReq++ and its use, in handleRequest and in proxyRelay.
LEMMA RegisterNumber ==
    ASSUME SessionInv, SpliceInv, NumberInv, NEW r \in Requests,
           RegisterStandard(r) \/ RegisterProxy(r)
    PROVE  NumberInv' /\ reqID[r] = 0 /\ nextReq + 1 \in ReqIDs
<1> USE DEF SessionInv, SessionTypes, SpliceInv, SpliceTypes
<1>1. /\ pc[r] = "register" /\ nextReq' = nextReq + 1
      /\ reqID' = [reqID EXCEPT ![r] = nextReq + 1]
    BY DEF RegisterStandard, RegisterProxy, NextReq
<1>2. pc' = [pc EXCEPT ![r] = "forward"] \/ pc' = [pc EXCEPT ![r] = "done"]
    BY DEF RegisterStandard, RegisterProxy, Fails
<1>3. reqID[r] = 0
    BY <1>1 DEF NumberInv
<1>4. Numbered' = Numbered \cup {r} /\ r \notin Numbered
    BY <1>1, <1>3, SMT DEF Numbered
<1>5. IsFiniteSet(Numbered) /\ Cardinality(Numbered) \in Nat
    BY NumberedFinite, FS_CardinalityType
<1>6. Cardinality(Numbered') = Cardinality(Numbered) + 1
    BY <1>4, <1>5, FS_AddElement
<1>7. Cardinality(Numbered') <= Cardinality(Requests) /\ Cardinality(Requests) \in Nat
    <2>1. Numbered' \subseteq Requests
        BY DEF Numbered
    <2> QED BY <2>1, RendezvousOK, FS_Subset, FS_CardinalityType
<1>8. nextReq' = Cardinality(Numbered')
    BY <1>1, <1>6 DEF NumberInv
<1>9. nextReq + 1 \in ReqIDs
    BY <1>1, <1>7, <1>8, SMT DEF ReqIDs
<1>10. /\ \A q \in Requests : reqID'[q] <= nextReq'
       /\ \A q, p \in Requests : reqID'[q] = reqID'[p] /\ reqID'[p] # 0 => q = p
    BY <1>1, SMT DEF NumberInv
<1>11. /\ \A q \in Requests : pc'[q] \in {"idle", "read", "register"} => reqID'[q] = 0
       /\ \A q \in Requests : pc'[q] \in Session => reqID'[q] # 0
    BY <1>1, <1>2, SMT DEF NumberInv, Session
<1> QED BY <1>3, <1>8, <1>9, <1>10, <1>11 DEF NumberInv

LEMMA OtherNumber ==
    ASSUME SessionInv, SpliceInv, NumberInv, [Next]_vars,
           ~ \E r \in Requests : RegisterStandard(r) \/ RegisterProxy(r)
    PROVE  NumberInv' /\ UNCHANGED <<nextReq, reqID>>
<1> USE DEF SessionInv, SessionTypes, Session
<1>1. UNCHANGED <<nextReq, reqID>>
    <2> USE DEF tables, handler
    <2>1. ASSUME NEW r \in Requests, HandleRequest(r) PROVE UNCHANGED <<nextReq, reqID>>
        BY <2>1 DEF HandleRequest, Refuse, Unreadable, Lookup, Forward, ForwardFails,
                    Timeout, Cancelled, TakeReply, TakeTarget, Greet, GreetFails,
                    SpliceEnds, Leave
    <2>2. ASSUME NEW v \in RevConns, HandleReverseConnect(v)
          PROVE  UNCHANGED <<nextReq, reqID>>
        BY <2>2 DEF HandleReverseConnect, FindSession, HandOff, RevReturns
    <2>3. ASSUME NEW t \in Targets, ServeTarget(t) PROVE UNCHANGED <<nextReq, reqID>>
        BY <2>3 DEF ServeTarget, ReadReport, Deliver
    <2>4. CASE Environment
        BY <2>4, EnvironmentKeeps
    <2>5. CASE UNCHANGED vars
        BY <2>5 DEF vars
    <2> QED BY <2>1, <2>2, <2>3, <2>4, <2>5 DEF Next, Broker
<1>2. Numbered' = Numbered
    BY <1>1 DEF Numbered
<1> DEFINE Kept == \A r \in Requests :
                      /\ pc'[r] \in {"idle", "read", "register"} =>
                             pc[r] \in {"idle", "read", "register"}
                      /\ pc'[r] \in Session => pc[r] \in Session
<1>3. Kept
    <2>1. ASSUME NEW r \in Requests, NEW a \in Asked, Arrive(r, a) PROVE Kept
        BY <2>1, ArriveStep DEF Arrive
    <2>2. ASSUME NEW r \in Requests, Leave(r) PROVE Kept
        BY <2>2 DEF Leave
    <2>3. CASE Onwards
        <3>1. ASSUME NEW r \in Requests, pc[r] = "register", pc'[r] = "forward"
              PROVE  RegisterStandard(r)
            <4>1. \E q \in Requests : HandleRequest(q)
                <5>1. pc' # pc
                    BY <3>1
                <5>2. ASSUME NEW q \in Requests, NEW a \in Asked, Arrive(q, a) PROVE FALSE
                    BY <3>1, <5>2, ArriveStep DEF Arrive
                <5> QED BY <5>1, <5>2, HandlerMoves
            <4>2. PICK q \in Requests : HandleRequest(q)
                BY <4>1
            <4> QED BY <3>1, <4>2
                    DEF HandleRequest, Refuse, Unreadable, Lookup, Forward, ForwardFails,
                        Timeout, Cancelled, TakeReply, TakeTarget, Greet, GreetFails,
                        SpliceEnds, Leave, Fails, RegisterProxy
        <3> QED BY <2>3, <3>1 DEF Onwards, BeforeSession
    <2> QED BY <2>1, <2>2, <2>3, OtherSteps
<1> QED BY <1>1, <1>2, <1>3 DEF NumberInv

LEMMA NumberStep == SessionInv /\ SpliceInv /\ NumberInv /\ [Next]_vars => NumberInv'
BY RegisterNumber, OtherNumber

LEMMA NumberInvariance == Spec => []NumberInv
BY NumberInit, NumberStep, SessionInvariance, SpliceInvariance, PTL DEF Spec

-----------------------------------------------------------------------------
(* Reports *)

Result == [id : ReqIDs, success : BOOLEAN]
Said == [of : Requests, success : BOOLEAN]

AnswerTypes ==
    /\ requests \in [ReqIDs -> Requests \cup {None}]
    /\ said \in [Targets -> SUBSET Said]
    /\ held \in [Targets -> [to : Requests, res : Result] \cup {None}]
    /\ replyCh \in [Requests -> Result \cup {None}]
    /\ answer \in [Requests -> {None, "ok", "fail", "proxied"}]

LEMMA ReqIDsPositive == ReqIDs \subseteq Nat /\ 0 \notin ReqIDs
BY SMT DEF ReqIDs

ReportTypes == reports \in [Targets -> Seq(Result)]

\* What is in a sequence, and what its operations do to that.
Elems(s) == {s[i] : i \in 1..Len(s)}

LEMMA EmptyElems == Elems(<<>>) = {}
BY SMT DEF Elems

LEMMA ElemsType == ASSUME NEW S, NEW s \in Seq(S) PROVE Elems(s) \subseteq S
BY SMT DEF Elems

LEMMA AppendElems ==
    ASSUME NEW S, NEW s \in Seq(S), NEW x \in S
    PROVE  Append(s, x) \in Seq(S) /\ Elems(Append(s, x)) = Elems(s) \cup {x}
<1>1. /\ Append(s, x) \in Seq(S) /\ Len(s) \in Nat /\ Len(Append(s, x)) = Len(s) + 1
      /\ Append(s, x)[Len(s) + 1] = x
      /\ \A i \in 1..Len(s) : Append(s, x)[i] = s[i]
    BY SMT
<1>2. 1..(Len(s) + 1) = (1..Len(s)) \cup {Len(s) + 1}
    BY <1>1, SMT
<1> QED BY <1>1, <1>2, SMT DEF Elems

LEMMA TailElems ==
    ASSUME NEW S, NEW s \in Seq(S), s # <<>>
    PROVE  Head(s) \in Elems(s) /\ Tail(s) \in Seq(S) /\ Elems(Tail(s)) \subseteq Elems(s)
<1>1. /\ Len(s) \in Nat /\ 1 \in 1..Len(s) /\ Head(s) = s[1]
      /\ Tail(s) \in Seq(S) /\ Len(Tail(s)) = Len(s) - 1
    BY SMT
<1>2. \A i \in 1..Len(Tail(s)) : i + 1 \in 1..Len(s) /\ Tail(s)[i] = s[i + 1]
    BY <1>1, SMT
<1> QED BY <1>1, <1>2, SMT DEF Elems

\* The target of r has reported on it, with this outcome.
Reported(r, ok) == Come(r) /\ [of |-> r, success |-> ok] \in said[ask[r].target]

RequestsSound == \A i \in ReqIDs : requests[i] # None => reqID[requests[i]] = i

MessagesSound ==
    \A t \in Targets : \A m \in fwd[t] : m.id = reqID[m.of] /\ m.id \in ReqIDs

ReportsSound ==
    \A t \in Targets : \A x \in Elems(reports[t]) :
        x \in Result /\ \E q \in Requests : reqID[q] = x.id /\ Reported(q, x.success)

HeldSound ==
    \A t \in Targets : held[t] # None => Reported(held[t].to, held[t].res.success)

ReplySound ==
    \A r \in Requests : replyCh[r] # None => Reported(r, replyCh[r].success)

AnswerSound == \A r \in Requests : answer[r] = "ok" => Reported(r, TRUE)

AnswerInv ==
    /\ AnswerTypes /\ ReportTypes /\ RequestsSound /\ MessagesSound
    /\ ReportsSound /\ HeldSound /\ ReplySound /\ AnswerSound

\* What was said and what was numbered is not taken back.
Accrues ==
    /\ \A r \in Requests : reqID[r] # 0 => reqID'[r] = reqID[r]
    /\ \A t \in Targets : said[t] \subseteq said'[t]

\* No requester is newly told of success.
NoNewOk ==
    /\ answer' \in [Requests -> {None, "ok", "fail", "proxied"}]
    /\ \A r \in Requests : answer'[r] = "ok" => answer[r] = "ok"

LEMMA AnswerInit == Init => AnswerInv
<1> SUFFICES ASSUME Init PROVE AnswerInv
    OBVIOUS
<1>1. AnswerTypes /\ ReportTypes
    <2>1. AnswerTypes
        BY DEF Init, AnswerTypes
    <2>2. <<>> \in Seq(Result)
        BY SMT
    <2>3. ReportTypes
        BY <2>2 DEF Init, ReportTypes
    <2> QED BY <2>1, <2>3
<1>2. RequestsSound /\ MessagesSound /\ HeldSound /\ ReplySound
    BY DEF Init, RequestsSound, MessagesSound, HeldSound, ReplySound
<1>3. ReportsSound
    BY EmptyElems DEF Init, ReportsSound
<1>4. AnswerSound
    BY RendezvousOK DEF Init, AnswerSound
<1> QED BY <1>1, <1>2, <1>3, <1>4 DEF AnswerInv

LEMMA ReportedStays ==
    ASSUME SessionInv, Stays, Accrues, NEW r \in Requests, NEW ok, Reported(r, ok)
    PROVE  Reported(r, ok)'
<1>1. ask[r].target \in Targets
    BY DEF SessionInv, AskSound, Asked, Reported, Come
<1> QED BY <1>1 DEF Reported, Stays, Accrues

\* A step that reports nothing leaves each of the facts about a report alone when
\* it leaves alone where that report is.
LEMMA AnswerFrame ==
    ASSUME SessionInv, SpliceInv, AnswerInv, Stays, Accrues
    PROVE  /\ UNCHANGED fwd => MessagesSound'
           /\ (\A t \in Targets : Elems(reports[t])' \subseteq Elems(reports[t])) => ReportsSound'
           /\ UNCHANGED reports => ReportTypes' /\ ReportsSound'
           /\ UNCHANGED held => HeldSound'
           /\ UNCHANGED replyCh => ReplySound'
           /\ NoNewOk => AnswerSound'
<1> USE DEF AnswerInv
<1>1. ASSUME UNCHANGED fwd PROVE MessagesSound'
    <2>1. ASSUME NEW t \in Targets, NEW m \in fwd[t]
          PROVE  m.id = reqID'[m.of] /\ m.id \in ReqIDs
        <3>1. m.of \in Requests
            BY <2>1 DEF SpliceInv, FwdSound, Come
        <3>2. m.id = reqID[m.of] /\ m.id \in ReqIDs
            BY <2>1 DEF MessagesSound
        <3> QED BY <3>1, <3>2, ReqIDsPositive DEF Accrues
    <2> QED BY <1>1, <2>1 DEF MessagesSound, ReqIDs
<1>2. (\A t \in Targets : Elems(reports[t])' \subseteq Elems(reports[t])) => ReportsSound'
    <2> SUFFICES ASSUME NEW t \in Targets, NEW x \in Elems(reports[t])
                 PROVE  x \in Result /\ \E q \in Requests : reqID'[q] = x.id
                                                        /\ Reported(q, x.success)'
        BY DEF ReportsSound
    <2>1. x \in Result
        BY DEF ReportsSound
    <2>2. PICK q \in Requests : reqID[q] = x.id /\ Reported(q, x.success)
        BY DEF ReportsSound
    <2>3. reqID'[q] = x.id
        BY <2>1, <2>2, SMT DEF Accrues, Result, ReqIDs
    <2>4. Reported(q, x.success)'
        BY <2>2, ReportedStays
    <2> QED BY <2>1, <2>3, <2>4
<1>6. UNCHANGED reports => ReportTypes' /\ ReportsSound'
    BY <1>2 DEF ReportTypes
<1>3. UNCHANGED held => HeldSound'
    BY ReportedStays DEF HeldSound, AnswerTypes
<1>4. UNCHANGED replyCh => ReplySound'
    BY ReportedStays DEF ReplySound
<1>5. NoNewOk => AnswerSound'
    BY ReportedStays DEF AnswerSound, NoNewOk
<1> QED BY <1>1, <1>2, <1>3, <1>4, <1>5, <1>6

LEMMA AccruesStep ==
    ASSUME SessionInv, SpliceInv, NumberInv, AnswerInv, [Next]_vars
    PROVE  Accrues
<1>1. \A r \in Requests : reqID[r] # 0 => reqID'[r] = reqID[r]
    <2>1. ASSUME NEW r \in Requests, RegisterStandard(r) \/ RegisterProxy(r)
          PROVE  \A q \in Requests : reqID[q] # 0 => reqID'[q] = reqID[q]
        BY <2>1, RegisterNumber DEF RegisterStandard, RegisterProxy, SpliceInv, SpliceTypes
    <2> QED BY <2>1, OtherNumber
<1>2. \A t \in Targets : said[t] \subseteq said'[t]
    <2> USE DEF target
    <2>1. ASSUME NEW r \in Requests, HandleRequest(r) PROVE UNCHANGED said
        BY <2>1 DEF HandleRequest, Refuse, Unreadable, Lookup, RegisterStandard,
                    RegisterProxy, Forward, ForwardFails, Timeout, Cancelled, TakeReply,
                    TakeTarget, Greet, GreetFails, SpliceEnds, Leave
    <2>2. ASSUME NEW v \in RevConns, HandleReverseConnect(v) PROVE UNCHANGED said
        BY <2>2 DEF HandleReverseConnect, FindSession, HandOff, RevReturns
    <2>3. ASSUME NEW t \in Targets, ServeTarget(t) PROVE UNCHANGED said
        BY <2>3 DEF ServeTarget, ReadReport, Deliver
    <2>4. ASSUME NEW t \in Targets, NEW m \in fwd[t], NEW ok \in BOOLEAN, Report(t, m, ok)
          PROVE  \A u \in Targets : said[u] \subseteq said'[u]
        BY <2>4 DEF Report, AnswerInv, AnswerTypes
    <2>5. CASE Environment
        BY <2>4, <2>5, EnvironmentKeeps
    <2>6. CASE UNCHANGED vars
        BY <2>6 DEF vars
    <2> QED BY <2>1, <2>2, <2>3, <2>5, <2>6, SMT DEF Next, Broker
<1> QED BY <1>1, <1>2 DEF Accrues

\* What the lemmas on the steps below assume.
Before == SessionInv /\ SpliceInv /\ NumberInv /\ AnswerInv /\ Stays /\ Accrues

LEMMA RegisterAnswer ==
    ASSUME Before, NEW r \in Requests, RegisterStandard(r) \/ RegisterProxy(r)
    PROVE  AnswerInv'
<1> USE DEF Before
<1>1. nextReq + 1 \in ReqIDs /\ reqID[r] = 0
    BY RegisterNumber
<1>2. /\ UNCHANGED <<fwd, said, reports, held, replyCh>>
      /\ reqID' = [reqID EXCEPT ![r] = nextReq + 1]
      /\ requests' = requests \/ requests' = [requests EXCEPT ![nextReq + 1] = r]
    BY DEF RegisterStandard, RegisterProxy, NextReq, target
<1>3. NoNewOk
    BY DEF RegisterStandard, RegisterProxy, Fails, NoNewOk, AnswerInv, AnswerTypes
<1>4. AnswerTypes'
    BY <1>1, <1>2, <1>3, SMT DEF AnswerInv, AnswerTypes, NoNewOk, ReqIDs
<1>5. ASSUME NEW i \in ReqIDs, requests'[i] # None PROVE reqID'[requests'[i]] = i
    <2>1. CASE requests'[i] = requests[i]
        <3>1. requests[i] \in Requests
            BY <1>5, <2>1 DEF AnswerInv, AnswerTypes
        <3>2. reqID[requests[i]] = i
            BY <1>5, <2>1 DEF AnswerInv, RequestsSound
        <3> QED BY <2>1, <3>1, <3>2, ReqIDsPositive DEF Accrues
    <2>2. CASE i = nextReq + 1 /\ requests'[i] = r
        BY <1>2, <2>2 DEF SpliceInv, SpliceTypes
    <2> QED BY <1>1, <1>2, <2>1, <2>2 DEF AnswerInv, AnswerTypes
<1>6. RequestsSound'
    BY <1>5 DEF RequestsSound, ReqIDs
<1> QED BY <1>2, <1>3, <1>4, <1>6, AnswerFrame DEF AnswerInv

LEMMA LeaveAnswer ==
    ASSUME Before, NEW r \in Requests, Leave(r)
    PROVE  AnswerInv'
<1> USE DEF Before
<1>1. /\ UNCHANGED <<fwd, said, reports, held, replyCh, answer, reqID>>
      /\ requests' = requests \/ requests' = [requests EXCEPT ![reqID[r]] = None]
    BY DEF Leave, target
<1>2. NoNewOk
    BY <1>1 DEF NoNewOk, AnswerInv, AnswerTypes
<1>3. AnswerTypes'
    BY <1>1 DEF AnswerInv, AnswerTypes, ReqIDs
<1>4. RequestsSound'
    BY <1>1 DEF RequestsSound, AnswerInv, AnswerTypes, ReqIDs
<1> QED BY <1>1, <1>2, <1>3, <1>4, AnswerFrame DEF AnswerInv

LEMMA ForwardAnswer ==
    ASSUME Before, NEW r \in Requests, Forward(r)
    PROVE  AnswerInv'
<1> USE DEF Before
<1> DEFINE m0 == [of |-> r, id |-> reqID[r], mode |-> ask[r].mode,
                  connectID |-> ask[r].connectID]
<1>1. /\ UNCHANGED <<requests, said, reports, held, replyCh, answer, reqID>>
      /\ fwd' = fwd \/ fwd' = [fwd EXCEPT ![ask[r].target] = @ \cup {m0}]
    BY DEF Forward, tables
<1>2. reqID[r] \in ReqIDs
    <2>1. reqID[r] \in Nat /\ reqID[r] # 0 /\ reqID[r] <= Cardinality(Numbered)
        BY DEF Forward, NumberInv, Session, SpliceInv, SpliceTypes
    <2>2. Cardinality(Numbered) <= Cardinality(Requests)
        BY NumberedFinite DEF SpliceInv
    <2>3. Cardinality(Numbered) \in Nat /\ Cardinality(Requests) \in Nat
        BY NumberedFinite, FS_CardinalityType, RendezvousOK DEF SpliceInv
    <2> QED BY <2>1, <2>2, <2>3, SMT DEF ReqIDs
<1>3. ASSUME NEW t \in Targets, NEW m \in fwd'[t] PROVE m.id = reqID[m.of] /\ m.id \in ReqIDs
    <2>1. m \in fwd[t] \/ m = m0
        <3>1. DOMAIN fwd = Targets
            BY DEF SpliceInv, SpliceTypes
        <3> HIDE DEF m0, Before
        <3> QED BY <1>1, <3>1
    <2>2. CASE m \in fwd[t]
        BY <2>2 DEF AnswerInv, MessagesSound
    <2>3. CASE m = m0
        BY <1>2, <2>3
    <2> QED BY <2>1, <2>2, <2>3
<1>5. MessagesSound'
    BY <1>1, <1>3 DEF MessagesSound, ReqIDs
<1>4. NoNewOk /\ AnswerTypes' /\ RequestsSound'
    BY <1>1 DEF NoNewOk, RequestsSound, AnswerInv, AnswerTypes, ReqIDs
<1> QED BY <1>1, <1>4, <1>5, AnswerFrame DEF AnswerInv

LEMMA TakeReplyAnswer ==
    ASSUME Before, NEW r \in Requests, TakeReply(r)
    PROVE  AnswerInv'
<1> USE DEF Before
<1>1. /\ UNCHANGED <<requests, fwd, said, reports, held, reqID>>
      /\ replyCh[r] # None /\ replyCh' = [replyCh EXCEPT ![r] = None]
      /\ answer' = [answer EXCEPT ![r] = IF replyCh[r].success THEN "ok" ELSE "fail"]
    BY DEF TakeReply, tables, target
<1>2. replyCh[r].success \in BOOLEAN /\ Reported(r, replyCh[r].success)
    BY <1>1 DEF AnswerInv, AnswerTypes, Result, ReplySound
<1>3. replyCh[r].success => Reported(r, TRUE)
    BY <1>2
<1>4. AnswerTypes' /\ RequestsSound'
    BY <1>1 DEF AnswerInv, AnswerTypes, RequestsSound, ReqIDs
<1>5. ReplySound'
    BY <1>1, ReportedStays DEF ReplySound, AnswerInv, AnswerTypes
<1>6. AnswerSound'
    BY <1>1, <1>3, ReportedStays DEF AnswerSound, AnswerInv, AnswerTypes
<1> QED BY <1>1, <1>4, <1>5, <1>6, AnswerFrame DEF AnswerInv

LEMMA ReportAnswer ==
    ASSUME Before, NEW t \in Targets, NEW m \in fwd[t], NEW ok \in BOOLEAN, Report(t, m, ok)
    PROVE  AnswerInv'
<1> USE DEF Before
<1> DEFINE x0 == [id |-> m.id, success |-> ok]
<1>1. /\ UNCHANGED <<requests, fwd, held, replyCh, answer, reqID, ask, pc>>
      /\ said' = [said EXCEPT ![t] = @ \cup {[of |-> m.of, success |-> ok]}]
      /\ reports' = [reports EXCEPT ![t] = Append(@, x0)]
    BY DEF Report, tables, handler
<1>2. m.of \in Requests /\ m.id = reqID[m.of] /\ m.id \in ReqIDs
    <2>1. fwd \in [Targets -> SUBSET Message]
        BY DEF SpliceInv, SpliceTypes
    <2>2. MessagesSound
        BY DEF AnswerInv
    <2> HIDE DEF Before
    <2>3. m \in Message
        BY <2>1
    <2>4. m.of \in Requests
        BY <2>3 DEF Message
    <2>5. m.id = reqID[m.of] /\ m.id \in ReqIDs
        BY <2>2 DEF MessagesSound
    <2> QED BY <2>4, <2>5
<1>3. Come(m.of) /\ ask[m.of].target = t
    BY DEF SpliceInv, FwdSound
<1>4. x0 \in Result
    BY <1>2 DEF Result
<1>5. AnswerTypes'
    <2>1. [of |-> m.of, success |-> ok] \in Said
        BY <1>2 DEF Said
    <2>2. said' \in [Targets -> SUBSET Said]
        BY <1>1, <2>1 DEF AnswerInv, AnswerTypes
    <2> QED BY <1>1, <2>2 DEF AnswerInv, AnswerTypes, Said, Result, ReqIDs
<1>6. RequestsSound' /\ NoNewOk
    BY <1>1 DEF AnswerInv, AnswerTypes, RequestsSound, NoNewOk, ReqIDs
<1>7. Reported(m.of, ok)'
    BY <1>1, <1>2, <1>3 DEF Reported, Come, AnswerInv, AnswerTypes
<1>8. /\ Append(reports[t], x0) \in Seq(Result)
      /\ Elems(Append(reports[t], x0)) = Elems(reports[t]) \cup {x0}
    <2>1. reports[t] \in Seq(Result)
        BY DEF AnswerInv, ReportTypes
    <2> HIDE DEF x0
    <2> QED BY <1>4, <2>1, AppendElems, SMT
<1>9. ReportTypes'
    BY <1>1, <1>8 DEF AnswerInv, ReportTypes
<1>10. ASSUME NEW u \in Targets, NEW x \in Elems(reports'[u])
       PROVE  x \in Result /\ \E q \in Requests : reqID'[q] = x.id /\ Reported(q, x.success)'
    <2>1. x \in Elems(reports[u]) \/ x = x0
        <3>1. DOMAIN reports = Targets
            BY DEF AnswerInv, ReportTypes
        <3> HIDE DEF x0, Before
        <3> QED BY <1>1, <1>8, <3>1
    <2>2. CASE x = x0
        BY <1>1, <1>2, <1>4, <1>7, <2>2
    <2>3. CASE x \in Elems(reports[u])
        <3>1. x \in Result
            BY <2>3 DEF AnswerInv, ReportsSound
        <3>2. PICK q \in Requests : reqID[q] = x.id /\ Reported(q, x.success)
            BY <2>3 DEF AnswerInv, ReportsSound
        <3>3. Reported(q, x.success)'
            BY <3>2, ReportedStays
        <3> QED BY <1>1, <3>1, <3>2, <3>3
    <2> QED BY <2>1, <2>2, <2>3
<1>11. ReportsSound'
    BY <1>10 DEF ReportsSound
<1> QED BY <1>1, <1>5, <1>6, <1>9, <1>11, AnswerFrame DEF AnswerInv

LEMMA ReadReportAnswer ==
    ASSUME Before, NEW t \in Targets, ReadReport(t)
    PROVE  AnswerInv'
<1> USE DEF Before
<1> DEFINE x == Head(reports[t])
<1>1. /\ UNCHANGED <<requests, fwd, said, replyCh, answer, reqID, ask, pc>>
      /\ reports[t] # <<>> /\ reports' = [reports EXCEPT ![t] = Tail(@)]
      /\ held' = [held EXCEPT ![t] = IF requests[x.id] = None THEN None
                                     ELSE [to |-> requests[x.id], res |-> x]]
    BY DEF ReadReport, tables, handler
<1>2. /\ x \in Elems(reports[t]) /\ Tail(reports[t]) \in Seq(Result)
      /\ Elems(Tail(reports[t])) \subseteq Elems(reports[t])
    <2>1. reports[t] \in Seq(Result)
        BY DEF AnswerInv, ReportTypes
    <2> QED BY <1>1, <2>1, TailElems
<1>3. x \in Result
    BY <1>2 DEF AnswerInv, ReportsSound
<1>4. PICK q \in Requests : reqID[q] = x.id /\ Reported(q, x.success)
    BY <1>2 DEF AnswerInv, ReportsSound
<1>5. x.id \in ReqIDs /\ requests[x.id] \in Requests \cup {None} /\ x.id # 0
    <2> HIDE DEF x
    <2>1. x.id \in ReqIDs
        BY <1>3 DEF Result
    <2>2. requests[x.id] \in Requests \cup {None}
        BY <2>1 DEF AnswerInv, AnswerTypes
    <2> QED BY <2>1, <2>2, ReqIDsPositive
<1>6. requests[x.id] # None => requests[x.id] = q
    <2>1. requests[x.id] # None => reqID[requests[x.id]] = x.id
        BY <1>5 DEF AnswerInv, RequestsSound
    <2> QED BY <1>4, <1>5, <2>1 DEF NumberInv
<1>7. held' \in [Targets -> [to : Requests, res : Result] \cup {None}]
    BY <1>1, <1>3, <1>5 DEF AnswerInv, AnswerTypes
<1>8. AnswerTypes' /\ RequestsSound' /\ NoNewOk
    BY <1>1, <1>7 DEF AnswerInv, AnswerTypes, RequestsSound, NoNewOk, Result, ReqIDs
<1>9. ReportTypes' /\ \A u \in Targets : Elems(reports'[u]) \subseteq Elems(reports[u])
    BY <1>1, <1>2 DEF AnswerInv, ReportTypes
<1>10. HeldSound'
    BY <1>1, <1>4, <1>6 DEF HeldSound, Reported, Come, AnswerInv, AnswerTypes
<1> QED BY <1>1, <1>8, <1>9, <1>10, AnswerFrame DEF AnswerInv

LEMMA DeliverAnswer ==
    ASSUME Before, NEW t \in Targets, Deliver(t)
    PROVE  AnswerInv'
<1> USE DEF Before
<1> DEFINE r == held[t].to
<1>1. /\ UNCHANGED <<requests, fwd, said, reports, answer, reqID, ask, pc>>
      /\ held[t] # None /\ held' = [held EXCEPT ![t] = None]
      /\ replyCh' = replyCh \/ replyCh' = [replyCh EXCEPT ![r] = held[t].res]
    BY DEF Deliver, tables
<1>2. r \in Requests /\ held[t].res \in Result /\ Reported(r, held[t].res.success)
    BY <1>1 DEF AnswerInv, AnswerTypes, HeldSound
<1>3. AnswerTypes' /\ RequestsSound' /\ NoNewOk
    BY <1>1, <1>2 DEF AnswerInv, AnswerTypes, RequestsSound, NoNewOk, Result, ReqIDs
<1>4. HeldSound'
    BY <1>1 DEF HeldSound, Reported, Come, AnswerInv, AnswerTypes
<1>5. ReplySound'
    BY <1>1, <1>2, SMT DEF ReplySound, Reported, Come, AnswerInv, AnswerTypes
<1> QED BY <1>1, <1>3, <1>4, <1>5, AnswerFrame DEF AnswerInv

LEMMA TargetGoneAnswer ==
    ASSUME Before, NEW t \in Targets, TargetGone(t)
    PROVE  AnswerInv'
<1> USE DEF Before
<1>1. /\ UNCHANGED <<requests, fwd, said, held, replyCh, answer, reqID, ask, pc>>
      /\ reports' = [reports EXCEPT ![t] = <<>>]
    BY DEF TargetGone, tables, handler
<1>2. AnswerTypes' /\ RequestsSound' /\ NoNewOk
    BY <1>1 DEF AnswerInv, AnswerTypes, RequestsSound, NoNewOk, Result, ReqIDs
<1>3. ReportTypes' /\ \A u \in Targets : Elems(reports'[u]) \subseteq Elems(reports[u])
    BY <1>1, EmptyElems, SMT DEF AnswerInv, ReportTypes
<1> QED BY <1>1, <1>2, <1>3, AnswerFrame DEF AnswerInv

\* The steps that have nothing to do with reports, but may tell of a failure.
LEMMA OtherAnswer ==
    ASSUME Before, [Next]_vars,
           ~ \E r \in Requests : \/ RegisterStandard(r) \/ RegisterProxy(r) \/ Leave(r)
                                 \/ Forward(r) \/ TakeReply(r),
           ~ \E t \in Targets : ServeTarget(t) \/ TargetGone(t),
           ~ \E t \in Targets : \E m \in fwd[t] : \E ok \in BOOLEAN : Report(t, m, ok)
    PROVE  AnswerInv'
<1> DEFINE P == NoNewOk /\ UNCHANGED <<requests, fwd, said, reports, held, replyCh, reqID>>
<1> USE DEF Before
<1>1. ASSUME NEW r \in Requests, HandleRequest(r) PROVE P
    <2> USE DEF AnswerInv, AnswerTypes, NoNewOk, tables, target
    <2>1. CASE Refuse(r) \/ ForwardFails(r) \/ Timeout(r)
        BY <2>1 DEF Refuse, ForwardFails, Timeout, Fails
    <2>2. CASE Unreadable(r) \/ Lookup(r) \/ Cancelled(r) \/ TakeTarget(r) \/ SpliceEnds(r)
        BY <2>2 DEF Unreadable, Lookup, Cancelled, TakeTarget, SpliceEnds
    <2>3. CASE Greet(r) \/ GreetFails(r)
        BY <2>3, SMT DEF Greet, GreetFails
    <2> QED BY <1>1, <2>1, <2>2, <2>3 DEF HandleRequest
<1>2. ASSUME NEW v \in RevConns, HandleReverseConnect(v) PROVE P
    BY <1>2 DEF HandleReverseConnect, FindSession, HandOff, RevReturns, AnswerInv,
                AnswerTypes, NoNewOk, tables, handler, target
<1>3. ASSUME Environment PROVE P
    <2> USE DEF AnswerInv, AnswerTypes, NoNewOk, tables, handler, target
    <2>1. ASSUME NEW r \in Requests, NEW a \in Asked, Arrive(r, a) PROVE P
        BY <2>1 DEF Arrive
    <2>2. ASSUME NEW r \in Requests, RequesterCloses(r) PROVE P
        BY <2>2 DEF RequesterCloses
    <2>3. ASSUME NEW t \in Targets, NEW m \in fwd[t], NEW v \in RevConns,
                 ReverseConnect(v, t, m)
          PROVE  P
        BY <2>3 DEF ReverseConnect
    <2>4. ASSUME NEW v \in RevConns, RevConnCloses(v) PROVE P
        BY <2>4 DEF RevConnCloses
    <2>5. CASE Stop
        BY <2>5 DEF Stop
    <2> QED BY <1>3, <2>1, <2>2, <2>3, <2>4, <2>5 DEF Environment
<1>4. ASSUME UNCHANGED vars PROVE P
    BY <1>4 DEF vars, tables, handler, target, AnswerInv, AnswerTypes, NoNewOk
<1>5. P
    BY <1>1, <1>2, <1>3, <1>4 DEF Next, Broker
<1>6. AnswerTypes' /\ RequestsSound'
    BY <1>5 DEF AnswerInv, AnswerTypes, RequestsSound, NoNewOk, ReqIDs, Result, Said
<1> QED BY <1>5, <1>6, AnswerFrame DEF AnswerInv

LEMMA AnswerStep ==
    SessionInv /\ SpliceInv /\ NumberInv /\ AnswerInv /\ [Next]_vars => AnswerInv'
<1> SUFFICES ASSUME SessionInv, SpliceInv, NumberInv, AnswerInv, [Next]_vars
             PROVE  AnswerInv'
    OBVIOUS
<1>1. Before
    BY StaysStep, AccruesStep DEF Before
<1> QED BY <1>1, RegisterAnswer, LeaveAnswer, ForwardAnswer, TakeReplyAnswer, ReportAnswer,
           ReadReportAnswer, DeliverAnswer, TargetGoneAnswer, OtherAnswer DEF ServeTarget

LEMMA AnswerInvariance == Spec => []AnswerInv
BY AnswerInit, AnswerStep, SessionInvariance, SpliceInvariance, NumberInvariance, PTL
   DEF Spec

\* A requester is told of success only when the target it asked for reported
\* success on the message sent for this very request, however late a report comes
\* and whichever request deliverResult finds under its id.
THEOREM AnswersAreOurs == Spec => []AnswerIsOurs
<1>1. AnswerInv => AnswerIsOurs
    BY DEF AnswerInv, AnswerSound, Reported, AnswerIsOurs
<1> QED BY <1>1, AnswerInvariance, PTL

-----------------------------------------------------------------------------
(* What a handler leaves behind *)

OpenTypes ==
    /\ reqOpen \in [Requests -> BOOLEAN] /\ revOpen \in [RevConns -> BOOLEAN]
    /\ stopped \in BOOLEAN

\* Reports answer requests in standard mode only: a relay is never answered, so
\* it can only fail, be cancelled or be spliced.
Standard(r) == Come(r) /\ ask[r].mode = "standard"

StandardOnly ==
    /\ \A i \in ReqIDs : requests[i] # None => Standard(requests[i])
    /\ \A t \in Targets : held[t] # None => Standard(held[t].to)
    /\ \A r \in Requests : replyCh[r] # None => Standard(r)

\* No handler has a connection before it takes one from targetCh, and one that is
\* on its way out has closed what it had to.
TakenLate ==
    \A r \in Requests :
        pc[r] \in {"idle", "read", "register", "forward", "wait"} => targetConn[r] = None

ClosedOnLeaving ==
    \A r \in Requests : pc[r] \in {"leave", "done"} =>
        /\ targetConn[r] # None => ~revOpen[targetConn[r]]
        /\ ask[r].mode = "relay" /\ ~stopped => ~reqOpen[r]

LeftInv == OpenTypes /\ StandardOnly /\ TakenLate /\ ClosedOnLeaving

\* Nothing has come, been taken or been reported at first.
LEMMA LeftInit == Init => LeftInv
<1>1. Init => OpenTypes /\ TakenLate
    BY DEF Init, OpenTypes, TakenLate
<1>2. Init => StandardOnly
    BY SMT DEF Init, StandardOnly
<1>3. Init => ClosedOnLeaving
    BY DEF Init, ClosedOnLeaving
<1> QED BY <1>1, <1>2, <1>3 DEF LeftInv

\* The steps that have nothing to do with reports.
LEMMA ReportsAside ==
    ASSUME [Next]_vars,
           ~ \E r \in Requests : RegisterStandard(r) \/ Leave(r) \/ TakeReply(r),
           ~ \E t \in Targets : ServeTarget(t)
    PROVE  UNCHANGED <<requests, held, replyCh>>
<1> USE DEF tables, handler, target
<1> DEFINE P == UNCHANGED <<requests, held, replyCh>>
<1>1. ASSUME NEW r \in Requests, HandleRequest(r) PROVE P
    <2>1. CASE Refuse(r) \/ Unreadable(r) \/ Lookup(r) \/ RegisterProxy(r)
        BY <2>1 DEF Refuse, Unreadable, Lookup, RegisterProxy
    <2>2. CASE Forward(r) \/ ForwardFails(r) \/ Timeout(r) \/ Cancelled(r)
        BY <2>2 DEF Forward, ForwardFails, Timeout, Cancelled
    <2>3. CASE TakeTarget(r) \/ Greet(r) \/ GreetFails(r) \/ SpliceEnds(r)
        BY <2>3 DEF TakeTarget, Greet, GreetFails, SpliceEnds
    <2> QED BY <1>1, <2>1, <2>2, <2>3 DEF HandleRequest
<1>2. ASSUME NEW v \in RevConns, HandleReverseConnect(v) PROVE P
    BY <1>2 DEF HandleReverseConnect, FindSession, HandOff, RevReturns
<1>3. CASE UNCHANGED vars
    BY <1>3 DEF vars
<1> QED BY <1>1, <1>2, <1>3, EnvironmentKeeps DEF Next, Broker

\* deliverResult finds, holds and delivers to requests in standard mode.
LEMMA StandardStep ==
    ASSUME Before, StandardOnly, [Next]_vars
    PROVE  StandardOnly'
<1> USE DEF Before
<1>1. ASSUME NEW r, Standard(r) PROVE Standard(r)'
    BY <1>1 DEF Standard, Stays, Come
<1>2. CASE UNCHANGED <<requests, held, replyCh>>
    BY <1>1, <1>2 DEF StandardOnly, ReqIDs
<1>3. ASSUME NEW r \in Requests, RegisterStandard(r) PROVE StandardOnly'
    <2>1. Standard(r)
        BY <1>3 DEF RegisterStandard, Standard, Come
    <2>2. /\ requests' = [requests EXCEPT ![NextReq] = r]
          /\ UNCHANGED <<held, replyCh>>
        BY <1>3 DEF RegisterStandard, target
    <2> QED BY <1>1, <2>1, <2>2 DEF StandardOnly, ReqIDs, AnswerInv, AnswerTypes
<1>4. ASSUME NEW r \in Requests, Leave(r) PROVE StandardOnly'
    <2>1. /\ requests' = requests \/ requests' = [requests EXCEPT ![reqID[r]] = None]
          /\ UNCHANGED <<held, replyCh>>
        BY <1>4 DEF Leave, target
    <2> QED BY <1>1, <2>1 DEF StandardOnly, ReqIDs, AnswerInv, AnswerTypes
<1>5. ASSUME NEW r \in Requests, TakeReply(r) PROVE StandardOnly'
    <2>1. replyCh' = [replyCh EXCEPT ![r] = None] /\ UNCHANGED <<requests, held>>
        BY <1>5 DEF TakeReply, tables, target
    <2> QED BY <1>1, <2>1 DEF StandardOnly, ReqIDs, AnswerInv, AnswerTypes
<1>6. ASSUME NEW t \in Targets, ReadReport(t) PROVE StandardOnly'
    <2> DEFINE x == Head(reports[t])
    <2>1. /\ reports[t] # <<>> /\ UNCHANGED <<requests, replyCh>>
          /\ held' = [held EXCEPT ![t] = IF requests[x.id] = None THEN None
                                         ELSE [to |-> requests[x.id], res |-> x]]
        BY <1>6 DEF ReadReport, tables, handler
    <2>2. x.id \in ReqIDs
        BY <2>1, TailElems DEF AnswerInv, ReportTypes, ReportsSound, Result
    <2>3. held'[t] # None => held'[t].to = requests[x.id] /\ requests[x.id] # None
        BY <2>1 DEF AnswerInv, AnswerTypes
    <2>4. \A u \in Targets : u # t => held'[u] = held[u]
        BY <2>1 DEF AnswerInv, AnswerTypes
    <2>5. \A u \in Targets : held'[u] # None => Standard(held'[u].to)
        BY <2>2, <2>3, <2>4 DEF StandardOnly
    <2> HIDE DEF x
    <2> QED BY <1>1, <2>1, <2>5 DEF StandardOnly, ReqIDs
<1>7. ASSUME NEW t \in Targets, Deliver(t) PROVE StandardOnly'
    <2> DEFINE r == held[t].to
    <2>1. /\ UNCHANGED requests
          /\ held[t] # None /\ held' = [held EXCEPT ![t] = None]
          /\ replyCh' = replyCh \/ replyCh' = [replyCh EXCEPT ![r] = held[t].res]
        BY <1>7 DEF Deliver, tables
    <2>2. \A q \in Requests : replyCh'[q] = replyCh[q] \/ q = r
        BY <2>1 DEF AnswerInv, AnswerTypes
    <2>3. \A u \in Targets : held'[u] = held[u] \/ held'[u] = None
        BY <2>1 DEF AnswerInv, AnswerTypes
    <2> HIDE DEF r
    <2>4. \A q \in Requests : replyCh'[q] # None => Standard(q)
        BY <2>1, <2>2 DEF StandardOnly, r
    <2> QED BY <1>1, <2>1, <2>3, <2>4 DEF StandardOnly, ReqIDs
<1> QED BY <1>2, <1>3, <1>4, <1>5, <1>6, <1>7, ReportsAside DEF ServeTarget

Early == {"idle", "read", "register", "forward", "wait"}
Leaving == {"leave", "done"}

\* What one step must see to, of each handler and of each connection.
Closes(r) ==
    /\ targetConn[r] # None => ~revOpen'[targetConn[r]]
    /\ ask[r].mode = "relay" /\ ~stopped' => ~reqOpen'[r]

Careful ==
    /\ OpenTypes'
    /\ \A r \in Requests :
          /\ pc'[r] \in Early => pc[r] \in Early /\ targetConn'[r] = targetConn[r]
          /\ pc'[r] \in Leaving =>
                /\ targetConn'[r] = targetConn[r] /\ ask'[r] = ask[r]
                /\ Closes(r) \/ (pc[r] \in Leaving /\ (reqOpen'[r] => reqOpen[r]))
    /\ \A v \in RevConns : revOpen'[v] => revOpen[v] \/ rpc[v] = "idle"
    /\ stopped => stopped'

LEMMA CarefulStep ==
    ASSUME SpliceInv, LeftInv, Careful
    PROVE  OpenTypes' /\ TakenLate' /\ ClosedOnLeaving'
<1>1. OpenTypes' /\ TakenLate'
    BY DEF Careful, LeftInv, TakenLate, Early
<1>2. ASSUME NEW r \in Requests, pc'[r] \in Leaving
      PROVE  /\ targetConn'[r] # None => ~revOpen'[targetConn'[r]]
             /\ ask'[r].mode = "relay" /\ ~stopped' => ~reqOpen'[r]
    <2>1. targetConn[r] # None => targetConn[r] \in RevConns /\ rpc[targetConn[r]] # "idle"
        BY SMT DEF SpliceInv, SpliceTypes, HandedOver
    <2> QED BY <1>2, <2>1 DEF Careful, Closes, LeftInv, ClosedOnLeaving, Leaving
<1> QED BY <1>1, <1>2 DEF ClosedOnLeaving, Leaving

\* The handler of r goes to at, and nothing else is opened or closed but by it.
LEMMA HandlerCareful ==
    ASSUME SessionInv, SpliceInv, LeftInv, NEW r \in Requests, NEW at,
           pc' = [pc EXCEPT ![r] = at], ask' = ask, stopped' = stopped, OpenTypes',
           \A q \in Requests : q # r => targetConn'[q] = targetConn[q],
           \A q \in Requests : reqOpen'[q] => reqOpen[q],
           \A v \in RevConns : revOpen'[v] => revOpen[v],
           at \in Early => pc[r] \in Early /\ targetConn'[r] = targetConn[r],
           at \in Leaving => targetConn'[r] = targetConn[r] /\ (pc[r] \in Leaving \/ Closes(r))
    PROVE  Careful
<1>1. pc'[r] = at /\ \A q \in Requests : q # r => pc'[q] = pc[q]
    BY DEF SessionInv, SessionTypes
<1>2. ASSUME NEW q \in Requests, q # r, pc[q] \in Leaving
      PROVE  targetConn'[q] = targetConn[q] /\ (reqOpen'[q] => reqOpen[q])
    BY <1>2
<1> QED BY <1>1, <1>2 DEF Careful

\* Every way out of handleRequest and startInboundRelay.
LEMMA HandleRequestCareful ==
    ASSUME SessionInv, SpliceInv, LeftInv, NEW r \in Requests, HandleRequest(r)
    PROVE  Careful
<1> USE DEF LeftInv
<1>1. /\ OpenTypes /\ ask' = ask /\ stopped' = stopped
      /\ pc[r] \in Early => targetConn[r] = None
    <2>1. CASE Refuse(r) \/ Unreadable(r) \/ Lookup(r) \/ RegisterStandard(r)
                 \/ RegisterProxy(r)
        BY <2>1 DEF TakenLate, Early, Refuse, Unreadable, Lookup, RegisterStandard,
                    RegisterProxy
    <2>2. CASE Forward(r) \/ ForwardFails(r) \/ Timeout(r) \/ Cancelled(r) \/ TakeReply(r)
        BY <2>2 DEF TakenLate, Early, Forward, ForwardFails, Timeout, Cancelled, TakeReply
    <2>3. CASE TakeTarget(r) \/ Greet(r) \/ GreetFails(r) \/ SpliceEnds(r) \/ Leave(r)
        BY <2>3 DEF TakenLate, Early, TakeTarget, Greet, GreetFails, SpliceEnds, Leave
    <2> QED BY <2>1, <2>2, <2>3 DEF HandleRequest
<1>2. ASSUME NEW at \in Leaving, Fails(r, at), pc[r] \in Early,
             UNCHANGED <<targetConn, revOpen>>
      PROVE  Careful
    <2>1. reqOpen' = reqOpen \/ reqOpen' = [reqOpen EXCEPT ![r] = FALSE]
        BY <1>2 DEF Fails
    <2>2. ask[r].mode = "relay" => reqOpen' = [reqOpen EXCEPT ![r] = FALSE]
        BY <1>2 DEF Fails, Client
    <2>3. /\ OpenTypes' /\ \A q \in Requests : reqOpen'[q] => reqOpen[q]
          /\ ask[r].mode = "relay" => ~reqOpen'[r]
        BY <1>1, <1>2, <2>1, <2>2 DEF OpenTypes
    <2>4. Closes(r)
        BY <1>1, <1>2, <2>3 DEF Closes
    <2>5. pc' = [pc EXCEPT ![r] = at] /\ at \notin Early
        BY <1>2 DEF Fails, Leaving, Early
    <2> QED BY <1>1, <1>2, <2>3, <2>4, <2>5, HandlerCareful
<1>3. CASE Refuse(r) \/ ForwardFails(r) \/ Timeout(r)
    BY <1>2, <1>3 DEF Refuse, ForwardFails, Timeout, Leaving, Early
<1>4. ASSUME NEW at \in Early, pc[r] \in Early, pc' = [pc EXCEPT ![r] = at],
             UNCHANGED <<targetConn, reqOpen, revOpen>>
      PROVE  Careful
    <2>1. at \notin Leaving /\ OpenTypes'
        BY <1>1, <1>4 DEF Leaving, Early, OpenTypes
    <2> QED BY <1>1, <1>4, <2>1, HandlerCareful
<1>5. CASE Lookup(r) \/ RegisterStandard(r) \/ Forward(r)
    BY <1>4, <1>5 DEF Lookup, RegisterStandard, Forward, Early
<1>6. CASE RegisterProxy(r)
    <2>1. /\ pc[r] = "register" /\ UNCHANGED <<targetConn, revOpen>>
          /\ \/ Fails(r, "done")
             \/ pc' = [pc EXCEPT ![r] = "forward"] /\ UNCHANGED reqOpen
        BY <1>6 DEF RegisterProxy
    <2> QED BY <1>2, <1>4, <2>1 DEF Early, Leaving
<1>7. ASSUME NEW at \in Leaving, pc[r] \in Early, pc' = [pc EXCEPT ![r] = at],
             stopped \/ ask[r].mode # "relay", UNCHANGED <<targetConn, reqOpen, revOpen>>
      PROVE  Careful
    <2>1. at \notin Early /\ OpenTypes' /\ Closes(r)
        BY <1>1, <1>7 DEF Leaving, Early, OpenTypes, Closes
    <2> QED BY <1>1, <1>7, <2>1, HandlerCareful
<1>8. CASE Unreadable(r) \/ Cancelled(r)
    BY <1>7, <1>8 DEF Unreadable, Cancelled, Client, Early, Leaving
<1>9. CASE TakeReply(r)
    <2>1. ask[r].mode = "standard"
        BY <1>9 DEF TakeReply, StandardOnly, Standard
    <2> QED BY <1>7, <1>9, <2>1 DEF TakeReply, Early, Leaving
<1>10. CASE TakeTarget(r) \/ Greet(r)
    <2>1. \E at \in {"greet", "splice"} : pc' = [pc EXCEPT ![r] = at]
        BY <1>10 DEF TakeTarget, Greet
    <2>2. PICK at \in {"greet", "splice"} : pc' = [pc EXCEPT ![r] = at]
        BY <2>1
    <2>3. /\ UNCHANGED <<reqOpen, revOpen>>
          /\ targetConn' = targetConn \/ targetConn' = [targetConn EXCEPT ![r] = targetCh[r]]
        BY <1>10 DEF TakeTarget, Greet
    <2>4. \A q \in Requests : q # r => targetConn'[q] = targetConn[q]
        BY <2>3 DEF SpliceInv, SpliceTypes
    <2>5. at \notin Early /\ at \notin Leaving /\ OpenTypes'
        BY <1>1, <2>3 DEF Leaving, Early, OpenTypes
    <2> QED BY <1>1, <2>2, <2>3, <2>4, <2>5, HandlerCareful
<1>11. CASE GreetFails(r) \/ SpliceEnds(r)
    <2>1. /\ pc' = [pc EXCEPT ![r] = "leave"] /\ UNCHANGED targetConn /\ ~reqOpen'[r]
          /\ reqOpen' = reqOpen \/ reqOpen' = [reqOpen EXCEPT ![r] = FALSE]
          /\ revOpen' = [revOpen EXCEPT ![targetConn[r]] = FALSE]
        BY <1>1, <1>11 DEF GreetFails, SpliceEnds, OpenTypes
    <2>2. targetConn[r] \in RevConns \cup {None}
        BY DEF SpliceInv, SpliceTypes
    <2>3. /\ OpenTypes' /\ Closes(r)
          /\ \A q \in Requests : reqOpen'[q] => reqOpen[q]
          /\ \A v \in RevConns : revOpen'[v] => revOpen[v]
        BY <1>1, <2>1, <2>2 DEF OpenTypes, Closes
    <2>4. "leave" \notin Early
        BY DEF Early
    <2> QED BY <1>1, <2>1, <2>3, <2>4, HandlerCareful
<1>12. CASE Leave(r)
    <2>1. /\ pc[r] = "leave" /\ pc' = [pc EXCEPT ![r] = "done"]
          /\ UNCHANGED <<targetConn, reqOpen, revOpen>>
        BY <1>12 DEF Leave
    <2>2. OpenTypes' /\ "done" \notin Early /\ pc[r] \in Leaving
        BY <1>1, <2>1 DEF Early, Leaving, OpenTypes
    <2> QED BY <1>1, <2>1, <2>2, HandlerCareful
<1> QED BY <1>3, <1>5, <1>6, <1>8, <1>9, <1>10, <1>11, <1>12 DEF HandleRequest

\* Everybody else opens only connections that are new.
LEMMA OthersCareful ==
    ASSUME SessionInv, SpliceInv, LeftInv, [Next]_vars, ~ \E r \in Requests : HandleRequest(r)
    PROVE  Careful
<1> USE DEF LeftInv
<1> DEFINE Kept == UNCHANGED <<pc, targetConn, ask>>
<1>1. ASSUME Kept, OpenTypes', stopped => stopped',
             \A q \in Requests : reqOpen'[q] => reqOpen[q],
             \A v \in RevConns : revOpen'[v] => revOpen[v] \/ rpc[v] = "idle"
      PROVE  Careful
    BY <1>1 DEF Careful
<1>2. ASSUME NEW r \in Requests, NEW a \in Asked, Arrive(r, a) PROVE Careful
    <2>1. /\ pc[r] = "idle" /\ pc' = [pc EXCEPT ![r] = "read"]
          /\ ask' = [ask EXCEPT ![r] = a] /\ reqOpen' = [reqOpen EXCEPT ![r] = TRUE]
          /\ UNCHANGED <<targetConn, revOpen, stopped>>
        BY <1>2, ArriveStep DEF Arrive
    <2>2. OpenTypes'
        BY <2>1 DEF OpenTypes
    <2>3. /\ pc'[r] = "read"
          /\ \A q \in Requests : q # r =>
                pc'[q] = pc[q] /\ ask'[q] = ask[q] /\ reqOpen'[q] = reqOpen[q]
        BY <2>1 DEF SessionInv, SessionTypes, OpenTypes
    <2>4. "read" \in Early /\ "idle" \in Early /\ "read" \notin Leaving
        BY DEF Early, Leaving
    <2> QED BY <2>1, <2>2, <2>3, <2>4 DEF Careful
<1>3. ASSUME NEW r \in Requests, RequesterCloses(r) PROVE Careful
    <2>1. Kept /\ reqOpen' = [reqOpen EXCEPT ![r] = FALSE] /\ UNCHANGED <<revOpen, stopped>>
        BY <1>3 DEF RequesterCloses, handler
    <2> QED BY <1>1, <2>1 DEF OpenTypes
<1>4. ASSUME NEW v \in RevConns, NEW b \in BOOLEAN, Kept,
             revOpen' = [revOpen EXCEPT ![v] = b], b => rpc[v] = "idle",
             UNCHANGED <<reqOpen, stopped>>
      PROVE  Careful
    BY <1>1, <1>4 DEF OpenTypes
<1>5. ASSUME NEW t \in Targets, NEW m \in fwd[t], NEW v \in RevConns,
             ReverseConnect(v, t, m)
      PROVE  Careful
    <2>1. Kept /\ revOpen' = [revOpen EXCEPT ![v] = TRUE] /\ UNCHANGED <<reqOpen, stopped>>
        BY <1>5 DEF ReverseConnect, handler
    <2>2. rpc[v] = "idle"
        BY <1>5, UnusedIs, RendezvousOK, SMT DEF ReverseConnect
    <2> QED BY <1>4, <2>1, <2>2
<1>6. ASSUME NEW v \in RevConns, RevConnCloses(v) PROVE Careful
    <2>1. Kept /\ revOpen' = [revOpen EXCEPT ![v] = FALSE] /\ UNCHANGED <<reqOpen, stopped>>
        BY <1>6 DEF RevConnCloses, handler
    <2> QED BY <1>4, <2>1
<1>7. ASSUME Kept, UNCHANGED <<reqOpen, revOpen>>, stopped' \in {stopped, TRUE} PROVE Careful
    BY <1>1, <1>7 DEF OpenTypes
<1>8. ASSUME NEW v \in RevConns, HandleReverseConnect(v) PROVE Careful
    <2>1. /\ Kept /\ UNCHANGED <<reqOpen, stopped>>
          /\ revOpen' = revOpen \/ revOpen' = [revOpen EXCEPT ![v] = FALSE]
        BY <1>8 DEF HandleReverseConnect, FindSession, HandOff, RevReturns, RevFails, handler
    <2> QED BY <1>4, <1>7, <2>1
<1>9. ASSUME NEW t \in Targets, ServeTarget(t) \/ TargetGone(t) PROVE Careful
    <2>1. Kept /\ UNCHANGED <<reqOpen, revOpen, stopped>>
        BY <1>9 DEF ServeTarget, ReadReport, Deliver, TargetGone, handler
    <2> QED BY <1>7, <2>1 DEF OpenTypes
<1>10. ASSUME NEW t \in Targets, NEW m \in fwd[t], NEW ok \in BOOLEAN, Report(t, m, ok)
       PROVE  Careful
    <2>1. Kept /\ UNCHANGED <<reqOpen, revOpen, stopped>>
        BY <1>10 DEF Report, handler
    <2> QED BY <1>7, <2>1 DEF OpenTypes
<1>11. CASE Stop
    BY <1>7, <1>11 DEF Stop, handler
<1>12. CASE UNCHANGED vars
    <2>1. Kept /\ UNCHANGED <<reqOpen, revOpen, stopped>>
        BY <1>12 DEF vars, handler
    <2> QED BY <1>7, <2>1 DEF OpenTypes
<1> QED BY <1>2, <1>3, <1>5, <1>6, <1>8, <1>9, <1>10, <1>11, <1>12
        DEF Next, Broker, Environment

LEMMA LeftStep ==
    SessionInv /\ SpliceInv /\ NumberInv /\ AnswerInv /\ LeftInv /\ [Next]_vars => LeftInv'
<1> SUFFICES ASSUME SessionInv, SpliceInv, NumberInv, AnswerInv, LeftInv, [Next]_vars
             PROVE  LeftInv'
    OBVIOUS
<1>1. Before /\ StandardOnly
    BY StaysStep, AccruesStep DEF Before, LeftInv
<1>2. StandardOnly'
    BY <1>1, StandardStep
<1>3. Careful
    BY HandleRequestCareful, OthersCareful
<1> QED BY <1>2, <1>3, CarefulStep DEF LeftInv

\* A handler leaves no connection behind: what it took from targetCh is closed by
\* the time it has returned, and a relay hop closes its upstream connection however
\* it ends, while the server runs.
THEOREM NothingIsLeftOpen == Spec => []NothingLeftOpen
<1>1. LeftInv => NothingLeftOpen
    BY DEF LeftInv, ClosedOnLeaving, NothingLeftOpen
<1>2. Spec => []LeftInv
    BY LeftInit, LeftStep, SessionInvariance, SpliceInvariance, NumberInvariance,
       AnswerInvariance, PTL DEF Spec
<1> QED BY <1>1, <1>2, PTL
=============================================================================

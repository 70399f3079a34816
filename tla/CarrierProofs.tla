--------------------------- MODULE CarrierProofs ---------------------------
(***************************************************************************)
(* The inside keeps one link at a time, for any number of callers and any  *)
(* number of pipes.                                                        *)
(***************************************************************************)
EXTENDS Carrier, TLAPS

CallStates == {"idle", "lock", "dial", "open", "held", "failed"}

SessionTypes ==
    /\ mu \in Calls \cup {None} /\ md \in Pipes \cup {None} /\ done \in BOOLEAN
    /\ cpc \in [Calls -> CallStates]
    /\ cli \in [Pipes -> {"none", "up", "closed"}]

\* What the lock protects: a call that dials holds it, and while it is held over
\* a dial there is no session yet and no close.
LockKept ==
    /\ \A c \in Calls : cpc[c] = "dial" => mu = c
    /\ mu # None => md = None /\ ~done

LinkInv == SessionTypes /\ LockKept /\ SoleSession

USE CarrierOK DEF CarrierOK, Calls, Pipes, None

\* The link invariant holds before the first call.
LEMMA LinkInit == Init => LinkInv
<1> SUFFICES ASSUME Init PROVE LinkInv
    OBVIOUS
<1>1. SessionTypes
    BY DEF Init, SessionTypes, CallStates
<1>2. LockKept
    BY DEF Init, LockKept
<1>3. SoleSession
    BY DEF Init, SoleSession
<1> QED
    BY <1>1, <1>2, <1>3 DEF LinkInv

\* A step of session, on the locked path of carrierClient.dial, keeps it.
LEMMA SessionKeeps == ASSUME LinkInv, NEW c \in Calls, Session(c) PROVE LinkInv'
<1>1. CASE done /\ Fails(c) /\ UNCHANGED <<mu, md>>
    BY <1>1 DEF Session, Fails, LinkInv, SessionTypes, CallStates, LockKept, SoleSession
<1>2. CASE ~done /\ HasSession /\ Opens(c, md) /\ UNCHANGED <<mu, md>>
    BY <1>2 DEF Session, Opens, LinkInv, SessionTypes, CallStates, LockKept, SoleSession
<1>3. CASE ~done /\ ~HasSession /\ mu' = c /\ md' = None
           /\ cpc' = [cpc EXCEPT ![c] = "dial"]
    BY <1>3 DEF Session, HasSession, LinkInv, SessionTypes, CallStates, LockKept, SoleSession
<1> QED
    BY <1>1, <1>2, <1>3 DEF Session

\* So does a dial, whatever becomes of it.
LEMMA DialKeeps ==
    ASSUME LinkInv, NEW c \in Calls,
           DialFails(c) \/ \E p \in Pipes : DialPipe(c, p) \/ DialLate(c, p)
    PROVE  LinkInv'
<1>1. CASE DialFails(c)
    BY <1>1 DEF DialFails, Fails, LinkInv, SessionTypes, CallStates, LockKept, SoleSession
<1>2. ASSUME NEW p \in Pipes, DialPipe(c, p) PROVE LinkInv'
    BY <1>2 DEF DialPipe, Opens, LinkInv, SessionTypes, CallStates, LockKept, SoleSession
<1>3. ASSUME NEW p \in Pipes, DialLate(c, p) PROVE LinkInv'
    BY <1>3 DEF DialLate, Fails, LinkInv, SessionTypes, CallStates, LockKept, SoleSession
<1> QED
    BY <1>1, <1>2, <1>3

\* So do the end of a session, seen by yamux or asked for by close.
LEMMA EndKeeps ==
    ASSUME LinkInv, Close \/ \E p \in Pipes : ClientNotices(p)
    PROVE  LinkInv'
<1>1. CASE Close
    BY <1>1 DEF Close, call, LinkInv, SessionTypes, LockKept, SoleSession
<1>2. ASSUME NEW p \in Pipes, ClientNotices(p) PROVE LinkInv'
    BY <1>2 DEF ClientNotices, call, LinkInv, SessionTypes, LockKept, SoleSession
<1> QED
    BY <1>1, <1>2

\* A call comes, or goes on or ends after it has its session.
LEMMA CallKeeps ==
    ASSUME LinkInv, NEW c \in Calls, Call(c) \/ OpenReturns(c) \/ OpenGivesUp(c)
    PROVE  LinkInv'
<1> /\ UNCHANGED <<mu, md, done, cli>>
    /\ \E s \in CallStates \ {"dial"} : cpc' = [cpc EXCEPT ![c] = s]
    BY DEF Call, OpenReturns, OpenGivesUp, session, CallStates
<1> QED
    BY DEF LinkInv, SessionTypes, LockKept, SoleSession

\* All else leaves the link alone.
LEMMA RestKeeps ==
    ASSUME LinkInv, UNCHANGED <<session, cpc>>
    PROVE  LinkInv'
BY DEF LinkInv, SessionTypes, LockKept, SoleSession, session

\* Every step keeps the link invariant.
LEMMA LinkStep == LinkInv /\ [Next]_vars => LinkInv'
<1> SUFFICES ASSUME LinkInv, [Next]_vars PROVE LinkInv'
    OBVIOUS
<1>1. CASE UNCHANGED vars
    BY <1>1, RestKeeps DEF vars, call
<1>2. ASSUME NEW c \in Calls,
             Dialing(c) \/ OpenStream(c) \/ Call(c) \/ CallerCloses(c) \/ OpenGivesUp(c)
      PROVE  LinkInv'
    <2>1. CASE OpenStream(c) \/ CallerCloses(c)
        BY <2>1, RestKeeps DEF OpenStream, CallerCloses, call
    <2> QED
        BY <1>2, <2>1, SessionKeeps, DialKeeps, CallKeeps DEF Dialing
<1>3. ASSUME NEW p \in Pipes,
             ServerNotices(p) \/ Handler(p) \/ AcceptStreams(p) \/ WireFails(p)
      PROVE  LinkInv'
    <2> UNCHANGED <<session, cpc>>
        BY <1>3 DEF ServerNotices, Handler, HandOver, OfferCancelled, HandlerReturns,
            AcceptStreams, AcceptStream, AcceptStreamsEnds, Serve, OfferStreamCancelled,
            WireFails, call
    <2> QED
        BY RestKeeps
<1>4. CASE AcceptPipesEnds \/ ServeStops \/ CloseInner \/ CloseMux
    BY <1>4, RestKeeps DEF AcceptPipesEnds, ServeStops, CloseInner, CloseMux, call
<1> QED
    BY <1>1, <1>2, <1>3, <1>4, EndKeeps DEF Next, System, Environment

\* For every number of callers and pipes, carrierClient never has two links up at
\* once, nor one that close has left behind.
THEOREM SoleSessionAlways == Spec => []SoleSession
<1>1. LinkInv => SoleSession
    BY DEF LinkInv
<1> QED
    BY LinkInit, LinkStep, <1>1, PTL DEF Spec
=============================================================================

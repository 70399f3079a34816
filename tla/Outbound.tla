------------------------------ MODULE Outbound ------------------------------
(***************************************************************************)
(* CCB_PROXY_CONNECT, the outbound mode (outbound.go): a requester asks a   *)
(* broker for a connection to a target; an exit broker dials it, any other *)
(* forwards the request to its next hop with a smaller TTL; each hop       *)
(* answers the one before it and splices.                                  *)
(*                                                                         *)
(* Proxy connects share no state, so one request is modelled: the chain of *)
(* the handlers it starts, numbered from the requester outwards. The next  *)
(* hops are any configuration that New accepts, cycles included.           *)
(***************************************************************************)
EXTENDS Integers

CONSTANTS
    Brokers,
    Hosts,       \* hosts that a target may have
    LocalHosts,  \* those that are loopback, link-local or unspecified
    OutboundTTL, \* Config.OutboundTTL
    DefaultTTL,  \* the 8 of handleProxyConnect
    MaxTTL,      \* bound on the TTL a requester sends
    MaxHops,     \* bound on the handlers of the chain
    None         \* no broker, no TTL, no reply

ASSUME OutboundOK ==
    /\ LocalHosts \subseteq Hosts /\ None \notin Brokers
    /\ OutboundTTL \in Int /\ DefaultTTL \in Nat \ {0} /\ MaxTTL \in Nat
    /\ MaxHops \in Nat \ {0} /\ None \notin Int /\ None # "ok"

VARIABLES
    next,      \* Config.OutboundNextHop; None: an exit
    allowlist, \* Config.OutboundTargetAllowlist: the hosts each broker's entries match
    host,      \* the host of the target's address
    at,        \* the broker of each handler
    ttl,       \* the CCBTTL of the ad it reads
    pc,        \* where each handleProxyConnect is
    open,      \* the connection it came on is open
    reply,     \* the reply it sent there
    target     \* the connection to the target

config == <<next, allowlist, host>>
vars == <<config, at, ttl, pc, open, reply, target>>

Hops == 1..MaxHops

-----------------------------------------------------------------------------
\* New refuses a next hop that is the broker itself.
NextHops == {f \in [Brokers -> Brokers \cup {None}] : \A b \in Brokers : f[b] # b}

Init ==
    /\ next \in NextHops
    /\ allowlist \in [Brokers -> SUBSET (Hosts \ LocalHosts)]
    /\ host \in Hosts
    /\ at = [i \in Hops |-> None]
    /\ ttl = [i \in Hops |-> None]
    /\ pc = [i \in Hops |-> "none"]
    /\ open = [i \in Hops |-> FALSE]
    /\ reply = [i \in Hops |-> None]
    /\ target = "none"

-----------------------------------------------------------------------------
(* The requester, the target and the network (external). *)

\* A request with or without a TTL.
Ask(b, t) ==
    /\ pc[1] = "none"
    /\ at' = [at EXCEPT ![1] = b]
    /\ ttl' = [ttl EXCEPT ![1] = t]
    /\ pc' = [pc EXCEPT ![1] = "read"]
    /\ open' = [open EXCEPT ![1] = TRUE]
    /\ UNCHANGED <<config, reply, target>>

\* The requester gives up, or a connection between two brokers breaks.
ConnBreaks(i) ==
    /\ open[i]
    /\ open' = [open EXCEPT ![i] = FALSE]
    /\ UNCHANGED <<config, at, ttl, pc, reply, target>>

\* The target accepts the connection.
TargetAccepts(i) ==
    /\ pc[i] = "dial"
    /\ target' = "open"
    /\ pc' = [pc EXCEPT ![i] = "answer"]
    /\ UNCHANGED <<config, at, ttl, open, reply>>

\* A next hop takes the request and is not heard of again.
Hangs(i) ==
    /\ pc[i] = "read" /\ i > 1
    /\ pc' = [pc EXCEPT ![i] = "hung"]
    /\ UNCHANGED <<config, at, ttl, open, reply, target>>

TargetCloses ==
    /\ target = "open"
    /\ target' = "closed"
    /\ UNCHANGED <<config, at, ttl, pc, open, reply>>

-----------------------------------------------------------------------------
(* handleProxyConnect up to the connect *)

IsExit(i) == next[at[i]] = None

\* The originator's TTL, or a default when the ad has none.
Budget(i) ==
    LET fallback == IF OutboundTTL > 0 THEN OutboundTTL ELSE DefaultTTL
    IN  IF ttl[i] # None THEN ttl[i] ELSE fallback

\* An empty list permits every host.
matchAllowlist(b) == allowlist[b] = {} \/ host \in allowlist[b]

outboundTargetAllowed(b) == host \notin LocalHosts /\ matchAllowlist(b)

\* replyFailure: its error return closes the connection.
Fails(i) ==
    /\ pc' = [pc EXCEPT ![i] = "done"]
    /\ reply' = [reply EXCEPT ![i] = "fail"]

\* The ad cannot be read: the handler returns without a word.
AdLost(i) ==
    /\ pc[i] = "read"
    /\ pc' = [pc EXCEPT ![i] = "done"]
    /\ open' = [open EXCEPT ![i] = FALSE]
    /\ UNCHANGED <<config, at, ttl, reply, target>>

\* The peer is not authorized, or the ad names no target or no connect id.
Refuse(i) ==
    /\ pc[i] = "read"
    /\ Fails(i)
    /\ open' = [open EXCEPT ![i] = FALSE]
    /\ UNCHANGED <<config, at, ttl, target>>

-----------------------------------------------------------------------------
(* tcpDirectTransport.connect *)

StartDial(i) ==
    /\ pc[i] = "read" /\ IsExit(i)
    /\ IF outboundTargetAllowed(at[i])
       THEN pc' = [pc EXCEPT ![i] = "dial"] /\ UNCHANGED <<open, reply>>
       ELSE Fails(i) /\ open' = [open EXCEPT ![i] = FALSE]
    /\ UNCHANGED <<config, at, ttl, target>>

\* The dial is refused, or RequestTimeout passes.
DialFails(i) ==
    /\ pc[i] = "dial"
    /\ Fails(i)
    /\ open' = [open EXCEPT ![i] = FALSE]
    /\ UNCHANGED <<config, at, ttl, target>>

-----------------------------------------------------------------------------
(* nextHopTransport.connect *)

\* Mutant: a budget of zero is good for one more hop.
Mut_Expired(i) == Budget(i) < 0

\* ttl <= 0
Expired(i) == Budget(i) <= 0

TTLExpired(i) ==
    /\ pc[i] = "read" /\ ~IsExit(i) /\ Expired(i)
    /\ Fails(i)
    /\ open' = [open EXCEPT ![i] = FALSE]
    /\ UNCHANGED <<config, at, ttl, target>>

\* OutboundConnect reaches the next hop and sends the request.
Forward(i) ==
    /\ pc[i] = "read" /\ ~IsExit(i) /\ ~Expired(i)
    /\ i + 1 \in Hops
    /\ at' = [at EXCEPT ![i + 1] = next[at[i]]]
    /\ ttl' = [ttl EXCEPT ![i + 1] = Budget(i) - 1]
    /\ pc' = [pc EXCEPT ![i] = "await", ![i + 1] = "read"]
    /\ open' = [open EXCEPT ![i + 1] = TRUE]
    /\ UNCHANGED <<config, reply, target>>

NextHopDown(i) ==
    /\ pc[i] = "read" /\ ~IsExit(i) /\ ~Expired(i)
    /\ Fails(i)
    /\ open' = [open EXCEPT ![i] = FALSE]
    /\ UNCHANGED <<config, at, ttl, target>>

\* Mutant: the pipe is handed back before the next hop has answered.
Mut_NextAnswers(i) ==
    /\ pc[i] = "await"
    /\ pc' = [pc EXCEPT ![i] = "answer"]
    /\ UNCHANGED <<config, at, ttl, open, reply, target>>

NextAnswers(i) ==
    /\ pc[i] = "await" /\ reply[i + 1] = "ok"
    /\ pc' = [pc EXCEPT ![i] = "answer"]
    /\ UNCHANGED <<config, at, ttl, open, reply, target>>

\* Mutant: OutboundConnect without a timeout.
Mut_NextFails(i) ==
    /\ pc[i] = "await" /\ (reply[i + 1] = "fail" \/ ~open[i + 1])
    /\ Fails(i)
    /\ open' = [open EXCEPT ![i] = FALSE, ![i + 1] = FALSE]
    /\ UNCHANGED <<config, at, ttl, target>>

\* The next hop refuses or is lost, or does not answer within RequestTimeout,
\* which may pass although the answer is there: the connection is given up.
NextFails(i) ==
    /\ pc[i] = "await"
    /\ Fails(i)
    /\ open' = [open EXCEPT ![i] = FALSE, ![i + 1] = FALSE]
    /\ UNCHANGED <<config, at, ttl, target>>

-----------------------------------------------------------------------------
(* The reply and the splice *)

\* replySuccess. A write to a peer that has gone may seem to succeed.
Answer(i) ==
    /\ pc[i] = "answer"
    /\ reply' = [reply EXCEPT ![i] = "ok"]
    /\ pc' = [pc EXCEPT ![i] = "splice"]
    /\ UNCHANGED <<config, at, ttl, open, target>>

\* The connection that connect returned is closed.
CloseOnward(i) ==
    /\ open' = IF IsExit(i) THEN [open EXCEPT ![i] = FALSE]
                            ELSE [open EXCEPT ![i] = FALSE, ![i + 1] = FALSE]
    /\ target' = IF IsExit(i) THEN "closed" ELSE target

\* Mutant: the connection to the target is left open.
Mut_AnswerFails(i) ==
    /\ pc[i] = "answer" /\ ~open[i]
    /\ pc' = [pc EXCEPT ![i] = "done"]
    /\ UNCHANGED <<config, at, ttl, open, reply, target>>

AnswerFails(i) ==
    /\ pc[i] = "answer" /\ ~open[i]
    /\ CloseOnward(i)
    /\ pc' = [pc EXCEPT ![i] = "done"]
    /\ UNCHANGED <<config, at, ttl, reply>>

\* spliceConns: one side closes, both are closed.
SpliceEnds(i) ==
    /\ pc[i] = "splice"
    /\ \/ ~open[i]
       \/ IsExit(i) /\ target # "open"
       \/ ~IsExit(i) /\ ~open[i + 1]
    /\ CloseOnward(i)
    /\ pc' = [pc EXCEPT ![i] = "done"]
    /\ UNCHANGED <<config, at, ttl, reply>>

-----------------------------------------------------------------------------
HandleProxyConnect(i) ==
    \/ AdLost(i) \/ Refuse(i) \/ StartDial(i) \/ DialFails(i)
    \/ TTLExpired(i) \/ Forward(i) \/ NextHopDown(i) \/ NextAnswers(i) \/ NextFails(i)
    \/ Answer(i) \/ AnswerFails(i) \/ SpliceEnds(i)

Environment ==
    \/ \E b \in Brokers, t \in (0..MaxTTL) \cup {None} : Ask(b, t)
    \/ \E i \in Hops : ConnBreaks(i) \/ TargetAccepts(i) \/ Hangs(i)
    \/ TargetCloses

Next == (\E i \in Hops : HandleProxyConnect(i)) \/ Environment

Spec == Init /\ [][Next]_vars

\* Handlers that can go on do, and RequestTimeout bounds a dial and the wait for
\* a next hop. Nobody need accept, answer or close anything. No handler takes more than a few
\* steps and there are MaxHops of them: a behaviour that is fair to the handlers
\* as a whole leaves none of them with a step to take.
FairSpec == Spec /\ WF_vars(\E i \in Hops : HandleProxyConnect(i))

-----------------------------------------------------------------------------
Asked == pc[1] # "none"

\* However the next hops are configured, in a cycle for example, a request is
\* forwarded no more often than the originator's TTL says.
HopsBounded == \A i \in Hops : pc[i] # "none" => i <= Budget(1) + 1

\* A requester that is told of success has, or had, a connection that goes all the
\* way: every hop answered, and the last is an exit that was allowed to dial the
\* target and did.
SuccessIsReal ==
    reply[1] = "ok" =>
        \E n \in Hops :
            /\ \A i \in 1..n : reply[i] = "ok"
            /\ IsExit(n) /\ outboundTargetAllowed(at[n]) /\ target # "none"

\* The requester is answered, or loses its connection: neither a target that does
\* not accept nor a hop that hangs, however far along the chain, keeps it waiting.
RequesterAnswered == []<>(Asked => reply[1] # None \/ ~open[1])

\* Once the requester has gone, all that was built for it is taken down, also
\* what a hop that gave up on its successor never heard of: every handler that
\* does not hang returns, every connection between brokers and the one to the
\* target close.
ChainFolds ==
    []<>(Asked /\ ~open[1] =>
            /\ target # "open"
            /\ \A i \in Hops : pc[i] \in {"none", "done", "hung"} /\ ~open[i])
=============================================================================

--------------------------- MODULE OutboundProofs ---------------------------
(***************************************************************************)
(* The originator's TTL bounds the chain of an outbound request, and a      *)
(* requester that is told of success has a chain that reaches its target:   *)
(* for every set of brokers and every configuration of their next hops.    *)
(***************************************************************************)
EXTENDS Outbound, TLAPS

HandlerStates == {"none", "read", "dial", "await", "answer", "splice", "hung", "done"}

\* The TTL that a handler beyond the first reads is what the handlers before it
\* have left of the first one's.
TTLInv ==
    /\ ttl \in [Hops -> Nat \cup {None}]
    /\ pc \in [Hops -> HandlerStates]
    /\ \A i \in Hops : pc[i] # "none" => pc[1] # "none"
    /\ \A i \in Hops \ {1} : pc[i] # "none" => ttl[i] = Budget(1) - (i - 1)

USE OutboundOK DEF OutboundOK, Hops

\* What a handler may spend is a number, and what its ad says if that has a TTL.
LEMMA BudgetIsNat ==
    ASSUME NEW i \in Hops, ttl[i] \in Nat \cup {None}
    PROVE  Budget(i) \in Nat /\ (ttl[i] \in Nat => Budget(i) = ttl[i])
<1>1. CASE ttl[i] # None
    BY <1>1 DEF Budget
<1>2. CASE ttl[i] = None /\ OutboundTTL > 0
    BY <1>2 DEF Budget
<1>3. CASE ttl[i] = None /\ ~(OutboundTTL > 0)
    BY <1>3 DEF Budget
<1> QED
    BY <1>1, <1>2, <1>3

\* Nothing is asked for at first.
LEMMA TTLInit == Init => TTLInv
<1> SUFFICES ASSUME Init PROVE TTLInv
    OBVIOUS
<1>1. ttl = [i \in Hops |-> None] /\ pc = [i \in Hops |-> "none"]
    BY DEF Init
<1> QED
    BY <1>1 DEF TTLInv, HandlerStates

\* A request sets the first handler's TTL.
LEMMA AskKeeps ==
    ASSUME TTLInv, NEW b \in Brokers, NEW t \in (0..MaxTTL) \cup {None}, Ask(b, t)
    PROVE  TTLInv'
<1>1. /\ pc[1] = "none"
      /\ ttl' = [ttl EXCEPT ![1] = t] /\ pc' = [pc EXCEPT ![1] = "read"]
    BY DEF Ask
<1>2. \A i \in Hops \ {1} : pc'[i] = "none"
    BY <1>1 DEF TTLInv
<1>3. ttl' \in [Hops -> Nat \cup {None}] /\ pc' \in [Hops -> HandlerStates] /\ pc'[1] # "none"
    BY <1>1 DEF TTLInv, HandlerStates
<1> QED
    BY <1>2, <1>3 DEF TTLInv

\* A handler that forwards has something to spend, and passes on one less.
LEMMA ForwardKeeps ==
    ASSUME TTLInv, NEW i \in Hops, Forward(i)
    PROVE  TTLInv'
<1>1. /\ i + 1 \in Hops /\ pc[i] = "read"
      /\ ttl' = [ttl EXCEPT ![i + 1] = Budget(i) - 1]
      /\ pc' = [pc EXCEPT ![i] = "await", ![i + 1] = "read"]
    BY DEF Forward
<1>2. 1 \in Hops /\ ttl[i] \in Nat \cup {None} /\ ttl[1] \in Nat \cup {None}
    BY DEF TTLInv
<1>3. Budget(i) \in Nat /\ Budget(i) > 0
    BY <1>2, BudgetIsNat DEF Forward, Expired
<1>4. Budget(i) = Budget(1) - (i - 1)
    <2>1. CASE i = 1
        BY <2>1, <1>2, BudgetIsNat
    <2>2. CASE i # 1
        BY <2>2, <1>1, <1>2, BudgetIsNat DEF TTLInv
    <2> QED
        BY <2>1, <2>2
<1>5. Budget(1)' = Budget(1)
    BY <1>1, <1>2 DEF Budget, TTLInv
<1>6. ttl' \in [Hops -> Nat \cup {None}] /\ pc' \in [Hops -> HandlerStates] /\ pc'[1] # "none"
    BY <1>1, <1>3 DEF TTLInv, HandlerStates
<1>7. ASSUME NEW j \in Hops \ {1}, pc'[j] # "none"
      PROVE  ttl'[j] = Budget(1) - (j - 1)
    <2>1. CASE j = i + 1
        BY <2>1, <1>1, <1>2, <1>4, BudgetIsNat DEF TTLInv
    <2>2. CASE j # i + 1
        BY <2>2, <1>1, <1>7 DEF TTLInv
    <2> QED
        BY <2>1, <2>2
<1> QED
    BY <1>5, <1>6, <1>7 DEF TTLInv

\* The other steps of a handler leave the TTLs alone and start no handler.
LEMMA OtherKeeps ==
    ASSUME TTLInv, NEW i \in Hops,
           UNCHANGED ttl, pc[i] # "none",
           NEW s \in HandlerStates \ {"none"}, pc' = [pc EXCEPT ![i] = s]
    PROVE  TTLInv'
<1>1. Budget(1)' = Budget(1)
    BY DEF Budget
<1> QED
    BY <1>1 DEF TTLInv

\* Steps that move no handler.
LEMMA StillKeeps == ASSUME TTLInv, UNCHANGED <<ttl, pc>> PROVE TTLInv'
<1>1. Budget(1)' = Budget(1)
    BY DEF Budget
<1> QED
    BY <1>1 DEF TTLInv

\* Every step keeps the TTL invariant.
LEMMA TTLStep == TTLInv /\ [Next]_vars => TTLInv'
<1> SUFFICES ASSUME TTLInv, [Next]_vars PROVE TTLInv'
    OBVIOUS
<1>1. ASSUME NEW i \in Hops, HandleProxyConnect(i) \/ TargetAccepts(i) \/ Hangs(i)
      PROVE  TTLInv'
    <2>1. CASE Forward(i)
        BY <2>1, ForwardKeeps
    <2>2. CASE ~Forward(i)
        <3>1. /\ UNCHANGED ttl /\ pc[i] # "none"
              /\ \E s \in HandlerStates \ {"none"} : pc' = [pc EXCEPT ![i] = s]
            BY <1>1, <2>2 DEF HandleProxyConnect, AdLost, Refuse, StartDial, DialFails,
                TTLExpired, NextHopDown, NextAnswers, NextFails, Answer, AnswerFails,
                SpliceEnds, TargetAccepts, Hangs, Fails, HandlerStates
        <3> QED
            BY <3>1, OtherKeeps
    <2> QED
        BY <2>1, <2>2
<1>2. ASSUME NEW b \in Brokers, NEW t \in (0..MaxTTL) \cup {None}, Ask(b, t) PROVE TTLInv'
    BY <1>2, AskKeeps
<1>3. CASE UNCHANGED vars \/ TargetCloses \/ \E i \in Hops : ConnBreaks(i)
    BY <1>3, StillKeeps DEF vars, TargetCloses, ConnBreaks
<1> QED
    BY <1>1, <1>2, <1>3 DEF Next, Environment

\* For every set of brokers, every configuration of next hops that New accepts,
\* and every TTL, a request starts at most one handler more than the originator's
\* TTL says.
THEOREM HopsAlwaysBounded == Spec => []HopsBounded
<1>1. TTLInv => HopsBounded
    <2> SUFFICES ASSUME TTLInv, NEW i \in Hops, pc[i] # "none"
                 PROVE  i <= Budget(1) + 1
        BY DEF HopsBounded
    <2>1. Budget(1) \in Nat
        BY BudgetIsNat DEF TTLInv
    <2>2. CASE i # 1
        BY <2>1, <2>2 DEF TTLInv
    <2> QED
        BY <2>1, <2>2
<1> QED
    BY TTLInit, TTLStep, <1>1, PTL DEF Spec
-----------------------------------------------------------------------------
(* Success is real *)

\* The exit has been allowed to dial, and has a connection to the target.
Dialed(n) == IsExit(n) /\ outboundTargetAllowed(at[n]) /\ target # "none"

\* From handler i on every hop has answered, up to an exit that dialed.
Reaches(i) == \E n \in Hops : n >= i /\ (\A j \in i..n : reply[j] = "ok") /\ Dialed(n)

\* What a handler knows by the time it is at pc. A handler that has not forwarded
\* has no successor, so that at[i + 1] is assigned once.
KnownAt(i) ==
    /\ pc[i] \in {"none", "read", "dial", "await", "answer", "hung"} => reply[i] = None
    /\ pc[i] = "dial" => IsExit(i) /\ outboundTargetAllowed(at[i])
    /\ pc[i] = "await" => i + 1 \in Hops
    /\ pc[i] = "answer" => Dialed(i) \/ (i + 1 \in Hops /\ reply[i + 1] = "ok")
    /\ pc[i] \in {"none", "read", "dial"} /\ i + 1 \in Hops => pc[i + 1] = "none"

SuccessInv ==
    /\ TTLInv
    /\ DOMAIN at = Hops
    /\ reply \in [Hops -> {None, "ok", "fail"}]
    /\ \A i \in Hops : KnownAt(i)
    /\ \A i \in Hops : reply[i] = "ok" => Reaches(i)

\* Nobody has said or dialed anything at first.
LEMMA SuccessInit == Init => SuccessInv
<1> SUFFICES ASSUME Init PROVE SuccessInv
    OBVIOUS
<1>1. TTLInv
    BY TTLInit
<1>2. /\ at = [i \in Hops |-> None] /\ reply = [i \in Hops |-> None]
      /\ pc = [i \in Hops |-> "none"]
    BY DEF Init
<1>3. \A i \in Hops : KnownAt(i)
    BY <1>2 DEF KnownAt
<1>4. \A i \in Hops : reply[i] # "ok"
    BY <1>2
<1> QED BY <1>1, <1>2, <1>3, <1>4 DEF SuccessInv

\* What was reached stays so while answers stand, handlers stay where they are,
\* and the connection to the target has been made.
Stands ==
    /\ UNCHANGED config
    /\ target # "none" => target' # "none"
    /\ \A j \in Hops : reply[j] = "ok" => reply'[j] = "ok"
    /\ \A j \in Hops : pc[j] # "none" => at'[j] = at[j]

LEMMA DialedStands ==
    ASSUME Stands, NEW n \in Hops, pc[n] # "none", Dialed(n)
    PROVE  Dialed(n)'
BY DEF Stands, Dialed, IsExit, outboundTargetAllowed, matchAllowlist, config

LEMMA ReachesStands ==
    ASSUME SuccessInv, Stands, NEW i \in Hops, Reaches(i)
    PROVE  Reaches(i)'
<1>1. PICK n \in Hops : n >= i /\ (\A j \in i..n : reply[j] = "ok") /\ Dialed(n)
    BY DEF Reaches
<1>2. reply[n] = "ok" /\ pc[n] # "none"
    BY <1>1 DEF SuccessInv, KnownAt
<1>3. Dialed(n)'
    BY <1>1, <1>2, DialedStands
<1>4. \A j \in i..n : reply'[j] = "ok"
    BY <1>1 DEF Stands
<1> QED BY <1>1, <1>3, <1>4 DEF Reaches

\* A success that is new says what its handler knew before.
LEMMA AnswerReaches ==
    ASSUME SuccessInv, Stands, NEW i \in Hops, pc[i] = "answer", reply'[i] = "ok"
    PROVE  Reaches(i)'
<1>1. CASE Dialed(i)
    <2>1. Dialed(i)'
        BY <1>1, DialedStands
    <2> QED BY <2>1 DEF Reaches
<1>2. CASE i + 1 \in Hops /\ reply[i + 1] = "ok"
    <2>1. Reaches(i + 1)'
        BY <1>2, ReachesStands DEF SuccessInv
    <2>2. PICK n \in Hops : n >= i + 1 /\ (\A j \in (i + 1)..n : reply'[j] = "ok") /\ Dialed(n)'
        BY <2>1 DEF Reaches
    <2>3. \A j \in i..n : reply'[j] = "ok"
        BY <2>2
    <2> QED BY <2>2, <2>3 DEF Reaches
<1> QED BY <1>1, <1>2 DEF SuccessInv, KnownAt

\* What a step of handler i leaves alone: the other handlers' places and answers.
LEMMA SuccessFrame ==
    ASSUME SuccessInv, TTLInv', Stands,
           DOMAIN at' = Hops, reply' \in [Hops -> {None, "ok", "fail"}],
           \A j \in Hops : KnownAt(j)',
           \A j \in Hops : reply'[j] = "ok" => reply[j] = "ok" \/ pc[j] = "answer"
    PROVE  SuccessInv'
<1>1. ASSUME NEW j \in Hops, reply'[j] = "ok" PROVE Reaches(j)'
    BY <1>1, ReachesStands, AnswerReaches DEF SuccessInv
<1> QED BY <1>1 DEF SuccessInv

\* The step of one handler: the others know what they knew.
LEMMA OneHandler ==
    ASSUME SuccessInv, Stands, NEW i \in Hops, UNCHANGED at,
           NEW s \in HandlerStates \ {"none", "read"}, pc' = [pc EXCEPT ![i] = s],
           pc[i] # "none",
           \A j \in Hops \ {i} : reply'[j] = reply[j],
           KnownAt(i)'
    PROVE  \A j \in Hops : KnownAt(j)'
<1> SUFFICES ASSUME NEW j \in Hops, j # i PROVE KnownAt(j)'
    OBVIOUS
<1>1. pc'[j] = pc[j] /\ reply'[j] = reply[j] /\ at'[j] = at[j] /\ KnownAt(j)
    BY DEF SuccessInv, TTLInv
<1>2. pc[j] # "none" /\ Dialed(j) => Dialed(j)'
    BY DialedStands
<1>3. pc[j] = "dial" => (IsExit(j) /\ outboundTargetAllowed(at[j]))'
    BY <1>1 DEF KnownAt, Stands, config, IsExit, outboundTargetAllowed, matchAllowlist
<1>4. j + 1 \in Hops /\ reply[j + 1] = "ok" => reply'[j + 1] = "ok"
    BY DEF Stands
<1>5. pc[j] \in {"none", "read", "dial"} /\ j + 1 \in Hops => pc'[j + 1] = "none"
    BY <1>1 DEF KnownAt, SuccessInv, TTLInv
<1> QED BY <1>1, <1>2, <1>3, <1>4, <1>5 DEF KnownAt

\* A handler returns: it says fail, if anything, and had not said ok before; or it
\* had its say.
LEMMA ReturnStep ==
    ASSUME SuccessInv, TTLInv', NEW i \in Hops, UNCHANGED <<config, at>>,
           pc[i] # "none", pc' = [pc EXCEPT ![i] = "done"],
           target # "none" => target' # "none",
           \/ UNCHANGED reply
           \/ pc[i] \in {"read", "dial", "await"} /\ reply' = [reply EXCEPT ![i] = "fail"]
    PROVE  SuccessInv'
<1>1. \A j \in Hops \ {i} : reply'[j] = reply[j]
    BY DEF SuccessInv
<1>2. reply'[i] = reply[i] \/ (reply[i] = None /\ reply'[i] = "fail")
    BY DEF SuccessInv, KnownAt
<1>3. Stands
    BY <1>1, <1>2 DEF Stands
<1>4. KnownAt(i)'
    BY DEF KnownAt, SuccessInv, TTLInv
<1>5. \A j \in Hops : KnownAt(j)'
    BY <1>1, <1>3, <1>4, OneHandler DEF HandlerStates
<1>6. reply' \in [Hops -> {None, "ok", "fail"}] /\ DOMAIN at' = Hops
    BY DEF SuccessInv
<1> QED BY <1>1, <1>2, <1>3, <1>5, <1>6, SuccessFrame

\* A handler gets on: it dials, its dial is accepted, its next hop answers, it
\* hangs, or it answers in its turn.
LEMMA ProgressStep ==
    ASSUME SuccessInv, TTLInv', NEW i \in Hops,
           (StartDial(i) /\ outboundTargetAllowed(at[i]))
               \/ TargetAccepts(i) \/ NextAnswers(i) \/ Hangs(i) \/ Answer(i)
    PROVE  SuccessInv'
<1>1. KnownAt(i) /\ pc \in [Hops -> HandlerStates]
    BY DEF SuccessInv, TTLInv
<1>2. /\ UNCHANGED <<config, at>>
      /\ target # "none" => target' # "none"
      /\ pc[i] # "none"
      /\ \A j \in Hops \ {i} : reply'[j] = reply[j]
      /\ reply[i] = "ok" => reply'[i] = "ok"
      /\ reply' \in [Hops -> {None, "ok", "fail"}]
    BY DEF StartDial, TargetAccepts, NextAnswers, Hangs, Answer, SuccessInv
<1>3. Stands
    BY <1>2 DEF Stands
<1>4. /\ reply'[i] = "ok" => reply[i] = "ok" \/ pc[i] = "answer"
      /\ \E s \in HandlerStates \ {"none", "read"} : pc' = [pc EXCEPT ![i] = s]
    BY DEF StartDial, TargetAccepts, NextAnswers, Hangs, Answer, HandlerStates
<1>5. KnownAt(i)'
    <2>1. CASE StartDial(i) /\ outboundTargetAllowed(at[i])
        <3>1. /\ pc[i] = "read" /\ pc' = [pc EXCEPT ![i] = "dial"]
              /\ UNCHANGED <<config, at, reply>> /\ IsExit(i)
            BY <2>1 DEF StartDial
        <3>2. (IsExit(i) /\ outboundTargetAllowed(at[i]))'
            BY <2>1, <3>1 DEF IsExit, outboundTargetAllowed, matchAllowlist, config
        <3> QED BY <1>1, <3>1, <3>2 DEF KnownAt
    <2>2. CASE TargetAccepts(i)
        <3>1. /\ pc[i] = "dial" /\ pc' = [pc EXCEPT ![i] = "answer"] /\ target' = "open"
              /\ UNCHANGED <<config, at, reply>>
            BY <2>2 DEF TargetAccepts
        <3>2. Dialed(i)'
            BY <1>1, <3>1 DEF KnownAt, Dialed, IsExit, outboundTargetAllowed, matchAllowlist, config
        <3> QED BY <1>1, <3>1, <3>2 DEF KnownAt
    <2>3. CASE NextAnswers(i)
        BY <1>1, <2>3 DEF NextAnswers, KnownAt
    <2>4. CASE Hangs(i)
        BY <1>1, <2>4 DEF Hangs, KnownAt
    <2>5. CASE Answer(i)
        BY <1>1, <2>5 DEF Answer, KnownAt
    <2> QED BY <2>1, <2>2, <2>3, <2>4, <2>5
<1>6. \A j \in Hops : KnownAt(j)'
    BY <1>2, <1>3, <1>4, <1>5, OneHandler
<1>7. DOMAIN at' = Hops
    BY <1>2 DEF SuccessInv
<1> QED BY <1>2, <1>3, <1>4, <1>6, <1>7, SuccessFrame

\* A request comes in, at the first broker or from the handler before: its handler
\* begins, and nothing is known of it.
LEMMA BeginStep ==
    ASSUME SuccessInv, TTLInv',
           (\E b \in Brokers, t \in (0..MaxTTL) \cup {None} : Ask(b, t))
               \/ (\E i \in Hops : Forward(i))
    PROVE  SuccessInv'
<1>1. PICK k \in Hops :
          /\ pc[k] = "none" /\ pc'[k] = "read" /\ at' = [at EXCEPT ![k] = at'[k]]
          /\ \A j \in Hops \ {k} :
                \/ pc'[j] = pc[j] /\ (pc[j] \in {"none", "read", "dial"} => j + 1 # k)
                \/ pc[j] = "read" /\ pc'[j] = "await" /\ k = j + 1
          /\ k + 1 \in Hops => pc[k + 1] = "none"
    <2>1. ASSUME NEW b \in Brokers, NEW t \in (0..MaxTTL) \cup {None}, Ask(b, t)
          PROVE  /\ pc[1] = "none" /\ pc'[1] = "read" /\ at' = [at EXCEPT ![1] = at'[1]]
                 /\ \A j \in Hops \ {1} : pc'[j] = pc[j] /\ j + 1 # 1
                 /\ 1 + 1 \in Hops => pc[1 + 1] = "none"
        <3>1. 1 \in Hops /\ pc[1] = "none" /\ pc' = [pc EXCEPT ![1] = "read"]
            BY <2>1 DEF Ask
        <3>2. at' = [at EXCEPT ![1] = at'[1]]
            BY <2>1, <3>1 DEF Ask, SuccessInv
        <3>3. pc'[1] = "read" /\ \A j \in Hops \ {1} : pc'[j] = pc[j] /\ pc[j] = "none"
            BY <3>1 DEF SuccessInv, TTLInv
        <3> QED BY <3>1, <3>2, <3>3
    <2>2. ASSUME NEW i \in Hops, Forward(i)
          PROVE  /\ i + 1 \in Hops /\ pc[i + 1] = "none" /\ pc'[i + 1] = "read"
                 /\ at' = [at EXCEPT ![i + 1] = at'[i + 1]]
                 /\ pc[i] = "read" /\ pc'[i] = "await"
                 /\ \A j \in Hops \ {i, i + 1} : pc'[j] = pc[j] /\ j + 1 # i + 1
                 /\ (i + 1) + 1 \in Hops => pc[(i + 1) + 1] = "none"
        <3>1. KnownAt(i) /\ pc \in [Hops -> HandlerStates]
            BY DEF SuccessInv, TTLInv
        <3>2. i + 1 \in Hops /\ pc[i] = "read" /\ pc[i + 1] = "none"
            BY <2>2, <3>1 DEF Forward, KnownAt
        <3>3. (i + 1) + 1 \in Hops => pc[(i + 1) + 1] = "none"
            BY <3>2 DEF SuccessInv, KnownAt
        <3>4. at' = [at EXCEPT ![i + 1] = at'[i + 1]]
            BY <2>2, <3>2 DEF Forward, SuccessInv
        <3>5. pc' = [pc EXCEPT ![i] = "await", ![i + 1] = "read"]
            BY <2>2 DEF Forward
        <3>6. pc'[i + 1] = "read" /\ pc'[i] = "await" /\ \A j \in Hops \ {i, i + 1} : pc'[j] = pc[j]
            BY <3>1, <3>2, <3>5
        <3>7. \A j \in Hops \ {i, i + 1} : j + 1 # i + 1
            OBVIOUS
        <3> QED BY <3>2, <3>3, <3>4, <3>6, <3>7
    <2> QED BY <2>1, <2>2
<1>2. UNCHANGED <<config, reply, target>>
    BY DEF Ask, Forward
<1>3. reply[k] = None
    BY <1>1 DEF SuccessInv, KnownAt
<1>4. \A j \in Hops \ {k} : at'[j] = at[j]
    BY <1>1 DEF SuccessInv
<1>5. Stands
    BY <1>1, <1>2, <1>4 DEF Stands
<1>6. ASSUME NEW j \in Hops PROVE KnownAt(j)'
    <2>1. CASE j = k
        <3>1. pc'[k] = "read" /\ reply'[k] = None
            BY <1>1, <1>2, <1>3
        <3>2. k + 1 \in Hops => pc'[k + 1] = "none"
            BY <1>1
        <3> QED BY <2>1, <3>1, <3>2 DEF KnownAt
    <2>2. CASE j # k /\ pc'[j] = "await"
        BY <1>1, <1>2, <2>2 DEF KnownAt, SuccessInv
    <2>3. CASE j # k /\ pc'[j] = pc[j] /\ pc'[j] # "await"
        <3>1. KnownAt(j) /\ at'[j] = at[j] /\ reply' = reply
            BY <1>2, <1>4, <2>3 DEF SuccessInv
        <3>2. pc[j] \in {"none", "read", "dial"} /\ j + 1 \in Hops => pc'[j + 1] = "none"
            BY <1>1, <2>3, <3>1 DEF KnownAt
        <3>3. /\ pc[j] = "dial" => (IsExit(j) /\ outboundTargetAllowed(at[j]))'
              /\ pc[j] # "none" /\ Dialed(j) => Dialed(j)'
            BY <1>2, <3>1, <1>5, DialedStands
               DEF KnownAt, IsExit, outboundTargetAllowed, matchAllowlist, config
        <3> QED BY <2>3, <3>1, <3>2, <3>3 DEF KnownAt
    <2> QED BY <1>1, <2>1, <2>2, <2>3
<1> QED BY <1>1, <1>2, <1>5, <1>6, SuccessFrame DEF SuccessInv

\* Connections break, and nobody knows.
LEMMA QuietStep ==
    ASSUME SuccessInv, TTLInv', UNCHANGED <<config, at, pc, reply>>,
           target # "none" => target' # "none"
    PROVE  SuccessInv'
<1>1. Stands
    BY DEF Stands
<1>2. \A j \in Hops : KnownAt(j)'
    <2> SUFFICES ASSUME NEW j \in Hops PROVE KnownAt(j)'
        OBVIOUS
    <2>1. KnownAt(j) /\ (pc[j] # "none" /\ Dialed(j) => Dialed(j)')
        BY <1>1, DialedStands DEF SuccessInv
    <2> QED BY <2>1 DEF KnownAt, IsExit, outboundTargetAllowed, matchAllowlist, config
<1> QED BY <1>1, <1>2, SuccessFrame DEF SuccessInv

\* Every step keeps the invariant.
LEMMA SuccessStep == SuccessInv /\ [Next]_vars => SuccessInv'
<1> SUFFICES ASSUME SuccessInv, [Next]_vars PROVE SuccessInv'
    OBVIOUS
<1>1. TTLInv'
    BY TTLStep DEF SuccessInv
<1>2. ASSUME NEW i \in Hops,
             \/ AdLost(i) \/ Refuse(i) \/ (StartDial(i) /\ ~outboundTargetAllowed(at[i]))
             \/ DialFails(i) \/ TTLExpired(i) \/ NextHopDown(i) \/ NextFails(i)
             \/ AnswerFails(i) \/ SpliceEnds(i)
      PROVE  SuccessInv'
    <2>1. /\ UNCHANGED <<config, at>> /\ pc[i] # "none"
          /\ pc' = [pc EXCEPT ![i] = "done"]
          /\ target # "none" => target' # "none"
          /\ \/ UNCHANGED reply
             \/ pc[i] \in {"read", "dial", "await"} /\ reply' = [reply EXCEPT ![i] = "fail"]
        BY <1>2 DEF AdLost, Refuse, StartDial, DialFails, TTLExpired, NextHopDown, NextFails,
            AnswerFails, SpliceEnds, Fails, CloseOnward
    <2> QED BY <1>1, <2>1, ReturnStep
<1>3. ASSUME NEW i \in Hops, HandleProxyConnect(i) \/ TargetAccepts(i) \/ Hangs(i)
      PROVE  SuccessInv'
    BY <1>1, <1>2, <1>3, ProgressStep, BeginStep DEF HandleProxyConnect
<1>4. ASSUME NEW b \in Brokers, NEW t \in (0..MaxTTL) \cup {None}, Ask(b, t) PROVE SuccessInv'
    BY <1>1, <1>4, BeginStep
<1>5. CASE UNCHANGED vars \/ TargetCloses \/ \E i \in Hops : ConnBreaks(i)
    BY <1>1, <1>5, QuietStep DEF vars, TargetCloses, ConnBreaks
<1> QED BY <1>3, <1>4, <1>5 DEF Next, Environment

\* For every set of brokers and every configuration of next hops and allowlists: a
\* requester that reads success has a chain of hops that all answered, up to an
\* exit that was allowed to dial the target and did.
THEOREM SuccessIsAlwaysReal == Spec => []SuccessIsReal
<1>1. SuccessInv => SuccessIsReal
    <2> SUFFICES ASSUME SuccessInv, reply[1] = "ok"
                 PROVE  \E n \in Hops : (\A i \in 1..n : reply[i] = "ok") /\ Dialed(n)
        BY DEF SuccessIsReal, Dialed
    <2>1. Reaches(1)
        BY DEF SuccessInv
    <2> QED BY <2>1 DEF Reaches
<1> QED BY SuccessInit, SuccessStep, <1>1, PTL DEF Spec
=============================================================================

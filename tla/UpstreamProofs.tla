--------------------------- MODULE UpstreamProofs ---------------------------
(***************************************************************************)
(* Theorems about Upstream, for every value of its constants. The outside   *)
(* broker keeps the invariant of RegistryInv whatever the inside broker     *)
(* does; on top of it is what the inside broker does with its contact.      *)
(***************************************************************************)
EXTENDS Upstream, RegistryProofs

\* Most leaves are first-order reasoning; those that need arithmetic, sequences
\* or the values of functions cite SMT.
USE Zenon

-----------------------------------------------------------------------------
(* The outside broker *)

\* A step of the whole is a step of the outside broker, or the inside one restarts.
LEMMA StepsOutside ==
    ASSUME [NextUpstream]_allVars
    PROVE  [Next]_vars \/ InsideRestarts
BY DEF NextUpstream, Outside, watchTunnelReady, Publish, WriteTmp, NoTmp, Install, CloseReady,
       Stamp, TellMaster, allVars

\* A restart of the inside broker is to the outside one the loss of its connections.
LEMMA InsideRestartsStep ==
    ASSUME IInv, InsideRestarts
    PROVE  IInv'
<1>1. /\ UNCHANGED <<now, nextID, targets, reconnects, recOf, pc, req, reg, stale>>
      /\ UNCHANGED <<ops, batch, db>>
    BY DEF InsideRestarts, table, store
<1>2. \A c \in Conns : /\ link'[c] \in {link[c], "down"}
                       /\ link[c] \in Links /\ link'[c] \in Links
                       /\ link'[c] = "none" <=> link[c] = "none"
    BY SMT DEF InsideRestarts, IInv, TypeOK, Links
<1>3. \A d \in Daemons : cred'[d] \in {cred[d], None}
    BY InsideOK DEF InsideRestarts, IInv, TypeOK
<1>4. TypeOK'
    <2>1. link' \in [Conns -> Links]
        BY <1>2 DEF InsideRestarts
    <2>2. cred' \in [Daemons -> Credential \cup {None}]
        BY <1>3 DEF InsideRestarts, IInv, TypeOK
    <2> QED BY <1>1, <2>1, <2>2 DEF IInv, TypeOK
<1>5. \A x \in Conns : (Active(x)' <=> Active(x)) /\ (Registered(x)' <=> Registered(x))
    BY <1>1, NoHandlerMoves
<1>6. HandlerState'
    BY <1>1, <1>2, <1>5 DEF IInv, HandlerState
<1>7. CookieOwners'
    BY <1>1, <1>3, <1>5 DEF IInv, CookieOwners
<1>8. NoDanglingTarget' /\ LiveTargetHasRecord' /\ RecordOrigin'
    BY <1>1, <1>5, TablesKept
<1>9. IdsGivenOut' /\ CookiesAgree' /\ RecordsTracked'
    BY <1>1, <1>5, StoreKept
<1> QED BY <1>4, <1>6, <1>7, <1>8, <1>9 DEF IInv

\* The outside broker keeps its invariant in the composition.
LEMMA OutsideInvariant == UpstreamSpec => []IInv
<1>1. InitUpstream => IInv
    BY InitStep DEF InitUpstream
<1>2. IInv /\ [NextUpstream]_allVars => IInv'
    BY StepsOutside, InsideRestartsStep, NextStep
<1> QED BY <1>1, <1>2, PTL DEF UpstreamSpec

LEMMA LifetimeUpstream ==
    ASSUME "crash" \notin Faults, IInv, OneLifetime, [NextUpstream]_allVars
    PROVE  OneLifetime'
<1>1. ASSUME InsideRestarts PROVE OneLifetime'
    <2>1. UNCHANGED <<nextID, pc, req, reg>>
        BY <1>1 DEF InsideRestarts, table
    <2>2. \A d \in Daemons : cred'[d] \in {cred[d], None}
        BY <1>1, InsideOK DEF InsideRestarts, IInv, TypeOK
    <2>3. \A k, id : Minted(k, id)' <=> Minted(k, id)
        BY <2>1 DEF Minted
    <2> QED BY <2>1, <2>2, <2>3 DEF OneLifetime
<1> QED BY <1>1, StepsOutside, LifetimeStep

\* What was generated for a daemon stays so.
LEMMA MintedStays ==
    ASSUME "crash" \notin Faults, IInv, OneLifetime, [NextUpstream]_allVars,
           NEW k \in Conns, NEW id, Minted(k, id), req[k] # None
    PROVE  Minted(k, id)' /\ req'[k] = req[k]
<1>1. pc[k] \notin {"idle", "dialed"} /\ reg[k] # None
    BY DEF OneLifetime, Minted
<1>2. ASSUME NEW c \in Conns, Register(c) PROVE reg'[k] = reg[k] /\ req' = req
    BY <1>1, <1>2, SMT DEF Register, IInv, TypeOK
<1>3. ASSUME NEW c \in Conns, Deregister(c)
      PROVE  req' = req /\ reg'[k] # None /\ reg'[k].id = reg[k].id
             /\ reg'[k].rec.cookie = reg[k].rec.cookie
    <2>1. req' = req
        BY <1>3 DEF Deregister
    <2> QED BY <1>1, <1>3, <2>1, RegKept
<1>4. ASSUME NEW d \in Daemons, NEW c \in Conns, NEW ip \in IPs, Dial(d, c, ip)
      PROVE  reg' = reg /\ req'[k] = req[k]
    BY <1>1, <1>4, SMT DEF Dial, IInv, TypeOK
<1>5. CASE \/ \E c \in Conns : RegisterFails(c) \/ Put(c) \/ Reply(c)
           \/ \E c \in Conns, how \in {"half", "down"} : Drop(c, how)
           \/ Tick \/ Sweeper \/ Writer \/ InsideRestarts \/ UNCHANGED vars
    <2>1. UNCHANGED <<req, reg>>
        BY <1>5 DEF RegisterFails, Put, Reply, Drop, Tick, Sweeper, SweepReconnects, SweepDelete,
                    Writer, TakeOp, Commit, InsideRestarts, vars
    <2> QED BY <2>1 DEF Minted
<1>6. [Next]_vars \/ InsideRestarts
    BY StepsOutside
<1> QED BY <1>2, <1>3, <1>4, <1>5, <1>6 DEF Minted, Next, Handler, Environment, Crash, Shutdown

-----------------------------------------------------------------------------
(* Contacts lead home *)

\* The cookie of this CCBID was generated for the inside broker.
Home(id) == \E k \in Conns : Minted(k, id) /\ req[k] # None /\ req[k].daemon = Inside

\* Every contact that the inside broker has or has let out of its hands is its own.
ContactsHome ==
    \A id \in (handedOut \cup {readyFile, tmpFile, tunnelContact}) \ {Plain, None} :
        id \in Ids /\ Home(id)

LEMMA ContactsHomeStep ==
    ASSUME "crash" \notin Faults, IInv, OneLifetime, ContactsHome, [NextUpstream]_allVars
    PROVE  ContactsHome'
<1>1. ASSUME NEW id, Home(id) PROVE Home(id)'
    BY <1>1, MintedStays DEF Home
<1> DEFINE Out == (handedOut \cup {readyFile, tmpFile, tunnelContact}) \ {Plain, None}
<1>2. ASSUME NEW id \in Out' PROVE id \in Out \/ (cred[Inside] # None /\ id = cred[Inside].id)
    <2>1. CASE Outside \/ UNCHANGED allVars
        BY <2>1 DEF Outside, allVars, inside, Plain
    <2>2. CASE Publish
        BY <2>2 DEF Publish, Plain
    <2>3. CASE WriteTmp \/ NoTmp \/ Install \/ CloseReady
        BY <2>3 DEF WriteTmp, NoTmp, Install, CloseReady, Plain
    <2>4. CASE Stamp \/ TellMaster
        BY <2>4 DEF Stamp, TellMaster, Plain
    <2>5. CASE InsideRestarts
        BY <2>5 DEF InsideRestarts, Plain
    <2> QED BY <2>1, <2>2, <2>3, <2>4, <2>5 DEF NextUpstream, watchTunnelReady
<1>3. ASSUME cred[Inside] # None PROVE cred[Inside].id \in Ids /\ Home(cred[Inside].id)
    <2>1. cred[Inside] \in Credential
        BY <1>3, InsideOK DEF IInv, TypeOK
    <2>2. cred[Inside].id \in Ids /\ cred[Inside].cookie \in Conns
        BY <2>1 DEF Credential
    <2> QED BY <1>3, <2>2, InsideOK DEF Home, OneLifetime, IInv, CookieOwners
<1>4. \A id \in Out : id \in Ids /\ Home(id)
    BY DEF ContactsHome
<1>5. \A id \in Out' : id \in Ids /\ Home(id)'
    BY <1>1, <1>2, <1>3, <1>4
<1> QED BY <1>5 DEF ContactsHome, Ids, Plain

\* What the inside broker hands out, and its ready file of an earlier life, lead to
\* no other daemon while the outside broker lives: contactString and
\* handleGetTunnelAddress use the contact that watchTunnelReady cached once.
THEOREM HandedOutLeadHome ==
    ASSUME "crash" \notin Faults
    PROVE  UpstreamSpec => []HandedOutLeadsHome
<1>1. InitUpstream => OneLifetime /\ ContactsHome
    BY LifetimeInit DEF InitUpstream, ContactsHome
<1>2. IInv /\ OneLifetime /\ ContactsHome /\ [NextUpstream]_allVars =>
          OneLifetime' /\ ContactsHome'
    BY LifetimeUpstream, ContactsHomeStep
<1>3. IInv /\ OneLifetime /\ ContactsHome => HandedOutLeadsHome
    <2> SUFFICES ASSUME IInv, OneLifetime, ContactsHome,
                        NEW id \in (handedOut \cup {readyFile}) \ {Plain, None},
                        targets[id] # None
                 PROVE  req[targets[id]].daemon = Inside
        BY DEF HandedOutLeadsHome
    <2> DEFINE c == targets[id]
    <2>1. id \in Ids /\ Home(id)
        BY DEF ContactsHome
    <2>2. PICK k \in Conns : Minted(k, id) /\ req[k] # None /\ req[k].daemon = Inside
        BY <2>1 DEF Home
    <2>3. c \in Conns
        BY <2>1 DEF IInv, TypeOK
    <2>4. Active(c) /\ reg[c] # None /\ reg[c].id = id
        BY <2>1, <2>3 DEF IInv, NoDanglingTarget, Registered, HandlerState, Active
    <2>5. reg[c].rec.cookie \in Conns
        BY <2>3, <2>4 DEF IInv, TypeOK, Registration, ReconnectRecord
    <2>6. reg[c].rec.cookie = k
        <3>1. Minted(reg[c].rec.cookie, id)
            BY <2>3, <2>4 DEF OneLifetime
        <3>2. \A j, n \in Conns, i \in Ids : Minted(j, i) /\ Minted(n, i) => j = n
            BY DEF OneLifetime
        <3> QED BY <2>1, <2>2, <2>5, <3>1, <3>2
    <2> QED BY <2>2, <2>3, <2>4, <2>6 DEF IInv, CookieOwners
<1> QED BY <1>1, <1>2, <1>3, OutsideInvariant, PTL DEF UpstreamSpec

-----------------------------------------------------------------------------
(* The cached contact is current *)

\* The watcher goes on only with a contact.
WatcherState ==
    /\ tunnelReady => wpc = "done"
    /\ wpc # "poll" => tunnelContact # None

\* Every step keeps that.
LEMMA WatcherStep ==
    ASSUME IInv, WatcherState, [NextUpstream]_allVars
    PROVE  WatcherState'
<1>1. CASE Outside \/ UNCHANGED allVars \/ Stamp \/ TellMaster
    <2>1. UNCHANGED <<tunnelReady, wpc, tunnelContact>>
        BY <1>1 DEF Outside, allVars, inside, Stamp, TellMaster
    <2> QED BY <2>1, SMT DEF WatcherState
<1>2. CASE Publish
    <2>1. cred[Inside].id \in Ids
        BY <1>2, InsideOK DEF Publish, IInv, TypeOK, Credential
    <2>2. cred[Inside].id # None
        <3>1. cred[Inside].id \in Nat
            BY <2>1, ConstantsOK, SMT DEF Ids
        <3> QED BY <3>1, InsideOK
    <2> QED BY <1>2, <2>2 DEF Publish, WatcherState
<1>3. CASE WriteTmp \/ NoTmp \/ Install \/ CloseReady
    BY <1>3, SMT DEF WriteTmp, NoTmp, Install, CloseReady, WatcherState
<1>4. CASE InsideRestarts
    BY <1>4 DEF InsideRestarts, WatcherState
<1> QED BY <1>1, <1>2, <1>3, <1>4 DEF NextUpstream, watchTunnelReady

\* Nothing is swept: the record that every registration made or found is there.
RecordsStay ==
    \A c \in Conns : reg[c] # None =>
        reconnects[reg[c].id] # None /\ reconnects[reg[c].id].cookie = reg[c].rec.cookie

\* A daemon uses one connection at a time. What it presented on it is what it
\* still holds until it is answered, and what it will be answered.
OneUplink ==
    /\ \A c, x \in Conns :
          link[c] = "up" /\ link[x] = "up" /\ req[c].daemon = req[x].daemon => c = x
    /\ \A c \in Conns : link[c] = "up" /\ pc[c] \in {"dialed", "put", "reply"} =>
          /\ req[c].prev = cred[req[c].daemon]
          /\ pc[c] # "dialed" /\ req[c].prev # None => reg[c].id = req[c].prev.id

\* The contact taken once is the CCBID the inside broker still holds.
ContactKept ==
    tunnelContact # None => cred[Inside] # None /\ cred[Inside].id = tunnelContact

KeptInv == OneLifetime /\ RecordsStay /\ OneUplink /\ ContactKept

\* A daemon that comes back from the address it had, or from any if that is
\* allowed, is given the CCBID it holds.
LEMMA ReclaimsWhatItHolds ==
    ASSUME IInv, KeptInv, NEW c \in Conns, AllowAnyIP \/ \A a, b \in IPs : a = b,
           req[c] # None, req[c].prev # None
    PROVE  Reclaims(req[c])
<1>1. req[c] \in Request
    BY DEF IInv, TypeOK
<1>2. req[c].prev \in Credential /\ req[c].ip \in IPs
    BY <1>1 DEF Request
<1>3. req[c].prev.cookie \in Conns /\ req[c].prev.id \in Ids
    BY <1>2 DEF Credential
<1>4. Minted(req[c].prev.cookie, req[c].prev.id)
    BY DEF KeptInv, OneLifetime
<1>5. /\ reconnects[req[c].prev.id] # None
      /\ reconnects[req[c].prev.id].cookie = req[c].prev.cookie
    BY <1>3, <1>4 DEF KeptInv, RecordsStay, Minted
<1>6. reconnects[req[c].prev.id].ip \in IPs
    <2>1. reconnects[req[c].prev.id] \in ReconnectRecord
        BY <1>3, <1>5 DEF IInv, TypeOK
    <2> QED BY <2>1 DEF ReconnectRecord
<1> QED BY <1>2, <1>5, <1>6 DEF Reclaims

LEMMA RegisterKeeps ==
    ASSUME IInv, KeptInv, NEW c \in Conns, Register(c),
           AllowAnyIP \/ \A a, b \in IPs : a = b
    PROVE  RecordsStay' /\ OneUplink'
<1> DEFINE id == reg'[c].id
<1>1. /\ UNCHANGED <<req, cred, link>> /\ pc[c] = "dialed" /\ pc'[c] # "dialed"
      /\ \A x \in Conns : x # c => pc'[x] = pc[x] /\ reg'[x] = reg[x]
    BY DEF Register, IInv, TypeOK
<1>2. /\ id \in Ids /\ reg'[c] # None
      /\ reconnects'[id] = reg'[c].rec /\ reconnects'[id] # None
      /\ \A n \in Ids : n # id => reconnects'[n] = reconnects[n]
    <2>1. IInv' /\ Active(c)'
        BY RegisterStep DEF Register, IInv, TypeOK, Active
    <2>2. reg'[c] # None /\ reg'[c] \in Registration
        BY <2>1 DEF IInv, HandlerState, TypeOK
    <2>3. id \in Ids /\ reg'[c].rec \in ReconnectRecord
        BY <2>2 DEF Registration
    <2>4. /\ reconnects'[id] = reg'[c].rec
          /\ \A n \in Ids : n # id => reconnects'[n] = reconnects[n]
        BY <2>2, <2>3 DEF Register, IInv, TypeOK
    <2> QED BY <2>2, <2>3, <2>4, NullsOK
<1>3. req[c].prev # None => id = req[c].prev.id
    <2>1. req[c] # None
        BY <1>1 DEF IInv, HandlerState
    <2>2. ASSUME req[c].prev # None PROVE id = req[c].prev.id
        <3>1. Reclaims(req[c])
            BY <2>1, <2>2, ReclaimsWhatItHolds
        <3> QED BY <3>1 DEF Register, IInv, TypeOK
    <2> QED BY <2>2
<1>4. ASSUME NEW x \in Conns, x # c, reg[x] # None, reg[x].id = id
      PROVE  reg[x].rec.cookie = reg'[c].rec.cookie
    <2>1. reconnects[id] # None /\ reconnects[id].cookie = reg[x].rec.cookie
        BY <1>4 DEF KeptInv, RecordsStay
    <2>2. id <= nextID /\ nextID \in Nat /\ id \in Int
        <3>1. id <= nextID /\ nextID \in Nat
            BY <1>2, <2>1 DEF IInv, IdsGivenOut, TypeOK
        <3>2. id \in Int
            BY <1>2, ConstantsOK, SMT DEF Ids
        <3> QED BY <3>1, <3>2
    <2>3. id # nextID + 1
        BY <2>2, SMT
    <2>4. Reclaims(req[c])
        BY <2>3 DEF Register, FreshID, IInv, TypeOK
    <2>5. reg'[c].rec.cookie = reconnects[id].cookie
        BY <2>4 DEF Register, IInv, TypeOK
    <2> QED BY <2>1, <2>5
<1> HIDE DEF id
<1>5. RecordsStay'
    <2>1. ASSUME NEW x \in Conns, reg'[x] # None
          PROVE  /\ reconnects'[reg'[x].id] # None
                 /\ reconnects'[reg'[x].id].cookie = reg'[x].rec.cookie
        <3>1. CASE x = c
            BY <1>2, <3>1 DEF id
        <3>2. CASE x # c /\ reg[x].id = id
            BY <1>1, <1>2, <1>4, <2>1, <3>2
        <3>3. CASE x # c /\ reg[x].id # id
            <4>1. reg'[x] = reg[x] /\ reg[x] # None
                BY <1>1, <2>1, <3>3
            <4>2. reg[x].id \in Ids
                BY <4>1 DEF IInv, TypeOK, Registration
            <4> QED BY <1>2, <3>3, <4>1, <4>2 DEF KeptInv, RecordsStay
        <3> QED BY <3>1, <3>2, <3>3
    <2> QED BY <2>1 DEF RecordsStay
<1>6. OneUplink'
    <2>1. ASSUME NEW x \in Conns, link[x] = "up", pc'[x] \in {"dialed", "put", "reply"}
          PROVE  /\ req[x].prev = cred[req[x].daemon]
                 /\ pc'[x] # "dialed" /\ req[x].prev # None => reg'[x].id = req[x].prev.id
        <3>1. CASE x = c
            BY <1>1, <1>3, <2>1, <3>1 DEF KeptInv, OneUplink, id
        <3>2. CASE x # c
            BY <1>1, <2>1, <3>2 DEF KeptInv, OneUplink
        <3> QED BY <3>1, <3>2
    <2> QED BY <1>1, <2>1 DEF KeptInv, OneUplink
<1> QED BY <1>5, <1>6

\* Every other step leaves both as they are.
LEMMA OthersKeep ==
    ASSUME "crash" \notin Faults, ~Persistent, IInv, KeptInv, [NextUpstream]_allVars,
           \A c \in Conns : ~Register(c)
    PROVE  RecordsStay' /\ OneUplink'
<1>1. ASSUME NEW c \in Conns, Deregister(c) PROVE RecordsStay' /\ OneUplink'
    <2>1. /\ UNCHANGED <<req, cred>> /\ pc[c] \in {"reply", "serving"}
          /\ \A x \in Conns : x # c => link'[x] = link[x] /\ pc'[x] = pc[x]
          /\ link'[c] = "down"
        BY <1>1 DEF Deregister, removeTarget, ServeEnds, ReplyFails, IInv, TypeOK
    <2>2. \A x \in Conns : reg[x] # None =>
              /\ reg'[x] # None /\ reg'[x].id = reg[x].id
              /\ reg'[x].rec.cookie = reg[x].rec.cookie
        BY <1>1, RegKept
    <2>3. \A x \in Conns : reg'[x] # None => reg[x] # None
        <3>1. reg[c] # None
            BY <2>1 DEF IInv, HandlerState, Active
        <3>2. \A x \in Conns, n \in Ids : x = recOf[n] => reg[x] # None
            BY ConstantsOK DEF IInv, RecordOrigin
        <3>3. reg[c].id \in Ids
            BY <3>1 DEF IInv, TypeOK, Registration
        <3> QED BY <1>1, <3>1, <3>2, <3>3 DEF Deregister, removeTarget
    <2>4. \A n \in Ids : reconnects[n] # None =>
              reconnects'[n] # None /\ reconnects'[n].cookie = reconnects[n].cookie
        <3>1. reg[c].id \in Ids
            BY <2>1 DEF IInv, HandlerState, Active, TypeOK, Registration
        <3>2. ASSUME NEW n \in Ids, reconnects[n] # None
              PROVE  reconnects'[n] # None /\ reconnects'[n].cookie = reconnects[n].cookie
            <4>1. reconnects[n] \in ReconnectRecord /\ now \in Nat
                BY <3>2 DEF IInv, TypeOK
            <4>2. reconnects'[n] \in {reconnects[n], [reconnects[n] EXCEPT !.updatedAt = now]}
                BY <1>1, <3>1, <3>2 DEF Deregister, removeTarget, IInv, TypeOK
            <4>3. /\ [reconnects[n] EXCEPT !.updatedAt = now] \in ReconnectRecord
                  /\ [reconnects[n] EXCEPT !.updatedAt = now].cookie = reconnects[n].cookie
                BY <4>1 DEF ReconnectRecord
            <4> QED BY <4>1, <4>2, <4>3, NullsOK
        <3> QED BY <3>2
    <2>5. RecordsStay'
        <3>1. \A x \in Conns : reg[x] # None => reg[x].id \in Ids
            BY DEF IInv, TypeOK, Registration
        <3> QED BY <2>2, <2>3, <2>4, <3>1 DEF KeptInv, RecordsStay
    <2>6. OneUplink'
        <3>1. \A x \in Conns : pc[x] \in {"put", "reply"} => reg[x] # None
            BY DEF IInv, HandlerState, Active
        <3>2. ASSUME NEW x \in Conns, link'[x] = "up"
              PROVE  link[x] = "up" /\ pc'[x] = pc[x] /\ x # c
            BY <2>1, <3>2
        <3>3. ASSUME NEW x \in Conns, link'[x] = "up", pc'[x] \in {"dialed", "put", "reply"}
              PROVE  /\ req[x].prev = cred[req[x].daemon]
                     /\ pc'[x] # "dialed" /\ req[x].prev # None => reg'[x].id = req[x].prev.id
            <4>1. /\ req[x].prev = cred[req[x].daemon]
                  /\ pc[x] # "dialed" /\ req[x].prev # None => reg[x].id = req[x].prev.id
                BY <3>2, <3>3 DEF KeptInv, OneUplink
            <4>2. pc[x] # "dialed" => reg'[x].id = reg[x].id
                BY <2>2, <3>1, <3>2, <3>3
            <4> QED BY <3>2, <3>3, <4>1, <4>2
        <3> QED BY <2>1, <3>2, <3>3 DEF KeptInv, OneUplink
    <2> QED BY <2>5, <2>6
<1>2. ASSUME NEW c \in Conns, Reply(c) PROVE RecordsStay' /\ OneUplink'
    <2>1. /\ UNCHANGED <<req, reg, link, reconnects>> /\ pc[c] = "reply" /\ pc'[c] = "serving"
          /\ \A x \in Conns : x # c => pc'[x] = pc[x]
        BY <1>2 DEF Reply, table, IInv, TypeOK
    <2>2. ASSUME NEW x \in Conns, link[x] = "up", x # c
          PROVE  cred'[req[x].daemon] = cred[req[x].daemon]
        <3>1. req[x] # None /\ req[x].daemon \in Daemons
            BY <2>2 DEF IInv, HandlerState, TypeOK, Request
        <3>2. link[c] = "up" => req[x].daemon # req[c].daemon
            BY <2>2 DEF KeptInv, OneUplink
        <3> QED BY <1>2, <3>1, <3>2 DEF Reply, IInv, TypeOK
    <2>3. RecordsStay'
        BY <2>1 DEF KeptInv, RecordsStay
    <2>4. OneUplink'
        BY <2>1, <2>2 DEF KeptInv, OneUplink
    <2> QED BY <2>3, <2>4
<1>3. ASSUME NEW d \in Daemons, NEW c \in Conns, NEW ip \in IPs, Dial(d, c, ip)
      PROVE  RecordsStay' /\ OneUplink'
    <2>1. /\ UNCHANGED <<reg, cred, reconnects>> /\ pc'[c] = "dialed"
          /\ req'[c].daemon = d /\ req'[c].prev = cred[d]
          /\ \A x \in Conns : x # c => link'[x] = link[x] /\ pc'[x] = pc[x] /\ req'[x] = req[x]
          /\ \A x \in Conns : link[x] = "up" => req[x].daemon # d
        BY <1>3 DEF Dial, table, IInv, TypeOK
    <2>2. RecordsStay'
        BY <2>1 DEF KeptInv, RecordsStay
    <2>3. ASSUME NEW x \in Conns, NEW y \in Conns,
                 link'[x] = "up", link'[y] = "up", req'[x].daemon = req'[y].daemon
          PROVE  x = y
        <3>1. CASE x # c /\ y # c
            <4>1. link[x] = "up" /\ link[y] = "up" /\ req[x].daemon = req[y].daemon
                BY <2>1, <2>3, <3>1
            <4> QED BY <4>1 DEF KeptInv, OneUplink
        <3>2. CASE x = c /\ y # c
            BY <2>1, <2>3, <3>2
        <3>3. CASE x # c /\ y = c
            BY <2>1, <2>3, <3>3
        <3> QED BY <3>1, <3>2, <3>3
    <2>4. ASSUME NEW x \in Conns, link'[x] = "up", pc'[x] \in {"dialed", "put", "reply"}
          PROVE  /\ req'[x].prev = cred'[req'[x].daemon]
                 /\ pc'[x] # "dialed" /\ req'[x].prev # None => reg'[x].id = req'[x].prev.id
        <3>1. CASE x = c
            BY <2>1, <3>1
        <3>2. CASE x # c
            BY <2>1, <2>4, <3>2 DEF KeptInv, OneUplink
        <3> QED BY <3>1, <3>2
    <2> QED BY <2>2, <2>3, <2>4 DEF OneUplink
<1>4. CASE \/ \E c \in Conns : RegisterFails(c) \/ Put(c)
           \/ \E c \in Conns, how \in {"half", "down"} : Drop(c, how)
    <2>1. UNCHANGED <<req, reg, cred, reconnects>>
        BY <1>4 DEF RegisterFails, Put, Drop, table
    <2>2. \A x \in Conns : /\ link'[x] = "up" => link[x] = "up"
                           /\ pc'[x] \in {"dialed", "put", "reply"} =>
                                 \/ pc[x] = pc'[x]
                                 \/ pc[x] = "put" /\ pc'[x] = "reply"
        BY <1>4 DEF RegisterFails, Put, Drop, IInv, TypeOK
    <2>3. RecordsStay'
        BY <2>1 DEF KeptInv, RecordsStay
    <2>4. OneUplink'
        BY <2>1, <2>2 DEF KeptInv, OneUplink
    <2> QED BY <2>3, <2>4
<1>5. CASE Sweeper \/ Writer \/ Tick \/ UNCHANGED vars
    <2>1. UNCHANGED <<req, reg, cred, reconnects, link, pc>>
        BY <1>5 DEF Sweeper, SweepReconnects, SweepDelete, Writer, TakeOp, Commit, Tick,
                    table, vars
    <2> QED BY <2>1 DEF KeptInv, RecordsStay, OneUplink
<1>6. CASE InsideRestarts
    <2>1. /\ UNCHANGED <<req, reg, reconnects, pc>>
          /\ \A d \in Daemons : d # Inside => cred'[d] = cred[d]
          /\ \A x \in Conns : link'[x] = "up" => link[x] = "up" /\ req[x].daemon # Inside
        BY <1>6, SMT DEF InsideRestarts, table, IInv, TypeOK
    <2>2. \A x \in Conns : link[x] = "up" => req[x].daemon \in Daemons
        BY DEF IInv, HandlerState, TypeOK, Request
    <2>3. RecordsStay'
        BY <2>1 DEF KeptInv, RecordsStay
    <2>4. OneUplink'
        BY <2>1, <2>2 DEF KeptInv, OneUplink
    <2> QED BY <2>3, <2>4
<1> QED BY <1>1, <1>2, <1>3, <1>4, <1>5, <1>6, StepsOutside
        DEF Next, Handler, Environment, Crash, Shutdown

\* What the inside broker is answered is what it held.
LEMMA ContactKeptStep ==
    ASSUME "crash" \notin Faults, IInv, KeptInv, [NextUpstream]_allVars
    PROVE  ContactKept'
<1>1. CASE Publish
    BY <1>1 DEF Publish, vars, ContactKept
<1>2. CASE InsideRestarts
    BY <1>2 DEF InsideRestarts, ContactKept
<1>3. CASE UNCHANGED tunnelContact /\ [Next]_vars
    <2>1. ASSUME NEW c \in Conns, Reply(c), tunnelContact # None
          PROVE  cred'[Inside] # None /\ cred'[Inside].id = cred[Inside].id
        <3>1. cred[Inside] # None /\ cred[Inside].id = tunnelContact
            BY <2>1 DEF KeptInv, ContactKept
        <3>2. CASE link[c] = "up" /\ req[c].daemon = Inside
            <4>1. /\ reg[c] \in Registration /\ pc[c] = "reply"
                  /\ cred'[Inside] = [id |-> reg[c].id, cookie |-> reg[c].rec.cookie]
                BY <2>1, <3>2, InsideOK DEF Reply, IInv, HandlerState, Active, TypeOK
            <4>2. reg[c].id = cred[Inside].id
                BY <3>1, <3>2, <4>1 DEF KeptInv, OneUplink
            <4>3. cred'[Inside] \in Credential /\ cred'[Inside].id = reg[c].id
                BY <4>1, SMT DEF Registration, ReconnectRecord, Credential
            <4> QED BY <4>2, <4>3, NullsOK
        <3>3. CASE ~(link[c] = "up" /\ req[c].daemon = Inside)
            BY <2>1, <3>1, <3>3, InsideOK DEF Reply, IInv, TypeOK
        <3> QED BY <3>2, <3>3
    <2>2. ASSUME \A c \in Conns : ~Reply(c) PROVE cred' = cred
        BY <1>3, <2>2 DEF Next, Handler, Environment, Crash, Shutdown, RegisterFails, Register, Put,
                          Deregister, Dial, Drop, Tick, Sweeper, SweepReconnects, SweepDelete,
                          Writer, TakeOp, Commit, vars
    <2> QED BY <1>3, <2>1, <2>2 DEF KeptInv, ContactKept
<1>4. \/ Publish \/ InsideRestarts
      \/ UNCHANGED tunnelContact /\ [Next]_vars
    BY DEF NextUpstream, Outside, watchTunnelReady, WriteTmp, NoTmp, Install, CloseReady, Stamp,
           TellMaster, allVars, inside
<1> QED BY <1>1, <1>2, <1>3, <1>4

\* WaitTunnelReady returns only once there is a contact, and the contact that
\* watchTunnelReady took once is the one the inside broker is registered under,
\* through every reconnect and lost reply: as long as the outside broker keeps its
\* records, and the inside broker's address does not change or does not matter.
THEOREM CachedContactIsCurrent ==
    ASSUME AllowAnyIP \/ \A a, b \in IPs : a = b
    PROVE  UpstreamSpec => []ContactIsCurrent
<1> DEFINE Kept == Faults = {} /\ ~Persistent => KeptInv
<1>1. InitUpstream => WatcherState /\ KeptInv
    <2> SUFFICES ASSUME InitUpstream PROVE WatcherState /\ KeptInv
        OBVIOUS
    <2>1. WatcherState /\ ContactKept
        BY DEF InitUpstream, WatcherState, ContactKept
    <2>2. RecordsStay /\ OneUplink
        BY SMT DEF InitUpstream, Init, RecordsStay, OneUplink
    <2> QED BY <2>1, <2>2, LifetimeInit DEF KeptInv, InitUpstream
<1>2. IInv /\ WatcherState /\ [NextUpstream]_allVars => WatcherState'
    BY WatcherStep
<1>3. IInv /\ Kept /\ [NextUpstream]_allVars => Kept'
    <2> SUFFICES ASSUME Faults = {}, ~Persistent, IInv, KeptInv, [NextUpstream]_allVars
                 PROVE  KeptInv'
        OBVIOUS
    <2>1. OneLifetime'
        BY LifetimeUpstream DEF KeptInv
    <2>2. RecordsStay' /\ OneUplink'
        BY RegisterKeeps, OthersKeep
    <2>3. ContactKept'
        BY ContactKeptStep
    <2> QED BY <2>1, <2>2, <2>3 DEF KeptInv
<1>4. WatcherState /\ Kept => ContactIsCurrent
    BY SMT DEF WatcherState, KeptInv, ContactKept, ContactIsCurrent
<1> QED BY <1>1, <1>2, <1>3, <1>4, OutsideInvariant, PTL DEF UpstreamSpec
=============================================================================

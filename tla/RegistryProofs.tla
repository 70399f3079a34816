--------------------------- MODULE RegistryProofs ---------------------------
(***************************************************************************)
(* Theorems about Registry, for every value of its constants: every step    *)
(* preserves the inductive invariant of RegistryInv, one lemma per action,  *)
(* and what follows from it.                                                *)
(***************************************************************************)
EXTENDS RegistryInv, FiniteSetTheorems, WellFoundedInduction, TLAPS

\* Most leaves are first-order reasoning; those that need arithmetic, sequences
\* or the values of functions cite SMT.
USE Zenon

-----------------------------------------------------------------------------
(* What a step leaves alone, it preserves. *)

\* The handlers' locals, when none is assigned and no handler becomes active.
LEMMA HandlersKept ==
    ASSUME IInv, UNCHANGED <<req, reg, cred>>,
           \A x \in Conns : /\ pc'[x] = "idle" <=> pc[x] = "idle"
                            /\ link'[x] = "none" <=> link[x] = "none"
                            /\ Active(x)' => Active(x)
    PROVE  HandlerState' /\ CookieOwners'
BY DEF IInv, HandlerState, CookieOwners

\* The tables, when no registered handler ends.
LEMMA TablesKept ==
    ASSUME IInv, UNCHANGED <<targets, reconnects, recOf, reg>>,
           \A x \in Conns : /\ Registered(x) => Registered(x)'
                            /\ pc'[x] \in {"idle", "dialed"} => pc[x] \in {"idle", "dialed"}
    PROVE  NoDanglingTarget' /\ LiveTargetHasRecord' /\ RecordOrigin'
<1>1. \A id \in Ids : /\ targets[id] # None => targets[id] \in Conns
                      /\ recOf[id] # None => recOf[id] \in Conns
    BY DEF IInv, TypeOK
<1> QED BY <1>1 DEF IInv, NoDanglingTarget, LiveTargetHasRecord, RecordOrigin

\* The store and its agreement with the records, when no Put is passed over.
LEMMA StoreKept ==
    ASSUME IInv, UNCHANGED <<nextID, reconnects, reg, stale, ops, batch, db>>,
           \A x \in Conns : /\ Active(x)' => Active(x)
                            /\ pc[x] = "put" => pc'[x] = "put"
    PROVE  IdsGivenOut' /\ CookiesAgree' /\ RecordsTracked'
BY DEF IInv, IdsGivenOut, CookiesAgree, RecordsTracked

\* Where the handlers are, when none moves.
LEMMA NoHandlerMoves ==
    ASSUME UNCHANGED pc
    PROVE  \A x \in Conns : /\ Active(x)' <=> Active(x)
                            /\ Registered(x)' <=> Registered(x)
BY DEF Active, Registered

-----------------------------------------------------------------------------
(* Daemons and time *)

\* A daemon that dials with the credential it holds: only its connection changes.
LEMMA DialStep ==
    ASSUME IInv, NEW d \in Daemons, NEW c \in Conns, NEW ip \in IPs, Dial(d, c, ip)
    PROVE  IInv'
<1> USE DEF IInv
<1>0. /\ req'[c] \in Request /\ req'[c] # None
      /\ req'[c].daemon = d /\ req'[c].prev = cred[d] /\ req[c] = None
      /\ \A x \in Conns : x # c => req'[x] = req[x] /\ pc'[x] = pc[x] /\ link'[x] = link[x]
      /\ pc[c] = "idle" /\ pc'[c] = "dialed" /\ link'[c] = "up"
      /\ UNCHANGED <<now, nextID, targets, reconnects, recOf, reg, cred, stale, ops, batch, db>>
    BY NullsOK, SMT DEF Dial, table, store, TypeOK, Request, HandlerState
<1>1. TypeOK'
    BY <1>0 DEF Dial, TypeOK, PCs, Links
<1>2. \A x \in Conns : /\ Active(x)' => Active(x) /\ x # c
                       /\ Registered(x) => Registered(x)'
                       /\ pc[x] = "put" => pc'[x] = "put"
                       /\ pc'[x] \in {"idle", "dialed"} => pc[x] \in {"idle", "dialed"}
    BY <1>0 DEF Active, Registered
<1> HIDE DEF IInv
<1>3. NoDanglingTarget' /\ LiveTargetHasRecord' /\ RecordOrigin'
    BY <1>0, <1>2, TablesKept
<1>4. IdsGivenOut' /\ CookiesAgree' /\ RecordsTracked'
    BY <1>0, <1>2, StoreKept
<1>5. HandlerState'
    BY <1>0, <1>2, SMT DEF IInv, HandlerState
<1>6. CookieOwners'
  <2>1. \A e \in Daemons : cred[e] # None => cred[e].cookie \in Conns
    BY DEF IInv, TypeOK, Credential
  <2>2. \A x \in Conns : req[x] # None /\ req[x].prev # None => req[x].prev.cookie \in Conns
    BY DEF IInv, TypeOK, Credential, Request
  <2>3. \A x \in Conns : Active(x) => reg[x].rec.cookie \in Conns
    BY DEF IInv, TypeOK, HandlerState, Registration, ReconnectRecord
  <2>4. CookieOwners
    BY DEF IInv
  <2> QED BY <1>0, <1>2, <2>1, <2>2, <2>3, <2>4, SMT DEF CookieOwners
<1> QED BY <1>1, <1>3, <1>4, <1>5, <1>6 DEF IInv

\* A connection that breaks leaves the tables to its handler.
LEMMA DropStep ==
    ASSUME IInv, NEW c \in Conns, NEW how \in {"half", "down"}, Drop(c, how)
    PROVE  IInv'
<1>1. TypeOK'
    BY DEF IInv, Drop, table, store, TypeOK, Links
<1>2. /\ UNCHANGED <<nextID, targets, reconnects, recOf, pc, req, reg, cred, stale, ops, batch, db>>
      /\ \A x \in Conns : link'[x] = "none" <=> link[x] = "none"
    BY DEF IInv, Drop, table, store, TypeOK
<1> QED BY <1>1, <1>2, NoHandlerMoves, HandlersKept, TablesKept, StoreKept DEF IInv

\* Time alone moves no state the invariant is about.
LEMMA TickStep ==
    ASSUME IInv, Tick
    PROVE  IInv'
<1>1. TypeOK'
    BY SMT DEF IInv, Tick, table, store, TypeOK
<1>2. UNCHANGED <<nextID, targets, reconnects, recOf, pc, req, reg, link, cred, stale, ops, batch, db>>
    BY DEF Tick, table, store
<1> QED BY <1>1, <1>2, NoHandlerMoves, HandlersKept, TablesKept, StoreKept DEF IInv

-----------------------------------------------------------------------------
(* A handler *)

\* A refused registration ends its handler before any table is touched.
LEMMA RegisterFailsStep ==
    ASSUME IInv, NEW c \in Conns, RegisterFails(c)
    PROVE  IInv'
<1>1. TypeOK'
    BY DEF IInv, RegisterFails, table, store, TypeOK, PCs, Links
<1>2. /\ UNCHANGED <<nextID, targets, reconnects, recOf, req, reg, cred, stale, ops, batch, db>>
      /\ \A x \in Conns : x # c => pc'[x] = pc[x] /\ link'[x] = link[x]
      /\ pc[c] = "dialed" /\ pc'[c] = "done" /\ link'[c] = "down" /\ link[c] # "none"
    BY DEF IInv, RegisterFails, table, store, TypeOK, HandlerState
<1>3. \A x \in Conns : /\ Active(x)' => Active(x)
                       /\ Registered(x) => Registered(x)'
                       /\ pc'[x] = "idle" <=> pc[x] = "idle"
                       /\ pc[x] = "put" => pc'[x] = "put"
                       /\ pc'[x] \in {"idle", "dialed"} => pc[x] \in {"idle", "dialed"}
                       /\ link'[x] = "none" <=> link[x] = "none"
    BY <1>2 DEF Active, Registered
<1> QED BY <1>1, <1>2, <1>3, HandlersKept, TablesKept, StoreKept DEF IInv

\* addTarget: a reclaimed CCBID keeps its cookie, a fresh one was never used.
LEMMA RegisterStep ==
    ASSUME IInv, NEW c \in Conns, Register(c)
    PROVE  IInv'
<1> USE DEF IInv, Register, table, store
<1> DEFINE r == req[c]
           id == reg'[c].id
           rec == reg'[c].rec
<1>a. /\ r \in Request /\ pc[c] = "dialed" /\ c \in Conns
      /\ pc' = [pc EXCEPT ![c] = IF Persistent THEN "put" ELSE "reply"]
      /\ UNCHANGED <<now, req, link, cred, stale, ops, batch, db>>
    BY DEF TypeOK, HandlerState, Request
<1>b. /\ id \in Ids /\ rec \in ReconnectRecord
      /\ rec.ip = r.ip /\ rec.updatedAt = now
      /\ targets' = [targets EXCEPT ![id] = c]
      /\ reconnects' = [reconnects EXCEPT ![id] = rec]
      /\ recOf' = [recOf EXCEPT ![id] = c]
      /\ reg' = [reg EXCEPT ![c] = [id |-> id, rec |-> rec]]
    BY <1>a, NullsOK DEF TypeOK, Request, Reclaims, ReconnectRecord
<1>c. \/ /\ Reclaims(r) /\ id = r.prev.id /\ rec.cookie = reconnects[id].cookie
         /\ reconnects[id] # None /\ rec.cookie = r.prev.cookie /\ r.prev # None
         /\ nextID' = nextID
      \/ id = nextID + 1 /\ rec.cookie = c /\ nextID' = nextID + 1
    BY <1>a, <1>b DEF TypeOK, Reclaims, FreshID
<1>d. reg'[c] = [id |-> id, rec |-> rec] /\ reg'[c] \in Registration
    BY <1>b DEF TypeOK, Registration
<1> HIDE DEF r, id, rec, Register
<1>1. TypeOK'
    BY <1>a, <1>b, <1>c, <1>d, SMT DEF TypeOK, PCs
<1>2. HandlerState'
    BY <1>a, <1>b, <1>c, <1>d, NullsOK, <1>1, SMT DEF HandlerState, Active, TypeOK
<1>3. IdsGivenOut'
  <2>1. nextID \in Nat /\ nextID <= nextID' /\ id <= nextID' /\ nextID' \in Nat
    BY <1>a, <1>b, <1>c, SMT DEF TypeOK, IdsGivenOut
  <2>2. \A n \in Int : n <= nextID => n <= nextID'
    BY <2>1, SMT
  <2>3. \A x \in Conns : Active(x) => reg[x].id \in Int
    BY ConstantsOK, SMT DEF TypeOK, HandlerState, Registration, Ids
  <2>4. \A k \in 1..Len(ops) : ops[k].id \in Int
    <3>1. \A k \in 1..Len(ops) : ops[k] \in StoreOp
      BY SMT DEF TypeOK
    <3> QED BY <3>1, ConstantsOK, SMT DEF StoreOp, Ids
  <2>5. Ids \subseteq Int
    BY ConstantsOK, SMT DEF Ids
  <2>6. \A x \in Conns : x # c => reg'[x] = reg[x] /\ (Active(x)' <=> Active(x))
    BY <1>a, <1>b DEF TypeOK, Active
  <2>7. \A i \in Ids : i # id => reconnects'[i] = reconnects[i]
    BY <1>b DEF TypeOK
  <2>8. \A i \in Ids : /\ reconnects'[i] # None => i <= nextID'
                       /\ batch[i] # NoOp => i <= nextID'
                       /\ db[i] # None => i <= nextID'
                       /\ i \in stale => i <= nextID'
    BY <2>1, <2>2, <2>5, <2>7 DEF IdsGivenOut
  <2>9. \A k \in 1..Len(ops) : ops[k].id <= nextID'
    BY <2>2, <2>4 DEF IdsGivenOut
  <2>10. \A x \in Conns : Active(x)' => reg'[x].id <= nextID'
    BY <2>1, <2>2, <2>3, <2>6 DEF IdsGivenOut, id
  <2> QED BY <1>a, <2>8, <2>9, <2>10 DEF IdsGivenOut
<1>4. NoDanglingTarget'
    BY <1>a, <1>b, <1>c, <1>d, NullsOK, <1>1, SMTT(30) DEF HandlerState, NoDanglingTarget, Registered, TypeOK
<1>5. LiveTargetHasRecord'
    BY <1>a, <1>b, <1>c, <1>d, NullsOK, <1>1 DEF LiveTargetHasRecord, TypeOK
<1>6. CookiesAgree'
  <2> SUFFICES ASSUME NEW i \in Ids, reconnects'[i] # None
               PROVE  /\ i \notin stale
                      /\ db[i] # None => db[i].cookie = reconnects'[i].cookie
                      /\ batch[i] # NoOp =>
                            batch[i] # None /\ batch[i].cookie = reconnects'[i].cookie
                      /\ \A k \in 1..Len(ops) : ops[k].id = i =>
                            ops[k].rec # None /\ ops[k].rec.cookie = reconnects'[i].cookie
                      /\ \A x \in Conns : Active(x)' /\ reg'[x].id = i =>
                            reg'[x].rec.cookie = reconnects'[i].cookie
    BY <1>a DEF CookiesAgree
  <2>1. \A x \in Conns : x # c => reg'[x] = reg[x] /\ (Active(x)' <=> Active(x))
    BY <1>a, <1>b DEF TypeOK, Active
  <2>2. CASE i # id
    <3>1. reconnects'[i] = reconnects[i]
      BY <1>b, <2>2 DEF TypeOK
    <3>2. \A x \in Conns : Active(x)' /\ reg'[x].id = i => x # c
      BY <2>2 DEF id
    <3>3. /\ i \notin stale
          /\ db[i] # None => db[i].cookie = reconnects[i].cookie
          /\ batch[i] # NoOp => batch[i] # None /\ batch[i].cookie = reconnects[i].cookie
          /\ \A k \in 1..Len(ops) : ops[k].id = i =>
                ops[k].rec # None /\ ops[k].rec.cookie = reconnects[i].cookie
          /\ \A x \in Conns : Active(x) /\ reg[x].id = i =>
                reg[x].rec.cookie = reconnects[i].cookie
      BY <3>1 DEF CookiesAgree
    <3> HIDE DEF IInv, table, store
    <3> QED BY <2>1, <3>1, <3>2, <3>3
  <2>3. CASE i = id /\ reconnects[id] # None
    <3>1. reconnects'[i] = rec
      BY <1>b, <2>3 DEF TypeOK
    <3>2. rec.cookie = reconnects[i].cookie
      BY <1>c, <2>3, SMT DEF TypeOK, IdsGivenOut
    <3>3. /\ i \notin stale
          /\ db[i] # None => db[i].cookie = reconnects[i].cookie
          /\ batch[i] # NoOp => batch[i] # None /\ batch[i].cookie = reconnects[i].cookie
          /\ \A k \in 1..Len(ops) : ops[k].id = i =>
                ops[k].rec # None /\ ops[k].rec.cookie = reconnects[i].cookie
          /\ \A x \in Conns : Active(x) /\ reg[x].id = i =>
                reg[x].rec.cookie = reconnects[i].cookie
      BY <2>3 DEF CookiesAgree
    <3> HIDE DEF IInv, table, store
    <3> QED BY <2>1, <2>3, <3>1, <3>2, <3>3 DEF rec
  <2>4. CASE i = id /\ id = nextID + 1
    <3>1. reconnects'[i] = rec
      BY <1>b, <2>4 DEF TypeOK
    <3>2. ~(i <= nextID)
      BY <2>4, SMT DEF TypeOK
    <3> QED BY <2>1, <3>1, <3>2, NullsOK DEF IdsGivenOut, rec
  <2> QED BY <1>c, <2>2, <2>3, <2>4
<1>7. RecordOrigin'
  <2> SUFFICES ASSUME NEW i \in Ids, recOf'[i] # None
               PROVE  /\ reg'[recOf'[i]] # None /\ reg'[recOf'[i]].id = i
                      /\ pc'[recOf'[i]] \notin {"idle", "dialed"}
    BY DEF RecordOrigin
  <2>1. CASE i = id
    <3>1. recOf'[i] = c /\ pc'[c] \in {"put", "reply"}
      BY <1>a, <1>b, <2>1 DEF TypeOK
    <3>2. reg'[c] # None /\ reg'[c].id = id
      BY <1>d, NullsOK, SMT
    <3> QED BY <2>1, <3>1, <3>2
  <2>2. CASE i # id
    <3>1. recOf'[i] = recOf[i] /\ recOf[i] \in Conns
      BY <1>b, <2>2 DEF TypeOK
    <3>2. recOf[i] # c
      BY <1>a, <3>1 DEF RecordOrigin
    <3>3. reg'[recOf[i]] = reg[recOf[i]] /\ pc'[recOf[i]] = pc[recOf[i]]
      BY <1>a, <1>b, <3>1, <3>2 DEF TypeOK
    <3> QED BY <3>1, <3>3 DEF RecordOrigin
  <2> QED BY <2>1, <2>2
<1>8. RecordsTracked'
  <2> SUFFICES ASSUME Persistent, "commit" \notin Faults, NEW i \in Ids, reconnects'[i] # None
               PROVE  \/ db[i] # None
                      \/ batch[i] # NoOp
                      \/ \E j \in 1..Len(ops) : ops[j].id = i
                      \/ \E x \in Conns : pc'[x] = "put" /\ reg'[x].id = i
    BY <1>a DEF RecordsTracked
  <2>1. CASE i = id
    <3>1. pc'[c] = "put" /\ reg'[c].id = i
      BY <1>a, <1>d, <2>1, SMT DEF TypeOK
    <3> QED BY <3>1
  <2>2. CASE i # id
    <3>1. reconnects[i] # None
      BY <1>b, <2>2 DEF TypeOK
    <3>2. \A x \in Conns : pc[x] = "put" => pc'[x] = "put" /\ reg'[x] = reg[x]
      BY <1>a, <1>b DEF TypeOK
    <3> QED BY <3>1, <3>2 DEF RecordsTracked
  <2> QED BY <2>1, <2>2
<1>9. CookieOwners'
  <2>1. \A x \in Conns : x # c => reg'[x] = reg[x] /\ (Active(x)' <=> Active(x))
    BY <1>a, <1>b DEF TypeOK, Active
  <2>2. req[c] # None
    BY <1>a, NullsOK DEF r
  <2>3. req[rec.cookie] # None /\ req[rec.cookie].daemon = req[c].daemon
    BY <1>c, <2>2 DEF CookieOwners, r
  <2> QED BY <1>a, <2>1, <2>3 DEF CookieOwners, rec
<1> QED BY <1>1, <1>2, <1>3, <1>4, <1>5, <1>6, <1>7, <1>8, <1>9

\* Queueing the record: it has the cookie of the table's record, if there is one.
LEMMA PutStep ==
    ASSUME IInv, NEW c \in Conns, Put(c)
    PROVE  IInv'
<1> USE DEF IInv
<1>0. /\ reg[c] \in Registration /\ Active(c) /\ reg[c] \in StoreOp /\ reg[c].rec # None
      /\ UNCHANGED <<now, nextID, targets, reconnects, recOf, req, reg, link, cred, stale, batch, db>>
      /\ \A x \in Conns : x # c => pc'[x] = pc[x]
      /\ pc[c] \in {"put", "removePut"}
      /\ pc'[c] = IF pc[c] = "put" THEN "reply" ELSE "done"
    BY NullsOK DEF Put, table, store, TypeOK, HandlerState, Active, Registration, StoreOp
<1>1. /\ Len(ops') = Len(ops) + 1 /\ Len(ops) \in Nat
      /\ ops' \in Seq(StoreOp)
      /\ \A k \in 1..Len(ops') : ops'[k] = IF k <= Len(ops) THEN ops[k] ELSE reg[c]
    BY <1>0, SMT DEF Put, TypeOK
<1>2. TypeOK'
    BY <1>0, <1>1 DEF Put, TypeOK, PCs
<1>3. \A x \in Conns : /\ Active(x)' => Active(x)
                       /\ Registered(x) => Registered(x)'
                       /\ pc'[x] = "idle" <=> pc[x] = "idle"
                       /\ pc'[x] \in {"idle", "dialed"} => pc[x] \in {"idle", "dialed"}
    BY <1>0 DEF Active, Registered
<1> HIDE DEF IInv
<1>4. HandlerState' /\ CookieOwners' /\ NoDanglingTarget' /\ LiveTargetHasRecord' /\ RecordOrigin'
    BY <1>0, <1>3, HandlersKept, TablesKept
<1>5. IdsGivenOut'
    BY <1>0, <1>1, <1>3, SMT DEF IInv, IdsGivenOut
<1>6. CookiesAgree'
    BY <1>0, <1>1, <1>3, SMT DEF IInv, CookiesAgree
<1>7. RecordsTracked'
  <2>1. \A k \in 1..Len(ops) : k \in 1..Len(ops') /\ ops'[k] = ops[k]
    BY <1>1, SMT
  <2>2. Len(ops') \in 1..Len(ops') /\ ops'[Len(ops')] = reg[c]
    BY <1>1, SMT
  <2> QED BY <1>0, <2>1, <2>2, SMT DEF IInv, RecordsTracked
<1> QED BY <1>2, <1>4, <1>5, <1>6, <1>7 DEF IInv

\* The reply hands the daemon the cookie generated for it.
LEMMA ReplyStep ==
    ASSUME IInv, NEW c \in Conns, Reply(c)
    PROVE  IInv'
<1> USE DEF IInv
<1>0. /\ req[c] \in Request /\ reg[c] \in Registration
      /\ [id |-> reg[c].id, cookie |-> reg[c].rec.cookie] \in Credential
    BY DEF Reply, TypeOK, HandlerState, Active, Request, Registration, Credential, ReconnectRecord
<1>1. TypeOK'
    BY <1>0 DEF Reply, table, store, TypeOK, PCs, Request
<1>2. /\ \A x \in Conns : x # c => pc'[x] = pc[x]
      /\ pc[c] = "reply" /\ pc'[c] = "serving"
      /\ UNCHANGED <<nextID, targets, reconnects, recOf, req, reg, link, stale, ops, batch, db>>
    BY DEF Reply, table, store, TypeOK
<1>3. \A x \in Conns : /\ Active(x)' <=> Active(x)
                       /\ Registered(x) => Registered(x)'
                       /\ pc[x] = "put" => pc'[x] = "put"
                       /\ pc'[x] = "idle" <=> pc[x] = "idle"
                       /\ pc'[x] \in {"idle", "dialed"} => pc[x] \in {"idle", "dialed"}
    BY <1>2 DEF Active, Registered
<1>4. Active(c) /\ \A d \in Daemons : \/ cred'[d] = cred[d]
                                     \/ /\ d = req[c].daemon
                                        /\ cred'[d].cookie = reg[c].rec.cookie
    BY DEF Reply, Active, TypeOK
<1> HIDE DEF IInv
<1>5. NoDanglingTarget' /\ LiveTargetHasRecord' /\ RecordOrigin'
    BY <1>2, <1>3, TablesKept
<1>6. IdsGivenOut' /\ CookiesAgree' /\ RecordsTracked'
    BY <1>2, <1>3, StoreKept
<1>7. HandlerState'
    BY <1>2, <1>3 DEF IInv, HandlerState
<1>8. CookieOwners'
    BY <1>2, <1>3, <1>4 DEF IInv, CookieOwners
<1> QED BY <1>1, <1>5, <1>6, <1>7, <1>8 DEF IInv

\* removeTarget: a handler of an older connection leaves the newer target alone.
LEMMA DeregisterStep ==
    ASSUME IInv, NEW c \in Conns, Deregister(c)
    PROVE  IInv'
<1> USE DEF IInv, Deregister, table, store
<1> DEFINE id == reg[c].id
           stamped == [reconnects[id] EXCEPT !.updatedAt = now]
           touched == {x \in Conns : x = c \/ (x = recOf[id] /\ pc[x] = "put")}
           row == [id |-> id, rec |-> stamped]
<1>a. /\ pc[c] \in {"reply", "serving"} /\ id \in Ids
      /\ targets' = [targets EXCEPT ![id] = None]
      /\ pc'[c] \in {"removePut", "done"} /\ pc' = [pc EXCEPT ![c] = pc'[c]]
      /\ link' = [link EXCEPT ![c] = "down"]
      /\ UNCHANGED <<now, nextID, recOf, req, cred, stale, ops, batch, db>>
    BY DEF ServeEnds, ReplyFails, removeTarget, TypeOK, HandlerState, Active, Registration
<1>b. \/ /\ reconnects[id] = None
         /\ reconnects' = reconnects /\ reg' = reg /\ pc'[c] = "done"
      \/ /\ reconnects[id] # None
         /\ reconnects' = [reconnects EXCEPT ![id] = stamped]
         /\ reg' = [x \in Conns |-> IF x \in touched THEN row ELSE reg[x]]
    BY <1>a DEF removeTarget, TypeOK
<1>c. reconnects[id] # None => /\ stamped \in ReconnectRecord
                               /\ stamped.cookie = reconnects[id].cookie
                               /\ row \in Registration
  <2>1. reconnects[id] # None => reconnects[id] \in ReconnectRecord
    BY <1>a DEF TypeOK
  <2>2. reconnects[id] # None => /\ stamped \in ReconnectRecord
                                 /\ stamped.cookie = reconnects[id].cookie
    BY <2>1 DEF TypeOK, ReconnectRecord
  <2> HIDE DEF stamped, id
  <2> QED BY <1>a, <2>2 DEF Registration
<1>d. \A x \in touched : reg[x] # None /\ reg[x].id = id /\ pc[x] \in {"put", "reply", "serving"}
  <2>1. c \in touched /\ reg[c] # None
    BY <1>a DEF HandlerState, Active
  <2>2. \A x \in touched : x # c => x \in Conns /\ x = recOf[id] /\ pc[x] = "put" /\ x # None
    BY ConstantsOK
  <2>3. \A x \in touched : x # c => reg[x] # None /\ reg[x].id = id
    BY <1>a, <2>2 DEF RecordOrigin
  <2> QED BY <1>a, <2>1, <2>2, <2>3
<1>e. row.id = id /\ row.rec = stamped /\ c \in touched /\ touched \subseteq Conns
    OBVIOUS
<1>f. \A x \in Conns : Active(x)' => Active(x)
    BY <1>a DEF Active, TypeOK
<1>g. /\ \A x \in Conns : x # c => pc'[x] = pc[x] /\ link'[x] = link[x]
      /\ link'[c] = "down" /\ pc[c] # "idle" /\ pc'[c] # "idle"
      /\ \A i \in Ids : i # id => targets'[i] = targets[i]
      /\ targets'[id] = None
    BY <1>a DEF TypeOK
<1> HIDE DEF id, stamped, touched, row, Deregister
<1>h. \A x \in Conns : /\ reg'[x] # None <=> reg[x] # None
                       /\ reg[x] # None => reg'[x].id = reg[x].id
  <2>1. reconnects[id] # None => row # None
    BY <1>c, NullsOK
  <2> QED BY <1>b, <1>d, <1>e, <2>1
<1>i. \A i \in Ids : /\ reconnects'[i] # None <=> reconnects[i] # None
                     /\ reconnects[i] # None => reconnects'[i].cookie = reconnects[i].cookie
  <2>1. reconnects[id] # None => stamped # None
    BY <1>c, NullsOK
  <2> QED BY <1>a, <1>b, <1>c, <2>1 DEF TypeOK
<1>j. \A x \in Conns : Active(x) => reg'[x].rec.cookie = reg[x].rec.cookie
  <2> SUFFICES ASSUME NEW x \in Conns, Active(x), x \in touched, reconnects[id] # None
               PROVE  stamped.cookie = reg[x].rec.cookie
    BY <1>b, <1>e
  <2> QED BY <1>a, <1>c, <1>d DEF CookiesAgree
<1>1. TypeOK'
    BY <1>a, <1>b, <1>c, SMT DEF TypeOK, PCs, Links
<1>2. HandlerState'
  <2>1. HandlerState /\ UNCHANGED req
    BY <1>a
  <2> HIDE DEF IInv, table, store
  <2> QED BY <1>f, <1>g, <1>h, <2>1 DEF HandlerState
<1>3. IdsGivenOut'
  <2>1. \A x \in Conns : Active(x) => reg'[x].id = reg[x].id
    BY <1>h DEF HandlerState
  <2> QED BY <1>a, <1>f, <1>i, <2>1 DEF IdsGivenOut
<1>4. NoDanglingTarget'
  <2> SUFFICES ASSUME NEW i \in Ids, targets'[i] # None
               PROVE  /\ pc'[targets'[i]] \in {"put", "reply", "serving"}
                      /\ reg'[targets'[i]].id = i
    BY DEF NoDanglingTarget, Registered
  <2>1. i # id /\ targets'[i] = targets[i] /\ targets[i] \in Conns
    BY <1>g DEF TypeOK
  <2>2. reg[targets[i]].id = i /\ Registered(targets[i])
    BY <2>1 DEF NoDanglingTarget
  <2>3. targets[i] # c
    BY <2>1, <2>2 DEF id
  <2>4. reg[targets[i]] # None
    BY <2>1, <2>2 DEF HandlerState, Registered, Active
  <2> QED BY <1>g, <1>h, <2>1, <2>2, <2>3, <2>4 DEF Registered
<1>5. LiveTargetHasRecord'
    BY <1>g, <1>i DEF LiveTargetHasRecord
<1>6. CookiesAgree'
  <2>1. \A x \in Conns : Active(x) => reg'[x].id = reg[x].id
    BY <1>h DEF HandlerState
  <2>2. CookiesAgree /\ UNCHANGED <<stale, ops, batch, db>>
    BY <1>a
  <2> HIDE DEF IInv, table, store
  <2> QED BY <1>f, <1>i, <1>j, <2>1, <2>2, SMT DEF CookiesAgree
<1>7. RecordOrigin'
    <2> SUFFICES ASSUME NEW i \in Ids, recOf[i] # None
                 PROVE  /\ reg'[recOf[i]] # None /\ reg'[recOf[i]].id = i
                        /\ pc'[recOf[i]] \notin {"idle", "dialed"}
      BY <1>a DEF RecordOrigin
    <2>1. recOf[i] \in Conns
      BY DEF TypeOK
    <2> QED BY <1>a, <1>g, <1>h, <2>1 DEF RecordOrigin
<1>8. RecordsTracked'
  <2> SUFFICES ASSUME Persistent, "commit" \notin Faults,
                      NEW i \in Ids, reconnects[i] # None
               PROVE  \/ db[i] # None
                      \/ batch[i] # NoOp
                      \/ \E k \in 1..Len(ops) : ops[k].id = i
                      \/ \E x \in Conns : pc'[x] = "put" /\ reg'[x].id = i
    BY <1>a, <1>i DEF RecordsTracked
  <2>1. \A x \in Conns : pc[x] = "put" => pc'[x] = "put" /\ reg'[x].id = reg[x].id
    BY <1>a, <1>g, <1>h DEF HandlerState, Active
  <2> QED BY <2>1 DEF RecordsTracked
<1>9. CookieOwners'
    BY <1>a, <1>f, <1>j DEF CookieOwners
<1> QED BY <1>1, <1>2, <1>3, <1>4, <1>5, <1>6, <1>7, <1>8, <1>9

-----------------------------------------------------------------------------
(* The sweep, the store writer and a restart *)

\* Rounding to whole seconds yields a time.
LEMMA UnixType == ASSUME NEW t \in Nat PROVE Unix(t) \in Nat
<1>1. t % SecTicks \in 0..(SecTicks - 1)
    BY ConstantsOK, SMT
<1>2. t % SecTicks <= t
    BY ConstantsOK, SMT
<1> QED BY <1>1, <1>2, SMT DEF Unix

\* A row keeps the cookie of the record it was made from.
LEMMA SealedType ==
    ASSUME NEW rec \in ReconnectRecord
    PROVE  SealedRow(rec) \in ReconnectRecord /\ SealedRow(rec).cookie = rec.cookie
BY UnixType DEF SealedRow, ReconnectRecord

\* Committing a batch yields rows again.
LEMMA AppliedType ==
    ASSUME NEW b \in [Ids -> ReconnectRecord \cup {None, NoOp}],
           NEW rows \in [Ids -> ReconnectRecord \cup {None}]
    PROVE  Applied(b, rows) \in [Ids -> ReconnectRecord \cup {None}]
BY SealedType, NullsOK DEF Applied

\* The sweep drops only records without a target.
LEMMA SweepReconnectsStep ==
    ASSUME IInv, SweepReconnects
    PROVE  IInv'
<1> USE DEF IInv
<1>1. TypeOK'
    BY DEF SweepReconnects, TypeOK, store
<1>2. /\ UNCHANGED <<nextID, targets, pc, req, reg, link, cred, ops, batch, db>>
      /\ \A id \in Ids : /\ reconnects'[id] # None => /\ reconnects'[id] = reconnects[id]
                                                      /\ id \notin stale'
                         /\ recOf'[id] # None => recOf'[id] = recOf[id]
                         /\ targets[id] # None => reconnects'[id] = reconnects[id]
                         /\ id \in stale' => reconnects[id] # None
    BY DEF SweepReconnects, Expired, TypeOK, store
<1> HIDE DEF IInv
<1>3. HandlerState' /\ CookieOwners'
    BY <1>2, NoHandlerMoves, HandlersKept
<1>4. IdsGivenOut'
    BY <1>2, NoHandlerMoves DEF IInv, IdsGivenOut
<1>5. CookiesAgree'
    BY <1>2, NoHandlerMoves, SMT DEF IInv, CookiesAgree
<1>6. RecordsTracked'
    BY <1>2 DEF IInv, RecordsTracked
<1>7. NoDanglingTarget' /\ LiveTargetHasRecord'
    BY <1>2 DEF IInv, NoDanglingTarget, Registered, LiveTargetHasRecord
<1>8. RecordOrigin'
    BY <1>2 DEF IInv, RecordOrigin
<1> QED BY <1>1, <1>3, <1>4, <1>5, <1>6, <1>7, <1>8 DEF IInv

\* Queueing the deletion of a swept CCBID, which has no record any more.
LEMMA SweepDeleteStep ==
    ASSUME IInv, NEW id \in Ids, SweepDelete(id)
    PROVE  IInv'
<1> USE DEF IInv
<1>1. /\ Len(ops') = Len(ops) + 1 /\ Len(ops) \in Nat
      /\ ops' \in Seq(StoreOp)
      /\ \A k \in 1..Len(ops) : k \in 1..Len(ops') /\ ops'[k] = ops[k]
      /\ \A k \in 1..Len(ops') : k \in 1..Len(ops) \/ ops'[k].id = id
    BY SMT DEF SweepDelete, TypeOK, StoreOp
<1>2. /\ UNCHANGED <<nextID, targets, reconnects, recOf, pc, req, reg, link, cred, batch, db>>
      /\ id \in stale /\ stale' \subseteq stale
    BY DEF SweepDelete, table
<1>3. TypeOK'
    BY <1>1 DEF SweepDelete, table, TypeOK
<1> HIDE DEF IInv
<1>4. HandlerState' /\ CookieOwners' /\ NoDanglingTarget' /\ LiveTargetHasRecord' /\ RecordOrigin'
    BY <1>2, NoHandlerMoves, HandlersKept, TablesKept
<1>5. IdsGivenOut' /\ CookiesAgree' /\ RecordsTracked'
    BY <1>1, <1>2, NoHandlerMoves, SMT DEF IInv, IdsGivenOut, CookiesAgree, RecordsTracked
<1> QED BY <1>3, <1>4, <1>5 DEF IInv

\* The writer moves the first queued operation into the batch.
LEMMA TakeOpStep ==
    ASSUME IInv, TakeOp
    PROVE  IInv'
<1> USE DEF IInv
<1> DEFINE op == Head(ops)
<1>1. /\ op \in StoreOp /\ op = ops[1] /\ 1 \in 1..Len(ops)
      /\ ops' \in Seq(StoreOp)
      /\ \A k \in 1..Len(ops') : k + 1 \in 1..Len(ops) /\ ops'[k] = ops[k + 1]
      /\ \A k \in 1..Len(ops) : k = 1 \/ (k - 1 \in 1..Len(ops') /\ ops'[k - 1] = ops[k])
      /\ batch' = [batch EXCEPT ![op.id] = op.rec]
    BY SMT DEF TakeOp, Coalesce, TypeOK
<1>2. UNCHANGED <<now, nextID, targets, reconnects, recOf, pc, req, reg, link, cred, stale, db>>
    BY DEF TakeOp, table
<1> HIDE DEF op
<1>3. TypeOK'
    BY <1>1, <1>2 DEF TypeOK, StoreOp
<1>4. /\ op.id \in Ids /\ batch'[op.id] = op.rec /\ op.rec # NoOp
      /\ \A id \in Ids : id # op.id => batch'[id] = batch[id]
    BY <1>1, NullsOK DEF TypeOK, StoreOp
<1> HIDE DEF IInv
<1>5. HandlerState' /\ CookieOwners' /\ NoDanglingTarget' /\ LiveTargetHasRecord' /\ RecordOrigin'
    BY <1>2, NoHandlerMoves, HandlersKept, TablesKept
<1>6. IdsGivenOut'
    BY <1>1, <1>2, <1>4, NoHandlerMoves DEF IInv, IdsGivenOut
<1>7. CookiesAgree'
  <2>1. \A k \in 1..Len(ops') : \E j \in 1..Len(ops) : ops'[k] = ops[j]
    BY <1>1
  <2>2. \A id \in Ids : \/ batch'[id] = batch[id]
                        \/ \E j \in 1..Len(ops) : ops[j].id = id /\ batch'[id] = ops[j].rec
    BY <1>1, <1>4
  <2>3. CookiesAgree /\ \A x \in Conns : Active(x)' <=> Active(x)
    BY <1>2, NoHandlerMoves DEF IInv
  <2> QED BY <1>2, <2>1, <2>2, <2>3, SMT DEF CookiesAgree
<1>8. RecordsTracked'
  <2>1. \A id \in Ids : batch[id] # NoOp => batch'[id] # NoOp
    BY <1>4
  <2>2. \A k \in 1..Len(ops) : batch'[ops[k].id] # NoOp \/ \E j \in 1..Len(ops') : ops'[j] = ops[k]
    BY <1>1, <1>4
  <2>3. RecordsTracked
    BY DEF IInv
  <2> QED BY <1>2, <2>1, <2>2, <2>3, SMT DEF RecordsTracked
<1> QED BY <1>3, <1>5, <1>6, <1>7, <1>8 DEF IInv

\* A commit, or one that is rolled back, loses no record that is tracked.
LEMMA CommitStep ==
    ASSUME IInv, Commit
    PROVE  IInv'
<1> USE DEF IInv
<1>1. /\ UNCHANGED <<now, nextID, targets, reconnects, recOf, pc, req, reg, link, cred, stale, ops>>
      /\ \A id \in Ids : batch'[id] = NoOp
    BY DEF Commit, table, EmptyBatch
<1>2. TypeOK'
    BY AppliedType, NullsOK DEF Commit, table, TypeOK, EmptyBatch
<1>3. \/ \A id \in Ids :
            /\ batch[id] = NoOp => db'[id] = db[id]
            /\ batch[id] # NoOp /\ batch[id] # None =>
                  db'[id] # None /\ db'[id].cookie = batch[id].cookie
            /\ batch[id] = None => db'[id] = None
      \/ "commit" \in Faults /\ db' = db
    BY SealedType, NullsOK, SMT DEF Commit, Applied, TypeOK
<1> HIDE DEF IInv
<1>4. HandlerState' /\ CookieOwners' /\ NoDanglingTarget' /\ LiveTargetHasRecord' /\ RecordOrigin'
    BY <1>1, NoHandlerMoves, HandlersKept, TablesKept
<1>5. IdsGivenOut' /\ CookiesAgree' /\ RecordsTracked'
    BY <1>1, <1>3, NoHandlerMoves, SMT DEF IInv, IdsGivenOut, CookiesAgree, RecordsTracked
<1> QED BY <1>2, <1>4, <1>5 DEF IInv

\* Whatever rows the next process finds, it starts in the invariant.
LEMMA RestartStep ==
    ASSUME IInv, ProcessGone,
           NEW rows \in [Ids -> ReconnectRecord \cup {None}], loadReconnects(rows)
    PROVE  IInv'
<1> USE DEF IInv, ProcessGone, table, store
<1>1. /\ db' \in [Ids -> ReconnectRecord \cup {None}]
      /\ reconnects' = db' /\ nextID' \in Nat
      /\ \A id \in Ids : db'[id] # None => id <= nextID'
  <2>1. PICK kept \in SUBSET {id \in Ids : rows[id] # None} :
          \E maxID \in {0} \cup kept :
            /\ \A id \in kept : id <= maxID
            /\ nextID' = RestartID(maxID)
            /\ db' = [id \in Ids |-> IF id \in kept THEN rows[id] ELSE None]
            /\ reconnects' = db'
    BY DEF loadReconnects
  <2>2. PICK maxID \in {0} \cup kept :
            /\ \A id \in kept : id <= maxID
            /\ nextID' = RestartID(maxID)
            /\ db' = [id \in Ids |-> IF id \in kept THEN rows[id] ELSE None]
            /\ reconnects' = db'
    BY <2>1
  <2>3. maxID \in Nat /\ nextID' \in Nat /\ maxID <= nextID'
    BY <2>2, ConstantsOK, SMT DEF RestartID, Ids
  <2>4. \A id \in Ids : db'[id] # None => id \in kept
    BY <2>2
  <2>5. \A id \in kept : id \in Nat /\ id <= nextID'
    BY <2>2, <2>3, ConstantsOK, SMT DEF Ids
  <2> QED BY <2>2, <2>3, <2>4, <2>5
<1>2. \A c \in Conns : ~Active(c)' /\ ~Registered(c)'
    BY DEF Active, Registered
<1>3. TypeOK'
    BY <1>1, SMT DEF TypeOK, EmptyBatch, PCs, Links
<1>4. HandlerState'
    BY <1>2 DEF HandlerState, Active, TypeOK
<1>5. IdsGivenOut' /\ CookiesAgree' /\ RecordsTracked'
  <2>1. /\ stale' = {} /\ 1..Len(ops') = {}
        /\ \A id \in Ids : batch'[id] = NoOp
    BY SMT DEF EmptyBatch
  <2> HIDE DEF IInv, ProcessGone, table, store
  <2>2. IdsGivenOut'
    BY <1>1, <1>2, <2>1 DEF IdsGivenOut
  <2>3. CookiesAgree'
    BY <1>1, <1>2, <2>1 DEF CookiesAgree
  <2>4. RecordsTracked'
    BY <1>1 DEF RecordsTracked
  <2> QED BY <2>2, <2>3, <2>4
<1>6. NoDanglingTarget' /\ LiveTargetHasRecord' /\ RecordOrigin'
    BY <1>1 DEF NoDanglingTarget, LiveTargetHasRecord, RecordOrigin
<1>7. CookieOwners'
    BY <1>2 DEF CookieOwners, Active
<1> QED BY <1>3, <1>4, <1>5, <1>6, <1>7

-----------------------------------------------------------------------------
(* What Close commits *)

\* A non-empty set of numbers up to n has its maximum: the numbers above k, for
\* k in the set, have a smallest one in the well-founded subset ordering.
LEMMA MaxOfSome ==
    ASSUME NEW n \in Nat, NEW S \in SUBSET (1..n), S # {}
    PROVE  Max(S) \in S /\ \A y \in S : Max(S) >= y
<1> DEFINE Above(k) == {j \in S : j > k}
           All == {Above(k) : k \in S}
<1>1. IsFiniteSet(S)
    <2>1. IsFiniteSet(1..n)
        BY FS_Interval, SMT
    <2> QED BY <2>1, FS_Subset
<1>2. IsWellFoundedOn(StrictSubsetOrdering(S), SUBSET S)
    BY <1>1, FS_StrictSubsetOrderingWellFounded, FS_FiniteSubsetsOfFinite
<1>3. All \subseteq SUBSET S /\ All # {}
    OBVIOUS
<1>4. PICK A \in All : \A B \in All : ~ (<<B, A>> \in StrictSubsetOrdering(S))
    <2> HIDE DEF All
    <2> QED BY <1>2, <1>3, WFMin
<1>5. PICK k \in S : A = Above(k)
    BY <1>4
<1>6. \A y \in S : k >= y
    <2> SUFFICES ASSUME NEW y \in S, y > k PROVE FALSE
        BY SMT
    <2>1. Above(y) \subseteq A /\ y \in A /\ y \notin Above(y)
        <3>1. S \subseteq Int
            BY SMT
        <3>2. \A j \in Above(y) : j \in Above(k)
            BY <3>1, SMT
        <3>3. y \in Above(k) /\ y \notin Above(y)
            BY <3>1, SMT
        <3> HIDE DEF Above
        <3> QED BY <1>5, <3>2, <3>3
    <2>2. Above(y) \in All /\ A \in SUBSET S /\ Above(y) \in SUBSET S
        BY <1>3
    <2> QED BY <1>4, <2>1, <2>2 DEF StrictSubsetOrdering
<1> QED BY <1>6 DEF Max

\* What is pending for a CCBID when the channel is drained is its last queued
\* operation, or else what the batch holds.
LEMMA DrainedIs ==
    ASSUME TypeOK, NEW id \in Ids
    PROVE  \/ /\ \A k \in 1..Len(ops) : ops[k].id # id
              /\ Drained[id] = batch[id]
           \/ \E k \in 1..Len(ops) : ops[k].id = id /\ Drained[id] = ops[k].rec
<1> DEFINE mine == {k \in 1..Len(ops) : ops[k].id = id}
<1>1. Len(ops) \in Nat
    BY SMT DEF TypeOK
<1>2. Drained[id] = IF mine = {} THEN batch[id] ELSE ops[Max(mine)].rec
    BY DEF Drained
<1>3. mine # {} => Max(mine) \in mine
  <2>1. mine \in SUBSET (1..Len(ops))
    OBVIOUS
  <2> HIDE DEF mine
  <2> QED BY <1>1, <2>1, MaxOfSome
<1> QED BY <1>2, <1>3

\* The drained batch has the type of a batch.
LEMMA DrainedType ==
    ASSUME TypeOK
    PROVE  Drained \in [Ids -> ReconnectRecord \cup {None, NoOp}]
<1>1. \A k \in 1..Len(ops) : ops[k].rec \in ReconnectRecord \cup {None}
  <2>1. \A k \in 1..Len(ops) : ops[k] \in StoreOp
    BY SMT DEF TypeOK
  <2> QED BY <2>1 DEF StoreOp
<1>2. \A id \in Ids : Drained[id] \in ReconnectRecord \cup {None, NoOp}
    BY <1>1, DrainedIs DEF TypeOK
<1>3. Drained = [id \in Ids |-> Drained[id]]
    BY DEF Drained
<1> QED BY <1>2, <1>3

\* The rows an orderly shutdown leaves agree with the records on the cookie, and
\* hold every record that no handler has yet to Put.
LEMMA ShutdownRows ==
    ASSUME IInv, NEW id \in Ids, reconnects[id] # None
    PROVE  /\ Applied(Drained, db)[id] # None =>
                Applied(Drained, db)[id].cookie = reconnects[id].cookie
           /\ /\ Persistent /\ "commit" \notin Faults
              /\ \A c \in Conns : pc[c] = "put" => reg[c].id # id
              => Applied(Drained, db)[id] # None
<1> USE DEF IInv
<1>1. Drained[id] # NoOp =>
        /\ Drained[id] \in ReconnectRecord
        /\ Drained[id].cookie = reconnects[id].cookie
  <2>1. Drained[id] \in ReconnectRecord \cup {None, NoOp}
    BY DrainedType
  <2>2. Drained[id] # NoOp => /\ Drained[id] # None
                              /\ Drained[id].cookie = reconnects[id].cookie
    BY DrainedIs, SMT DEF CookiesAgree
  <2> QED BY <2>1, <2>2
<1>2. /\ Persistent /\ "commit" \notin Faults
      /\ \A c \in Conns : pc[c] = "put" => reg[c].id # id
      => Drained[id] # NoOp \/ db[id] # None
  <2>1. \A k \in 1..Len(ops) : ops[k].id = id => ops[k].rec # NoOp
    <3>1. \A k \in 1..Len(ops) : ops[k] \in StoreOp
      BY SMT DEF TypeOK
    <3> QED BY <3>1, NullsOK DEF StoreOp
  <2> QED BY <2>1, DrainedIs, SMT DEF RecordsTracked
<1>3. Applied(Drained, db)[id] = CASE Drained[id] = NoOp -> db[id]
                                   [] Drained[id] = None -> None
                                   [] OTHER -> SealedRow(Drained[id])
    BY DEF Applied
<1>4. CASE Drained[id] = NoOp
  <2>1. Applied(Drained, db)[id] = db[id]
    BY <1>3, <1>4, NullsOK
  <2> QED BY <1>2, <1>4, <2>1 DEF CookiesAgree
<1>5. CASE Drained[id] # NoOp
    BY <1>1, <1>3, <1>5, SealedType, NullsOK
<1> QED BY <1>4, <1>5

-----------------------------------------------------------------------------
(* The theorems *)

\* Every initial state satisfies the invariant, rows of an earlier process included.
LEMMA InitStep == Init => IInv
<1> SUFFICES ASSUME Init PROVE IInv
    OBVIOUS
<1> USE DEF Init
<1>1. TypeOK
    BY SMT DEF TypeOK, PCs, Links
<1>2. HandlerState /\ \A c \in Conns : ~Active(c)
    BY DEF HandlerState, Active
<1>3. IdsGivenOut /\ CookiesAgree /\ RecordsTracked
    BY <1>2, SMT DEF IdsGivenOut, CookiesAgree, RecordsTracked
<1>4. NoDanglingTarget /\ LiveTargetHasRecord /\ RecordOrigin /\ CookieOwners
    BY <1>2 DEF NoDanglingTarget, LiveTargetHasRecord, RecordOrigin, CookieOwners
<1> QED BY <1>1, <1>2, <1>3, <1>4 DEF IInv

\* A crash loses what is in memory; what is loaded satisfies the invariant.
LEMMA CrashStep == ASSUME IInv, Crash PROVE IInv'
BY RestartStep DEF Crash, IInv, TypeOK

\* So does what an orderly shutdown commits and the next process loads.
LEMMA ShutdownStep == ASSUME IInv, Shutdown PROVE IInv'
<1>1. /\ Applied(Drained, db) \in [Ids -> ReconnectRecord \cup {None}]
      /\ db \in [Ids -> ReconnectRecord \cup {None}]
    BY DrainedType, AppliedType DEF IInv, TypeOK
<1> QED BY <1>1, RestartStep DEF Shutdown

\* The invariant is a predicate of vars.
LEMMA StutterStep == ASSUME IInv, UNCHANGED vars PROVE IInv'
BY SMT DEF IInv, vars, table, store, TypeOK, HandlerState, Active, IdsGivenOut,
       NoDanglingTarget, Registered, LiveTargetHasRecord, CookiesAgree, RecordOrigin,
       RecordsTracked, CookieOwners

\* Every step preserves the invariant.
LEMMA NextStep == IInv /\ [Next]_vars => IInv'
<1> SUFFICES ASSUME IInv, [Next]_vars PROVE IInv'
    OBVIOUS
<1>1. ASSUME NEW c \in Conns, Handler(c) PROVE IInv'
    BY <1>1, RegisterFailsStep, RegisterStep, PutStep, ReplyStep, DeregisterStep DEF Handler
<1>2. CASE Sweeper
    BY <1>2, SweepReconnectsStep, SweepDeleteStep DEF Sweeper
<1>3. CASE Writer
    BY <1>3, TakeOpStep, CommitStep DEF Writer
<1>4. CASE Environment
    BY <1>4, DialStep, DropStep, TickStep DEF Environment
<1>5. CASE Crash
    BY <1>5, CrashStep
<1>6. CASE Shutdown
    BY <1>6, ShutdownStep
<1>7. CASE UNCHANGED vars
    BY <1>7, StutterStep
<1> QED BY <1>1, <1>2, <1>3, <1>4, <1>5, <1>6, <1>7 DEF Next

\* The inductive invariant holds throughout, whatever faults happen.
THEOREM Invariance == Spec => []IInv
BY InitStep, NextStep, PTL DEF Spec

\* The tables, the handlers' locals and the store keep their types.
THEOREM TypeCorrect == Spec => []TypeOK
<1>1. IInv => TypeOK
    BY DEF IInv
<1> QED BY <1>1, Invariance, PTL

\* s.targets only ever names connections whose handler still runs and
\* registered under that CCBID, through deregistrations in any order, sweeps,
\* crashes and restarts.
THEOREM TargetsAreServed == Spec => []NoDanglingTarget
<1>1. IInv => NoDanglingTarget
    BY DEF IInv
<1> QED BY <1>1, Invariance, PTL

\* A target that can be looked up has a reconnect record.
THEOREM TargetsHaveRecords == Spec => []LiveTargetHasRecord
<1>1. IInv => LiveTargetHasRecord
    BY DEF IInv
<1> QED BY <1>1, Invariance, PTL

\* The ClaimId a handler replies with was generated for the same daemon.
THEOREM ClaimsStay == Spec => []ClaimStaysWithDaemon
<1>1. IInv => ClaimStaysWithDaemon
    BY DEF IInv, CookieOwners, ClaimStaysWithDaemon, Registered, Active
<1> QED BY <1>1, Invariance, PTL

\* Once nothing is queued for a CCBID, its row agrees with its record.
THEOREM StoreConverges == Spec => []StoreCatchesUp
<1>1. IInv => StoreCatchesUp
    BY DEF IInv, RecordsTracked, CookiesAgree, StoreCatchesUp, StoreQuiet
<1> QED BY <1>1, Invariance, PTL

\* Restarting keeps the cookie of every record that survives it.
LEMMA RestartKeepsCookies ==
    ASSUME NEW rows, loadReconnects(rows), NEW id \in Ids,
           rows[id] # None => rows[id].cookie = reconnects[id].cookie,
           reconnects'[id] # None
    PROVE  reconnects'[id].cookie = reconnects[id].cookie
BY DEF loadReconnects

\* While a CCBID has a record its cookie does not change.
THEOREM CookiesStable == Spec => CookieStable
<1> DEFINE Keeps == \A id \in Ids : reconnects[id] # None /\ reconnects'[id] # None =>
                        reconnects'[id].cookie = reconnects[id].cookie
<1>1. ASSUME IInv, [Next]_vars PROVE Keeps
  <2> SUFFICES ASSUME NEW id \in Ids, reconnects[id] # None, reconnects'[id] # None
               PROVE  reconnects'[id].cookie = reconnects[id].cookie
    OBVIOUS
  <2>1. ASSUME NEW c \in Conns, Register(c)
        PROVE  reconnects'[id].cookie = reconnects[id].cookie
    <3>1. Reclaims(req[c]) \/ (FreshID \in Ids => reconnects[FreshID] = None)
      BY <1>1, SMT DEF IInv, IdsGivenOut, FreshID, TypeOK
    <3> QED BY <1>1, <2>1, <3>1 DEF Register, Reclaims, IInv, TypeOK
  <2>2. ASSUME NEW c \in Conns, Deregister(c)
        PROVE  reconnects'[id].cookie = reconnects[id].cookie
    BY <1>1, <2>2 DEF Deregister, removeTarget, IInv, TypeOK, ReconnectRecord
  <2>3. ASSUME NEW c \in Conns, Handler(c)
        PROVE  reconnects'[id].cookie = reconnects[id].cookie
    BY <2>1, <2>2, <2>3 DEF Handler, RegisterFails, Put, Reply, table
  <2>4. CASE Sweeper \/ Writer \/ Environment
    BY <2>4 DEF Sweeper, Writer, Environment, SweepReconnects, SweepDelete, TakeOp, Commit,
                Dial, Drop, Tick, table
  <2>5. CASE Crash
    <3>1. db[id] # None => db[id].cookie = reconnects[id].cookie
      BY <1>1 DEF IInv, CookiesAgree
    <3> QED BY <2>5, <3>1, RestartKeepsCookies DEF Crash
  <2>6. CASE Shutdown
    <3>1. db[id] # None => db[id].cookie = reconnects[id].cookie
      BY <1>1 DEF IInv, CookiesAgree
    <3>2. Applied(Drained, db)[id] # None =>
            Applied(Drained, db)[id].cookie = reconnects[id].cookie
      BY <1>1, ShutdownRows
    <3> QED BY <2>6, <3>1, <3>2, RestartKeepsCookies DEF Shutdown
  <2>7. CASE UNCHANGED vars
    BY <2>7 DEF vars, table
  <2> QED BY <1>1, <2>3, <2>4, <2>5, <2>6, <2>7 DEF Next
<1>2. IInv /\ [Next]_vars => [Keeps]_vars
    BY <1>1
<1> QED BY <1>2, Invariance, PTL DEF Spec, CookieStable

\* An orderly shutdown loses no record whose Put was accepted.
THEOREM ShutdownFlushes == Spec => ShutdownKeepsRecords
<1> DEFINE Flushed ==
        Persistent /\ Shutdown /\ Faults = {"crash"} =>
            \A id \in Ids :
                /\ reconnects[id] # None
                /\ \A c \in Conns : pc[c] = "put" => reg[c].id # id
                => reconnects'[id] # None /\ reconnects'[id].cookie = reconnects[id].cookie
<1>1. ASSUME IInv PROVE Flushed
  <2> SUFFICES ASSUME Persistent, Shutdown, Faults = {"crash"}, NEW id \in Ids,
                      reconnects[id] # None,
                      \A c \in Conns : pc[c] = "put" => reg[c].id # id
               PROVE  reconnects'[id] # None /\ reconnects'[id].cookie = reconnects[id].cookie
    OBVIOUS
  <2>1. reconnects' = Applied(Drained, db)
    BY DEF Shutdown, loadReconnects
  <2> QED BY <1>1, <2>1, ShutdownRows
<1>2. IInv /\ [Next]_vars => [Flushed]_vars
    BY <1>1
<1> QED BY <1>2, Invariance, PTL DEF Spec, ShutdownKeepsRecords

-----------------------------------------------------------------------------
(* In one process lifetime cookies and CCBIDs correspond one to one. *)

\* No handler's CCBID or cookie changes once it is assigned.
LEMMA RegKept ==
    ASSUME IInv, NEW c \in Conns, Deregister(c), NEW x \in Conns, reg[x] # None
    PROVE  /\ reg'[x] # None
           /\ reg'[x].id = reg[x].id /\ reg'[x].rec.cookie = reg[x].rec.cookie
<1> USE DEF IInv
<1> DEFINE id == reg[c].id
           stamped == [reconnects[id] EXCEPT !.updatedAt = now]
           row == [id |-> id, rec |-> stamped]
<1>1. reg[c] # None /\ id \in Ids /\ Active(c)
    BY DEF Deregister, ServeEnds, ReplyFails, HandlerState, Active, TypeOK, Registration
<1>2. \/ reg'[x] = reg[x]
      \/ reconnects[id] # None /\ reg'[x] = row /\ (x = c \/ (x = recOf[id] /\ pc[x] = "put"))
    BY DEF Deregister, removeTarget
<1>3. CASE reg'[x] = reg[x]
    BY <1>3
<1>4. CASE reconnects[id] # None /\ reg'[x] = row /\ (x = c \/ (x = recOf[id] /\ pc[x] = "put"))
  <2>1. reg[x].id = id /\ Active(x)
    BY <1>1, <1>4, ConstantsOK, SMT DEF RecordOrigin, Active
  <2>2. reconnects[id] \in ReconnectRecord
    BY <1>1, <1>4 DEF TypeOK
  <2>3. stamped \in ReconnectRecord /\ stamped.cookie = reconnects[id].cookie
    BY <2>2 DEF TypeOK, ReconnectRecord
  <2>4. row \in Registration /\ row.id = id /\ row.rec.cookie = stamped.cookie
    <3> HIDE DEF stamped, id
    <3> QED BY <1>1, <2>3 DEF Registration
  <2>5. reg[x].rec.cookie = reconnects[id].cookie
    BY <1>1, <1>4, <2>1 DEF CookiesAgree
  <2> HIDE DEF row, stamped, id
  <2> QED BY <1>4, <2>1, <2>3, <2>4, <2>5, NullsOK DEF id
<1> QED BY <1>2, <1>3, <1>4

\* At first nothing is registered.
LEMMA LifetimeInit == Init => OneLifetime
BY SMT DEF Init, OneLifetime, Minted

\* Without restarts, cookies and CCBIDs correspond one to one.
LEMMA LifetimeStep ==
    ASSUME "crash" \notin Faults, IInv, OneLifetime, [Next]_vars
    PROVE  OneLifetime'
<1> USE DEF IInv
<1>1. ASSUME NEW c \in Conns, Register(c) PROVE OneLifetime'
  <2> DEFINE id == reg'[c].id
             k == reg'[c].rec.cookie
             MintedNow(x, i) == reg'[x] # None /\ reg'[x].id = i /\ reg'[x].rec.cookie = x
  <2>a. /\ pc[c] = "dialed" /\ reg[c] = None /\ req[c] \in Request
        /\ UNCHANGED <<req, cred>>
    BY <1>1, SMT DEF Register, OneLifetime, HandlerState, TypeOK
  <2>b. /\ id \in Ids /\ k \in Conns /\ reg'[c] # None
        /\ \A x \in Conns : x # c => reg'[x] = reg[x]
        /\ pc'[c] \in {"put", "reply"}
        /\ \A x \in Conns : x # c => pc'[x] = pc[x]
    <3>1. reg'[c] \in Registration
      <4>1. IInv' /\ Active(c)'
        BY <1>1, RegisterStep DEF TypeOK, Register, Active
      <4> QED BY <4>1 DEF TypeOK, HandlerState
    <3> QED BY <1>1, <3>1, NullsOK DEF TypeOK, Registration, ReconnectRecord, Register
  <2>c. \/ id = req[c].prev.id /\ k = req[c].prev.cookie /\ req[c].prev # None /\ nextID' = nextID
        \/ id = nextID + 1 /\ k = c /\ nextID' = nextID + 1
    BY <1>1, <2>a DEF Register, Reclaims, FreshID, TypeOK
  <2> HIDE DEF id, k
  <2>1. \A x \in Conns, i \in Ids : Minted(x, i) => MintedNow(x, i)
    BY <2>a, <2>b DEF Minted
  <2>2. MintedNow(k, id) /\ id <= nextID' /\ nextID <= nextID' /\ nextID \in Nat /\ nextID' \in Nat
    <3>1. CASE id = req[c].prev.id /\ k = req[c].prev.cookie /\ req[c].prev # None /\ nextID' = nextID
      <4>1. Minted(k, id)
        BY <2>a, <3>1, NullsOK DEF OneLifetime
      <4>2. MintedNow(k, id)
        BY <2>b, <2>1, <4>1
      <4>3. id <= nextID
        BY <2>b, <4>1 DEF OneLifetime, Minted
      <4>4. nextID \in Nat
        BY DEF TypeOK
      <4> QED BY <3>1, <4>2, <4>3, <4>4, SMT
    <3>2. CASE id = nextID + 1 /\ k = c /\ nextID' = nextID + 1
      BY <2>b, <3>2, SMT DEF Minted, id, k, TypeOK
    <3> QED BY <2>c, <3>1, <3>2
  <2>3. \A x \in Conns : reg[x] # None => reg[x].id \in Ids /\ reg[x].id \in Int /\ reg[x].rec.cookie \in Conns
    BY ConstantsOK, SMT DEF TypeOK, Registration, ReconnectRecord, Ids
  <2>4. \A x \in Conns : req[x] # None /\ req[x].prev # None =>
            MintedNow(req[x].prev.cookie, req[x].prev.id)
    <3>1. \A x \in Conns : req[x] # None /\ req[x].prev # None =>
            req[x].prev.cookie \in Conns /\ req[x].prev.id \in Ids
      BY DEF TypeOK, Request, Credential
    <3> QED BY <2>1, <3>1, SMT DEF OneLifetime
  <2>5. \A d \in Daemons : cred[d] # None => MintedNow(cred[d].cookie, cred[d].id)
    <3>1. \A d \in Daemons : cred[d] # None => cred[d].cookie \in Conns /\ cred[d].id \in Ids
      BY DEF TypeOK, Credential
    <3> QED BY <2>1, <3>1 DEF OneLifetime
  <2>6. \A x \in Conns : reg'[x] # None =>
            /\ MintedNow(reg'[x].rec.cookie, reg'[x].id)
            /\ reg'[x].id <= nextID' /\ pc'[x] \notin {"idle", "dialed"}
    <3>1. \A x \in Conns : x # c /\ reg'[x] # None =>
            /\ MintedNow(reg'[x].rec.cookie, reg'[x].id)
            /\ reg'[x].id <= nextID' /\ pc'[x] \notin {"idle", "dialed"}
      BY <2>b, <2>1, <2>2, <2>3, SMT DEF OneLifetime
    <3> QED BY <2>b, <2>2, <3>1 DEF id, k
  <2>7. \A i, j \in Conns, n \in Ids : MintedNow(i, n) /\ MintedNow(j, n) => i = j
    <3>1. \A x \in Conns, n \in Ids : x # c => (MintedNow(x, n) <=> Minted(x, n))
      BY <2>b DEF Minted
    <3>2. \A n \in Ids : MintedNow(c, n) => n = nextID + 1
      BY <2>a, <2>b, <2>c, NullsOK DEF Minted, OneLifetime, id, k
    <3>3. \A x \in Conns, n \in Ids : Minted(x, n) => n # nextID + 1
      BY <2>2, <2>3, SMTT(30) DEF Minted, OneLifetime
    <3> QED BY <3>1, <3>2, <3>3, SMT DEF OneLifetime
  <2> QED BY <2>a, <2>4, <2>5, <2>6, <2>7, SMT DEF OneLifetime, Minted
<1>2. ASSUME NEW c \in Conns, Deregister(c) PROVE OneLifetime'
  <2>1. \A x \in Conns : /\ reg'[x] # None <=> reg[x] # None
                         /\ reg[x] # None => /\ reg'[x].id = reg[x].id
                                             /\ reg'[x].rec.cookie = reg[x].rec.cookie
    <3>1. \A x \in Conns : reg[x] = None => reg'[x] = None
      <4>1. reg[c] # None
        BY <1>2 DEF Deregister, ServeEnds, ReplyFails, HandlerState, Active
      <4>2. \A x \in Conns, id \in Ids : x = recOf[id] => reg[x] # None
        BY ConstantsOK, SMT DEF RecordOrigin
      <4>3. reg[c].id \in Ids
        BY <4>1 DEF TypeOK, Registration
      <4> QED BY <1>2, <4>1, <4>2, <4>3 DEF Deregister, removeTarget
    <3> QED BY <1>2, <3>1, RegKept
  <2>2. \A x \in Conns : \A i : Minted(x, i)' <=> Minted(x, i)
    BY <2>1 DEF Minted
  <2>3. /\ UNCHANGED <<req, cred, nextID>>
        /\ \A x \in Conns : pc'[x] \in {"idle", "dialed"} => pc[x] \in {"idle", "dialed"}
    BY <1>2 DEF Deregister, removeTarget, TypeOK
  <2>4. \A x \in Conns : /\ reg[x] # None => reg[x].rec.cookie \in Conns
                         /\ req[x] # None /\ req[x].prev # None => req[x].prev.cookie \in Conns
    BY DEF TypeOK, Registration, ReconnectRecord, Request, Credential
  <2>5. \A d \in Daemons : cred[d] # None => cred[d].cookie \in Conns
    BY DEF TypeOK, Credential
  <2> QED BY <2>1, <2>2, <2>3, <2>4, <2>5, SMTT(30) DEF OneLifetime
<1>3. ASSUME NEW c \in Conns, Reply(c) PROVE OneLifetime'
  <2>1. \A d \in Daemons : cred'[d] = cred[d] \/
            (cred'[d].id = reg[c].id /\ cred'[d].cookie = reg[c].rec.cookie /\ reg[c] # None)
    BY <1>3 DEF Reply, TypeOK, HandlerState, Active
  <2>2. /\ UNCHANGED <<req, reg, nextID>>
        /\ \A x \in Conns : pc'[x] \in {"idle", "dialed"} => pc[x] \in {"idle", "dialed"}
    BY <1>3 DEF Reply, table, TypeOK
  <2> QED BY <2>1, <2>2, SMTT(30) DEF OneLifetime, Minted
<1>4. ASSUME NEW d \in Daemons, NEW c \in Conns, NEW ip \in IPs, Dial(d, c, ip) PROVE OneLifetime'
  <2>1. /\ req'[c].prev = cred[d] /\ \A x \in Conns : x # c => req'[x] = req[x]
        /\ reg[c] = None
    BY <1>4, SMT DEF Dial, OneLifetime, TypeOK
  <2>2. UNCHANGED <<reg, cred, nextID>> /\ \A x \in Conns : x # c => pc'[x] = pc[x]
    BY <1>4 DEF Dial, table, TypeOK
  <2> QED BY <2>1, <2>2, SMTT(30) DEF OneLifetime, Minted
<1>5. ASSUME NEW c \in Conns, RegisterFails(c) \/ Put(c) \/ \E how \in {"half", "down"} : Drop(c, how)
      PROVE  OneLifetime'
  <2>1. UNCHANGED <<nextID, req, reg, cred>>
    BY <1>5 DEF RegisterFails, Put, Drop, table
  <2>2. \A x \in Conns : pc'[x] \in {"idle", "dialed"} => pc[x] \in {"idle", "dialed"}
    BY <1>5 DEF RegisterFails, Put, Drop, TypeOK
  <2> QED BY <2>1, <2>2 DEF OneLifetime, Minted
<1>6. CASE Sweeper \/ Writer \/ Tick
  <2>1. UNCHANGED <<nextID, pc, req, reg, cred>>
    BY <1>6 DEF Sweeper, SweepReconnects, SweepDelete, Writer, TakeOp, Commit, Tick, table
  <2> QED BY <2>1 DEF OneLifetime, Minted
<1>7. CASE UNCHANGED vars
    BY <1>7 DEF vars, table, OneLifetime, Minted
<1> QED BY <1>1, <1>2, <1>3, <1>4, <1>5, <1>6, <1>7 DEF Next, Handler, Environment, Crash, Shutdown

\* While the process lives, the CCBID a daemon holds is served over a connection
\* of that daemon, or not at all.
THEOREM ContactsLeadHome ==
    ASSUME "crash" \notin Faults
    PROVE  Spec => []ContactLeadsHome
<1>1. Init => OneLifetime
    BY LifetimeInit
<1>2. IInv /\ OneLifetime /\ [Next]_vars => OneLifetime'
    BY LifetimeStep
<1>3. IInv /\ OneLifetime => ContactLeadsHome
  <2> SUFFICES ASSUME IInv, OneLifetime, NEW d \in Daemons, cred[d] # None,
                      targets[cred[d].id] # None
               PROVE  req[targets[cred[d].id]].daemon = d
    BY DEF ContactLeadsHome
  <2> DEFINE id == cred[d].id
             c == targets[id]
  <2>1. id \in Ids /\ cred[d].cookie \in Conns /\ c \in Conns
    BY DEF IInv, TypeOK, Credential
  <2>2. Active(c) /\ reg[c] # None /\ reg[c].id = id
    BY <2>1 DEF IInv, NoDanglingTarget, Registered, HandlerState, Active
  <2>3. reg[c].rec.cookie \in Conns
    BY <2>1, <2>2 DEF IInv, TypeOK, Registration, ReconnectRecord
  <2>4. reg[c].rec.cookie = cred[d].cookie
    BY <2>1, <2>2, <2>3 DEF OneLifetime
  <2> QED BY <2>1, <2>2, <2>4 DEF IInv, CookieOwners
<1> QED BY <1>1, <1>2, <1>3, Invariance, PTL DEF Spec
=============================================================================

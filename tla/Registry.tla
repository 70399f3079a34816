------------------------------ MODULE Registry ------------------------------
(***************************************************************************)
(* The registration side of the broker: CCB_REGISTER handlers, the table   *)
(* of live targets, the reconnect records that let a daemon reclaim its    *)
(* CCBID, the sweep of stale records, and the write-behind SQLite store    *)
(* (server.go, reconnect.go, sqlitestore.go).                              *)
(*                                                                         *)
(* A connection carries one registration, so connections are not reused.   *)
(* The cookie GenerateConnectID returns is fresh: it is modelled by the    *)
(* connection whose handler generated it.                                  *)
(***************************************************************************)
EXTENDS Integers, Sequences, FiniteSetsExt

CONSTANTS
    Conns,        \* connections that may carry a CCB_REGISTER
    Daemons,      \* the daemons that register
    IPs,          \* peer addresses they register from
    MaxID,        \* bound on CCBIDs (uint64 in the code)
    RestartGuard, \* the 100 of loadReconnects
    TTL,          \* Config.ReconnectTTL, in clock ticks
    SecTicks,     \* clock ticks per second: the store keeps whole seconds
    MaxTime,      \* bound on the clock
    OpsCap,       \* capacity of sqliteStore.ops
    AllowAnyIP,   \* Config.ReconnectAllowAnyIP
    IdleReap,     \* Config.TargetIdleTimeout > 0
    Persistent,   \* Config.ReconnectStore # nil
    Faults,       \* which of "crash", "commit", "key" may happen
    None,         \* no connection, record or credential
    NoOp          \* no pending operation for a CCBID in the writer's batch

ASSUME ConstantsOK ==
    /\ MaxID \in Nat /\ RestartGuard \in Nat /\ TTL \in Nat
    /\ SecTicks \in Nat \ {0} /\ MaxTime \in Nat /\ OpsCap \in Nat \ {0}
    /\ AllowAnyIP \in BOOLEAN /\ IdleReap \in BOOLEAN /\ Persistent \in BOOLEAN
    /\ Faults \subseteq {"crash", "commit", "key"}
    /\ None \notin Conns /\ None \notin IPs

VARIABLES
    now,        \* the wall clock
    nextID,     \* Server.nextID
    targets,    \* Server.targets: the connection serving each CCBID
    reconnects, \* Server.reconnects: the record of each CCBID
    recOf,      \* which registration's ReconnectRecord reconnects points at
    pc,         \* where each connection's handleRegister is
    req,        \* what the daemon sent in its CCB_REGISTER ad
    reg,        \* target.id, target.cookie and the record the handler Puts
    link,       \* the connection as the handler and the daemon see it
    cred,       \* the (CCBID, ClaimId) pair each daemon last received
    stale,      \* CCBIDs a sweep removed and has yet to Delete in the store
    ops,        \* sqliteStore.ops
    batch,      \* the writer's coalesced batch
    db          \* the committed rows

table == <<nextID, targets, reconnects, recOf>>
store == <<ops, batch, db>>
vars == <<now, table, pc, req, reg, link, cred, stale, store>>

Ids == 1..MaxID

\* A reconnect record without its CCBID (the key) and Name (diagnostics).
ReconnectRecord == [cookie : Conns, ip : IPs, updatedAt : Nat]

Credential == [id : Ids, cookie : Conns]

\* A CCB_REGISTER ad: CCBID and ClaimId are both present or both missing.
Request == [daemon : Daemons, ip : IPs, prev : Credential \cup {None}]

Registration == [id : Ids, rec : ReconnectRecord]

\* An asynchronous store operation; rec = None deletes.
StoreOp == [id : Ids, rec : ReconnectRecord \cup {None}]

PCs == {"idle", "dialed", "put", "reply", "serving", "removePut", "done"}

\* "half": the daemon gave the connection up and the broker was not told.
Links == {"none", "up", "half", "down"}

\* The null values are none of the things they stand in for.
ASSUME NullsOK ==
    /\ None \notin ReconnectRecord /\ None \notin Credential
    /\ None \notin Request /\ None \notin Registration
    /\ NoOp \notin ReconnectRecord /\ NoOp # None

\* UpdatedAt.Unix() and time.Unix(ts, 0): a stored time loses its fraction.
Unix(t) == t - (t % SecTicks)

SealedRow(rec) == [rec EXCEPT !.updatedAt = Unix(@)]

-----------------------------------------------------------------------------
Init ==
    /\ now = 0
    /\ nextID = 0
    /\ targets = [i \in Ids |-> None]
    /\ reconnects = [i \in Ids |-> None]
    /\ recOf = [i \in Ids |-> None]
    /\ pc = [c \in Conns |-> "idle"]
    /\ req = [c \in Conns |-> None]
    /\ reg = [c \in Conns |-> None]
    /\ link = [c \in Conns |-> "none"]
    /\ cred = [d \in Daemons |-> None]
    /\ stale = {}
    /\ ops = <<>>
    /\ batch = [i \in Ids |-> NoOp]
    /\ db = [i \in Ids |-> None]

-----------------------------------------------------------------------------
(* The daemons and the network (external). *)

\* A daemon without a working connection dials the broker and sends its
\* CCB_REGISTER, presenting the credential it holds.
Dial(d, c, ip) ==
    /\ pc[c] = "idle"
    /\ \A x \in Conns : link[x] = "up" => req[x].daemon # d
    /\ req' = [req EXCEPT ![c] = [daemon |-> d, ip |-> ip, prev |-> cred[d]]]
    /\ pc' = [pc EXCEPT ![c] = "dialed"]
    /\ link' = [link EXCEPT ![c] = "up"]
    /\ UNCHANGED <<now, table, reg, cred, stale, store>>

\* The daemon loses or closes its connection: the broker sees an error
\* ("down"), or nothing at all ("half").
Drop(c, how) ==
    /\ link[c] = "up"
    /\ link' = [link EXCEPT ![c] = how]
    /\ UNCHANGED <<now, table, pc, req, reg, cred, stale, store>>

Tick ==
    /\ now < MaxTime
    /\ now' = now + 1
    /\ UNCHANGED <<table, pc, req, reg, link, cred, stale, store>>

-----------------------------------------------------------------------------
(* handleRegister *)

\* Authorization is denied, the ad cannot be read, or no cookie can be made.
RegisterFails(c) ==
    /\ pc[c] = "dialed"
    /\ pc' = [pc EXCEPT ![c] = "done"]
    /\ link' = [link EXCEPT ![c] = "down"]
    /\ UNCHANGED <<now, table, req, reg, cred, stale, store>>

\* Mutant: a CCBID is reclaimed only after its old connection is gone.
Mut_ReclaimsFree(r) ==
    /\ r.prev # None
    /\ reconnects[r.prev.id] # None /\ targets[r.prev.id] = None
    /\ reconnects[r.prev.id].cookie = r.prev.cookie
    /\ AllowAnyIP \/ reconnects[r.prev.id].ip = r.ip

\* Mutant: the cookie is not compared.
Mut_Reclaims(r) ==
    /\ r.prev # None
    /\ reconnects[r.prev.id] # None
    /\ AllowAnyIP \/ reconnects[r.prev.id].ip = r.ip

\* A reconnect is honoured when the record exists and cookie and IP match.
Reclaims(r) ==
    /\ r.prev # None
    /\ reconnects[r.prev.id] # None
    /\ reconnects[r.prev.id].cookie = r.prev.cookie
    /\ AllowAnyIP \/ reconnects[r.prev.id].ip = r.ip

\* Mutant: the lowest CCBID that no live target has.
Mut_FreshID == Min({id \in Ids : targets[id] = None} \cup {MaxID + 1})

\* s.nextID++
FreshID == nextID + 1

\* The critical section of handleRegister.
Register(c) ==
    LET r      == req[c]
        reused == Reclaims(r)
        id     == IF reused THEN r.prev.id ELSE FreshID
        rec    == [cookie    |-> IF reused THEN reconnects[id].cookie ELSE c,
                   ip        |-> r.ip,
                   updatedAt |-> now]
    IN  /\ pc[c] = "dialed"
        /\ id \in Ids
        /\ nextID' = IF reused THEN nextID ELSE FreshID
        /\ targets' = [targets EXCEPT ![id] = c]
        /\ reconnects' = [reconnects EXCEPT ![id] = rec]
        /\ recOf' = [recOf EXCEPT ![id] = c]
        /\ reg' = [reg EXCEPT ![c] = [id |-> id, rec |-> rec]]
        /\ pc' = [pc EXCEPT ![c] = IF Persistent THEN "put" ELSE "reply"]
        /\ UNCHANGED <<now, req, link, cred, stale, store>>

\* Mutant: an operation that finds the channel full is dropped.
Mut_Put(c) ==
    /\ pc[c] \in {"put", "removePut"}
    /\ ops' = IF Len(ops) < OpsCap THEN Append(ops, reg[c]) ELSE ops
    /\ pc' = [pc EXCEPT ![c] = IF @ = "put" THEN "reply" ELSE "done"]
    /\ UNCHANGED <<now, table, req, reg, link, cred, stale, batch, db>>

\* ReconnectStore.Put outside the lock, after a registration or a removal:
\* enqueue blocks while the channel is full.
Put(c) ==
    /\ pc[c] \in {"put", "removePut"}
    /\ Len(ops) < OpsCap
    /\ ops' = Append(ops, reg[c])
    /\ pc' = [pc EXCEPT ![c] = IF @ = "put" THEN "reply" ELSE "done"]
    /\ UNCHANGED <<now, table, req, reg, link, cred, stale, batch, db>>

\* Mutant: the write blocks on a peer that is gone.
Mut_Reply(c) ==
    /\ pc[c] = "reply" /\ link[c] = "up"
    /\ pc' = [pc EXCEPT ![c] = "serving"]
    /\ cred' = [cred EXCEPT ![req[c].daemon] =
                   [id |-> reg[c].id, cookie |-> reg[c].rec.cookie]]
    /\ UNCHANGED <<now, table, req, reg, link, stale, store>>

\* The reply ad is written; only a daemon still on this connection reads it.
Reply(c) ==
    /\ pc[c] = "reply"
    /\ pc' = [pc EXCEPT ![c] = "serving"]
    /\ cred' = IF link[c] = "up"
               THEN [cred EXCEPT ![req[c].daemon] =
                        [id |-> reg[c].id, cookie |-> reg[c].rec.cookie]]
               ELSE cred
    /\ UNCHANGED <<now, table, req, reg, link, stale, store>>

\* Mutant: no read deadline.
Mut_ServeEnds(c) == pc[c] = "serving" /\ link[c] = "down"

\* serveTarget returns: a read error, or nothing read for TargetIdleTimeout.
ServeEnds(c) == pc[c] = "serving" /\ (link[c] = "down" \/ IdleReap)

\* The reply could not be written.
ReplyFails(c) == pc[c] = "reply" /\ link[c] = "down"

\* removeTarget, by CCBID: the entry goes whatever connection holds it, and
\* the record, if there is one, is stamped and copied for the store. The stamp
\* goes through the shared record pointer, so the registration that created
\* the record Puts the stamped time if it has not Put yet.
removeTarget(c) ==
    LET id      == reg[c].id
        known   == reconnects[id] # None
        stamped == [reconnects[id] EXCEPT !.updatedAt = now]
    IN  /\ targets' = [targets EXCEPT ![id] = None]
        /\ reconnects' = IF known THEN [reconnects EXCEPT ![id] = stamped]
                                  ELSE reconnects
        /\ reg' = IF known
                  THEN [x \in Conns |-> IF x = c \/ (x = recOf[id] /\ pc[x] = "put")
                                        THEN [id |-> id, rec |-> stamped]
                                        ELSE reg[x]]
                  ELSE reg
        /\ pc' = [pc EXCEPT ![c] = IF known /\ Persistent THEN "removePut" ELSE "done"]
        /\ UNCHANGED <<nextID, recOf>>

\* Mutant: a failed reply returns without removeTarget.
Mut_Deregister(c) ==
    /\ \/ ServeEnds(c) /\ removeTarget(c)
       \/ /\ ReplyFails(c)
          /\ pc' = [pc EXCEPT ![c] = "done"]
          /\ UNCHANGED <<table, reg>>
    /\ link' = [link EXCEPT ![c] = "down"]
    /\ UNCHANGED <<now, req, cred, stale, store>>

Deregister(c) ==
    /\ ServeEnds(c) \/ ReplyFails(c)
    /\ removeTarget(c)
    /\ link' = [link EXCEPT ![c] = "down"]
    /\ UNCHANGED <<now, req, cred, stale, store>>

-----------------------------------------------------------------------------
(* SweepReconnects, called by sweepLoop when there is a store. *)

\* Mutant: the cutoff comparison is swapped.
Mut_ExpiredSwapped(id) ==
    /\ reconnects[id] # None
    /\ targets[id] = None
    /\ now + TTL < reconnects[id].updatedAt

Expired(id) ==
    /\ reconnects[id] # None
    /\ targets[id] = None
    /\ reconnects[id].updatedAt + TTL < now

SweepReconnects ==
    LET old == {id \in Ids : Expired(id)}
    IN  /\ Persistent
        /\ stale = {}
        /\ old # {}
        /\ reconnects' = [id \in Ids |-> IF id \in old THEN None ELSE reconnects[id]]
        /\ recOf' = [id \in Ids |-> IF id \in old THEN None ELSE recOf[id]]
        /\ stale' = old
        /\ UNCHANGED <<now, nextID, targets, pc, req, reg, link, cred, store>>

SweepDelete(id) ==
    /\ id \in stale
    /\ Len(ops) < OpsCap
    /\ ops' = Append(ops, [id |-> id, rec |-> None])
    /\ stale' = stale \ {id}
    /\ UNCHANGED <<now, table, pc, req, reg, link, cred, batch, db>>

-----------------------------------------------------------------------------
(* The sqliteStore writer *)

Coalesce(b, op) == [b EXCEPT ![op.id] = op.rec]

Applied(b, rows) ==
    [id \in Ids |-> CASE b[id] = NoOp -> rows[id]
                      [] b[id] = None -> None
                      [] OTHER        -> SealedRow(b[id])]

EmptyBatch == [id \in Ids |-> NoOp]

TakeOp ==
    /\ ops # <<>>
    /\ batch' = Coalesce(batch, Head(ops))
    /\ ops' = Tail(ops)
    /\ UNCHANGED <<now, table, pc, req, reg, link, cred, stale, db>>

\* One transaction per flush tick. A failed one is rolled back as a whole, and
\* its batch is dropped all the same.
Commit ==
    /\ batch # EmptyBatch
    /\ \/ db' = Applied(batch, db)
       \/ "commit" \in Faults /\ db' = db
    /\ batch' = EmptyBatch
    /\ UNCHANGED <<now, table, pc, req, reg, link, cred, stale, ops>>

\* Mutant: Close commits the batch and leaves the channel.
Mut_Drained == batch

\* Close: everything still in the channel joins the batch and is committed.
\* (ops is drained in order; the last operation on a CCBID wins.)
Drained ==
    [id \in Ids |->
        LET mine == {k \in 1..Len(ops) : ops[k].id = id}
        IN  IF mine = {} THEN batch[id] ELSE ops[Max(mine)].rec]

-----------------------------------------------------------------------------
(* The end of the process and the start of the next one. *)

\* Mutant: numbering starts again from 1.
Mut_RestartID(maxID) == 0

\* The first CCBID the new process gives out is one more than this.
RestartID(maxID) == IF maxID > 0 THEN maxID + RestartGuard ELSE 0

\* New and loadReconnects on the rows found. Rows that cannot be decrypted
\* are skipped, and count for nothing afterwards.
loadReconnects(rows) ==
    \E kept \in SUBSET {id \in Ids : rows[id] # None} :
        LET loaded == [id \in Ids |-> IF id \in kept THEN rows[id] ELSE None]
        IN  /\ "key" \in Faults \/ loaded = rows
            /\ \E maxID \in {0} \cup kept :
                /\ \A id \in kept : id <= maxID
                /\ nextID' = RestartID(maxID)
                /\ nextID' <= MaxID
                /\ db' = loaded
                /\ reconnects' = loaded

\* What does not survive the process: its tables, queues and connections.
ProcessGone ==
    /\ targets' = [id \in Ids |-> None]
    /\ recOf' = [id \in Ids |-> None]
    /\ pc' = [c \in Conns |-> IF pc[c] = "idle" THEN "idle" ELSE "done"]
    /\ link' = [c \in Conns |-> IF pc[c] = "idle" THEN link[c] ELSE "down"]
    /\ stale' = {}
    /\ ops' = <<>>
    /\ batch' = EmptyBatch
    /\ UNCHANGED <<now, req, reg, cred>>

Crash ==
    /\ "crash" \in Faults
    /\ ProcessGone
    /\ loadReconnects(db)

\* An orderly exit runs store.Close; handlers are cut off wherever they are.
Shutdown ==
    /\ "crash" \in Faults
    /\ ProcessGone
    /\ \/ loadReconnects(Applied(Drained, db))
       \/ "commit" \in Faults /\ loadReconnects(db)

-----------------------------------------------------------------------------
Handler(c) == RegisterFails(c) \/ Register(c) \/ Put(c) \/ Reply(c) \/ Deregister(c)

Sweeper == SweepReconnects \/ \E id \in Ids : SweepDelete(id)

Writer == TakeOp \/ Commit

Environment ==
    \/ \E d \in Daemons, c \in Conns, ip \in IPs : Dial(d, c, ip)
    \/ \E c \in Conns, how \in {"half", "down"} : Drop(c, how)
    \/ Tick

Next ==
    \/ \E c \in Conns : Handler(c)
    \/ Sweeper
    \/ Writer
    \/ Environment
    \/ Crash
    \/ Shutdown

Spec == Init /\ [][Next]_vars

\* The fairness of the Go scheduler: a goroutine that can go on does. A
\* connection that the daemon gave up is read until the idle deadline fires;
\* nothing forces a deadline on a connection that is still in use.
Fairness ==
    /\ \A c \in Conns :
        /\ WF_vars(RegisterFails(c) \/ Register(c) \/ Put(c) \/ Reply(c))
        /\ WF_vars(link[c] # "up" /\ Deregister(c))
    /\ WF_vars(SweepReconnects)
    /\ WF_vars(\E id \in Ids : SweepDelete(id))
    /\ WF_vars(TakeOp)
    /\ WF_vars(Commit)

FairSpec == Spec /\ Fairness

-----------------------------------------------------------------------------
TypeOK ==
    /\ now \in Nat
    /\ nextID \in Nat
    /\ targets \in [Ids -> Conns \cup {None}]
    /\ reconnects \in [Ids -> ReconnectRecord \cup {None}]
    /\ recOf \in [Ids -> Conns \cup {None}]
    /\ pc \in [Conns -> PCs]
    /\ req \in [Conns -> Request \cup {None}]
    /\ reg \in [Conns -> Registration \cup {None}]
    /\ link \in [Conns -> Links]
    /\ cred \in [Daemons -> Credential \cup {None}]
    /\ stale \subseteq Ids
    /\ ops \in Seq(StoreOp)
    /\ batch \in [Ids -> ReconnectRecord \cup {None, NoOp}]
    /\ db \in [Ids -> ReconnectRecord \cup {None}]

\* A handler between its registration and its removal of the target.
Registered(c) == pc[c] \in {"put", "reply", "serving"}

\* The connection that s.targets names for a CCBID is one whose handler still
\* runs and registered under that very CCBID: handleRequest never forwards to
\* the stream of a handler that returned.
NoDanglingTarget ==
    \A id \in Ids : targets[id] # None =>
        Registered(targets[id]) /\ reg[targets[id]].id = id

\* A target that can be looked up has its reconnect record, so that losing its
\* connection now does not lose it its CCBID: SweepReconnects spares it, and
\* removeTarget never leaves a target without a record.
LiveTargetHasRecord ==
    \A id \in Ids : targets[id] # None => reconnects[id] # None

\* The ClaimId a handler replies with was generated for the same daemon: no
\* registration, late, repeated, or after a restart that gave out a CCBID
\* again, obtains the cookie of another daemon's record.
ClaimStaysWithDaemon ==
    \A c \in Conns : Registered(c) =>
        req[reg[c].rec.cookie].daemon = req[c].daemon

\* A daemon's contact never leads to another daemon: if the CCBID it last
\* received is being served, it is served over a connection of its own. (Of one
\* process lifetime: see CCBIDsNotReissued for restarts.)
ContactLeadsHome ==
    \A d \in Daemons : cred[d] # None /\ targets[cred[d].id] # None =>
        req[targets[cred[d].id]].daemon = d

\* While a CCBID has a record, its cookie does not change, neither by a
\* registration nor by a restart that replaces the table by the stored rows:
\* the ClaimId its daemon holds stays valid.
CookieStable ==
    [][\A id \in Ids : reconnects[id] # None /\ reconnects'[id] # None =>
          reconnects'[id].cookie = reconnects[id].cookie]_vars

\* No store operation on this CCBID is under way.
StoreQuiet(id) ==
    /\ batch[id] = NoOp
    /\ \A k \in 1..Len(ops) : ops[k].id # id
    /\ \A c \in Conns : pc[c] = "put" => reg[c].id # id

\* The store catches up with the table: once nothing is queued for a CCBID that
\* has a record, its row is there, with the same cookie, although Put and
\* Delete are asynchronous, unordered between handlers, and coalesced. (A
\* commit that fails loses its batch, so this is of runs without that fault.)
StoreCatchesUp ==
    Persistent /\ "commit" \notin Faults =>
        \A id \in Ids : reconnects[id] # None /\ StoreQuiet(id) =>
            db[id] # None /\ db[id].cookie = reconnects[id].cookie

\* An orderly shutdown flushes: a record whose Put was accepted by the store
\* is known to the next process, with its cookie, however much was still in
\* the channel and in the batch.
ShutdownKeepsRecords ==
    [][Persistent /\ Shutdown /\ Faults = {"crash"} =>
        \A id \in Ids :
            /\ reconnects[id] # None
            /\ \A c \in Conns : pc[c] = "put" => reg[c].id # id
            => reconnects'[id] # None /\ reconnects'[id].cookie = reconnects[id].cookie]_vars

\* A target that went away without a word does not keep its registration: its
\* handler is eventually reaped and the entry goes (TargetIdleTimeout).
DeadTargetReaped ==
    \A c \in Conns, id \in Ids :
        (targets[id] = c /\ link[c] # "up") ~> (targets[id] # c)

\* Every handler that has read a registration answers or gives up: none waits
\* for ever on the lock, the store's channel or another handler.
HandlerAnswers ==
    \A c \in Conns : (pc[c] = "dialed") ~> (pc[c] \in {"serving", "done"})

\* A record whose target has been gone for longer than ReconnectTTL does not
\* stay: it is swept, unless its daemon comes back or a late handler of the same
\* CCBID stamps it anew.
StaleSwept ==
    \A id \in Ids :
        LET overdue == /\ reconnects[id] # None
                       /\ targets[id] = None
                       /\ reconnects[id].updatedAt + TTL < now
        IN  overdue ~> ~overdue

-----------------------------------------------------------------------------
(* What the documentation says of the program and the code does not do. *)

\* server.go:75-76: "Records for currently-connected targets are never swept."
ConnectedNeverSwept ==
    \A c \in Conns : pc[c] = "serving" /\ link[c] = "up" =>
        reconnects[reg[c].id] # None

\* server.go:402-403: loadReconnects guards "against handing out a CCBID that a
\* pre-restart registration may have been assigned but not yet persisted".
CCBIDsNotReissued ==
    \A d \in Daemons, c \in Conns :
        cred[d] # None /\ Registered(c) /\ req[c].daemon # d => reg[c].id # cred[d].id
=============================================================================

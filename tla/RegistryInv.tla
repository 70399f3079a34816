---------------------------- MODULE RegistryInv -----------------------------
(* The inductive invariant the theorems about Registry rest on.             *)
EXTENDS Registry

-----------------------------------------------------------------------------
(* Conjunct by conjunct. *)

\* A handler that has registered and has not finished with the store.
Active(c) == pc[c] \in {"put", "reply", "serving", "removePut"}

\* What a handler has read and assigned by the time it is at pc.
HandlerState ==
    \A c \in Conns :
        /\ link[c] = "none" <=> pc[c] = "idle"
        /\ pc[c] = "idle" <=> req[c] = None
        /\ Active(c) => reg[c] # None

\* Every CCBID in use in this process or known to the store was given out.
IdsGivenOut ==
    /\ \A id \in Ids :
        /\ reconnects[id] # None => id <= nextID
        /\ batch[id] # NoOp => id <= nextID
        /\ db[id] # None => id <= nextID
        /\ id \in stale => id <= nextID
    /\ \A k \in 1..Len(ops) : ops[k].id <= nextID
    /\ \A c \in Conns : Active(c) => reg[c].id <= nextID

\* Whatever mentions a CCBID that has a record agrees with it on the cookie.
CookiesAgree ==
    \A id \in Ids : reconnects[id] # None =>
        /\ id \notin stale
        /\ db[id] # None => db[id].cookie = reconnects[id].cookie
        /\ batch[id] # NoOp =>
              batch[id] # None /\ batch[id].cookie = reconnects[id].cookie
        /\ \A k \in 1..Len(ops) : ops[k].id = id =>
              ops[k].rec # None /\ ops[k].rec.cookie = reconnects[id].cookie
        /\ \A c \in Conns : Active(c) /\ reg[c].id = id =>
              reg[c].rec.cookie = reconnects[id].cookie

\* The registration whose record reconnects[id] points at was under id.
RecordOrigin ==
    \A id \in Ids : recOf[id] # None =>
        /\ reg[recOf[id]] # None /\ reg[recOf[id]].id = id
        /\ pc[recOf[id]] \notin {"idle", "dialed"}

\* A record is stored or on its way to the store.
RecordsTracked ==
    Persistent /\ "commit" \notin Faults =>
        \A id \in Ids : reconnects[id] # None =>
            \/ db[id] # None
            \/ batch[id] # NoOp
            \/ \E k \in 1..Len(ops) : ops[k].id = id
            \/ \E c \in Conns : pc[c] = "put" /\ reg[c].id = id

\* A cookie is held by the daemon of the connection it was generated on.
CookieOwners ==
    /\ \A d \in Daemons : cred[d] # None =>
          req[cred[d].cookie] # None /\ req[cred[d].cookie].daemon = d
    /\ \A c \in Conns : req[c] # None /\ req[c].prev # None =>
          /\ req[req[c].prev.cookie] # None
          /\ req[req[c].prev.cookie].daemon = req[c].daemon
    /\ \A c \in Conns : Active(c) =>
          /\ req[reg[c].rec.cookie] # None
          /\ req[reg[c].rec.cookie].daemon = req[c].daemon

IInv ==
    /\ TypeOK
    /\ HandlerState
    /\ IdsGivenOut
    /\ NoDanglingTarget
    /\ LiveTargetHasRecord
    /\ CookiesAgree
    /\ RecordOrigin
    /\ RecordsTracked
    /\ CookieOwners

\* In one process lifetime a cookie stands for one CCBID, and a CCBID for one
\* cookie: reg[k] is the registration that generated the cookie k.
Minted(k, id) == reg[k] # None /\ reg[k].id = id /\ reg[k].rec.cookie = k

OneLifetime ==
    /\ \A c \in Conns : req[c] # None /\ req[c].prev # None =>
          Minted(req[c].prev.cookie, req[c].prev.id)
    /\ \A d \in Daemons : cred[d] # None => Minted(cred[d].cookie, cred[d].id)
    /\ \A c \in Conns : reg[c] # None =>
          /\ Minted(reg[c].rec.cookie, reg[c].id)
          /\ reg[c].id <= nextID
          /\ pc[c] \notin {"idle", "dialed"}
    /\ \A j, k \in Conns, id \in Ids : Minted(j, id) /\ Minted(k, id) => j = k
=============================================================================

# Verification of golang-ccb

TLA+ models of the CCB broker in this repository, checked with TLC on small
instances, and TLAPS proofs of what matters most for instances of any size. Line
numbers are in `PROJECT.json` ("map"), definition by definition.

## The system

A CCB broker lets daemons behind a firewall be reached: a daemon keeps a
connection open to the broker and registers (`CCB_REGISTER`); a client asks the
broker for it (`CCB_REQUEST`), and the daemon connects back, to the client or, in
streaming mode, to the broker, which splices the two connections. An *inside* broker
can register with an *outside* one and relay. Where no socket can be opened
between the two, the link is carried over a shared directory (`transport/fstun`) or a
WebSocket (`transport/wscarrier`), with yamux on top.

| part | source | module |
|---|---|---|
| registration, reconnect records, sweep, restart | server.go, reconnect.go | Registry |
| write-behind SQLite store of the records | sqlitestore.go | Registry |
| requests, result reports, reverse connections, splice, relay | request.go, proxy.go, server.go | Rendezvous |
| filesystem tunnel: one direction of segment files | fstun/seglog.go, frame.go | SegLog, implements BytePipe |
| filesystem tunnel: net.Conn, window, ACKs, loops | fstun/conn.go | Conn |
| filesystem tunnel: dial, accept, inbox, doorbell, cleanup | fstun/dial.go, listen.go, inbox.go, doorbell.go | TunnelDir |
| filesystem tunnel: configuration, parameters, filesystem type | fstun/config.go, params.go, fsmode_*.go | constants of the above |
| upstream registration, tunnel contact, ready file | upstream.go, server.go | Upstream, which extends Registry |
| yamux carrier, shared session, accept queues | carrier.go, transport/carrier/mux.go | Carrier |
| WebSocket carrier | transport/wscarrier/ws.go | Carrier |
| outbound proxy (`CCB_PROXY_CONNECT`) | outbound.go | Outbound |
| carrier credentials | wscarrier_auth.go | not modelled |
| command line | cmd/golang-ccb/main.go | not modelled |

Registry and Rendezvous meet in the table of targets: a request looks up the
connection that a registration put there. Rendezvous takes targets as given and lets
them go at any time; Registry shows that what the table names is being served. Since a
connection belongs to one daemon for its whole life, a lookup that is stale when it is
used can only lead to a connection that has ended, which Rendezvous allows. Conn
uses a SegLog per direction, which it sees as a sequence of frames; TunnelDir creates
the directory a Conn works in and removes it. Carrier runs on such a pipe, or on a
WebSocket, and takes it as something that is up until it fails. Upstream composes the
inside broker with the Registry of the outside one.

## The modules and the code

**Registry.** One `handleRegister` per connection (`pc`): `RegisterFails` (bad ad or
refused), `Register` (the section under `s.mu`: `Reclaims` is the reconnect check,
`FreshID` the allocation), `Put` into the store's channel of capacity `OpsCap`,
`Reply`, then `serveTarget` until `Deregister` (`removeTarget`, whose own Put is the
step "removePut"). `SweepReconnects` removes under the lock, `SweepDelete` calls Delete
afterwards, id by id. `TakeOp` and `Commit` are the writer's goroutine; a commit may
fail as a whole. `Crash` loses the process, `Shutdown` runs `store.Close` first;
both end with `loadReconnects` by the next process. `recOf` keeps which record object
the table points at, because a handler stamps that object. The clock
ticks freely, and stored times lose their fraction (`Unix`). A cookie is the connection
for which it was generated: `GenerateConnectID` is taken to be fresh.

**Rendezvous.** A request is standard, proxy or relay. Handlers read, look the target
up, register under the lock, forward, wait with the timeout and the server's context,
and clean up in their deferred function. Reverse connections find a session, hand
themselves over through `targetCh` (one place) and wait for `done`. Targets report
results at any time, also late but once per message, may connect back more than once and
go away; a message keeps which request it was sent for (`of`), a report only its id.
The splice is its end: each side may close.

**SegLog.** `append` with `roll`, `timedFlush`, `reap` (in `GetAck`), `close`; the
reader's `next` as `Open`, `fill`, `Decode`, `Corrupt`, and `fillDrops` for a segment
that cannot be reopened. A frame has `Parts` pieces. On a network filesystem
(`netFS`) pieces become visible one by one, at the latest some time after an fsync. CRC: the
pieces of a frame belong together or not.

**BytePipe.** The abstract specification: a FIFO of bytes. SegLog implements it with
`got` mapped to the bytes in the order of their first delivery, so that the refinement
also covers failed reopens, after which the code delivers bytes again.

**Conn.** Both ends, each with a `Write`, a `Read`, a `Close` call and the goroutines
`recvLoop` and `maintLoop`; every section under `sendMu` or `recvMu` is a step, except
that `waitSendWindow`'s two sections are one (the second only reads `recvErr`, which
never goes back to nil). `flowSig` and `dataSig` are channels of one place. Time is one
fact: the peer has been silent for IdleTimeout.

**TunnelDir.** Each `Dial` creates its segment, writes SYN, drops the marker, rings and
waits; `HandshakeFails` and `DialFails` clean up. The acceptor's ticks scan the inbox
(`FastTick` by the doorbell, `SlowTick` the backstop); `accept`'s handshake, `Accept`,
`reapWhenDone` and `ageSweep` follow the code's order; `Crash` and `Listen` (with
`startupScan`) are the restart. "Old" stands for no activity within
AgeSweepThreshold: a tree at which nobody is at work becomes old.

**Carrier.** The inside: `Session` takes `carrierClient.mu` and either returns what there
is or keeps the lock over a dial (`DialPipe`, `DialFails`, and `DialLate`, where the
outside accepted and the inside had given up); `Close` waits for the lock. `Open` is the
goroutine `OpenStream` with its channel of one place against the caller
(`OpenReturns`, `OpenGivesUp`). A stream whose caller gave up stays open, at both ends,
until its session ends: nobody takes it from the channel. The outside: the handler of a
WebSocket offers its pipe to `acceptPipes`, stays while the pipe lives and returns when it
fails or the listener closes; `acceptStreams` offers each stream to the command server.
Both offers are unbuffered and race with the close of `MuxListener` (`CloseMux`, then
`CloseInner`). The initial state chooses WebSocket or tunnel: an accepted tunnel has no
handler, so its session outlives a Close until its pipe fails, and CloseEndsAll
is stated for WebSockets. yamux is external: a session that ends takes its streams along, an
end of a failed pipe notices, and OpenStream waits while `Backlog` streams are not accepted.

**Outbound.** Proxy connects share no state, so the model is one request and the chain of
`handleProxyConnect` handlers it starts, over every configuration of next hops that `New`
accepts and every allow-list. A handler reads, refuses, dials (`StartDial`, an exit)
or forwards with a smaller TTL (`Forward`), waits with RequestTimeout, answers and
splices; connections break and hops hang at any time.

**Upstream.** Extends Registry, as the outside broker, with one of its daemons as the inside
broker. `watchTunnelReady` is its five steps (contact stored, temporary file, rename, close of
`tunnelReady`); `Stamp` and `TellMaster` hand the contact out; `InsideRestarts` forgets
everything but the files.

## The runs

| run | instance | what it shows |
|---|---|---|
| registry_restart | 3 connections, 2 daemons; crash, shutdown, failed commit, lost key | the table's targets are served (NoDanglingTarget), no daemon gets another's ClaimId (ClaimStaysWithDaemon), cookies do not change (CookieStable) |
| registry_live | 2 connections, crash and shutdown, channel of one place, fair | StoreCatchesUp, ShutdownKeepsRecords; DeadTargetReaped, HandlerAnswers, StaleSwept |
| rendezvous | 2 requests, targets, reverse connections and connect ids, all modes, fair | AnswerIsOurs, SplicedToAskedTarget, SessionFindable, NothingLeftOpen; RequestEnds, SplicedHandlerReturns |
| seglog_pipe | 3 DATA frames and a control frame, 2 frames to a segment, both filesystems, a failed reopen, fair | DeliversInOrder (BytePipe), ExactUnlessDropped, ReapedDataRead, NoUnsyncedTail, OnlyReapStrands |
| conn | windows 2 and 12, frames of 3, 3 bytes, the reader closes, either end dies, fair | WindowKept, AckedWasRead; WriteGetsOn, ReadWakes, SilenceNoticed |
| tunnel_dir | 2 dials, one with failing file operations, a crash of the acceptor, fair | EngagedIsSeen, LiveTreeKept; DialGetsThrough, ResidueGoes |
| carrier | 2 callers, 2 pipes, a backlog of 1, WebSocket and tunnel, fair | SoleSession; CallEnds, StreamSettles, PipeGoesDown, CloseEndsAll |
| outbound | 3 brokers, 3 hosts, TTL up to 2, fair | HopsBounded, SuccessIsReal; RequesterAnswered, ChainFolds |
| upstream | 3 connections, 2 daemons, one of them the inside broker, fair | HandedOutLeadsHome, ContactIsCurrent; ContactAnnounced |
| registry_swept, rendezvous_stuck, seglog_stall | as small as the behaviour allows | a statement of the repository that does not hold, see Divergences |

### Bounds

Three connections are the old and the new connection of one daemon and one of
another; registry_live has two, for its state space is searched for cycles. CCBIDs are bounded
by MaxID so that every connection can get a fresh one and a restart can still add its
guard (RestartGuard stands for 100). One place in the store's channel makes handlers wait. Two
requests are enough for a retry under the same connect id; the server's context is cancelled
while at most MaxAtStop requests are there. In Rendezvous, Carrier and Upstream
names that have not been used are as good as one another and are taken in a fixed order.
Windows of 2 and 12 bytes and frames of 3 leave
less room than a frame, and are such that the reader's quarter exceeds the writer's window.
Two frames to a segment give segments that are closed, current and not
yet opened at once. Two callers and two pipes are a redial with another caller waiting, and
a backlog of one makes OpenStream wait. With three brokers there are chains, a cycle of two
and one of three; DefaultTTL is 1 (8 in the code) and MaxHops one more than the largest TTL
needs, so that a hop too many would be seen. Upstream has no faults of the outside broker
and no store: what a restart of the outside does to it is under Divergences. Deadlock is
not checked: every instance has finitely many connections, requests or bytes and
comes to a rest.

### Fairness

Weak fairness of each goroutine that can take a step, and of timers (tickers, the
request timeout, the idle deadlines): the Go scheduler and runtime give that. The
store's writer, the sweep ticker and the filesystem (what is synced becomes
visible) are fair too. In Conn the application keeps reading, as yamux's read loop does.
Peers are never assumed to answer, dial, close or connect, and no ring of a doorbell need be
noticed. In Rendezvous, Carrier and Outbound no action can be taken for ever, so that weak
fairness of all the goroutines together says the same as that of each, and is what is
stated; in Conn the maintenance loop can, and has its own. In Upstream only the watcher is
fair. In TunnelDir an initiator that has begun gets on, and a crashed acceptor is started again.

## Proofs

Every safety property that a run checks is also a theorem, for any sets of connections,
daemons, requests and brokers and any bounds, from the named assumptions of the modules
(`ConstantsOK`, `NullsOK`, `InsideOK`, `RendezvousOK`, `SegLogOK`, `ConnOK`, `TunnelDirOK`,
`CarrierOK`, `OutboundOK`), which only give constants their types and keep null values apart;
the three theorems that assume more say so. Each
inductive invariant was model-checked before it was proved. In most of the proof modules
a leaf goes to Zenon unless it cites SMT.

**Registry** (`RegistryInv`, `RegistryProofs`). `RegistryInv` defines the inductive invariant.
`IInv` is TypeOK and: `HandlerState` (a registered handler has its request and registration),
`IdsGivenOut` (no CCBID in use is above nextID), NoDanglingTarget, LiveTargetHasRecord,
`CookiesAgree` (all that is in the table, in handlers, queue, batch and database under a CCBID
agrees on the cookie, as far as the table has a record), `RecordOrigin`, `RecordsTracked` (a
record is in the database or on its way there) and `CookieOwners` (a cookie anywhere is that of a
registration of the daemon it was made for). NoDanglingTarget by itself is not inductive: it
needs that two handlers of one CCBID do not undo each other in the wrong way, which rests on
HandlerState and IdsGivenOut. Proved from it: TypeCorrect, TargetsAreServed, TargetsHaveRecords,
ClaimsStay, StoreConverges, CookiesStable, ShutdownFlushes; with `"crash" \notin Faults` and the
further invariant `OneLifetime`, ContactsLeadHome.

**Upstream** (`UpstreamProofs`). To the outside broker a restart of the inside one is the loss
of its connections, so `IInv` of Registry holds in the composition. HandedOutLeadHome: a contact
that was handed out, in whatever life of the inside broker, is under a cookie made for
it (`ContactsHome`); with OneLifetime, whoever is registered under that CCBID presented that
cookie. It assumes `"crash" \notin Faults`: a crash before the first row is stored makes
numbering begin again (Divergences). CachedContactIsCurrent: `RecordsStay` (without a store nothing is
swept, so the record that a registration made or found is there), `OneUplink` (a daemon uses one
connection at a time; what it presented on it is what it holds until it is answered, and what it
will be answered) and `ContactKept`. The theorem assumes `AllowAnyIP` or a single address: a
broker that comes back from another address is given a new CCBID, as handleRegister's check of
the peer address intends, and the contact it stored is then the old one. The run
has one address.

**Conn** (`ConnProofs`). `IInv` is the typing of the flow variables, `RoomSound` (a measured room
is still there when it is used: only the one writer takes from it), `AcksSound` (every
acknowledgement that is computed, in the log or taken was read) and `DataSound` (what is
sent is in the log, the buffer or read). From it WindowHolds, AcksAreReads,
AcksNeverFall. Two theorems are the safety behind the liveness of the run, for any windows.
WakeupsAreNotLost (NoLostWakeup, by `SleepInv`): whoever changes what a sleeper waits for
signals it, and whoever takes the signal is awake and looks again. AcksAreUnderway (AckUnderway):
`StreamWhole` says that every byte that was sent has arrived or is in a DATA frame of the log, and
`AcksArrive` that what `lastAckSent` counts as acknowledged is in the log or was taken by the
writer; so unacknowledged bytes always leave something to be done that moves the
window, though by the reader's own window no ACK may ever be due.

**SegLog** (`SegLogProofs`). `LogInv`: frames are appended at the end, a ROLL is the last frame of a
segment that is not the current one, the DATA offsets in the log increase and leave no gap.
`ReaderInv`: unless the carry-over begins with a torn frame (`Torn`, after a failed reopen), the
reader stands behind the k-th frame of its segment for some k (`Clean`), and every DATA frame
before that place has been delivered (`Behind`), so that the next one is new only if it is
the byte after the last new one. `ExactInv`: without a failed reopen nothing after that place
has been delivered either (`Ahead`). `ReapInv`: a closed segment is remembered with at least
the DATA offset in it, and unlinked when this is acknowledged. From these TailsAreSynced, DeliversExactly, ReapsWhatIsRead, and ImplementsPipe:
the initial state is one of BytePipe, and each action is a Send, a Deliver or a stutter.
The mapping takes the history variable `first`, the bytes in the order of their first
delivery, for BytePipe's `got`.

**TunnelDir** (`TunnelDirProofs`). EngagedIsSeen is inductive with its types. LiveTreeKept needs
`OldIsOver` besides: a subtree that has grown old belongs to a Dial that has ended. Theorems
EngagedAreSeen, LiveTreesKept.

**Rendezvous** (`RendezvousProofs`), in five layers. `SessionInv`: requests under one
connect id ask for one target (so requesters behave, `Arrive`), and an entry of `proxies`
leads to a request with that id; it makes SessionFindable inductive, the point being that a
refused duplicate never reaches the deferred delete. `SpliceInv` follows a connect id from
the request into the message, the reverse connection, the session found and `targetCh`; a
connection is handed over once. `NumberInv`: nextReq counts the requests that have an id, so
ids are unique and within ReqIDs (a cardinality argument). `AnswerInv`: whatever is on its
way as a report, held by deliverResult or in `replyCh` was said by the target about that
request. `LeftInv`: only standard requests get reports, so a relay cannot leave by an answer; a
handler has no connection before it takes one; and one that leaves has closed what it had.
Theorems: SessionsFindable, SplicesAreAsked, AnswersAreOurs, NothingIsLeftOpen.

**Carrier** (`CarrierProofs`). SoleSession is strengthened by who holds the lock: a call that
dials holds `mu`, and then there is no session. Theorem SoleSessionAlways.

**Outbound** (`OutboundProofs`). HopsBounded says how far the chain got, and not what budget is
left; `TTLInv` says that the TTL a handler reads and its number add up to the originator's
budget. `SuccessInv` adds what a handler knows where it is (`KnownAt`: an answer of success is
sent after a dial or after the next hop's success), so that behind every success
there is a chain that reaches an exit (`Reaches`), which the later steps leave as it is (`Stands`).
Theorems HopsAlwaysBounded, SuccessIsAlwaysReal.

AckNeverFalls, NoLostWakeup and AckUnderway of Conn, and Registry's TypeCorrect,
TargetsHaveRecords and ContactsLeadHome, are proved and not the subject of a run.

Only model-checked: every liveness property (DeadTargetReaped, HandlerAnswers, StaleSwept,
RequestEnds, SplicedHandlerReturns, OnlyReapStrands, WriteGetsOn, ReadWakes, SilenceNoticed,
DialGetsThrough, ResidueGoes, CallEnds, StreamSettles, PipeGoesDown, CloseEndsAll,
RequesterAnswered, ChainFolds, ContactAnnounced): fairness is stated with ENABLED, which the
prover does not reason about. No result here needs induction over data: what a log holds is
stated of its places, and not by a recursive function of it.

## Divergences

Statements of comments and documentation that the code does not keep. The first three
are kept as runs. Of the others, those with a property and constants were refuted by TLC with these
constants, and the definitions stand at the end of the modules; the last two were met in
reading the code.

| statement | property | what happens |
|---|---|---|
| server.go:75 | ConnectedNeverSwept (run registry_swept) | removeTarget of an old connection deletes the new one's entry; its record is swept later |
| proxy.go:214 | HandedOffReturns (run rendezvous_stuck) | a connection handed over as the request times out is never taken, `done` never closed |
| seglog.go:138 | DeliversAll (run seglog_stall) | reap goes by DATA offsets and unlinks segments whose other frames are unread; the reader waits for ever |
| seglog.go:259 | ReopenHarmless: MaxDrops 1, netFS | the segment is read again from its start: bytes twice, or corruption |
| server.go:402 | CCBIDsNotReissued: Faults {"crash"} | with no row stored numbering starts again from 1 |
| server.go:74 | StaleSwept: Persistent FALSE | without a store no sweep is started |
| server.go:617 | (not stated; needs the time of the disconnect) | after a restart the TTL counts from the registration |
| proxy.go:219 | OneTargetPerSession: 2 reverse connections | once the first was taken a second one is accepted |
| TRANSPORTS.md:291 | BacklogBounded (in MC_SegLog): MaxCtl 8 | control frames pile up until the next ACK |
| TRANSPORTS.md:259 | NoDataAfterFin: window 2, writer closes | DATA between FIN and sendClosed |
| TRANSPORTS.md:353 | EofStays: window 2, writer closes | an idle error replaces io.EOF |
| TRANSPORTS.md:287 | AckEveryQuarter: windows 2 and 16 | the reader goes by its own window |
| TRANSPORTS.md:357 | ReapAfterBothFins: acceptor closes | the subtree goes after the acceptor's Close alone |
| TRANSPORTS.md:309 | FailedDialNotEngaged: 1 dial | the acceptor may have engaged a dial that times out |
| listen.go:163, TRANSPORTS.md:191 | ReengagedFromStart: 1 dial, MaxCrashes 1 | a restarted acceptor begins a new pipe with an initiator in the middle of the old one |
| server.go:192 | ContactIsCurrent without its condition: Faults {"crash"} | an outside broker that lost its records gives another CCBID; the stored contact stays the first |
| server.go:88, outbound.go:142 | (pure configuration) | both comments say that an empty allow-list permits nothing; matchAllowlist, and its own comment, permit everything that is not local |
| server.go:280 | HopsBounded | the comment says the wire format carries no hop counter; the TTL of outbound.go is one, and it ends cycles |

## Not modelled

- Ad parsing, encryption, authentication and authorization: a handler may fail there.
- Conn: deadlines, ERROR frames (never emitted), errors of file operations.
- TunnelDir: Listener.Close while the process goes on.
- Carrier: tokens, TLS and the framing of WebSockets; yamux's own windows and keepalive timing.
- Outbound: how an entry of the allow-list is matched (a set of hosts stands for it).
- Upstream: the registration client, which is cedar's.
- wscarrier_auth.go, main.go, config.go: I/O, flags and defaults, no state to go wrong.

## Plan

1. Upstream with a store and restarts of the outside broker.
2. Conn: deadlines, and errors of the segment files.

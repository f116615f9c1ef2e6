# TLA+ models of igor's protocol core

This directory holds TLA+ specifications of the concurrent parts of igor, a
Diameter/RADIUS AAA server, with TLC configurations that check them. Every
definition is written from the Go source under `src/`; `PROJECT.json` maps
each definition to the lines it models.

## 1. The system and its parts

| Part | Source | State and concurrency | Model |
|---|---|---|---|
| Diameter peer actor | `src/diampeer/diamPeer.go` | one event-loop goroutine owning `status`, `requestsMap`, `outstandingDWA`, the watchdog ticker; a buffered `eventLoopChannel` (100) fed by the connect goroutine, the read loop, `DiameterRequest` callers, handler goroutines, the router (`Disengage`) and the loop itself | `DiamPeer`, `MC_DiamPeer` |
| Configuration object cache | `src/config/config.go` | `ObjectCache` and `InFlight` `sync.Map`s; one `sync.Once` per object being fetched; concurrent `GetConfigObject` and `InvalidateConfigObject` | `ConfigCache`, `MC_ConfigCache` |
| FreeRADIUS dictionary parser | `src/core/freeradius_parser.go` | sequential, recursive on `$INCLUDE`; vendor sections | `FreeradiusParser`, `MC_FreeradiusParser` |
| RADIUS server | `src/unnamed/part_006` (`RadiusServer`) | read loop on a UDP socket, one goroutine per accepted packet, atomic `status` for `Close` | `RadiusServer`, `MC_RadiusServer` |
| AVP filters, HTTP router and handler, CDR writers, handler functions | `src/unnamed/part_00{1..4,6,7}`, `src/httprouter` | formatting and glue, no shared state | not modelled |
| Diameter router, RADIUS client engine, codecs | not in `src/` (only codec tests) | named by the spec | not modelled yet (a router module from the spec is planned) |

How they interact: the router creates peers (`NewActiveDiameterPeer`,
`NewPassiveDiameterPeer`), receives `PeerUp`/`PeerDown`/`PeerCloseCommand`
on the peer's `ControlChannel`, and calls `DiameterRequest` and
`Disengage`. Peers and the RADIUS parser read configuration through the
config cache.

## 2. DiamPeer: the Diameter peer actor

### State

| Variable | Code |
|---|---|
| `status` | `dp.status` (Connecting .. Closed) |
| `evq` | `dp.eventLoopChannel`, a FIFO of the internal message types |
| `requestsMap` | `dp.requestsMap`: HopByHopId to the caller whose RChan is stored |
| `outstandingDWA`, `tickerArmed` | `dp.outstandingDWA`; whether `watchdogTicker` was reset by `PeerUpMsg` |
| `blocked` | the caller the loop is stuck sending to (unbuffered RChan with no receiver) |
| `conn`, `cut`, `readLoop` | the TCP connection (dialing, failed, open, eof, broken, closed), a silent network cut, the `readLoop` goroutine |
| `toPeer`, `fromPeer`, `remoteBudget` | bytes in flight each way, and how many requests the remote node may still originate |
| `req` | each `DiameterRequest` caller: idle, waiting in its select, or returned (answered, error, timeout, nil from a closed channel) |
| `handlers` | running handler goroutines, a bag of HopByHopIds |
| `ctrl` | events sent on `ControlChannel` |
| `wrote`, `capsSeen`, `disengaged` | history: CEA/DPA handed to `WriteTo`, CER/CEA processed, `Disengage` called |
| `chanClosed`, `crashed` | `DiameterPeer.Close` has closed `eventLoopChannel`; a goroutine sent on it afterwards (a Go panic that ends the process) |

### Actions

One action per case of the `select`/`switch` of `eventLoop`
(`HandleConnectionEstablished`, `HandleConnectionDown` for the three
terminating messages, `HandleWriteError`, `HandlePeerUp`, `HandlePeerClose`,
`HandleEgress`, `HandleIngressCER/DWR/DPR/AppRequest`,
`HandleIngressCEA/DWA/AppAnswer`, `HandleCancel`, `HandleWatchdog`), each
taking the whole case including the self-sends it queues, in the order the
code queues them. Around the loop: `Tick` (watchdog ticker), `Connect`
(the connect goroutine), `ReadMessage`/`ReadEnd` (the read loop),
`CheckStatus`/`SendRequest`/`RequestTimeout` (the unsynchronised status
read, then `wg.Add` and the Egress, then the timer half of
`DiameterRequest`), `HandlerDone` (a handler goroutine answers or returns
an error), `Disengage`, `Close` (the router, once it has `PeerDown`:
`wg.Wait` as a guard that `WaitGroupCount` is zero, then the channel is
closed), and the remote node and network (`RemoteReceive`,
`RemoteSend`, `RemoteClose`, `ConnectionBreak`, `NetworkCut`).

Abstractions: a Diameter message is a record of kind, a validity bit (for
CER: Origin-Host known and address accepted; for CEA/DWA: Result-Code
success and Origin-Host as configured) and a HopByHopId; AVP contents are
not modelled, and a remote CER always carries an Origin-Host. A send on
`ControlChannel` is assumed to be received (the router's loop is not
modelled). Undefined behaviour is a nondeterministic choice: when the loop
closes during a dial, the unsynchronised `dp.cancel` may still be nil and
the dial may go on.

### Runs

| Run | Expect | Checks |
|---|---|---|
| `peer_active` | pass | `TypeOK`; `EngagedOnlyAfterHandshake` (Engaged only after a successful CER/CEA); `WatchdogClosesInTime` (more than three unanswered DWRs implies closed or a close queued) |
| `peer_passive` | pass | `CERRejectionAnswered`; `WatchdogDetectsCut` (a cut while Engaged leads to Closed, under `FairSpec`, also after the remote sent a DWA nobody asked for and `outstandingDWA` went negative) |
| `pending_table` | pass | `WaitingRequestTracked` (a waiting caller still has its request queued or its own entry), two callers sharing a HopByHopId, answers racing timeouts on a healthy connection; an entry left behind by a failed write (diamPeer.go:437-441, every failed write) is a hazard, not a passing property |
| `reply_after_timeout` | violation | `NoOrphanedReplySend`: the loop blocks on the RChan of a caller that timed out |
| `peer_up_unchecked` | violation | `LifecycleRefined` on an active peer whose remote sends a DPR or a CER during the handshake: a queued `PeerUpMsg` moves Closing back to Engaged |
| `conn_leak` | violation | `ConnectionReleased` (no established connection is open once the loop has returned; a dial still in progress is no leak): Disengage during the dial ends the loop, the dial then succeeds and its `ConnectionEstablishedMsg` is never received |
| `close_after_peerdown` | violation | `NoSendOnClosedChannel`: Close, called after PeerDown, closes the channel while the readLoop (not in the WaitGroup) still sends its `ReadErrorMsg`; a caller past its status check does the same with its Egress |
| `cancel_foreign_entry` | violation | `NoUnreachablePanic`: a cancel closes another caller's channel |

Bounds: one or two callers and two HopByHopIds; a queue bound of 3 on
the sends of goroutines other than the loop (the loop's own self-sends are
never refused, as the channel of 100 is far from full in these runs); four
watchdog ticks, one more than the three unanswered DWRs after which the
code closes; a remote budget of one or two originated requests. These
reach every case of the loop, the close paths after each handshake step,
and the answer/timeout/cancel races for both callers.

Fairness (`FairSpec`, used by `peer_passive` only): weak fairness on the
event loop, the ticker, the connect and read goroutines and handler
goroutines, which are goroutines scheduled by the Go runtime and never
wait on anything the model leaves out. Callers, the remote node and the
network get no fairness. `peer_passive` has no callers, so the loop never
blocks on an orphaned reply (the `reply_after_timeout` finding), which would
otherwise stop it for ever and make the liveness check fail for that reason.

## 2a. PeerLifecycle: what a peer promises its router

`PeerLifecycle` is the abstract specification of a peer as its router sees
it (spec 4.D and the peer invariants of section 8): the status only moves
Connecting, Connected, Engaged, Closing, Closed, with `Closing` left only to
`Closed`; `PeerUp` is reported at most once, on or while being Engaged;
`PeerDown` is reported exactly when the peer becomes Closed. Its variables
are `lifecycle` and `reported`, the events in order.

`DiamPeer` instantiates it with the refinement mapping
`lifecycle <- status` and `reported <- Reported`, the `ctrl` events without
the `PeerCloseCommand`s (those go to the router but are not lifecycle
events), and checks `LifecycleRefined == Lifecycle!Spec` as a property.
Every DiamPeer step either stutters on both or is one abstract step: e.g.
`HandlePeerUp` is `ReportUp`, a DPR or a failed write is `InitiateClose`,
`ExitLoop` is `Close`.

* No passing run checks `LifecycleRefined`: the peer does not implement
  the lifecycle, and a run that passed would have to leave out the DPRs,
  failed writes and failed CEA writes that break it for a passive peer too
  (an accepted CER queues the CEA, then the `PeerUpMsg`, diamPeer.go:471-472
  and 735).
* `peer_up_unchecked` finds the violation on an active peer. The CEA case queues a
  `PeerUpMsg`; a DPR queued behind the CEA sets Closing; the `PeerUpMsg` case
  (diamPeer.go:375-381) then sets Engaged and sends `PeerUp` with no status
  check. The same missing check gives two `PeerUp`s on a CER collision.

## 3. ConfigCache: the configuration object cache

`ConfigCache` models `GetConfigObject` and `InvalidateConfigObject` of
`src/config/config.go` for one object name (names never interact). State:
`cache` (`ObjectCache`), `inFlight` (`InFlight`), the `sync.Once`s created
(`once`, `outcome`), each caller's program counter `pc` and the once it
obtained (`mine`), and the version of the object at its file or URL
(`remote`). The content of an object is a version number; `ReadConfigObject`
returns the current version or fails (returning the empty object). Each
access to shared state is one step: `Load` (first cache try), `GetOnce`
(`LoadOrStore`), `Do`, `Read`, `Store` (only on success), `Release`
(`InFlight.Delete`, end of `Do`), `Reload` (second cache try), plus
`InvalidateConfigObject` and `UpdateRemote`.

| Run | Expect | Checks |
|---|---|---|
| `config_singleflight` | pass | `TypeOK`; `AtMostOneRetrieval`: two goroutines, two calls each, failing reads, an update and an invalidation never run two retrievals at once; `ErrOnlyAfterFailure`: a call ends in "could not get configuration object" only after some read failed or the cache was invalidated, so a caller that took another's once, or came after its `Delete`, always waits in `Do` and finds the stored object (broken by a `Do` that does not wait for a running retriever) |
| `config_stale` | violation | `CacheFreshAfterInvalidate`: content read before a change and its invalidation is stored after the invalidation |

The same interleaving one step later (an invalidation between the
retriever's `Store` and the second `Load`) makes a call fail although its
read succeeded; it is listed as a hazard.

## 4. FreeradiusParser: the RADIUS dictionary parser

`FreeradiusParser` gives `ParseFreeradiusDictionary` and `parseRadiusType`
as operators: `ParseFreeradiusDictionary` and `ParseLines` are mutually
RECURSIVE (the call per configuration object, and the scanner loop with its
switch), one operator per directive (`AddVendor`, `StartVendor`,
`ResetVendor`, `AddAttribute` with the option fold `OptionFlags`,
`AddValue`), and every error return. A line is its directive and words after
tokenising; `NotANumber` is a word `strconv.Atoi` rejects; `MaxDepth`
stands for the goroutine stack on include cycles. The only variable is the
content of the files, chosen in `Init`.

The reference definition (`RefEntries`) is the grammar of spec 4.A read
declaratively: the non-VSA ATTRIBUTE lines of every file reachable through
`$INCLUDE`, each under the vendor of the last `BEGIN-VENDOR`/`END-VENDOR`
before it in its own file, with the flags of its option set. `ValidDictionary` is the grammar's
acceptance: no cycle of `$INCLUDE`s, every reached line well formed
(numbers, type words, known flag tokens) and every `BEGIN-VENDOR` naming a
vendor declared before it in reading order (`ReadingOrder`, the files with
each `$INCLUDE` replaced by the included lines).

| Run | Expect | Checks |
|---|---|---|
| `parser_reference` | pass | `ParsedMatchesReference` (a successful load holds exactly the reference entries); `LoadSucceedsIffValid` (the load succeeds exactly on the dictionaries the grammar accepts) |

Bounds: a top file of up to three lines over 16 line kinds and an included
file of up to two over 6 (187,867 dictionaries), covering vendors defined
before and after use, sections opened in one file and attributes in
another, self and mutual includes, each option and each error path. Types
and enum values are left out of the comparison (see hazards).

## 4a. RadiusServer: the RADIUS server socket

`RadiusServer` models `NewRadiusServer`, `readLoop`, the per-packet handler
goroutine and `Close` of `src/unnamed/part_006`. State: `status`
(`rs.status`), `socket` (open or closed), `inbox` (datagrams received but not
read), `loop` (reading, returned, panicked), `closer` (the goroutine in
`Close`: idle, closing, returned), `goroutines` (each handler goroutine's
datagram and program counter).

Actions: `ReadError` (ReadFrom fails on the closed socket; return if the
status is `StatusTerminated`, else panic), `ReadPacket` (one iteration:
`FindRadiusClient`, decode, `ValidateRequestAuthenticator` unless an
Access-Request, then a goroutine), `Handle` (the handler and `ToBytes`:
a response or an error), `WriteResponse` (`WriteTo`, failing on a closed
socket), `Close` in its two steps (store the status, close the socket), and
the clients' `ClientSend`, which UDP may lose or duplicate. A datagram is
a record of sender, whether it decodes, its code and whether its
authenticator is valid; the handler and the codec are outcomes.

| Run | Expect | Checks |
|---|---|---|
| `radius_server` | pass | `NoPanicOnClose` (Close never makes readLoop panic, however it interleaves); `CloseStopsServer` (once Close returns, readLoop returns and every handler goroutine ends) |

Bounds: three datagrams sent, over five kinds (Access-Request,
Accounting with a good and a bad authenticator, one that does not decode,
one from an unknown client), with loss and duplication, so up to six
goroutines race `Close`. Fairness (`FairSpec`): weak fairness on
`readLoop`, each handler goroutine and a `Close` under way, all goroutines
of the process; clients, and whether `Close` is called, get none. A server
never closed waits for ever, so deadlock is not checked.

## 5. Plan

1. DiamPeer (done): event loop, handshake, watchdog, pending table.
2. PeerLifecycle (done): the abstract peer lifecycle; DiamPeer is checked against it and does not refine it (peer_up_unchecked).
3. ConfigCache (done): single-flight and invalidation.
4. FreeradiusParser (done): RECURSIVE parser against the grammar.
5. RadiusServer (done): read loop, handler goroutines, Close.
6. An abstract request-slot specification (each caller's request is
   answered, failed or timed out exactly once) refined by DiamPeer.
7. The HTTP router's Run/Close lifecycle (`src/httprouter`).
8. A router module from the spec composing peers (spec-modelled).

The project keeps to twelve runs, all in use. Bugs a single unit test
shows deterministically have no run and are listed as hazards: the DPA
dropped on every DPR (diamPeer.go:484) and the requestsMap entry stored
after every failed write (diamPeer.go:437). New checks go into existing
passing runs where their models share a configuration.

## 6. Not modelled

Codecs and CDR formatting (byte and string manipulation), HTTP glue
(`src/httprouter`: its concurrency is `net/http`'s `Shutdown`, its handlers
a sequential ladder of error returns around router code that is not in
`src/`; spec section 1 puts it out of scope, and the run budget goes to the
protocol core),
metrics and logging, `pushCEAttributes` (content of the CER/CEA), and
the eventLoop's deferred wait on `readLoopChannel` (after PeerDown, it
changes nothing the router sees; it can wait forever on a readLoop blocked
on a full channel, a hazard listed with the 100-event channel bound out of
reach). The handleCER path for a CER without Origin-Host (closed with no
CEA) is a deterministic divergence listed as a hazard: the model's CER is
valid or invalid only. In the config cache, the
search rules of `ConfigManager.Init` and the file/HTTP reads are I/O and
are abstracted to success or failure; so is `ReadConfigObject`'s fallback
from the instance-specific location to the generic one, whose transient
failure caches the generic object (listed as a hazard). In the parser, lines with too few
words (an index panic or an error return) and missing configuration
objects are not generated; comment stripping and tokenising are taken as
done. `src/unnamed/part_005` is dictionary data, the parser's input.

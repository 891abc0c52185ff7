# Verification of the torrentfs peer protocol and demand scheduler

TLA+ models of the CortexTheseus file-distribution core
(`src/vendor/github.com/CortexFoundation/torrentfs/fs.go`) and its neighbours,
TLC runs on small instances, and TLAPS proofs for every value of the constants.

## 1. Inventory

### Components, their state and operations

| Component | Source | State | Operations |
|---|---|---|---|
| Demand scheduler ("bitsflow") | fs.go 271-302, 476-484 | `callback` (chan, cap 1), `ttlchan` (chan, cap 1024), the `ttl` timer and the 60s ticker | `bitsflow` (blocking send), the `listen` goroutine's select: need event, tick, status ticker, `closeAll` |
| Fetch path | fs.go 788-815 | none of its own; ChainDB progress ledger, TorrentManager | `download`: SetTorrentProgress, Exists, spawn broadcast goroutine, Search; `Download` = `bitsflow` |
| Dedup tunnel | fs.go 234-244, 517-529 | `tunnel` (ttlmap: hash -> size, 60s TTL) | `broadcast` (Get, then Set), expiry, `Drain` |
| Peer registry and dispatcher | fs.go 321-405, 547-561 | `peers` map under `peerMu`, `in`/`out` counters, per-session `peerInfo` | `HandlePeer` (register, handshake, loop, unregister), `runMessageLoop` (Status, Query -> `wakeup`, Msg, errors) |
| Shutdown | fs.go 488-515 | `once`, `closeAll`, `wg` | `Stop`: once { close handler, db, monitor; close(closeAll) }; wg.Wait; tunnel.Drain |
| Instance | fs.go 102-257, 432-473 | the `inst` singleton under `mut` | `New`, `GetStorage`, `Start`, `init` (checkpoint needs) |
| Compute consumer | fs.go 563-615 | `worm` seen-set | `GetFileWithSize` (background wakeup in `wg`, poll loop with deadline, oversize guard), `encounter` |
| Status oracle | fs.go 817-831 | none | `Status`: Pending > Downloading > Seeding > Missing |
| Local seeding | fs.go 617-785 | filesystem | `SeedingLocal`, pause/resume, `Drop`, `Tunnel`, `ListAllTorrents` |
| Inference server | src/unnamed/part_000 | `globalInferServer`, `inferWorkCh` (unbuffered), `exitCh`, `stopInfer`, result cache | `New`, `SubmitInferWork`, `Close`, `fetchWork`, `localInfer`, `checkFileExists` |
| RPC server | src/rpc/server.go | `codecs` under `mutex`, atomic `run` | `ServeCodec`, `trackCodec`, `untrackCodec`, `serveSingleRequest`, `Stop` |
| Dashboard service | src/torrentfs/torrentfs.go | the TorrentManager and Monitor it builds | `New`, `Start` (spawns the monitor), `Stop` |
| FileMeta codec | src/torrentfs/gen_filemeta_json.go | the target `FileMeta` | `MarshalJSON`, `UnmarshalJSON` |
| Not system code | other generated codecs, libc_musl.go, flux unary.gen.go, test files, README | - | - |

### Interactions

Producers (the chain monitor, `init`'s checkpoint files, the `Download` API)
send need events on `callback`. The single `listen` goroutine fetches a need
at once when its request is non-zero or the hash is good, and otherwise defers
it to `ttlchan`, from which every 3s tick pops one. `download` merges the
request into the ChainDB ledger, spawns a `broadcast` goroutine (counted in
`wg`) when the file is not yet present, and calls TorrentManager.Search.
Peer sessions are goroutines of the p2p server; a Query message calls `wakeup`,
which reads the ledger and calls Search. `Stop` closes the collaborators and
`closeAll`, waits on `wg` (listen, broadcast and wakeup goroutines) and drains
the tunnel. The inference server consumes files through the storage and has
its own submit/close protocol; the RPC server tracks codecs and closes them on
stop.

### What is hard

- concurrency: many broadcast goroutines share the tunnel, whose Get and Set
  are separately synchronised; peer loops run beside listen and Stop;
- ordering in shutdown: collaborators are closed before the goroutines that
  use them are stopped; `wg.Wait` must precede the tunnel drain;
- bounded channels: listen sends to a channel only it drains; producers block
  on a one-slot channel;
- timeouts and retries: the GetFileWithSize poll loop, checkFileExists' 5s
  retry, TTL expiry of tunnel items.

### Properties that make each component correct

- Scheduler: every need raised is eventually fetched (unless shutting down);
  listen never blocks itself; Stop always returns.
- Tunnel: a live item is only replaced by a larger one; after Stop it is
  empty. (That an item never exceeds the ledger follows from the ledger merge
  alone, which is ChainDB code not under src/ and modelled from the spec, so
  it is not stated as a property of this code.)
- Shutdown: no collaborator call after close (spec 5, drain-then-close); every
  counted goroutine has ended when Stop returns.
- Peers: a session is registered exactly while its HandlePeer runs.
- Consumer: no result longer than the declared size is returned.
- Inference: every submitted work gets exactly one answer; submit after close
  fails instead of blocking.
- RPC: after Stop no tracked codec stays open.

## 2. Plan

1. `TorrentFS` (done): scheduler, fetch path, tunnel, peer sessions, Stop.
2. `RpcServer` with the abstract `ServerLifecycle` and the refinement (done).
3. `TorrentFSService`, `FileMetaCodec` (done).
4. `InferServer` (done): New, SubmitInferWork, Close, fetchWork, localInfer.
5. Next: `TorrentFS` extended with GetFileWithSize and `encounter` (wg.Add
   from an external caller racing Stop, the poll loop against a deadline, the
   oversize guard) and the Status oracle; a `Tunnel` abstract specification
   refined by a serialised broadcast variant.

## 3. Modules

### TorrentFS.tla (fs.go)

| Variable | Code |
|---|---|
| `callback`, `ttlchan` | the two channels, as sequences bounded by `CallbackCap`, `TtlCap` |
| `lpc`, `lmsg` | the listen goroutine: looping, blocked in `fs.ttlchan <- msg` holding `lmsg`, or returned |
| `sent` | needs raised by producers (bounded by `MaxNeeds`) |
| `ledger` | ChainDB progress per hash (not under src/: the merge is the max of old and request, from spec 4.4) |
| `searched` | Search calls per hash |
| `bcast` | count of live broadcast goroutines per (hash, size, stage), stage = before Get or before Set |
| `tunnel` | the ttlmap: size per hash or `NoEntry` |
| `closed`, `closeAll`, `spc` | collaborators closed, the closeAll channel, each Stop caller's position |
| `ppc`, `msgs`, `peers`, `in`, `out` | each HandlePeer goroutine, messages read, the `peers` map, the counters |

Actions: `Bitsflow`, `ListenCallback`, `ListenTick`, `ListenExit`,
`BroadcastGet`, `BroadcastSet`, `Expire`, `StopOnce`, `StopWait`,
`PeerConnect`, `PeerHandshake`, `PeerRead`, `PeerReadError`, with `download`,
`wakeup` and `Unregister` as the parts they share. Abstractions: hashes are
model values already in lower case and all well formed; the 60s status ticker
only logs and is omitted; Exists and collaborator errors are free choices;
peerInfo contents are not kept; peers do not reconnect. The tick that finds
`ttlchan` empty changes nothing and is a stutter. Once listen is blocked on
the full ttlchan nothing can resume it, so the blocked state is absorbing.

`MC_TorrentFS.tla` gives the model values.

### RpcServer.tla and ServerLifecycle.tla (rpc/server.go)

| Variable | Code |
|---|---|
| `run` | the atomic `s.run` |
| `codecs` | the `s.codecs` set, written under `s.mutex` |
| `hungup` | per codec: `close()` called, so `closed()` fires |
| `cpc` | each `ServeCodec` goroutine: idle, serving (tracked, waiting on `closed()`), done |
| `rpc` | each `serveSingleRequest`: idle, checked (passed the unlocked `run.Load()`), done |

Actions: `ServeCodec` (with `trackCodec`: refused and closed when not
running), `ClientHangup` (the client ends the connection), `ServeReturn`
(with `untrackCodec`), `SingleCheck`, `SingleServe`, `Stop` (the successful
CAS closes every tracked codec; a failed CAS is a stutter). Each critical
section of `s.mutex` is one action. `ServerLifecycle` is what the server
promises a client: it admits connections while running, and `Shutdown` stops
admission and ends every open connection in one step. `RpcServer` refines it
with `running <- run` and `open <- {c \in codecs : ~hungup[c]}`.

### TorrentFSService.tla (torrentfs/torrentfs.go)

`svc` (new, started, stopped) and the numbers of TorrentManager and Monitor
goroutines running; `Start` spawns the monitor, `Stop` only logs.

### FileMetaCodec.tla (torrentfs/gen_filemeta_json.go)

`meta` is the FileMeta a caller decodes into again and again, `err` the last
decode's result. `MarshalJSON` maps a nil `AuthorAddr` to JSON null;
`UnmarshalJSON` fails on a value of the wrong type (`Bad`) before writing any
field, and otherwise writes exactly the fields present and not null. Field
values are small sets: two addresses and nil, URIs "" and "u1", numbers
0..MaxNum.

### InferServer.tla (unnamed/part_000, package infernet)

| Variable | Code |
|---|---|
| `servers`, `fpc` | servers `New` built; the first one's `fetchWork` goroutine |
| `stop`, `exitClosed`, `closePanic` | `stopInfer`, `exitCh` closed, a second `close(exitCh)` |
| `wpc`, `force` | each submitter (idle, panicked on the nil global, rejected, sending, handed) and its `forcePending` |
| `lpc`, `answer` | each `localInfer` goroutine (cache, params, symbol, data, infer, done) and what it sent on res or err |
| `cache`, `present` | `inferSimpleCache` keys; files synced to disk as <<key, kind>> |
| `ccpc` | each `Close` caller between its store and its close |

Actions: `New`, `SubmitInferWork`, `submitInferWork`, `FetchWork` (send and
receive on the unbuffered channel are one step), `FetchExit`, `LocalCache`,
`checkFileExists` (one call for the current file; with `forcePending` and
the file missing it waits while `stopInfer` is 1), `LocalInfer` (InferCore
fails or answers and caches), `FileSynced` (the storage; from the spec),
`CloseStore`, `CloseExit`. Abstractions: hashes and paths become one key per
work; the sends on res and err are taken as delivered (the caller's
channels are not modelled); only the first server's goroutine is kept.

`InferService.tla` is what the server promises a caller: a work is accepted
only while the service is open, answered at most once and only after it was
accepted, and closing stops acceptance. `InferServer` refines it with
`accepting <- (stop = 1)` and `status <- WorkStatus` (answered once an
answer was sent, queued from the passed stop check, new otherwise).

## 4. Runs

| Run | cfg | Expect | Checks |
|---|---|---|---|
| core_safety | MC_TorrentFS_safety.cfg | pass | `TypeOK`, `DrainedAfterStop`, `PeerCountsAgree` (fs.peers holds exactly the live sessions and fs.in = fs.out + len(fs.peers), the figure the status line's `nocola` subtracts in uint64) with 2 hashes (1 good), sizes 0..1, 3 needs, ttlchan 3, 1 peer with 2 messages, 2 Stop callers |
| core_liveness | MC_TorrentFS_live.cfg | pass | `NeedsServed`, `StopReturns` with 4 needs, ttlchan 4, no peers |
| close_before_drain | MC_TorrentFS_close.cfg | violation | `NoCallAfterClose`: a need taken after Stop closed ChainDB, or a peer Query after Stop, calls SetTorrentProgress/Search on closed collaborators |
| tunnel_race | MC_TorrentFS_race.cfg | violation | `TunnelNeverShrinks`: two broadcast goroutines for one hash, sizes 0 and 1, both Get a miss; size 1 Sets, then size 0 overwrites the live item |
| ttlchan_full | MC_TorrentFS_block.cfg | violation | `StopReturns` with ttlchan 1: two deferred needs, listen blocks in its own send, Stop waits forever |

Bounds: two hashes let a good and a deferred hash coexist; sizes 0..1 give
requests that are deferred (0) and immediate (1) and two different broadcast
sizes, which is all the tunnel race needs; three or four needs let two
broadcasts for one hash be in flight and the ttlchan hold several items; two
Stop callers exercise `once`. The liveness run has ttlchan at least as large
as the needs, as the code's 1024 is under moderate load; the ttlchan_full run
shows what happens when it is not. Liveness runs drop the peer to stay within
time; peers do not take part in NeedsServed or StopReturns (they are not in
`wg`).

Fairness: weak fairness of each listen case (Go's select picks uniformly
among ready cases, and the ttl timer keeps firing), of each broadcast
goroutine step and of `StopWait` (the Go scheduler runs runnable goroutines).
Producers, peers and the callers of Stop get no fairness: they may stop.
Deadlock is not checked (`CHECK_DEADLOCK FALSE`): the workload is bounded and
the node really stops after Stop; hangs are caught by the liveness properties.

Mutants (one per property of the passing runs): `Bitsflow_unbounded`
(the send ignores the capacity) breaks `TypeOK`; `WgZero_listenOnly`
(broadcast goroutines not in `wg`) breaks `DrainedAfterStop`;
`ListenTick_offByOne` breaks `NeedsServed`;
`BroadcastSet_noDone` (missing `wg.Done`) breaks `StopReturns`.

| rpc_core | MC_RpcServer.cfg | pass | `StoppedCodecsClosed`, `TrackedWhileServing`, `StopReleasesServers`, `ImplementsLifecycle` with 3 codecs and 2 HTTP requests |
| rpc_late_request | MC_RpcServer_late.cfg | violation | `NoRequestReadAfterStop`: a request that passed the unlocked run check is read after Stop |
| service_stop | MC_TorrentFSService.cfg | violation | `NoGoroutineAfterStop`: the monitor outlives Stop |
| filemeta_codec | MC_FileMetaCodec.cfg | pass | `RoundTrip` over every input object of the small value sets |
| infer_core | MC_InferServer.cfg | pass | `ExitedOnlyWhenStopped`, `CloseReleasesWorkers`, `AnswerOnce` (no work is answered twice), `ImplementsInferService` with 2 works for one key, 2 Close callers, 1 New |
| infer_submit_hang | MC_InferServer_hang.cfg | violation | `SubmitNeverHangs`: Close between the stop check and the send |
| infer_nil_global | MC_InferServer_nil.cfg | violation | `SubmitReachesServer`: SubmitInferWork after New still uses nil |

RpcServer bounds: three codecs let one be refused after Stop while another is
tracked and a third hangs up; two requests let one pass the check before Stop
and one after. InferServer bounds: two works with one key let one answer from
the cache the other filled; two Close callers reach the double close; one New
is enough because later servers are unreachable from the package variable.
Fairness: RpcServer assumes weak fairness only of `ServeReturn` (a goroutine
whose codec is closed is runnable); InferServer of fetchWork and each
localInfer step (runnable goroutines run; the 5s sleep ends). Clients,
submitters, Close callers and the file system get none.

More mutants: `trackCodec_noRunCheck` breaks `StoppedCodecsClosed`,
`untrackCodec_skipped` `TrackedWhileServing`, `Stop_noClose`
`StopReleasesServers` and `ImplementsLifecycle`; `MarshalJSON_noBlockNum`
breaks `RoundTrip`;
`CloseStore_noStore` breaks `ExitedOnlyWhenStopped`,
`checkFileExists_noStop` `CloseReleasesWorkers`, `checkFileExists_noReturn`
(the error branch without its return) `AnswerOnce`, `submitInferWork_noCheck`
`ImplementsInferService`; `PeerHandshake_leak` (the deferred unregistration
installed after the handshake) breaks `PeerCountsAgree`.

## 5. Findings

- **Stop closes before it drains** (fs.go:494-505). The once body closes
  TorrentManager and ChainDB before `close(closeAll)` and `wg.Wait`; listen's
  select may still take a need, and peer loops, which are neither in `wg` nor
  watching `closeAll`, keep calling `wakeup`. Spec 5 requires waiting for all
  loops before releasing shared resources.
- **Tunnel check-then-set race** (fs.go:522-526). Broadcast goroutines for the
  same hash both miss in Get and both Set; the smaller size can replace a live
  larger item and both report a broadcast. Spec 3 and 4.5 say an item is only
  replaced by one at least as large, and a repeated need is broadcast once.
- **listen blocks on its own channel** (fs.go:286). When ttlchan is full the
  send never completes; listen stops serving needs and `closeAll`, producers
  block on `callback`, and Stop hangs. Spec 4.3 says the deferred need is
  dropped.

- **Late HTTP request** (rpc/server.go:116). serveSingleRequest reads `run`
  without the mutex, so a request checked before Stop is read and answered
  after it; Stop says it stops reading new requests.
- **Service Stop leaks the monitor** (torrentfs/torrentfs.go:61). Start runs
  the monitor in a goroutine it keeps no handle to; Stop only logs, though its
  comment says it waits for every goroutine.
- **Shadowed inference server** (part_000:47). New's `:=` declares a local
  `globalInferServer`; the package variable stays nil, so SubmitInferWork
  dereferences nil and every New starts another server.
- **Submit after Close hangs** (part_000:75). A Close between submitInferWork's
  stop check and its send on the unbuffered channel ends fetchWork, and the
  submitter blocks for ever.

## 6. Proofs (TorrentFS_proofs.tla)

- `TypeCorrect`: `Spec => []TypeOK`. `TypeOK` is split into `ListenTyped`,
  `StoreTyped`, `StopTyped`, `PeerTyped`; each action's step proves each part.
  Lemmas: `MaxOfInSizes`, `DownloadTyped` (download keeps the store typed);
  library: `HeadTailProperties`, `AppendProperties`.
- `StopDrains`: `Spec => []DrainedAfterStop`. The invariant is inductive
  relative to `TypeOK`: after a Stop returned, listen has exited (so no action
  of listen is enabled and no goroutine is spawned), no broadcast goroutine is
  left (so no Set), and expiry only removes items.

- `PeerRegistry`: `Spec => []PeerCountsAgree`, inductive relative to
  `TypeOK`. `ConnectStep`: a registration adds a session not yet in
  fs.peers (its HandlePeer was idle) and counts it in fs.in; `UnregisterStep`:
  every path out of HandlePeer removes a live session and counts it in
  fs.out. The cardinalities come from `FS_AddElement` and `FS_RemoveElement`
  of FiniteSetTheorems, with fs.peers finite as a subset of the finite
  `Peers` (assumption `PeersFinite`: the p2p server admits boundedly many
  peers).

RpcServer_proofs.tla:

- `TypeCorrect`, `CodecsTracked` (`Spec => []TrackedWhileServing`) and
  `StoppedClosed` (`Spec => []StoppedCodecsClosed`). Neither is inductive alone: `trackCodec` admitting a
  codec must know it was not closed while idle, so the inductive invariant
  `CodecsConsistent` adds `IdleNotClosed`; lemma `CodecsStep` proves it per
  action.
- `Refinement`: `Spec => ImplementsLifecycle`. Init maps to the abstract
  Init; `ServeCodec` on a running server is `Admit`, refused or on a stopped
  server a stutter; `ClientHangup` is `End`; `ServeReturn` and the HTTP
  actions are stutters (the codec is already closed); `Stop` is `Shutdown`,
  which needs `CodecsConsistent` to know every open codec is tracked.

FileMetaCodec_proofs.tla: `RoundTripAlways` (`Spec => []RoundTrip`, from
`RoundTripAll`: every FileMeta round-trips, by field). The sentinels'
distinctness comes from `CodecAssumption` through small lemmas.

InferServer_proofs.tla: `TypeCorrect` and `ExitAfterStop` (`Spec =>
[]ExitedOnlyWhenStopped`). The inductive invariant `CloseOrdered` says a
Close caller past its store has set `stopInfer` to 0, `exitCh` is closed only
then, and fetchWork exits only through a closed `exitCh`; `stopInfer` is never
set back to 1.

`AnswerAtMostOnce` (`Spec => AnswerOnce`) rests on the inductive invariant
`AnswerGiven`: a work with an answer has its localInfer goroutine done (so no
step of localInfer is enabled for it), and only a work fetchWork took has a
goroutine at all (so FetchWork never restarts a finished one).
`ServiceRefinement` (`Spec => ImplementsInferService`): Init maps to the
abstract Init; `submitInferWork` with stopInfer 1 is `Accept` and otherwise
a stutter; a cache hit, a checkFileExists error and LocalInfer are `Answer`
(AnswerGiven shows the work was queued and unanswered); the first
`CloseStore` is `Close`, a later one a stutter; every other step is a
stutter.

Assumptions: `ConstantsAssumption` (capacities positive, bounds natural, Good
a subset of Hashes), `PeersFinite`. `CodecAssumption` (the JSON sentinels differ from every field value)
and `InferAssumption` (every work has a key, New may be called). Only model-checked: the liveness properties `NeedsServed`, `StopReturns`,
`StopReleasesServers` and `CloseReleasesWorkers` (TLAPS does not reason about
fairness and ENABLED).

## 7. Not modelled

Local seeding (filesystem I/O), the collaborators TorrentManager, ChainDB and
monitor (not under src/), PeerInfo/NodeInfo (read-only), the RPC handler and
codec internals (only their open/closed state matters here), the other
generated codecs, the vendored libc and flux code, and the test files.
GetFileWithSize and Status are the next steps of the plan. The double Close
of the inference server is reachable in the model but no property claims it
must not happen.

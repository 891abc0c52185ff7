------------------------------- MODULE TorrentFS -------------------------------
(***************************************************************************)
(* The peer protocol and demand scheduler of torrentfs (fs.go):            *)
(*   - producers raise need events with bitsflow() on the 1-slot          *)
(*     `callback` channel;                                                 *)
(*   - the single `listen` goroutine fetches a need at once (download) or  *)
(*     defers it to `ttlchan`, and pops one deferred need per 3s tick;     *)
(*   - download() merges the request into the ledger (ChainDB), spawns a   *)
(*     `broadcast` goroutine when the file is not there yet, and asks the  *)
(*     swarm (TorrentManager) to Search;                                   *)
(*   - broadcast() consults the TTL `tunnel` with a Get and then a Set;    *)
(*   - one HandlePeer goroutine per connected peer registers the session,  *)
(*     handshakes and runs the message loop, whose Query calls wakeup();   *)
(*   - Stop() closes the collaborators and `closeAll` once, waits on `wg`  *)
(*     and drains the tunnel.                                              *)
(* Time is abstract: a tick fires whenever the listener is idle and a      *)
(* tunnel entry may expire at any moment.                                  *)
(***************************************************************************)
EXTENDS Integers, Sequences, FiniteSets

CONSTANTS
    Hashes,       \* content hashes (already in canonical lower case)
    Good,         \* the hashes params.IsGood accepts
    MaxSize,      \* largest requested size in the model
    CallbackCap,  \* capacity of fs.callback (1 in New)
    TtlCap,       \* capacity of fs.ttlchan (1024 in New)
    MaxNeeds,     \* number of need events producers raise
    Peers,        \* peer ids; the p2p server runs at most one session per id
    MaxMsgs,      \* messages a peer sends before its connection ends
    Stoppers      \* callers of Stop()

ASSUME ConstantsAssumption ==
    /\ Good \subseteq Hashes
    /\ MaxSize \in Nat
    /\ CallbackCap \in Nat \ {0}
    /\ TtlCap \in Nat \ {0}
    /\ MaxNeeds \in Nat
    /\ MaxMsgs \in Nat

(* The p2p server admits a bounded number of peers.                        *)
ASSUME PeersFinite == IsFiniteSet(Peers)

Sizes == 0..MaxSize
NoEntry == -1                 \* tunnel.Get fails: no live item for the key
Flow == [h : Hashes, r : Sizes]   \* types.BitsFlow{InfoHash, Request}
NoFlow == [h |-> NoEntry, r |-> NoEntry]
Stage == {"get", "set"}       \* broadcast goroutine before Get / before Set
BcastKey == Hashes \X Sizes \X Stage

MaxOf(a, b) == IF a >= b THEN a ELSE b

VARIABLES
    callback,   \* fs.callback: need events not yet received by listen
    ttlchan,    \* fs.ttlchan: deferred need events
    lpc,        \* listen goroutine: "loop", "blocked" in the send to ttlchan, "exited"
    lmsg,       \* the need listen holds while blocked
    sent,       \* need events producers have raised
    ledger,     \* ChainDB torrent progress per hash
    searched,   \* number of TorrentManager.Search calls per hash
    bcast,      \* number of live broadcast goroutines per <<hash, size, stage>>
    tunnel,     \* fs.tunnel: live item value per hash, or NoEntry
    closed,     \* handler, db and monitor closed by Stop's once body
    closeAll,   \* fs.closeAll closed
    spc,        \* program counter of each Stop caller
    ppc,        \* program counter of each HandlePeer goroutine
    msgs,       \* messages read by each peer's loop
    peers,      \* fs.peers: ids of registered sessions
    in, out     \* fs.in, fs.out: registrations and unregistrations

lvars == <<callback, ttlchan, lpc, lmsg, sent>>
svars == <<ledger, searched, bcast, tunnel>>
pvars == <<ppc, msgs, peers, in, out>>
vars == <<lvars, svars, closed, closeAll, spc, pvars>>

Init ==
    /\ callback = <<>>
    /\ ttlchan = <<>>
    /\ lpc = "loop"
    /\ lmsg = NoFlow
    /\ sent = 0
    /\ ledger = [h \in Hashes |-> 0]
    /\ searched = [h \in Hashes |-> 0]
    /\ bcast = [k \in BcastKey |-> 0]
    /\ tunnel = [h \in Hashes |-> NoEntry]
    /\ closed = FALSE
    /\ closeAll = FALSE
    /\ spc = [s \in Stoppers |-> "idle"]
    /\ ppc = [q \in Peers |-> "idle"]
    /\ msgs = [q \in Peers |-> 0]
    /\ peers = {}
    /\ in = 0
    /\ out = 0

-----------------------------------------------------------------------------
(* Fetch path and broadcast goroutines                                     *)

(* download(ih, request): SetTorrentProgress merges the request into the   *)
(* ledger (or fails, and download returns); when Exists reports the file   *)
(* absent a broadcast goroutine is spawned with the merged size p; then    *)
(* Search(ih, p) is called unconditionally.                                *)
download(m) ==
    LET p == MaxOf(ledger[m.h], m.r) IN
    \/ UNCHANGED <<ledger, searched, bcast>>
    \/ /\ ledger' = [ledger EXCEPT ![m.h] = p]
       /\ \E exist \in BOOLEAN :
             bcast' = IF exist THEN bcast
                      ELSE [bcast EXCEPT ![<<m.h, p, "get">>] = @ + 1]
       /\ searched' = [searched EXCEPT ![m.h] = @ + 1]

(* broadcast, first half: tunnel.Get; a live item with value >= size       *)
(* suppresses the broadcast and the goroutine ends.                        *)
BroadcastGet(h, p) ==
    /\ bcast[<<h, p, "get">>] > 0
    /\ bcast' = IF tunnel[h] # NoEntry /\ tunnel[h] >= p
                THEN [bcast EXCEPT ![<<h, p, "get">>] = @ - 1]
                ELSE [bcast EXCEPT ![<<h, p, "get">>] = @ - 1,
                                   ![<<h, p, "set">>] = @ + 1]
    /\ UNCHANGED <<lvars, ledger, searched, tunnel, closed, closeAll, spc, pvars>>

(* Mutant: the goroutine never calls wg.Done.                              *)
BroadcastSet_noDone(h, p) ==
    /\ bcast[<<h, p, "set">>] > 0
    /\ tunnel' = [tunnel EXCEPT ![h] = p]
    /\ UNCHANGED <<bcast, lvars, ledger, searched, closed, closeAll, spc, pvars>>

(* broadcast, second half: tunnel.Set(ih, size) with a 60s TTL; the        *)
(* goroutine returns true and ends (wg.Done).                              *)
BroadcastSet(h, p) ==
    /\ bcast[<<h, p, "set">>] > 0
    /\ bcast' = [bcast EXCEPT ![<<h, p, "set">>] = @ - 1]
    /\ tunnel' = [tunnel EXCEPT ![h] = p]
    /\ UNCHANGED <<lvars, ledger, searched, closed, closeAll, spc, pvars>>

(* A tunnel item outlives its TTL and is evicted.                          *)
Expire(h) ==
    /\ tunnel[h] # NoEntry
    /\ tunnel' = [tunnel EXCEPT ![h] = NoEntry]
    /\ UNCHANGED <<lvars, ledger, searched, bcast, closed, closeAll, spc, pvars>>

-----------------------------------------------------------------------------
(* Producers and the listen goroutine                                      *)

(* Mutant: the send does not wait for room in the channel.                *)
Bitsflow_unbounded(h, r) ==
    /\ sent < MaxNeeds
    /\ callback' = Append(callback, [h |-> h, r |-> r])
    /\ sent' = sent + 1
    /\ UNCHANGED <<ttlchan, lpc, lmsg, svars, closed, closeAll, spc, pvars>>

(* bitsflow(ctx, ih, size): a blocking send on fs.callback (the monitor,   *)
(* init's checkpoint files and the Download API all use it).              *)
Bitsflow(h, r) ==
    /\ sent < MaxNeeds
    /\ Len(callback) < CallbackCap
    /\ callback' = Append(callback, [h |-> h, r |-> r])
    /\ sent' = sent + 1
    /\ UNCHANGED <<ttlchan, lpc, lmsg, svars, closed, closeAll, spc, pvars>>

(* listen, case <-fs.callback: fetch now when Request() > 0 or the hash is *)
(* good, else send it to fs.ttlchan.  The send blocks when ttlchan is      *)
(* full; only listen itself receives from ttlchan, so it never resumes.    *)
ListenCallback ==
    /\ lpc = "loop"
    /\ callback # <<>>
    /\ LET m == Head(callback) IN
       /\ callback' = Tail(callback)
       /\ IF m.r > 0 \/ m.h \in Good
          THEN /\ download(m)
               /\ UNCHANGED <<ttlchan, lpc, lmsg, tunnel>>
          ELSE /\ UNCHANGED svars
               /\ IF Len(ttlchan) < TtlCap
                  THEN /\ ttlchan' = Append(ttlchan, m)
                       /\ UNCHANGED <<lpc, lmsg>>
                  ELSE /\ lpc' = "blocked"
                       /\ lmsg' = m
                       /\ UNCHANGED ttlchan
    /\ UNCHANGED <<sent, closed, closeAll, spc, pvars>>

(* Mutant: a tick pops only when more than one need is deferred.          *)
ListenTick_offByOne ==
    /\ lpc = "loop"
    /\ Len(ttlchan) > 1
    /\ ttlchan' = Tail(ttlchan)
    /\ download(Head(ttlchan))
    /\ UNCHANGED <<callback, lpc, lmsg, sent, tunnel, closed, closeAll, spc, pvars>>

(* listen, case <-ttl.C: pop one deferred need and download it; the timer  *)
(* is reset.  A tick with an empty ttlchan changes nothing.                *)
ListenTick ==
    /\ lpc = "loop"
    /\ ttlchan # <<>>
    /\ ttlchan' = Tail(ttlchan)
    /\ download(Head(ttlchan))
    /\ UNCHANGED <<callback, lpc, lmsg, sent, tunnel, closed, closeAll, spc, pvars>>

(* listen, case <-fs.closeAll: return (wg.Done).                           *)
ListenExit ==
    /\ lpc = "loop"
    /\ closeAll
    /\ lpc' = "exited"
    /\ UNCHANGED <<callback, ttlchan, lmsg, sent, svars, closed, closeAll, spc, pvars>>

-----------------------------------------------------------------------------
(* Shutdown                                                                *)

(* Stop, once.Do body: handler.Close, db.Close, monitor.Stop and           *)
(* close(closeAll); a second caller finds it done.                         *)
StopOnce(s) ==
    /\ spc[s] = "idle"
    /\ closed' = TRUE
    /\ closeAll' = TRUE
    /\ spc' = [spc EXCEPT ![s] = "waiting"]
    /\ UNCHANGED <<lvars, svars, pvars>>

(* Mutant: the broadcast goroutines are started without wg.Add.           *)
WgZero_listenOnly == lpc = "exited"

(* wg counts listen and the broadcast goroutines.                          *)
WgZero == lpc = "exited" /\ \A k \in BcastKey : bcast[k] = 0

(* Stop, after once.Do: wg.Wait() returns, then tunnel.Drain().            *)
StopWait(s) ==
    /\ spc[s] = "waiting"
    /\ WgZero
    /\ tunnel' = [h \in Hashes |-> NoEntry]
    /\ spc' = [spc EXCEPT ![s] = "done"]
    /\ UNCHANGED <<lvars, ledger, searched, bcast, closed, closeAll, pvars>>

-----------------------------------------------------------------------------
(* Peer sessions: HandlePeer and runMessageLoop                            *)

(* HandlePeer: newPeer, then fs.peers[id] = peer and fs.in++ under peerMu. *)
PeerConnect(q) ==
    /\ ppc[q] = "idle"
    /\ peers' = peers \cup {q}
    /\ in' = in + 1
    /\ ppc' = [ppc EXCEPT ![q] = "handshake"]
    /\ UNCHANGED <<msgs, out, lvars, svars, closed, closeAll, spc>>

(* The deferred unregistration: delete(fs.peers, id) and fs.out++.         *)
Unregister(q) ==
    /\ peers' = peers \ {q}
    /\ out' = out + 1
    /\ ppc' = [ppc EXCEPT ![q] = "gone"]

(* Mutant: the deferred unregistration is installed after the handshake, *)
(* so a failed handshake returns with the session still registered.       *)
PeerHandshake_leak(q) ==
    /\ ppc[q] = "handshake"
    /\ \/ ppc' = [ppc EXCEPT ![q] = "loop"]
       \/ ppc' = [ppc EXCEPT ![q] = "gone"]
    /\ UNCHANGED <<peers, out, msgs, in, lvars, svars, closed, closeAll, spc>>

(* handshake(): on success start() and enter the loop; on error return,    *)
(* which unregisters.                                                      *)
PeerHandshake(q) ==
    /\ ppc[q] = "handshake"
    /\ \/ /\ ppc' = [ppc EXCEPT ![q] = "loop"]
          /\ UNCHANGED <<peers, out>>
       \/ Unregister(q)
    /\ UNCHANGED <<msgs, in, lvars, svars, closed, closeAll, spc>>

(* wakeup(ih): progress(ih) reads the ledger; when it succeeds,            *)
(* Search(ih, p) is called and its error ignored.                          *)
wakeup(h) ==
    \/ UNCHANGED searched
    \/ searched' = [searched EXCEPT ![h] = @ + 1]

(* One message read by runMessageLoop.  Status and Msg are accepted with   *)
(* no effect here (peerInfo is not modelled); a well-formed Query calls    *)
(* wakeup; an oversized message, an unknown code, a decode failure or a    *)
(* Query with a malformed hash ends the session.                           *)
PeerRead(q) ==
    /\ ppc[q] = "loop"
    /\ msgs[q] < MaxMsgs
    /\ msgs' = [msgs EXCEPT ![q] = @ + 1]
    /\ \/ /\ UNCHANGED <<ppc, peers, out, searched>>
       \/ /\ \E h \in Hashes : wakeup(h)
          /\ UNCHANGED <<ppc, peers, out>>
       \/ /\ Unregister(q)
          /\ UNCHANGED searched
    /\ UNCHANGED <<in, lvars, ledger, bcast, tunnel, closed, closeAll, spc>>

(* ReadMsg fails (remote close or the p2p server dropping the peer): the   *)
(* loop returns, stop() runs and the session is unregistered.              *)
PeerReadError(q) ==
    /\ ppc[q] = "loop"
    /\ Unregister(q)
    /\ UNCHANGED <<msgs, in, lvars, svars, closed, closeAll, spc>>

-----------------------------------------------------------------------------
Next ==
    \/ \E h \in Hashes, r \in Sizes : Bitsflow(h, r)
    \/ ListenCallback
    \/ ListenTick
    \/ ListenExit
    \/ \E h \in Hashes, p \in Sizes : BroadcastGet(h, p) \/ BroadcastSet(h, p)
    \/ \E h \in Hashes : Expire(h)
    \/ \E s \in Stoppers : StopOnce(s) \/ StopWait(s)
    \/ \E q \in Peers : PeerConnect(q) \/ PeerHandshake(q)
                          \/ PeerRead(q) \/ PeerReadError(q)

(* listen is one goroutine whose select is uniformly random among ready    *)
(* cases and whose ttl timer keeps firing; the Go scheduler runs every     *)
(* runnable goroutine (broadcast, Stop after wg.Wait can return).          *)
Fairness ==
    /\ WF_vars(ListenCallback)
    /\ WF_vars(ListenTick)
    /\ WF_vars(ListenExit)
    /\ \A h \in Hashes, p \in Sizes :
          WF_vars(BroadcastGet(h, p)) /\ WF_vars(BroadcastSet(h, p))
    /\ \A s \in Stoppers : WF_vars(StopWait(s))

Spec == Init /\ [][Next]_vars /\ Fairness

-----------------------------------------------------------------------------
(* Properties                                                              *)

(* The type invariant, in one part per group of variables.               *)
ListenTyped ==
    /\ callback \in Seq(Flow) /\ Len(callback) <= CallbackCap
    /\ ttlchan \in Seq(Flow) /\ Len(ttlchan) <= TtlCap
    /\ lpc \in {"loop", "blocked", "exited"}
    /\ lmsg \in Flow \cup {NoFlow}
    /\ sent \in 0..MaxNeeds

StoreTyped ==
    /\ ledger \in [Hashes -> Sizes]
    /\ searched \in [Hashes -> Nat]
    /\ bcast \in [BcastKey -> Nat]
    /\ tunnel \in [Hashes -> Sizes \cup {NoEntry}]

StopTyped ==
    /\ closed \in BOOLEAN
    /\ closeAll \in BOOLEAN
    /\ spc \in [Stoppers -> {"idle", "waiting", "done"}]

PeerTyped ==
    /\ ppc \in [Peers -> {"idle", "handshake", "loop", "gone"}]
    /\ msgs \in [Peers -> 0..MaxMsgs]
    /\ peers \subseteq Peers
    /\ in \in Nat /\ out \in Nat

TypeOK == ListenTyped /\ StoreTyped /\ StopTyped /\ PeerTyped

(* Stop drains: once a Stop call has returned, listen and every broadcast  *)
(* goroutine have ended and the tunnel is empty, so no late tunnel.Set     *)
(* repopulates it (Stop waits on wg before tunnel.Drain).                  *)
DrainedAfterStop ==
    \A s \in Stoppers :
        spc[s] = "done" => WgZero /\ \A h \in Hashes : tunnel[h] = NoEntry

(* fs.peers holds exactly the sessions between their registration and     *)
(* their deferred unregistration, and fs.in exceeds fs.out by their        *)
(* number: every HandlePeer that registered unregisters once, on every    *)
(* path out, so the status line's out + len(peers) - in is 0 and the       *)
(* uint64 subtraction never wraps.                                         *)
PeerCountsAgree ==
    /\ peers = {q \in Peers : ppc[q] \in {"handshake", "loop"}}
    /\ in = out + Cardinality(peers)

(* Every need event raised is eventually fetched, unless listen exits on   *)
(* shutdown: deferred needs are drained by the ticks.                      *)
NeedsServed ==
    <>[](lpc = "exited" \/ (lpc = "loop" /\ callback = <<>> /\ ttlchan = <<>>))

(* Every Stop call returns: wg.Wait does not wait forever on listen or on  *)
(* a broadcast goroutine.                                                  *)
StopReturns ==
    \A s \in Stoppers : spc[s] = "waiting" ~> spc[s] = "done"

(* Drain-then-close (spec 5): after Stop has closed the ledger and the     *)
(* swarm, no goroutine calls SetTorrentProgress or Search on them.         *)
NoCallAfterClose ==
    [][closed => UNCHANGED <<ledger, searched>>]_vars

(* Broadcast suppression (spec 3, 4.5): a live tunnel item is only         *)
(* replaced by one at least as large.                                      *)
TunnelNeverShrinks ==
    [][\A h \in Hashes :
          tunnel[h] # NoEntry /\ tunnel'[h] # NoEntry => tunnel'[h] >= tunnel[h]]_vars

=============================================================================

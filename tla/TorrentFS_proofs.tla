--------------------------- MODULE TorrentFS_proofs ---------------------------
(***************************************************************************)
(* Proofs about TorrentFS for every value of the constants.                *)
(***************************************************************************)
EXTENDS TorrentFS, SequenceTheorems, FiniteSetTheorems, TLAPS

(* The broadcast goroutines, listen and the Stop callers touch disjoint    *)
(* parts of the state; these are the definitions every step needs.         *)
USE ConstantsAssumption DEF Sizes, NoEntry, Flow, NoFlow, Stage, BcastKey,
                            lvars, svars, pvars, vars

-----------------------------------------------------------------------------
(* Type correctness: every reachable state is well typed, in particular    *)
(* neither bounded channel ever holds more than its capacity.              *)
LEMMA MaxOfInSizes ==
    ASSUME NEW a \in Sizes, NEW b \in Sizes
    PROVE  MaxOf(a, b) \in Sizes
BY DEF MaxOf

LEMMA DownloadTyped ==
    ASSUME ledger \in [Hashes -> Sizes], searched \in [Hashes -> Nat],
           bcast \in [BcastKey -> Nat], NEW m \in Flow, download(m)
    PROVE  /\ ledger' \in [Hashes -> Sizes]
           /\ searched' \in [Hashes -> Nat]
           /\ bcast' \in [BcastKey -> Nat]
<1> DEFINE p == MaxOf(ledger[m.h], m.r)
<1>1. p \in Sizes
  BY MaxOfInSizes
<1>2. CASE UNCHANGED <<ledger, searched, bcast>>
  BY <1>2
<1>3. CASE /\ ledger' = [ledger EXCEPT ![m.h] = p]
           /\ \E exist \in BOOLEAN :
                 bcast' = IF exist THEN bcast
                          ELSE [bcast EXCEPT ![<<m.h, p, "get">>] = @ + 1]
           /\ searched' = [searched EXCEPT ![m.h] = @ + 1]
  BY <1>1, <1>3
<1>4. QED
  BY <1>2, <1>3, Zenon DEF download

THEOREM TypeCorrect == Spec => []TypeOK
<1>1. Init => TypeOK
  <2> SUFFICES ASSUME Init PROVE TypeOK
    OBVIOUS
  <2>1. ListenTyped
    BY DEF Init, ListenTyped
  <2>2. StoreTyped
    BY DEF Init, StoreTyped
  <2>3. StopTyped
    BY DEF Init, StopTyped
  <2>4. PeerTyped
    BY DEF Init, PeerTyped
  <2>5. QED
    BY <2>1, <2>2, <2>3, <2>4 DEF TypeOK
<1>2. TypeOK /\ [Next]_vars => TypeOK'
  <2>1. ASSUME TypeOK, NEW h \in Hashes, NEW r \in Sizes, Bitsflow(h, r)
         PROVE  TypeOK'
    <3>1. ListenTyped'
      BY <2>1 DEF Bitsflow, TypeOK, ListenTyped
    <3>2. StoreTyped'
      BY <2>1 DEF Bitsflow, TypeOK, StoreTyped
    <3>3. StopTyped'
      BY <2>1 DEF Bitsflow, TypeOK, StopTyped
    <3>4. PeerTyped'
      BY <2>1 DEF Bitsflow, TypeOK, PeerTyped
    <3>5. QED
      BY <3>1, <3>2, <3>3, <3>4 DEF TypeOK
  <2>2. ASSUME TypeOK, ListenCallback
         PROVE  TypeOK'
    <3>0. /\ Head(callback) \in Flow
          /\ Tail(callback) \in Seq(Flow)
          /\ Len(Tail(callback)) <= CallbackCap
      <4>1. callback \in Seq(Flow) /\ callback # <<>> /\ Len(callback) <= CallbackCap
        BY <2>2 DEF ListenCallback, TypeOK, ListenTyped
      <4>2. /\ Head(callback) \in Flow
            /\ Tail(callback) \in Seq(Flow)
            /\ Len(Tail(callback)) = Len(callback) - 1
        BY <4>1, HeadTailProperties
      <4>3. QED
        BY <4>1, <4>2
    <3>1. ListenTyped'
      <4>1. CASE Head(callback).r > 0 \/ Head(callback).h \in Good
        BY <2>2, <3>0, <4>1 DEF ListenCallback, TypeOK, ListenTyped
      <4>2. CASE /\ ~(Head(callback).r > 0 \/ Head(callback).h \in Good)
                 /\ Len(ttlchan) < TtlCap
        <5>1. ttlchan \in Seq(Flow)
          BY <2>2 DEF TypeOK, ListenTyped
        <5>2. /\ Append(ttlchan, Head(callback)) \in Seq(Flow)
              /\ Len(Append(ttlchan, Head(callback))) = Len(ttlchan) + 1
          BY <3>0, <5>1, AppendProperties
        <5>3. /\ callback' = Tail(callback)
              /\ ttlchan' = Append(ttlchan, Head(callback))
              /\ UNCHANGED <<lpc, lmsg, sent>>
          BY <2>2, <4>2 DEF ListenCallback
        <5>4. QED
          BY <2>2, <3>0, <4>2, <5>2, <5>3 DEF TypeOK, ListenTyped
      <4>3. CASE /\ ~(Head(callback).r > 0 \/ Head(callback).h \in Good)
                 /\ ~(Len(ttlchan) < TtlCap)
        BY <2>2, <3>0, <4>3 DEF ListenCallback, TypeOK, ListenTyped
      <4>4. QED
        BY <4>1, <4>2, <4>3
    <3>2. StoreTyped'
      <4>1. CASE Head(callback).r > 0 \/ Head(callback).h \in Good
        <5>1. download(Head(callback)) /\ tunnel' = tunnel
          BY <2>2, <4>1 DEF ListenCallback
        <5>2. /\ ledger' \in [Hashes -> Sizes]
              /\ searched' \in [Hashes -> Nat]
              /\ bcast' \in [BcastKey -> Nat]
          BY <2>2, <3>0, <5>1, DownloadTyped DEF TypeOK, StoreTyped
        <5>3. QED
          BY <2>2, <5>1, <5>2 DEF TypeOK, StoreTyped
      <4>2. CASE ~(Head(callback).r > 0 \/ Head(callback).h \in Good)
        BY <2>2, <4>2 DEF ListenCallback, TypeOK, StoreTyped
      <4>3. QED
        BY <4>1, <4>2
    <3>3. StopTyped'
      BY <2>2 DEF ListenCallback, TypeOK, StopTyped
    <3>4. PeerTyped'
      BY <2>2 DEF ListenCallback, TypeOK, PeerTyped
    <3>5. QED
      BY <3>1, <3>2, <3>3, <3>4 DEF TypeOK
  <2>3. ASSUME TypeOK, ListenTick
         PROVE  TypeOK'
    <3>0. /\ ttlchan \in Seq(Flow) /\ ttlchan # <<>>
          /\ Head(ttlchan) \in Flow
          /\ Tail(ttlchan) \in Seq(Flow)
          /\ Len(Tail(ttlchan)) = Len(ttlchan) - 1
      <4>1. ttlchan \in Seq(Flow) /\ ttlchan # <<>>
        BY <2>3 DEF ListenTick, TypeOK, ListenTyped
      <4>2. /\ Head(ttlchan) \in Flow
            /\ Tail(ttlchan) \in Seq(Flow)
            /\ Len(Tail(ttlchan)) = Len(ttlchan) - 1
        BY <4>1, HeadTailProperties
      <4>3. QED
        BY <4>1, <4>2
    <3>1. ListenTyped'
      BY <2>3, <3>0 DEF ListenTick, TypeOK, ListenTyped
    <3>2. StoreTyped'
      <4>1. /\ ledger' \in [Hashes -> Sizes]
            /\ searched' \in [Hashes -> Nat]
            /\ bcast' \in [BcastKey -> Nat]
        <5>1. download(Head(ttlchan))
          BY <2>3 DEF ListenTick
        <5>2. QED
          BY <2>3, <3>0, <5>1, DownloadTyped DEF TypeOK, StoreTyped
      <4>2. QED
        BY <2>3, <4>1 DEF ListenTick, TypeOK, StoreTyped
    <3>3. StopTyped'
      BY <2>3 DEF ListenTick, TypeOK, StopTyped
    <3>4. PeerTyped'
      BY <2>3 DEF ListenTick, TypeOK, PeerTyped
    <3>5. QED
      BY <3>1, <3>2, <3>3, <3>4 DEF TypeOK
  <2>4. ASSUME TypeOK, ListenExit
         PROVE  TypeOK'
    <3>1. ListenTyped'
      BY <2>4 DEF ListenExit, TypeOK, ListenTyped
    <3>2. StoreTyped'
      BY <2>4 DEF ListenExit, TypeOK, StoreTyped
    <3>3. StopTyped'
      BY <2>4 DEF ListenExit, TypeOK, StopTyped
    <3>4. PeerTyped'
      BY <2>4 DEF ListenExit, TypeOK, PeerTyped
    <3>5. QED
      BY <3>1, <3>2, <3>3, <3>4 DEF TypeOK
  <2>5. ASSUME TypeOK, NEW h \in Hashes, NEW p \in Sizes, BroadcastGet(h, p)
         PROVE  TypeOK'
    <3>1. ListenTyped'
      BY <2>5 DEF BroadcastGet, TypeOK, ListenTyped
    <3>2. StoreTyped'
      BY <2>5 DEF BroadcastGet, TypeOK, StoreTyped
    <3>3. StopTyped'
      BY <2>5 DEF BroadcastGet, TypeOK, StopTyped
    <3>4. PeerTyped'
      BY <2>5 DEF BroadcastGet, TypeOK, PeerTyped
    <3>5. QED
      BY <3>1, <3>2, <3>3, <3>4 DEF TypeOK
  <2>6. ASSUME TypeOK, NEW h \in Hashes, NEW p \in Sizes, BroadcastSet(h, p)
         PROVE  TypeOK'
    <3>1. ListenTyped'
      BY <2>6 DEF BroadcastSet, TypeOK, ListenTyped
    <3>2. StoreTyped'
      BY <2>6 DEF BroadcastSet, TypeOK, StoreTyped
    <3>3. StopTyped'
      BY <2>6 DEF BroadcastSet, TypeOK, StopTyped
    <3>4. PeerTyped'
      BY <2>6 DEF BroadcastSet, TypeOK, PeerTyped
    <3>5. QED
      BY <3>1, <3>2, <3>3, <3>4 DEF TypeOK
  <2>7. ASSUME TypeOK, NEW h \in Hashes, Expire(h)
         PROVE  TypeOK'
    <3>1. ListenTyped'
      BY <2>7 DEF Expire, TypeOK, ListenTyped
    <3>2. StoreTyped'
      BY <2>7 DEF Expire, TypeOK, StoreTyped
    <3>3. StopTyped'
      BY <2>7 DEF Expire, TypeOK, StopTyped
    <3>4. PeerTyped'
      BY <2>7 DEF Expire, TypeOK, PeerTyped
    <3>5. QED
      BY <3>1, <3>2, <3>3, <3>4 DEF TypeOK
  <2>8. ASSUME TypeOK, NEW s \in Stoppers, StopOnce(s)
         PROVE  TypeOK'
    <3>1. ListenTyped'
      BY <2>8 DEF StopOnce, TypeOK, ListenTyped
    <3>2. StoreTyped'
      BY <2>8 DEF StopOnce, TypeOK, StoreTyped
    <3>3. StopTyped'
      BY <2>8 DEF StopOnce, TypeOK, StopTyped
    <3>4. PeerTyped'
      BY <2>8 DEF StopOnce, TypeOK, PeerTyped
    <3>5. QED
      BY <3>1, <3>2, <3>3, <3>4 DEF TypeOK
  <2>9. ASSUME TypeOK, NEW s \in Stoppers, StopWait(s)
         PROVE  TypeOK'
    <3>1. ListenTyped'
      BY <2>9 DEF StopWait, TypeOK, ListenTyped
    <3>2. StoreTyped'
      BY <2>9 DEF StopWait, TypeOK, StoreTyped
    <3>3. StopTyped'
      BY <2>9 DEF StopWait, TypeOK, StopTyped
    <3>4. PeerTyped'
      BY <2>9 DEF StopWait, TypeOK, PeerTyped
    <3>5. QED
      BY <3>1, <3>2, <3>3, <3>4 DEF TypeOK
  <2>10. ASSUME TypeOK, NEW q \in Peers, PeerConnect(q)
         PROVE  TypeOK'
    <3>1. ListenTyped'
      BY <2>10 DEF PeerConnect, TypeOK, ListenTyped
    <3>2. StoreTyped'
      BY <2>10 DEF PeerConnect, TypeOK, StoreTyped
    <3>3. StopTyped'
      BY <2>10 DEF PeerConnect, TypeOK, StopTyped
    <3>4. PeerTyped'
      BY <2>10 DEF PeerConnect, TypeOK, PeerTyped
    <3>5. QED
      BY <3>1, <3>2, <3>3, <3>4 DEF TypeOK
  <2>11. ASSUME TypeOK, NEW q \in Peers, PeerHandshake(q)
         PROVE  TypeOK'
    <3>1. ListenTyped'
      BY <2>11 DEF PeerHandshake, Unregister, TypeOK, ListenTyped
    <3>2. StoreTyped'
      BY <2>11 DEF PeerHandshake, Unregister, TypeOK, StoreTyped
    <3>3. StopTyped'
      BY <2>11 DEF PeerHandshake, Unregister, TypeOK, StopTyped
    <3>4. PeerTyped'
      BY <2>11 DEF PeerHandshake, Unregister, TypeOK, PeerTyped
    <3>5. QED
      BY <3>1, <3>2, <3>3, <3>4 DEF TypeOK
  <2>12. ASSUME TypeOK, NEW q \in Peers, PeerRead(q)
         PROVE  TypeOK'
    <3>1. ListenTyped'
      BY <2>12 DEF PeerRead, Unregister, wakeup, TypeOK, ListenTyped
    <3>2. StoreTyped'
      BY <2>12 DEF PeerRead, Unregister, wakeup, TypeOK, StoreTyped
    <3>3. StopTyped'
      BY <2>12 DEF PeerRead, Unregister, wakeup, TypeOK, StopTyped
    <3>4. PeerTyped'
      BY <2>12 DEF PeerRead, Unregister, wakeup, TypeOK, PeerTyped
    <3>5. QED
      BY <3>1, <3>2, <3>3, <3>4 DEF TypeOK
  <2>13. ASSUME TypeOK, NEW q \in Peers, PeerReadError(q)
         PROVE  TypeOK'
    <3>1. ListenTyped'
      BY <2>13 DEF PeerReadError, Unregister, TypeOK, ListenTyped
    <3>2. StoreTyped'
      BY <2>13 DEF PeerReadError, Unregister, TypeOK, StoreTyped
    <3>3. StopTyped'
      BY <2>13 DEF PeerReadError, Unregister, TypeOK, StopTyped
    <3>4. PeerTyped'
      BY <2>13 DEF PeerReadError, Unregister, TypeOK, PeerTyped
    <3>5. QED
      BY <3>1, <3>2, <3>3, <3>4 DEF TypeOK
  <2>14. ASSUME TypeOK, UNCHANGED vars PROVE TypeOK'
    BY <2>14 DEF TypeOK, ListenTyped, StoreTyped, StopTyped, PeerTyped
  <2>15. QED
    BY <2>1, <2>2, <2>3, <2>4, <2>5, <2>6, <2>7, <2>8, <2>9, <2>10, <2>11, <2>12, <2>13, <2>14 DEF Next
<1>3. QED
  BY <1>1, <1>2, PTL DEF Spec

-----------------------------------------------------------------------------
(* Stop drains: once a Stop call has returned, listen and every broadcast  *)
(* goroutine have ended and the tunnel is empty.  The invariant is         *)
(* inductive together with TypeOK: after a return, listen has exited, so   *)
(* no download spawns a goroutine, no goroutine is left to Set, and        *)
(* expiry only removes items.                                              *)
THEOREM StopDrains == Spec => []DrainedAfterStop
<1>1. Init => DrainedAfterStop
  BY DEF Init, DrainedAfterStop
<1>2. TypeOK /\ DrainedAfterStop /\ [Next]_vars => DrainedAfterStop'
  <2>1. ASSUME TypeOK, DrainedAfterStop, NEW h \in Hashes, NEW r \in Sizes, Bitsflow(h, r)
         PROVE  DrainedAfterStop'
    BY <2>1 DEF Bitsflow, TypeOK, StopTyped, DrainedAfterStop, WgZero
  <2>2. ASSUME TypeOK, DrainedAfterStop, ListenCallback
         PROVE  DrainedAfterStop'
    BY <2>2 DEF ListenCallback, TypeOK, StopTyped, DrainedAfterStop, WgZero
  <2>3. ASSUME TypeOK, DrainedAfterStop, ListenTick
         PROVE  DrainedAfterStop'
    BY <2>3 DEF ListenTick, TypeOK, StopTyped, DrainedAfterStop, WgZero
  <2>4. ASSUME TypeOK, DrainedAfterStop, ListenExit
         PROVE  DrainedAfterStop'
    BY <2>4 DEF ListenExit, TypeOK, StopTyped, DrainedAfterStop, WgZero
  <2>5. ASSUME TypeOK, DrainedAfterStop, NEW h \in Hashes, NEW p \in Sizes, BroadcastGet(h, p)
         PROVE  DrainedAfterStop'
    BY <2>5 DEF BroadcastGet, TypeOK, StopTyped, DrainedAfterStop, WgZero
  <2>6. ASSUME TypeOK, DrainedAfterStop, NEW h \in Hashes, NEW p \in Sizes, BroadcastSet(h, p)
         PROVE  DrainedAfterStop'
    BY <2>6 DEF BroadcastSet, TypeOK, StopTyped, DrainedAfterStop, WgZero
  <2>7. ASSUME TypeOK, DrainedAfterStop, NEW h \in Hashes, Expire(h)
         PROVE  DrainedAfterStop'
    BY <2>7 DEF Expire, TypeOK, StopTyped, DrainedAfterStop, WgZero
  <2>8. ASSUME TypeOK, DrainedAfterStop, NEW s \in Stoppers, StopOnce(s)
         PROVE  DrainedAfterStop'
    BY <2>8 DEF StopOnce, TypeOK, StopTyped, DrainedAfterStop, WgZero
  <2>9. ASSUME TypeOK, DrainedAfterStop, NEW s \in Stoppers, StopWait(s)
         PROVE  DrainedAfterStop'
    BY <2>9 DEF StopWait, TypeOK, StopTyped, DrainedAfterStop, WgZero
  <2>10. ASSUME TypeOK, DrainedAfterStop, NEW q \in Peers, PeerConnect(q)
         PROVE  DrainedAfterStop'
    BY <2>10 DEF PeerConnect, TypeOK, StopTyped, DrainedAfterStop, WgZero
  <2>11. ASSUME TypeOK, DrainedAfterStop, NEW q \in Peers, PeerHandshake(q)
         PROVE  DrainedAfterStop'
    BY <2>11 DEF PeerHandshake, Unregister, TypeOK, StopTyped, DrainedAfterStop, WgZero
  <2>12. ASSUME TypeOK, DrainedAfterStop, NEW q \in Peers, PeerRead(q)
         PROVE  DrainedAfterStop'
    BY <2>12 DEF PeerRead, Unregister, wakeup, TypeOK, StopTyped, DrainedAfterStop, WgZero
  <2>13. ASSUME TypeOK, DrainedAfterStop, NEW q \in Peers, PeerReadError(q)
         PROVE  DrainedAfterStop'
    BY <2>13 DEF PeerReadError, Unregister, TypeOK, StopTyped, DrainedAfterStop, WgZero
  <2>14. ASSUME DrainedAfterStop, UNCHANGED vars PROVE DrainedAfterStop'
    BY <2>14 DEF DrainedAfterStop, WgZero
  <2>15. QED
    BY <2>1, <2>2, <2>3, <2>4, <2>5, <2>6, <2>7, <2>8, <2>9, <2>10, <2>11, <2>12, <2>13, <2>14 DEF Next
<1>3. QED
  BY <1>1, <1>2, TypeCorrect, PTL DEF Spec

-----------------------------------------------------------------------------
(* The peer registry: fs.peers and the fs.in / fs.out counters.            *)

Live == {"handshake", "loop"}

LEMMA PeersFiniteSubset ==
    ASSUME PeerTyped PROVE IsFiniteSet(peers) /\ Cardinality(peers) \in Nat
<1>1. IsFiniteSet(peers)
  BY PeersFinite, FS_Subset DEF PeerTyped
<1>2. QED
  BY <1>1, FS_CardinalityType

(* A registration adds a session not yet in fs.peers and counts it in fs.in. *)
LEMMA ConnectStep ==
    ASSUME TypeOK, PeerCountsAgree, NEW q \in Peers, PeerConnect(q)
    PROVE  PeerCountsAgree'
<1>1. q \notin peers
  BY DEF PeerConnect, PeerCountsAgree
<1>2. peers' = {x \in Peers : ppc'[x] \in Live}
  BY DEF PeerConnect, PeerCountsAgree, TypeOK, PeerTyped, Live
<1>3. Cardinality(peers') = Cardinality(peers) + 1
  BY <1>1, PeersFiniteSubset, FS_AddElement DEF PeerConnect, TypeOK
<1>4. in' = out' + Cardinality(peers')
  BY <1>3, PeersFiniteSubset DEF PeerConnect, PeerCountsAgree, TypeOK, PeerTyped
<1>5. QED
  BY <1>2, <1>4 DEF PeerCountsAgree, Live

(* The deferred unregistration removes a live session and counts it in     *)
(* fs.out, whichever path HandlePeer leaves by.                            *)
LEMMA UnregisterStep ==
    ASSUME TypeOK, PeerCountsAgree, NEW q \in Peers, ppc[q] \in Live,
           Unregister(q), UNCHANGED in
    PROVE  PeerCountsAgree'
<1>1. q \in peers
  BY DEF PeerCountsAgree, Live
<1>2. peers' = {x \in Peers : ppc'[x] \in Live}
  BY DEF Unregister, PeerCountsAgree, TypeOK, PeerTyped, Live
<1>3. Cardinality(peers') = Cardinality(peers) - 1
  BY <1>1, PeersFiniteSubset, FS_RemoveElement DEF Unregister, TypeOK
<1>4. in' = out' + Cardinality(peers')
  BY <1>3, PeersFiniteSubset DEF Unregister, PeerCountsAgree, TypeOK, PeerTyped
<1>5. QED
  BY <1>2, <1>4 DEF PeerCountsAgree, Live

(* Every step keeps the registry and the counters in agreement.            *)
LEMMA PeerCountsStep ==
    ASSUME TypeOK, PeerCountsAgree, [Next]_vars
    PROVE  PeerCountsAgree'
<1>1. CASE UNCHANGED pvars
  BY <1>1 DEF PeerCountsAgree
<1>2. ASSUME NEW q \in Peers, PeerConnect(q) PROVE PeerCountsAgree'
  BY <1>2, ConnectStep
<1>3. ASSUME NEW q \in Peers, PeerHandshake(q) PROVE PeerCountsAgree'
  <2>1. CASE ppc' = [ppc EXCEPT ![q] = "loop"] /\ UNCHANGED <<peers, out>>
    BY <1>3, <2>1 DEF PeerHandshake, PeerCountsAgree, TypeOK, PeerTyped
  <2>2. CASE Unregister(q)
    BY <1>3, <2>2, UnregisterStep DEF PeerHandshake, Live
  <2>3. QED
    BY <1>3, <2>1, <2>2 DEF PeerHandshake
<1>4. ASSUME NEW q \in Peers, PeerRead(q) PROVE PeerCountsAgree'
  <2>1. CASE UNCHANGED <<ppc, peers, out>>
    BY <1>4, <2>1 DEF PeerRead, PeerCountsAgree
  <2>2. CASE Unregister(q)
    BY <1>4, <2>2, UnregisterStep DEF PeerRead, Live
  <2>3. QED
    BY <1>4, <2>1, <2>2 DEF PeerRead
<1>5. ASSUME NEW q \in Peers, PeerReadError(q) PROVE PeerCountsAgree'
  BY <1>5, UnregisterStep DEF PeerReadError, Live
<1>6. QED
  BY <1>1, <1>2, <1>3, <1>4, <1>5
     DEF Next, Bitsflow, ListenCallback, ListenTick, ListenExit, BroadcastGet,
         BroadcastSet, Expire, StopOnce, StopWait

(* fs.peers holds exactly the sessions HandlePeer has registered and not   *)
(* yet unregistered, and fs.in = fs.out + len(fs.peers), for every set of   *)
(* peers and every number of messages.                                     *)
THEOREM PeerRegistry == Spec => []PeerCountsAgree
<1>1. Init => PeerCountsAgree
  BY FS_EmptySet DEF Init, PeerCountsAgree
<1>2. QED
  BY <1>1, PeerCountsStep, TypeCorrect, PTL DEF Spec

=============================================================================

--------------------------- MODULE RpcServer_proofs ---------------------------
(***************************************************************************)
(* Proofs about the RPC server for every set of codecs and requests.       *)
(***************************************************************************)
EXTENDS RpcServer, TLAPS

(* Every reachable state is well typed.                                    *)
THEOREM TypeCorrect == Spec => []TypeOK
<1>1. Init => TypeOK
  BY DEF Init, TypeOK, CpcStates, RpcStates
<1>2. TypeOK /\ [Next]_vars => TypeOK'
  BY DEF TypeOK, Next, vars, ServeCodec, trackCodec, ClientHangup, ServeReturn,
         untrackCodec, SingleCheck, SingleServe, Stop, CpcStates, RpcStates
<1>3. QED
  BY <1>1, <1>2, PTL DEF Spec

(* No codec is closed before its ServeCodec has started: only Stop (for    *)
(* tracked codecs), the client and ServeCodec itself close a codec.        *)
IdleNotClosed == \A c \in Conns : cpc[c] = "idle" => ~hungup[c]

(* The codec map is consistent with the goroutines: it holds exactly the   *)
(* codecs being served, and after Stop all of them are closed.  Together   *)
(* with IdleNotClosed these are inductive.                                 *)
CodecsConsistent == TrackedWhileServing /\ StoppedCodecsClosed /\ IdleNotClosed

LEMMA CodecsStep ==
    ASSUME TypeOK, CodecsConsistent, [Next]_vars
    PROVE  CodecsConsistent'
<1> USE DEF CodecsConsistent, TrackedWhileServing, StoppedCodecsClosed,
           IdleNotClosed, TypeOK
<1>1. ASSUME NEW c \in Conns, ServeCodec(c) PROVE CodecsConsistent'
  BY <1>1 DEF ServeCodec, trackCodec
<1>2. ASSUME NEW c \in Conns, ClientHangup(c) PROVE CodecsConsistent'
  BY <1>2 DEF ClientHangup
<1>3. ASSUME NEW c \in Conns, ServeReturn(c) PROVE CodecsConsistent'
  BY <1>3 DEF ServeReturn, untrackCodec
<1>4. ASSUME NEW r \in Reqs, SingleCheck(r) PROVE CodecsConsistent'
  BY <1>4 DEF SingleCheck
<1>5. ASSUME NEW r \in Reqs, SingleServe(r) PROVE CodecsConsistent'
  BY <1>5 DEF SingleServe
<1>6. ASSUME Stop PROVE CodecsConsistent'
  BY <1>6 DEF Stop
<1>7. ASSUME UNCHANGED vars PROVE CodecsConsistent'
  BY <1>7 DEF vars
<1>8. QED
  BY <1>1, <1>2, <1>3, <1>4, <1>5, <1>6, <1>7 DEF Next

LEMMA ConsistentAlways == Spec => []CodecsConsistent
<1>1. Init => CodecsConsistent
  BY DEF Init, CodecsConsistent, TrackedWhileServing, StoppedCodecsClosed,
         IdleNotClosed
<1>2. QED
  BY <1>1, CodecsStep, TypeCorrect, PTL DEF Spec

(* s.codecs holds exactly the codecs whose ServeCodec is between its       *)
(* trackCodec and its deferred untrackCodec: the map never leaks a codec.  *)
THEOREM CodecsTracked == Spec => []TrackedWhileServing
BY ConsistentAlways, PTL DEF CodecsConsistent

(* A stopped server holds no open codec: trackCodec and Stop, serialised   *)
(* by s.mutex, cannot interleave so as to leave one behind.                *)
THEOREM StoppedClosed == Spec => []StoppedCodecsClosed
BY ConsistentAlways, PTL DEF CodecsConsistent

(* The RPC server implements the abstract server lifecycle under the       *)
(* mapping running <- run, open <- the tracked codecs not yet closed.      *)
THEOREM Refinement == Spec => ImplementsLifecycle
<1>1. Init => Lifecycle!Init
  BY DEF Init, Lifecycle!Init, OpenCodecs
<1>2. TypeOK /\ CodecsConsistent /\ [Next]_vars
        => [Lifecycle!Next]_<<run, OpenCodecs>>
  <2> SUFFICES ASSUME TypeOK, CodecsConsistent, [Next]_vars
               PROVE  [Lifecycle!Next]_<<run, OpenCodecs>>
    OBVIOUS
  <2> USE DEF TypeOK, CodecsConsistent, TrackedWhileServing, IdleNotClosed,
             OpenCodecs
  <2>1. ASSUME NEW c \in Conns, ServeCodec(c)
        PROVE  [Lifecycle!Next]_<<run, OpenCodecs>>
    <3>1. CASE run
      <4>1. Lifecycle!Admit(c)
        BY <2>1, <3>1 DEF ServeCodec, trackCodec, Lifecycle!Admit
      <4>2. QED
        BY <4>1 DEF Lifecycle!Next
    <3>2. CASE ~run
      BY <2>1, <3>2 DEF ServeCodec, trackCodec
    <3>3. QED
      BY <3>1, <3>2
  <2>2. ASSUME NEW c \in Conns, ClientHangup(c)
        PROVE  [Lifecycle!Next]_<<run, OpenCodecs>>
    <3>1. Lifecycle!End(c)
      BY <2>2 DEF ClientHangup, Lifecycle!End
    <3>2. QED
      BY <3>1 DEF Lifecycle!Next
  <2>3. ASSUME NEW c \in Conns, ServeReturn(c)
        PROVE  [Lifecycle!Next]_<<run, OpenCodecs>>
    BY <2>3 DEF ServeReturn, untrackCodec
  <2>4. ASSUME NEW r \in Reqs, SingleCheck(r) \/ SingleServe(r)
        PROVE  [Lifecycle!Next]_<<run, OpenCodecs>>
    BY <2>4 DEF SingleCheck, SingleServe
  <2>5. ASSUME Stop
        PROVE  [Lifecycle!Next]_<<run, OpenCodecs>>
    <3>1. Lifecycle!Shutdown
      BY <2>5 DEF Stop, Lifecycle!Shutdown
    <3>2. QED
      BY <3>1 DEF Lifecycle!Next
  <2>6. ASSUME UNCHANGED vars
        PROVE  [Lifecycle!Next]_<<run, OpenCodecs>>
    BY <2>6 DEF vars
  <2>7. QED
    BY <2>1, <2>2, <2>3, <2>4, <2>5, <2>6 DEF Next
<1>3. QED
  BY <1>1, <1>2, ConsistentAlways, TypeCorrect, PTL DEF Spec, ImplementsLifecycle, Lifecycle!Spec

=============================================================================

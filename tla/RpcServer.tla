------------------------------ MODULE RpcServer ------------------------------
(***************************************************************************)
(* The RPC server's codec tracking and shutdown (src/rpc/server.go).       *)
(*                                                                         *)
(* Each connection is served by a ServeCodec goroutine: it registers its   *)
(* codec in s.codecs (trackCodec, under s.mutex, refused once the server   *)
(* is stopped), blocks until the codec is closed, then unregisters it and  *)
(* returns.  Stop flips the atomic run flag with a compare-and-swap under  *)
(* the mutex and closes every tracked codec.  HTTP requests are served by  *)
(* serveSingleRequest, which reads run without the mutex and whose codec  *)
(* is never tracked.  Every critical section of s.mutex is one action, so  *)
(* the mutex itself needs no variable.                                     *)
(***************************************************************************)
CONSTANTS
    Conns,      \* codecs handed to ServeCodec (websocket, IPC, in-process)
    Reqs        \* HTTP requests handed to serveSingleRequest

VARIABLES
    run,        \* s.run: the server accepts work
    codecs,     \* s.codecs: the tracked codecs
    hungup,     \* per codec: codec.close() has been called, closed() fires
    cpc,        \* ServeCodec goroutine of each codec
    rpc         \* serveSingleRequest goroutine of each request

vars == <<run, codecs, hungup, cpc, rpc>>

CpcStates == {"idle", "serving", "done"}
RpcStates == {"idle", "checked", "done"}

(* NewServer: run.Store(true) and an empty codec map; no goroutine yet.    *)
Init ==
    /\ run = TRUE
    /\ codecs = {}
    /\ hungup = [c \in Conns |-> FALSE]
    /\ cpc = [c \in Conns |-> "idle"]
    /\ rpc = [r \in Reqs |-> "idle"]

-----------------------------------------------------------------------------
(* ServeCodec                                                               *)

(* Mutant: trackCodec does not look at run.                               *)
trackCodec_noRunCheck(c) ==
    /\ codecs' = codecs \cup {c}
    /\ cpc' = [cpc EXCEPT ![c] = "serving"]
    /\ UNCHANGED hungup

(* trackCodec under s.mutex: a stopped server refuses the codec and        *)
(* ServeCodec returns through its deferred codec.close(); otherwise the    *)
(* codec is tracked, initClient starts, and ServeCodec waits on closed().  *)
trackCodec(c) ==
    IF ~run
    THEN /\ hungup' = [hungup EXCEPT ![c] = TRUE]
         /\ cpc' = [cpc EXCEPT ![c] = "done"]
         /\ UNCHANGED codecs
    ELSE /\ codecs' = codecs \cup {c}
         /\ cpc' = [cpc EXCEPT ![c] = "serving"]
         /\ UNCHANGED hungup

ServeCodec(c) ==
    /\ cpc[c] = "idle"
    /\ trackCodec(c)
    /\ UNCHANGED <<run, rpc>>

(* The client side ends the connection: the client's read loop fails and   *)
(* closes the codec, so closed() fires.                                    *)
ClientHangup(c) ==
    /\ cpc[c] = "serving"
    /\ ~hungup[c]
    /\ hungup' = [hungup EXCEPT ![c] = TRUE]
    /\ UNCHANGED <<run, codecs, cpc, rpc>>

(* Mutant: the deferred untrackCodec is missing.                           *)
untrackCodec_skipped(c) ==
    UNCHANGED codecs

(* untrackCodec: delete(s.codecs, codec) under s.mutex.                     *)
untrackCodec(c) ==
    codecs' = codecs \ {c}

(* <-codec.closed() returns; c.Close(), then the deferred untrackCodec and *)
(* codec.close() (already closed) run, and ServeCodec returns.             *)
ServeReturn(c) ==
    /\ cpc[c] = "serving"
    /\ hungup[c]
    /\ untrackCodec(c)
    /\ cpc' = [cpc EXCEPT ![c] = "done"]
    /\ UNCHANGED <<run, hungup, rpc>>

-----------------------------------------------------------------------------
(* serveSingleRequest                                                       *)

(* The unlocked run.Load(): a stopped server returns at once.              *)
SingleCheck(r) ==
    /\ rpc[r] = "idle"
    /\ rpc' = [rpc EXCEPT ![r] = IF run THEN "checked" ELSE "done"]
    /\ UNCHANGED <<run, codecs, hungup, cpc>>

(* newHandler, readBatch and handleMsg/handleBatch (or the parse-error    *)
(* reply), then h.close: the request is read and answered.                 *)
SingleServe(r) ==
    /\ rpc[r] = "checked"
    /\ rpc' = [rpc EXCEPT ![r] = "done"]
    /\ UNCHANGED <<run, codecs, hungup, cpc>>

-----------------------------------------------------------------------------
(* Stop                                                                     *)

(* Mutant: Stop clears run but does not close the tracked codecs.          *)
Stop_noClose ==
    /\ run
    /\ run' = FALSE
    /\ UNCHANGED <<codecs, hungup, cpc, rpc>>

(* Stop under s.mutex: the CompareAndSwap(true, false) that succeeds       *)
(* closes every tracked codec.  A later Stop's CAS fails and changes       *)
(* nothing (a stutter).                                                    *)
Stop ==
    /\ run
    /\ run' = FALSE
    /\ hungup' = [c \in Conns |-> hungup[c] \/ c \in codecs]
    /\ UNCHANGED <<codecs, cpc, rpc>>

Next ==
    \/ \E c \in Conns : ServeCodec(c) \/ ClientHangup(c) \/ ServeReturn(c)
    \/ \E r \in Reqs : SingleCheck(r) \/ SingleServe(r)
    \/ Stop

(* A ServeCodec goroutine whose codec is closed is runnable and returns.   *)
(* Clients, callers of Stop and HTTP requests get no fairness.             *)
Fairness == \A c \in Conns : WF_vars(ServeReturn(c))

Spec == Init /\ [][Next]_vars /\ Fairness

-----------------------------------------------------------------------------
(* Properties                                                              *)

(* Every variable holds a value of its type: run is a flag, s.codecs a set  *)
(* of codecs, and each goroutine is at one of its positions.              *)
TypeOK ==
    /\ run \in BOOLEAN
    /\ codecs \subseteq Conns
    /\ hungup \in [Conns -> BOOLEAN]
    /\ cpc \in [Conns -> CpcStates]
    /\ rpc \in [Reqs -> RpcStates]

(* Once Stop has run, no codec in s.codecs is left open: trackCodec's      *)
(* check of run and Stop's CAS are serialised by s.mutex, so no codec is   *)
(* tracked after Stop's loop has closed the others.                        *)
StoppedCodecsClosed ==
    ~run => \A c \in codecs : hungup[c]

(* s.codecs holds exactly the codecs whose ServeCodec is between           *)
(* trackCodec and its deferred untrackCodec: a refused codec is never      *)
(* tracked and a returned one is always removed, so the map cannot leak.   *)
TrackedWhileServing ==
    codecs = {c \in Conns : cpc[c] = "serving"}

(* ServeCodec "will block until the codec is closed or the server is       *)
(* stopped": after Stop, every ServeCodec still serving returns.           *)
StopReleasesServers ==
    \A c \in Conns : (~run /\ cpc[c] = "serving") ~> cpc[c] = "done"

(* Stop's comment: it "stops reading new requests".  No HTTP request is    *)
(* read by serveSingleRequest once Stop has cleared run.                   *)
NoRequestReadAfterStop ==
    [][\A r \in Reqs : rpc[r] = "checked" /\ rpc'[r] = "done" => run]_vars

-----------------------------------------------------------------------------
(* Refinement: the server's run flag is the abstract running flag, and the *)
(* open connections are the tracked codecs not yet closed.  A refused      *)
(* codec, a codec whose ServeCodec returns after it was closed, and the    *)
(* HTTP requests are invisible to the abstract server.                     *)
OpenCodecs == {c \in codecs : ~hungup[c]}

Lifecycle == INSTANCE ServerLifecycle WITH running <- run, open <- OpenCodecs

(* Every behaviour of the RPC server is one of the abstract server: Stop   *)
(* ends every tracked connection in the same step that stops admission.   *)
ImplementsLifecycle == Lifecycle!Spec

=============================================================================

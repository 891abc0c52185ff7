----------------------------- MODULE InferServer -----------------------------
(***************************************************************************)
(* The inference server of package infernet (src/unnamed/part_000).        *)
(*                                                                         *)
(* New builds a server and starts its fetchWork goroutine.  The package    *)
(* variable globalInferServer is never assigned (New declares a local of   *)
(* the same name with :=), so New never finds a server to return and the   *)
(* exported SubmitInferWork dereferences nil.  Code holding the pointer    *)
(* New returned calls submitInferWork: it checks stopInfer and then sends  *)
(* on the unbuffered inferWorkCh; fetchWork receives and runs localInfer  *)
(* in a goroutine of its own, which answers from the cache or waits for    *)
(* the model and input files (checkFileExists) and runs InferCore.  Close  *)
(* stores stopInfer = 0 and then closes exitCh.  The state of the first    *)
(* server New builds is kept; later ones are counted.                      *)
(***************************************************************************)
EXTENDS Naturals

CONSTANTS
    Works,      \* InferWork values submitted
    Keys,       \* cache keys (model hash ++ input hash)
    KeyOf,      \* the key of each work
    Closers,    \* callers of Close
    MaxNew      \* calls of New

ASSUME InferAssumption ==
    /\ KeyOf \in [Works -> Keys]
    /\ MaxNew \in Nat \ {0}

FileKinds == {"params", "symbol", "data"}

(* The file localInfer checks after each stage, and the stage after it.    *)
NextStage == [params |-> "symbol", symbol |-> "data", data |-> "infer"]

VARIABLES
    servers,    \* servers New has built
    stop,       \* is.stopInfer (1 while running)
    exitClosed, \* is.exitCh closed
    closePanic, \* a Close closed the already closed exitCh
    fpc,        \* the fetchWork goroutine: "none" before New, "loop", "exited"
    wpc,        \* each submitter
    force,      \* each work's forcePending
    lpc,        \* each work's localInfer goroutine
    answer,     \* what each work received on res or err
    cache,      \* is.inferSimpleCache: keys with a stored label
    present,    \* files on disk, as <<key, kind>>
    ccpc        \* each Close caller

vars == <<servers, stop, exitClosed, closePanic, fpc, wpc, force, lpc, answer,
          cache, present, ccpc>>

Init ==
    /\ servers = 0
    /\ stop = 1
    /\ exitClosed = FALSE
    /\ closePanic = FALSE
    /\ fpc = "none"
    /\ wpc = [w \in Works |-> "idle"]
    /\ force = [w \in Works |-> FALSE]
    /\ lpc = [w \in Works |-> "none"]
    /\ answer = [w \in Works |-> "none"]
    /\ cache = {}
    /\ present = {}
    /\ ccpc = [c \in Closers |-> "idle"]

-----------------------------------------------------------------------------
(* New, SubmitInferWork, submitInferWork, fetchWork                        *)

(* New: globalInferServer is nil, so a server is built with stopInfer = 1  *)
(* and its fetchWork goroutine is started.                                 *)
New ==
    /\ servers < MaxNew
    /\ servers' = servers + 1
    /\ fpc' = IF servers = 0 THEN "loop" ELSE fpc
    /\ UNCHANGED <<stop, exitClosed, closePanic, wpc, force, lpc, answer,
                   cache, present, ccpc>>

(* SubmitInferWork calls submitInferWork on the nil globalInferServer:     *)
(* the load of stopInfer panics.                                           *)
SubmitInferWork(w) ==
    /\ wpc[w] = "idle"
    /\ wpc' = [wpc EXCEPT ![w] = "panicked"]
    /\ UNCHANGED <<servers, stop, exitClosed, closePanic, fpc, force, lpc,
                   answer, cache, present, ccpc>>

(* Mutant: submitInferWork does not check stopInfer.                      *)
submitInferWork_noCheck(w) ==
    /\ servers > 0
    /\ wpc[w] = "idle"
    /\ \E f \in BOOLEAN : force' = [force EXCEPT ![w] = f]
    /\ wpc' = [wpc EXCEPT ![w] = "sending"]
    /\ UNCHANGED <<servers, stop, exitClosed, closePanic, fpc, lpc, answer,
                   cache, present, ccpc>>

(* submitInferWork on the server New returned: refused once stopInfer is  *)
(* 0, otherwise the caller goes on to the send.                            *)
submitInferWork(w) ==
    /\ servers > 0
    /\ wpc[w] = "idle"
    /\ \E f \in BOOLEAN : force' = [force EXCEPT ![w] = f]
    /\ wpc' = [wpc EXCEPT ![w] = IF stop = 0 THEN "rejected" ELSE "sending"]
    /\ UNCHANGED <<servers, stop, exitClosed, closePanic, fpc, lpc, answer,
                   cache, present, ccpc>>

(* fetchWork's select takes the work from the unbuffered inferWorkCh (the  *)
(* send and the receive are one step) and starts localInfer.               *)
FetchWork(w) ==
    /\ fpc = "loop"
    /\ wpc[w] = "sending"
    /\ wpc' = [wpc EXCEPT ![w] = "handed"]
    /\ lpc' = [lpc EXCEPT ![w] = "cache"]
    /\ UNCHANGED <<servers, stop, exitClosed, closePanic, fpc, force, answer,
                   cache, present, ccpc>>

(* fetchWork's select takes <-is.exitCh and returns.                       *)
FetchExit ==
    /\ fpc = "loop"
    /\ exitClosed
    /\ fpc' = "exited"
    /\ UNCHANGED <<servers, stop, exitClosed, closePanic, wpc, force, lpc,
                   answer, cache, present, ccpc>>

-----------------------------------------------------------------------------
(* localInfer and checkFileExists                                          *)

(* A cache hit is answered at once; a miss goes on to the model files.     *)
LocalCache(w) ==
    /\ lpc[w] = "cache"
    /\ IF KeyOf[w] \in cache
       THEN /\ answer' = [answer EXCEPT ![w] = "res"]
            /\ lpc' = [lpc EXCEPT ![w] = "done"]
       ELSE /\ lpc' = [lpc EXCEPT ![w] = "params"]
            /\ UNCHANGED answer
    /\ UNCHANGED <<servers, stop, exitClosed, closePanic, fpc, wpc, force,
                   cache, present, ccpc>>

(* Mutant: checkFileExists keeps waiting after the server is closed.       *)
checkFileExists_noStop(w) ==
    /\ lpc[w] \in FileKinds
    /\ \/ <<KeyOf[w], lpc[w]>> \in present
       \/ ~force[w]
    /\ IF <<KeyOf[w], lpc[w]>> \in present
       THEN /\ lpc' = [lpc EXCEPT ![w] = NextStage[lpc[w]]]
            /\ UNCHANGED answer
       ELSE /\ answer' = [answer EXCEPT ![w] = "err"]
            /\ lpc' = [lpc EXCEPT ![w] = "done"]
    /\ UNCHANGED <<servers, stop, exitClosed, closePanic, fpc, wpc, force,
                   cache, present, ccpc>>

(* Mutant: the error branch after checkFileExists lacks its return, so    *)
(* localInfer goes on to the next file after sending the error.            *)
checkFileExists_noReturn(w) ==
    /\ lpc[w] \in FileKinds
    /\ \/ <<KeyOf[w], lpc[w]>> \in present
       \/ ~force[w]
       \/ stop = 0
    /\ lpc' = [lpc EXCEPT ![w] = NextStage[lpc[w]]]
    /\ IF <<KeyOf[w], lpc[w]>> \in present
       THEN UNCHANGED answer
       ELSE answer' = [answer EXCEPT ![w] = "err"]
    /\ UNCHANGED <<servers, stop, exitClosed, closePanic, fpc, wpc, force,
                   cache, present, ccpc>>

(* checkFileExists for the current file: a present file passes; a missing *)
(* one is an error unless forcePending, and with forcePending the loop     *)
(* sleeps (the step waits) until the file appears or stopInfer reads 0,    *)
(* which is an error too.  localInfer sends the error on err and returns.  *)
checkFileExists(w) ==
    /\ lpc[w] \in FileKinds
    /\ \/ <<KeyOf[w], lpc[w]>> \in present
       \/ ~force[w]
       \/ stop = 0
    /\ IF <<KeyOf[w], lpc[w]>> \in present
       THEN /\ lpc' = [lpc EXCEPT ![w] = NextStage[lpc[w]]]
            /\ UNCHANGED answer
       ELSE /\ answer' = [answer EXCEPT ![w] = "err"]
            /\ lpc' = [lpc EXCEPT ![w] = "done"]
    /\ UNCHANGED <<servers, stop, exitClosed, closePanic, fpc, wpc, force,
                   cache, present, ccpc>>

(* InferCore: an error is sent on err; a label is sent on res and then     *)
(* stored in the cache.                                                    *)
LocalInfer(w) ==
    /\ lpc[w] = "infer"
    /\ lpc' = [lpc EXCEPT ![w] = "done"]
    /\ \/ /\ answer' = [answer EXCEPT ![w] = "err"]
          /\ UNCHANGED cache
       \/ /\ answer' = [answer EXCEPT ![w] = "res"]
          /\ cache' = cache \cup {KeyOf[w]}
    /\ UNCHANGED <<servers, stop, exitClosed, closePanic, fpc, wpc, force,
                   present, ccpc>>

(* The storage finishes syncing a file.                                    *)
FileSynced(k, kind) ==
    /\ <<k, kind>> \notin present
    /\ present' = present \cup {<<k, kind>>}
    /\ UNCHANGED <<servers, stop, exitClosed, closePanic, fpc, wpc, force,
                   lpc, answer, cache, ccpc>>

-----------------------------------------------------------------------------
(* Close                                                                   *)

(* Mutant: Close leaves stopInfer alone.                                  *)
CloseStore_noStore(c) ==
    /\ servers > 0
    /\ ccpc[c] = "idle"
    /\ ccpc' = [ccpc EXCEPT ![c] = "stored"]
    /\ UNCHANGED <<servers, stop, exitClosed, closePanic, fpc, wpc, force, lpc,
                   answer, cache, present>>

(* Close, first statement: atomic.StoreInt32(&is.stopInfer, 0).           *)
CloseStore(c) ==
    /\ servers > 0
    /\ ccpc[c] = "idle"
    /\ stop' = 0
    /\ ccpc' = [ccpc EXCEPT ![c] = "stored"]
    /\ UNCHANGED <<servers, exitClosed, closePanic, fpc, wpc, force, lpc,
                   answer, cache, present>>

(* Close, second statement: close(is.exitCh); closing it a second time     *)
(* panics.                                                                 *)
CloseExit(c) ==
    /\ ccpc[c] = "stored"
    /\ ccpc' = [ccpc EXCEPT ![c] = "done"]
    /\ \/ /\ ~exitClosed
          /\ exitClosed' = TRUE
          /\ UNCHANGED closePanic
       \/ /\ exitClosed
          /\ closePanic' = TRUE
          /\ UNCHANGED exitClosed
    /\ UNCHANGED <<servers, stop, fpc, wpc, force, lpc, answer, cache,
                   present>>

Next ==
    \/ New
    \/ \E w \in Works : \/ SubmitInferWork(w) \/ submitInferWork(w)
                        \/ FetchWork(w) \/ LocalCache(w)
                        \/ checkFileExists(w) \/ LocalInfer(w)
    \/ FetchExit
    \/ \E k \in Keys, kind \in FileKinds : FileSynced(k, kind)
    \/ \E c \in Closers : CloseStore(c) \/ CloseExit(c)

(* fetchWork and each localInfer goroutine are runnable whenever their     *)
(* step is enabled (the 5s sleep ends, the select picks a ready case).     *)
(* Submitters, Close callers and the file system get no fairness.         *)
Fairness ==
    /\ WF_vars(FetchExit)
    /\ \A w \in Works : /\ WF_vars(FetchWork(w))
                        /\ WF_vars(LocalCache(w))
                        /\ WF_vars(checkFileExists(w))
                        /\ WF_vars(LocalInfer(w))

Spec == Init /\ [][Next]_vars /\ Fairness

(* Properties                                                              *)

(* Every variable holds a value of its type.                               *)
TypeOK ==
    /\ servers \in 0..MaxNew
    /\ stop \in {0, 1}
    /\ exitClosed \in BOOLEAN /\ closePanic \in BOOLEAN
    /\ fpc \in {"none", "loop", "exited"}
    /\ wpc \in [Works -> {"idle", "panicked", "rejected", "sending", "handed"}]
    /\ force \in [Works -> BOOLEAN]
    /\ lpc \in [Works -> {"none", "cache", "infer", "done"} \cup FileKinds]
    /\ answer \in [Works -> {"none", "res", "err"}]
    /\ cache \subseteq Keys
    /\ present \subseteq Keys \X FileKinds
    /\ ccpc \in [Closers -> {"idle", "stored", "done"}]

(* Close stores stopInfer = 0 before it closes exitCh, so once fetchWork   *)
(* has returned every later submitInferWork is refused rather than left    *)
(* sending to a goroutine that is gone.                                    *)
ExitedOnlyWhenStopped ==
    fpc = "exited" => stop = 0

(* After Close has stored stopInfer = 0, every localInfer goroutine        *)
(* returns with an answer, also one polling for a file that never syncs.   *)
CloseReleasesWorkers ==
    \A w \in Works : (lpc[w] \notin {"none", "done"} /\ stop = 0) ~> lpc[w] = "done"

(* Each work is answered at most once: every path of localInfer that      *)
(* sends on res or err returns right after, so an answer, once given, is  *)
(* never followed by another on the same work.                             *)
AnswerOnce ==
    [][\A w \in Works : answer[w] # "none" => answer'[w] = answer[w]]_vars

(* submitInferWork returns an error for a closed server instead of        *)
(* blocking: a submitter that passed the check is eventually taken by       *)
(* fetchWork.                                                              *)
SubmitNeverHangs ==
    \A w \in Works : wpc[w] = "sending" ~> wpc[w] = "handed"

(* New keeps one server in globalInferServer for SubmitInferWork: once a   *)
(* server exists, SubmitInferWork does not panic.                          *)
SubmitReachesServer ==
    \A w \in Works : wpc[w] = "panicked" => servers = 0

-----------------------------------------------------------------------------
(* Refinement: the service is open while stopInfer is 1; a work is queued  *)
(* from the moment submitInferWork passes the check and answered once      *)
(* localInfer has sent on res or err.  A rejected or panicked submission   *)
(* is a work the service never accepted.                                   *)
WorkStatus ==
    [w \in Works |-> IF answer[w] # "none" THEN "answered"
                     ELSE IF wpc[w] \in {"sending", "handed"} THEN "queued"
                     ELSE "new"]

Service == INSTANCE InferService WITH accepting <- (stop = 1), status <- WorkStatus

(* Every behaviour of the inference server is one of the abstract service: *)
(* works enter only through the stopInfer check, and each is answered once *)
(* at most, after it was accepted.                                         *)
ImplementsInferService == Service!Spec

=============================================================================

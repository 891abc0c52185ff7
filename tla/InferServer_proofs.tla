-------------------------- MODULE InferServer_proofs --------------------------
(***************************************************************************)
(* Proofs about the inference server for every set of works, keys and     *)
(* Close callers, and every bound on New.                                  *)
(***************************************************************************)
EXTENDS InferServer, TLAPS

LEMMA KeyOfType == KeyOf \in [Works -> Keys]
BY InferAssumption

LEMMA MaxNewPos == MaxNew \in Nat \ {0}
BY InferAssumption

(* Every reachable state is well typed.                                    *)
THEOREM TypeCorrect == Spec => []TypeOK
<1>1. Init => TypeOK
  <2> SUFFICES ASSUME Init PROVE TypeOK
    OBVIOUS
  <2>1. servers \in 0..MaxNew
    BY MaxNewPos DEF Init
  <2>2. force \in [Works -> BOOLEAN]
    BY DEF Init
  <2>3. QED
    BY <2>1, <2>2 DEF Init, TypeOK
<1>2. TypeOK /\ [Next]_vars => TypeOK'
  <2> SUFFICES ASSUME TypeOK, [Next]_vars PROVE TypeOK'
    OBVIOUS
  <2> USE DEF TypeOK
  <2>1. CASE New
    BY <2>1, MaxNewPos DEF New
  <2>2. ASSUME NEW w \in Works, SubmitInferWork(w) PROVE TypeOK'
    BY <2>2 DEF SubmitInferWork
  <2>10. ASSUME NEW w \in Works, submitInferWork(w) PROVE TypeOK'
    <3>1. PICK f \in BOOLEAN : force' = [force EXCEPT ![w] = f]
      BY <2>10 DEF submitInferWork
    <3>2. force' \in [Works -> BOOLEAN]
      BY <3>1
    <3>3. QED
      BY <2>10, <3>2 DEF submitInferWork
  <2>11. ASSUME NEW w \in Works, FetchWork(w) PROVE TypeOK'
    BY <2>11 DEF FetchWork
  <2>12. ASSUME NEW w \in Works, LocalCache(w) PROVE TypeOK'
    <3>1. CASE KeyOf[w] \in cache
      <4>1. answer' = [answer EXCEPT ![w] = "res"] /\ lpc' = [lpc EXCEPT ![w] = "done"]
        BY <2>12, <3>1 DEF LocalCache
      <4>2. answer' \in [Works -> {"none", "res", "err"}]
        BY <4>1
      <4>3. lpc' \in [Works -> {"none", "cache", "infer", "done"} \cup FileKinds]
        BY <4>1
      <4>4. UNCHANGED <<servers, stop, exitClosed, closePanic, fpc, wpc, force,
                         cache, present, ccpc>>
        BY <2>12 DEF LocalCache
      <4>5. QED
        BY <4>2, <4>3, <4>4
    <3>2. CASE KeyOf[w] \notin cache
      BY <2>12, <3>2 DEF LocalCache, FileKinds
    <3>3. QED
      BY <3>1, <3>2
  <2>3. ASSUME NEW w \in Works, checkFileExists(w) PROVE TypeOK'
    BY <2>3 DEF checkFileExists, FileKinds, NextStage
  <2>4. ASSUME NEW w \in Works, LocalInfer(w) PROVE TypeOK'
    BY <2>4, KeyOfType DEF LocalInfer
  <2>5. ASSUME NEW k \in Keys, NEW kind \in FileKinds, FileSynced(k, kind)
        PROVE  TypeOK'
    BY <2>5 DEF FileSynced
  <2>6. CASE FetchExit
    BY <2>6 DEF FetchExit
  <2>7. ASSUME NEW c \in Closers, CloseStore(c) \/ CloseExit(c) PROVE TypeOK'
    BY <2>7 DEF CloseStore, CloseExit
  <2>8. CASE UNCHANGED vars
    BY <2>8 DEF vars
  <2>9. QED
    BY <2>1, <2>2, <2>3, <2>4, <2>5, <2>6, <2>7, <2>8, <2>10, <2>11, <2>12
       DEF Next
<1>3. QED
  BY <1>1, <1>2, PTL DEF Spec

(* Close's two statements in order: a caller past its store has set       *)
(* stopInfer to 0, exitCh is closed only by such a caller, and fetchWork   *)
(* returns only through a closed exitCh.  stopInfer is never set back.     *)
CloseOrdered ==
    /\ \A c \in Closers : ccpc[c] # "idle" => stop = 0
    /\ exitClosed => stop = 0
    /\ fpc = "exited" => exitClosed

LEMMA CloseOrderedStep ==
    ASSUME CloseOrdered, [Next]_vars
    PROVE  CloseOrdered'
<1> USE DEF CloseOrdered
<1>1. CASE New
  BY <1>1 DEF New
<1>2. ASSUME NEW w \in Works,
             \/ SubmitInferWork(w) \/ submitInferWork(w) \/ FetchWork(w)
             \/ LocalCache(w) \/ checkFileExists(w) \/ LocalInfer(w)
      PROVE  CloseOrdered'
  BY <1>2 DEF SubmitInferWork, submitInferWork, FetchWork, LocalCache,
              checkFileExists, LocalInfer
<1>3. CASE FetchExit
  BY <1>3 DEF FetchExit
<1>4. ASSUME NEW k \in Keys, NEW kind \in FileKinds, FileSynced(k, kind)
      PROVE  CloseOrdered'
  BY <1>4 DEF FileSynced
<1>5. ASSUME NEW c \in Closers, CloseStore(c) PROVE CloseOrdered'
  BY <1>5 DEF CloseStore
<1>6. ASSUME NEW c \in Closers, CloseExit(c) PROVE CloseOrdered'
  BY <1>6 DEF CloseExit
<1>7. CASE UNCHANGED vars
  BY <1>7 DEF vars
<1>8. QED
  BY <1>1, <1>2, <1>3, <1>4, <1>5, <1>6, <1>7 DEF Next

(* fetchWork has returned only after stopInfer reads 0: Close stores the  *)
(* flag before it closes exitCh, so a submitInferWork that can no longer  *)
(* be received is refused.  (The other order would let a submitter pass   *)
(* the check and block on the send for ever.)                              *)
THEOREM ExitAfterStop == Spec => []ExitedOnlyWhenStopped
<1>1. Init => CloseOrdered
  BY DEF Init, CloseOrdered
<1>2. CloseOrdered => ExitedOnlyWhenStopped
  BY DEF CloseOrdered, ExitedOnlyWhenStopped
<1>3. QED
  BY <1>1, <1>2, CloseOrderedStep, PTL DEF Spec
-----------------------------------------------------------------------------
(* One answer per work.  A localInfer goroutine exists only for a work      *)
(* fetchWork took, and a work with an answer has its goroutine returned:   *)
(* no step of localInfer is enabled for it any more.                        *)
AnswerGiven ==
    \A w \in Works :
        /\ answer[w] # "none" => lpc[w] = "done"
        /\ wpc[w] # "handed" => lpc[w] = "none"

LEMMA AnswerGivenStep ==
    ASSUME TypeOK, AnswerGiven, [Next]_vars
    PROVE  AnswerGiven'
<1> USE DEF AnswerGiven
<1>1. CASE New
  BY <1>1 DEF New
<1>2. ASSUME NEW w \in Works, SubmitInferWork(w) PROVE AnswerGiven'
  BY <1>2 DEF SubmitInferWork
<1>3. ASSUME NEW w \in Works, submitInferWork(w) PROVE AnswerGiven'
  BY <1>3 DEF submitInferWork
<1>4. ASSUME NEW w \in Works, FetchWork(w) PROVE AnswerGiven'
  BY <1>4 DEF FetchWork, TypeOK
<1>5. ASSUME NEW w \in Works, LocalCache(w) PROVE AnswerGiven'
  BY <1>5 DEF LocalCache, TypeOK
<1>6. ASSUME NEW w \in Works, checkFileExists(w) PROVE AnswerGiven'
  BY <1>6 DEF checkFileExists, TypeOK, FileKinds, NextStage
<1>7. ASSUME NEW w \in Works, LocalInfer(w) PROVE AnswerGiven'
  BY <1>7 DEF LocalInfer, TypeOK
<1>8. CASE FetchExit
  BY <1>8 DEF FetchExit
<1>9. ASSUME NEW k \in Keys, NEW kind \in FileKinds, FileSynced(k, kind)
      PROVE  AnswerGiven'
  BY <1>9 DEF FileSynced
<1>10. ASSUME NEW c \in Closers, CloseStore(c) \/ CloseExit(c)
       PROVE  AnswerGiven'
  BY <1>10 DEF CloseStore, CloseExit
<1>11. CASE UNCHANGED vars
  BY <1>11 DEF vars
<1>12. QED
  BY <1>1, <1>2, <1>3, <1>4, <1>5, <1>6, <1>7, <1>8, <1>9, <1>10, <1>11
     DEF Next

LEMMA AnswerGivenAlways == Spec => []AnswerGiven
<1>1. Init => AnswerGiven
  BY DEF Init, AnswerGiven
<1>2. QED
  BY <1>1, AnswerGivenStep, TypeCorrect, PTL DEF Spec

(* A work, once answered on res or err, is never answered again: every     *)
(* send in localInfer is followed by its return (part_000 108-139).        *)
THEOREM AnswerAtMostOnce == Spec => AnswerOnce
<1>1. TypeOK /\ AnswerGiven /\ [Next]_vars
        => [\A w \in Works : answer[w] # "none" => answer'[w] = answer[w]]_vars
  <2> SUFFICES ASSUME TypeOK, AnswerGiven, [Next]_vars, NEW w \in Works,
                      answer[w] # "none"
               PROVE  answer'[w] = answer[w]
    OBVIOUS
  <2>1. lpc[w] = "done"
    BY DEF AnswerGiven
  <2>2. ASSUME NEW x \in Works,
               LocalCache(x) \/ checkFileExists(x) \/ LocalInfer(x)
        PROVE  answer'[w] = answer[w]
    <3>1. x # w
      BY <2>1, <2>2 DEF LocalCache, checkFileExists, LocalInfer, FileKinds
    <3>2. CASE LocalCache(x)
      BY <3>1, <3>2 DEF LocalCache, TypeOK
    <3>3. CASE checkFileExists(x)
      BY <3>1, <3>3 DEF checkFileExists, TypeOK
    <3>4. CASE LocalInfer(x)
      BY <3>1, <3>4 DEF LocalInfer, TypeOK
    <3>5. QED
      BY <2>2, <3>2, <3>3, <3>4
  <2>3. QED
    BY <2>2 DEF Next, vars, New, SubmitInferWork, submitInferWork, FetchWork,
                FetchExit, FileSynced, CloseStore, CloseExit
<1>2. QED
  BY <1>1, AnswerGivenAlways, TypeCorrect, PTL DEF Spec, AnswerOnce

-----------------------------------------------------------------------------
(* Refinement of the abstract InferService.                                *)

SVars == <<stop = 1, WorkStatus>>

(* The steps of one work's submitter and localInfer goroutine as steps of  *)
(* the abstract service: passing the check accepts the work, the first    *)
(* send on res or err answers it, everything else is a stutter.            *)
LEMMA ServiceStep ==
    ASSUME TypeOK, AnswerGiven, [Next]_vars
    PROVE  [Service!Next]_SVars
<1> USE DEF AnswerGiven
<1>1. ASSUME NEW w \in Works, submitInferWork(w) PROVE [Service!Next]_SVars
  <2>1. answer[w] = "none"
    BY <1>1 DEF submitInferWork, TypeOK
  <2>2. CASE stop = 1
    <3>1. wpc' = [wpc EXCEPT ![w] = "sending"] /\ UNCHANGED <<answer, stop>>
      BY <1>1, <2>2 DEF submitInferWork
    <3>2. WorkStatus[w] = "new"
      BY <1>1, <2>1 DEF submitInferWork, WorkStatus
    <3>3. WorkStatus' = [WorkStatus EXCEPT ![w] = "queued"]
      BY <3>1, <2>1 DEF WorkStatus, TypeOK
    <3>4. Service!Accept(w)
      BY <2>2, <3>1, <3>2, <3>3 DEF Service!Accept
    <3>5. QED
      BY <3>4 DEF Service!Next
  <2>3. CASE stop # 1
    <3>1. WorkStatus' = WorkStatus
      BY <1>1, <2>1, <2>3 DEF submitInferWork, WorkStatus, TypeOK
    <3>2. QED
      BY <1>1, <3>1 DEF submitInferWork, SVars
  <2>4. QED
    BY <2>2, <2>3
<1>2. ASSUME NEW w \in Works, SubmitInferWork(w) \/ FetchWork(w)
      PROVE  [Service!Next]_SVars
  <2>1. WorkStatus' = WorkStatus
    BY <1>2 DEF SubmitInferWork, FetchWork, WorkStatus, TypeOK
  <2>2. QED
    BY <1>2, <2>1 DEF SubmitInferWork, FetchWork, SVars
<1>3. ASSUME NEW w \in Works,
             \/ LocalCache(w) /\ KeyOf[w] \in cache
             \/ checkFileExists(w) /\ <<KeyOf[w], lpc[w]>> \notin present
             \/ LocalInfer(w)
      PROVE  [Service!Next]_SVars
  <2>1. lpc[w] # "done" /\ lpc[w] # "none"
    BY <1>3 DEF LocalCache, checkFileExists, LocalInfer, FileKinds
  <2>2. answer[w] = "none" /\ wpc[w] = "handed"
    BY <2>1
  <2>3. answer'[w] # "none" /\ \A x \in Works \ {w} : answer'[x] = answer[x]
    BY <1>3 DEF LocalCache, checkFileExists, LocalInfer, TypeOK
  <2>4. UNCHANGED <<stop, wpc>>
    BY <1>3 DEF LocalCache, checkFileExists, LocalInfer
  <2>5. Service!Answer(w)
    BY <2>2, <2>3, <2>4 DEF Service!Answer, WorkStatus, TypeOK
  <2>6. QED
    BY <2>5 DEF Service!Next
<1>4. ASSUME NEW w \in Works,
             \/ LocalCache(w) /\ KeyOf[w] \notin cache
             \/ checkFileExists(w) /\ <<KeyOf[w], lpc[w]>> \in present
      PROVE  [Service!Next]_SVars
  BY <1>4 DEF LocalCache, checkFileExists, WorkStatus, SVars
<1>5. ASSUME NEW c \in Closers, CloseStore(c) PROVE [Service!Next]_SVars
  <2>1. CASE stop = 1
    <3>1. Service!Close
      BY <1>5, <2>1 DEF CloseStore, Service!Close, WorkStatus
    <3>2. QED
      BY <3>1 DEF Service!Next
  <2>2. CASE stop # 1
    BY <1>5, <2>2 DEF CloseStore, WorkStatus, SVars, TypeOK
  <2>3. QED
    BY <2>1, <2>2
<1>6. ASSUME NEW c \in Closers, CloseExit(c) PROVE [Service!Next]_SVars
  BY <1>6 DEF CloseExit, WorkStatus, SVars
<1>7. CASE New \/ FetchExit
  BY <1>7 DEF New, FetchExit, WorkStatus, SVars
<1>8. ASSUME NEW k \in Keys, NEW kind \in FileKinds, FileSynced(k, kind)
      PROVE  [Service!Next]_SVars
  BY <1>8 DEF FileSynced, WorkStatus, SVars
<1>9. CASE UNCHANGED vars
  BY <1>9 DEF vars, WorkStatus, SVars
<1>10. QED
  <2>1. ASSUME NEW w \in Works, LocalCache(w) PROVE [Service!Next]_SVars
    BY <1>3, <1>4, <2>1
  <2>2. ASSUME NEW w \in Works, checkFileExists(w) PROVE [Service!Next]_SVars
    BY <1>3, <1>4, <2>2
  <2>3. QED
    BY <1>1, <1>2, <1>3, <1>5, <1>6, <1>7, <1>8, <1>9, <2>1, <2>2 DEF Next

(* The inference server implements InferService under the mapping         *)
(* accepting <- (stopInfer = 1), status <- WorkStatus.                     *)
THEOREM ServiceRefinement == Spec => ImplementsInferService
<1>1. Init => Service!Init
  BY DEF Init, Service!Init, WorkStatus
<1>2. QED
  BY <1>1, ServiceStep, AnswerGivenAlways, TypeCorrect, PTL
     DEF Spec, ImplementsInferService, Service!Spec, SVars

=============================================================================

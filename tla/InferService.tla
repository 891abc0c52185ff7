---------------------------- MODULE InferService ----------------------------
(***************************************************************************)
(* What the inference server promises its callers, without channels or    *)
(* goroutines: a work is accepted only while the service is open, every   *)
(* accepted work is answered at most once, and a work that was never      *)
(* accepted is never answered.  Closing stops acceptance; works already   *)
(* accepted may still be answered.                                         *)
(***************************************************************************)
CONSTANT Works

VARIABLES
    accepting,  \* the service takes new works
    status      \* each work: "new", "queued" (accepted) or "answered"

Init ==
    /\ accepting = TRUE
    /\ status = [w \in Works |-> "new"]

Accept(w) ==
    /\ accepting
    /\ status[w] = "new"
    /\ status' = [status EXCEPT ![w] = "queued"]
    /\ UNCHANGED accepting

Answer(w) ==
    /\ status[w] = "queued"
    /\ status' = [status EXCEPT ![w] = "answered"]
    /\ UNCHANGED accepting

Close ==
    /\ accepting
    /\ accepting' = FALSE
    /\ UNCHANGED status

Next == (\E w \in Works : Accept(w) \/ Answer(w)) \/ Close

Spec == Init /\ [][Next]_<<accepting, status>>

=============================================================================

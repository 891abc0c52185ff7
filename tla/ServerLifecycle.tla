--------------------------- MODULE ServerLifecycle ---------------------------
(***************************************************************************)
(* What a server that tracks its connections promises, independently of   *)
(* locks and goroutines: connections are admitted only while it runs, a    *)
(* connection may end at any time, and shutting down ends every admitted  *)
(* connection at once and admits none after.                              *)
(***************************************************************************)
CONSTANT Conns

VARIABLES
    running,    \* the server accepts connections
    open        \* admitted connections that have not ended

Init ==
    /\ running = TRUE
    /\ open = {}

Admit(c) ==
    /\ running
    /\ c \notin open
    /\ open' = open \cup {c}
    /\ UNCHANGED running

End(c) ==
    /\ c \in open
    /\ open' = open \ {c}
    /\ UNCHANGED running

Shutdown ==
    /\ running
    /\ running' = FALSE
    /\ open' = {}

Next == (\E c \in Conns : Admit(c) \/ End(c)) \/ Shutdown

Spec == Init /\ [][Next]_<<running, open>>

=============================================================================

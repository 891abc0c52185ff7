--------------------------- MODULE MC_InferServer ---------------------------
(* Model values for InferServer: two works sharing one cache key, two Close *)
(* callers.                                                                *)
EXTENDS InferServer

CONSTANTS w1, w2, k1, c1, c2

MCWorks == {w1, w2}
MCKeys == {k1}
MCKeyOf == [w \in MCWorks |-> k1]
MCClosers == {c1, c2}

=============================================================================

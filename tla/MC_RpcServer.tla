---------------------------- MODULE MC_RpcServer ----------------------------
(* Model values for RpcServer: three served codecs and two HTTP requests.  *)
EXTENDS RpcServer

CONSTANTS c1, c2, c3, r1, r2

MCConns == {c1, c2, c3}
MCReqs == {r1, r2}

=============================================================================

---------------------------- MODULE MCRpcChannel ----------------------------
(* Instances of RpcChannel for TLC. *)
EXTENDS RpcChannel

CONSTANTS t1, t2, r1
=============================================================================

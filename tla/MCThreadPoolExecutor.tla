------------------------ MODULE MCThreadPoolExecutor ------------------------
(* Instances of ThreadPoolExecutor for TLC. *)
EXTENDS ThreadPoolExecutor

CONSTANTS p1, p2, c1
=============================================================================

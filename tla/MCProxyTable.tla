---------------------------- MODULE MCProxyTable ----------------------------
(* ProxyTable for TLC.  Threads are interchangeable, and so are proxies.   *)
EXTENDS ProxyTable, TLC

ThreadProxySymmetry == Permutations(Threads) \cup Permutations(Proxies)
=============================================================================

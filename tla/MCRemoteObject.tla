--------------------------- MODULE MCRemoteObject ---------------------------
(* Instances of RemoteObject for TLC. *)
EXTENDS RemoteObject, TLC

AnyProcess == Permutations(Clients) \cup Permutations(Threads)
=============================================================================

----------------------------- MODULE MCRefBase -----------------------------
(* RefBase for TLC.  The clients are interchangeable.                      *)
EXTENDS RefBase, TLC

ClientSymmetry == Permutations(Clients)
=============================================================================

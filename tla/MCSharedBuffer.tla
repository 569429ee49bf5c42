--------------------------- MODULE MCSharedBuffer ---------------------------
(* SharedBuffer for TLC.  Strings, buffers and texts are interchangeable.  *)
EXTENDS SharedBuffer, TLC

BufferSymmetry == Permutations(Strings) \cup Permutations(Buffers) \cup Permutations(Values)
=============================================================================

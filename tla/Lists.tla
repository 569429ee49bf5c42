-------------------------------- MODULE Lists --------------------------------
(***************************************************************************)
(* The linked lists that queues are kept in, as sequences.                 *)
(***************************************************************************)
EXTENDS Integers, Sequences, FiniteSets

(* How many elements of a set of places come no later than place i.        *)
Rank(places, i) == Cardinality({j \in places : j <= i})

(* The list whose entries of a set were detached one by one: the others    *)
(* keep their order.  It is SelectSeq for the entries that are not in the  *)
(* set; entry n is the one that makes n entries kept.                      *)
Without(list, S) ==
    LET kept == {i \in DOMAIN list : list[i] \notin S}
    IN  [n \in 1 .. Cardinality(kept) |->
            list[CHOOSE i \in kept : Rank(kept, i) = n]]
=============================================================================

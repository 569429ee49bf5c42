---------------------------- MODULE StringValues ----------------------------
(***************************************************************************)
(* What String promises its users, without shared buffers: each String has *)
(* a value of its own, which only its own operations change.               *)
(***************************************************************************)
CONSTANTS Strings, Values, Null

VARIABLE value    \* of each String; Null is a String without characters

Init == value = [s \in Strings |-> Null]

Assign(s) == \E v \in Values \cup {Null} : value' = [value EXCEPT ![s] = v]
Copy(s, other) == value' = [value EXCEPT ![s] = value[other]]

Next == \E s \in Strings : Assign(s) \/ \E other \in Strings : Copy(s, other)

Spec == Init /\ [][Next]_value
=============================================================================

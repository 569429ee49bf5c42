--------------------------- MODULE MCCallbackContext ---------------------------
EXTENDS CallbackContext

CONSTANTS s1, s2, d1, d2

(* Two kinds of event that are sent, from two senders, and one that is     *)
(* posted and coalesced, whose newer event has the lower priority.         *)
MCPriority == [e \in Events |-> IF e \in {s1, d2} THEN 1 ELSE 0]
MCSender == [e \in Events |-> IF e = s1 THEN "p" ELSE "q"]
MCId == [e \in Events |-> IF e = s1 THEN "p0" ELSE IF e = s2 THEN "q0" ELSE "q1"]
MCRegistration == MCId
MCCancels == {MCRegistration[s1]}

(* Without is what SelectSeq selects.                                      *)
ASSUME WithoutSelects ==
    \A list \in UNION {[1 .. n -> 1 .. 3] : n \in 0 .. 4}, S \in SUBSET (1 .. 3) :
        Without(list, S) = SelectSeq(list, LAMBDA d : d \notin S)
=============================================================================

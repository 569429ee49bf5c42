-------------------------- MODULE SharedOwnership --------------------------
(***************************************************************************)
(* What a reference counted object promises its clients, without counters: *)
(* an object with a control block, owners that keep the object, observers  *)
(* that keep the block and may try to become owners.  RefBase (elrefbase)  *)
(* is shown to implement it.                                               *)
(***************************************************************************)
CONSTANT Clients

VARIABLES
    owners,      \* clients holding a strong reference
    observers,   \* clients holding a weak reference
    object,      \* "live", or "freed" once its destructor has run
    block        \* "live", or "freed": the counters that outlive the object

vars == <<owners, observers, object, block>>

Init ==
    /\ owners = {} /\ observers = {}
    /\ object = "live" /\ block = "live"

(* A strong reference is only ever handed out on an object that exists.    *)
Own(c) ==
    /\ object = "live"
    /\ c \notin owners \cup observers
    /\ owners' = owners \cup {c}
    /\ UNCHANGED <<observers, object, block>>

Disown(c) ==
    /\ c \in owners
    /\ owners' = owners \ {c}
    /\ UNCHANGED <<observers, object, block>>

(* A weak reference needs only the control block.                          *)
Observe(c) ==
    /\ block = "live"
    /\ c \notin owners \cup observers
    /\ observers' = observers \cup {c}
    /\ UNCHANGED <<owners, object, block>>

Unobserve(c) ==
    /\ c \in observers
    /\ observers' = observers \ {c}
    /\ UNCHANGED <<owners, object, block>>

(* The object goes once and only when nobody owns it; the block may go     *)
(* with it when nobody observes it either.                                 *)
Destroy ==
    /\ object = "live" /\ owners = {}
    /\ object' = "freed"
    /\ \/ block' = block
       \/ block' = "freed" /\ observers = {}
    /\ UNCHANGED <<owners, observers>>

FreeBlock ==
    /\ object = "freed" /\ block = "live"
    /\ owners = {} /\ observers = {}
    /\ block' = "freed"
    /\ UNCHANGED <<owners, observers, object>>

Next ==
    \/ \E c \in Clients : Own(c) \/ Disown(c) \/ Observe(c) \/ Unobserve(c)
    \/ Destroy
    \/ FreeBlock

Spec == Init /\ [][Next]_vars
=============================================================================

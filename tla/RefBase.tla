------------------------------ MODULE RefBase ------------------------------
(***************************************************************************)
(* ElRefBase and its WeakRefImpl (elrefbase.cpp): the strong and the weak  *)
(* count of one object, changed by threads one atomic instruction at a     *)
(* time.  A client is one reference (an AutoPtr, a WeakReference) together *)
(* with the thread that is creating or dropping it, so it is inside at     *)
(* most one operation and ends it holding at most one reference.  To copy  *)
(* a reference a client borrows another client's; that one cannot be       *)
(* dropped while IncStrong runs on it.                                     *)
(***************************************************************************)
EXTENDS Integers, FiniteSets

CONSTANTS
    Clients,
    NoClient,
    INITIAL_STRONG_VALUE,  \* mStrong before the first strong reference
    Lifetimes,             \* values mFlags may have after construction
    WeakFirst              \* lifetimes whose objects may hand out weak
                           \* references before the first strong one

ASSUME ClientsAssumption ==
    IsFiniteSet(Clients) /\ NoClient \notin Clients

\* The code's value is 1 << 28: more references than a process can hold.
ASSUME InitialStrongAssumption ==
    INITIAL_STRONG_VALUE \in Nat /\ INITIAL_STRONG_VALUE > Cardinality(Clients)

ASSUME LifetimesAssumption ==
    Lifetimes \subseteq {"STRONG", "WEAK"} /\ WeakFirst \subseteq Lifetimes

VARIABLES
    mStrong, mWeak, mFlags,  \* the fields of WeakRefImpl
    object, refs,            \* memory of the ElRefBase and of its WeakRefImpl
    constructing,            \* only the constructing thread has the pointer
    pc,                      \* the operation each client is inside
    curCount,                \* AttemptIncStrong's local, 0 out of its scope
    lender                   \* whose strong reference IncStrong borrows

vars == <<mStrong, mWeak, mFlags, object, refs, constructing, pc, curCount, lender>>

Idle == {"none", "weak", "strong"}
PCs == Idle \cup
    { "inc_strong", "force_inc", "inc_first", "on_first",
      "on_last", "delete", "dec_weak", "last_weak",
      "att_read", "att_cas", "att_slow", "att_inc", "att_unneeded" }

(* The clients whose increment of a count is not yet matched by the        *)
(* decrement.                                                              *)
CountedStrong == {"strong", "inc_first", "on_first", "att_unneeded"}
CountedWeak == PCs \ {"none", "last_weak"}

StrongRefs == {c \in Clients : pc[c] \in CountedStrong}
WeakRefs == {c \in Clients : pc[c] \in CountedWeak}

TypeOK ==
    /\ mStrong \in Nat /\ mWeak \in Nat
    /\ mFlags \in Lifetimes
    /\ object \in {"live", "freed"} /\ refs \in {"live", "freed"}
    /\ constructing \in BOOLEAN
    /\ pc \in [Clients -> PCs]
    /\ curCount \in [Clients -> Nat]
    /\ lender \in [Clients -> Clients \cup {NoClient}]

(* The constructor leaves mStrong at INITIAL_STRONG_VALUE; a subclass      *)
(* constructor may have called ExtendObjectLifetime.                       *)
Init ==
    /\ mStrong = INITIAL_STRONG_VALUE /\ mWeak = 0
    /\ mFlags \in Lifetimes
    /\ object = "live" /\ refs = "live"
    /\ constructing = TRUE
    /\ pc = [c \in Clients |-> "none"]
    /\ curCount = [c \in Clients |-> 0]
    /\ lender = [c \in Clients |-> NoClient]

Goto(c, to) == pc' = [pc EXCEPT ![c] = to]
-----------------------------------------------------------------------------
(* IncStrong on the reference of s, or on the pointer new returned: its    *)
(* IncWeak comes first.                                                    *)
IncStrong(c, s) ==
    /\ pc[c] = "none" /\ pc[s] = "strong"
    /\ mWeak' = mWeak + 1
    /\ lender' = [lender EXCEPT ![c] = s]
    /\ Goto(c, "inc_strong")
    /\ UNCHANGED <<mStrong, mFlags, object, refs, constructing, curCount>>

IncStrongFirst(c) ==
    /\ constructing /\ pc[c] = "none"
    /\ constructing' = FALSE
    /\ mWeak' = mWeak + 1
    /\ Goto(c, "inc_strong")
    /\ UNCHANGED <<mStrong, mFlags, object, refs, curCount, lender>>

(* atomic_inc(&mStrong): only the one who sees INITIAL_STRONG_VALUE goes   *)
(* on to subtract it and to call OnFirstRef.                               *)
IncStrongAdd(c) ==
    /\ pc[c] = "inc_strong"
    /\ mStrong' = mStrong + 1
    /\ lender' = [lender EXCEPT ![c] = NoClient]
    /\ Goto(c, IF mStrong = INITIAL_STRONG_VALUE THEN "inc_first" ELSE "strong")
    /\ UNCHANGED <<mWeak, mFlags, object, refs, constructing, curCount>>

SubtractInitial(c) ==
    /\ pc[c] = "inc_first"
    /\ mStrong' = mStrong - INITIAL_STRONG_VALUE
    /\ Goto(c, "on_first")
    /\ UNCHANGED <<mWeak, mFlags, object, refs, constructing, curCount, lender>>

OnFirstRef(c) ==
    /\ pc[c] = "on_first"
    /\ Goto(c, "strong")
    /\ UNCHANGED <<mStrong, mWeak, mFlags, object, refs, constructing, curCount, lender>>

(* ForceIncStrong revives an object from a count of 0.  Its caller knows   *)
(* that the object exists: it borrows a strong reference, or a weak one of *)
(* an object that lives as long as those.                                  *)
ForceIncStrong(c, s) ==
    /\ pc[c] = "none"
    /\ \/ pc[s] = "strong" /\ lender' = [lender EXCEPT ![c] = s]
       \/ pc[s] = "weak" /\ mFlags = "WEAK" /\ UNCHANGED lender
    /\ mWeak' = mWeak + 1
    /\ Goto(c, "force_inc")
    /\ UNCHANGED <<mStrong, mFlags, object, refs, constructing, curCount>>

ForceIncStrongAdd(c) ==
    /\ pc[c] = "force_inc"
    /\ mStrong' = mStrong + 1
    /\ lender' = [lender EXCEPT ![c] = NoClient]
    /\ Goto(c, CASE mStrong = INITIAL_STRONG_VALUE -> "inc_first"
                 [] mStrong = 0 -> "on_first"
                 [] OTHER -> "strong")
    /\ UNCHANGED <<mWeak, mFlags, object, refs, constructing, curCount>>
-----------------------------------------------------------------------------
(* CreateWeak, WeakRefType::IncWeak or AttemptIncWeak on any reference of  *)
(* s.  While s keeps it mWeak is positive, so AttemptIncWeak's exchange is *)
(* retried, without effect, until it adds 1.                               *)
IncWeak(c, s) ==
    /\ pc[c] = "none" /\ pc[s] \in {"weak", "strong"}
    /\ mWeak' = mWeak + 1
    /\ Goto(c, "weak")
    /\ UNCHANGED <<mStrong, mFlags, object, refs, constructing, curCount, lender>>

(* A constructor that hands out a weak reference to the object.            *)
CreateWeakFirst(c) ==
    /\ constructing /\ mFlags \in WeakFirst /\ pc[c] = "none"
    /\ constructing' = FALSE
    /\ mWeak' = mWeak + 1
    /\ Goto(c, "weak")
    /\ UNCHANGED <<mStrong, mFlags, object, refs, curCount, lender>>

(* atomic_dec(&mWeak): whoever brings it to 0 cleans up.                   *)
DecWeak(c) ==
    /\ mWeak' = mWeak - 1
    /\ Goto(c, IF mWeak = 1 THEN "last_weak" ELSE "none")

(* ~WeakReferenceImpl.                                                     *)
DropWeak(c) ==
    /\ pc[c] = "weak"
    /\ DecWeak(c)
    /\ UNCHANGED <<mStrong, mFlags, object, refs, constructing, curCount, lender>>

\* Mutant: the counters of an object with the WEAK lifetime are forgotten.
RefsForgotten ==
    IF mStrong = INITIAL_STRONG_VALUE THEN "freed" ELSE refs

(* ~ElRefBase frees the counters of an object that never had a strong      *)
(* reference, and of one whose lifetime is that of its weak references.    *)
RefsAfterDestructor ==
    IF mStrong = INITIAL_STRONG_VALUE \/ (mFlags # "STRONG" /\ mWeak = 0)
    THEN "freed" ELSE refs

(* What DecWeak does once c was 1: with the STRONG lifetime the object is  *)
(* long gone, unless it never had a strong reference.                      *)
LastWeak(c) ==
    LET deletesObject == mFlags = "WEAK" \/ mStrong = INITIAL_STRONG_VALUE IN
    /\ pc[c] = "last_weak"
    /\ object' = IF deletesObject THEN "freed" ELSE object
    /\ refs' = IF deletesObject THEN RefsAfterDestructor ELSE "freed"
    /\ Goto(c, "none")
    /\ UNCHANGED <<mStrong, mWeak, mFlags, constructing, curCount, lender>>
-----------------------------------------------------------------------------
\* Mutant: c is compared as if it were the count after the decrement.
DecStrongEarly(c) ==
    /\ pc[c] = "strong"
    /\ \A d \in Clients : lender[d] # c
    /\ mStrong' = mStrong - 1
    /\ Goto(c, IF mStrong <= 2 THEN "on_last" ELSE "dec_weak")
    /\ UNCHANGED <<mWeak, mFlags, object, refs, constructing, curCount, lender>>

(* DecStrong: atomic_dec(&mStrong), then OnLastStrongRef and, with the     *)
(* STRONG lifetime, delete; its DecWeak comes last.                        *)
DecStrong(c) ==
    /\ pc[c] = "strong"
    /\ \A d \in Clients : lender[d] # c
    /\ mStrong' = mStrong - 1
    /\ Goto(c, IF mStrong = 1 THEN "on_last" ELSE "dec_weak")
    /\ UNCHANGED <<mWeak, mFlags, object, refs, constructing, curCount, lender>>

OnLastStrongRef(c) ==
    /\ pc[c] = "on_last"
    /\ Goto(c, IF mFlags = "STRONG" THEN "delete" ELSE "dec_weak")
    /\ UNCHANGED <<mStrong, mWeak, mFlags, object, refs, constructing, curCount, lender>>

DeleteObject(c) ==
    /\ pc[c] = "delete"
    /\ object' = "freed"
    /\ refs' = RefsAfterDestructor
    /\ Goto(c, "dec_weak")
    /\ UNCHANGED <<mStrong, mWeak, mFlags, constructing, curCount, lender>>

DecStrongWeak(c) ==
    /\ pc[c] = "dec_weak"
    /\ DecWeak(c)
    /\ UNCHANGED <<mStrong, mFlags, object, refs, constructing, curCount, lender>>
-----------------------------------------------------------------------------
(* AttemptIncStrong on a reference of s (WeakReferenceImpl::Resolve): its  *)
(* IncWeak, then the compare-and-swap loop.                                *)
AttemptIncStrong(c, s) ==
    /\ pc[c] = "none" /\ pc[s] \in {"weak", "strong"}
    /\ mWeak' = mWeak + 1
    /\ Goto(c, "att_read")
    /\ UNCHANGED <<mStrong, mFlags, object, refs, constructing, curCount, lender>>

AttemptRead(c) ==
    /\ pc[c] = "att_read"
    /\ curCount' = [curCount EXCEPT ![c] = mStrong]
    /\ Goto(c, IF mStrong \in {0, INITIAL_STRONG_VALUE} THEN "att_slow" ELSE "att_cas")
    /\ UNCHANGED <<mStrong, mWeak, mFlags, object, refs, constructing, lender>>

\* Mutant: a plain increment in place of the compare-and-swap.
AttemptSwapBlindly(c) ==
    /\ pc[c] = "att_cas"
    /\ mStrong' = mStrong + 1 /\ Goto(c, "strong")
    /\ curCount' = [curCount EXCEPT ![c] = 0]
    /\ UNCHANGED <<mWeak, mFlags, object, refs, constructing, lender>>

\* Mutant: a failed exchange is taken for a successful one.
AttemptSwapUnchecked(c) ==
    /\ pc[c] = "att_cas"
    /\ Goto(c, "strong")
    /\ mStrong' = IF mStrong = curCount[c] THEN mStrong + 1 ELSE mStrong
    /\ curCount' = [curCount EXCEPT ![c] = 0]
    /\ UNCHANGED <<mWeak, mFlags, object, refs, constructing, lender>>

AttemptSwap(c) ==
    /\ pc[c] = "att_cas"
    /\ IF mStrong = curCount[c]
       THEN mStrong' = mStrong + 1 /\ Goto(c, "strong")
       ELSE UNCHANGED mStrong /\ Goto(c, "att_read")
    /\ curCount' = [curCount EXCEPT ![c] = 0]
    /\ UNCHANGED <<mWeak, mFlags, object, refs, constructing, lender>>

(* The count read was INITIAL_STRONG_VALUE or 0.  OnIncStrongAttempted is  *)
(* virtual (the default answers TRUE) and asked only when the object lives *)
(* as long as its weak references.                                         *)
AttemptAllowed(c) ==
    /\ pc[c] = "att_slow"
    /\ mFlags = "WEAK" \/ curCount[c] = INITIAL_STRONG_VALUE
    /\ Goto(c, "att_inc")
    /\ curCount' = [curCount EXCEPT ![c] = 0]
    /\ UNCHANGED <<mStrong, mWeak, mFlags, object, refs, constructing, lender>>

\* Mutant: the early return forgets the DecWeak.
AttemptRefusedKeeps(c) ==
    /\ pc[c] = "att_slow"
    /\ mFlags = "WEAK" \/ curCount[c] # INITIAL_STRONG_VALUE
    /\ Goto(c, "none")
    /\ curCount' = [curCount EXCEPT ![c] = 0]
    /\ UNCHANGED <<mStrong, mWeak, mFlags, object, refs, constructing, lender>>

AttemptRefused(c) ==
    /\ pc[c] = "att_slow"
    /\ mFlags = "WEAK" \/ curCount[c] # INITIAL_STRONG_VALUE
    /\ DecWeak(c)
    /\ curCount' = [curCount EXCEPT ![c] = 0]
    /\ UNCHANGED <<mStrong, mFlags, object, refs, constructing, lender>>

\* Mutant: every thread in the window believes to be the first.
AttemptAddFirst(c) ==
    /\ pc[c] = "att_inc"
    /\ mStrong' = mStrong + 1
    /\ Goto(c, CASE mStrong \in 1 .. (INITIAL_STRONG_VALUE - 1) -> "att_unneeded"
                 [] mStrong >= INITIAL_STRONG_VALUE -> "inc_first"
                 [] OTHER -> "strong")
    /\ UNCHANGED <<mWeak, mFlags, object, refs, constructing, curCount, lender>>

(* atomic_inc after the check: the count may have changed in between.      *)
AttemptAdd(c) ==
    /\ pc[c] = "att_inc"
    /\ mStrong' = mStrong + 1
    /\ Goto(c, CASE mStrong \in 1 .. (INITIAL_STRONG_VALUE - 1) -> "att_unneeded"
                 [] mStrong = INITIAL_STRONG_VALUE -> "inc_first"
                 [] OTHER -> "strong")
    /\ UNCHANGED <<mWeak, mFlags, object, refs, constructing, curCount, lender>>

(* OnLastStrongRef "to remove an unneeded reference".                      *)
AttemptUnneeded(c) ==
    /\ pc[c] = "att_unneeded"
    /\ Goto(c, "strong")
    /\ UNCHANGED <<mStrong, mWeak, mFlags, object, refs, constructing, curCount, lender>>
-----------------------------------------------------------------------------
Step(c) ==
    \/ IncStrongFirst(c) \/ IncStrongAdd(c) \/ SubtractInitial(c) \/ OnFirstRef(c)
    \/ ForceIncStrongAdd(c)
    \/ CreateWeakFirst(c) \/ DropWeak(c) \/ LastWeak(c)
    \/ DecStrong(c) \/ OnLastStrongRef(c) \/ DeleteObject(c) \/ DecStrongWeak(c)
    \/ AttemptRead(c) \/ AttemptSwap(c) \/ AttemptAllowed(c) \/ AttemptRefused(c)
    \/ AttemptAdd(c) \/ AttemptUnneeded(c)

Copy(c, s) ==
    \/ IncStrong(c, s) \/ ForceIncStrong(c, s)
    \/ IncWeak(c, s) \/ AttemptIncStrong(c, s)

Next ==
    \/ \E c \in Clients : Step(c)
    \/ \E c, s \in Clients : Copy(c, s)

Spec == Init /\ [][Next]_vars
-----------------------------------------------------------------------------
(* What a client inside an operation, or holding a reference, may          *)
(* dereference next.                                                       *)
UsesObject(c) ==
    \/ pc[c] \in CountedStrong \cup {"on_last", "delete"}
    \/ mFlags = "WEAK" /\ pc[c] = "att_slow"
    \/ pc[c] = "last_weak" /\ (mFlags = "WEAK" \/ mStrong = INITIAL_STRONG_VALUE)

UsesRefs(c) == pc[c] # "none"

(* No thread reaches for the object or for its counters once they are      *)
(* freed, whatever the others are in the middle of; in particular nothing  *)
(* is deleted twice and Resolve never returns a dead object.               *)
NoUseAfterFree ==
    \A c \in Clients :
        /\ UsesObject(c) => object = "live"
        /\ UsesRefs(c) => refs = "live"

(* The counts are the references: none is lost or counted twice, also in   *)
(* the window between the first increment and the subtraction.             *)
CountsExact ==
    /\ mWeak = Cardinality(WeakRefs)
    /\ mStrong \in {Cardinality(StrongRefs),
                    Cardinality(StrongRefs) + INITIAL_STRONG_VALUE}

(* The ELA_ASSERT_WITH_BLOCK conditions of IncStrong, DecStrong and        *)
(* DecWeak.                                                                *)
AssertionsHold ==
    \A c \in Clients :
        /\ pc[c] = "inc_strong" => mStrong > 0
        /\ pc[c] = "strong" => mStrong >= 1
        /\ pc[c] \in {"dec_weak", "weak", "att_slow"} => mWeak >= 1

(* When nobody holds or is acquiring a reference the memory is gone, both  *)
(* parts of it.                                                            *)
NoLeak ==
    (~constructing /\ \A c \in Clients : pc[c] = "none")
        => object = "freed" /\ refs = "freed"

(* Two threads never run OnFirstRef at the same time, or subtract          *)
(* INITIAL_STRONG_VALUE twice.                                             *)
OneFirstRef ==
    \A c, d \in Clients :
        pc[c] \in {"inc_first", "on_first"} /\ pc[d] \in {"inc_first", "on_first"}
            => c = d

(* elrefbase.cpp:454: reviving an object "is allowed if the object DOES    *)
(* have a longer lifetime": with the STRONG lifetime no reference is ever  *)
(* obtained to an object whose last strong reference is gone.              *)
ReviveOnlyLongerLifetime ==
    mFlags = "STRONG" /\ object = "freed" => StrongRefs = {}

(* RefBase implements the counter-free SharedOwnership.                    *)
Ownership == INSTANCE SharedOwnership WITH
    owners <- {c \in Clients : pc[c] = "strong"},
    observers <- {c \in Clients : pc[c] = "weak"},
    block <- refs
ImplementsOwnership == Ownership!Spec
=============================================================================

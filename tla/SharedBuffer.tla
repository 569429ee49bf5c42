---------------------------- MODULE SharedBuffer ----------------------------
(***************************************************************************)
(* SharedBuffer (elsharedbuf.cpp) under String (elstring.cpp): the text of *)
(* a String is in a reference counted buffer that its copies share until   *)
(* one of them is edited.  Each String is used by one thread at a time, as *)
(* its callers must; their buffers are shared between the threads.  The    *)
(* global buffer of the empty string is shared like any other.             *)
(*                                                                         *)
(* A freed buffer may be what the next malloc returns.  Reset, AttemptEdit *)
(* and Release with eKeepStorage have no caller and are left out.          *)
(***************************************************************************)
EXTENDS Integers, FiniteSets

CONSTANTS
    Strings,
    Buffers, NoBuffer,   \* the addresses malloc may return; NULL
    Values, Null         \* texts; what a String without a buffer stands for

ASSUME StringsAssumption == IsFiniteSet(Strings)
ASSUME BuffersAssumption == NoBuffer \notin Buffers
ASSUME ValuesAssumption == Null \notin Values /\ Values # {}

VARIABLES
    allocated,   \* the buffers that are allocated
    mRefs,
    data,        \* what the bytes after the header say
    mString,     \* the buffer of each String
    old,         \* the buffer whose Release a String is inside
    pc, then     \* where a String is, and where it goes after Release

vars == <<allocated, mRefs, data, mString, old, pc, then>>

Releasing == {"release", "dec", "free"}
PCs == {"idle", "edit", "resize", "copy", "write"} \cup Releasing

TypeOK ==
    /\ allocated \subseteq Buffers
    /\ mRefs \in [Buffers -> Nat]
    /\ data \in [Buffers -> Values]
    /\ mString \in [Strings -> Buffers \cup {NoBuffer}]
    /\ old \in [Strings -> Buffers \cup {NoBuffer}]
    /\ pc \in [Strings -> PCs] /\ then \in [Strings -> {"idle", "write"}]

Init ==
    /\ allocated = {}
    /\ mRefs = [b \in Buffers |-> 0]
    /\ \E v \in Values : data = [b \in Buffers |-> v]
    /\ mString = [s \in Strings |-> NoBuffer]
    /\ old = [s \in Strings |-> NoBuffer]
    /\ pc = [s \in Strings |-> "idle"] /\ then = [s \in Strings |-> "idle"]

Goto(s, to) == pc' = [pc EXCEPT ![s] = to]

(* Alloc a buffer with the text v, as the buffer of s.                     *)
Alloc(s, v) ==
    \E b \in Buffers \ allocated :
        /\ allocated' = allocated \cup {b}
        /\ mRefs' = [mRefs EXCEPT ![b] = 1]
        /\ data' = [data EXCEPT ![b] = v]
        /\ mString' = [mString EXCEPT ![s] = b]

(* Release the buffer s had, if it had one.                                *)
ReleaseMine(s) ==
    IF mString[s] = NoBuffer THEN UNCHANGED <<old, pc>>
    ELSE /\ old' = [old EXCEPT ![s] = mString[s]]
         /\ Goto(s, "release")
-----------------------------------------------------------------------------
(* SetTo of characters: a new buffer, then Release of the one before.      *)
SetToChars(s) ==
    /\ pc[s] = "idle"
    /\ \E v \in Values : Alloc(s, v)
    /\ ReleaseMine(s)
    /\ UNCHANGED then

(* SetTo(NULL) and the destructor.                                         *)
SetToNull(s) ==
    /\ pc[s] = "idle" /\ mString[s] # NoBuffer
    /\ mString' = [mString EXCEPT ![s] = NoBuffer]
    /\ ReleaseMine(s)
    /\ UNCHANGED <<allocated, mRefs, data, then>>

\* Mutant: the copy does not acquire the buffer.
SetToUncounted(s, other) ==
    /\ pc[s] = "idle" /\ pc[other] = "idle" /\ mString[other] # NoBuffer
    /\ mString' = [mString EXCEPT ![s] = mString[other]]
    /\ ReleaseMine(s)
    /\ UNCHANGED <<allocated, mRefs, data, then>>

(* SetTo(const String&) and the copy constructor: Acquire, then Release.   *)
(* Nobody edits the other String meanwhile.                                *)
SetTo(s, other) ==
    /\ pc[s] = "idle" /\ pc[other] = "idle" /\ mString[other] # NoBuffer
    /\ mRefs' = [mRefs EXCEPT ![mString[other]] = @ + 1]
    /\ mString' = [mString EXCEPT ![s] = mString[other]]
    /\ ReleaseMine(s)
    /\ UNCHANGED <<allocated, data, then>>
-----------------------------------------------------------------------------
(* RealAppend, LockBuffer: EditResize of the buffer, then the bytes are    *)
(* written.  A String without a buffer allocates one.                      *)
RealAppend(s) ==
    /\ pc[s] = "idle" /\ mString[s] # NoBuffer
    /\ Goto(s, "edit")
    /\ UNCHANGED <<allocated, mRefs, data, mString, old, then>>

\* Mutant: the buffer is edited in place while it has two owners.
IsOnlyOwnerWide(s) ==
    /\ pc[s] = "edit"
    /\ Goto(s, IF mRefs[mString[s]] <= 2 THEN "resize" ELSE "copy")
    /\ UNCHANGED <<allocated, mRefs, data, mString, old, then>>

IsOnlyOwner(s) ==
    /\ pc[s] = "edit"
    /\ Goto(s, IF mRefs[mString[s]] = 1 THEN "resize" ELSE "copy")
    /\ UNCHANGED <<allocated, mRefs, data, mString, old, then>>

(* The only owner keeps its buffer, has it moved by realloc, or, when that *)
(* fails, goes on as if there were others.                                 *)
Resize(s) ==
    /\ pc[s] = "resize"
    /\ \/ Goto(s, "write") /\ UNCHANGED <<allocated, mRefs, data, mString>>
       \/ \E b \in Buffers \ allocated :
            /\ allocated' = (allocated \ {mString[s]}) \cup {b}
            /\ mRefs' = [mRefs EXCEPT ![b] = mRefs[mString[s]], ![mString[s]] = 0]
            /\ data' = [data EXCEPT ![b] = data[mString[s]]]
            /\ mString' = [mString EXCEPT ![s] = b]
            /\ Goto(s, "write")
       \/ Goto(s, "copy") /\ UNCHANGED <<allocated, mRefs, data, mString>>
    /\ UNCHANGED <<old, then>>

(* Alloc and memcpy; then Release of the shared buffer.  When Alloc fails  *)
(* the String is as before.                                                *)
CopyBuffer(s) ==
    /\ pc[s] = "copy"
    /\ Alloc(s, data[mString[s]])
    /\ old' = [old EXCEPT ![s] = mString[s]]
    /\ Goto(s, "release") /\ then' = [then EXCEPT ![s] = "write"]

CopyFails(s) ==
    /\ pc[s] = "copy"
    /\ Goto(s, "idle")
    /\ UNCHANGED <<allocated, mRefs, data, mString, old, then>>

(* The String writes to the buffer EditResize gave it.                     *)
Write(s) ==
    /\ pc[s] = "write"
    /\ \E v \in Values : data' = [data EXCEPT ![mString[s]] = v]
    /\ Goto(s, "idle")
    /\ UNCHANGED <<allocated, mRefs, mString, old, then>>
-----------------------------------------------------------------------------
(* Release is over: on to what the String was doing.                       *)
Return(s) ==
    /\ Goto(s, then[s])
    /\ then' = [then EXCEPT ![s] = "idle"]
    /\ old' = [old EXCEPT ![s] = NoBuffer]

(* Release of old[s]: IsOnlyOwner() ||                                     *)
ReleaseOnlyOwner(s) ==
    /\ pc[s] = "release"
    /\ IF mRefs[old[s]] = 1 THEN Goto(s, "free") ELSE Goto(s, "dec")
    /\ UNCHANGED <<allocated, mRefs, data, mString, old, then>>

\* Mutant: only IsOnlyOwner decides, the result of atomic_dec is not used.
DecrementOnly(s) ==
    /\ pc[s] = "dec"
    /\ mRefs' = [mRefs EXCEPT ![old[s]] = @ - 1]
    /\ Return(s)
    /\ UNCHANGED <<allocated, data, mString>>

\* Mutant: the result of atomic_dec is taken for the count before it.
DecrementEarly(s) ==
    /\ pc[s] = "dec"
    /\ mRefs' = [mRefs EXCEPT ![old[s]] = @ - 1]
    /\ IF mRefs[old[s]] <= 2 THEN Goto(s, "free") /\ UNCHANGED <<old, then>> ELSE Return(s)
    /\ UNCHANGED <<allocated, data, mString>>

(* (curr = atomic_dec(&mRefs)) == 0: others may have released since.       *)
Decrement(s) ==
    /\ pc[s] = "dec"
    /\ mRefs' = [mRefs EXCEPT ![old[s]] = @ - 1]
    /\ IF mRefs[old[s]] = 1 THEN Goto(s, "free") /\ UNCHANGED <<old, then>> ELSE Return(s)
    /\ UNCHANGED <<allocated, data, mString>>

Free(s) ==
    /\ pc[s] = "free"
    /\ mRefs' = [mRefs EXCEPT ![old[s]] = 0]
    /\ allocated' = allocated \ {old[s]}
    /\ Return(s)
    /\ UNCHANGED <<data, mString>>
-----------------------------------------------------------------------------
Next ==
    \E s \in Strings :
        \/ SetToChars(s) \/ SetToNull(s) \/ \E other \in Strings : SetTo(s, other)
        \/ RealAppend(s) \/ IsOnlyOwner(s) \/ Resize(s) \/ CopyBuffer(s) \/ CopyFails(s) \/ Write(s)
        \/ ReleaseOnlyOwner(s) \/ Decrement(s) \/ Free(s)

Spec == Init /\ [][Next]_vars
-----------------------------------------------------------------------------
(* mRefs counts the Strings that have the buffer and those that have not   *)
(* yet given it back, also while two of them are inside Release at once.   *)
Owners(b) ==
    {<<s, "has">> : s \in {t \in Strings : mString[t] = b}}
    \cup {<<s, "releases">> : s \in {t \in Strings :
              old[t] = b /\ pc[t] \in {"release", "dec"}}}

CountsExact ==
    \A b \in allocated : mRefs[b] \in {Cardinality(Owners(b)), Cardinality(Owners(b)) + 1}
        /\ (mRefs[b] # Cardinality(Owners(b)) =>
              \E s \in Strings : old[s] = b /\ pc[s] = "free")

(* No String has a freed buffer, or is releasing one; one thread at most   *)
(* frees it.                                                               *)
NoUseAfterFree ==
    \A s \in Strings :
        /\ mString[s] # NoBuffer => mString[s] \in allocated
        /\ old[s] # NoBuffer => old[s] \in allocated
        /\ pc[s] = "free" => \A t \in Strings :
              mString[t] # old[s] /\ (old[t] = old[s] => t = s)

(* A buffer that no String has is being released: none is forgotten when   *)
(* two owners release it at once.                                          *)
NoLeak == \A b \in allocated : \E s \in Strings : mString[s] = b \/ old[s] = b

(* Copy on write: a String that shares its buffer, or has just stopped     *)
(* sharing it, never sees the edits of another one.                        *)
Isolated == INSTANCE StringValues WITH
    value <- [s \in Strings |-> IF mString[s] = NoBuffer THEN Null ELSE data[mString[s]]]
ImplementsValues == Isolated!Spec
=============================================================================

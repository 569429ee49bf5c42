----------------------------- MODULE ProxyTable -----------------------------
(***************************************************************************)
(* The import side of linux_rpc: the table of the proxies a process has    *)
(* for remote objects (rot.cpp), the reference count of a CObjectProxy     *)
(* (proxy.cpp) and StdUnmarshalInterface (imarshal.cpp), which finds the   *)
(* proxy of a net address or creates it.  The module follows ONE net       *)
(* address: every operation looks only at the entries of its own.          *)
(*                                                                         *)
(* A step that would dereference a deleted proxy is not taken: what        *)
(* follows is undefined.  The state before it is there to be looked at.    *)
(***************************************************************************)
EXTENDS Integers, Sequences, FiniteSets

CONSTANTS
    Threads,
    NoThread,
    Proxies,       \* every CObjectProxy the process ever allocates
    NoProxy

ASSUME ThreadsAssumption == IsFiniteSet(Threads) /\ NoThread \notin Threads
ASSUME ProxiesAssumption == IsFiniteSet(Proxies) /\ NoProxy \notin Proxies

VARIABLES
    g_marshalLock,  \* the thread inside StdUnmarshalInterface, or NoThread
    imports,        \* the entries of s_hashImportObjects for the address
    m_cRef,         \* reference count of each proxy
    memory,         \* "unused", "live" or "deleted", for each proxy
    pc,
    this,           \* the proxy a thread is working on
    holds,          \* the reference StdUnmarshalInterface gave a thread
    resurrected     \* history: a proxy was found with a count of 0

vars == <<g_marshalLock, imports, m_cRef, memory, pc, this, holds, resurrected>>

(* Release, once atomic_dec has returned 0.                                *)
Destroying == {"unregister", "send_release", "delete"}
PCs == {"idle", "create", "get_interface", "release"} \cup Destroying

TypeOK ==
    /\ g_marshalLock \in Threads \cup {NoThread}
    /\ imports \in Seq(Proxies)
    /\ m_cRef \in [Proxies -> Nat]
    /\ memory \in [Proxies -> {"unused", "live", "deleted"}]
    /\ pc \in [Threads -> PCs]
    /\ this \in [Threads -> Proxies \cup {NoProxy}]
    /\ holds \in [Threads -> Proxies \cup {NoProxy}]
    /\ resurrected \in BOOLEAN

Init ==
    /\ g_marshalLock = NoThread
    /\ imports = <<>>
    /\ m_cRef = [p \in Proxies |-> 0]
    /\ memory = [p \in Proxies |-> "unused"]
    /\ pc = [t \in Threads |-> "idle"]
    /\ this = [t \in Threads |-> NoProxy]
    /\ holds = [t \in Threads |-> NoProxy]
    /\ resurrected = FALSE

At(t, label) == pc[t] = label /\ (this[t] # NoProxy => memory[this[t]] = "live")
Goto(t, label) == pc' = [pc EXCEPT ![t] = label]
Return(t) == Goto(t, "idle") /\ this' = [this EXCEPT ![t] = NoProxy]
-----------------------------------------------------------------------------
\* Mutant: FindImportObject and S_CreateObject without g_marshalLock.
FindImportObjectUnlocked(t) ==
    /\ At(t, "idle") /\ holds[t] = NoProxy
    /\ IF imports # <<>>
       THEN /\ memory[Head(imports)] = "live"
            /\ m_cRef' = [m_cRef EXCEPT ![Head(imports)] = @ + 1]
            /\ resurrected' = (resurrected \/ m_cRef[Head(imports)] = 0)
            /\ this' = [this EXCEPT ![t] = Head(imports)]
            /\ Goto(t, "get_interface")
       ELSE /\ Goto(t, "create")
            /\ UNCHANGED <<m_cRef, this, resurrected>>
    /\ UNCHANGED <<g_marshalLock, imports, memory, holds>>

(* StdUnmarshalInterface takes g_marshalLock and FindImportObject, under   *)
(* the table's own lock, takes a reference on the first entry.  The lock   *)
(* is kept only when there is no entry.                                    *)
FindImportObject(t) ==
    /\ At(t, "idle") /\ holds[t] = NoProxy
    /\ g_marshalLock = NoThread
    /\ IF imports # <<>>
       THEN /\ memory[Head(imports)] = "live"
            /\ m_cRef' = [m_cRef EXCEPT ![Head(imports)] = @ + 1]
            /\ resurrected' = (resurrected \/ m_cRef[Head(imports)] = 0)
            /\ this' = [this EXCEPT ![t] = Head(imports)]
            /\ Goto(t, "get_interface")
            /\ UNCHANGED g_marshalLock
       ELSE /\ g_marshalLock' = t
            /\ Goto(t, "create")
            /\ UNCHANGED <<m_cRef, this, resurrected>>
    /\ UNCHANGED <<imports, memory, holds>>

(* S_CreateObject: the constructor sets m_cRef to 1, RegisterImportObject  *)
(* inserts the entry first; then the lock is released.                     *)
S_CreateObject(t) ==
    /\ At(t, "create")
    /\ \E p \in Proxies :
        /\ memory[p] = "unused"
        /\ memory' = [memory EXCEPT ![p] = "live"]
        /\ m_cRef' = [m_cRef EXCEPT ![p] = 1]
        /\ imports' = <<p>> \o imports
        /\ this' = [this EXCEPT ![t] = p]
    /\ Goto(t, "get_interface")
    /\ g_marshalLock' = NoThread
    /\ UNCHANGED <<holds, resurrected>>

\* Mutant: the error exit forgets the new proxy.
CreateFailsLeaking(t) ==
    /\ At(t, "create")
    /\ \E p \in Proxies :
        /\ memory[p] = "unused"
        /\ memory' = [memory EXCEPT ![p] = "live"]
    /\ Return(t)
    /\ g_marshalLock' = NoThread
    /\ UNCHANGED <<imports, m_cRef, holds, resurrected>>

(* The class information is not available, locally or from the server: the *)
(* error exit deletes the proxy, which no entry names yet.                 *)
CreateFails(t) ==
    /\ At(t, "create")
    /\ \E p \in Proxies :
        /\ memory[p] = "unused"
        /\ memory' = [memory EXCEPT ![p] = "deleted"]
    /\ Return(t)
    /\ g_marshalLock' = NoThread
    /\ UNCHANGED <<imports, m_cRef, holds, resurrected>>

(* GetInterface adds the caller's reference, or answers E_NO_INTERFACE; in *)
(* both cases StdUnmarshalInterface then releases its own.                 *)
GetInterface(t) ==
    /\ At(t, "get_interface")
    /\ \/ /\ m_cRef' = [m_cRef EXCEPT ![this[t]] = @ + 1]
          /\ holds' = [holds EXCEPT ![t] = this[t]]
       \/ UNCHANGED <<m_cRef, holds>>
    /\ Goto(t, "release")
    /\ UNCHANGED <<g_marshalLock, imports, memory, this, resurrected>>
-----------------------------------------------------------------------------
(* AddRef by a thread that is given a copy of s's reference.               *)
AddRef(t, s) ==
    /\ At(t, "idle") /\ holds[t] = NoProxy
    /\ holds[s] # NoProxy /\ memory[holds[s]] = "live"
    /\ m_cRef' = [m_cRef EXCEPT ![holds[s]] = @ + 1]
    /\ holds' = [holds EXCEPT ![t] = holds[s]]
    /\ UNCHANGED <<g_marshalLock, imports, memory, pc, this, resurrected>>

(* The user of the proxy drops the reference: Release is called.           *)
Drop(t) ==
    /\ At(t, "idle") /\ holds[t] # NoProxy
    /\ this' = [this EXCEPT ![t] = holds[t]]
    /\ holds' = [holds EXCEPT ![t] = NoProxy]
    /\ Goto(t, "release")
    /\ UNCHANGED <<g_marshalLock, imports, m_cRef, memory, resurrected>>

\* Mutant: Release acts on the result without having decremented.
ReleaseUncounted(t) ==
    /\ At(t, "release")
    /\ IF m_cRef[this[t]] = 1 THEN Goto(t, "unregister") /\ UNCHANGED this
                              ELSE Return(t)
    /\ UNCHANGED <<g_marshalLock, imports, m_cRef, memory, holds, resurrected>>

(* Release: atomic_dec(&m_cRef); only a result of 0 goes on.               *)
Release(t) ==
    /\ At(t, "release")
    /\ m_cRef' = [m_cRef EXCEPT ![this[t]] = @ - 1]
    /\ IF m_cRef[this[t]] = 1 THEN Goto(t, "unregister") /\ UNCHANGED this
                              ELSE Return(t)
    /\ UNCHANGED <<g_marshalLock, imports, memory, holds, resurrected>>

\* Mutant: the count of the entry's proxy is not looked at again.
UnregisterUnchecked(t) ==
    /\ At(t, "unregister")
    /\ imports' = IF imports = <<>> THEN imports ELSE Tail(imports)
    /\ Goto(t, "send_release")
    /\ UNCHANGED <<g_marshalLock, m_cRef, memory, this, holds, resurrected>>

(* UnregisterImportObject(m_sNetAddress), under the table's lock: S_FALSE  *)
(* when the first entry's proxy has references again; otherwise, the entry *)
(* removed or not found, Release goes on.                                  *)
UnregisterImportObject(t) ==
    /\ At(t, "unregister")
    /\ IF imports = <<>>
       THEN Goto(t, "send_release") /\ UNCHANGED <<imports, this>>
       ELSE /\ memory[Head(imports)] = "live"
            /\ IF m_cRef[Head(imports)] # 0
               THEN Return(t) /\ UNCHANGED imports
               ELSE /\ imports' = Tail(imports)
                    /\ Goto(t, "send_release") /\ UNCHANGED this
    /\ UNCHANGED <<g_marshalLock, m_cRef, memory, holds, resurrected>>

(* DisconnectCallbackSink and the RELEASE message, through the fields of   *)
(* the proxy.                                                              *)
SendRelease(t) ==
    /\ At(t, "send_release")
    /\ Goto(t, "delete")
    /\ UNCHANGED <<g_marshalLock, imports, m_cRef, memory, this, holds, resurrected>>

DeleteThis(t) ==
    /\ At(t, "delete")
    /\ memory' = [memory EXCEPT ![this[t]] = "deleted"]
    /\ Return(t)
    /\ UNCHANGED <<g_marshalLock, imports, m_cRef, holds, resurrected>>
-----------------------------------------------------------------------------
Next ==
    \E t \in Threads :
        \/ FindImportObject(t) \/ S_CreateObject(t) \/ CreateFails(t) \/ GetInterface(t)
        \/ \E s \in Threads : AddRef(t, s)
        \/ Drop(t) \/ Release(t) \/ UnregisterImportObject(t)
        \/ SendRelease(t) \/ DeleteThis(t)

Spec == Init /\ [][Next]_vars
-----------------------------------------------------------------------------
(* m_cRef is the number of references: the users' and the temporary ones   *)
(* of StdUnmarshalInterface, until Release gives them back.                *)
RefsOf(p) ==
    {<<t, "user">> : t \in {u \in Threads : holds[u] = p}}
    \cup {<<t, "own">> : t \in {u \in Threads :
              this[u] = p /\ pc[u] \in {"get_interface", "release"}}}

CountsExact ==
    \A p \in Proxies : memory[p] = "live" => m_cRef[p] = Cardinality(RefsOf(p))

(* A proxy with a reference to it exists and is the only one in the table, *)
(* whatever other threads that once saw its count at 0 are about to do.    *)
(* Two threads that unmarshal the address at the same time, or while the   *)
(* previous proxy is being destroyed, never get different ones.            *)
HeldProxyUsable ==
    \A t \in Threads : holds[t] # NoProxy =>
        memory[holds[t]] = "live" /\ imports = <<holds[t]>>

(* rot.cpp:208, "must atomic operation with delete proxy": once one thread *)
(* has unregistered a proxy no other thread still comes to it, and none    *)
(* ever works on a deleted one.                                            *)
NoUseAfterDelete ==
    \A t \in Threads : this[t] # NoProxy => memory[this[t]] = "live"

OneDestroyer ==
    \A t, u \in Threads :
        pc[t] \in {"send_release", "delete"} /\ pc[u] \in Destroying /\ this[t] = this[u]
            => t = u

(* A live proxy is in use or is being destroyed by somebody: none is       *)
(* forgotten with its stub's reference never given back.                   *)
NoOrphan ==
    \A p \in Proxies : memory[p] = "live" =>
        \/ m_cRef[p] > 0
        \/ \E t \in Threads : this[t] = p /\ pc[t] \in Destroying

(* Only when FindImportObject has taken a reference on a proxy whose count *)
(* had dropped to 0 can a proxy be taken apart twice (the stub's reference *)
(* given back twice, the memory freed twice) or be forgotten.              *)
SafeUnlessResurrected ==
    resurrected \/ (NoUseAfterDelete /\ OneDestroyer /\ NoOrphan)
=============================================================================

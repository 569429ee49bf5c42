---------------------------- MODULE RemoteObject ----------------------------
(***************************************************************************)
(* One object of the process Home and the processes that use it over       *)
(* linux_rpc: the stub, its reference count and its entry in the export    *)
(* table (stub.cpp, rot.cpp), the interface packs that name it             *)
(* (imarshal.cpp), the directory of services (ServiceManager.cpp and       *)
(* DCARServer.cpp), and the RELEASE of each proxy.  What happens inside    *)
(* one client process is in ProxyTable, what happens on one connection in  *)
(* RpcChannel; here a process has one proxy or none, and a message that    *)
(* was sent arrives unless its connection is closed.                       *)
(*                                                                         *)
(* The entry is inserted when the stub is created and never removed, as    *)
(* nothing calls UnregisterExportObject.  A step that would use a deleted  *)
(* stub is not taken: what follows is undefined.  The state before it is   *)
(* there to be looked at.                                                  *)
(***************************************************************************)
EXTENDS Integers, Sequences, FiniteSets

CONSTANTS
    Home,       \* the process of the object
    Clients,    \* the other processes
    Threads,    \* the threads of Home that marshal and unmarshal
    MaxPacks,   \* bound: packs that are ever made
    MaxConns    \* bound: connections that are ever made

ASSUME ClientsAssumption == Home \notin Clients
ASSUME FiniteAssumption == IsFiniteSet(Clients) /\ IsFiniteSet(Threads)
ASSUME BoundsAssumption == MaxPacks \in Nat /\ MaxConns \in Nat

VARIABLES
    stub,        \* "none", "live" or "deleted"
    mRef,        \* its reference count
    m_cConnfd,   \* the connection it accepted last, 0 for -1
    pc,          \* of each thread of Home
    conns,       \* the connections, in the order they were accepted
    packs,       \* packs on their way to each process
    mServices,   \* DCARServer has a pack of the object
    refs,        \* references to the proxy of each client, 0: no proxy
    m_cSocketfd, \* the connection of each client's proxy, 0 for -1
    made,        \* number of packs made, for the bound
    spent,       \* history: the pack that DCARServer has was handed out
    uncounted,   \* history: a pack was made for which nobody counts
    lost         \* history: a reference was taken that nobody gives back

vars == <<stub, mRef, m_cConnfd, pc, conns, packs, mServices, refs,
          m_cSocketfd, made, spent, uncounted, lost>>

home == <<stub, mRef, m_cConnfd>>
clients == <<refs, m_cSocketfd>>
directory == <<mServices, spent>>
history == <<uncounted, lost>>

Processes == Clients \cup {Home}

(* A connection carries nothing, a request on its way, a request in a task *)
(* of the thread pool, or nothing any more.                                *)
OnTheWay == {"call", "release"}
Tasks == {"call_task", "release_task"}
Connection == [client : Clients, at : {"idle", "closed"} \cup OnTheWay \cup Tasks]

TypeOK ==
    /\ stub \in {"none", "live", "deleted"}
    /\ mRef \in Nat
    /\ m_cConnfd \in 0 .. Len(conns)
    /\ pc \in [Threads -> {"idle", "found", "created", "packed", "local"}]
    /\ conns \in Seq(Connection)
    /\ packs \in [Processes -> Nat]
    /\ refs \in [Clients -> Nat]
    /\ m_cSocketfd \in [Clients -> 0 .. Len(conns)]
    /\ made \in 0 .. MaxPacks
    /\ mServices \in BOOLEAN /\ spent \in BOOLEAN
    /\ uncounted \in BOOLEAN /\ lost \in BOOLEAN

Init ==
    /\ stub = "none" /\ mRef = 0 /\ m_cConnfd = 0
    /\ pc = [t \in Threads |-> "idle"]
    /\ conns = <<>>
    /\ packs = [p \in Processes |-> 0]
    /\ mServices = FALSE /\ spent = FALSE
    /\ refs = [c \in Clients |-> 0]
    /\ m_cSocketfd = [c \in Clients |-> 0]
    /\ made = 0
    /\ uncounted = FALSE /\ lost = FALSE

Goto(t, label) == pc' = [pc EXCEPT ![t] = label]
Set(k, state) == conns' = [conns EXCEPT ![k].at = state]
Pack(p) == packs' = [packs EXCEPT ![p] = @ + 1]
MakeOne == made < MaxPacks /\ made' = made + 1

Calling(c) ==
    m_cSocketfd[c] # 0 /\ conns[m_cSocketfd[c]].at \in {"call", "call_task"}
-----------------------------------------------------------------------------
\* Mutant: FindExportObject leaves the counting to its caller.
FindExportObjectUncounted(t) ==
    /\ pc[t] = "idle" /\ stub = "live"
    /\ MakeOne
    /\ Goto(t, "found")
    /\ UNCHANGED <<home, conns, packs, directory, clients, history>>

(* StdMarshalInterface takes g_marshalLock and FindExportObject, under the *)
(* table's lock, takes a reference for the caller.                         *)
FindExportObject(t) ==
    /\ pc[t] = "idle" /\ stub = "live"
    /\ MakeOne
    /\ mRef' = mRef + 1
    /\ Goto(t, "found")
    /\ UNCHANGED <<stub, m_cConnfd, conns, packs, directory, clients, history>>

(* There is no entry: S_CreateObject makes the stub, whose count starts at *)
(* 0, inserts the entry and listens, all under g_marshalLock.              *)
S_CreateObject(t) ==
    /\ pc[t] = "idle" /\ stub = "none"
    /\ MakeOne
    /\ stub' = "live"
    /\ Goto(t, "created")
    /\ UNCHANGED <<mRef, m_cConnfd, conns, packs, directory, clients, history>>

(* With the lock released, a reference for the pack, unless the interface  *)
(* is not one of the class.  The one that FindExportObject took stays.     *)
StdMarshalInterface(t) ==
    /\ pc[t] \in {"found", "created"} /\ stub = "live"
    /\ \/ mRef' = mRef + 1 /\ Goto(t, "packed") /\ lost' = (lost \/ pc[t] = "found")
       \/ UNCHANGED mRef /\ Goto(t, "idle") /\ lost' = TRUE
    /\ UNCHANGED <<stub, m_cConnfd, conns, packs, directory, clients, made, uncounted>>

(* The pack goes to another process in an argument or a result.            *)
SendPack(t) ==
    /\ pc[t] = "packed"
    /\ \E c \in Clients : Pack(c)
    /\ Goto(t, "idle")
    /\ UNCHANGED <<home, conns, directory, clients, made, history>>

(* The parcel is not sent, or AddService does not reach the server: the    *)
(* pack is freed, its reference is not.                                    *)
PackDropped(t) ==
    /\ pc[t] = "packed"
    /\ Goto(t, "idle")
    /\ lost' = TRUE
    /\ UNCHANGED <<home, conns, packs, directory, clients, made, uncounted>>

(* DCARServer keeps the pack in place of the one it had.                   *)
AddService(t) ==
    /\ pc[t] = "packed"
    /\ Goto(t, "idle")
    /\ mServices' = TRUE /\ spent' = FALSE
    /\ lost' = (lost \/ (mServices /\ ~spent))
    /\ UNCHANGED <<home, conns, packs, clients, made, uncounted>>

RemoveService ==
    /\ mServices
    /\ mServices' = FALSE
    /\ lost' = (lost \/ ~spent)
    /\ UNCHANGED <<home, pc, conns, packs, spent, clients, made, uncounted>>

(* DCARServer answers with a copy of the pack, each time it is asked.      *)
GetService(p) ==
    /\ mServices
    /\ MakeOne
    /\ Pack(p)
    /\ spent' = TRUE
    /\ uncounted' = (uncounted \/ spent)
    /\ UNCHANGED <<home, pc, conns, mServices, clients, lost>>
-----------------------------------------------------------------------------
(* StdMarshalInterface of a proxy: a pack of the same stub, for which no   *)
(* reference is taken.                                                     *)
Forward(c, p) ==
    /\ refs[c] > 0 /\ p # c
    /\ MakeOne
    /\ Pack(p)
    /\ uncounted' = TRUE
    /\ UNCHANGED <<home, pc, conns, directory, clients, lost>>

(* StdUnmarshalInterface in a client finds the proxy or creates it.  One   *)
(* proxy sends one RELEASE, for however many packs.                        *)
Unmarshal(c) ==
    /\ packs[c] > 0
    /\ packs' = [packs EXCEPT ![c] = @ - 1]
    /\ refs' = [refs EXCEPT ![c] = @ + 1]
    /\ lost' = (lost \/ refs[c] > 0)
    /\ UNCHANGED <<home, pc, conns, directory, m_cSocketfd, made, uncounted>>

(* The class information is not to be had: no proxy, and no RELEASE.       *)
UnmarshalFails(c) ==
    /\ packs[c] > 0 /\ refs[c] = 0
    /\ packs' = [packs EXCEPT ![c] = @ - 1]
    /\ lost' = TRUE
    /\ UNCHANGED <<home, pc, conns, directory, clients, made, uncounted>>

(* The first call connects, if the stub still listens.                     *)
Connect(c) ==
    /\ refs[c] > 0 /\ m_cSocketfd[c] = 0
    /\ stub = "live" /\ Len(conns) < MaxConns
    /\ conns' = Append(conns, [client |-> c, at |-> "call"])
    /\ m_cSocketfd' = [m_cSocketfd EXCEPT ![c] = Len(conns) + 1]
    /\ m_cConnfd' = Len(conns) + 1
    /\ UNCHANGED <<stub, mRef, pc, packs, directory, refs, made, history>>

Call(c) ==
    /\ refs[c] > 0 /\ m_cSocketfd[c] # 0
    /\ conns[m_cSocketfd[c]].at = "idle"
    /\ Set(m_cSocketfd[c], "call")
    /\ UNCHANGED <<home, pc, packs, directory, clients, made, history>>

\* Mutant: "maybe we don't need call release of stub" (proxy.cpp).
ReleaseUnsent(c) ==
    /\ refs[c] > 0
    /\ refs[c] = 1 => ~Calling(c)
    /\ refs' = [refs EXCEPT ![c] = @ - 1]
    /\ m_cSocketfd' = IF refs[c] = 1 THEN [m_cSocketfd EXCEPT ![c] = 0] ELSE m_cSocketfd
    /\ lost' = (lost \/ (refs[c] = 1 /\ m_cSocketfd[c] = 0))
    /\ UNCHANGED <<home, pc, conns, packs, directory, made, uncounted>>

(* The last Release of a proxy sends RELEASE, on a descriptor that is -1   *)
(* if the proxy was never called.                                          *)
Release(c) ==
    /\ refs[c] > 0
    /\ refs' = [refs EXCEPT ![c] = @ - 1]
    /\ IF refs[c] > 1
       THEN UNCHANGED <<m_cSocketfd, conns, lost>>
       ELSE /\ ~Calling(c)
            /\ m_cSocketfd' = [m_cSocketfd EXCEPT ![c] = 0]
            /\ lost' = (lost \/ m_cSocketfd[c] = 0)
            /\ IF m_cSocketfd[c] # 0 /\ conns[m_cSocketfd[c]].at = "idle"
               THEN Set(m_cSocketfd[c], "release")
               ELSE UNCHANGED conns
    /\ UNCHANGED <<home, pc, packs, directory, made, uncounted>>

(* A client ends with what it has.  Home sees at most a connection that    *)
(* ends, and does nothing about it.                                        *)
ClientDies(c) ==
    /\ refs[c] > 0 \/ packs[c] > 0
    /\ refs' = [refs EXCEPT ![c] = 0]
    /\ m_cSocketfd' = [m_cSocketfd EXCEPT ![c] = 0]
    /\ packs' = [packs EXCEPT ![c] = 0]
    /\ lost' = TRUE
    /\ UNCHANGED <<home, pc, conns, directory, made, uncounted>>
-----------------------------------------------------------------------------
(* The callback of a connection reads the request and gives it to the      *)
(* pool, with the address of the stub.                                     *)
AcceptCallback(k) ==
    /\ conns[k].at \in OnTheWay
    /\ Set(k, IF conns[k].at = "call" THEN "call_task" ELSE "release_task")
    /\ UNCHANGED <<home, pc, packs, directory, clients, made, history>>

Transact(k) ==
    /\ conns[k].at = "call_task" /\ stub = "live"
    /\ Set(k, "idle")
    /\ UNCHANGED <<home, pc, packs, directory, clients, made, history>>

(* ~CObjectStub closes the socket it listens on and the connection it      *)
(* accepted last.  The other ones stay with the Looper, and so does a task *)
(* in the pool.  The entry stays too.                                      *)
StubRelease(cs) ==
    /\ mRef' = mRef - 1
    /\ IF mRef' # 0
       THEN UNCHANGED <<stub, m_cConnfd>> /\ conns' = cs
       ELSE /\ stub' = "deleted"
            /\ m_cConnfd' = 0
            /\ conns' = IF m_cConnfd # 0 /\ cs[m_cConnfd].at \notin Tasks
                        THEN [cs EXCEPT ![m_cConnfd].at = "closed"]
                        ELSE cs

TransactRelease(k) ==
    /\ conns[k].at = "release_task" /\ stub = "live"
    /\ StubRelease([conns EXCEPT ![k].at = "idle"])
    /\ UNCHANGED <<pc, packs, directory, clients, made, history>>

(* StdUnmarshalInterface at Home finds the stub by its address: the caller *)
(* gets the object itself.  The pack's own reference stays.                *)
UnmarshalHome(t) ==
    /\ pc[t] = "idle" /\ packs[Home] > 0 /\ stub = "live"
    /\ packs' = [packs EXCEPT ![Home] = @ - 1]
    /\ mRef' = mRef + 1
    /\ Goto(t, "local")
    /\ lost' = TRUE
    /\ UNCHANGED <<stub, m_cConnfd, conns, directory, clients, made, uncounted>>

ReleaseHome(t) ==
    /\ pc[t] = "local" /\ stub = "live"
    /\ StubRelease(conns)
    /\ Goto(t, "idle")
    /\ UNCHANGED <<packs, directory, clients, made, history>>

Next ==
    \/ \E t \in Threads :
        \/ FindExportObject(t) \/ S_CreateObject(t) \/ StdMarshalInterface(t)
        \/ SendPack(t) \/ PackDropped(t) \/ AddService(t)
        \/ UnmarshalHome(t) \/ ReleaseHome(t)
    \/ RemoveService
    \/ \E p \in Processes : GetService(p) \/ \E c \in Clients : Forward(c, p)
    \/ \E c \in Clients :
        \/ Unmarshal(c) \/ UnmarshalFails(c) \/ Connect(c) \/ Call(c)
        \/ Release(c) \/ ClientDies(c)
    \/ \E k \in DOMAIN conns :
        AcceptCallback(k) \/ Transact(k) \/ TransactRelease(k)

Spec == Init /\ [][Next]_vars
-----------------------------------------------------------------------------
(* Somebody will use the stub, or give a reference to it back.             *)
InUse ==
    \/ \E t \in Threads : pc[t] # "idle"
    \/ \E p \in Processes : packs[p] > 0
    \/ \E c \in Clients : refs[c] > 0
    \/ \E k \in DOMAIN conns : conns[k].at \in OnTheWay \cup Tasks
    \/ mServices /\ ~spent

(* A stub is deleted while somebody uses it only after a pack was made     *)
(* that nobody had counted: the second answer of the service manager or a  *)
(* proxy that was marshalled.  In particular neither a marshalling thread  *)
(* that has released g_marshalLock nor the stub's creator, whose count is  *)
(* still 0, is overtaken by the RELEASE of a client.                       *)
SafeUnlessUncounted == uncounted \/ (stub = "deleted" => ~InUse)

(* When nobody uses the object any more its stub is gone, unless some pack *)
(* was lost, was one too many for its receiver, came home, or arrived at a *)
(* proxy that was never called.                                            *)
DeletedUnlessLost == lost \/ (stub = "live" => InUse)
=============================================================================

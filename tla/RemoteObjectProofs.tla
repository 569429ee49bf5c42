------------------------- MODULE RemoteObjectProofs -------------------------
(***************************************************************************)
(* Proofs about RemoteObject for any finite sets of clients and threads    *)
(* and any bounds: the count of the stub against the references that       *)
(* somebody will use or give back.                                         *)
(***************************************************************************)
EXTENDS RemoteObject, SetsAndLists

(* The threads of Home that have a reference for a pack or an object.      *)
Holding == {t \in Threads : pc[t] \in {"packed", "local"}}

(* Those that found the entry: their reference is never given back.        *)
Found == {t \in Threads : pc[t] = "found"}

(* The packs on their way, each with a number.                             *)
InTransit == UNION {{p} \X (0 .. packs[p] - 1) : p \in Processes}

(* The clients with a proxy.                                               *)
Users == {c \in Clients : refs[c] > 0}

(* The connections with a RELEASE, or with a call whose client has died:   *)
(* nobody will give its reference back.                                    *)
Releases == {"release", "release_task"}
Calls == {"call", "call_task"}
Orphan(k) == conns[k].at \in Calls /\ \A c \in Clients : m_cSocketfd[c] # k
Owed == {k \in DOMAIN conns : conns[k].at \in Releases \/ Orphan(k)}

(* The references that somebody may give back.                             *)
Firm == Cardinality(Holding) + Cardinality(InTransit) + Cardinality(Users)
          + Cardinality(Owed) + One(mServices /\ ~spent)

(* Nobody but the creator of the stub knows it.                            *)
Pristine ==
    /\ \A t \in Threads : pc[t] \in {"idle", "created"}
    /\ \A p \in Processes : packs[p] = 0
    /\ \A c \in Clients : refs[c] = 0
    /\ conns = <<>> /\ ~mServices

Creating == \E t \in Threads : pc[t] = "created"

(* Until a reference is taken the stub is nobody's but its creator's.      *)
Known ==
    /\ stub = "none" => mRef = 0 /\ \A t \in Threads : pc[t] = "idle"
    /\ stub # "deleted" /\ mRef = 0 => Pristine
    /\ \A t, u \in Threads : pc[t] = "created" /\ pc[u] = "created" => t = u

(* A client with a connection has a proxy, and has sent no RELEASE on it.  *)
Wires ==
    /\ \A c \in Clients : m_cSocketfd[c] # 0 =>
         /\ refs[c] > 0
         /\ conns[m_cSocketfd[c]].client = c
         /\ conns[m_cSocketfd[c]].at \notin Releases
    /\ \A k \in DOMAIN conns :
         /\ conns[k].at = "closed" => stub = "deleted"
         /\ Orphan(k) => lost

Shape == IsFiniteSet(InTransit) /\ Known /\ Wires

(* While nothing was uncounted the count is enough, while nothing was lost *)
(* it is no more than that.  The creator, whose reference is still to come,*)
(* has the one that a thread which found the entry has left there.         *)
Count ==
    /\ stub = "live" /\ ~uncounted =>
         /\ mRef >= Firm + Cardinality(Found)
         /\ Creating => mRef = 0 \/ mRef > Firm
    /\ stub = "live" /\ ~lost =>
         /\ mRef <= Firm + Cardinality(Found)
         /\ mRef = 0 => Creating
    /\ stub = "deleted" /\ ~uncounted => ~InUse

IInv == TypeOK /\ Shape /\ Count
-----------------------------------------------------------------------------
(* The counted sets are finite.                                            *)
LEMMA CountTypes ==
    ASSUME TypeOK, Shape
    PROVE  /\ IsFiniteSet(Holding) /\ Cardinality(Holding) \in Nat
           /\ IsFiniteSet(Found) /\ Cardinality(Found) \in Nat
           /\ IsFiniteSet(InTransit) /\ Cardinality(InTransit) \in Nat
           /\ IsFiniteSet(Users) /\ Cardinality(Users) \in Nat
           /\ IsFiniteSet(Owed) /\ Cardinality(Owed) \in Nat
           /\ One(mServices /\ ~spent) \in {0, 1}
           /\ Firm \in Nat /\ mRef \in Nat
<1>1. IsFiniteSet(Holding) /\ IsFiniteSet(Found)
  BY FS_Subset, FiniteAssumption DEF Holding, Found
<1>2. IsFiniteSet(Users)
  BY FS_Subset, FiniteAssumption DEF Users
<1>3. IsFiniteSet(Owed)
  <2>1. Len(conns) \in Int /\ DOMAIN conns = 1 .. Len(conns)
    BY DEF TypeOK
  <2>2. IsFiniteSet(1 .. Len(conns))
    BY <2>1, FS_Interval
  <2> QED
    BY <2>1, <2>2, FS_Subset DEF Owed
<1>4. IsFiniteSet(InTransit)
  BY DEF Shape
<1>5. One(mServices /\ ~spent) \in {0, 1}
  BY DEF One
<1> QED
  BY <1>1, <1>2, <1>3, <1>4, <1>5, FS_CardinalityType DEF Firm, TypeOK

(* What it means for each count to be 0.                                   *)
LEMMA CountsZero ==
    ASSUME TypeOK, Shape
    PROVE  /\ Cardinality(Holding) = 0 <=> \A t \in Threads : pc[t] \notin {"packed", "local"}
           /\ Cardinality(Found) = 0 <=> \A t \in Threads : pc[t] # "found"
           /\ Cardinality(InTransit) = 0 <=> \A p \in Processes : packs[p] = 0
           /\ Cardinality(Users) = 0 <=> \A c \in Clients : refs[c] = 0
           /\ Cardinality(Owed) = 0
                <=> \A k \in DOMAIN conns : conns[k].at \notin Releases /\ ~Orphan(k)
<1>1. Holding = {} <=> \A t \in Threads : pc[t] \notin {"packed", "local"}
  BY DEF Holding
<1>2. Found = {} <=> \A t \in Threads : pc[t] # "found"
  BY DEF Found
<1>3. InTransit = {} <=> \A p \in Processes : packs[p] = 0
  <2>1. \A p \in Processes : packs[p] \in Nat
    BY DEF TypeOK
  <2>2. \A p \in Processes : packs[p] > 0 => <<p, 0>> \in InTransit
    BY <2>1 DEF InTransit
  <2>3. \A x \in InTransit : \E p \in Processes : packs[p] > 0
    BY <2>1 DEF InTransit
  <2>4. (\A p \in Processes : packs[p] = 0) <=> ~\E p \in Processes : packs[p] > 0
    BY <2>1
  <2> QED
    BY <2>2, <2>3, <2>4, Zenon
<1>4. Users = {} <=> \A c \in Clients : refs[c] = 0
  BY DEF Users, TypeOK
<1>5. Owed = {} <=> \A k \in DOMAIN conns : conns[k].at \notin Releases /\ ~Orphan(k)
  BY DEF Owed
<1> QED
  BY <1>1, <1>2, <1>3, <1>4, <1>5, CountTypes, FS_EmptySet

(* One thread moves.                                                       *)
LEMMA ThreadMoves ==
    ASSUME TypeOK, Shape, NEW t \in Threads, NEW l, pc' = [pc EXCEPT ![t] = l]
    PROVE  /\ Cardinality(Holding)' = Cardinality(Holding)
                + One(l \in {"packed", "local"}) - One(pc[t] \in {"packed", "local"})
           /\ Cardinality(Found)' = Cardinality(Found)
                + One(l = "found") - One(pc[t] = "found")
<1>1. pc \in [Threads -> {"idle", "found", "created", "packed", "local"}]
  BY DEF TypeOK
<1>2. /\ Holding' \ {t} = Holding \ {t}
      /\ t \in Holding' <=> l \in {"packed", "local"}
      /\ t \in Holding <=> pc[t] \in {"packed", "local"}
  BY <1>1 DEF Holding
<1>3. /\ Found' \ {t} = Found \ {t}
      /\ t \in Found' <=> l = "found"
      /\ t \in Found <=> pc[t] = "found"
  BY <1>1 DEF Found
<1>4. Cardinality(Holding') = Cardinality(Holding) + One(t \in Holding') - One(t \in Holding)
  BY <1>2, CountTypes, DifferAt
<1>5. Cardinality(Found') = Cardinality(Found) + One(t \in Found') - One(t \in Found)
  BY <1>3, CountTypes, DifferAt
<1> QED
  BY <1>2, <1>3, <1>4, <1>5

(* A pack is sent.                                                         *)
LEMMA PackSent ==
    ASSUME TypeOK, Shape, NEW p \in Processes, Pack(p)
    PROVE  IsFiniteSet(InTransit)' /\ Cardinality(InTransit)' = Cardinality(InTransit) + 1
<1> DEFINE x == <<p, packs[p]>>
<1>1. packs \in [Processes -> Nat] /\ packs' = [packs EXCEPT ![p] = packs[p] + 1]
  BY DEF TypeOK, Pack
<1>2. \A q, i : <<q, i>> \in InTransit <=> q \in Processes /\ i \in 0 .. packs[q] - 1
  BY DEF InTransit
<1>3. \A q, i : <<q, i>> \in InTransit' <=> q \in Processes /\ i \in 0 .. packs'[q] - 1
  BY DEF InTransit
<1>4. \A y \in InTransit \cup InTransit' : \E q, i : y = <<q, i>>
  BY DEF InTransit
<1>5. \A q, i : <<q, i>> \in InTransit' <=> <<q, i>> \in InTransit \/ (q = p /\ i = packs[p])
  <2> SUFFICES ASSUME NEW q, NEW i
               PROVE  q \in Processes /\ i \in 0 .. packs'[q] - 1
                        <=> \/ q \in Processes /\ i \in 0 .. packs[q] - 1
                            \/ q = p /\ i = packs[p]
    BY <1>2, <1>3
  <2>1. CASE q = p
    BY <1>1, <2>1
  <2>2. CASE q # p
    BY <1>1, <2>2
  <2> QED
    BY <2>1, <2>2
<1>6. InTransit' \ {x} = InTransit \ {x}
  BY <1>4, <1>5
<1>7. x \in InTransit' /\ x \notin InTransit
  BY <1>1, <1>2, <1>3
<1> HIDE DEF x
<1> QED
  BY <1>6, <1>7, CountTypes, DifferAt DEF One

(* A pack is received.                                                     *)
LEMMA PackReceived ==
    ASSUME TypeOK, Shape, NEW p \in Processes, packs[p] > 0,
           packs' = [packs EXCEPT ![p] = @ - 1]
    PROVE  IsFiniteSet(InTransit)' /\ Cardinality(InTransit)' = Cardinality(InTransit) - 1
<1> DEFINE x == <<p, packs[p] - 1>>
<1>1. packs \in [Processes -> Nat]
  BY DEF TypeOK
<1>2. \A q, i : <<q, i>> \in InTransit <=> q \in Processes /\ i \in 0 .. packs[q] - 1
  BY DEF InTransit
<1>3. \A q, i : <<q, i>> \in InTransit' <=> q \in Processes /\ i \in 0 .. packs'[q] - 1
  BY DEF InTransit
<1>4. \A y \in InTransit \cup InTransit' : \E q, i : y = <<q, i>>
  BY DEF InTransit
<1>5. \A q, i : <<q, i>> \in InTransit <=> <<q, i>> \in InTransit' \/ (q = p /\ i = packs[p] - 1)
  <2> SUFFICES ASSUME NEW q, NEW i
               PROVE  q \in Processes /\ i \in 0 .. packs[q] - 1
                        <=> \/ q \in Processes /\ i \in 0 .. packs'[q] - 1
                            \/ q = p /\ i = packs[p] - 1
    BY <1>2, <1>3
  <2>1. CASE q = p
    BY <1>1, <2>1
  <2>2. CASE q # p
    BY <1>1, <2>2
  <2> QED
    BY <2>1, <2>2
<1>6. InTransit' \ {x} = InTransit \ {x}
  BY <1>4, <1>5
<1>7. x \notin InTransit' /\ x \in InTransit
  BY <1>1, <1>2, <1>3
<1> HIDE DEF x
<1> QED
  BY <1>6, <1>7, CountTypes, DifferAt DEF One

(* A client gets or drops references to its proxy.                         *)
LEMMA UserMoves ==
    ASSUME TypeOK, Shape, NEW c \in Clients, NEW n, refs' = [refs EXCEPT ![c] = n]
    PROVE  Cardinality(Users)' = Cardinality(Users) + One(n > 0) - One(refs[c] > 0)
<1>1. refs \in [Clients -> Nat]
  BY DEF TypeOK
<1>2. /\ Users' \ {c} = Users \ {c}
      /\ c \in Users' <=> n > 0
      /\ c \in Users <=> refs[c] > 0
  BY <1>1 DEF Users
<1> QED
  BY <1>2, CountTypes, DifferAt

(* One connection changes what it carries.                                 *)
LEMMA OwedMoves ==
    ASSUME TypeOK, Shape, NEW k, Owed' \ {k} = Owed \ {k}
    PROVE  Cardinality(Owed)' = Cardinality(Owed) + One(k \in Owed') - One(k \in Owed)
  BY CountTypes, DifferAt
-----------------------------------------------------------------------------
(* What a step does to the connections.                                    *)
LEMMA SetKeeps ==
    ASSUME TypeOK, NEW k \in DOMAIN conns, NEW state \in {"idle", "closed"} \cup OnTheWay \cup Tasks,
           Set(k, state)
    PROVE  /\ conns' \in Seq(Connection)
           /\ Len(conns') = Len(conns) /\ DOMAIN conns' = DOMAIN conns
           /\ conns'[k].at = state /\ conns'[k].client = conns[k].client
           /\ \A j \in DOMAIN conns : j # k => conns'[j] = conns[j]
<1>1. conns \in Seq(Connection) /\ conns[k] \in Connection
  BY DEF TypeOK
<1> DEFINE e == [conns[k] EXCEPT !.at = state]
<1>2. e \in Connection /\ e.at = state /\ e.client = conns[k].client
  BY <1>1 DEF Connection
<1>3. conns' = [conns EXCEPT ![k] = e]
  BY DEF Set
<1> HIDE DEF e
<1> QED
  BY <1>1, <1>2, <1>3

LEMMA ConnectAppends ==
    ASSUME TypeOK, NEW c \in Clients, Connect(c)
    PROVE  /\ conns' \in Seq(Connection)
           /\ Len(conns) \in Nat
           /\ Len(conns') = Len(conns) + 1
           /\ conns'[Len(conns) + 1] = [client |-> c, at |-> "call"]
           /\ \A j \in DOMAIN conns : j \in DOMAIN conns' /\ conns'[j] = conns[j]
           /\ DOMAIN conns = 1 .. Len(conns)
           /\ DOMAIN conns' = 1 .. Len(conns) + 1
<1> DEFINE e == [client |-> c, at |-> "call"]
<1>1. conns \in Seq(Connection) /\ e \in Connection /\ conns' = Append(conns, e)
  BY DEF TypeOK, Connection, OnTheWay, Connect
<1> HIDE DEF e
<1>2. /\ conns' \in Seq(Connection) /\ Len(conns) \in Nat
      /\ Len(conns') = Len(conns) + 1
      /\ conns'[Len(conns) + 1] = e
      /\ \A j \in 1 .. Len(conns) : conns'[j] = conns[j]
  BY <1>1
<1>3. DOMAIN conns = 1 .. Len(conns) /\ DOMAIN conns' = 1 .. Len(conns')
  BY <1>1, <1>2
<1> QED
  BY <1>2, <1>3 DEF e

LEMMA StubReleaseDoes ==
    ASSUME TypeOK, stub = "live", mRef > 0,
           NEW cs \in Seq(Connection), Len(cs) = Len(conns), StubRelease(cs)
    PROVE  /\ mRef' = mRef - 1 /\ mRef' \in Nat
           /\ stub' = IF mRef = 1 THEN "deleted" ELSE "live"
           /\ conns' \in Seq(Connection) /\ Len(conns') = Len(conns)
           /\ m_cConnfd' \in 0 .. Len(conns)
           /\ mRef # 1 => conns' = cs
           /\ DOMAIN conns' = DOMAIN cs /\ DOMAIN cs = DOMAIN conns
           /\ \A j \in DOMAIN cs :
                /\ conns'[j].client = cs[j].client
                /\ conns'[j].at = cs[j].at \/ conns'[j].at = "closed"
<1>1. mRef \in Nat /\ m_cConnfd \in 0 .. Len(conns) /\ Len(conns) \in Nat
  BY DEF TypeOK
<1>2. DOMAIN cs = 1 .. Len(cs) /\ DOMAIN conns = 1 .. Len(conns)
  BY DEF TypeOK
<1>3. mRef' = mRef - 1 /\ mRef' \in Nat
  BY <1>1 DEF StubRelease
<1>4. CASE mRef # 1
  <2>1. UNCHANGED <<stub, m_cConnfd>> /\ conns' = cs
    BY <1>1, <1>3, <1>4 DEF StubRelease
  <2> QED
    BY <1>1, <1>2, <1>3, <1>4, <2>1
<1>5. CASE mRef = 1
  <2>1. /\ stub' = "deleted" /\ m_cConnfd' = 0
        /\ conns' = IF m_cConnfd # 0 /\ cs[m_cConnfd].at \notin Tasks
                    THEN [cs EXCEPT ![m_cConnfd].at = "closed"] ELSE cs
    BY <1>1, <1>3, <1>5 DEF StubRelease
  <2>2. CASE m_cConnfd # 0 /\ cs[m_cConnfd].at \notin Tasks
    <3> DEFINE e == [cs[m_cConnfd] EXCEPT !.at = "closed"]
    <3>1. m_cConnfd \in DOMAIN cs /\ cs[m_cConnfd] \in Connection
      BY <1>1, <1>2, <2>2
    <3>2. e \in Connection /\ e.at = "closed" /\ e.client = cs[m_cConnfd].client
      BY <3>1 DEF Connection
    <3>3. conns' = [cs EXCEPT ![m_cConnfd] = e]
      BY <2>1, <2>2
    <3> HIDE DEF e
    <3> QED
      BY <1>1, <1>2, <1>3, <1>5, <2>1, <3>1, <3>2, <3>3
  <2>3. CASE ~(m_cConnfd # 0 /\ cs[m_cConnfd].at \notin Tasks)
    BY <1>1, <1>2, <1>3, <1>5, <2>1, <2>3
  <2> QED
    BY <2>2, <2>3
<1> QED
  BY <1>4, <1>5

(* A RELEASE in a task and a reference of a thread are counted.            *)
LEMMA ReleasesCounted ==
    ASSUME TypeOK, Shape, stub = "live"
    PROVE  /\ \A k \in DOMAIN conns : mRef > 0
           /\ \A t \in Threads : pc[t] \in {"found", "packed", "local"} => mRef > 0
           /\ mServices => mRef > 0
           /\ \A p \in Processes : packs[p] > 0 => mRef > 0
           /\ \A c \in Clients : refs[c] > 0 => mRef > 0
  BY DEF Shape, Known, Pristine, TypeOK

(* The types of the flags.                                                 *)
LEMMA BooleanStep ==
    ASSUME TypeOK, [Next]_vars
    PROVE  /\ mServices' \in BOOLEAN /\ spent' \in BOOLEAN
           /\ uncounted' \in BOOLEAN /\ lost' \in BOOLEAN
<1>1. /\ mServices \in BOOLEAN /\ spent \in BOOLEAN
      /\ uncounted \in BOOLEAN /\ lost \in BOOLEAN
  BY DEF TypeOK
<1>2. mServices' = mServices \/ mServices' = TRUE \/ mServices' = FALSE
  BY DEF Next, vars, FindExportObject, S_CreateObject, StdMarshalInterface, SendPack, PackDropped,
         AddService, UnmarshalHome, ReleaseHome, RemoveService, GetService, Forward, Unmarshal,
         UnmarshalFails, Connect, Call, Release, ClientDies, AcceptCallback, Transact,
         TransactRelease, directory
<1>3. spent' = spent \/ spent' = TRUE \/ spent' = FALSE
  BY DEF Next, vars, FindExportObject, S_CreateObject, StdMarshalInterface, SendPack, PackDropped,
         AddService, UnmarshalHome, ReleaseHome, RemoveService, GetService, Forward, Unmarshal,
         UnmarshalFails, Connect, Call, Release, ClientDies, AcceptCallback, Transact,
         TransactRelease, directory
<1>4. uncounted' = uncounted \/ uncounted' = TRUE \/ uncounted' = spent
  BY <1>1 DEF Next, vars, FindExportObject, S_CreateObject, StdMarshalInterface, SendPack, PackDropped,
         AddService, UnmarshalHome, ReleaseHome, RemoveService, GetService, Forward, Unmarshal,
         UnmarshalFails, Connect, Call, Release, ClientDies, AcceptCallback, Transact,
         TransactRelease, history
<1>5. lost' \in BOOLEAN
  BY <1>1 DEF Next, vars, FindExportObject, S_CreateObject, StdMarshalInterface, SendPack, PackDropped,
         AddService, UnmarshalHome, ReleaseHome, RemoveService, GetService, Forward, Unmarshal,
         UnmarshalFails, Connect, Call, Release, ClientDies, AcceptCallback, Transact,
         TransactRelease, history
<1> QED
  BY <1>1, <1>2, <1>3, <1>4, <1>5

(* Every step keeps the types.                                             *)
LEMMA TypeStep ==
    ASSUME TypeOK, Shape, [Next]_vars
    PROVE  TypeOK'
<1>b. /\ mServices' \in BOOLEAN /\ spent' \in BOOLEAN
      /\ uncounted' \in BOOLEAN /\ lost' \in BOOLEAN
  BY BooleanStep
<1>1. ASSUME NEW t \in Threads,
             \/ FindExportObject(t) \/ S_CreateObject(t) \/ StdMarshalInterface(t)
             \/ SendPack(t) \/ PackDropped(t) \/ AddService(t)
      PROVE  TypeOK'
  <2>1. ASSUME FindExportObject(t) PROVE TypeOK'
    BY <2>1, <1>b, BoundsAssumption DEF TypeOK, FindExportObject, MakeOne, Goto, clients
  <2>2. ASSUME S_CreateObject(t) PROVE TypeOK'
    BY <2>2, <1>b, BoundsAssumption DEF TypeOK, S_CreateObject, MakeOne, Goto, clients
  <2>3. ASSUME StdMarshalInterface(t) PROVE TypeOK'
    <3>1. mRef' \in Nat
      BY <2>3 DEF TypeOK, StdMarshalInterface
    <3>2. pc' \in [Threads -> {"idle", "found", "created", "packed", "local"}]
      BY <2>3 DEF TypeOK, StdMarshalInterface, Goto
    <3> QED
      BY <2>3, <3>1, <3>2, <1>b DEF TypeOK, StdMarshalInterface, clients
  <2>4. ASSUME SendPack(t) PROVE TypeOK'
    <3>1. packs' \in [Processes -> Nat]
      BY <2>4 DEF TypeOK, SendPack, Pack, Processes
    <3> QED
      BY <2>4, <3>1, <1>b DEF TypeOK, SendPack, Goto, home, clients
  <2>5. ASSUME PackDropped(t) \/ AddService(t) PROVE TypeOK'
    BY <2>5, <1>b DEF TypeOK, PackDropped, AddService, Goto, home, clients
  <2> QED
    BY <1>1, <2>1, <2>2, <2>3, <2>4, <2>5
<1>2. ASSUME NEW t \in Threads, UnmarshalHome(t)
      PROVE  TypeOK'
  BY <1>2 DEF TypeOK, UnmarshalHome, Goto, Processes, clients, directory
<1>3. ASSUME NEW t \in Threads, ReleaseHome(t)
      PROVE  TypeOK'
  <2>1. stub = "live" /\ mRef > 0 /\ StubRelease(conns)
    BY <1>3, ReleasesCounted DEF ReleaseHome
  <2>2. conns \in Seq(Connection)
    BY DEF TypeOK
  <2>3. /\ mRef' \in Nat /\ stub' \in {"live", "deleted"}
        /\ conns' \in Seq(Connection) /\ Len(conns') = Len(conns) /\ m_cConnfd' \in 0 .. Len(conns)
    BY <2>1, <2>2, StubReleaseDoes
  <2> QED
    BY <1>3, <2>3 DEF TypeOK, ReleaseHome, Goto, directory, clients, history
<1>4. CASE RemoveService \/ \E p \in Processes : GetService(p) \/ \E c \in Clients : Forward(c, p)
  <2>1. /\ packs' = packs \/ \E p \in Processes : packs' = [packs EXCEPT ![p] = @ + 1]
        /\ made' = made \/ (made < MaxPacks /\ made' = made + 1)
        /\ UNCHANGED <<stub, mRef, m_cConnfd, pc, conns, refs, m_cSocketfd>>
    BY <1>4 DEF RemoveService, GetService, Forward, MakeOne, Pack, home, clients
  <2>2. packs' \in [Processes -> Nat]
    BY <2>1 DEF TypeOK
  <2>3. made' \in 0 .. MaxPacks
    BY <2>1, BoundsAssumption DEF TypeOK
  <2> QED
    BY <2>1, <2>2, <2>3, <1>b DEF TypeOK
<1>5. ASSUME NEW c \in Clients, Unmarshal(c) \/ UnmarshalFails(c) \/ ClientDies(c)
      PROVE  TypeOK'
  <2>1. c \in Processes /\ packs[c] \in Nat /\ refs[c] \in Nat
    BY DEF TypeOK, Processes
  <2>2. ASSUME Unmarshal(c) PROVE TypeOK'
    BY <2>1, <2>2, <1>b DEF TypeOK, Unmarshal, home
  <2>3. ASSUME UnmarshalFails(c) PROVE TypeOK'
    BY <2>1, <2>3, <1>b DEF TypeOK, UnmarshalFails, home, clients
  <2>4. ASSUME ClientDies(c) PROVE TypeOK'
    <3>1. 0 \in 0 .. Len(conns)
      BY DEF TypeOK
    <3> QED
      BY <2>1, <2>4, <3>1, <1>b DEF TypeOK, ClientDies, home
  <2> QED
    BY <1>5, <2>2, <2>3, <2>4
<1>6. ASSUME NEW c \in Clients, Connect(c)
      PROVE  TypeOK'
  <2>1. /\ conns' \in Seq(Connection) /\ Len(conns) \in Nat /\ Len(conns') = Len(conns) + 1
    BY <1>6, ConnectAppends
  <2> QED
    BY <1>6, <2>1 DEF TypeOK, Connect, directory, history
<1>7. ASSUME NEW k \in DOMAIN conns,
             NEW state \in {"idle", "closed"} \cup OnTheWay \cup Tasks, Set(k, state),
             UNCHANGED <<home, pc, packs, directory, clients, made, history>>
      PROVE  TypeOK'
  BY <1>7, SetKeeps DEF TypeOK, home, directory, clients, history
<1>8. ASSUME NEW c \in Clients, Call(c)
      PROVE  TypeOK'
  <2>1. m_cSocketfd[c] \in DOMAIN conns
    BY <1>8 DEF TypeOK, Call
  <2> QED
    BY <1>7, <1>8, <2>1 DEF Call, OnTheWay
<1>9. ASSUME NEW c \in Clients, Release(c)
      PROVE  TypeOK'
  <2>1. refs' \in [Clients -> Nat] /\ m_cSocketfd' \in [Clients -> 0 .. Len(conns)]
    <3>1. /\ refs \in [Clients -> Nat] /\ refs[c] > 0 /\ refs' = [refs EXCEPT ![c] = @ - 1]
          /\ m_cSocketfd \in [Clients -> 0 .. Len(conns)] /\ 0 \in 0 .. Len(conns)
      BY <1>9 DEF TypeOK, Release
    <3>2. m_cSocketfd' = m_cSocketfd \/ m_cSocketfd' = [m_cSocketfd EXCEPT ![c] = 0]
      BY <1>9 DEF Release
    <3>3. refs' \in [Clients -> Nat]
      BY <3>1
    <3>4. m_cSocketfd' \in [Clients -> 0 .. Len(conns)]
      BY <3>1, <3>2
    <3> QED
      BY <3>3, <3>4
  <2>2. conns' \in Seq(Connection) /\ Len(conns') = Len(conns)
    <3>1. CASE UNCHANGED conns
      BY <3>1 DEF TypeOK
    <3>2. CASE m_cSocketfd[c] # 0 /\ Set(m_cSocketfd[c], "release")
      <4>1. m_cSocketfd[c] \in DOMAIN conns
        BY <3>2 DEF TypeOK
      <4> QED
        BY <3>2, <4>1, SetKeeps DEF OnTheWay
    <3> QED
      BY <1>9, <3>1, <3>2 DEF Release
  <2> QED
    BY <1>9, <2>1, <2>2, <1>b DEF TypeOK, Release, home, directory
<1>10. ASSUME NEW k \in DOMAIN conns, AcceptCallback(k) \/ Transact(k)
       PROVE  TypeOK'
  BY <1>7, <1>10 DEF AcceptCallback, Transact, Tasks
<1>11. ASSUME NEW k \in DOMAIN conns, TransactRelease(k)
       PROVE  TypeOK'
  <2> DEFINE cs == [conns EXCEPT ![k].at = "idle"]
  <2>1. stub = "live" /\ mRef > 0 /\ StubRelease(cs)
    BY <1>11, ReleasesCounted DEF TransactRelease
  <2>2. cs \in Seq(Connection) /\ Len(cs) = Len(conns)
    <3>1. conns \in Seq(Connection) /\ conns[k] \in Connection
      BY DEF TypeOK
    <3>2. [conns[k] EXCEPT !.at = "idle"] \in Connection
      BY <3>1 DEF Connection
    <3> QED
      BY <3>1, <3>2
  <2> HIDE DEF cs
  <2>3. /\ mRef' \in Nat /\ stub' \in {"live", "deleted"}
        /\ conns' \in Seq(Connection) /\ Len(conns') = Len(conns) /\ m_cConnfd' \in 0 .. Len(conns)
    BY <2>1, <2>2, StubReleaseDoes
  <2> QED
    BY <1>11, <2>3 DEF TypeOK, TransactRelease, directory, clients, history
<1>12. CASE UNCHANGED vars
  BY <1>12 DEF TypeOK, vars
<1> QED
  BY <1>1, <1>2, <1>3, <1>4, <1>5, <1>6, <1>8, <1>9, <1>10, <1>11, <1>12 DEF Next
-----------------------------------------------------------------------------
(* What a step leaves alone it does not count differently.                 *)
LEMMA Unmoved ==
    /\ UNCHANGED pc => /\ Cardinality(Holding)' = Cardinality(Holding)
                       /\ Cardinality(Found)' = Cardinality(Found)
                       /\ Creating' <=> Creating
    /\ UNCHANGED packs => /\ Cardinality(InTransit)' = Cardinality(InTransit)
                          /\ IsFiniteSet(InTransit)' <=> IsFiniteSet(InTransit)
    /\ UNCHANGED refs => Cardinality(Users)' = Cardinality(Users)
    /\ UNCHANGED <<conns, m_cSocketfd>> => Cardinality(Owed)' = Cardinality(Owed)
    /\ UNCHANGED <<mServices, spent>> => One(mServices /\ ~spent)' = One(mServices /\ ~spent)
<1>1. UNCHANGED pc => Holding' = Holding /\ Found' = Found /\ (Creating' <=> Creating)
  BY DEF Holding, Found, Creating
<1>2. UNCHANGED packs => InTransit' = InTransit
  BY DEF InTransit
<1>3. UNCHANGED refs => Users' = Users
  BY DEF Users
<1>4. UNCHANGED <<conns, m_cSocketfd>> => Owed' = Owed
  BY DEF Owed, Orphan
<1>5. UNCHANGED <<mServices, spent>> => One(mServices /\ ~spent)' = One(mServices /\ ~spent)
  BY DEF One
<1> QED
  BY <1>1, <1>2, <1>3, <1>4, <1>5

LEMMA FirmIs ==
    /\ Firm = Cardinality(Holding) + Cardinality(InTransit) + Cardinality(Users)
                + Cardinality(Owed) + One(mServices /\ ~spent)
    /\ Firm' = Cardinality(Holding)' + Cardinality(InTransit)' + Cardinality(Users)'
                 + Cardinality(Owed)' + One(mServices /\ ~spent)'
  BY DEF Firm

(* A step that leaves the connections alone and drops no proxy keeps Wires.*)
LEMMA WiresKept ==
    ASSUME Wires, UNCHANGED <<conns, m_cSocketfd>>, stub = "deleted" => stub' = "deleted",
           lost => lost', \A c \in Clients : refs[c] > 0 => refs'[c] > 0
    PROVE  Wires'
  BY DEF Wires, Orphan


(* A count that is not 0 is of a stub that is known.                       *)
LEMMA KnownKept ==
    ASSUME Known, stub' # "none", mRef' > 0 \/ stub' = "deleted",
           \A t \in Threads : pc'[t] = "created" => pc[t] = "created"
    PROVE  Known'
  BY DEF Known

(* A step of somebody who knows the stub keeps Known.                      *)
LEMMA KnownStays ==
    ASSUME TypeOK, Known, ~Pristine, stub' = stub, mRef' \in Nat, mRef' >= mRef,
           \A t \in Threads : pc'[t] = "created" => pc[t] = "created"
    PROVE  Known' /\ stub # "none" /\ (stub = "live" => mRef > 0)
<1>1. stub # "none" /\ (stub # "deleted" => mRef > 0)
  BY DEF Known, TypeOK
<1> QED
  BY <1>1 DEF Known, TypeOK

(* A step without a move of a thread.                                      *)
LEMMA KnownUnmoved ==
    ASSUME TypeOK, Known, ~Pristine, UNCHANGED <<stub, mRef, pc>>
    PROVE  Known' /\ stub # "none" /\ (stub = "live" => mRef > 0)
  BY KnownStays DEF TypeOK

(* What a step that leaves the count alone may do to the references.       *)
LEMMA CountKept ==
    ASSUME TypeOK, Shape, Count, stub = "live", mRef > 0, UNCHANGED <<stub, mRef>>,
           NEW f \in Int, Firm' = f, Cardinality(Found)' = Cardinality(Found),
           Creating' => Creating, uncounted => uncounted', lost => lost',
           f = Firm \/ (f <= Firm /\ lost') \/ (f >= Firm /\ uncounted')
    PROVE  Count'
<1>1. mRef \in Nat /\ Firm \in Nat /\ Cardinality(Found) \in Nat
  BY CountTypes
<1>2. ASSUME ~uncounted'
      PROVE  mRef >= f + Cardinality(Found) /\ (Creating' => mRef > f)
  <2>1. mRef >= Firm + Cardinality(Found) /\ (Creating => mRef > Firm) /\ f <= Firm
    BY <1>1, <1>2 DEF Count
  <2> QED
    BY <1>1, <2>1
<1>3. ASSUME ~lost'
      PROVE  mRef <= f + Cardinality(Found)
  <2>1. mRef <= Firm + Cardinality(Found) /\ f >= Firm
    BY <1>1, <1>3 DEF Count
  <2> QED
    BY <1>1, <2>1
<1>4. mRef # 0
  OBVIOUS
<1> QED
  BY <1>2, <1>3, <1>4 DEF Count
-----------------------------------------------------------------------------
LEMMA FindExportObjectKeeps ==
    ASSUME IInv, TypeOK', NEW t \in Threads, FindExportObject(t)
    PROVE  Shape' /\ Count'
<1>1. TypeOK /\ Shape /\ Count
  BY DEF IInv
<1>2. /\ stub = "live" /\ stub' = "live" /\ mRef' = mRef + 1 /\ pc[t] = "idle"
      /\ pc' = [pc EXCEPT ![t] = "found"]
      /\ UNCHANGED <<conns, packs, mServices, spent, refs, m_cSocketfd, uncounted, lost>>
  BY DEF FindExportObject, Goto, directory, clients, history
<1>3. mRef \in Nat /\ \A u \in Threads : pc'[u] = "created" <=> pc[u] = "created"
  BY <1>1, <1>2 DEF TypeOK
<1>4. Shape'
  BY <1>1, <1>2, <1>3, Unmoved, WiresKept, KnownKept DEF Shape
<1>5. Firm' = Firm /\ Cardinality(Found)' = Cardinality(Found) + 1
  <2>1. /\ Cardinality(Holding)' = Cardinality(Holding)
        /\ Cardinality(Found)' = Cardinality(Found) + 1
    <3>1. /\ Cardinality(Holding)' = Cardinality(Holding)
               + One("found" \in {"packed", "local"}) - One(pc[t] \in {"packed", "local"})
          /\ Cardinality(Found)' = Cardinality(Found) + One("found" = "found") - One(pc[t] = "found")
      BY <1>1, <1>2, ThreadMoves, Zenon
    <3> QED
      BY <1>1, <1>2, <3>1, CountTypes DEF One
  <2> QED
    BY <1>2, <2>1, Unmoved, FirmIs
<1>6. Creating' <=> Creating
  BY <1>3 DEF Creating
<1>7. Firm \in Nat /\ Cardinality(Found) \in Nat
  BY <1>1, CountTypes
<1>8. Count'
  BY <1>1, <1>2, <1>3, <1>5, <1>6, <1>7 DEF Count
<1> QED
  BY <1>4, <1>8

LEMMA CreateObjectKeeps ==
    ASSUME IInv, TypeOK', NEW t \in Threads, S_CreateObject(t)
    PROVE  Shape' /\ Count'
<1>1. TypeOK /\ Shape /\ Count
  BY DEF IInv
<1>2. /\ stub = "none" /\ stub' = "live" /\ UNCHANGED mRef /\ pc[t] = "idle"
      /\ pc' = [pc EXCEPT ![t] = "created"]
      /\ UNCHANGED <<conns, packs, mServices, spent, refs, m_cSocketfd, uncounted, lost>>
  BY DEF S_CreateObject, Goto, directory, clients, history
<1>3. mRef = 0 /\ Pristine /\ \A u \in Threads : pc[u] = "idle"
  BY <1>1, <1>2 DEF Shape, Known
<1>4. pc'[t] = "created" /\ \A u \in Threads \ {t} : pc'[u] = "idle"
  BY <1>1, <1>2, <1>3 DEF TypeOK
<1>5. Pristine' /\ Creating'
  BY <1>2, <1>3, <1>4 DEF Pristine, Creating
<1>6. Shape'
  <2>1. Known'
    BY <1>2, <1>4, <1>5 DEF Known
  <2> QED
    BY <1>1, <1>2, <2>1, Unmoved, WiresKept DEF Shape
<1>7. Firm' = 0 /\ Cardinality(Found)' = 0
  <2>1. /\ Cardinality(Holding)' = 0 /\ Cardinality(Found)' = 0
        /\ Cardinality(InTransit)' = 0 /\ Cardinality(Users)' = 0
        /\ Cardinality(Owed)' = 0
    <3>1. Holding' = {} /\ Found' = {}
      BY <1>4 DEF Holding, Found
    <3>2. InTransit' = {}
      BY <1>5 DEF Pristine, InTransit
    <3>3. Users' = {} /\ Owed' = {}
      BY <1>5 DEF Pristine, Users, Owed
    <3> QED
      BY <3>1, <3>2, <3>3, FS_EmptySet
  <2>2. One(mServices /\ ~spent)' = 0
    BY <1>5 DEF Pristine, One
  <2> QED
    BY <2>1, <2>2, FirmIs
<1>8. Count'
  BY <1>2, <1>3, <1>5, <1>7 DEF Count
<1> QED
  BY <1>6, <1>8

LEMMA StdMarshalInterfaceKeeps ==
    ASSUME IInv, TypeOK', NEW t \in Threads, StdMarshalInterface(t)
    PROVE  Shape' /\ Count'
<1>1. TypeOK /\ Shape /\ Count
  BY DEF IInv
<1>2. /\ stub = "live" /\ stub' = "live" /\ pc[t] \in {"found", "created"}
      /\ \/ /\ mRef' = mRef + 1 /\ pc' = [pc EXCEPT ![t] = "packed"]
            /\ lost' = (lost \/ pc[t] = "found")
         \/ /\ mRef' = mRef /\ pc' = [pc EXCEPT ![t] = "idle"]
            /\ lost'
      /\ UNCHANGED <<conns, packs, mServices, spent, refs, m_cSocketfd, uncounted>>
  BY DEF StdMarshalInterface, Goto, directory, clients
<1>3. /\ mRef \in Nat /\ Firm \in Nat /\ Cardinality(Found) \in Nat
      /\ Cardinality(Holding) \in Nat
  BY <1>1, CountTypes DEF TypeOK
<1>4. \A u \in Threads : pc'[u] = "created" <=> pc[u] = "created" /\ u # t
  BY <1>1, <1>2 DEF TypeOK
<1>5. pc[t] = "found" => mRef > 0
  BY <1>1, <1>2, ReleasesCounted
<1>6. Shape'
  <2>1. Wires'
    BY <1>1, <1>2, WiresKept DEF Shape
  <2>2. Known'
    <3>1. CASE mRef' = 0
      BY <1>1, <1>2, <1>3, <1>4, <1>5, <3>1 DEF Shape, Known, Pristine, TypeOK
    <3>2. CASE mRef' > 0
      BY <1>1, <1>2, <1>4, <3>2, KnownKept DEF Shape
    <3> QED
      BY <1>2, <1>3, <3>1, <3>2
  <2> QED
    BY <1>1, <1>2, <2>1, <2>2, Unmoved DEF Shape
<1>7. CASE mRef' = mRef + 1 /\ pc' = [pc EXCEPT ![t] = "packed"]
           /\ lost' = (lost \/ pc[t] = "found")
  <2>1. /\ Cardinality(Holding)' = Cardinality(Holding) + One("packed" \in {"packed", "local"})
             - One(pc[t] \in {"packed", "local"})
        /\ Cardinality(Found)' = Cardinality(Found) + One("packed" = "found") - One(pc[t] = "found")
    BY <1>1, <1>7, ThreadMoves, Zenon
  <2>2. /\ Cardinality(Holding)' = Cardinality(Holding) + 1
        /\ Cardinality(Found)' = Cardinality(Found) - One(pc[t] = "found")
    BY <1>2, <1>3, <2>1 DEF One
  <2>3. Firm' = Firm + 1
    BY <1>2, <1>3, <2>2, Unmoved, FirmIs, <1>1, CountTypes
  <2>4. CASE pc[t] = "found"
    <3>1. Creating' => Creating
      BY <1>4 DEF Creating
    <3>2. Cardinality(Found)' = Cardinality(Found) - 1
      BY <2>2, <2>4 DEF One
    <3> QED
      <4>1. lost' /\ mRef' = mRef + 1 /\ stub' = "live" /\ uncounted' = uncounted
        BY <1>2, <1>7, <2>4
      <4>2. ~uncounted => mRef >= Firm + Cardinality(Found) /\ (Creating => mRef > Firm)
        BY <1>1, <1>2, <1>5, <2>4 DEF Count
      <4> QED
        <5>1. ASSUME ~uncounted' PROVE mRef' >= Firm' + Cardinality(Found)' /\ (Creating' => mRef' > Firm')
          <6>1. ~uncounted
            BY <4>1, <5>1
          <6>2. /\ mRef + 1 >= Firm + 1 + (Cardinality(Found) - 1)
                /\ Creating => mRef + 1 > Firm + 1
            BY <1>3, <4>2, <6>1
          <6> QED
            BY <1>3, <2>3, <3>1, <3>2, <4>1, <6>2
        <5> QED
          BY <1>6, <4>1, <5>1 DEF Count
  <2>5. CASE pc[t] = "created"
    <3>1. ~Creating' /\ Creating
      BY <1>1, <1>4, <2>5 DEF Creating, Shape, Known
    <3>2. Cardinality(Found)' = Cardinality(Found)
      BY <1>3, <2>2, <2>5 DEF One
    <3> QED
      <4>1. ~uncounted => mRef >= Firm + Cardinality(Found)
        BY <1>1, <1>2 DEF Count
      <4>2. ~lost => mRef <= Firm + Cardinality(Found)
        BY <1>1, <1>2 DEF Count
      <4>3. /\ mRef' = mRef + 1 /\ stub' = "live" /\ uncounted' = uncounted /\ (~lost' => ~lost)
        BY <1>2, <1>7
      <4>4. ~uncounted' => mRef' >= Firm' + Cardinality(Found)'
        BY <1>3, <2>3, <3>2, <4>1, <4>3
      <4>5. ~lost' => mRef' <= Firm' + Cardinality(Found)' /\ mRef' # 0
        BY <1>3, <2>3, <3>2, <4>2, <4>3
      <4> QED
        BY <1>6, <3>1, <4>3, <4>4, <4>5 DEF Count
  <2> QED
    BY <1>2, <1>6, <2>4, <2>5
<1>8. CASE mRef' = mRef /\ pc' = [pc EXCEPT ![t] = "idle"] /\ lost'
  <2>1. /\ Cardinality(Holding)' = Cardinality(Holding) + One("idle" \in {"packed", "local"})
             - One(pc[t] \in {"packed", "local"})
        /\ Cardinality(Found)' = Cardinality(Found) + One("idle" = "found") - One(pc[t] = "found")
    BY <1>1, <1>8, ThreadMoves, Zenon
  <2>2. /\ Cardinality(Holding)' = Cardinality(Holding)
        /\ Cardinality(Found)' \in Int /\ Cardinality(Found)' <= Cardinality(Found)
    BY <1>2, <1>3, <2>1 DEF One
  <2>3. Firm' = Firm
    BY <1>2, <2>2, Unmoved, FirmIs
  <2>4. Creating' => Creating
    BY <1>4 DEF Creating
  <2> QED
    BY <1>1, <1>2, <1>3, <1>6, <1>8, <2>2, <2>3, <2>4 DEF Count
<1> QED
  BY <1>2, <1>7, <1>8

(* The pack that a thread holds goes to where it counts as much.           *)
LEMMA SendPackKeeps ==
    ASSUME IInv, TypeOK', NEW t \in Threads, SendPack(t)
    PROVE  Shape' /\ (stub = "live" => Count')
<1>1. TypeOK /\ Shape /\ Count
  BY DEF IInv
<1> PICK c \in Clients : Pack(c)
  BY DEF SendPack
<1>2. /\ pc[t] = "packed" /\ pc' = [pc EXCEPT ![t] = "idle"] /\ c \in Processes
      /\ UNCHANGED <<stub, mRef, conns, mServices, spent, refs, m_cSocketfd, uncounted, lost>>
  BY DEF SendPack, Goto, home, directory, clients, history, Processes
<1>3. \A u \in Threads : pc'[u] = "created" <=> pc[u] = "created"
  BY <1>1, <1>2 DEF TypeOK
<1>4. Known' /\ (stub = "live" => mRef > 0)
  BY <1>1, <1>2, <1>3, KnownStays DEF Shape, Pristine, TypeOK
<1>5. /\ IsFiniteSet(InTransit)' /\ Cardinality(InTransit)' = Cardinality(InTransit) + 1
      /\ Cardinality(Holding)' = Cardinality(Holding) - 1
      /\ Cardinality(Found)' = Cardinality(Found)
  <2>1. /\ Cardinality(Holding)' = Cardinality(Holding) + One("idle" \in {"packed", "local"})
             - One(pc[t] \in {"packed", "local"})
        /\ Cardinality(Found)' = Cardinality(Found) + One("idle" = "found") - One(pc[t] = "found")
    BY <1>1, <1>2, ThreadMoves, Zenon
  <2> QED
    BY <1>1, <1>2, <2>1, PackSent, CountTypes DEF One
<1>6. Firm' = Firm
  BY <1>1, <1>2, <1>5, Unmoved, FirmIs, CountTypes
<1>7. Shape'
  BY <1>1, <1>2, <1>4, <1>5, WiresKept DEF Shape
<1>8. Creating' <=> Creating
  BY <1>3 DEF Creating
<1> QED
  <2>1. ASSUME stub = "live" PROVE Count'
    <3>1. /\ Firm \in Nat /\ Cardinality(Found) \in Nat /\ mRef \in Nat /\ mRef > 0
      BY <1>1, <1>4, <2>1, CountTypes
    <3> QED
      BY <1>1, <1>2, <1>4, <1>5, <1>6, <1>8, <2>1, <3>1, CountKept
  <2> QED
    BY <1>7, <2>1

LEMMA PackDroppedKeeps ==
    ASSUME IInv, TypeOK', NEW t \in Threads, PackDropped(t)
    PROVE  Shape' /\ (stub = "live" => Count')
<1>1. TypeOK /\ Shape /\ Count
  BY DEF IInv
<1>2. /\ pc[t] = "packed" /\ pc' = [pc EXCEPT ![t] = "idle"] /\ lost'
      /\ UNCHANGED <<stub, mRef, conns, packs, mServices, spent, refs, m_cSocketfd, uncounted>>
  BY DEF PackDropped, Goto, home, directory, clients
<1>3. \A u \in Threads : pc'[u] = "created" <=> pc[u] = "created"
  BY <1>1, <1>2 DEF TypeOK
<1>4. Known' /\ (stub = "live" => mRef > 0)
  BY <1>1, <1>2, <1>3, KnownStays DEF Shape, Pristine, TypeOK
<1>5. /\ Cardinality(Holding)' = Cardinality(Holding) - 1
      /\ Cardinality(Found)' = Cardinality(Found)
  <2>1. /\ Cardinality(Holding)' = Cardinality(Holding) + One("idle" \in {"packed", "local"})
             - One(pc[t] \in {"packed", "local"})
        /\ Cardinality(Found)' = Cardinality(Found) + One("idle" = "found") - One(pc[t] = "found")
    BY <1>1, <1>2, ThreadMoves, Zenon
  <2> QED
    BY <1>1, <1>2, <2>1, CountTypes DEF One
<1>6. Firm' = Firm - 1 /\ Firm \in Nat /\ Cardinality(Found) \in Nat /\ mRef \in Nat
  <2>1. /\ Cardinality(InTransit)' = Cardinality(InTransit)
        /\ Cardinality(Users)' = Cardinality(Users)
        /\ Cardinality(Owed)' = Cardinality(Owed)
        /\ One(mServices /\ ~spent)' = One(mServices /\ ~spent)
    BY <1>2, Unmoved
  <2>2. /\ Firm \in Nat /\ mRef \in Nat
        /\ Cardinality(Holding) \in Nat /\ Cardinality(Found) \in Nat
        /\ Cardinality(InTransit) \in Nat /\ Cardinality(Users) \in Nat
        /\ Cardinality(Owed) \in Nat /\ One(mServices /\ ~spent) \in {0, 1}
    BY <1>1, CountTypes DEF TypeOK
  <2> QED
    BY <2>1, <2>2, <1>5, FirmIs
<1>7. Shape'
  BY <1>1, <1>2, <1>4, WiresKept, Unmoved DEF Shape
<1>8. Creating' <=> Creating
  BY <1>3 DEF Creating
<1> QED
  <2>1. ASSUME stub = "live" PROVE Count'
    <3>1. /\ Firm \in Nat /\ Cardinality(Found) \in Nat /\ mRef \in Nat /\ mRef > 0
      BY <1>1, <1>4, <2>1, CountTypes
    <3> QED
      BY <1>1, <1>2, <1>4, <1>5, <1>6, <1>8, <2>1, <3>1, CountKept
  <2> QED
    BY <1>7, <2>1

LEMMA AddServiceKeeps ==
    ASSUME IInv, TypeOK', NEW t \in Threads, AddService(t)
    PROVE  Shape' /\ (stub = "live" => Count')
<1>1. TypeOK /\ Shape /\ Count
  BY DEF IInv
<1>2. /\ pc[t] = "packed" /\ pc' = [pc EXCEPT ![t] = "idle"]
      /\ mServices' /\ ~spent' /\ lost' = (lost \/ (mServices /\ ~spent))
      /\ UNCHANGED <<stub, mRef, conns, packs, refs, m_cSocketfd, uncounted>>
  BY DEF AddService, Goto, home, clients
<1>3. \A u \in Threads : pc'[u] = "created" <=> pc[u] = "created"
  BY <1>1, <1>2 DEF TypeOK
<1>4. Known' /\ (stub = "live" => mRef > 0)
  BY <1>1, <1>2, <1>3, KnownStays DEF Shape, Pristine, TypeOK
<1>5. /\ Cardinality(Holding)' = Cardinality(Holding) - 1
      /\ Cardinality(Found)' = Cardinality(Found)
  <2>1. /\ Cardinality(Holding)' = Cardinality(Holding) + One("idle" \in {"packed", "local"})
             - One(pc[t] \in {"packed", "local"})
        /\ Cardinality(Found)' = Cardinality(Found) + One("idle" = "found") - One(pc[t] = "found")
    BY <1>1, <1>2, ThreadMoves, Zenon
  <2> QED
    BY <1>1, <1>2, <2>1, CountTypes DEF One
<1>6. /\ One(mServices /\ ~spent)' = 1
      /\ One(mServices /\ ~spent) = IF mServices /\ ~spent THEN 1 ELSE 0
  BY <1>2 DEF One
<1>7. /\ Firm' = IF mServices /\ ~spent THEN Firm - 1 ELSE Firm
      /\ Firm \in Nat /\ Cardinality(Found) \in Nat /\ mRef \in Nat
  <2>1. /\ Cardinality(InTransit)' = Cardinality(InTransit)
        /\ Cardinality(Users)' = Cardinality(Users)
        /\ Cardinality(Owed)' = Cardinality(Owed)
    BY <1>2, Unmoved
  <2>2. /\ Firm \in Nat /\ mRef \in Nat
        /\ Cardinality(Holding) \in Nat /\ Cardinality(Found) \in Nat
        /\ Cardinality(InTransit) \in Nat /\ Cardinality(Users) \in Nat
        /\ Cardinality(Owed) \in Nat /\ One(mServices /\ ~spent) \in {0, 1}
    BY <1>1, CountTypes DEF TypeOK
  <2> QED
    BY <2>1, <2>2, <1>2, <1>5, <1>6, FirmIs
<1>8. Shape'
  BY <1>1, <1>2, <1>4, WiresKept, Unmoved DEF Shape
<1>9. Creating' <=> Creating
  BY <1>3 DEF Creating
<1> QED
  <2>1. ASSUME stub = "live" PROVE Count'
    <3>1. /\ Firm \in Nat /\ Cardinality(Found) \in Nat /\ mRef \in Nat /\ mRef > 0
      BY <1>1, <1>4, <2>1, CountTypes
    <3>4. /\ stub' = "live" /\ mRef' = mRef
          /\ Cardinality(Found)' = Cardinality(Found) /\ (Creating' => Creating)
          /\ (lost => lost') /\ (uncounted => uncounted')
      BY <1>2, <1>5, <1>9, <2>1
    <3>5. PICK f \in Int : Firm' = f /\ f = IF mServices /\ ~spent THEN Firm - 1 ELSE Firm
      BY <1>7, <3>1
    <3>6. mServices /\ ~spent => lost'
      BY <1>2, Zenon
    <3>7. f = Firm \/ (f <= Firm /\ lost') \/ (f >= Firm /\ uncounted')
      BY <3>1, <3>5, <3>6
    <3> QED
      BY <1>1, <1>2, <2>1, <3>1, <3>4, <3>5, <3>7, CountKept
  <2> QED
    BY <1>8, <2>1

LEMMA RemoveServiceKeeps ==
    ASSUME IInv, TypeOK', RemoveService
    PROVE  Shape' /\ (stub = "live" => Count')
<1>1. TypeOK /\ Shape /\ Count
  BY DEF IInv
<1>2. /\ mServices /\ ~mServices' /\ lost' = (lost \/ ~spent)
      /\ UNCHANGED <<stub, mRef, pc, conns, packs, refs, m_cSocketfd, spent, uncounted>>
  BY DEF RemoveService, home, clients
<1>3. Known' /\ (stub = "live" => mRef > 0)
  BY <1>1, <1>2, KnownUnmoved DEF Shape, Pristine
<1>4. One(mServices /\ ~spent)' = 0 /\ One(mServices /\ ~spent) = IF spent THEN 0 ELSE 1
  BY <1>2 DEF One
<1>5. /\ Firm' = IF ~spent THEN Firm - 1 ELSE Firm
      /\ Firm \in Nat /\ Cardinality(Found) \in Nat /\ mRef \in Nat
  <2>1. /\ Cardinality(Holding)' = Cardinality(Holding)
        /\ Cardinality(InTransit)' = Cardinality(InTransit)
        /\ Cardinality(Users)' = Cardinality(Users)
        /\ Cardinality(Owed)' = Cardinality(Owed)
    BY <1>2, Unmoved
  <2>2. /\ Firm \in Nat /\ mRef \in Nat
        /\ Cardinality(Holding) \in Nat /\ Cardinality(Found) \in Nat
        /\ Cardinality(InTransit) \in Nat /\ Cardinality(Users) \in Nat
        /\ Cardinality(Owed) \in Nat /\ One(mServices /\ ~spent) \in {0, 1}
    BY <1>1, CountTypes DEF TypeOK
  <2> QED
    BY <2>1, <2>2, <1>2, <1>4, FirmIs
<1>6. Shape'
  BY <1>1, <1>2, <1>3, WiresKept, Unmoved DEF Shape
<1>7. Cardinality(Found)' = Cardinality(Found) /\ (Creating' <=> Creating)
  BY <1>2, Unmoved
<1> QED
  <2>1. ASSUME stub = "live" PROVE Count'
    <3>1. /\ Firm \in Nat /\ Cardinality(Found) \in Nat /\ mRef \in Nat /\ mRef > 0
      BY <1>1, <1>3, <2>1, CountTypes
    <3>4. /\ stub' = "live" /\ mRef' = mRef
          /\ Cardinality(Found)' = Cardinality(Found) /\ (Creating' => Creating)
          /\ (lost => lost') /\ (uncounted => uncounted')
      BY <1>2, <1>7, <2>1
    <3>5. PICK f \in Int : Firm' = f /\ f = IF ~spent THEN Firm - 1 ELSE Firm
      BY <1>5, <3>1
    <3>6. ~spent => lost'
      BY <1>2, Zenon
    <3>7. f = Firm \/ (f <= Firm /\ lost') \/ (f >= Firm /\ uncounted')
      BY <3>1, <3>5, <3>6
    <3> QED
      BY <1>1, <1>2, <2>1, <3>1, <3>4, <3>5, <3>7, CountKept
  <2> QED
    BY <1>6, <2>1

(* A copy of the pack counts for the one that DCARServer has, once.        *)
LEMMA GetServiceKeeps ==
    ASSUME IInv, TypeOK', NEW p \in Processes, GetService(p)
    PROVE  Shape' /\ (stub = "live" => Count')
<1>1. TypeOK /\ Shape /\ Count
  BY DEF IInv
<1>2. /\ mServices /\ mServices' /\ spent' /\ Pack(p) /\ uncounted' = (uncounted \/ spent)
      /\ UNCHANGED <<stub, mRef, pc, conns, refs, m_cSocketfd, lost>>
  BY DEF GetService, home, clients
<1>3. Known' /\ (stub = "live" => mRef > 0)
  BY <1>1, <1>2, KnownUnmoved DEF Shape, Pristine
<1>4. /\ One(mServices /\ ~spent)' = 0 /\ One(mServices /\ ~spent) = IF spent THEN 0 ELSE 1
      /\ IsFiniteSet(InTransit)' /\ Cardinality(InTransit)' = Cardinality(InTransit) + 1
  BY <1>1, <1>2, PackSent DEF One
<1>5. /\ Firm' = IF spent THEN Firm + 1 ELSE Firm
      /\ Firm \in Nat /\ Cardinality(Found) \in Nat /\ mRef \in Nat
  <2>1. /\ Cardinality(Holding)' = Cardinality(Holding)
        /\ Cardinality(Users)' = Cardinality(Users)
        /\ Cardinality(Owed)' = Cardinality(Owed)
    BY <1>2, Unmoved
  <2>2. /\ Firm \in Nat /\ mRef \in Nat
        /\ Cardinality(Holding) \in Nat /\ Cardinality(Found) \in Nat
        /\ Cardinality(InTransit) \in Nat /\ Cardinality(Users) \in Nat
        /\ Cardinality(Owed) \in Nat /\ One(mServices /\ ~spent) \in {0, 1}
    BY <1>1, CountTypes DEF TypeOK
  <2> QED
    BY <2>1, <2>2, <1>2, <1>4, FirmIs
<1>6. Shape'
  BY <1>1, <1>2, <1>3, <1>4, WiresKept DEF Shape
<1>7. Cardinality(Found)' = Cardinality(Found) /\ (Creating' <=> Creating)
  BY <1>2, Unmoved
<1> QED
  <2>1. ASSUME stub = "live" PROVE Count'
    <3>1. /\ Firm \in Nat /\ Cardinality(Found) \in Nat /\ mRef \in Nat /\ mRef > 0
      BY <1>1, <1>3, <2>1, CountTypes
    <3>4. /\ stub' = "live" /\ mRef' = mRef
          /\ Cardinality(Found)' = Cardinality(Found) /\ (Creating' => Creating)
          /\ (lost => lost') /\ (uncounted => uncounted')
      BY <1>2, <1>7, <2>1
    <3>5. PICK f \in Int : Firm' = f /\ f = IF spent THEN Firm + 1 ELSE Firm
      BY <1>5, <3>1
    <3>6. spent => uncounted'
      BY <1>2, Zenon
    <3>7. f = Firm \/ (f <= Firm /\ lost') \/ (f >= Firm /\ uncounted')
      BY <3>1, <3>5, <3>6
    <3> QED
      BY <1>1, <1>2, <2>1, <3>1, <3>4, <3>5, <3>7, CountKept
  <2> QED
    BY <1>6, <2>1

LEMMA ForwardKeeps ==
    ASSUME IInv, TypeOK', NEW c \in Clients, NEW p \in Processes, Forward(c, p)
    PROVE  Shape' /\ (stub = "live" => Count')
<1>1. TypeOK /\ Shape /\ Count
  BY DEF IInv
<1>2. /\ refs[c] > 0 /\ Pack(p) /\ uncounted'
      /\ UNCHANGED <<stub, mRef, pc, conns, mServices, spent, refs, m_cSocketfd, lost>>
  BY DEF Forward, home, clients, directory
<1>3. Known' /\ (stub = "live" => mRef > 0)
  BY <1>1, <1>2, KnownUnmoved DEF Shape, Pristine
<1>4. IsFiniteSet(InTransit)' /\ Cardinality(InTransit)' = Cardinality(InTransit) + 1
  BY <1>1, <1>2, PackSent
<1>5. /\ Firm' = Firm + 1
      /\ Firm \in Nat /\ Cardinality(Found) \in Nat /\ mRef \in Nat
  <2>1. /\ Cardinality(Holding)' = Cardinality(Holding)
        /\ Cardinality(Users)' = Cardinality(Users)
        /\ Cardinality(Owed)' = Cardinality(Owed)
        /\ One(mServices /\ ~spent)' = One(mServices /\ ~spent)
    BY <1>2, Unmoved
  <2>2. /\ Firm \in Nat /\ mRef \in Nat
        /\ Cardinality(Holding) \in Nat /\ Cardinality(Found) \in Nat
        /\ Cardinality(InTransit) \in Nat /\ Cardinality(Users) \in Nat
        /\ Cardinality(Owed) \in Nat /\ One(mServices /\ ~spent) \in {0, 1}
    BY <1>1, CountTypes DEF TypeOK
  <2> QED
    BY <2>1, <2>2, <1>4, FirmIs
<1>6. Shape'
  BY <1>1, <1>2, <1>3, <1>4, WiresKept DEF Shape
<1>7. Cardinality(Found)' = Cardinality(Found) /\ (Creating' <=> Creating)
  BY <1>2, Unmoved
<1> QED
  <2>1. ASSUME stub = "live" PROVE Count'
    <3>1. /\ Firm \in Nat /\ Cardinality(Found) \in Nat /\ mRef \in Nat /\ mRef > 0
      BY <1>1, <1>3, <2>1, CountTypes
    <3> QED
      BY <1>1, <1>2, <1>3, <1>5, <1>7, <2>1, <3>1, CountKept
  <2> QED
    BY <1>6, <2>1
-----------------------------------------------------------------------------
LEMMA UnmarshalKeeps ==
    ASSUME IInv, TypeOK', NEW c \in Clients, Unmarshal(c)
    PROVE  Shape' /\ (stub = "live" => Count')
<1>1. TypeOK /\ Shape /\ Count
  BY DEF IInv
<1>2. /\ packs[c] > 0 /\ packs' = [packs EXCEPT ![c] = @ - 1] /\ c \in Processes
      /\ refs' = [refs EXCEPT ![c] = refs[c] + 1] /\ lost' = (lost \/ refs[c] > 0)
      /\ UNCHANGED <<stub, mRef, pc, conns, mServices, spent, m_cSocketfd, uncounted>>
  BY DEF Unmarshal, home, directory, Processes
<1>3. Known' /\ (stub = "live" => mRef > 0)
  BY <1>1, <1>2, KnownUnmoved DEF Shape, Pristine
<1>4. refs[c] \in Nat /\ \A d \in Clients : refs'[d] >= refs[d] /\ refs[d] \in Nat /\ refs'[d] \in Nat
  BY <1>1, <1>2 DEF TypeOK
<1>5. IsFiniteSet(InTransit)' /\ Cardinality(InTransit)' = Cardinality(InTransit) - 1
  BY <1>1, <1>2, PackReceived, Zenon
<1>6. Cardinality(Users)' = IF refs[c] > 0 THEN Cardinality(Users) ELSE Cardinality(Users) + 1
  <2>1. Cardinality(Users)' = Cardinality(Users) + One(refs[c] + 1 > 0) - One(refs[c] > 0)
    BY <1>1, <1>2, UserMoves, Zenon
  <2> QED
    BY <1>1, <1>4, <2>1, CountTypes DEF One
<1>7. /\ Firm' = IF refs[c] > 0 THEN Firm - 1 ELSE Firm
      /\ Firm \in Nat
  <2>1. /\ Cardinality(Holding)' = Cardinality(Holding)
        /\ Cardinality(Owed)' = Cardinality(Owed)
        /\ One(mServices /\ ~spent)' = One(mServices /\ ~spent)
    BY <1>2, Unmoved
  <2>2. /\ Firm \in Nat /\ Cardinality(Holding) \in Nat
        /\ Cardinality(InTransit) \in Nat /\ Cardinality(Users) \in Nat
        /\ Cardinality(Owed) \in Nat /\ One(mServices /\ ~spent) \in {0, 1}
    BY <1>1, CountTypes
  <2> QED
    BY <2>1, <2>2, <1>5, <1>6, FirmIs
<1>8. Shape'
  <2>1. \A d \in Clients : refs[d] > 0 => refs'[d] > 0
    BY <1>4
  <2> QED
    BY <1>1, <1>2, <1>3, <1>5, <2>1, WiresKept DEF Shape
<1>9. ASSUME stub = "live" PROVE Count'
  <2>1. /\ stub' = "live" /\ mRef' = mRef /\ mRef > 0
        /\ Cardinality(Found)' = Cardinality(Found) /\ (Creating' => Creating)
        /\ (lost => lost') /\ (uncounted => uncounted')
    BY <1>2, <1>3, <1>9, Unmoved
  <2>2. PICK f \in Int : Firm' = f /\ f = IF refs[c] > 0 THEN Firm - 1 ELSE Firm
    BY <1>7
  <2>3. refs[c] > 0 => lost'
    BY <1>2, Zenon
  <2>4. f = Firm \/ (f <= Firm /\ lost') \/ (f >= Firm /\ uncounted')
    BY <1>7, <2>2, <2>3
  <2> QED
    BY <1>1, <1>2, <1>9, <2>1, <2>2, <2>4, CountKept
<1> QED
  BY <1>8, <1>9

LEMMA UnmarshalFailsKeeps ==
    ASSUME IInv, TypeOK', NEW c \in Clients, UnmarshalFails(c)
    PROVE  Shape' /\ (stub = "live" => Count')
<1>1. TypeOK /\ Shape /\ Count
  BY DEF IInv
<1>2. /\ packs[c] > 0 /\ packs' = [packs EXCEPT ![c] = @ - 1] /\ c \in Processes /\ lost'
      /\ UNCHANGED <<stub, mRef, pc, conns, mServices, spent, refs, m_cSocketfd, uncounted>>
  BY DEF UnmarshalFails, home, clients, directory, Processes
<1>3. Known' /\ (stub = "live" => mRef > 0)
  BY <1>1, <1>2, KnownUnmoved DEF Shape, Pristine
<1>4. IsFiniteSet(InTransit)' /\ Cardinality(InTransit)' = Cardinality(InTransit) - 1
  BY <1>1, <1>2, PackReceived, Zenon
<1>5. Firm' = Firm - 1 /\ Firm \in Nat
  <2>1. /\ Cardinality(Holding)' = Cardinality(Holding)
        /\ Cardinality(Users)' = Cardinality(Users)
        /\ Cardinality(Owed)' = Cardinality(Owed)
        /\ One(mServices /\ ~spent)' = One(mServices /\ ~spent)
    BY <1>2, Unmoved
  <2>2. /\ Firm \in Nat /\ Cardinality(Holding) \in Nat
        /\ Cardinality(InTransit) \in Nat /\ Cardinality(Users) \in Nat
        /\ Cardinality(Owed) \in Nat /\ One(mServices /\ ~spent) \in {0, 1}
    BY <1>1, CountTypes
  <2> QED
    BY <2>1, <2>2, <1>4, FirmIs
<1>6. Shape'
  BY <1>1, <1>2, <1>3, <1>4, WiresKept DEF Shape
<1>7. ASSUME stub = "live" PROVE Count'
  <2>1. /\ stub' = "live" /\ mRef' = mRef /\ mRef > 0
        /\ Cardinality(Found)' = Cardinality(Found) /\ (Creating' => Creating)
        /\ (lost => lost') /\ (uncounted => uncounted')
    BY <1>2, <1>3, <1>7, Unmoved
  <2>2. PICK f \in Int : Firm' = f /\ f = Firm - 1
    BY <1>5
  <2>3. f <= Firm /\ lost'
    BY <1>2, <1>5, <2>2
  <2> QED
    BY <1>1, <1>2, <1>7, <2>1, <2>2, <2>3, CountKept
<1> QED
  BY <1>6, <1>7

(* The calls of a client that dies are nobody's.                           *)
LEMMA ClientDiesKeeps ==
    ASSUME IInv, TypeOK', NEW c \in Clients, ClientDies(c)
    PROVE  Shape' /\ (stub = "live" => Count')
<1> DEFINE k == m_cSocketfd[c]
<1>1. TypeOK /\ Shape /\ Count
  BY DEF IInv
<1>2. /\ refs[c] > 0 \/ packs[c] > 0
      /\ refs' = [refs EXCEPT ![c] = 0] /\ m_cSocketfd' = [m_cSocketfd EXCEPT ![c] = 0]
      /\ packs' = [packs EXCEPT ![c] = 0] /\ lost' /\ c \in Processes
      /\ UNCHANGED <<stub, mRef, pc, conns, mServices, spent, uncounted>>
  BY DEF ClientDies, home, directory, Processes
<1>3. Known' /\ (stub = "live" => mRef > 0)
  BY <1>1, <1>2, KnownUnmoved DEF Shape, Pristine
<1>4. /\ \A d \in Clients : refs'[d] = IF d = c THEN 0 ELSE refs[d]
      /\ \A d \in Clients : m_cSocketfd'[d] = IF d = c THEN 0 ELSE m_cSocketfd[d]
      /\ \A p \in Processes : packs[p] \in Nat /\ packs'[p] = IF p = c THEN 0 ELSE packs[p]
      /\ DOMAIN conns = 1 .. Len(conns) /\ refs[c] \in Nat
  BY <1>1, <1>2 DEF TypeOK
<1>5. IsFiniteSet(InTransit)' /\ Cardinality(InTransit)' <= Cardinality(InTransit)
  <2>1. InTransit' \subseteq InTransit
    BY <1>4 DEF InTransit
  <2> QED
    BY <1>1, <2>1, CountTypes, FS_Subset
<1>6. Cardinality(Users)' = Cardinality(Users) - One(refs[c] > 0)
  <2>1. Cardinality(Users)' = Cardinality(Users) + One(0 > 0) - One(refs[c] > 0)
    BY <1>1, <1>2, UserMoves, Zenon
  <2> QED
    BY <1>1, <2>1, CountTypes DEF One
<1>7. Cardinality(Owed)' \in Int /\ Cardinality(Owed)' <= Cardinality(Owed) + One(refs[c] > 0)
  <2>1. Owed' \ {k} = Owed \ {k}
    BY <1>2, <1>4 DEF Owed, Orphan
  <2>2. Cardinality(Owed)' = Cardinality(Owed) + One(k \in Owed') - One(k \in Owed)
    BY <1>1, <2>1, OwedMoves
  <2>3. k \in Owed' => refs[c] > 0
    <3>1. k \in Owed' => k # 0
      BY <1>2, <1>4 DEF Owed
    <3> QED
      BY <1>1, <3>1 DEF Shape, Wires
  <2> QED
    BY <1>1, <2>2, <2>3, CountTypes DEF One
<1>8. Firm \in Nat /\ Firm' <= Firm /\ Firm' \in Int
  <2>1. /\ Cardinality(Holding)' = Cardinality(Holding)
        /\ One(mServices /\ ~spent)' = One(mServices /\ ~spent)
    BY <1>2, Unmoved
  <2>2. /\ Firm \in Nat /\ Cardinality(Holding) \in Nat
        /\ Cardinality(InTransit) \in Nat /\ Cardinality(Users) \in Nat
        /\ Cardinality(Owed) \in Nat /\ One(mServices /\ ~spent) \in {0, 1}
    BY <1>1, CountTypes
  <2>3. PICK x \in Int : x = One(refs[c] > 0)
    BY DEF One
  <2>4. PICK i \in Int : i = Cardinality(InTransit)' /\ i <= Cardinality(InTransit)
    BY <1>5, FS_CardinalityType
  <2>5. PICK o \in Int : o = Cardinality(Owed)' /\ o <= Cardinality(Owed) + x
    BY <1>7, <2>3
  <2>6. Firm' = Cardinality(Holding) + i + (Cardinality(Users) - x) + o + One(mServices /\ ~spent)
    BY <2>1, <2>3, <2>4, <2>5, <1>6, FirmIs
  <2>7. PICK f \in Int : f = Firm' /\ f <= Firm
    BY <2>2, <2>4, <2>5, <2>6, FirmIs
  <2> QED
    BY <2>2, <2>7
<1>9. Shape'
  <2>1. Wires'
    BY <1>1, <1>2, <1>4 DEF Shape, Wires
  <2> QED
    BY <1>3, <1>5, <2>1 DEF Shape
<1>10. ASSUME stub = "live" PROVE Count'
  <2>1. /\ stub' = "live" /\ mRef' = mRef /\ mRef > 0
        /\ Cardinality(Found)' = Cardinality(Found) /\ (Creating' => Creating)
        /\ (lost => lost') /\ (uncounted => uncounted')
    BY <1>2, <1>3, <1>10, Unmoved
  <2>2. PICK f \in Int : Firm' = f
    BY <1>8
  <2>3. f <= Firm /\ lost'
    BY <1>2, <1>8, <2>2
  <2> QED
    BY <1>1, <1>2, <1>10, <2>1, <2>2, <2>3, CountKept
<1> QED
  BY <1>9, <1>10
-----------------------------------------------------------------------------
(* A connection that gets no RELEASE, and a call only from its client or   *)
(* from itself.                                                            *)
LEMMA SetWires ==
    ASSUME TypeOK, Shape, NEW k \in DOMAIN conns, NEW state \in {"idle"} \cup OnTheWay \cup Tasks,
           Set(k, state), UNCHANGED <<stub, refs, m_cSocketfd, lost>>,
           state \in Releases => conns[k].at \in Releases,
           state \in Calls => conns[k].at \in Calls \/ \E c \in Clients : m_cSocketfd[c] = k
    PROVE  Wires' /\ Owed' \ {k} = Owed \ {k}
<1>1. /\ DOMAIN conns' = DOMAIN conns
      /\ conns'[k].at = state /\ conns'[k].client = conns[k].client
      /\ \A j \in DOMAIN conns : j # k => conns'[j] = conns[j]
  BY SetKeeps
<1>2. \A c \in Clients : m_cSocketfd[c] # 0 => m_cSocketfd[c] \in DOMAIN conns
  BY DEF TypeOK
<1>3. \A j \in DOMAIN conns : j # k => (Orphan(j)' <=> Orphan(j))
  BY <1>1 DEF Orphan
<1>4. Orphan(k)' => Orphan(k)
  BY <1>1 DEF Orphan
<1>5. Owed' \ {k} = Owed \ {k}
  BY <1>1, <1>3 DEF Owed
<1>6. ASSUME NEW c \in Clients, m_cSocketfd[c] # 0
      PROVE  /\ refs[c] > 0 /\ conns'[m_cSocketfd[c]].client = c
             /\ conns'[m_cSocketfd[c]].at \notin Releases
  BY <1>1, <1>2, <1>6 DEF Shape, Wires
<1>7. ASSUME NEW j \in DOMAIN conns
      PROVE  /\ conns'[j].at = "closed" => stub = "deleted"
             /\ Orphan(j)' => lost
  <2>1. state # "closed"
    BY DEF OnTheWay, Tasks
  <2> QED
    BY <1>1, <1>3, <1>4, <2>1 DEF Shape, Wires
<1>8. Wires'
  BY <1>1, <1>6, <1>7 DEF Wires
<1> QED
  BY <1>5, <1>8

(* Such a step of a known stub, when it leaves what is owed alone.         *)
LEMMA SetKeepsAll ==
    ASSUME IInv, Wires', DOMAIN conns # {}, Cardinality(Owed)' = Cardinality(Owed),
           UNCHANGED <<home, pc, packs, directory, clients, history>>
    PROVE  Shape' /\ (stub = "live" => Count')
<1>1. TypeOK /\ Shape /\ Count
  BY DEF IInv
<1>2. UNCHANGED <<stub, mRef, pc, packs, mServices, spent, refs, uncounted, lost>>
  BY DEF home, directory, clients, history
<1>3. ~Pristine
  BY DEF Pristine
<1>4. Known' /\ (stub = "live" => mRef > 0)
  BY <1>1, <1>2, <1>3, KnownUnmoved DEF Shape
<1>5. Shape'
  BY <1>1, <1>2, <1>4, Unmoved DEF Shape
<1>6. ASSUME stub = "live" PROVE Count'
  <2>1. /\ stub' = "live" /\ mRef' = mRef /\ mRef > 0
        /\ Cardinality(Found)' = Cardinality(Found) /\ (Creating' => Creating)
        /\ (lost => lost') /\ (uncounted => uncounted')
    BY <1>2, <1>4, <1>6, Unmoved
  <2>2. Firm' = Firm /\ Firm \in Int
    BY <1>1, <1>2, Unmoved, FirmIs, CountTypes
  <2> QED
    BY <1>1, <1>2, <1>6, <2>1, <2>2, CountKept
<1> QED
  BY <1>5, <1>6

LEMMA CallKeeps ==
    ASSUME IInv, TypeOK', NEW c \in Clients, Call(c)
    PROVE  Shape' /\ (stub = "live" => Count')
<1> DEFINE k == m_cSocketfd[c]
<1>1. TypeOK /\ Shape /\ Count
  BY DEF IInv
<1>2. /\ k # 0 /\ conns[k].at = "idle" /\ Set(k, "call")
      /\ UNCHANGED <<home, pc, packs, directory, clients, history>>
      /\ UNCHANGED <<stub, refs, m_cSocketfd, lost>>
  BY DEF Call, home, clients, history
<1>3. k \in DOMAIN conns
  BY <1>1, <1>2 DEF TypeOK
<1>4. "call" \in OnTheWay /\ "call" \notin Releases /\ "idle" \notin Releases \cup Calls
  BY DEF OnTheWay, Releases, Calls
<1>5. Wires' /\ Owed' \ {k} = Owed \ {k}
  BY <1>1, <1>2, <1>3, <1>4, SetWires
<1>6. k \notin Owed /\ k \notin Owed'
  <2>1. conns'[k].at = "call"
    BY <1>1, <1>2, <1>3, <1>4, SetKeeps
  <2> QED
    BY <1>2, <1>4, <2>1 DEF Owed, Orphan
<1>7. Cardinality(Owed)' = Cardinality(Owed)
  <2>1. Owed' = Owed
    BY <1>5, <1>6
  <2> QED
    BY <2>1
<1> QED
  BY <1>2, <1>3, <1>5, <1>7, SetKeepsAll

LEMMA AcceptCallbackKeeps ==
    ASSUME IInv, TypeOK', NEW k \in DOMAIN conns, AcceptCallback(k)
    PROVE  Shape' /\ (stub = "live" => Count')
<1> DEFINE state == IF conns[k].at = "call" THEN "call_task" ELSE "release_task"
<1>1. TypeOK /\ Shape /\ Count
  BY DEF IInv
<1>2. /\ conns[k].at \in OnTheWay /\ Set(k, state)
      /\ UNCHANGED <<home, pc, packs, directory, clients, history>>
      /\ UNCHANGED <<stub, refs, m_cSocketfd, lost>>
  BY DEF AcceptCallback, home, clients, history
<1>3. /\ state \in Tasks
      /\ state \in Releases <=> conns[k].at \in Releases
      /\ state \in Calls <=> conns[k].at \in Calls
  BY <1>2 DEF OnTheWay, Tasks, Releases, Calls
<1>4. Wires' /\ Owed' \ {k} = Owed \ {k}
  BY <1>1, <1>2, <1>3, SetWires
<1>5. k \in Owed' <=> k \in Owed
  <2>1. conns'[k].at = state /\ DOMAIN conns' = DOMAIN conns
    BY <1>1, <1>2, <1>3, SetKeeps
  <2> QED
    BY <1>2, <1>3, <2>1 DEF Owed, Orphan
<1>6. Cardinality(Owed)' = Cardinality(Owed)
  <2>1. Owed' = Owed
    BY <1>4, <1>5
  <2> QED
    BY <2>1
<1> QED
  BY <1>2, <1>4, <1>6, SetKeepsAll

LEMMA TransactKeeps ==
    ASSUME IInv, TypeOK', NEW k \in DOMAIN conns, Transact(k)
    PROVE  Shape' /\ (stub = "live" => Count')
<1>1. TypeOK /\ Shape /\ Count
  BY DEF IInv
<1>2. /\ conns[k].at = "call_task" /\ stub = "live" /\ Set(k, "idle")
      /\ UNCHANGED <<stub, mRef, pc, packs, mServices, spent, refs, m_cSocketfd, uncounted, lost>>
  BY DEF Transact, home, clients, directory, history
<1>3. "idle" \notin Releases \cup Calls /\ "call_task" \in Calls /\ "call_task" \notin Releases
  BY DEF Releases, Calls
<1>4. Wires' /\ Owed' \ {k} = Owed \ {k}
  BY <1>1, <1>2, <1>3, SetWires
<1>5. k \notin Owed' /\ (k \in Owed <=> Orphan(k))
  <2>1. conns'[k].at = "idle" /\ DOMAIN conns' = DOMAIN conns
    BY <1>1, <1>2, <1>3, SetKeeps
  <2> QED
    BY <1>2, <1>3, <2>1 DEF Owed, Orphan
<1>6. Cardinality(Owed)' = Cardinality(Owed) - One(k \in Owed)
  <2>1. Cardinality(Owed)' = Cardinality(Owed) + One(k \in Owed') - One(k \in Owed)
    BY <1>1, <1>4, OwedMoves
  <2> QED
    BY <1>1, <1>5, <2>1, CountTypes DEF One
<1>7. Known' /\ mRef > 0
  <2>1. ~Pristine
    BY DEF Pristine
  <2> QED
    BY <1>1, <1>2, <2>1, KnownUnmoved DEF Shape
<1>8. Shape'
  BY <1>1, <1>2, <1>4, <1>7, Unmoved DEF Shape
<1>9. Firm' = Firm - One(k \in Owed) /\ Firm \in Nat
  <2>1. /\ Cardinality(Holding)' = Cardinality(Holding)
        /\ Cardinality(InTransit)' = Cardinality(InTransit)
        /\ Cardinality(Users)' = Cardinality(Users)
        /\ One(mServices /\ ~spent)' = One(mServices /\ ~spent)
    BY <1>2, Unmoved
  <2>2. /\ Firm \in Nat /\ Cardinality(Holding) \in Nat
        /\ Cardinality(InTransit) \in Nat /\ Cardinality(Users) \in Nat
        /\ Cardinality(Owed) \in Nat /\ One(mServices /\ ~spent) \in {0, 1}
    BY <1>1, CountTypes
  <2>3. One(k \in Owed) \in {0, 1}
    BY DEF One
  <2> QED
    BY <2>1, <2>2, <2>3, <1>6, FirmIs
<1>10. Count'
  <2>1. /\ stub' = "live" /\ mRef' = mRef /\ mRef > 0
        /\ Cardinality(Found)' = Cardinality(Found) /\ (Creating' => Creating)
        /\ (lost => lost') /\ (uncounted => uncounted')
    BY <1>2, <1>7, Unmoved
  <2>2. PICK f \in Int : Firm' = f /\ f = Firm - One(k \in Owed)
    BY <1>9 DEF One
  <2>3. k \in Owed => lost'
    BY <1>1, <1>2, <1>5 DEF Shape, Wires
  <2>4. f = Firm \/ (f <= Firm /\ lost')
    BY <1>9, <2>2, <2>3 DEF One
  <2> QED
    BY <1>1, <1>2, <2>1, <2>2, <2>4, CountKept
<1> QED
  BY <1>8, <1>10

LEMMA ConnectKeeps ==
    ASSUME IInv, TypeOK', NEW c \in Clients, Connect(c)
    PROVE  Shape' /\ (stub = "live" => Count')
<1>1. TypeOK /\ Shape /\ Count
  BY DEF IInv
<1>n. PICK n \in Int : n = Len(conns) + 1
  BY <1>1, ConnectAppends
<1>2. /\ refs[c] > 0 /\ m_cSocketfd[c] = 0 /\ stub = "live"
      /\ m_cSocketfd' = [m_cSocketfd EXCEPT ![c] = n]
      /\ UNCHANGED <<stub, mRef, pc, packs, mServices, spent, refs, uncounted, lost>>
  BY <1>n DEF Connect, directory, history
<1>3. /\ Len(conns) \in Nat
      /\ conns'[n].client = c /\ conns'[n].at = "call"
      /\ \A j \in DOMAIN conns : j \in DOMAIN conns' /\ conns'[j] = conns[j]
      /\ DOMAIN conns = 1 .. Len(conns) /\ DOMAIN conns' = 1 .. n
  <2>1. /\ Len(conns) \in Nat
        /\ conns'[n] = [client |-> c, at |-> "call"]
        /\ \A j \in DOMAIN conns : j \in DOMAIN conns' /\ conns'[j] = conns[j]
        /\ DOMAIN conns = 1 .. Len(conns) /\ DOMAIN conns' = 1 .. n
    BY <1>1, <1>n, ConnectAppends
  <2> QED
    BY <2>1
<1>4. \A d \in Clients : /\ m_cSocketfd[d] \in 0 .. Len(conns)
                         /\ m_cSocketfd'[d] = IF d = c THEN n ELSE m_cSocketfd[d]
  BY <1>1, <1>2 DEF TypeOK
<1>5. \A j \in DOMAIN conns : Orphan(j)' <=> Orphan(j)
  BY <1>n, <1>2, <1>3, <1>4 DEF Orphan
<1>6. ~Orphan(n)' /\ conns'[n].at \notin Releases \cup {"closed"}
  BY <1>n, <1>3, <1>4 DEF Orphan, Releases
<1>7. Cardinality(Owed)' = Cardinality(Owed)
  <2>1. \A j : j \in DOMAIN conns' <=> j \in DOMAIN conns \/ j = n
    BY <1>n, <1>3
  <2>2. Owed' = Owed
    BY <1>3, <1>5, <1>6, <2>1 DEF Owed
  <2> QED
    BY <2>2
<1>8. Known' /\ mRef > 0
  BY <1>1, <1>2, KnownUnmoved DEF Shape, Pristine
<1>9. Shape'
  <2>1. ASSUME NEW d \in Clients, m_cSocketfd'[d] # 0
        PROVE  /\ refs[d] > 0 /\ conns'[m_cSocketfd'[d]].client = d
               /\ conns'[m_cSocketfd'[d]].at \notin Releases
    <3>1. CASE d = c
      BY <1>2, <1>3, <1>4, <1>6, <3>1
    <3>2. CASE d # c
      <4>1. m_cSocketfd'[d] = m_cSocketfd[d] /\ m_cSocketfd[d] \in DOMAIN conns
        BY <1>3, <1>4, <2>1, <3>2
      <4> QED
        BY <1>1, <1>3, <2>1, <4>1 DEF Shape, Wires
    <3> QED
      BY <3>1, <3>2
  <2>2. ASSUME NEW j \in DOMAIN conns'
        PROVE  conns'[j].at # "closed" /\ (Orphan(j)' => lost)
    <3>1. CASE j = n
      BY <1>6, <3>1
    <3>2. CASE j # n
      <4>1. j \in DOMAIN conns
        BY <1>n, <1>3, <2>2, <3>2
      <4> QED
        BY <1>1, <1>2, <1>3, <1>5, <4>1 DEF Shape, Wires
    <3> QED
      BY <3>1, <3>2
  <2>3. Wires'
    BY <1>2, <2>1, <2>2 DEF Wires
  <2> QED
    BY <1>1, <1>2, <1>8, <2>3, Unmoved DEF Shape
<1>10. Count'
  <2>1. /\ stub' = "live" /\ mRef' = mRef /\ mRef > 0
        /\ Cardinality(Found)' = Cardinality(Found) /\ (Creating' => Creating)
        /\ (lost => lost') /\ (uncounted => uncounted')
    BY <1>2, <1>8, Unmoved
  <2>2. Firm' = Firm /\ Firm \in Int
    BY <1>1, <1>2, <1>7, Unmoved, FirmIs, CountTypes
  <2> QED
    BY <1>1, <1>2, <2>1, <2>2, CountKept
<1> QED
  BY <1>9, <1>10

(* The reference of a proxy goes with its RELEASE.                         *)
LEMMA ReleaseKeeps ==
    ASSUME IInv, TypeOK', NEW c \in Clients, Release(c)
    PROVE  Shape' /\ (stub = "live" => Count')
<1>1. TypeOK /\ Shape /\ Count
  BY DEF IInv
<1>k. PICK k : k = m_cSocketfd[c]
  OBVIOUS
<1>2. /\ refs[c] > 0 /\ refs' = [refs EXCEPT ![c] = refs[c] - 1]
      /\ UNCHANGED <<stub, mRef, pc, packs, mServices, spent, uncounted>>
  BY DEF Release, home, directory
<1>3. Known' /\ (stub = "live" => mRef > 0)
  BY <1>1, <1>2, KnownUnmoved DEF Shape, Pristine
<1>4. /\ refs[c] \in Nat
      /\ \A d \in Clients : refs'[d] = IF d = c THEN refs[c] - 1 ELSE refs[d]
      /\ DOMAIN conns = 1 .. Len(conns) /\ k \in 0 .. Len(conns)
  BY <1>1, <1>k, <1>2 DEF TypeOK
<1>5. Cardinality(Users)' = IF refs[c] = 1 THEN Cardinality(Users) - 1 ELSE Cardinality(Users)
  <2>1. Cardinality(Users)' = Cardinality(Users) + One(refs[c] - 1 > 0) - One(refs[c] > 0)
    BY <1>1, <1>2, UserMoves, Zenon
  <2> QED
    BY <1>1, <1>2, <1>4, <2>1, CountTypes DEF One
<1>6. /\ Wires' /\ (lost => lost')
      /\ \/ refs[c] # 1 /\ Cardinality(Owed)' = Cardinality(Owed)
         \/ refs[c] = 1 /\ Cardinality(Owed)' = Cardinality(Owed) + 1
         \/ refs[c] = 1 /\ Cardinality(Owed)' = Cardinality(Owed) /\ (lost' \/ stub # "live")
  <2>1. CASE refs[c] > 1
    <3>1. UNCHANGED <<conns, m_cSocketfd, lost>>
      BY <2>1 DEF Release
    <3>2. \A d \in Clients : refs[d] > 0 => refs'[d] > 0
      BY <1>4, <2>1
    <3> QED
      BY <1>1, <1>2, <2>1, <3>1, <3>2, WiresKept, Unmoved DEF Shape
  <2>2. CASE refs[c] = 1 /\ k = 0
    <3>1. lost' /\ UNCHANGED conns /\ m_cSocketfd' = [m_cSocketfd EXCEPT ![c] = 0]
      <4>1. ~(refs[c] > 1) /\ m_cSocketfd[c] = 0
        BY <1>k, <2>2
      <4> QED
        BY <4>1, Zenon DEF Release
    <3>2. m_cSocketfd' = m_cSocketfd
      BY <1>1, <1>k, <2>2, <3>1 DEF TypeOK
    <3>3. Wires'
      BY <1>k, <1>1, <1>2, <1>4, <2>2, <3>1, <3>2 DEF Shape, Wires
    <3> QED
      BY <2>2, <3>1, <3>2, <3>3, Unmoved
  <2>3. CASE refs[c] = 1 /\ k # 0
    <3>1. /\ m_cSocketfd' = [m_cSocketfd EXCEPT ![c] = 0] /\ (lost => lost') /\ ~Calling(c)
          /\ IF conns[k].at = "idle" THEN Set(k, "release") ELSE UNCHANGED conns
      <4>1. ~(refs[c] > 1) /\ m_cSocketfd[c] = k /\ m_cSocketfd[c] # 0
        BY <1>k, <2>3
      <4> QED
        BY <4>1, Zenon DEF Release
    <3>2. /\ k \in DOMAIN conns /\ conns[k].at \notin Releases \cup Calls
          /\ conns[k].client = c /\ refs[c] > 0
      BY <1>k, <1>1, <1>2, <1>4, <2>3, <3>1 DEF Shape, Wires, Calling, Calls, Releases
    <3>3. \A d \in Clients : m_cSocketfd'[d] = IF d = c THEN 0 ELSE m_cSocketfd[d]
      BY <1>1, <1>k, <3>1 DEF TypeOK
    <3>4. \A d \in Clients \ {c} : m_cSocketfd[d] # k
      BY <1>1, <1>k, <2>3, <3>2 DEF Shape, Wires
    <3>5. k \notin Owed
      BY <3>2 DEF Owed, Orphan
    <3>6. \A d \in Clients : m_cSocketfd[d] # 0 => m_cSocketfd[d] \in DOMAIN conns
      BY <1>1 DEF TypeOK
    <3>7. CASE conns[k].at = "idle"
      <4>1. "release" \in OnTheWay /\ "release" \in Releases /\ "release" \notin Calls
        BY DEF OnTheWay, Releases, Calls
      <4>2. /\ DOMAIN conns' = DOMAIN conns
            /\ conns'[k].at = "release" /\ conns'[k].client = conns[k].client
            /\ \A j \in DOMAIN conns : j # k => conns'[j] = conns[j]
        BY <1>1, <3>1, <3>2, <3>7, <4>1, SetKeeps
      <4>3. \A j \in DOMAIN conns : j # k => (Orphan(j)' <=> Orphan(j))
        BY <1>k, <1>4, <3>2, <3>3, <4>2 DEF Orphan
      <4>4. ~Orphan(k)' /\ conns'[k].at # "closed"
        BY <4>1, <4>2 DEF Orphan
      <4>5. Owed' \ {k} = Owed \ {k} /\ k \in Owed'
        BY <3>2, <4>1, <4>2, <4>3 DEF Owed
      <4>6. Cardinality(Owed)' = Cardinality(Owed) + 1
        <5>1. Cardinality(Owed)' = Cardinality(Owed) + One(k \in Owed') - One(k \in Owed)
          BY <1>1, <4>5, OwedMoves
        <5> QED
          BY <1>1, <3>5, <4>5, <5>1, CountTypes DEF One
      <4>7. ASSUME NEW d \in Clients, m_cSocketfd'[d] # 0
            PROVE  /\ refs'[d] > 0 /\ conns'[m_cSocketfd'[d]].client = d
                   /\ conns'[m_cSocketfd'[d]].at \notin Releases
        <5>1. d # c /\ m_cSocketfd'[d] = m_cSocketfd[d] /\ refs'[d] = refs[d]
          BY <1>4, <3>3, <4>7
        <5>2. m_cSocketfd[d] \in DOMAIN conns /\ m_cSocketfd[d] # k
          BY <3>4, <3>6, <4>7, <5>1
        <5> QED
          BY <1>1, <4>2, <4>7, <5>1, <5>2 DEF Shape, Wires
      <4>8. ASSUME NEW j \in DOMAIN conns'
            PROVE  (conns'[j].at = "closed" => stub' = "deleted") /\ (Orphan(j)' => lost')
        <5>1. CASE j = k
          BY <4>4, <5>1
        <5>2. CASE j # k
          BY <1>1, <1>2, <3>1, <4>2, <4>3, <4>8, <5>2 DEF Shape, Wires
        <5> QED
          BY <5>1, <5>2
      <4>9. Wires'
        BY <4>7, <4>8 DEF Wires
      <4> QED
        BY <2>3, <3>1, <4>6, <4>9
    <3>8. CASE conns[k].at # "idle"
      <4>1. stub = "deleted"
        <5>1. conns[k] \in Connection
          BY <1>1, <3>2 DEF TypeOK
        <5>2. conns[k].at = "closed"
          BY <3>2, <3>8, <5>1 DEF Connection, OnTheWay, Tasks, Releases, Calls
        <5> QED
          BY <1>1, <3>2, <5>2 DEF Shape, Wires
      <4>2. UNCHANGED conns /\ \A j \in DOMAIN conns : Orphan(j)' <=> Orphan(j)
        BY <1>k, <1>4, <3>1, <3>2, <3>3, <3>8 DEF Orphan
      <4>3. Cardinality(Owed)' = Cardinality(Owed)
        <5>1. Owed' = Owed
          BY <4>2 DEF Owed
        <5> QED
          BY <5>1
      <4>4. Wires'
        BY <1>1, <1>2, <1>4, <3>1, <3>3, <4>2 DEF Shape, Wires
      <4> QED
        BY <2>3, <3>1, <4>1, <4>3, <4>4
    <3> QED
      BY <3>7, <3>8
  <2> QED
    BY <1>2, <1>4, <2>1, <2>2, <2>3
<1>7. Shape'
  BY <1>1, <1>2, <1>3, <1>6, Unmoved DEF Shape
<1>8. ASSUME stub = "live" PROVE Count'
  <2>1. /\ stub' = "live" /\ mRef' = mRef /\ mRef > 0
        /\ Cardinality(Found)' = Cardinality(Found) /\ (Creating' => Creating)
        /\ (lost => lost') /\ (uncounted => uncounted')
    BY <1>2, <1>3, <1>6, <1>8, Unmoved
  <2>2. Firm \in Nat /\ (Firm' = Firm \/ (Firm' = Firm - 1 /\ lost'))
    <3>1. /\ Cardinality(Holding)' = Cardinality(Holding)
          /\ Cardinality(InTransit)' = Cardinality(InTransit)
          /\ One(mServices /\ ~spent)' = One(mServices /\ ~spent)
      BY <1>2, Unmoved
    <3>2. /\ Firm \in Nat /\ Cardinality(Holding) \in Nat
          /\ Cardinality(InTransit) \in Nat /\ Cardinality(Users) \in Nat
          /\ Cardinality(Owed) \in Nat /\ One(mServices /\ ~spent) \in {0, 1}
      BY <1>1, CountTypes
    <3> QED
      BY <3>1, <3>2, <1>5, <1>6, <1>8, FirmIs
  <2>3. PICK f \in Int : Firm' = f /\ (f = Firm \/ (f = Firm - 1 /\ lost'))
    BY <2>2
  <2>4. f = Firm \/ (f <= Firm /\ lost')
    BY <2>2, <2>3
  <2> QED
    BY <1>1, <1>2, <1>8, <2>1, <2>3, <2>4, CountKept
<1> QED
  BY <1>7, <1>8
-----------------------------------------------------------------------------
LEMMA UnmarshalHomeKeeps ==
    ASSUME IInv, TypeOK', NEW t \in Threads, UnmarshalHome(t)
    PROVE  Shape' /\ Count'
<1>1. TypeOK /\ Shape /\ Count
  BY DEF IInv
<1>2. /\ pc[t] = "idle" /\ pc' = [pc EXCEPT ![t] = "local"] /\ Home \in Processes
      /\ packs[Home] > 0 /\ packs' = [packs EXCEPT ![Home] = @ - 1]
      /\ stub = "live" /\ mRef' = mRef + 1 /\ lost'
      /\ UNCHANGED <<stub, conns, mServices, spent, refs, m_cSocketfd, uncounted>>
  BY DEF UnmarshalHome, Goto, clients, directory, Processes
<1>3. \A u \in Threads : pc'[u] = "created" <=> pc[u] = "created"
  BY <1>1, <1>2 DEF TypeOK
<1>4. mRef \in Nat /\ mRef > 0
  BY <1>1, <1>2, ReleasesCounted DEF TypeOK
<1>5. /\ IsFiniteSet(InTransit)' /\ Cardinality(InTransit)' = Cardinality(InTransit) - 1
  BY <1>1, <1>2, PackReceived, Zenon
<1>6. /\ Cardinality(Holding)' = Cardinality(Holding) + 1
      /\ Cardinality(Found)' = Cardinality(Found)
  <2>1. /\ Cardinality(Holding)' = Cardinality(Holding) + One("local" \in {"packed", "local"})
             - One(pc[t] \in {"packed", "local"})
        /\ Cardinality(Found)' = Cardinality(Found) + One("local" = "found") - One(pc[t] = "found")
    BY <1>1, <1>2, ThreadMoves, Zenon
  <2> QED
    BY <1>1, <1>2, <2>1, CountTypes DEF One
<1>7. Firm' = Firm /\ Firm \in Nat /\ Cardinality(Found) \in Nat
  <2>1. /\ Cardinality(Users)' = Cardinality(Users)
        /\ Cardinality(Owed)' = Cardinality(Owed)
        /\ One(mServices /\ ~spent)' = One(mServices /\ ~spent)
    BY <1>2, Unmoved
  <2>2. /\ Firm \in Nat /\ Cardinality(Holding) \in Nat /\ Cardinality(Found) \in Nat
        /\ Cardinality(InTransit) \in Nat /\ Cardinality(Users) \in Nat
        /\ Cardinality(Owed) \in Nat /\ One(mServices /\ ~spent) \in {0, 1}
    BY <1>1, CountTypes
  <2> QED
    BY <2>1, <2>2, <1>5, <1>6, FirmIs
<1>8. Shape'
  <2>1. Known'
    BY <1>1, <1>2, <1>3, <1>4, KnownKept DEF Shape
  <2> QED
    BY <1>1, <1>2, <1>5, <2>1, WiresKept DEF Shape
<1>9. Creating' <=> Creating
  BY <1>3 DEF Creating
<1>10. Count'
  <2>1. ASSUME ~uncounted'
        PROVE  mRef' >= Firm' + Cardinality(Found)' /\ (Creating' => mRef' > Firm')
    <3>1. mRef >= Firm + Cardinality(Found) /\ (Creating => mRef > Firm)
      BY <1>1, <1>2, <1>4, <2>1 DEF Count
    <3>2. mRef + 1 >= Firm + Cardinality(Found) /\ (Creating => mRef + 1 > Firm)
      BY <1>4, <1>7, <3>1
    <3> QED
      BY <1>2, <1>6, <1>7, <1>9, <3>2
  <2> QED
    BY <1>2, <2>1 DEF Count
<1> QED
  BY <1>8, <1>10

(* A counted reference is given back and is not the last one.              *)
LEMMA CountDrops ==
    ASSUME TypeOK, Shape, Count, stub = "live", mRef > 1, mRef' = mRef - 1,
           Firm' = Firm - 1, Cardinality(Found)' = Cardinality(Found),
           Creating' => Creating, UNCHANGED <<stub, uncounted, lost>>
    PROVE  Count'
<1>1. mRef \in Nat /\ Firm \in Nat /\ Cardinality(Found) \in Nat
  BY CountTypes
<1>2. ASSUME ~uncounted
      PROVE  mRef - 1 >= Firm - 1 + Cardinality(Found) /\ (Creating' => mRef - 1 > Firm - 1)
  <2>1. mRef >= Firm + Cardinality(Found) /\ (Creating => mRef > Firm)
    BY <1>1, <1>2 DEF Count
  <2> QED
    BY <1>1, <2>1
<1>3. ASSUME ~lost
      PROVE  mRef - 1 <= Firm - 1 + Cardinality(Found)
  <2>1. mRef <= Firm + Cardinality(Found)
    BY <1>3 DEF Count
  <2> QED
    BY <1>1, <2>1
<1>4. mRef - 1 # 0
  BY <1>1
<1> QED
  BY <1>2, <1>3, <1>4 DEF Count

(* The last counted reference is nobody else's.                            *)
LEMMA LastUse ==
    ASSUME TypeOK, Shape, Count, stub = "live", mRef = 1, ~uncounted, Firm # 0
    PROVE  Firm = 1 /\ Cardinality(Found) = 0 /\ ~Creating
<1>1. Firm \in Nat /\ Cardinality(Found) \in Nat
  BY CountTypes
<1>2. mRef >= Firm + Cardinality(Found) /\ (Creating => mRef > Firm)
  BY DEF Count
<1> QED
  BY <1>1, <1>2

(* Who uses the stub when nothing but threads and connections is counted.  *)
LEMMA Unused ==
    ASSUME TypeOK, Shape, Cardinality(Found) = 0, ~Creating, Cardinality(InTransit) = 0,
           Cardinality(Users) = 0, One(mServices /\ ~spent) = 0
    PROVE  /\ \A t \in Threads : pc[t] # "idle" => t \in Holding
           /\ \A p \in Processes : ~(packs[p] > 0)
           /\ \A c \in Clients : ~(refs[c] > 0)
           /\ ~(mServices /\ ~spent)
           /\ \A k \in DOMAIN conns : conns[k].at \in OnTheWay \cup Tasks => k \in Owed
<1>1. \A t \in Threads : pc[t] # "idle" => t \in Holding
  BY CountsZero DEF Creating, Holding, TypeOK
<1>2. (\A p \in Processes : packs[p] = 0) /\ (\A c \in Clients : refs[c] = 0)
  BY CountsZero
<1>3. ~(mServices /\ ~spent)
  BY DEF One
<1>4. \A k \in DOMAIN conns : conns[k].at \in OnTheWay \cup Tasks => k \in Owed
  <2>1. \A c \in Clients : m_cSocketfd[c] = 0
    BY <1>2 DEF Shape, Wires
  <2>2. \A k \in DOMAIN conns : k # 0
    BY DEF TypeOK
  <2> QED
    BY <2>1, <2>2 DEF Owed, Orphan, OnTheWay, Tasks, Releases, Calls
<1> QED
  BY <1>1, <1>2, <1>3, <1>4

(* The connections after a reference was given back.                       *)
LEMMA ReleaseWires ==
    ASSUME TypeOK, Shape, stub = "live", DOMAIN conns' = DOMAIN conns,
           \A j \in DOMAIN conns :
               /\ conns'[j].client = conns[j].client
               /\ \/ conns'[j].at = conns[j].at \/ conns'[j].at = "idle"
                  \/ conns'[j].at = "closed" /\ stub' = "deleted",
           UNCHANGED <<refs, m_cSocketfd, lost>>
    PROVE  Wires'
<1>1. "idle" \notin Releases \cup Calls /\ "closed" \notin Releases \cup Calls
  BY DEF Releases, Calls
<1>2. ASSUME NEW c \in Clients, m_cSocketfd[c] # 0
      PROVE  /\ refs[c] > 0 /\ conns'[m_cSocketfd[c]].client = c
             /\ conns'[m_cSocketfd[c]].at \notin Releases
  <2>1. m_cSocketfd[c] \in DOMAIN conns
    BY <1>2 DEF TypeOK
  <2> QED
    BY <1>1, <1>2, <2>1 DEF Shape, Wires
<1>3. ASSUME NEW j \in DOMAIN conns
      PROVE  (conns'[j].at = "closed" => stub' = "deleted") /\ (Orphan(j)' => lost)
  BY <1>1, <1>3 DEF Shape, Wires, Orphan
<1> QED
  BY <1>2, <1>3 DEF Wires

LEMMA TransactReleaseKeeps ==
    ASSUME IInv, TypeOK', NEW k \in DOMAIN conns, TransactRelease(k)
    PROVE  Shape' /\ Count'
<1> DEFINE cs == [conns EXCEPT ![k].at = "idle"]
<1>1. TypeOK /\ Shape /\ Count
  BY DEF IInv
<1>2. /\ conns[k].at = "release_task" /\ stub = "live" /\ StubRelease(cs)
      /\ UNCHANGED <<pc, packs, mServices, spent, refs, m_cSocketfd, uncounted, lost>>
  BY DEF TransactRelease, directory, clients, history
<1>3. mRef \in Nat /\ mRef > 0
  BY <1>1, <1>2, ReleasesCounted DEF TypeOK
<1>4. /\ cs \in Seq(Connection) /\ Len(cs) = Len(conns) /\ DOMAIN cs = DOMAIN conns
      /\ cs[k].at = "idle" /\ cs[k].client = conns[k].client
      /\ \A j \in DOMAIN conns : j # k => cs[j] = conns[j]
  <2>1. conns \in Seq(Connection) /\ conns[k] \in Connection
    BY <1>1 DEF TypeOK
  <2> DEFINE e == [conns[k] EXCEPT !.at = "idle"]
  <2>2. e \in Connection /\ e.at = "idle" /\ e.client = conns[k].client
    BY <2>1 DEF Connection
  <2>3. cs = [conns EXCEPT ![k] = e]
    OBVIOUS
  <2> HIDE DEF e, cs
  <2> QED
    BY <2>1, <2>2, <2>3
<1> HIDE DEF cs
<1>5. /\ mRef' = mRef - 1 /\ stub' = (IF mRef = 1 THEN "deleted" ELSE "live")
      /\ mRef # 1 => conns' = cs
      /\ DOMAIN conns' = DOMAIN conns
      /\ \A j \in DOMAIN conns :
           /\ conns'[j].client = cs[j].client
           /\ conns'[j].at = cs[j].at \/ conns'[j].at = "closed"
  BY <1>1, <1>2, <1>3, <1>4, StubReleaseDoes
<1>6. k \in Owed
  BY <1>2 DEF Owed, Releases
<1>7. CASE mRef # 1
  <2>1. /\ stub' = "live" /\ conns' = cs /\ mRef > 1 /\ mRef' > 0 /\ UNCHANGED stub
    BY <1>2, <1>3, <1>5, <1>7
  <2>2. Set(k, "idle")
    BY <2>1 DEF Set, cs
  <2>3. "idle" \notin Releases \cup Calls
    BY DEF Releases, Calls
  <2>4. Wires' /\ Owed' \ {k} = Owed \ {k}
    BY <1>1, <1>2, <2>1, <2>2, <2>3, SetWires
  <2>5. k \notin Owed'
    BY <1>4, <2>1, <2>3 DEF Owed, Orphan
  <2>6. Cardinality(Owed)' = Cardinality(Owed) - 1
    <3>1. Cardinality(Owed)' = Cardinality(Owed) + One(k \in Owed') - One(k \in Owed)
      BY <1>1, <2>4, OwedMoves
    <3> QED
      BY <1>1, <1>6, <2>5, <3>1, CountTypes DEF One
  <2>7. Firm' = Firm - 1
    <3>1. /\ Cardinality(Holding)' = Cardinality(Holding)
          /\ Cardinality(InTransit)' = Cardinality(InTransit)
          /\ Cardinality(Users)' = Cardinality(Users)
          /\ One(mServices /\ ~spent)' = One(mServices /\ ~spent)
      BY <1>2, Unmoved
    <3>2. /\ Cardinality(Holding) \in Nat
          /\ Cardinality(InTransit) \in Nat /\ Cardinality(Users) \in Nat
          /\ Cardinality(Owed) \in Nat /\ One(mServices /\ ~spent) \in {0, 1}
      BY <1>1, CountTypes
    <3> QED
      BY <3>1, <3>2, <2>6, FirmIs
  <2>8. Cardinality(Found)' = Cardinality(Found) /\ (Creating' => Creating)
    BY <1>2, Unmoved
  <2>9. Known'
    BY <1>1, <1>2, <2>1, KnownKept DEF Shape
  <2> QED
    BY <1>1, <1>2, <1>5, <2>1, <2>4, <2>7, <2>8, <2>9, CountDrops, Unmoved DEF Shape
<1>8. CASE mRef = 1
  <2>1. stub' = "deleted"
    BY <1>5, <1>8
  <2>2. Wires'
    BY <1>1, <1>2, <1>4, <1>5, <2>1, ReleaseWires
  <2>3. Known'
    BY <1>1, <1>2, <2>1, KnownKept DEF Shape
  <2>4. ASSUME ~uncounted PROVE ~InUse'
    <3>1. /\ IsFiniteSet(Owed) /\ Cardinality(Owed) \in Nat /\ Cardinality(Owed) # 0
          /\ Cardinality(Holding) \in Nat /\ Cardinality(InTransit) \in Nat
          /\ Cardinality(Users) \in Nat /\ One(mServices /\ ~spent) \in {0, 1}
      BY <1>1, <1>6, CountTypes, FS_EmptySet
    <3>2. Firm # 0
      BY <3>1 DEF Firm
    <3>3. Firm = 1 /\ Cardinality(Found) = 0 /\ ~Creating
      BY <1>1, <1>2, <1>8, <2>4, <3>2, LastUse
    <3>4. /\ Cardinality(Owed) = 1 /\ Cardinality(Holding) = 0 /\ Cardinality(InTransit) = 0
          /\ Cardinality(Users) = 0 /\ One(mServices /\ ~spent) = 0
      BY <3>1, <3>3, FirmIs
    <3>5. Owed \ {k} = {} /\ Holding = {}
      <4>1. IsFiniteSet(Owed \ {k}) /\ Cardinality(Owed \ {k}) = Cardinality(Owed) - 1
        BY <1>6, <3>1, FS_RemoveElement
      <4> QED
        BY <1>1, <3>4, <4>1, CountTypes, FS_EmptySet
    <3>6. /\ \A t \in Threads : pc[t] # "idle" => t \in Holding
          /\ \A p \in Processes : ~(packs[p] > 0)
          /\ \A c \in Clients : ~(refs[c] > 0)
          /\ ~(mServices /\ ~spent)
          /\ \A j \in DOMAIN conns : conns[j].at \in OnTheWay \cup Tasks => j \in Owed
      BY <1>1, <3>3, <3>4, Unused
    <3>7. \A j \in DOMAIN conns : conns'[j].at \notin OnTheWay \cup Tasks
      <4>1. "idle" \notin OnTheWay \cup Tasks /\ "closed" \notin OnTheWay \cup Tasks
        BY DEF OnTheWay, Tasks
      <4> QED
        BY <1>4, <1>5, <3>5, <3>6, <4>1
    <3> QED
      BY <1>2, <1>5, <3>5, <3>6, <3>7 DEF InUse
  <2>5. Count'
    BY <1>2, <2>1, <2>4 DEF Count
  <2> QED
    BY <1>1, <1>2, <2>2, <2>3, <2>5, Unmoved DEF Shape
<1> QED
  BY <1>7, <1>8

LEMMA ReleaseHomeKeeps ==
    ASSUME IInv, TypeOK', NEW t \in Threads, ReleaseHome(t)
    PROVE  Shape' /\ Count'
<1>1. TypeOK /\ Shape /\ Count
  BY DEF IInv
<1>2. /\ pc[t] = "local" /\ stub = "live" /\ StubRelease(conns) /\ conns \in Seq(Connection)
      /\ pc' = [pc EXCEPT ![t] = "idle"]
      /\ UNCHANGED <<packs, mServices, spent, refs, m_cSocketfd, uncounted, lost>>
  BY <1>1 DEF ReleaseHome, Goto, directory, clients, history, TypeOK
<1>3. mRef \in Nat /\ mRef > 0
  BY <1>1, <1>2, ReleasesCounted DEF TypeOK
<1>4. \A u \in Threads : pc'[u] = IF u = t THEN "idle" ELSE pc[u]
  BY <1>1, <1>2 DEF TypeOK
<1>5. /\ mRef' = mRef - 1 /\ stub' = (IF mRef = 1 THEN "deleted" ELSE "live")
      /\ mRef # 1 => conns' = conns
      /\ DOMAIN conns' = DOMAIN conns
      /\ \A j \in DOMAIN conns :
           /\ conns'[j].client = conns[j].client
           /\ conns'[j].at = conns[j].at \/ conns'[j].at = "closed"
  BY <1>1, <1>2, <1>3, StubReleaseDoes
<1>6. t \in Holding
  BY <1>2 DEF Holding
<1>7. /\ Cardinality(Holding)' = Cardinality(Holding) - 1
      /\ Cardinality(Found)' = Cardinality(Found)
  <2>1. /\ Cardinality(Holding)' = Cardinality(Holding)
             + One("idle" \in {"packed", "local"}) - One(pc[t] \in {"packed", "local"})
        /\ Cardinality(Found)' = Cardinality(Found) + One("idle" = "found") - One(pc[t] = "found")
    BY <1>1, <1>2, ThreadMoves, Zenon
  <2> QED
    BY <1>1, <1>2, <2>1, CountTypes DEF One
<1>8. CASE mRef # 1
  <2>1. /\ stub' = "live" /\ conns' = conns /\ mRef > 1 /\ mRef' > 0 /\ UNCHANGED stub
    BY <1>2, <1>3, <1>5, <1>8
  <2>2. Firm' = Firm - 1
    <3>1. /\ Cardinality(Owed)' = Cardinality(Owed)
          /\ Cardinality(InTransit)' = Cardinality(InTransit)
          /\ Cardinality(Users)' = Cardinality(Users)
          /\ One(mServices /\ ~spent)' = One(mServices /\ ~spent)
      BY <1>2, <2>1, Unmoved
    <3>2. /\ Cardinality(Holding) \in Nat
          /\ Cardinality(InTransit) \in Nat /\ Cardinality(Users) \in Nat
          /\ Cardinality(Owed) \in Nat /\ One(mServices /\ ~spent) \in {0, 1}
      BY <1>1, CountTypes
    <3> QED
      BY <3>1, <3>2, <1>7, FirmIs
  <2>3. Creating' => Creating
    BY <1>4 DEF Creating
  <2>4. Shape'
    <3>1. Known'
      BY <1>1, <1>2, <1>4, <2>1, KnownKept DEF Shape
    <3> QED
      BY <1>1, <1>2, <2>1, <3>1, WiresKept, Unmoved DEF Shape
  <2> QED
    BY <1>1, <1>2, <1>5, <1>7, <2>1, <2>2, <2>3, <2>4, CountDrops
<1>9. CASE mRef = 1
  <2>1. stub' = "deleted"
    BY <1>5, <1>9
  <2>2. Wires'
    BY <1>1, <1>2, <1>5, <2>1, ReleaseWires
  <2>3. Known'
    BY <1>1, <1>4, <2>1, KnownKept DEF Shape
  <2>4. ASSUME ~uncounted PROVE ~InUse'
    <3>1. /\ IsFiniteSet(Holding) /\ Cardinality(Holding) \in Nat /\ Cardinality(Holding) # 0
          /\ Cardinality(Owed) \in Nat /\ Cardinality(InTransit) \in Nat
          /\ Cardinality(Users) \in Nat /\ One(mServices /\ ~spent) \in {0, 1}
      BY <1>1, <1>6, CountTypes, FS_EmptySet
    <3>2. Firm # 0
      <4>1. Cardinality(Holding) >= 1 /\ One(mServices /\ ~spent) >= 0
        BY <3>1
      <4> QED
        BY <3>1, <4>1 DEF Firm
    <3>3. Firm = 1 /\ Cardinality(Found) = 0 /\ ~Creating
      BY <1>1, <1>2, <1>9, <2>4, <3>2, LastUse
    <3>4. /\ Cardinality(Holding) = 1 /\ Cardinality(Owed) = 0 /\ Cardinality(InTransit) = 0
          /\ Cardinality(Users) = 0 /\ One(mServices /\ ~spent) = 0
      BY <3>1, <3>3, FirmIs
    <3>5. Holding \ {t} = {} /\ Owed = {}
      <4>1. IsFiniteSet(Holding \ {t}) /\ Cardinality(Holding \ {t}) = Cardinality(Holding) - 1
        BY <1>6, <3>1, FS_RemoveElement
      <4> QED
        BY <1>1, <3>4, <4>1, CountTypes, FS_EmptySet
    <3>6. /\ \A u \in Threads : pc[u] # "idle" => u \in Holding
          /\ \A p \in Processes : ~(packs[p] > 0)
          /\ \A c \in Clients : ~(refs[c] > 0)
          /\ ~(mServices /\ ~spent)
          /\ \A j \in DOMAIN conns : conns[j].at \in OnTheWay \cup Tasks => j \in Owed
      BY <1>1, <3>3, <3>4, Unused
    <3>7. \A j \in DOMAIN conns : conns'[j].at \notin OnTheWay \cup Tasks
      <4>1. "closed" \notin OnTheWay \cup Tasks
        BY DEF OnTheWay, Tasks
      <4> QED
        BY <1>5, <3>5, <3>6, <4>1
    <3>8. \A u \in Threads : pc'[u] = "idle"
      BY <1>4, <3>5, <3>6
    <3> QED
      BY <1>2, <1>5, <3>6, <3>7, <3>8 DEF InUse
  <2>5. Count'
    BY <1>2, <2>1, <2>4 DEF Count
  <2> QED
    BY <1>1, <1>2, <2>2, <2>3, <2>5, Unmoved DEF Shape
<1> QED
  BY <1>8, <1>9
-----------------------------------------------------------------------------
(* Before there is a stub there is only its creator.                       *)
LEMMA NoneBefore ==
    ASSUME IInv, stub = "none", Next
    PROVE  \E t \in Threads : S_CreateObject(t)
<1>1. Pristine /\ \A t \in Threads : pc[t] = "idle"
  BY DEF IInv, Shape, Known
<1>2. /\ \A p \in Processes : ~(packs[p] > 0)
      /\ \A c \in Clients : ~(refs[c] > 0) /\ c \in Processes
      /\ Home \in Processes /\ DOMAIN conns = {} /\ ~mServices
  BY <1>1 DEF Pristine, Processes
<1> QED
  BY <1>1, <1>2 DEF Next, FindExportObject, StdMarshalInterface, SendPack, PackDropped, AddService,
                    UnmarshalHome, ReleaseHome, RemoveService, GetService, Forward, Unmarshal,
                    UnmarshalFails, Connect, Call, Release, ClientDies

(* Nobody comes to use a stub that is deleted, unless uncounted.           *)
LEMMA DeletedStays ==
    ASSUME IInv, stub = "deleted", Next
    PROVE  Count'
<1>1. stub' = "deleted" /\ (uncounted => uncounted')
  <2>1. stub' = stub
    BY DEF Next, FindExportObject, S_CreateObject, StdMarshalInterface, SendPack, PackDropped,
           AddService, UnmarshalHome, ReleaseHome, RemoveService, GetService, Forward, Unmarshal,
           UnmarshalFails, Connect, Call, Release, ClientDies, AcceptCallback, Transact,
           TransactRelease, home
  <2>2. uncounted' = uncounted \/ uncounted' = (uncounted \/ spent) \/ uncounted' = TRUE
    BY DEF Next, FindExportObject, S_CreateObject, StdMarshalInterface, SendPack, PackDropped,
           AddService, UnmarshalHome, ReleaseHome, RemoveService, GetService, Forward, Unmarshal,
           UnmarshalFails, Connect, Call, Release, ClientDies, AcceptCallback, Transact,
           TransactRelease, history
  <2>3. uncounted => uncounted'
    BY <2>2, Zenon
  <2> QED
    BY <2>1, <2>3
<1>2. ASSUME ~uncounted' PROVE ~InUse'
  <2>1. ~InUse
    BY <1>1, <1>2 DEF IInv, Count
  <2>2. /\ \A t \in Threads : pc[t] = "idle"
        /\ \A p \in Processes : ~(packs[p] > 0)
        /\ \A c \in Clients : ~(refs[c] > 0) /\ c \in Processes
        /\ \A k \in DOMAIN conns : conns[k].at \notin OnTheWay \cup Tasks
        /\ mServices => spent
        /\ Home \in Processes
    BY <2>1 DEF InUse, Processes
  <2>3. RemoveService
    BY <1>2, <2>2 DEF Next, FindExportObject, S_CreateObject, StdMarshalInterface, SendPack,
         PackDropped, AddService, UnmarshalHome, ReleaseHome, GetService, Forward, Unmarshal,
         UnmarshalFails, Connect, Call, Release, ClientDies, AcceptCallback, Transact,
         TransactRelease
  <2>4. ~mServices' /\ UNCHANGED <<pc, packs, refs, conns>>
    BY <2>3 DEF RemoveService, clients
  <2> QED
    BY <2>2, <2>4 DEF InUse
<1> QED
  BY <1>1, <1>2 DEF Count

LEMMA InitIInv == Init => IInv
<1> SUFFICES ASSUME Init PROVE IInv
  OBVIOUS
<1>1. TypeOK
  <2>1. conns \in Seq(Connection) /\ Len(conns) = 0 /\ 0 \in 0 .. Len(conns)
    BY DEF Init
  <2>2. /\ stub = "none" /\ mRef \in Nat /\ m_cConnfd \in 0 .. Len(conns)
        /\ pc \in [Threads -> {"idle", "found", "created", "packed", "local"}]
        /\ packs \in [Processes -> Nat] /\ refs \in [Clients -> Nat]
        /\ m_cSocketfd \in [Clients -> 0 .. Len(conns)]
        /\ made \in 0 .. MaxPacks
    BY <2>1, BoundsAssumption DEF Init
  <2>3. /\ mServices \in BOOLEAN /\ spent \in BOOLEAN
        /\ uncounted \in BOOLEAN /\ lost \in BOOLEAN
    BY DEF Init
  <2> QED
    BY <2>1, <2>2, <2>3 DEF TypeOK
<1>2. Shape
  <2>1. InTransit = {}
    BY DEF Init, InTransit
  <2>2. IsFiniteSet(InTransit)
    BY <2>1, FS_EmptySet
  <2>3. Known
    BY DEF Init, Known, Pristine
  <2>4. Wires
    BY DEF Init, Wires
  <2> QED
    BY <2>2, <2>3, <2>4 DEF Shape
<1>3. Count
  BY DEF Init, Count
<1> QED
  BY <1>1, <1>2, <1>3 DEF IInv

LEMMA NextIInv == IInv /\ [Next]_vars => IInv'
<1> SUFFICES ASSUME IInv, [Next]_vars PROVE IInv'
  OBVIOUS
<1>1. TypeOK /\ Shape /\ Count
  BY DEF IInv
<1>2. TypeOK'
  BY <1>1, TypeStep
<1>3. CASE UNCHANGED vars
  <2>1. Shape'
    BY <1>1, <1>3 DEF vars, Shape, InTransit, Known, Pristine, Wires, Orphan
  <2>2. Count'
    <3>1. Firm' = Firm /\ Cardinality(Found)' = Cardinality(Found) /\ (Creating' <=> Creating)
      BY <1>3, Unmoved, FirmIs DEF vars
    <3>2. UNCHANGED <<stub, mRef, uncounted, lost>> /\ (InUse' <=> InUse)
      BY <1>3 DEF vars, InUse
    <3> QED
      BY <1>1, <3>1, <3>2 DEF Count
  <2> QED
    BY <1>2, <2>1, <2>2 DEF IInv
<1>4. CASE Next
  <2>1. Shape' /\ (stub = "live" => Count')
    <3>1. ASSUME NEW t \in Threads,
                 \/ FindExportObject(t) \/ S_CreateObject(t) \/ StdMarshalInterface(t)
                 \/ SendPack(t) \/ PackDropped(t) \/ AddService(t)
                 \/ UnmarshalHome(t) \/ ReleaseHome(t)
          PROVE  Shape' /\ (stub = "live" => Count')
      BY <1>2, <3>1, FindExportObjectKeeps, CreateObjectKeeps, StdMarshalInterfaceKeeps, SendPackKeeps,
         PackDroppedKeeps, AddServiceKeeps, UnmarshalHomeKeeps, ReleaseHomeKeeps
    <3>2. CASE RemoveService
      BY <1>2, <3>2, RemoveServiceKeeps
    <3>3. ASSUME NEW p \in Processes, GetService(p) \/ \E c \in Clients : Forward(c, p)
          PROVE  Shape' /\ (stub = "live" => Count')
      BY <1>2, <3>3, GetServiceKeeps, ForwardKeeps
    <3>4. ASSUME NEW c \in Clients,
                 \/ Unmarshal(c) \/ UnmarshalFails(c) \/ Connect(c) \/ Call(c)
                 \/ Release(c) \/ ClientDies(c)
          PROVE  Shape' /\ (stub = "live" => Count')
      BY <1>2, <3>4, UnmarshalKeeps, UnmarshalFailsKeeps, ConnectKeeps, CallKeeps, ReleaseKeeps,
         ClientDiesKeeps
    <3>5. ASSUME NEW k \in DOMAIN conns, AcceptCallback(k) \/ Transact(k) \/ TransactRelease(k)
          PROVE  Shape' /\ (stub = "live" => Count')
      BY <1>2, <3>5, AcceptCallbackKeeps, TransactKeeps, TransactReleaseKeeps
    <3> QED
      BY <1>4, <3>1, <3>2, <3>3, <3>4, <3>5 DEF Next
  <2>2. CASE stub = "none"
    <3>1. PICK t \in Threads : S_CreateObject(t)
      BY <1>4, <2>2, NoneBefore
    <3> QED
      BY <1>2, <3>1, CreateObjectKeeps DEF IInv
  <2>3. CASE stub = "live"
    BY <1>2, <2>1, <2>3 DEF IInv
  <2>4. CASE stub = "deleted"
    BY <1>2, <1>4, <2>1, <2>4, DeletedStays DEF IInv
  <2> QED
    BY <1>1, <2>2, <2>3, <2>4 DEF TypeOK
<1> QED
  BY <1>3, <1>4

LEMMA Invariance == Spec => []IInv
  BY InitIInv, NextIInv, PTL DEF Spec

(* Every variable keeps to its type: in particular the count of the stub   *)
(* does not go below 0 for as long as a deleted stub is left alone.        *)
THEOREM TypeCorrect == Spec => []TypeOK
<1>1. IInv => TypeOK
  BY DEF IInv
<1> QED
  BY <1>1, Invariance, PTL

(* A stub that somebody will use is not deleted, unless a pack was made    *)
(* that nobody had counted (GetService of DCARServer, the marshalling of a *)
(* proxy): FindExportObject, the pack and ~CObjectProxy balance.           *)
THEOREM UsedIsNotDeleted == Spec => []SafeUnlessUncounted
<1>1. IInv => SafeUnlessUncounted
  BY DEF IInv, Count, SafeUnlessUncounted
<1> QED
  BY <1>1, Invariance, PTL

(* A stub that nobody will use is deleted, unless a reference was taken    *)
(* that nobody gives back.                                                 *)
THEOREM UnusedIsDeleted == Spec => []DeletedUnlessLost
<1>1. ASSUME IInv PROVE DeletedUnlessLost
  <2> SUFFICES ASSUME ~lost, stub = "live", ~InUse PROVE FALSE
    BY DEF DeletedUnlessLost
  <2>1. TypeOK /\ Shape /\ Count
    BY <1>1 DEF IInv
  <2>2. /\ \A t \in Threads : pc[t] = "idle"
        /\ \A p \in Processes : ~(packs[p] > 0)
        /\ \A c \in Clients : ~(refs[c] > 0)
        /\ \A k \in DOMAIN conns : conns[k].at \notin OnTheWay \cup Tasks
        /\ ~(mServices /\ ~spent)
    BY DEF InUse
  <2>3. /\ \A p \in Processes : packs[p] = 0
        /\ \A c \in Clients : refs[c] = 0
    BY <2>1, <2>2 DEF TypeOK
  <2>4. \A k \in DOMAIN conns : conns[k].at \notin Releases /\ ~Orphan(k)
    BY <2>2 DEF Orphan, OnTheWay, Tasks, Releases, Calls
  <2>5. /\ Cardinality(Holding) = 0 /\ Cardinality(Found) = 0 /\ Cardinality(InTransit) = 0
        /\ Cardinality(Users) = 0 /\ Cardinality(Owed) = 0
    BY <2>1, <2>2, <2>3, <2>4, CountsZero
  <2>6. One(mServices /\ ~spent) = 0
    BY <2>2 DEF One
  <2>7. Firm = 0
    BY <2>5, <2>6 DEF Firm
  <2>8. mRef <= 0 /\ (mRef = 0 => Creating)
    BY <2>1, <2>5, <2>7 DEF Count
  <2>9. mRef \in Nat /\ ~Creating
    BY <2>1, <2>2 DEF TypeOK, Creating
  <2> QED
    BY <2>8, <2>9
<1> QED
  BY <1>1, Invariance, PTL
=============================================================================

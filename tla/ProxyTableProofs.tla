-------------------------- MODULE ProxyTableProofs --------------------------
(***************************************************************************)
(* Proofs about ProxyTable for any finite sets of threads and of proxies:  *)
(* the counts are exact, all references are to one proxy, and what can go  *)
(* wrong goes wrong only after a proxy was resurrected.                    *)
(***************************************************************************)
EXTENDS ProxyTable, SetsAndLists

(* Thread t has a reference of StdUnmarshalInterface or Release to p.      *)
Counted == {"get_interface", "release"}
Owns(t, p) == this[t] = p /\ pc[t] \in Counted

(* Thread t has seen the count of p at 0.                                  *)
Destroys(t, p) == this[t] = p /\ pc[t] \in Destroying

(* Which variables are in use where, and that an address has one entry.    *)
Shape ==
    /\ \A t \in Threads :
        /\ this[t] = NoProxy <=> pc[t] \in {"idle", "create"}
        /\ pc[t] = "create" <=> g_marshalLock = t
        /\ pc[t] \in {"create", "get_interface"} => holds[t] = NoProxy
    /\ g_marshalLock # NoThread => imports = <<>>
    /\ imports = <<>> \/ \E p \in Proxies : imports = <<p>> /\ memory[p] # "unused"

(* A proxy somebody has a reference to is live and is the one in the table;*)
(* a thread that is past UnregisterImportObject leaves no entry behind.    *)
Used ==
    \A t \in Threads, p \in Proxies :
        /\ this[t] = p => memory[p] # "unused"
        /\ holds[t] = p \/ Owns(t, p) => memory[p] = "live" /\ imports = <<p>>
        /\ this[t] = p /\ pc[t] \in {"send_release", "delete"} => imports # <<p>>

(* Without a resurrection a proxy with a count of 0 has one destroyer, and *)
(* stays in the table until that one takes it out.                         *)
Unresurrected == ~resurrected =>
    \A p \in Proxies :
        /\ memory[p] = "live" /\ m_cRef[p] = 0 => \E t \in Threads : Destroys(t, p)
        /\ \A t \in Threads : Destroys(t, p) =>
             /\ memory[p] = "live" /\ m_cRef[p] = 0
             /\ \A u \in Threads : Destroys(u, p) => u = t
             /\ pc[t] = "unregister" => imports = <<p>>

IInv == TypeOK /\ Shape /\ Used /\ CountsExact /\ Unresurrected
-----------------------------------------------------------------------------
(* A count of 0 says that nobody has a reference.                          *)
LEMMA CountSays ==
    ASSUME NEW p
    PROVE  /\ Cardinality(RefsOf(p)) \in Nat
           /\ Cardinality(RefsOf(p)) = 0
                <=> \A t \in Threads : holds[t] # p /\ ~Owns(t, p)
<1>1. RefsOf(p) \subseteq Threads \X {"user", "own"}
  BY DEF RefsOf
<1>2. IsFiniteSet(RefsOf(p)) /\ Cardinality(RefsOf(p)) \in Nat
  BY <1>1, MarkedFinite, ThreadsAssumption
<1>3. RefsOf(p) = {} <=> \A t \in Threads : holds[t] # p /\ ~Owns(t, p)
  <2>1. \A t \in Threads : /\ <<t, "user">> \in RefsOf(p) <=> holds[t] = p
                           /\ <<t, "own">> \in RefsOf(p) <=> Owns(t, p)
    BY DEF RefsOf, Owns, Counted
  <2>2. \A x \in RefsOf(p) : \E t \in Threads : x = <<t, "user">> \/ x = <<t, "own">>
    BY DEF RefsOf
  <2> QED
    BY <2>1, <2>2
<1> QED
  BY <1>2, <1>3, FS_EmptySet

(* A step of thread t leaves where the others are alone.                   *)
OthersStay(t) ==
    \A u \in Threads \ {t} : holds'[u] = holds[u] /\ this'[u] = this[u] /\ pc'[u] = pc[u]

(* Such a step changes the number of references by the share of t.         *)
LEMMA RefsMove ==
    ASSUME NEW p, NEW t \in Threads, OthersStay(t)
    PROVE  Cardinality(RefsOf(p)') =
             Cardinality(RefsOf(p)) + One(holds'[t] = p) - One(holds[t] = p)
               + One(this'[t] = p /\ pc'[t] \in Counted) - One(Owns(t, p))
<1> DEFINE H == <<t, "user">>
           R == <<t, "own">>
           Rest == (RefsOf(p) \ {H}) \ {R}
           RestP == (RefsOf(p)' \ {H}) \ {R}
<1>1. RestP = Rest
  BY DEF RefsOf, OthersStay
<1>2. /\ H \in RefsOf(p) <=> holds[t] = p
      /\ R \in RefsOf(p) <=> Owns(t, p)
  BY DEF RefsOf, Owns, Counted
<1>3. /\ H \in RefsOf(p)' <=> holds'[t] = p
      /\ R \in RefsOf(p)' <=> this'[t] = p /\ pc'[t] \in Counted
  BY DEF RefsOf, Counted
<1>4. /\ Cardinality(Rest) \in Nat
      /\ Cardinality(RefsOf(p)) = Cardinality(Rest) + One(H \in RefsOf(p)) + One(R \in RefsOf(p))
      /\ Cardinality(RefsOf(p)') = Cardinality(RestP) + One(H \in RefsOf(p)') + One(R \in RefsOf(p)')
  <2>1. H # R
    OBVIOUS
  <2>2. /\ RefsOf(p) \subseteq Threads \X {"user", "own"}
        /\ RefsOf(p)' \subseteq Threads \X {"user", "own"}
    BY DEF RefsOf
  <2>3. IsFiniteSet(RefsOf(p)) /\ IsFiniteSet(RefsOf(p)')
    BY <2>2, MarkedFinite, ThreadsAssumption
  <2> HIDE DEF H, R
  <2> QED
    BY <2>1, <2>3, WithoutTwo
<1> HIDE DEF Rest, RestP, H, R
<1> QED
  BY <1>1, <1>2, <1>3, <1>4 DEF One

(* A table without entries.                                                *)
LEMMA NoEntry == <<>> \in Seq(Proxies) /\ Len(<<>>) = 0
  OBVIOUS

(* A table of one entry.                                                   *)
LEMMA OneEntry ==
    ASSUME NEW p \in Proxies
    PROVE  /\ <<p>> # <<>> /\ Head(<<p>>) = p /\ Tail(<<p>>) = <<>> /\ Len(<<p>>) = 1
           /\ <<p>> \o <<>> = <<p>>
           /\ <<p>> \in Seq(Proxies) /\ <<>> \in Seq(Proxies)
           /\ \A q \in Proxies : <<p>> = <<q>> => p = q
  OBVIOUS
-----------------------------------------------------------------------------
(* A thread takes a temporary reference on the proxy it finds, or keeps    *)
(* g_marshalLock to create one.                                            *)
LEMMA FindImportObjectKeeps ==
    ASSUME IInv, NEW t \in Threads, FindImportObject(t)
    PROVE  IInv'
<1>1. TypeOK /\ Shape /\ Used /\ CountsExact /\ Unresurrected
  BY DEF IInv
<1>2. pc[t] = "idle" /\ this[t] = NoProxy /\ holds[t] = NoProxy /\ g_marshalLock = NoThread
  BY <1>1 DEF FindImportObject, At, Shape
<1>3. OthersStay(t)
  BY <1>1 DEF FindImportObject, Goto, TypeOK, OthersStay
<1>4. CASE imports = <<>>
  <2>1. /\ g_marshalLock' = t /\ pc' = [pc EXCEPT ![t] = "create"]
        /\ UNCHANGED <<imports, m_cRef, memory, this, holds, resurrected>>
    BY <1>4 DEF FindImportObject, Goto
  <2>2. TypeOK'
    BY <1>1, <2>1 DEF TypeOK, PCs
  <2>3. Shape'
    BY <1>1, <1>2, <1>4, <2>1, ThreadsAssumption DEF TypeOK, Shape
  <2>4. Used' /\ Unresurrected'
    BY <1>1, <1>2, <2>1, ProxiesAssumption
    DEF TypeOK, Used, Unresurrected, Owns, Counted, Destroys, Destroying
  <2>5. CountsExact'
    <3>1. \A p \in Proxies : Cardinality(RefsOf(p)') = Cardinality(RefsOf(p))
      <4> SUFFICES ASSUME NEW p \in Proxies
                   PROVE  Cardinality(RefsOf(p)') = Cardinality(RefsOf(p))
        OBVIOUS
      <4>1. ~Owns(t, p) /\ this'[t] # p /\ holds'[t] = holds[t]
        BY <1>2, <2>1, ProxiesAssumption DEF Owns
      <4> QED
        BY <1>3, <4>1, RefsMove, CountSays DEF One
    <3> QED
      BY <1>1, <2>1, <3>1 DEF CountsExact
  <2> QED
    BY <2>2, <2>3, <2>4, <2>5 DEF IInv
<1>5. CASE imports # <<>>
  <2>1. PICK q \in Proxies : imports = <<q>>
    BY <1>1, <1>5 DEF Shape
  <2>2. Head(imports) = q
    BY <2>1, OneEntry
  <2>3. /\ memory[q] = "live"
        /\ m_cRef' = [m_cRef EXCEPT ![q] = @ + 1]
        /\ resurrected' = (resurrected \/ m_cRef[q] = 0)
        /\ this' = [this EXCEPT ![t] = q] /\ pc' = [pc EXCEPT ![t] = "get_interface"]
        /\ UNCHANGED <<g_marshalLock, imports, memory, holds>>
    BY <1>5, <2>2 DEF FindImportObject, Goto
  <2>4. TypeOK'
    BY <1>1, <2>3 DEF TypeOK, PCs
  <2>5. Shape'
    BY <1>1, <1>2, <2>1, <2>3, ProxiesAssumption, ThreadsAssumption DEF TypeOK, Shape
  <2>6. Used'
    BY <1>1, <1>2, <2>1, <2>3, ProxiesAssumption DEF TypeOK, Used, Owns, Counted
  <2>7. CountsExact'
    <3>1. \A p \in Proxies : Cardinality(RefsOf(p)') = Cardinality(RefsOf(p)) + One(p = q)
      <4> SUFFICES ASSUME NEW p \in Proxies
                   PROVE  Cardinality(RefsOf(p)') = Cardinality(RefsOf(p)) + One(p = q)
        OBVIOUS
      <4>1. /\ ~Owns(t, p) /\ holds'[t] = holds[t]
            /\ this'[t] = p /\ pc'[t] \in Counted <=> p = q
        BY <1>1, <1>2, <2>3, ProxiesAssumption DEF Owns, Counted, TypeOK
      <4> QED
        BY <1>3, <4>1, RefsMove, CountSays DEF One
    <3> QED
      BY <1>1, <2>3, <3>1, CountSays DEF CountsExact, TypeOK, One
  <2>8. Unresurrected'
    <3> SUFFICES ASSUME ~resurrected, m_cRef[q] # 0 PROVE Unresurrected'
      BY <2>3 DEF Unresurrected
    <3>1. \A u \in Threads, p \in Proxies :
            /\ Destroys(u, p)' <=> Destroys(u, p)
            /\ Destroys(u, p) => u # t
      BY <1>1, <1>2, <2>3, ProxiesAssumption DEF TypeOK, Destroys, Destroying
    <3>2. \A p \in Proxies : /\ m_cRef[p] = 0 => m_cRef'[p] = 0 /\ p # q
                             /\ m_cRef'[p] = 0 => m_cRef[p] = 0
      BY <1>1, <2>3 DEF TypeOK
    <3>3. \A u \in Threads : u # t => pc'[u] = pc[u]
      BY <1>1, <2>3 DEF TypeOK
    <3> QED
      BY <1>1, <2>3, <3>1, <3>2, <3>3 DEF Unresurrected
  <2> QED
    BY <2>4, <2>5, <2>6, <2>7, <2>8 DEF IInv
<1> QED
  BY <1>4, <1>5

(* The new proxy is the entry of its address: while the lock was kept      *)
(* nobody made another.                                                    *)
LEMMA CreateObjectKeeps ==
    ASSUME IInv, NEW t \in Threads, S_CreateObject(t)
    PROVE  IInv'
<1>1. TypeOK /\ Shape /\ Used /\ CountsExact /\ Unresurrected
  BY DEF IInv
<1>2. /\ pc[t] = "create" /\ this[t] = NoProxy /\ holds[t] = NoProxy
      /\ g_marshalLock = t /\ imports = <<>>
  BY <1>1, ThreadsAssumption DEF S_CreateObject, At, Shape
<1>3. PICK q \in Proxies :
        /\ memory[q] = "unused"
        /\ memory' = [memory EXCEPT ![q] = "live"]
        /\ m_cRef' = [m_cRef EXCEPT ![q] = 1]
        /\ imports' = <<q>> \o imports
        /\ this' = [this EXCEPT ![t] = q]
  BY DEF S_CreateObject
<1>4. /\ imports' = <<q>> /\ g_marshalLock' = NoThread
      /\ pc' = [pc EXCEPT ![t] = "get_interface"]
      /\ UNCHANGED <<holds, resurrected>>
  BY <1>2, <1>3, OneEntry DEF S_CreateObject, Goto
<1>5. OthersStay(t)
  BY <1>1, <1>3, <1>4 DEF TypeOK, OthersStay
<1>6. \A u \in Threads : this[u] # q /\ holds[u] # q
  BY <1>1, <1>3 DEF Used
<1>7. TypeOK'
  BY <1>1, <1>3, <1>4, OneEntry DEF TypeOK, PCs
<1>8. Shape'
  BY <1>1, <1>2, <1>3, <1>4, ProxiesAssumption, ThreadsAssumption DEF TypeOK, Shape
<1>9. Used'
  <2>1. \A u \in Threads, p \in Proxies : u # t => holds[u] # p /\ ~Owns(u, p)
    BY <1>1, <1>2, OneEntry DEF Used
  <2>2. \A p \in Proxies : <<p>> = <<q>> => p = q
    BY OneEntry
  <2> QED
    BY <1>1, <1>2, <1>3, <1>4, <1>6, <2>1, <2>2, ProxiesAssumption DEF TypeOK, Used, Owns, Counted
<1>10. CountsExact'
  <2>1. \A p \in Proxies : Cardinality(RefsOf(p)') = Cardinality(RefsOf(p)) + One(p = q)
    <3> SUFFICES ASSUME NEW p \in Proxies
                 PROVE  Cardinality(RefsOf(p)') = Cardinality(RefsOf(p)) + One(p = q)
      OBVIOUS
    <3>1. /\ ~Owns(t, p) /\ holds'[t] = holds[t]
          /\ this'[t] = p /\ pc'[t] \in Counted <=> p = q
      BY <1>1, <1>2, <1>3, <1>4, ProxiesAssumption DEF Owns, Counted, TypeOK
    <3> QED
      BY <1>5, <3>1, RefsMove, CountSays DEF One
  <2>2. Cardinality(RefsOf(q)) = 0
    BY <1>6, CountSays DEF Owns
  <2> QED
    BY <1>1, <1>3, <2>1, <2>2, CountSays DEF CountsExact, TypeOK, One
<1>11. Unresurrected'
  <2>1. \A u \in Threads, p \in Proxies :
          /\ Destroys(u, p)' <=> Destroys(u, p)
          /\ Destroys(u, p) => u # t /\ p # q
    BY <1>1, <1>2, <1>3, <1>4, <1>6, ProxiesAssumption DEF TypeOK, Destroys, Destroying
  <2>2. \A p \in Proxies : /\ p # q => m_cRef'[p] = m_cRef[p] /\ memory'[p] = memory[p]
                           /\ <<>> # <<p>>
    BY <1>1, <1>3, OneEntry DEF TypeOK
  <2>3. \A u \in Threads : u # t => pc'[u] = pc[u]
    BY <1>1, <1>4 DEF TypeOK
  <2>4. m_cRef'[q] = 1
    BY <1>1, <1>3 DEF TypeOK
  <2> QED
    BY <1>1, <1>2, <1>4, <2>1, <2>2, <2>3, <2>4 DEF Unresurrected
<1> QED
  BY <1>7, <1>8, <1>9, <1>10, <1>11 DEF IInv

(* The error exit deletes a proxy that nothing refers to.                  *)
LEMMA CreateFailsKeeps ==
    ASSUME IInv, NEW t \in Threads, CreateFails(t)
    PROVE  IInv'
<1>1. TypeOK /\ Shape /\ Used /\ CountsExact /\ Unresurrected
  BY DEF IInv
<1>2. /\ pc[t] = "create" /\ this[t] = NoProxy /\ g_marshalLock = t /\ imports = <<>>
  BY <1>1, ThreadsAssumption DEF CreateFails, At, Shape
<1>3. PICK q \in Proxies :
        memory[q] = "unused" /\ memory' = [memory EXCEPT ![q] = "deleted"]
  BY DEF CreateFails
<1>4. /\ pc' = [pc EXCEPT ![t] = "idle"] /\ this' = this /\ g_marshalLock' = NoThread
      /\ UNCHANGED <<imports, m_cRef, holds, resurrected>>
  BY <1>1, <1>2 DEF CreateFails, Return, Goto, TypeOK
<1>5. OthersStay(t)
  BY <1>1, <1>4 DEF TypeOK, OthersStay
<1>6. \A u \in Threads : this[u] # q /\ holds[u] # q
  BY <1>1, <1>3 DEF Used
<1>7. TypeOK' /\ Shape'
  BY <1>1, <1>2, <1>3, <1>4, ProxiesAssumption, ThreadsAssumption DEF TypeOK, PCs, Shape
<1>8. Used'
  BY <1>1, <1>2, <1>3, <1>4, <1>6, ProxiesAssumption DEF TypeOK, Used, Owns, Counted
<1>9. CountsExact'
  <2>1. \A p \in Proxies : Cardinality(RefsOf(p)') = Cardinality(RefsOf(p))
    <3> SUFFICES ASSUME NEW p \in Proxies
                 PROVE  Cardinality(RefsOf(p)') = Cardinality(RefsOf(p))
      OBVIOUS
    <3>1. ~Owns(t, p) /\ this'[t] # p /\ holds'[t] = holds[t]
      BY <1>2, <1>4, ProxiesAssumption DEF Owns
    <3> QED
      BY <1>5, <3>1, RefsMove, CountSays DEF One
  <2> QED
    BY <1>1, <1>3, <1>4, <2>1 DEF CountsExact, TypeOK
<1>10. Unresurrected'
  <2>1. \A u \in Threads, p \in Proxies :
          /\ Destroys(u, p)' <=> Destroys(u, p)
          /\ Destroys(u, p) => u # t /\ p # q
    BY <1>1, <1>2, <1>4, <1>6, ProxiesAssumption DEF TypeOK, Destroys, Destroying
  <2> QED
    BY <1>1, <1>3, <1>4, <2>1 DEF Unresurrected, TypeOK
<1> QED
  BY <1>7, <1>8, <1>9, <1>10 DEF IInv
-----------------------------------------------------------------------------
(* A reference more to a proxy that has one: GetInterface and AddRef.      *)
LEMMA OneMoreKeeps ==
    ASSUME IInv, NEW t \in Threads, NEW s \in Threads, NEW q \in Proxies, NEW to \in PCs,
           holds[t] = NoProxy, holds[s] = q \/ Owns(s, q),
           (to = pc[t] /\ pc[t] = "idle") \/ (to = "release" /\ pc[t] = "get_interface"),
           m_cRef' = [m_cRef EXCEPT ![q] = @ + 1], holds' = [holds EXCEPT ![t] = q],
           pc' = [pc EXCEPT ![t] = to],
           UNCHANGED <<g_marshalLock, imports, memory, this, resurrected>>
    PROVE  IInv'
<1>1. TypeOK /\ Shape /\ Used /\ CountsExact /\ Unresurrected
  BY DEF IInv
<1>2. OthersStay(t)
  BY <1>1 DEF TypeOK, OthersStay
<1>3. memory[q] = "live" /\ imports = <<q>> /\ m_cRef[q] # 0
  BY <1>1, CountSays DEF Used, CountsExact
<1>4. TypeOK' /\ Shape'
  BY <1>1, ThreadsAssumption, ProxiesAssumption DEF TypeOK, PCs, Shape
<1>5. Used'
  BY <1>1, <1>3 DEF TypeOK, PCs, Used, Owns, Counted
<1>6. CountsExact'
  <2>1. \A p \in Proxies : Cardinality(RefsOf(p)') = Cardinality(RefsOf(p)) + One(p = q)
    <3> SUFFICES ASSUME NEW p \in Proxies
                 PROVE  Cardinality(RefsOf(p)') = Cardinality(RefsOf(p)) + One(p = q)
      OBVIOUS
    <3>1. /\ Owns(t, p) <=> this'[t] = p /\ pc'[t] \in Counted
          /\ holds[t] # p /\ (holds'[t] = p <=> p = q)
      BY <1>1, ProxiesAssumption DEF Owns, Counted, TypeOK, PCs, Shape
    <3> QED
      BY <1>2, <3>1, RefsMove, CountSays DEF One
  <2> QED
    BY <1>1, <2>1, CountSays DEF CountsExact, TypeOK, One
<1>7. Unresurrected'
  <2>1. \A u \in Threads, p \in Proxies :
          /\ Destroys(u, p)' <=> Destroys(u, p)
          /\ Destroys(u, p) => u # t
    BY <1>1 DEF TypeOK, Destroys, Destroying
  <2>2. \A p \in Proxies : /\ m_cRef[p] = 0 => m_cRef'[p] = 0
                           /\ m_cRef'[p] = 0 => m_cRef[p] = 0
    BY <1>1, <1>3 DEF TypeOK
  <2>3. \A u \in Threads : u # t => pc'[u] = pc[u]
    BY <1>1 DEF TypeOK
  <2> QED
    BY <1>1, <2>1, <2>2, <2>3 DEF Unresurrected
<1> QED
  BY <1>4, <1>5, <1>6, <1>7 DEF IInv

(* A copy of a reference.                                                  *)
LEMMA AddRefKeeps ==
    ASSUME IInv, NEW t \in Threads, NEW s \in Threads, AddRef(t, s)
    PROVE  IInv'
<1>1. TypeOK
  BY DEF IInv
<1>2. PICK q \in Proxies : holds[s] = q
  BY <1>1 DEF TypeOK, AddRef
<1>3. pc' = [pc EXCEPT ![t] = "idle"]
  BY <1>1 DEF TypeOK, AddRef, At
<1>4. /\ holds[t] = NoProxy /\ pc[t] = "idle"
      /\ m_cRef' = [m_cRef EXCEPT ![q] = @ + 1] /\ holds' = [holds EXCEPT ![t] = q]
      /\ UNCHANGED <<g_marshalLock, imports, memory, this, resurrected>>
  BY <1>2 DEF AddRef, At
<1>5. "idle" \in PCs
  BY DEF PCs
<1> QED
  BY <1>2, <1>3, <1>4, <1>5, OneMoreKeeps

(* The reference that is dropped is the one Release gives back.            *)
LEMMA MoveKeeps ==
    ASSUME IInv, NEW t \in Threads, NEW q \in Proxies,
           \/ holds[t] = q /\ pc[t] = "idle" /\ holds' = [holds EXCEPT ![t] = NoProxy]
           \/ Owns(t, q) /\ holds' = holds,
           this' = [this EXCEPT ![t] = q], pc' = [pc EXCEPT ![t] = "release"],
           UNCHANGED <<g_marshalLock, imports, m_cRef, memory, resurrected>>
    PROVE  IInv'
<1>1. TypeOK /\ Shape /\ Used /\ CountsExact /\ Unresurrected
  BY DEF IInv
<1>2. OthersStay(t)
  BY <1>1 DEF TypeOK, OthersStay
<1>3. memory[q] = "live" /\ imports = <<q>>
  BY <1>1 DEF Used
<1>4. TypeOK' /\ Shape'
  BY <1>1, <1>3, ThreadsAssumption, ProxiesAssumption DEF TypeOK, PCs, Shape, Owns, Counted
<1>5. Used'
  BY <1>1, <1>3, ProxiesAssumption DEF TypeOK, PCs, Used, Owns, Counted
<1>6. CountsExact'
  <2>1. \A p \in Proxies : Cardinality(RefsOf(p)') = Cardinality(RefsOf(p))
    <3> SUFFICES ASSUME NEW p \in Proxies
                 PROVE  Cardinality(RefsOf(p)') = Cardinality(RefsOf(p))
      OBVIOUS
    <3>1. /\ this'[t] = p /\ pc'[t] \in Counted <=> p = q
          /\ \/ (holds[t] = p <=> p = q) /\ holds'[t] # p /\ ~Owns(t, p)
             \/ holds'[t] = holds[t] /\ (Owns(t, p) <=> p = q)
      BY <1>1, ProxiesAssumption DEF Owns, Counted, TypeOK
    <3> QED
      BY <1>2, <3>1, RefsMove, CountSays DEF One
  <2> QED
    BY <1>1, <2>1 DEF CountsExact
<1>7. Unresurrected'
  <2>1. \A u \in Threads, p \in Proxies :
          /\ Destroys(u, p)' <=> Destroys(u, p)
          /\ Destroys(u, p) => u # t
    BY <1>1 DEF TypeOK, Destroys, Destroying, Owns, Counted
  <2>2. \A u \in Threads : u # t => pc'[u] = pc[u]
    BY <1>1 DEF TypeOK
  <2> QED
    BY <1>1, <2>1, <2>2 DEF Unresurrected
<1> QED
  BY <1>4, <1>5, <1>6, <1>7 DEF IInv

(* The user's reference becomes that of Release.                           *)
LEMMA DropKeeps ==
    ASSUME IInv, NEW t \in Threads, Drop(t)
    PROVE  IInv'
<1>1. TypeOK
  BY DEF IInv
<1>2. PICK q \in Proxies : holds[t] = q
  BY <1>1 DEF TypeOK, Drop
<1>3. /\ pc[t] = "idle" /\ holds' = [holds EXCEPT ![t] = NoProxy]
      /\ this' = [this EXCEPT ![t] = q] /\ pc' = [pc EXCEPT ![t] = "release"]
      /\ UNCHANGED <<g_marshalLock, imports, m_cRef, memory, resurrected>>
  BY <1>2 DEF Drop, At, Goto
<1> QED
  BY <1>2, <1>3, MoveKeeps

(* The interface is given with a reference, or none is.                    *)
LEMMA GetInterfaceKeeps ==
    ASSUME IInv, NEW t \in Threads, GetInterface(t)
    PROVE  IInv'
<1>1. TypeOK /\ Shape
  BY DEF IInv
<1>2. pc[t] = "get_interface" /\ holds[t] = NoProxy
  BY <1>1 DEF GetInterface, At, Shape
<1>3. PICK q \in Proxies : this[t] = q
  BY <1>1, <1>2 DEF TypeOK, Shape
<1>4. Owns(t, q) /\ this' = [this EXCEPT ![t] = q]
  BY <1>1, <1>2, <1>3 DEF Owns, Counted, GetInterface, TypeOK
<1>5. CASE m_cRef' = [m_cRef EXCEPT ![this[t]] = @ + 1] /\ holds' = [holds EXCEPT ![t] = this[t]]
  BY <1>2, <1>3, <1>4, <1>5, OneMoreKeeps DEF GetInterface, Goto, PCs
<1>6. CASE UNCHANGED <<m_cRef, holds>>
  BY <1>3, <1>4, <1>6, MoveKeeps DEF GetInterface, Goto
<1> QED
  BY <1>5, <1>6 DEF GetInterface
-----------------------------------------------------------------------------
(* Release: the thread that takes the count to 0 destroys the proxy.       *)
LEMMA ReleaseKeeps ==
    ASSUME IInv, NEW t \in Threads, Release(t)
    PROVE  IInv'
<1>1. TypeOK /\ Shape /\ Used /\ CountsExact /\ Unresurrected
  BY DEF IInv
<1>2. PICK q \in Proxies : this[t] = q
  BY <1>1 DEF Release, At, Shape, TypeOK
<1>3. /\ pc[t] = "release" /\ Owns(t, q) /\ memory[q] = "live" /\ imports = <<q>>
  BY <1>1, <1>2 DEF Release, At, Owns, Counted, Used
<1>4. m_cRef[q] = Cardinality(RefsOf(q)) /\ m_cRef[q] \in Nat /\ m_cRef[q] # 0
  BY <1>1, <1>3, CountSays DEF CountsExact
<1>5. /\ m_cRef' = [m_cRef EXCEPT ![q] = @ - 1]
      /\ m_cRef[q] = 1 => this' = this /\ pc' = [pc EXCEPT ![t] = "unregister"]
      /\ m_cRef[q] # 1 => /\ this' = [this EXCEPT ![t] = NoProxy]
                          /\ pc' = [pc EXCEPT ![t] = "idle"]
      /\ UNCHANGED <<g_marshalLock, imports, memory, holds, resurrected>>
  BY <1>2 DEF Release, Return, Goto
<1>6. OthersStay(t)
  BY <1>1, <1>5 DEF TypeOK, OthersStay
<1>7. TypeOK'
  <2>1. m_cRef' \in [Proxies -> Nat]
    BY <1>1, <1>4, <1>5 DEF TypeOK
  <2> QED
    BY <1>1, <1>5, <2>1 DEF TypeOK, PCs, Destroying
<1>8. Shape'
  BY <1>1, <1>2, <1>3, <1>5, ThreadsAssumption, ProxiesAssumption DEF TypeOK, Shape
<1>9. Used'
  BY <1>1, <1>2, <1>3, <1>5, ProxiesAssumption DEF TypeOK, Used, Owns, Counted
<1>10. CountsExact'
  <2>1. \A p \in Proxies : Cardinality(RefsOf(p)') = Cardinality(RefsOf(p)) - One(p = q)
    <3> SUFFICES ASSUME NEW p \in Proxies
                 PROVE  Cardinality(RefsOf(p)') = Cardinality(RefsOf(p)) - One(p = q)
      OBVIOUS
    <3>1. /\ ~(this'[t] = p /\ pc'[t] \in Counted) /\ holds'[t] = holds[t]
          /\ Owns(t, p) <=> p = q
      BY <1>1, <1>2, <1>3, <1>5, ProxiesAssumption DEF Owns, Counted, TypeOK
    <3> QED
      BY <1>6, <3>1, RefsMove, CountSays DEF One
  <2> QED
    BY <1>1, <1>4, <1>5, <2>1, CountSays DEF CountsExact, TypeOK, One
<1>11. Unresurrected'
  <2> SUFFICES ASSUME ~resurrected PROVE Unresurrected'
    BY <1>5 DEF Unresurrected
  <2>1. \A u \in Threads, p \in Proxies : Destroys(u, p) => u # t /\ p # q
    BY <1>1, <1>3, <1>4 DEF Unresurrected, Destroys, Destroying
  <2>2. \A u \in Threads, p \in Proxies :
          Destroys(u, p)' <=> (Destroys(u, p) \/ (u = t /\ p = q /\ m_cRef[q] = 1))
    BY <1>1, <1>2, <1>3, <1>5, ProxiesAssumption DEF TypeOK, Destroys, Destroying
  <2>3. \A u \in Threads : u # t => pc'[u] = pc[u]
    BY <1>1, <1>5 DEF TypeOK
  <2>4. /\ m_cRef'[q] = 0 <=> m_cRef[q] = 1
        /\ \A p \in Proxies : p # q => m_cRef'[p] = m_cRef[p]
    BY <1>1, <1>4, <1>5 DEF TypeOK
  <2> QED
    BY <1>1, <1>3, <1>5, <2>1, <2>2, <2>3, <2>4 DEF Unresurrected
<1> QED
  BY <1>7, <1>8, <1>9, <1>10, <1>11 DEF IInv

(* What the last three steps of Release have in common: t stays a          *)
(* destroyer of its proxy or stops being one, and no count changes.        *)
LEMMA DestroyerCounts ==
    ASSUME IInv, NEW t \in Threads, pc[t] \in Destroying, OthersStay(t),
           holds' = holds, m_cRef' = m_cRef, pc'[t] \notin Counted,
           \A p \in Proxies : memory'[p] = "live" => memory[p] = "live"
    PROVE  CountsExact'
<1>1. \A p \in Proxies : Cardinality(RefsOf(p)') = Cardinality(RefsOf(p))
  <2> SUFFICES ASSUME NEW p \in Proxies
               PROVE  Cardinality(RefsOf(p)') = Cardinality(RefsOf(p))
    OBVIOUS
  <2>1. ~(this'[t] = p /\ pc'[t] \in Counted) /\ holds'[t] = holds[t] /\ ~Owns(t, p)
    BY DEF Owns, Counted, Destroying
  <2> QED
    BY <2>1, RefsMove, CountSays DEF One
<1> QED
  BY <1>1 DEF IInv, CountsExact

(* The entry is taken out by a thread that finds its proxy unreferenced.   *)
LEMMA UnregisterKeeps ==
    ASSUME IInv, NEW t \in Threads, UnregisterImportObject(t)
    PROVE  IInv'
<1>1. TypeOK /\ Shape /\ Used /\ CountsExact /\ Unresurrected
  BY DEF IInv
<1>2. PICK q \in Proxies : this[t] = q
  BY <1>1 DEF UnregisterImportObject, At, Shape, TypeOK
<1>3. /\ pc[t] = "unregister" /\ memory[q] = "live" /\ Destroys(t, q)
      /\ UNCHANGED <<g_marshalLock, m_cRef, memory, holds, resurrected>>
  BY <1>2, ProxiesAssumption DEF UnregisterImportObject, At, Destroys, Destroying
<1>4. \/ /\ imports' = <<>> /\ pc' = [pc EXCEPT ![t] = "send_release"] /\ this' = this
         /\ \A r \in Proxies : imports = <<r>> => memory[r] = "live" /\ m_cRef[r] = 0
      \/ /\ imports' = imports /\ pc' = [pc EXCEPT ![t] = "idle"]
         /\ this' = [this EXCEPT ![t] = NoProxy]
         /\ \E r \in Proxies : imports = <<r>> /\ m_cRef[r] # 0
  <2>1. CASE imports = <<>>
    BY <2>1, OneEntry DEF UnregisterImportObject, Goto
  <2>2. ASSUME NEW r \in Proxies, imports = <<r>> PROVE <1>4!:
    <3>1. imports # <<>> /\ Head(imports) = r /\ Tail(imports) = <<>>
      BY <2>2, OneEntry
    <3> QED
      BY <2>2, <3>1, OneEntry DEF UnregisterImportObject, Return, Goto
  <2> QED
    BY <1>1, <2>1, <2>2 DEF Shape
<1>5. OthersStay(t)
  BY <1>1, <1>3, <1>4 DEF TypeOK, OthersStay
<1>6. TypeOK' /\ Shape'
  <2>1. TypeOK'
    <3>1. imports' \in Seq(Proxies)
      BY <1>1, <1>4, NoEntry DEF TypeOK
    <3>2. pc' \in [Threads -> PCs] /\ this' \in [Threads -> Proxies \cup {NoProxy}]
      BY <1>1, <1>4 DEF TypeOK, PCs, Destroying
    <3> QED
      BY <1>1, <1>3, <3>1, <3>2 DEF TypeOK
  <2>2. Shape'
    BY <1>1, <1>2, <1>3, <1>4, ThreadsAssumption, ProxiesAssumption DEF TypeOK, Shape
  <2> QED
    BY <2>1, <2>2
<1>7. Used'
  <2>1. \A r \in Proxies : memory[r] = "live" /\ m_cRef[r] = 0 =>
          \A u \in Threads : holds[u] # r /\ ~Owns(u, r)
    BY <1>1, CountSays DEF CountsExact
  <2>2. \A p, r \in Proxies : <<p>> = <<r>> => p = r
    BY OneEntry
  <2>3. \A u \in Threads, p \in Proxies : Owns(u, p)' => Owns(u, p) /\ this'[u] = this[u]
    BY <1>1, <1>3, <1>4 DEF TypeOK, Owns, Counted
  <2>4. \A p \in Proxies : <<>> # <<p>>
    BY OneEntry
  <2>5. CASE imports' = <<>>
    <3>1. \A u \in Threads, p \in Proxies : holds[u] # p /\ ~Owns(u, p)
      BY <1>1, <1>4, <2>1, <2>2, <2>4, <2>5 DEF Used, Shape
    <3> QED
      BY <1>1, <1>3, <1>4, <2>3, <2>4, <2>5, <3>1, ProxiesAssumption DEF TypeOK, Used
  <2>6. CASE imports' = imports /\ pc' = [pc EXCEPT ![t] = "idle"]
    BY <1>1, <1>3, <1>4, <2>3, <2>6, ProxiesAssumption DEF TypeOK, Used
  <2> QED
    BY <1>4, <2>5, <2>6
<1>8. CountsExact'
  BY <1>1, <1>3, <1>4, <1>5, DestroyerCounts DEF TypeOK, Counted, Destroying
<1>9. Unresurrected'
  <2> SUFFICES ASSUME ~resurrected PROVE Unresurrected'
    BY <1>3 DEF Unresurrected
  <2>1. imports = <<q>> /\ m_cRef[q] = 0 /\ \A u \in Threads : Destroys(u, q) => u = t
    BY <1>1, <1>3 DEF Unresurrected
  <2>2. imports' = <<>> /\ pc' = [pc EXCEPT ![t] = "send_release"] /\ this' = this
    BY <1>4, <2>1, OneEntry
  <2>3. \A u \in Threads, p \in Proxies : Destroys(u, p)' <=> Destroys(u, p)
    BY <1>1, <1>2, <1>3, <2>2 DEF TypeOK, Destroys, Destroying
  <2>4. \A u \in Threads, p \in Proxies : Destroys(u, p) /\ pc'[u] = "unregister" => FALSE
    <3>1. \A u \in Threads, p \in Proxies : Destroys(u, p) /\ pc[u] = "unregister" => p = q
      BY <1>1, <2>1, OneEntry DEF Unresurrected
    <3> QED
      BY <1>1, <2>1, <2>2, <3>1 DEF TypeOK
  <2> QED
    BY <1>1, <1>3, <2>3, <2>4 DEF Unresurrected
<1> QED
  BY <1>6, <1>7, <1>8, <1>9 DEF IInv

(* RELEASE is sent.                                                        *)
LEMMA SendReleaseKeeps ==
    ASSUME IInv, NEW t \in Threads, SendRelease(t)
    PROVE  IInv'
<1>1. TypeOK /\ Shape /\ Used /\ CountsExact /\ Unresurrected
  BY DEF IInv
<1>2. /\ pc[t] = "send_release" /\ pc' = [pc EXCEPT ![t] = "delete"]
      /\ UNCHANGED <<g_marshalLock, imports, m_cRef, memory, this, holds, resurrected>>
  BY DEF SendRelease, At, Goto
<1>3. TypeOK' /\ Shape'
  BY <1>1, <1>2, ThreadsAssumption DEF TypeOK, PCs, Destroying, Shape
<1>4. Used'
  BY <1>1, <1>2 DEF TypeOK, Used, Owns, Counted
<1>5. CountsExact'
  BY <1>1, <1>2, DestroyerCounts DEF TypeOK, Counted, Destroying, OthersStay
<1>6. Unresurrected'
  BY <1>1, <1>2 DEF TypeOK, Unresurrected, Destroys, Destroying
<1> QED
  BY <1>3, <1>4, <1>5, <1>6 DEF IInv

(* delete this: nobody has a reference to the proxy.                       *)
LEMMA DeleteThisKeeps ==
    ASSUME IInv, NEW t \in Threads, DeleteThis(t)
    PROVE  IInv'
<1>1. TypeOK /\ Shape /\ Used /\ CountsExact /\ Unresurrected
  BY DEF IInv
<1>2. PICK q \in Proxies : this[t] = q
  BY <1>1 DEF DeleteThis, At, Shape, TypeOK
<1>3. /\ pc[t] = "delete" /\ memory[q] = "live" /\ Destroys(t, q)
      /\ memory' = [memory EXCEPT ![q] = "deleted"]
      /\ pc' = [pc EXCEPT ![t] = "idle"] /\ this' = [this EXCEPT ![t] = NoProxy]
      /\ UNCHANGED <<g_marshalLock, imports, m_cRef, holds, resurrected>>
  BY <1>2, ProxiesAssumption DEF DeleteThis, At, Return, Goto, Destroys, Destroying
<1>4. imports # <<q>> /\ \A u \in Threads : holds[u] # q /\ ~Owns(u, q)
  BY <1>1, <1>2, <1>3 DEF Used
<1>5. OthersStay(t)
  BY <1>1, <1>3 DEF TypeOK, OthersStay
<1>6. TypeOK' /\ Shape'
  <2>1. TypeOK'
    BY <1>1, <1>3 DEF TypeOK, PCs
  <2>2. Shape'
    BY <1>1, <1>2, <1>3, <1>4, ThreadsAssumption, ProxiesAssumption DEF TypeOK, Shape
  <2> QED
    BY <2>1, <2>2
<1>7. Used'
  BY <1>1, <1>3, <1>4, ProxiesAssumption DEF TypeOK, Used, Owns, Counted
<1>8. CountsExact'
  <2>1. \A p \in Proxies : memory'[p] = "live" => memory[p] = "live"
    BY <1>1, <1>3 DEF TypeOK
  <2> QED
    BY <1>1, <1>3, <1>5, <2>1, DestroyerCounts DEF TypeOK, Counted, Destroying
<1>9. Unresurrected'
  <2> SUFFICES ASSUME ~resurrected PROVE Unresurrected'
    BY <1>3 DEF Unresurrected
  <2>1. \A u \in Threads : Destroys(u, q) => u = t
    BY <1>1, <1>3 DEF Unresurrected
  <2>2. \A u \in Threads, p \in Proxies : Destroys(u, p)' <=> Destroys(u, p) /\ u # t
    BY <1>1, <1>3, ProxiesAssumption DEF TypeOK, Destroys, Destroying
  <2>3. \A p \in Proxies : /\ p # q => memory'[p] = memory[p] /\ (Destroys(t, p) => FALSE)
                           /\ memory'[q] = "deleted"
    BY <1>1, <1>2, <1>3 DEF TypeOK, Destroys
  <2>4. \A u \in Threads : u # t => pc'[u] = pc[u]
    BY <1>1, <1>3 DEF TypeOK
  <2> QED
    BY <1>1, <1>3, <2>1, <2>2, <2>3, <2>4 DEF Unresurrected
<1> QED
  BY <1>6, <1>7, <1>8, <1>9 DEF IInv
-----------------------------------------------------------------------------
(* The invariant of ProxyTable.                                            *)
THEOREM Invariance == Spec => []IInv
<1>1. Init => IInv
  <2> SUFFICES ASSUME Init PROVE IInv
    OBVIOUS
  <2>1. TypeOK /\ Shape
    <3>1. imports \in Seq(Proxies)
      BY NoEntry DEF Init
    <3> QED
      BY <3>1, ThreadsAssumption DEF Init, TypeOK, PCs, Shape
  <2>2. Used /\ Unresurrected
    BY ProxiesAssumption
    DEF Init, Used, Unresurrected, Owns, Counted, Destroys, Destroying
  <2>3. CountsExact
    BY DEF Init, CountsExact
  <2> QED
    BY <2>1, <2>2, <2>3 DEF IInv
<1>2. IInv /\ [Next]_vars => IInv'
  <2> SUFFICES ASSUME IInv, [Next]_vars PROVE IInv'
    OBVIOUS
  <2>1. CASE UNCHANGED vars
    BY <2>1 DEF vars, IInv, TypeOK, Shape, Used, CountsExact, Unresurrected, RefsOf,
       Owns, Destroys
  <2>2. ASSUME NEW t \in Threads,
               \/ FindImportObject(t) \/ S_CreateObject(t) \/ CreateFails(t) \/ GetInterface(t)
               \/ \E s \in Threads : AddRef(t, s)
               \/ Drop(t) \/ Release(t) \/ UnregisterImportObject(t)
               \/ SendRelease(t) \/ DeleteThis(t)
        PROVE  IInv'
    BY <2>2, FindImportObjectKeeps, CreateObjectKeeps, CreateFailsKeeps, GetInterfaceKeeps,
       AddRefKeeps, DropKeeps, ReleaseKeeps, UnregisterKeeps, SendReleaseKeeps, DeleteThisKeeps
  <2> QED
    BY <2>1, <2>2 DEF Next
<1> QED
  BY <1>1, <1>2, PTL DEF Spec

(* Every variable keeps its type: above all, no count goes below zero.     *)
THEOREM TypeCorrect == Spec => []TypeOK
  BY Invariance, PTL DEF IInv

(* m_cRef of a live proxy is the number of references to it.               *)
THEOREM CountsAreExact == Spec => []CountsExact
  BY Invariance, PTL DEF IInv

(* A proxy with a reference to it is live and is alone in the table.       *)
THEOREM HeldProxiesAreUsable == Spec => []HeldProxyUsable
<1>1. IInv => HeldProxyUsable
  BY DEF IInv, TypeOK, Used, HeldProxyUsable
<1> QED
  BY <1>1, Invariance, PTL

(* A proxy is taken apart twice, or forgotten, only after a resurrection.  *)
THEOREM SafeWithoutResurrection == Spec => []SafeUnlessResurrected
<1>1. IInv => SafeUnlessResurrected
  <2> SUFFICES ASSUME IInv, ~resurrected PROVE NoUseAfterDelete /\ OneDestroyer /\ NoOrphan
    BY DEF SafeUnlessResurrected
  <2>1. TypeOK /\ Shape /\ Used /\ Unresurrected
    BY DEF IInv
  <2>2. \A t \in Threads : this[t] # NoProxy =>
          this[t] \in Proxies /\ (Owns(t, this[t]) \/ Destroys(t, this[t]))
    BY <2>1 DEF TypeOK, PCs, Shape, Owns, Counted, Destroys
  <2>3. NoUseAfterDelete
    BY <2>1, <2>2 DEF Used, Unresurrected, NoUseAfterDelete
  <2>4. OneDestroyer
    <3>1. \A t \in Threads : pc[t] \in Destroying => Destroys(t, this[t]) /\ this[t] \in Proxies
      BY <2>1 DEF TypeOK, Shape, Destroys, Destroying
    <3> QED
      BY <2>1, <3>1 DEF Unresurrected, OneDestroyer, Destroys, Destroying
  <2>5. NoOrphan
    BY <2>1 DEF TypeOK, Unresurrected, NoOrphan, Destroys
  <2> QED
    BY <2>3, <2>4, <2>5
<1> QED
  BY <1>1, Invariance, PTL
=============================================================================

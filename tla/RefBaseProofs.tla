--------------------------- MODULE RefBaseProofs ---------------------------
(***************************************************************************)
(* Proofs about RefBase for any finite set of clients.  Two layers: the    *)
(* counts are exact whatever the callers do; on top of that, memory safety *)
(* when no object with the STRONG lifetime hands out a weak reference      *)
(* before its first strong one.                                            *)
(***************************************************************************)
EXTENDS RefBase, FiniteSetTheorems, TLAPS

Delta(p, set) == IF p \in set THEN 1 ELSE 0

(* The sets of references are finite, and smaller than the bias of mStrong.*)
LEMMA CardFacts ==
    /\ IsFiniteSet(StrongRefs) /\ IsFiniteSet(WeakRefs)
    /\ Cardinality(StrongRefs) \in Nat /\ Cardinality(WeakRefs) \in Nat
    /\ Cardinality(StrongRefs) < INITIAL_STRONG_VALUE
    /\ Cardinality(StrongRefs) = 0 <=> StrongRefs = {}
    /\ Cardinality(WeakRefs) = 0 <=> WeakRefs = {}
    /\ INITIAL_STRONG_VALUE \in Nat
<1>1. StrongRefs \in SUBSET Clients /\ WeakRefs \in SUBSET Clients
  BY DEF StrongRefs, WeakRefs
<1>2. /\ IsFiniteSet(StrongRefs) /\ IsFiniteSet(WeakRefs)
      /\ Cardinality(StrongRefs) <= Cardinality(Clients)
  BY <1>1, FS_Subset, ClientsAssumption
<1>3. /\ Cardinality(StrongRefs) \in Nat /\ Cardinality(WeakRefs) \in Nat
      /\ Cardinality(Clients) \in Nat
  BY <1>2, FS_CardinalityType, ClientsAssumption
<1>4. /\ Cardinality(StrongRefs) = 0 <=> StrongRefs = {}
      /\ Cardinality(WeakRefs) = 0 <=> WeakRefs = {}
  BY <1>2, FS_EmptySet
<1> QED
  BY <1>2, <1>3, <1>4, InitialStrongAssumption

(* Moving one client changes the number of strong references by that       *)
(* client's share.                                                         *)
LEMMA StrongMove ==
    ASSUME pc \in [Clients -> PCs], NEW c \in Clients, NEW to \in PCs, Goto(c, to)
    PROVE  Cardinality(StrongRefs') =
             Cardinality(StrongRefs) + Delta(to, CountedStrong) - Delta(pc[c], CountedStrong)
<1>1. CASE to \in CountedStrong
  <2>1. StrongRefs' = StrongRefs \cup {c}
    BY <1>1 DEF StrongRefs, Goto
  <2>2. c \in StrongRefs <=> pc[c] \in CountedStrong
    BY DEF StrongRefs
  <2>3. Cardinality(StrongRefs \cup {c}) =
          IF c \in StrongRefs THEN Cardinality(StrongRefs) ELSE Cardinality(StrongRefs) + 1
    BY FS_AddElement, CardFacts
  <2> QED
    BY <1>1, <2>1, <2>2, <2>3, CardFacts DEF Delta
<1>2. CASE to \notin CountedStrong
  <2>1. StrongRefs' = StrongRefs \ {c}
    BY <1>2 DEF StrongRefs, Goto
  <2>2. c \in StrongRefs <=> pc[c] \in CountedStrong
    BY DEF StrongRefs
  <2>3. Cardinality(StrongRefs \ {c}) =
          IF c \in StrongRefs THEN Cardinality(StrongRefs) - 1 ELSE Cardinality(StrongRefs)
    BY FS_RemoveElement, CardFacts
  <2> QED
    BY <1>2, <2>1, <2>2, <2>3, CardFacts DEF Delta
<1> QED
  BY <1>1, <1>2

(* The same for the weak references.                                       *)
LEMMA WeakMove ==
    ASSUME pc \in [Clients -> PCs], NEW c \in Clients, NEW to \in PCs, Goto(c, to)
    PROVE  Cardinality(WeakRefs') =
             Cardinality(WeakRefs) + Delta(to, CountedWeak) - Delta(pc[c], CountedWeak)
<1>1. CASE to \in CountedWeak
  <2>1. WeakRefs' = WeakRefs \cup {c}
    BY <1>1 DEF WeakRefs, Goto
  <2>2. c \in WeakRefs <=> pc[c] \in CountedWeak
    BY DEF WeakRefs
  <2>3. Cardinality(WeakRefs \cup {c}) =
          IF c \in WeakRefs THEN Cardinality(WeakRefs) ELSE Cardinality(WeakRefs) + 1
    BY FS_AddElement, CardFacts
  <2> QED
    BY <1>1, <2>1, <2>2, <2>3, CardFacts DEF Delta
<1>2. CASE to \notin CountedWeak
  <2>1. WeakRefs' = WeakRefs \ {c}
    BY <1>2 DEF WeakRefs, Goto
  <2>2. c \in WeakRefs <=> pc[c] \in CountedWeak
    BY DEF WeakRefs
  <2>3. Cardinality(WeakRefs \ {c}) =
          IF c \in WeakRefs THEN Cardinality(WeakRefs) - 1 ELSE Cardinality(WeakRefs)
    BY FS_RemoveElement, CardFacts
  <2> QED
    BY <1>2, <2>1, <2>2, <2>3, CardFacts DEF Delta
<1> QED
  BY <1>1, <1>2

(* A client that is counted is one of the count; if it is all of the count *)
(* there is no other, and otherwise there is.                              *)
LEMMA WeakCountMembers ==
    ASSUME NEW c \in Clients, pc[c] \in CountedWeak
    PROVE  /\ Cardinality(WeakRefs) >= 1
           /\ Cardinality(WeakRefs) = 1
                => \A d \in Clients : pc[d] \in CountedWeak => d = c
           /\ Cardinality(WeakRefs) # 1
                => \E d \in Clients : pc[d] \in CountedWeak /\ d # c
<1>1. c \in WeakRefs
  BY DEF WeakRefs
<1>2. Cardinality(WeakRefs) = 1 <=> \E x : WeakRefs = {x}
  BY CardFacts, FS_Singleton
<1>3. Cardinality(WeakRefs) >= 1
  BY <1>1, CardFacts
<1>4. ASSUME Cardinality(WeakRefs) = 1
      PROVE  \A d \in Clients : pc[d] \in CountedWeak => d = c
  BY <1>1, <1>2, <1>4 DEF WeakRefs
<1>5. ASSUME Cardinality(WeakRefs) # 1
      PROVE  \E d \in Clients : pc[d] \in CountedWeak /\ d # c
  <2>1. WeakRefs # {c}
    BY <1>2, <1>5
  <2> QED
    BY <2>1, <1>1 DEF WeakRefs
<1> QED
  BY <1>3, <1>4, <1>5

(* The same for the strong references.                                     *)
LEMMA StrongCountMembers ==
    ASSUME NEW c \in Clients, pc[c] \in CountedStrong
    PROVE  /\ Cardinality(StrongRefs) >= 1
           /\ Cardinality(StrongRefs) = 1
                => \A d \in Clients : pc[d] \in CountedStrong => d = c
<1>1. c \in StrongRefs
  BY DEF StrongRefs
<1>2. Cardinality(StrongRefs) = 1 <=> \E x : StrongRefs = {x}
  BY CardFacts, FS_Singleton
<1>3. Cardinality(StrongRefs) >= 1
  BY <1>1, CardFacts
<1> QED
  BY <1>1, <1>2, <1>3 DEF StrongRefs
-----------------------------------------------------------------------------
(* The first layer: who is between the first increment and the subtraction *)
(* makes both counts exact.                                                *)
FirstPhase ==
    \A c \in Clients : pc[c] = "inc_first" => mStrong >= INITIAL_STRONG_VALUE

Counters ==
    /\ mStrong \in Nat /\ mWeak \in Nat
    /\ pc \in [Clients -> PCs]
    /\ CountsExact /\ FirstPhase /\ OneFirstRef

Counting == TypeOK /\ Counters

(* The constructor starts with no reference, INITIAL_STRONG_VALUE still in *)
(* mStrong.                                                                *)
LEMMA CountingInit == Init => Counting
<1> SUFFICES ASSUME Init PROVE Counting
  OBVIOUS
<1>1. TypeOK
  BY CardFacts DEF Init, TypeOK, PCs, Idle
<1>2. StrongRefs = {} /\ WeakRefs = {}
  BY DEF Init, StrongRefs, WeakRefs, CountedStrong, CountedWeak
<1>3. CountsExact
  BY <1>2, CardFacts DEF Init, CountsExact
<1>4. FirstPhase /\ OneFirstRef
  BY DEF Init, FirstPhase, OneFirstRef
<1> QED
  BY <1>1, <1>3, <1>4 DEF Counting, Counters, TypeOK

(* A client goes from one place to another and the counts follow it; it    *)
(* enters the window of the first reference only when there is no strong   *)
(* reference.                                                              *)
LEMMA Move ==
    ASSUME Counting, NEW c \in Clients, NEW to \in PCs, Goto(c, to),
           mWeak' = mWeak + Delta(to, CountedWeak) - Delta(pc[c], CountedWeak),
           mStrong' = mStrong + Delta(to, CountedStrong) - Delta(pc[c], CountedStrong),
           to = "inc_first" => mStrong = INITIAL_STRONG_VALUE,
           to = "on_first" => mStrong = 0
    PROVE  Counters'
<1> DEFINE S == Cardinality(StrongRefs)
           SP == Cardinality(StrongRefs')
           W == Cardinality(WeakRefs)
           WP == Cardinality(WeakRefs')
<1>1. /\ SP = S + Delta(to, CountedStrong) - Delta(pc[c], CountedStrong)
      /\ WP = W + Delta(to, CountedWeak) - Delta(pc[c], CountedWeak)
  BY StrongMove, WeakMove DEF Counting, TypeOK
<1>2. /\ S \in Nat /\ S < INITIAL_STRONG_VALUE /\ W \in Nat
      /\ INITIAL_STRONG_VALUE \in Nat
  BY CardFacts
<1>3. /\ mWeak = W
      /\ mStrong \in {S, S + INITIAL_STRONG_VALUE}
      /\ mStrong \in Nat
  BY DEF Counting, Counters, CountsExact, TypeOK
<1>4. /\ Delta(to, CountedStrong) \in {0, 1} /\ Delta(pc[c], CountedStrong) \in {0, 1}
      /\ Delta(to, CountedWeak) \in {0, 1} /\ Delta(pc[c], CountedWeak) \in {0, 1}
  BY DEF Delta
<1>5. pc[c] \in CountedStrong => S >= 1
  BY StrongCountMembers
<1>6. pc[c] \in CountedWeak => W >= 1
  BY WeakCountMembers
<1>7. /\ SP \in Nat /\ WP \in Nat
      /\ mWeak' = WP
      /\ mStrong = S => mStrong' = SP
      /\ mStrong = S + INITIAL_STRONG_VALUE => mStrong' = SP + INITIAL_STRONG_VALUE
  <2> HIDE DEF S, SP, W, WP
  <2> QED
    BY <1>1, <1>2, <1>3, <1>4, <1>5, <1>6 DEF Delta
<1>8. CountsExact' /\ mStrong' \in Nat /\ mWeak' \in Nat
  BY <1>2, <1>3, <1>7 DEF CountsExact
<1>9. pc' \in [Clients -> PCs]
  BY DEF Goto, Counting, TypeOK
<1>10. mStrong \in {0, INITIAL_STRONG_VALUE} =>
         \A d \in Clients : pc[d] \notin {"inc_first", "on_first"}
  <2> SUFFICES ASSUME mStrong \in {0, INITIAL_STRONG_VALUE},
                      NEW d \in Clients, pc[d] \in {"inc_first", "on_first"}
               PROVE  FALSE
    OBVIOUS
  <2>1. S >= 1
    BY StrongCountMembers DEF CountedStrong
  <2> HIDE DEF S
  <2>2. mStrong = S \/ mStrong = S + INITIAL_STRONG_VALUE
    BY <1>3
  <2> QED
    BY <2>1, <2>2, <1>2
<1>11. ASSUME NEW d \in Clients, pc'[d] = "inc_first"
       PROVE  mStrong' >= INITIAL_STRONG_VALUE
  <2>1. mStrong >= INITIAL_STRONG_VALUE
    BY <1>2, <1>11 DEF Goto, Counting, Counters, TypeOK, FirstPhase
  <2> HIDE DEF S, SP
  <2>2. mStrong' = SP + INITIAL_STRONG_VALUE
    BY <2>1, <1>2, <1>3, <1>7
  <2> QED
    BY <2>2, <1>2, <1>7
<1>12. OneFirstRef'
  BY <1>10 DEF OneFirstRef, Goto, Counting, Counters, TypeOK
<1> QED
  BY <1>8, <1>9, <1>11, <1>12 DEF FirstPhase, Counters

(* Every step of elrefbase.cpp keeps the counts equal to the references:   *)
(* one case per atomic instruction, for any lifetime.                      *)
LEMMA CountingStep == Counting /\ [Next]_vars => Counting'
<1> SUFFICES ASSUME Counting, [Next]_vars PROVE Counting'
  OBVIOUS
<1> USE CardFacts DEF Delta, PCs, Idle, CountedStrong, CountedWeak
<1>t. /\ TypeOK
      /\ Counters'
         /\ curCount' \in [Clients -> Nat] /\ lender' \in [Clients -> Clients \cup {NoClient}]
         /\ mFlags' = mFlags /\ object' \in {"live", "freed"} /\ refs' \in {"live", "freed"}
         /\ constructing' \in BOOLEAN
         => Counting'
  BY DEF Counting, Counters, TypeOK
<1>1. ASSUME NEW c \in Clients, Step(c) PROVE Counting'
  <2>1. CASE IncStrongFirst(c)
    <3>1. /\ Goto(c, "inc_strong") /\ mWeak' = mWeak + 1 /\ mStrong' = mStrong
          /\ pc[c] = "none"
      BY <2>1 DEF IncStrongFirst
    <3>2. mStrong \in Nat /\ mWeak \in Nat
      BY DEF Counting, TypeOK
    <3>3. Counters'
      BY <3>1, <3>2, Move
    <3> QED
      BY <2>1, <3>3, <1>t DEF IncStrongFirst, Counting, TypeOK
  <2>2. CASE IncStrongAdd(c)
    BY <2>2, <1>t, Move DEF IncStrongAdd, Counting, TypeOK
  <2>3. CASE SubtractInitial(c)
    <3> DEFINE S == Cardinality(StrongRefs)
               SP == Cardinality(StrongRefs')
    <3>1. /\ SP = S
          /\ Cardinality(WeakRefs') = Cardinality(WeakRefs)
      BY <2>3, StrongMove, WeakMove DEF SubtractInitial, TypeOK, Counting
    <3>2. mStrong >= INITIAL_STRONG_VALUE /\ mStrong \in {S, S + INITIAL_STRONG_VALUE}
      BY <2>3 DEF Counting, Counters, FirstPhase, CountsExact, SubtractInitial
    <3>3. mStrong' = SP /\ mStrong' \in Nat
      <4> HIDE DEF S, SP
      <4>1. S \in Nat /\ S < INITIAL_STRONG_VALUE
        BY DEF S
      <4> QED
        BY <2>3, <3>1, <3>2, <4>1 DEF SubtractInitial
    <3>4. CountsExact' /\ mWeak' \in Nat
      BY <2>3, <3>1, <3>3 DEF CountsExact, Counting, Counters, SubtractInitial, TypeOK
    <3>5. FirstPhase' /\ OneFirstRef'
      BY <2>3 DEF FirstPhase, OneFirstRef, Counting, Counters, TypeOK, SubtractInitial, Goto
    <3> QED
      BY <2>3, <3>3, <3>4, <3>5, <1>t DEF SubtractInitial, Counting, Counters, TypeOK, Goto
  <2>4. CASE OnFirstRef(c)
    BY <2>4, <1>t, Move DEF OnFirstRef, Counting, TypeOK
  <2>5. CASE ForceIncStrongAdd(c)
    BY <2>5, <1>t, Move DEF ForceIncStrongAdd, Counting, TypeOK
  <2>6. CASE CreateWeakFirst(c)
    <3>1. /\ Goto(c, "weak") /\ mWeak' = mWeak + 1 /\ mStrong' = mStrong
          /\ pc[c] = "none"
      BY <2>6 DEF CreateWeakFirst
    <3>2. mStrong \in Nat /\ mWeak \in Nat
      BY DEF Counting, TypeOK
    <3>3. Counters'
      BY <3>1, <3>2, Move
    <3> QED
      BY <2>6, <3>3, <1>t DEF CreateWeakFirst, Counting, TypeOK
  <2>7. CASE DropWeak(c)
    BY <2>7, <1>t, Move DEF DropWeak, DecWeak, Counting, TypeOK
  <2>8. CASE LastWeak(c)
    BY <2>8, <1>t, Move DEF LastWeak, RefsAfterDestructor, Counting, TypeOK
  <2>9. CASE DecStrong(c)
    BY <2>9, <1>t, Move DEF DecStrong, Counting, TypeOK
  <2>10. CASE OnLastStrongRef(c)
    BY <2>10, <1>t, Move DEF OnLastStrongRef, Counting, TypeOK
  <2>11. CASE DeleteObject(c)
    BY <2>11, <1>t, Move DEF DeleteObject, RefsAfterDestructor, Counting, TypeOK
  <2>12. CASE DecStrongWeak(c)
    BY <2>12, <1>t, Move DEF DecStrongWeak, DecWeak, Counting, TypeOK
  <2>13. CASE AttemptRead(c)
    BY <2>13, <1>t, Move DEF AttemptRead, Counting, TypeOK
  <2>14. CASE AttemptSwap(c)
    BY <2>14, <1>t, Move DEF AttemptSwap, Counting, TypeOK
  <2>15. CASE AttemptAllowed(c)
    BY <2>15, <1>t, Move DEF AttemptAllowed, Counting, TypeOK
  <2>16. CASE AttemptRefused(c)
    BY <2>16, <1>t, Move DEF AttemptRefused, DecWeak, Counting, TypeOK
  <2>17. CASE AttemptAdd(c)
    BY <2>17, <1>t, Move DEF AttemptAdd, Counting, TypeOK
  <2>18. CASE AttemptUnneeded(c)
    BY <2>18, <1>t, Move DEF AttemptUnneeded, Counting, TypeOK
  <2> QED
    BY <1>1, <2>1, <2>2, <2>3, <2>4, <2>5, <2>6, <2>7, <2>8, <2>9, <2>10, <2>11, <2>12, <2>13, <2>14, <2>15, <2>16, <2>17, <2>18 DEF Step
<1>2. ASSUME NEW c \in Clients, NEW s \in Clients, Copy(c, s) PROVE Counting'
  <2>1. CASE IncStrong(c, s)
    BY <2>1, <1>t, Move DEF IncStrong, Counting, TypeOK
  <2>2. CASE ForceIncStrong(c, s)
    BY <2>2, <1>t, Move DEF ForceIncStrong, Counting, TypeOK
  <2>3. CASE IncWeak(c, s)
    BY <2>3, <1>t, Move DEF IncWeak, Counting, TypeOK
  <2>4. CASE AttemptIncStrong(c, s)
    BY <2>4, <1>t, Move DEF AttemptIncStrong, Counting, TypeOK
  <2> QED
    BY <1>2, <2>1, <2>2, <2>3, <2>4 DEF Copy
<1>3. CASE UNCHANGED vars
  BY <1>3 DEF vars, Counting, Counters, TypeOK, CountsExact, FirstPhase, OneFirstRef,
              StrongRefs, WeakRefs
<1> QED
  BY <1>1, <1>2, <1>3 DEF Next

(* The counts are exact at all times, for any number of clients and for    *)
(* every lifetime, weak references handed out early or not.                *)
THEOREM CountingInvariant == Spec => []Counting
<1> QED
  BY CountingInit, CountingStep, PTL DEF Spec

(* The fields of WeakRefImpl and the operations stay in their ranges:      *)
(* mStrong and mWeak in particular never become negative.                  *)
THEOREM TypeCorrect == Spec => []TypeOK
<1>1. Counting => TypeOK
  BY DEF Counting
<1> QED
  BY <1>1, CountingInvariant, PTL

(* mWeak counts the weak references and mStrong the strong ones, up to     *)
(* INITIAL_STRONG_VALUE while the first one is being taken: no IncStrong,  *)
(* DecStrong or AttemptIncStrong loses or doubles one.                     *)
THEOREM CountsAreExact == Spec => []CountsExact
<1>1. Counting => CountsExact
  BY DEF Counting, Counters
<1> QED
  BY <1>1, CountingInvariant, PTL
-----------------------------------------------------------------------------
(* The second layer.  SafeUse: an object that dies with its last strong    *)
(* reference is not published through a weak reference before it ever had  *)
(* a strong one.                                                           *)
SafeUse == "STRONG" \notin WeakFirst

Constructing ==
    constructing =>
        /\ \A c \in Clients : pc[c] = "none"
        /\ object = "live" /\ refs = "live" /\ mStrong = INITIAL_STRONG_VALUE

(* A borrowed reference is still there.                                    *)
Lending ==
    \A c \in Clients : lender[c] # NoClient =>
        pc[c] \in {"inc_strong", "force_inc"} /\ pc[lender[c]] = "strong"

(* Who increments without a loan is the constructor, alone, or is on an    *)
(* object that lives as long as its weak references.                       *)
Borrowing ==
    \A c \in Clients : lender[c] = NoClient =>
        /\ pc[c] = "inc_strong" =>
              /\ mStrong = INITIAL_STRONG_VALUE /\ object = "live"
              /\ \A d \in Clients : d # c => pc[d] = "none"
        /\ pc[c] = "force_inc" => mFlags = "WEAK"

(* With the STRONG lifetime a count of 0 is final: whoever brought it      *)
(* there is the only one to delete, and nobody revives the object.         *)
StrongLifetime ==
    mFlags = "STRONG" =>
        /\ \A c \in Clients :
              /\ pc[c] \notin {"att_inc", "att_unneeded"}
              /\ pc[c] = "att_slow" => curCount[c] # INITIAL_STRONG_VALUE
              /\ pc[c] = "att_cas" => curCount[c] > 0
              /\ pc[c] \in {"on_last", "delete"} =>
                    /\ mStrong = 0 /\ object = "live"
                    /\ \A d \in Clients : pc[d] \in {"on_last", "delete"} => d = c
        /\ mStrong > 0 /\ refs = "live" => object = "live"
        /\ object = "live" /\ mStrong = 0 =>
              \E c \in Clients : pc[c] \in {"on_last", "delete"}
        /\ mStrong >= INITIAL_STRONG_VALUE /\ ~constructing =>
              \E c \in Clients :
                  /\ pc[c] \in {"inc_strong", "inc_first"}
                  /\ \A d \in Clients : d # c => pc[d] = "none"

(* With the WEAK lifetime the object and its counters go together.         *)
WeakLifetime ==
    mFlags = "WEAK" => object = refs /\ \A c \in Clients : pc[c] # "delete"

(* The counters outlive every client, and are freed when there is none.    *)
Block ==
    /\ refs = "freed" => \A c \in Clients : pc[c] = "none"
    /\ refs = "live" /\ ~constructing => \E c \in Clients : pc[c] # "none"
    /\ \A c \in Clients : pc[c] = "last_weak" =>
          \A d \in Clients : d # c => pc[d] = "none"

Memory ==
    /\ Constructing /\ Lending /\ Borrowing
    /\ StrongLifetime /\ WeakLifetime /\ Block

IInv == Counting /\ Memory

(* While the first reference is being taken the count is S + I, otherwise  *)
(* it is S; moving a client does not take it from one to the other.        *)
LEMMA Phases ==
    ASSUME Counting
    PROVE  /\ mStrong >= INITIAL_STRONG_VALUE <=>
                mStrong = Cardinality(StrongRefs) + INITIAL_STRONG_VALUE
           /\ mStrong < INITIAL_STRONG_VALUE <=> mStrong = Cardinality(StrongRefs)
<1> DEFINE S == Cardinality(StrongRefs)
<1>1. /\ mStrong \in {S, S + INITIAL_STRONG_VALUE}
      /\ S \in Nat /\ S < INITIAL_STRONG_VALUE /\ INITIAL_STRONG_VALUE \in Nat
  BY CardFacts DEF Counting, Counters, CountsExact
<1> HIDE DEF S
<1>2. /\ mStrong >= INITIAL_STRONG_VALUE <=> mStrong = S + INITIAL_STRONG_VALUE
      /\ mStrong < INITIAL_STRONG_VALUE <=> mStrong = S
  BY <1>1
<1> QED
  BY <1>2 DEF S

(* Moving one client does not take the count into the window of the first  *)
(* reference.                                                              *)
LEMMA PhaseKept ==
    ASSUME Counting, Counting', NEW c \in Clients, NEW to \in PCs, Goto(c, to),
           mStrong' = mStrong + Delta(to, CountedStrong) - Delta(pc[c], CountedStrong)
    PROVE  mStrong' >= INITIAL_STRONG_VALUE => mStrong >= INITIAL_STRONG_VALUE
<1> DEFINE S == Cardinality(StrongRefs)
           SP == Cardinality(StrongRefs')
           dt == Delta(to, CountedStrong)
           df == Delta(pc[c], CountedStrong)
<1>1. SP = S + dt - df /\ mStrong' = mStrong + dt - df
  BY StrongMove DEF Counting, TypeOK
<1>2. StrongRefs' \in SUBSET Clients
  BY DEF StrongRefs
<1>3. /\ IsFiniteSet(StrongRefs')
      /\ SP <= Cardinality(Clients)
  BY <1>2, FS_Subset, ClientsAssumption
<1>4. /\ S \in Nat /\ INITIAL_STRONG_VALUE \in Nat
      /\ SP \in Nat /\ SP < INITIAL_STRONG_VALUE
  <2> HIDE DEF S
  <2>1. SP \in Nat /\ Cardinality(Clients) \in Nat
    BY <1>3, FS_CardinalityType, ClientsAssumption
  <2>2. S \in Nat
    BY CardFacts DEF S
  <2> HIDE DEF SP
  <2> QED
    BY <2>1, <2>2, <1>3, InitialStrongAssumption
<1>5. mStrong < INITIAL_STRONG_VALUE => mStrong = S
  BY Phases
<1>6. dt \in {0, 1} /\ df \in {0, 1}
  BY DEF Delta
<1>7. mStrong \in Nat
  BY DEF Counting, TypeOK
<1> HIDE DEF S, SP, dt, df
<1> QED
  BY <1>1, <1>4, <1>5, <1>6, <1>7

(* A client counted as strong keeps the count positive, and is the only    *)
(* one when the count is 1.                                                *)
LEMMA StrongPositive ==
    ASSUME Counting, NEW c \in Clients, pc[c] \in CountedStrong
    PROVE  /\ mStrong >= 1
           /\ mStrong = 1 => \A d \in Clients : pc[d] \in CountedStrong => d = c
<1> DEFINE S == Cardinality(StrongRefs)
<1>1. /\ S >= 1
      /\ S = 1 => \A d \in Clients : pc[d] \in CountedStrong => d = c
  BY StrongCountMembers
<1>2. /\ mStrong \in {S, S + INITIAL_STRONG_VALUE}
      /\ S \in Nat /\ S < INITIAL_STRONG_VALUE /\ INITIAL_STRONG_VALUE \in Nat
  BY CardFacts DEF Counting, Counters, CountsExact
<1> HIDE DEF S
<1>3. mStrong >= 1 /\ (mStrong = 1 => S = 1)
  BY <1>1, <1>2
<1> QED
  BY <1>1, <1>3

(* A client with a share of the weak count is the only one when that is 1, *)
(* and not otherwise.                                                      *)
LEMMA WeakOthers ==
    ASSUME Counting, NEW c \in Clients, pc[c] \in CountedWeak
    PROVE  /\ mWeak = 1 => \A d \in Clients : pc[d] \in CountedWeak => d = c
           /\ mWeak # 1 => \E d \in Clients : pc[d] \in CountedWeak /\ d # c
  BY WeakCountMembers DEF Counting, Counters, CountsExact

(* The constructed object is live and nobody has reached for it.           *)
LEMMA MemoryInit == Init => Memory
<1> SUFFICES ASSUME Init PROVE Memory
  OBVIOUS
<1>1. INITIAL_STRONG_VALUE \in Nat /\ INITIAL_STRONG_VALUE > 0
  BY CardFacts
<1>2. Constructing
  BY DEF Init, Constructing
<1>3. Lending /\ Borrowing
  BY DEF Init, Lending, Borrowing
<1>4. constructing
  BY DEF Init
<1>5. StrongLifetime
  BY <1>1, <1>4 DEF Init, StrongLifetime
<1>6. WeakLifetime /\ Block
  BY <1>4 DEF Init, WeakLifetime, Block
<1> QED
  BY <1>2, <1>3, <1>5, <1>6 DEF Memory

(* Every step of one client keeps the memory invariant.                    *)
LEMMA MemoryStep ==
    ASSUME SafeUse, IInv, Counting', NEW c \in Clients, Step(c)
    PROVE  Memory'
<1> USE DEF Goto
<1>t. /\ pc \in [Clients -> PCs] /\ lender \in [Clients -> Clients \cup {NoClient}]
      /\ mFlags \in {"STRONG", "WEAK"}
      /\ constructing \in BOOLEAN
      /\ curCount \in [Clients -> Nat] /\ mStrong \in Nat /\ mWeak \in Nat
      /\ object \in {"live", "freed"} /\ refs \in {"live", "freed"}
      /\ Constructing /\ Lending /\ Borrowing /\ StrongLifetime /\ WeakLifetime /\ Block
  BY LifetimesAssumption DEF IInv, Counting, TypeOK, Memory
<1>i. INITIAL_STRONG_VALUE \in Nat /\ INITIAL_STRONG_VALUE > 0
  BY CardFacts
<1>c. Counting
  BY DEF IInv
<1>w. ASSUME LastWeak(c) PROVE mWeak = 0
  <2>1. WeakRefs = {}
    BY <1>w, <1>t DEF LastWeak, Block, WeakRefs, CountedWeak
  <2> QED
    BY <2>1, <1>c, CardFacts DEF Counting, Counters, CountsExact
<1>1. CASE IncStrongFirst(c)
  <2>1. Constructing'
    BY <1>1, <1>t, <1>i DEF IncStrongFirst, Block, Constructing
  <2>2. Lending'
    BY <1>1, <1>t, <1>i DEF IncStrongFirst, Block, Constructing, Lending
  <2>3. Borrowing'
    BY <1>1, <1>t, <1>i DEF IncStrongFirst, Block, Borrowing, Constructing
  <2>4. StrongLifetime'
    BY <1>1, <1>t, <1>i DEF IncStrongFirst, Block, Constructing, StrongLifetime
  <2>5. WeakLifetime'
    BY <1>1, <1>t, <1>i DEF IncStrongFirst, Block, Constructing, WeakLifetime
  <2>6. Block'
    BY <1>1, <1>t, <1>i DEF IncStrongFirst, Block, Constructing
  <2> QED
    BY <2>1, <2>2, <2>3, <2>4, <2>5, <2>6 DEF Memory
<1>2. CASE IncStrongAdd(c)
  <2>1. Constructing'
    BY <1>2, <1>t, <1>i DEF IncStrongAdd, Block, Constructing
  <2>2. Lending'
    BY <1>2, <1>t, <1>i DEF IncStrongAdd, Block, Constructing, Lending
  <2>3. Borrowing'
    BY <1>2, <1>t, <1>i DEF IncStrongAdd, Block, Borrowing, Constructing
  <2>4. StrongLifetime'
    <3>1. ASSUME lender[c] # NoClient
          PROVE  /\ mStrong >= 1
                 /\ mFlags = "STRONG" => mStrong' < INITIAL_STRONG_VALUE
      <4>1. lender[c] \in Clients /\ pc[lender[c]] = "strong" /\ lender[c] # c
        BY <1>2, <3>1, <1>t DEF Lending, IncStrongAdd
      <4>2. mStrong >= 1
        BY <4>1, StrongPositive, <1>c DEF CountedStrong
      <4>3. mFlags = "STRONG" => ~(mStrong >= INITIAL_STRONG_VALUE)
        BY <4>1, <1>2, <1>t DEF IncStrongAdd, Constructing, StrongLifetime
      <4>4. ASSUME mFlags = "STRONG" PROVE ~(mStrong' >= INITIAL_STRONG_VALUE)
        <5>1. Goto(c, "strong") /\ mStrong' = mStrong + 1
          <6>1. mStrong # INITIAL_STRONG_VALUE /\ mStrong # 0
            BY <4>2, <4>3, <4>4, <1>i
          <6> QED
            BY <1>2, <6>1 DEF IncStrongAdd
        <5>2. mStrong' = mStrong + Delta("strong", CountedStrong) - Delta(pc[c], CountedStrong)
          BY <1>2, <5>1, <1>t DEF IncStrongAdd, Delta, CountedStrong
        <5> QED
          BY <5>1, <5>2, <4>3, <4>4, <1>c, PhaseKept DEF PCs, Idle
      <4> QED
        BY <4>2, <4>3, <4>4, <1>2, <1>t, <1>i DEF IncStrongAdd
    <3>2. CASE lender[c] # NoClient
      BY <1>2, <3>1, <3>2, <1>t, <1>i DEF IncStrongAdd, Block, Constructing, StrongLifetime
    <3>3. CASE lender[c] = NoClient
      BY <1>2, <3>3, <1>t, <1>i DEF IncStrongAdd, Block, Constructing, Borrowing, StrongLifetime
    <3> QED
      BY <3>2, <3>3
  <2>5. WeakLifetime'
    BY <1>2, <1>t, <1>i DEF IncStrongAdd, Block, Constructing, WeakLifetime
  <2>6. Block'
    BY <1>2, <1>t, <1>i DEF IncStrongAdd, Block, Constructing
  <2> QED
    BY <2>1, <2>2, <2>3, <2>4, <2>5, <2>6 DEF Memory
<1>3. CASE SubtractInitial(c)
  <2>1. Constructing'
    BY <1>3, <1>t, <1>i DEF SubtractInitial, Block, Constructing
  <2>2. Lending'
    BY <1>3, <1>t, <1>i DEF SubtractInitial, Block, Constructing, Lending
  <2>3. Borrowing'
    BY <1>3, <1>t, <1>i DEF SubtractInitial, Block, Borrowing, Constructing
  <2>4. StrongLifetime'
    <3>1. mStrong >= INITIAL_STRONG_VALUE
      BY <1>3, <1>c DEF SubtractInitial, Counting, Counters, FirstPhase
    <3>2. mStrong' < INITIAL_STRONG_VALUE /\ mStrong' >= 1
      <4> DEFINE S == Cardinality(StrongRefs)
      <4>1. S >= 1 /\ S < INITIAL_STRONG_VALUE /\ S \in Nat
        BY <1>3, StrongCountMembers, CardFacts DEF SubtractInitial, CountedStrong
      <4>2. mStrong = S + INITIAL_STRONG_VALUE
        BY <3>1, <1>c, Phases
      <4> HIDE DEF S
      <4> QED
        BY <4>1, <4>2, <1>3, <1>i DEF SubtractInitial
    <3>3. mStrong > 0
      BY <3>1, <1>i, <1>t
    <3> QED
      BY <1>3, <3>2, <3>3, <1>t, <1>i DEF SubtractInitial, Block, Constructing, StrongLifetime
  <2>5. WeakLifetime'
    BY <1>3, <1>t, <1>i DEF SubtractInitial, Block, Constructing, WeakLifetime
  <2>6. Block'
    BY <1>3, <1>t, <1>i DEF SubtractInitial, Block, Constructing
  <2> QED
    BY <2>1, <2>2, <2>3, <2>4, <2>5, <2>6 DEF Memory
<1>4. CASE OnFirstRef(c)
  <2>1. Constructing'
    BY <1>4, <1>t, <1>i DEF OnFirstRef, Block, Constructing
  <2>2. Lending'
    BY <1>4, <1>t, <1>i DEF OnFirstRef, Block, Constructing, Lending
  <2>3. Borrowing'
    BY <1>4, <1>t, <1>i DEF OnFirstRef, Block, Borrowing, Constructing
  <2>4. StrongLifetime'
    BY <1>4, <1>t, <1>i DEF OnFirstRef, Block, Constructing, StrongLifetime
  <2>5. WeakLifetime'
    BY <1>4, <1>t, <1>i DEF OnFirstRef, Block, Constructing, WeakLifetime
  <2>6. Block'
    BY <1>4, <1>t, <1>i DEF OnFirstRef, Block, Constructing
  <2> QED
    BY <2>1, <2>2, <2>3, <2>4, <2>5, <2>6 DEF Memory
<1>5. CASE ForceIncStrongAdd(c)
  <2>1. Constructing'
    BY <1>5, <1>t, <1>i DEF ForceIncStrongAdd, Block, Constructing
  <2>2. Lending'
    BY <1>5, <1>t, <1>i DEF ForceIncStrongAdd, Block, Constructing, Lending
  <2>3. Borrowing'
    BY <1>5, <1>t, <1>i DEF ForceIncStrongAdd, Block, Borrowing, Constructing
  <2>4. StrongLifetime'
    <3>1. ASSUME lender[c] # NoClient
          PROVE  /\ mStrong >= 1
                 /\ mFlags = "STRONG" => mStrong' < INITIAL_STRONG_VALUE
      <4>1. lender[c] \in Clients /\ pc[lender[c]] = "strong" /\ lender[c] # c
        BY <1>5, <3>1, <1>t DEF Lending, ForceIncStrongAdd
      <4>2. mStrong >= 1
        BY <4>1, StrongPositive, <1>c DEF CountedStrong
      <4>3. mFlags = "STRONG" => ~(mStrong >= INITIAL_STRONG_VALUE)
        BY <4>1, <1>5, <1>t DEF ForceIncStrongAdd, Constructing, StrongLifetime
      <4>4. ASSUME mFlags = "STRONG" PROVE ~(mStrong' >= INITIAL_STRONG_VALUE)
        <5>1. Goto(c, "strong") /\ mStrong' = mStrong + 1
          <6>1. mStrong # INITIAL_STRONG_VALUE /\ mStrong # 0
            BY <4>2, <4>3, <4>4, <1>i
          <6> QED
            BY <1>5, <6>1 DEF ForceIncStrongAdd
        <5>2. mStrong' = mStrong + Delta("strong", CountedStrong) - Delta(pc[c], CountedStrong)
          BY <1>5, <5>1, <1>t DEF ForceIncStrongAdd, Delta, CountedStrong
        <5> QED
          BY <5>1, <5>2, <4>3, <4>4, <1>c, PhaseKept DEF PCs, Idle
      <4> QED
        BY <4>2, <4>3, <4>4, <1>5, <1>t, <1>i DEF ForceIncStrongAdd
    <3>2. CASE lender[c] # NoClient
      BY <1>5, <3>1, <3>2, <1>t, <1>i DEF ForceIncStrongAdd, Block, Constructing, StrongLifetime
    <3>3. CASE lender[c] = NoClient
      BY <1>5, <3>3, <1>t DEF ForceIncStrongAdd, Borrowing, StrongLifetime
    <3> QED
      BY <3>2, <3>3
  <2>5. WeakLifetime'
    BY <1>5, <1>t, <1>i DEF ForceIncStrongAdd, Block, Constructing, WeakLifetime
  <2>6. Block'
    BY <1>5, <1>t, <1>i DEF ForceIncStrongAdd, Block, Constructing
  <2> QED
    BY <2>1, <2>2, <2>3, <2>4, <2>5, <2>6 DEF Memory
<1>6. CASE CreateWeakFirst(c)
  <2>1. Constructing'
    BY <1>6, <1>t, <1>i DEF CreateWeakFirst, Block, Constructing
  <2>2. Lending'
    BY <1>6, <1>t, <1>i DEF CreateWeakFirst, Block, Constructing, Lending
  <2>3. Borrowing'
    BY <1>6, <1>t, <1>i DEF CreateWeakFirst, Block, Borrowing, Constructing
  <2>4. StrongLifetime'
    BY <1>6 DEF CreateWeakFirst, SafeUse, StrongLifetime
  <2>5. WeakLifetime'
    BY <1>6, <1>t, <1>i DEF CreateWeakFirst, Block, Constructing, WeakLifetime
  <2>6. Block'
    BY <1>6, <1>t, <1>i DEF CreateWeakFirst, Block, Constructing
  <2> QED
    BY <2>1, <2>2, <2>3, <2>4, <2>5, <2>6 DEF Memory
<1>7. CASE DropWeak(c)
  <2>1. Constructing'
    BY <1>7, <1>t, <1>i DEF DropWeak, DecWeak, Block, Constructing
  <2>2. Lending'
    BY <1>7, <1>t, <1>i DEF DropWeak, DecWeak, Block, Constructing, Lending
  <2>3. Borrowing'
    BY <1>7, <1>t, <1>i DEF DropWeak, DecWeak, Block, Borrowing, Constructing
  <2>4. StrongLifetime'
    BY <1>7, <1>t, <1>i DEF DropWeak, DecWeak, Block, Constructing, StrongLifetime
  <2>5. WeakLifetime'
    BY <1>7, <1>t, <1>i DEF DropWeak, DecWeak, Block, Constructing, WeakLifetime
  <2>6. Block'
    <3>1. /\ mWeak = 1 => \A d \in Clients : pc[d] \in CountedWeak => d = c
          /\ mWeak # 1 => \E d \in Clients : pc[d] \in CountedWeak /\ d # c
      BY <1>7, <1>c, WeakOthers DEF DropWeak, CountedWeak, PCs, Idle
    <3> QED
      BY <1>7, <3>1, <1>t DEF DropWeak, DecWeak, Block, Constructing, CountedWeak
  <2> QED
    BY <2>1, <2>2, <2>3, <2>4, <2>5, <2>6 DEF Memory
<1>8. CASE LastWeak(c)
  <2>1. Constructing'
    BY <1>8, <1>t, <1>i DEF LastWeak, RefsAfterDestructor, Block, Constructing
  <2>2. Lending'
    BY <1>8, <1>t, <1>i DEF LastWeak, RefsAfterDestructor, Block, Constructing, Lending
  <2>3. Borrowing'
    BY <1>8, <1>t, <1>i DEF LastWeak, RefsAfterDestructor, Block, Borrowing, Constructing
  <2>4. StrongLifetime'
    BY <1>8, <1>t, <1>i DEF LastWeak, RefsAfterDestructor, Block, Constructing, StrongLifetime
  <2>5. WeakLifetime'
    BY <1>8, <1>w, <1>t DEF LastWeak, RefsAfterDestructor, WeakLifetime
  <2>6. Block'
    BY <1>8, <1>w, <1>t DEF LastWeak, RefsAfterDestructor, Block, Constructing
  <2> QED
    BY <2>1, <2>2, <2>3, <2>4, <2>5, <2>6 DEF Memory
<1>9. CASE DecStrong(c)
  <2>1. Constructing'
    BY <1>9, <1>t, <1>i DEF DecStrong, Block, Constructing
  <2>2. Lending'
    BY <1>9, <1>t, <1>i DEF DecStrong, Block, Constructing, Lending
  <2>3. Borrowing'
    BY <1>9, <1>t, <1>i DEF DecStrong, Block, Borrowing, Constructing
  <2>4. StrongLifetime'
    <3>1. /\ mStrong >= 1
          /\ mStrong = 1 => \A d \in Clients : pc[d] \in CountedStrong => d = c
      BY <1>9, <1>c, StrongPositive DEF DecStrong, CountedStrong
    <3>2. mFlags = "STRONG" => ~(mStrong >= INITIAL_STRONG_VALUE)
      BY <1>9, <1>t DEF DecStrong, Constructing, StrongLifetime
    <3>3. mFlags = "STRONG" => ~(mStrong' >= INITIAL_STRONG_VALUE)
      BY <1>9, <3>2, <1>t, <1>i DEF DecStrong
    <3> QED
      BY <1>9, <3>1, <3>3, <1>t, <1>i DEF DecStrong, Block, Constructing, StrongLifetime
  <2>5. WeakLifetime'
    BY <1>9, <1>t, <1>i DEF DecStrong, Block, Constructing, WeakLifetime
  <2>6. Block'
    BY <1>9, <1>t, <1>i DEF DecStrong, Block, Constructing
  <2> QED
    BY <2>1, <2>2, <2>3, <2>4, <2>5, <2>6 DEF Memory
<1>10. CASE OnLastStrongRef(c)
  <2>1. Constructing'
    BY <1>10, <1>t, <1>i DEF OnLastStrongRef, Block, Constructing
  <2>2. Lending'
    BY <1>10, <1>t, <1>i DEF OnLastStrongRef, Block, Constructing, Lending
  <2>3. Borrowing'
    BY <1>10, <1>t, <1>i DEF OnLastStrongRef, Block, Borrowing, Constructing
  <2>4. StrongLifetime'
    BY <1>10, <1>t, <1>i DEF OnLastStrongRef, Block, Constructing, StrongLifetime
  <2>5. WeakLifetime'
    BY <1>10, <1>t, <1>i DEF OnLastStrongRef, Block, Constructing, WeakLifetime
  <2>6. Block'
    BY <1>10, <1>t, <1>i DEF OnLastStrongRef, Block, Constructing
  <2> QED
    BY <2>1, <2>2, <2>3, <2>4, <2>5, <2>6 DEF Memory
<1>11. CASE DeleteObject(c)
  <2>1. Constructing'
    BY <1>11, <1>t, <1>i DEF DeleteObject, RefsAfterDestructor, Block, Constructing
  <2>2. Lending'
    BY <1>11, <1>t, <1>i DEF DeleteObject, RefsAfterDestructor, Block, Constructing, Lending
  <2>3. Borrowing'
    BY <1>11, <1>t, <1>i DEF DeleteObject, RefsAfterDestructor, Block, Borrowing, Constructing
  <2>4. StrongLifetime'
    BY <1>11, <1>t, <1>i DEF DeleteObject, RefsAfterDestructor, Block, Constructing, StrongLifetime
  <2>5. WeakLifetime'
    BY <1>11, <1>t, <1>i DEF DeleteObject, RefsAfterDestructor, Block, Constructing, WeakLifetime
  <2>6. Block'
    BY <1>11, <1>t, <1>i DEF DeleteObject, RefsAfterDestructor, Block, Constructing,
                              StrongLifetime, WeakLifetime
  <2> QED
    BY <2>1, <2>2, <2>3, <2>4, <2>5, <2>6 DEF Memory
<1>12. CASE DecStrongWeak(c)
  <2>1. Constructing'
    BY <1>12, <1>t, <1>i DEF DecStrongWeak, DecWeak, Block, Constructing
  <2>2. Lending'
    BY <1>12, <1>t, <1>i DEF DecStrongWeak, DecWeak, Block, Constructing, Lending
  <2>3. Borrowing'
    BY <1>12, <1>t, <1>i DEF DecStrongWeak, DecWeak, Block, Borrowing, Constructing
  <2>4. StrongLifetime'
    BY <1>12, <1>t, <1>i DEF DecStrongWeak, DecWeak, Block, Constructing, StrongLifetime
  <2>5. WeakLifetime'
    BY <1>12, <1>t, <1>i DEF DecStrongWeak, DecWeak, Block, Constructing, WeakLifetime
  <2>6. Block'
    <3>1. /\ mWeak = 1 => \A d \in Clients : pc[d] \in CountedWeak => d = c
          /\ mWeak # 1 => \E d \in Clients : pc[d] \in CountedWeak /\ d # c
      BY <1>12, <1>c, WeakOthers DEF DecStrongWeak, CountedWeak, PCs, Idle
    <3> QED
      BY <1>12, <3>1, <1>t DEF DecStrongWeak, DecWeak, Block, Constructing, CountedWeak
  <2> QED
    BY <2>1, <2>2, <2>3, <2>4, <2>5, <2>6 DEF Memory
<1>13. CASE AttemptRead(c)
  <2>1. Constructing'
    BY <1>13, <1>t, <1>i DEF AttemptRead, Block, Constructing
  <2>2. Lending'
    BY <1>13, <1>t, <1>i DEF AttemptRead, Block, Constructing, Lending
  <2>3. Borrowing'
    BY <1>13, <1>t, <1>i DEF AttemptRead, Block, Borrowing, Constructing
  <2>4. StrongLifetime'
    BY <1>13, <1>t, <1>i DEF AttemptRead, Block, Constructing, StrongLifetime
  <2>5. WeakLifetime'
    BY <1>13, <1>t, <1>i DEF AttemptRead, Block, Constructing, WeakLifetime
  <2>6. Block'
    BY <1>13, <1>t, <1>i DEF AttemptRead, Block, Constructing
  <2> QED
    BY <2>1, <2>2, <2>3, <2>4, <2>5, <2>6 DEF Memory
<1>14. CASE AttemptSwap(c)
  <2>1. Constructing'
    BY <1>14, <1>t, <1>i DEF AttemptSwap, Block, Constructing
  <2>2. Lending'
    BY <1>14, <1>t, <1>i DEF AttemptSwap, Block, Constructing, Lending
  <2>3. Borrowing'
    BY <1>14, <1>t, <1>i DEF AttemptSwap, Block, Borrowing, Constructing
  <2>4. StrongLifetime'
    <3>1. CASE mStrong = curCount[c]
      <4>1. mFlags = "STRONG" => mStrong > 0 /\ ~(mStrong >= INITIAL_STRONG_VALUE)
        BY <1>14, <3>1, <1>t DEF AttemptSwap, Constructing, StrongLifetime
      <4>2. ~(mStrong >= INITIAL_STRONG_VALUE) => ~(mStrong' >= INITIAL_STRONG_VALUE)
        BY <1>14, <3>1, <1>c, <1>t, PhaseKept DEF AttemptSwap, Delta, PCs, Idle, CountedStrong
      <4> QED
        BY <1>14, <3>1, <4>1, <4>2, <1>t, <1>i DEF AttemptSwap, Block, Constructing, StrongLifetime
    <3>2. CASE mStrong # curCount[c]
      BY <1>14, <3>2, <1>t, <1>i DEF AttemptSwap, Block, Constructing, StrongLifetime
    <3> QED
      BY <3>1, <3>2
  <2>5. WeakLifetime'
    BY <1>14, <1>t, <1>i DEF AttemptSwap, Block, Constructing, WeakLifetime
  <2>6. Block'
    BY <1>14, <1>t, <1>i DEF AttemptSwap, Block, Constructing
  <2> QED
    BY <2>1, <2>2, <2>3, <2>4, <2>5, <2>6 DEF Memory
<1>15. CASE AttemptAllowed(c)
  <2>1. Constructing'
    BY <1>15, <1>t, <1>i DEF AttemptAllowed, Block, Constructing
  <2>2. Lending'
    BY <1>15, <1>t, <1>i DEF AttemptAllowed, Block, Constructing, Lending
  <2>3. Borrowing'
    BY <1>15, <1>t, <1>i DEF AttemptAllowed, Block, Borrowing, Constructing
  <2>4. StrongLifetime'
    BY <1>15, <1>t, <1>i DEF AttemptAllowed, Block, Constructing, StrongLifetime
  <2>5. WeakLifetime'
    BY <1>15, <1>t, <1>i DEF AttemptAllowed, Block, Constructing, WeakLifetime
  <2>6. Block'
    BY <1>15, <1>t, <1>i DEF AttemptAllowed, Block, Constructing
  <2> QED
    BY <2>1, <2>2, <2>3, <2>4, <2>5, <2>6 DEF Memory
<1>16. CASE AttemptRefused(c)
  <2>1. Constructing'
    BY <1>16, <1>t, <1>i DEF AttemptRefused, DecWeak, Block, Constructing
  <2>2. Lending'
    BY <1>16, <1>t, <1>i DEF AttemptRefused, DecWeak, Block, Constructing, Lending
  <2>3. Borrowing'
    BY <1>16, <1>t, <1>i DEF AttemptRefused, DecWeak, Block, Borrowing, Constructing
  <2>4. StrongLifetime'
    BY <1>16, <1>t, <1>i DEF AttemptRefused, DecWeak, Block, Constructing, StrongLifetime
  <2>5. WeakLifetime'
    BY <1>16, <1>t, <1>i DEF AttemptRefused, DecWeak, Block, Constructing, WeakLifetime
  <2>6. Block'
    <3>1. /\ mWeak = 1 => \A d \in Clients : pc[d] \in CountedWeak => d = c
          /\ mWeak # 1 => \E d \in Clients : pc[d] \in CountedWeak /\ d # c
      BY <1>16, <1>c, WeakOthers DEF AttemptRefused, CountedWeak, PCs, Idle
    <3> QED
      BY <1>16, <3>1, <1>t DEF AttemptRefused, DecWeak, Block, Constructing, CountedWeak
  <2> QED
    BY <2>1, <2>2, <2>3, <2>4, <2>5, <2>6 DEF Memory
<1>17. CASE AttemptAdd(c)
  <2>1. Constructing'
    BY <1>17, <1>t, <1>i DEF AttemptAdd, Block, Constructing
  <2>2. Lending'
    BY <1>17, <1>t, <1>i DEF AttemptAdd, Block, Constructing, Lending
  <2>3. Borrowing'
    BY <1>17, <1>t, <1>i DEF AttemptAdd, Block, Borrowing, Constructing
  <2>4. StrongLifetime'
    BY <1>17, <1>t, <1>i DEF AttemptAdd, Block, Constructing, StrongLifetime
  <2>5. WeakLifetime'
    BY <1>17, <1>t, <1>i DEF AttemptAdd, Block, Constructing, WeakLifetime
  <2>6. Block'
    BY <1>17, <1>t, <1>i DEF AttemptAdd, Block, Constructing
  <2> QED
    BY <2>1, <2>2, <2>3, <2>4, <2>5, <2>6 DEF Memory
<1>18. CASE AttemptUnneeded(c)
  <2>1. Constructing'
    BY <1>18, <1>t, <1>i DEF AttemptUnneeded, Block, Constructing
  <2>2. Lending'
    BY <1>18, <1>t, <1>i DEF AttemptUnneeded, Block, Constructing, Lending
  <2>3. Borrowing'
    BY <1>18, <1>t, <1>i DEF AttemptUnneeded, Block, Borrowing, Constructing
  <2>4. StrongLifetime'
    BY <1>18, <1>t, <1>i DEF AttemptUnneeded, Block, Constructing, StrongLifetime
  <2>5. WeakLifetime'
    BY <1>18, <1>t, <1>i DEF AttemptUnneeded, Block, Constructing, WeakLifetime
  <2>6. Block'
    BY <1>18, <1>t, <1>i DEF AttemptUnneeded, Block, Constructing
  <2> QED
    BY <2>1, <2>2, <2>3, <2>4, <2>5, <2>6 DEF Memory
<1> QED
  BY <1>1, <1>2, <1>3, <1>4, <1>5, <1>6, <1>7, <1>8, <1>9, <1>10, <1>11, <1>12, <1>13, <1>14, <1>15, <1>16, <1>17, <1>18 DEF Step

(* So does every way to take a reference from another client.              *)
LEMMA MemoryCopy ==
    ASSUME IInv, NEW c \in Clients, NEW s \in Clients, Copy(c, s)
    PROVE  Memory'
<1> USE DEF Goto
<1>t. /\ pc \in [Clients -> PCs] /\ lender \in [Clients -> Clients \cup {NoClient}]
      /\ mFlags \in {"STRONG", "WEAK"}
      /\ constructing \in BOOLEAN
      /\ mStrong \in Nat
      /\ object \in {"live", "freed"} /\ refs \in {"live", "freed"}
      /\ Constructing /\ Lending /\ Borrowing /\ StrongLifetime /\ WeakLifetime /\ Block
  BY LifetimesAssumption DEF IInv, Counting, TypeOK, Memory
<1>n. NoClient \notin Clients
  BY ClientsAssumption
<1>1. CASE IncStrong(c, s)
  <2>1. Constructing'
    BY <1>1, <1>t, <1>n DEF IncStrong, Block, Constructing
  <2>2. Lending'
    BY <1>1, <1>t, <1>n DEF IncStrong, Block, Constructing, Lending
  <2>3. Borrowing'
    BY <1>1, <1>t, <1>n DEF IncStrong, Block, Borrowing, Constructing
  <2>4. StrongLifetime'
    BY <1>1, <1>t, <1>n DEF IncStrong, Block, Constructing, StrongLifetime
  <2>5. WeakLifetime'
    BY <1>1, <1>t, <1>n DEF IncStrong, Block, Constructing, WeakLifetime
  <2>6. Block'
    BY <1>1, <1>t, <1>n DEF IncStrong, Block, Constructing
  <2> QED
    BY <2>1, <2>2, <2>3, <2>4, <2>5, <2>6 DEF Memory
<1>2. CASE ForceIncStrong(c, s)
  <2>1. Constructing'
    BY <1>2, <1>t, <1>n DEF ForceIncStrong, Block, Constructing
  <2>2. Lending'
    BY <1>2, <1>t, <1>n DEF ForceIncStrong, Block, Constructing, Lending
  <2>3. Borrowing'
    BY <1>2, <1>t, <1>n DEF ForceIncStrong, Block, Borrowing, Constructing
  <2>4. StrongLifetime'
    BY <1>2, <1>t, <1>n DEF ForceIncStrong, Block, Constructing, StrongLifetime
  <2>5. WeakLifetime'
    BY <1>2, <1>t, <1>n DEF ForceIncStrong, Block, Constructing, WeakLifetime
  <2>6. Block'
    BY <1>2, <1>t, <1>n DEF ForceIncStrong, Block, Constructing
  <2> QED
    BY <2>1, <2>2, <2>3, <2>4, <2>5, <2>6 DEF Memory
<1>3. CASE IncWeak(c, s)
  <2>1. Constructing'
    BY <1>3, <1>t, <1>n DEF IncWeak, Block, Constructing
  <2>2. Lending'
    BY <1>3, <1>t, <1>n DEF IncWeak, Block, Constructing, Lending
  <2>3. Borrowing'
    BY <1>3, <1>t, <1>n DEF IncWeak, Block, Borrowing, Constructing
  <2>4. StrongLifetime'
    BY <1>3, <1>t, <1>n DEF IncWeak, Block, Constructing, StrongLifetime
  <2>5. WeakLifetime'
    BY <1>3, <1>t, <1>n DEF IncWeak, Block, Constructing, WeakLifetime
  <2>6. Block'
    BY <1>3, <1>t, <1>n DEF IncWeak, Block, Constructing
  <2> QED
    BY <2>1, <2>2, <2>3, <2>4, <2>5, <2>6 DEF Memory
<1>4. CASE AttemptIncStrong(c, s)
  <2>1. Constructing'
    BY <1>4, <1>t, <1>n DEF AttemptIncStrong, Block, Constructing
  <2>2. Lending'
    BY <1>4, <1>t, <1>n DEF AttemptIncStrong, Block, Constructing, Lending
  <2>3. Borrowing'
    BY <1>4, <1>t, <1>n DEF AttemptIncStrong, Block, Borrowing, Constructing
  <2>4. StrongLifetime'
    BY <1>4, <1>t, <1>n DEF AttemptIncStrong, Block, Constructing, StrongLifetime
  <2>5. WeakLifetime'
    BY <1>4, <1>t, <1>n DEF AttemptIncStrong, Block, Constructing, WeakLifetime
  <2>6. Block'
    BY <1>4, <1>t, <1>n DEF AttemptIncStrong, Block, Constructing
  <2> QED
    BY <2>1, <2>2, <2>3, <2>4, <2>5, <2>6 DEF Memory
<1> QED
  BY <1>1, <1>2, <1>3, <1>4 DEF Copy

(* The memory invariant looks at no other state.                           *)
LEMMA MemoryStutter == Memory /\ UNCHANGED vars => Memory'
<1> SUFFICES ASSUME Memory, UNCHANGED vars PROVE Memory'
  OBVIOUS
<1>1. /\ mStrong' = mStrong /\ mFlags' = mFlags
      /\ object' = object /\ refs' = refs /\ pc' = pc
      /\ curCount' = curCount /\ lender' = lender
  BY DEF vars
<1>2. constructing' = constructing
  BY DEF vars
<1>3. Constructing' /\ Lending' /\ Borrowing'
  BY <1>1, <1>2 DEF Memory, Constructing, Lending, Borrowing
<1>4. StrongLifetime' /\ WeakLifetime' /\ Block'
  BY <1>1, <1>2 DEF Memory, StrongLifetime, WeakLifetime, Block
<1> QED
  BY <1>3, <1>4 DEF Memory

(* The inductive invariant, for callers that keep to SafeUse.              *)
THEOREM MemoryInvariant == ASSUME SafeUse PROVE Spec => []IInv
<1>1. Init => IInv
  BY CountingInit, MemoryInit DEF IInv
<1>2. IInv /\ [Next]_vars => IInv'
  <2> SUFFICES ASSUME IInv, [Next]_vars PROVE IInv'
    OBVIOUS
  <2>1. Counting'
    BY CountingStep DEF IInv
  <2>2. CASE \E c \in Clients : Step(c)
    BY <2>1, <2>2, MemoryStep DEF IInv
  <2>3. CASE \E c, s \in Clients : Copy(c, s)
    BY <2>1, <2>3, MemoryCopy DEF IInv
  <2>4. CASE UNCHANGED vars
    BY <2>1, <2>4, MemoryStutter DEF IInv
  <2> QED
    BY <2>2, <2>3, <2>4 DEF Next
<1> QED
  BY <1>1, <1>2, PTL DEF Spec

(* The inductive invariant puts everything a client may dereference in     *)
(* live memory.                                                            *)
LEMMA SafeStates == IInv => NoUseAfterFree
<1> SUFFICES ASSUME IInv, NEW c \in Clients
             PROVE  (UsesObject(c) => object = "live") /\ (UsesRefs(c) => refs = "live")
  BY DEF NoUseAfterFree
<1>t. /\ mFlags \in {"STRONG", "WEAK"}
      /\ constructing \in BOOLEAN
      /\ object \in {"live", "freed"} /\ refs \in {"live", "freed"}
      /\ Constructing /\ StrongLifetime /\ WeakLifetime /\ Block
      /\ Counting
  BY LifetimesAssumption DEF IInv, Counting, TypeOK, Memory
<1>1. UsesRefs(c) => refs = "live"
  BY <1>t DEF UsesRefs, Block
<1>2. pc[c] \in CountedStrong => object = "live"
  <2>1. pc[c] \in CountedStrong => mStrong > 0 /\ refs = "live"
    BY <1>t, <1>1, StrongPositive DEF UsesRefs, CountedStrong, Counting, TypeOK
  <2> QED
    BY <1>t, <2>1 DEF StrongLifetime, WeakLifetime
<1>3. pc[c] \in {"on_last", "delete"} => object = "live"
  BY <1>t, <1>1 DEF StrongLifetime, WeakLifetime, UsesRefs
<1>4. mFlags = "WEAK" /\ pc[c] \in {"att_slow", "last_weak"} => object = "live"
  BY <1>t, <1>1 DEF WeakLifetime, UsesRefs
<1>5. mFlags = "STRONG" /\ pc[c] = "last_weak" /\ mStrong = INITIAL_STRONG_VALUE => object = "live"
  BY <1>t, <1>1, CardFacts DEF StrongLifetime, Constructing, UsesRefs
<1> QED
  BY <1>t, <1>1, <1>2, <1>3, <1>4, <1>5 DEF UsesObject

(* No freed object or control block is ever reached for, whatever the      *)
(* other threads are in the middle of: nothing is deleted twice, Resolve   *)
(* returns live objects, DecWeak frees the counters last.                  *)
THEOREM MemorySafety == ASSUME SafeUse PROVE Spec => []NoUseAfterFree
  BY MemoryInvariant, SafeStates, PTL

(* When nobody holds or is acquiring a reference, nothing is left          *)
(* allocated: the last DecWeak, or the destructor, has freed the counters. *)
THEOREM NothingLeaks == ASSUME SafeUse PROVE Spec => []NoLeak
<1>1. ASSUME IInv, ~constructing, \A c \in Clients : pc[c] = "none"
      PROVE  object = "freed" /\ refs = "freed"
  <2>t. /\ mFlags \in {"STRONG", "WEAK"}
        /\ object \in {"live", "freed"} /\ refs \in {"live", "freed"}
        /\ StrongLifetime /\ WeakLifetime /\ Block /\ CountsExact
    BY <1>1, LifetimesAssumption DEF IInv, Counting, Counters, TypeOK, Memory
  <2>1. refs = "freed"
    BY <1>1, <2>t DEF Block
  <2>2. mStrong \in {0, INITIAL_STRONG_VALUE} /\ INITIAL_STRONG_VALUE \in Nat
    <3>1. StrongRefs = {}
      BY <1>1 DEF StrongRefs, CountedStrong
    <3> QED
      BY <3>1, <2>t, CardFacts DEF CountsExact
  <2>3. CASE mFlags = "STRONG"
    <3>1. mStrong # 0 \/ object # "live"
      BY <2>3, <2>t, <1>1 DEF StrongLifetime
    <3>2. ~(mStrong >= INITIAL_STRONG_VALUE)
      BY <2>3, <2>t, <1>1 DEF StrongLifetime
    <3> QED
      BY <3>1, <3>2, <2>1, <2>2, <2>t
  <2>4. CASE mFlags = "WEAK"
    BY <2>4, <2>1, <2>t DEF WeakLifetime
  <2> QED
    BY <2>1, <2>3, <2>4, <2>t
<1>2. IInv => NoLeak
  BY <1>1 DEF NoLeak
<1> QED
  BY <1>2, MemoryInvariant, PTL

(* The ELA_ASSERT_WITH_BLOCK conditions of IncStrong, DecStrong and        *)
(* DecWeak hold.                                                           *)
THEOREM AssertionsNeverFail == ASSUME SafeUse PROVE Spec => []AssertionsHold
<1>1. ASSUME IInv, NEW c \in Clients
      PROVE  /\ pc[c] = "inc_strong" => mStrong > 0
             /\ pc[c] = "strong" => mStrong >= 1
             /\ pc[c] \in {"dec_weak", "weak", "att_slow"} => mWeak >= 1
  <2>t. Counting /\ Lending /\ Borrowing /\ lender \in [Clients -> Clients \cup {NoClient}]
    BY <1>1 DEF IInv, Memory, Counting, TypeOK
  <2>1. pc[c] = "strong" => mStrong >= 1
    BY <2>t, StrongPositive DEF CountedStrong
  <2>2. pc[c] = "inc_strong" => mStrong > 0
    <3>1. CASE lender[c] = NoClient
      BY <3>1, <2>t, CardFacts, InitialStrongAssumption DEF Borrowing
    <3>2. CASE lender[c] # NoClient
      <4>1. lender[c] \in Clients /\ pc[lender[c]] \in CountedStrong
        BY <3>2, <2>t DEF Lending, CountedStrong
      <4> QED
        BY <4>1, <2>t, StrongPositive DEF Counting, TypeOK
    <3> QED
      BY <3>1, <3>2
  <2>3. pc[c] \in {"dec_weak", "weak", "att_slow"} => mWeak >= 1
    BY <2>t, WeakCountMembers DEF CountedWeak, PCs, Idle, Counting, Counters, CountsExact
  <2> QED
    BY <2>1, <2>2, <2>3
<1>2. IInv => AssertionsHold
  BY <1>1 DEF AssertionsHold
<1> QED
  BY <1>2, MemoryInvariant, PTL

(* OnFirstRef runs in one thread at a time.  No discipline of the callers  *)
(* is needed.                                                              *)
THEOREM FirstRefOnce == Spec => []OneFirstRef
<1>1. Counting => OneFirstRef
  BY DEF Counting, Counters
<1> QED
  BY <1>1, CountingInvariant, PTL
-----------------------------------------------------------------------------
(* The refinement: which step of SharedOwnership a step of RefBase is      *)
(* follows from where the moved client comes from and where it goes.       *)
Owners == {c \in Clients : pc[c] = "strong"}
Observers == {c \in Clients : pc[c] = "weak"}

(* A client inside an operation, or holding a reference, finds the control *)
(* block live.                                                             *)
LEMMA Reaches ==
    ASSUME IInv, NEW c \in Clients, NEW to \in PCs, Goto(c, to),
           pc[c] \in {"strong", "weak"} => to \notin {"strong", "weak"},
           to = "strong" => object = "live",
           to = "weak" => refs = "live",
           UNCHANGED <<object, refs>>
    PROVE  [Ownership!Next]_(Ownership!vars)
<1>1. /\ Owners' = IF to = "strong" THEN Owners \cup {c} ELSE Owners \ {c}
      /\ Observers' = IF to = "weak" THEN Observers \cup {c} ELSE Observers \ {c}
  BY DEF IInv, Counting, TypeOK, Goto, Owners, Observers
<1>2. CASE to = "strong"
  <2>1. Ownership!Own(c)
    BY <1>1, <1>2 DEF Ownership!Own, Owners, Observers
  <2> QED
    BY <2>1 DEF Ownership!Next
<1>3. CASE to = "weak"
  <2>1. Ownership!Observe(c)
    BY <1>1, <1>3 DEF Ownership!Observe, Owners, Observers
  <2> QED
    BY <2>1 DEF Ownership!Next
<1>4. CASE to \notin {"strong", "weak"} /\ pc[c] = "strong"
  <2>1. Ownership!Disown(c)
    BY <1>1, <1>4 DEF Ownership!Disown, Owners, Observers
  <2> QED
    BY <2>1 DEF Ownership!Next
<1>5. CASE to \notin {"strong", "weak"} /\ pc[c] = "weak"
  <2>1. Ownership!Unobserve(c)
    BY <1>1, <1>5 DEF Ownership!Unobserve, Owners, Observers
  <2> QED
    BY <2>1 DEF Ownership!Next
<1>6. CASE to \notin {"strong", "weak"} /\ pc[c] \notin {"strong", "weak"}
  BY <1>1, <1>6 DEF Ownership!vars, Owners, Observers
<1> QED
  BY <1>2, <1>3, <1>4, <1>5, <1>6

(* A step of RefBase that frees nothing moves one client; the two that     *)
(* free are Destroy and FreeBlock.                                         *)
LEMMA OwnershipStep ==
    ASSUME IInv, NEW c \in Clients, Step(c)
    PROVE  [Ownership!Next]_(Ownership!vars)
<1> USE DEF PCs, Idle
<1>t. /\ pc \in [Clients -> PCs] /\ lender \in [Clients -> Clients \cup {NoClient}]
      /\ mFlags \in {"STRONG", "WEAK"} /\ mStrong \in Nat
      /\ object \in {"live", "freed"} /\ refs \in {"live", "freed"}
      /\ Counting /\ Constructing /\ Lending /\ Borrowing
      /\ StrongLifetime /\ WeakLifetime /\ Block
  BY LifetimesAssumption DEF IInv, Counting, TypeOK, Memory
<1>u. /\ \A d \in Clients : UsesObject(d) => object = "live"
      /\ \A d \in Clients : pc[d] # "none" => refs = "live"
  BY SafeStates DEF NoUseAfterFree, UsesRefs
<1>b. ASSUME pc[c] \in {"inc_strong", "force_inc"} PROVE object = "live"
  <2>1. CASE lender[c] = NoClient
    BY <1>b, <2>1, <1>t, <1>u DEF Borrowing, WeakLifetime
  <2>2. CASE lender[c] # NoClient
    BY <1>b, <2>2, <1>t, <1>u DEF Lending, UsesObject, CountedStrong
  <2> QED
    BY <2>1, <2>2
<1>1. CASE IncStrongFirst(c)
  BY <1>1, Reaches DEF IncStrongFirst
<1>2. CASE IncStrongAdd(c)
  BY <1>2, <1>b, <1>t, Reaches DEF IncStrongAdd
<1>3. CASE SubtractInitial(c)
  BY <1>3, Reaches DEF SubtractInitial
<1>4. CASE OnFirstRef(c)
  BY <1>4, <1>u, <1>t, Reaches DEF OnFirstRef, UsesObject, CountedStrong
<1>5. CASE ForceIncStrongAdd(c)
  BY <1>5, <1>b, <1>t, Reaches DEF ForceIncStrongAdd
<1>6. CASE CreateWeakFirst(c)
  <2>1. Goto(c, "weak") /\ UNCHANGED <<object, refs>> /\ pc[c] = "none" /\ constructing
    BY <1>6 DEF CreateWeakFirst
  <2>2. refs = "live"
    BY <2>1, <1>t DEF Constructing
  <2> QED
    BY <2>1, <2>2, Reaches
<1>7. CASE DropWeak(c)
  BY <1>7, Reaches DEF DropWeak, DecWeak
<1>8. CASE DecStrong(c)
  BY <1>8, Reaches DEF DecStrong
<1>9. CASE OnLastStrongRef(c)
  BY <1>9, Reaches DEF OnLastStrongRef
<1>10. CASE DecStrongWeak(c)
  BY <1>10, Reaches DEF DecStrongWeak, DecWeak
<1>11. CASE AttemptRead(c)
  BY <1>11, Reaches DEF AttemptRead
<1>12. CASE AttemptAllowed(c)
  BY <1>12, Reaches DEF AttemptAllowed
<1>13. CASE AttemptRefused(c)
  BY <1>13, Reaches DEF AttemptRefused, DecWeak
<1>14. CASE AttemptUnneeded(c)
  BY <1>14, <1>u, <1>t, Reaches DEF AttemptUnneeded, UsesObject, CountedStrong
<1>15. CASE AttemptSwap(c)
  <2>1. CASE mStrong = curCount[c]
    <3>1. object = "live"
      BY <1>15, <2>1, <1>t, <1>u DEF AttemptSwap, StrongLifetime, WeakLifetime
    <3> QED
      BY <1>15, <2>1, <3>1, Reaches DEF AttemptSwap
  <2>2. CASE mStrong # curCount[c]
    BY <1>15, <2>2, Reaches DEF AttemptSwap
  <2> QED
    BY <2>1, <2>2
<1>16. CASE AttemptAdd(c)
  <2>1. object = "live"
    BY <1>16, <1>t, <1>u DEF AttemptAdd, StrongLifetime, WeakLifetime
  <2> QED
    BY <1>16, <2>1, Reaches DEF AttemptAdd
<1>17. CASE DeleteObject(c)
  <2>1. Owners' = Owners /\ Observers' = Observers
    BY <1>17, <1>t DEF DeleteObject, Goto, Owners, Observers
  <2>2. /\ mFlags = "STRONG" /\ mStrong = 0 /\ object = "live"
    BY <1>17, <1>t DEF DeleteObject, StrongLifetime, WeakLifetime
  <2>3. Owners = {}
    <3>1. ASSUME NEW d \in Clients, pc[d] = "strong" PROVE FALSE
      BY <3>1, <2>2, <1>t, StrongPositive DEF CountedStrong
    <3> QED
      BY <3>1 DEF Owners
  <2>4. refs' = refs /\ object' = "freed"
    BY <1>17, <2>2, CardFacts, InitialStrongAssumption DEF DeleteObject, RefsAfterDestructor
  <2>5. Ownership!Destroy
    BY <2>1, <2>2, <2>3, <2>4 DEF Ownership!Destroy, Owners, Observers
  <2> QED
    BY <2>5 DEF Ownership!Next
<1>18. CASE LastWeak(c)
  <2>1. /\ Owners = {} /\ Owners' = {}
        /\ Observers = {} /\ Observers' = {}
    BY <1>18, <1>t DEF LastWeak, Goto, Block, Owners, Observers
  <2>2. refs = "live"
    BY <1>18, <1>u DEF LastWeak
  <2>3. CASE mFlags = "WEAK" \/ mStrong = INITIAL_STRONG_VALUE
    <3>1. object = "live"
      BY <1>18, <2>3, <1>u DEF LastWeak, UsesObject
    <3>2. object' = "freed" /\ refs' \in {"freed", refs}
      BY <1>18, <2>3 DEF LastWeak, RefsAfterDestructor
    <3>3. Ownership!Destroy
      BY <2>1, <3>1, <3>2 DEF Ownership!Destroy, Owners, Observers
    <3> QED
      BY <3>3 DEF Ownership!Next
  <2>4. CASE ~(mFlags = "WEAK" \/ mStrong = INITIAL_STRONG_VALUE)
    <3>1. mStrong = 0
      <4>1. StrongRefs = {}
        BY <1>18, <1>t DEF LastWeak, Block, StrongRefs, CountedStrong
      <4> QED
        BY <4>1, <2>4, <1>t, CardFacts DEF Counting, Counters, CountsExact
    <3>2. object = "freed"
      BY <1>18, <3>1, <2>4, <1>t DEF LastWeak, StrongLifetime, Block
    <3>3. object' = object /\ refs' = "freed"
      BY <1>18, <2>4 DEF LastWeak
    <3>4. Ownership!FreeBlock
      BY <2>1, <2>2, <3>2, <3>3 DEF Ownership!FreeBlock, Owners, Observers
    <3> QED
      BY <3>4 DEF Ownership!Next
  <2> QED
    BY <2>3, <2>4
<1> QED
  BY <1>1, <1>2, <1>3, <1>4, <1>5, <1>6, <1>7, <1>8, <1>9, <1>10, <1>11, <1>12, <1>13, <1>14, <1>15, <1>16, <1>17, <1>18 DEF Step

(* Taking a reference from another client is Own, Observe or a stutter.    *)
LEMMA OwnershipCopy ==
    ASSUME IInv, NEW c \in Clients, NEW s \in Clients, Copy(c, s)
    PROVE  [Ownership!Next]_(Ownership!vars)
<1> USE DEF PCs, Idle
<1>1. pc[s] # "none" => refs = "live"
  BY SafeStates DEF NoUseAfterFree, UsesRefs
<1>2. CASE IncStrong(c, s)
  BY <1>2, Reaches DEF IncStrong
<1>3. CASE ForceIncStrong(c, s)
  BY <1>3, Reaches DEF ForceIncStrong
<1>4. CASE IncWeak(c, s)
  BY <1>1, <1>4, Reaches DEF IncWeak
<1>5. CASE AttemptIncStrong(c, s)
  BY <1>5, Reaches DEF AttemptIncStrong
<1> QED
  BY <1>2, <1>3, <1>4, <1>5 DEF Copy

(* RefBase implements SharedOwnership, for any finite set of clients.      *)
THEOREM Refinement == ASSUME SafeUse PROVE Spec => ImplementsOwnership
<1>1. Init => Ownership!Init
  BY DEF Init, Ownership!Init
<1>2. IInv /\ [Next]_vars => [Ownership!Next]_(Ownership!vars)
  <2>1. ASSUME UNCHANGED vars PROVE UNCHANGED Ownership!vars
    BY <2>1 DEF vars, Ownership!vars
  <2> QED
    BY <2>1, OwnershipStep, OwnershipCopy DEF Next
<1> QED
  BY <1>1, <1>2, MemoryInvariant, PTL DEF Spec, ImplementsOwnership, Ownership!Spec
=============================================================================

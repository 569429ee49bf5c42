---------------------------- MODULE SetsAndLists ----------------------------
(***************************************************************************)
(* What the proofs share about finite sets, which references are counted   *)
(* with, and about the lists that queues are kept in.  Nothing is proved   *)
(* by induction: the places of a list are numbered by how many of them     *)
(* come before, and the library's facts about injections do the rest.      *)
(***************************************************************************)
EXTENDS Lists, SequencesExt, FiniteSetTheorems, TLAPS

(***************************************************************************)
(* Finite sets.                                                            *)
(***************************************************************************)

(* What one possible element adds to the size of a set.                    *)
One(p) == IF p THEN 1 ELSE 0

(* A set counted without two of its possible elements.                     *)
LEMMA WithoutTwo ==
    ASSUME NEW S, IsFiniteSet(S), NEW x, NEW y, x # y
    PROVE  /\ Cardinality((S \ {x}) \ {y}) \in Nat
           /\ Cardinality(S) =
                Cardinality((S \ {x}) \ {y}) + One(x \in S) + One(y \in S)
<1> DEFINE T == S \ {x}
           U == T \ {y}
<1>1. IsFiniteSet(T) /\ Cardinality(T) = IF x \in S THEN Cardinality(S) - 1 ELSE Cardinality(S)
  BY FS_RemoveElement
<1>2. y \in T <=> y \in S
  OBVIOUS
<1> HIDE DEF T
<1>3. IsFiniteSet(U) /\ Cardinality(U) = IF y \in T THEN Cardinality(T) - 1 ELSE Cardinality(T)
  BY <1>1, FS_RemoveElement
<1> HIDE DEF U
<1>4. Cardinality(S) \in Nat /\ Cardinality(T) \in Nat /\ Cardinality(U) \in Nat
  BY <1>1, <1>3, FS_CardinalityType
<1>5. Cardinality(S) = Cardinality(U) + One(x \in S) + One(y \in S)
  BY <1>1, <1>2, <1>3, <1>4 DEF One
<1> QED
  BY <1>4, <1>5 DEF T, U

(* A set of pairs of a finite set and two marks is finite.                 *)
LEMMA MarkedFinite ==
    ASSUME NEW S, IsFiniteSet(S), NEW x, NEW y, NEW R, R \subseteq S \X {x, y}
    PROVE  IsFiniteSet(R) /\ Cardinality(R) \in Nat
<1>1. IsFiniteSet({x, y})
  <2>1. IsFiniteSet({x} \cup {y})
    BY FS_Singleton, FS_AddElement
  <2>2. {x} \cup {y} = {x, y}
    OBVIOUS
  <2> QED
    BY <2>1, <2>2
<1>2. IsFiniteSet(S \X {x, y})
  BY <1>1, FS_Product
<1> QED
  BY <1>2, FS_Subset, FS_CardinalityType

(* A set that differs from another one by one element at most.             *)
LEMMA DifferAt ==
    ASSUME NEW S, IsFiniteSet(S), NEW T, NEW x, T \ {x} = S \ {x}
    PROVE  /\ IsFiniteSet(T)
           /\ Cardinality(S) \in Nat /\ Cardinality(T) \in Nat
           /\ Cardinality(T) = Cardinality(S) + One(x \in T) - One(x \in S)
<1> DEFINE U == S \ {x}
<1>1. /\ IsFiniteSet(U)
      /\ Cardinality(U) = IF x \in S THEN Cardinality(S) - 1 ELSE Cardinality(S)
  BY FS_RemoveElement
<1>2. x \notin U /\ T = IF x \in T THEN U \cup {x} ELSE U
  OBVIOUS
<1> HIDE DEF U
<1>3. /\ IsFiniteSet(U \cup {x})
      /\ Cardinality(U \cup {x}) = Cardinality(U) + 1
  BY <1>1, <1>2, FS_AddElement
<1>4. IsFiniteSet(T) /\ Cardinality(T) = Cardinality(U) + One(x \in T)
  <2>1. CASE x \in T
    BY <1>2, <1>3, <2>1 DEF One
  <2>2. CASE x \notin T
    <3>1. Cardinality(U) \in Nat
      BY <1>1, FS_CardinalityType
    <3> QED
      BY <1>1, <1>2, <2>2, <3>1 DEF One
  <2> QED
    BY <2>1, <2>2
<1> QED
  BY <1>1, <1>4, FS_CardinalityType DEF One
-----------------------------------------------------------------------------
(***************************************************************************)
(* Lists.                                                                  *)
(***************************************************************************)

(* The places of a finite set are numbered from 1 on, in their order.      *)
LEMMA RankOnto ==
    ASSUME NEW K, IsFiniteSet(K), K \subseteq Int
    PROVE  /\ \A i \in K : Rank(K, i) \in 1 .. Cardinality(K)
           /\ \A i, j \in K : i < j => Rank(K, i) < Rank(K, j)
           /\ \A n \in 1 .. Cardinality(K) : \E i \in K : Rank(K, i) = n
<1> DEFINE Upto(i) == {j \in K : j <= i}
           rank == [i \in K |-> Rank(K, i)]
           N == Cardinality(K)
<1>1. \A i : IsFiniteSet(Upto(i)) /\ Cardinality(Upto(i)) \in Nat /\ Cardinality(Upto(i)) <= N
  BY FS_Subset, FS_CardinalityType
<1>2. N \in Nat
  BY FS_CardinalityType
<1>3. ASSUME NEW i \in K
      PROVE  Rank(K, i) \in 1 .. N
  <2>1. Upto(i) # {}
    OBVIOUS
  <2> QED
    BY <1>1, <1>2, <2>1, FS_EmptySet DEF Rank
<1>4. ASSUME NEW i \in K, NEW j \in K, i < j
      PROVE  Rank(K, i) < Rank(K, j)
  <2>1. Upto(i) \subseteq Upto(j) /\ Upto(i) # Upto(j)
    <3>1. i \in Int /\ j \in Int /\ j \in Upto(j) /\ j \notin Upto(i)
      BY <1>4
    <3>2. \A x \in Int : x <= i => x <= j
      BY <1>4, <3>1
    <3> QED
      BY <3>1, <3>2
  <2>2. Cardinality(Upto(i)) <= Cardinality(Upto(j)) /\ Cardinality(Upto(i)) # Cardinality(Upto(j))
    BY <1>1, <2>1, FS_Subset
  <2> QED
    BY <1>1, <2>2 DEF Rank
<1>5. rank \in Injection(K, 1 .. N)
  BY <1>3, <1>4 DEF Injection, IsInjective
<1>6. IsFiniteSet(1 .. N) /\ Cardinality(1 .. N) = N
  BY <1>2, FS_Interval
<1>7. rank \in Surjection(K, 1 .. N)
  BY <1>5, <1>6, FS_Injection
<1> QED
  BY <1>3, <1>4, <1>7 DEF Surjection

LEMMA GreatestExists ==
    ASSUME NEW K, IsFiniteSet(K), K \subseteq Int, K # {}
    PROVE  Max(K) \in K /\ \A i \in K : i <= Max(K)
<1>1. Cardinality(K) \in 1 .. Cardinality(K)
  BY FS_EmptySet, FS_CardinalityType
<1>2. PICK m \in K : Rank(K, m) = Cardinality(K)
  BY <1>1, RankOnto
<1>3. {j \in K : j <= m} = K
  BY <1>2, FS_Subset DEF Rank
<1>4. \A i \in K : m >= i
  BY <1>3
<1> QED
  BY <1>4 DEF Max

LEMMA LeastExists ==
    ASSUME NEW K, IsFiniteSet(K), K \subseteq Int, K # {}
    PROVE  Min(K) \in K /\ \A i \in K : Min(K) <= i
<1>1. 1 \in 1 .. Cardinality(K)
  BY FS_EmptySet, FS_CardinalityType
<1>2. PICK m \in K : Rank(K, m) = 1
  BY <1>1, RankOnto
<1>3. ASSUME NEW i \in K
      PROVE  m <= i
  <2>1. Rank(K, i) \in 1 .. Cardinality(K) /\ (i < m => Rank(K, i) < 1)
    BY <1>2, RankOnto
  <2> QED
    BY <2>1
<1>4. \A i \in K : m <= i
  BY <1>3
<1> QED
  BY <1>4 DEF Min

(* InsertAt moves the entries from its place on by one.                    *)
LEMMA InsertAtIs ==
    ASSUME NEW E, NEW list \in Seq(E), NEW e \in E, NEW k \in 1 .. Len(list) + 1
    PROVE  /\ InsertAt(list, k, e) \in Seq(E)
           /\ Len(InsertAt(list, k, e)) = Len(list) + 1
           /\ \A i \in 1 .. Len(list) + 1 : InsertAt(list, k, e)[i] =
                IF i < k THEN list[i] ELSE IF i = k THEN e ELSE list[i - 1]
           /\ Range(InsertAt(list, k, e)) = Range(list) \cup {e}
<1> DEFINE longer == InsertAt(list, k, e)
<1> DEFINE front == SubSeq(list, 1, k - 1)
           back == SubSeq(list, k, Len(list))
           half == front \o <<e>>
<1>1. Len(list) \in Nat /\ k \in Nat
  OBVIOUS
<1>2. front \in Seq(E) /\ Len(front) = k - 1
  OBVIOUS
<1>3. \A i \in 1 .. k - 1 : front[i] = list[i]
  OBVIOUS
<1>4. back \in Seq(E) /\ Len(back) = Len(list) - k + 1
  OBVIOUS
<1>5. \A i \in 1 .. Len(list) - k + 1 : back[i] = list[k + i - 1]
  OBVIOUS
<1>6. longer = half \o back
  BY DEF InsertAt
<1> HIDE DEF front, back, longer
<1>7. half \in Seq(E) /\ Len(half) = k
  BY <1>1, <1>2
<1>8. half[k] = e /\ \A i \in 1 .. k - 1 : half[i] = front[i]
  BY <1>1, <1>2
<1> HIDE DEF half
<1>9. longer \in Seq(E)
  BY <1>4, <1>6, <1>7
<1>10. Len(longer) = Len(list) + 1
  BY <1>1, <1>4, <1>6, <1>7
<1>11. \A i \in 1 .. Len(list) + 1 : longer[i] =
                IF i < k THEN list[i] ELSE IF i = k THEN e ELSE list[i - 1]
  <2> TAKE i \in 1 .. Len(list) + 1
  <2>1. CASE i < k
    BY <1>1, <1>3, <1>4, <1>6, <1>7, <1>8, <2>1
  <2>2. CASE i = k
    BY <1>1, <1>4, <1>6, <1>7, <1>8, <2>2
  <2>3. CASE i > k
    <3>1. longer[i] = back[i - k] /\ i - k \in 1 .. Len(list) - k + 1
      BY <1>1, <1>4, <1>6, <1>7, <2>3
    <3>2. back[i - k] = list[k + (i - k) - 1]
      BY <1>5, <3>1
    <3> QED
      BY <1>1, <2>3, <3>1, <3>2
  <2> QED
    BY <2>1, <2>2, <2>3
<1>12. \A i \in 1 .. Len(list) : list[i] = IF i < k THEN longer[i] ELSE longer[i + 1]
  BY <1>11
<1>13. DOMAIN longer = 1 .. Len(list) + 1
  BY <1>9, <1>10
<1>14. DOMAIN list = 1 .. Len(list)
  OBVIOUS
<1>15. Range(longer) = Range(list) \cup {e}
  <2>1. ASSUME NEW x \in Range(longer)
        PROVE  x \in Range(list) \cup {e}
    BY <1>11, <1>13, <1>14 DEF Range
  <2>2. ASSUME NEW x \in Range(list)
        PROVE  x \in Range(longer)
    BY <1>12, <1>13, <1>14 DEF Range
  <2>3. e \in Range(longer)
    BY <1>11, <1>13 DEF Range
  <2> QED
    BY <2>1, <2>2, <2>3
<1> QED
  BY <1>9, <1>10, <1>11, <1>15 DEF longer

(* What is left of a list has exactly the entries that are not detached,   *)
(* in the order they had; each that is kept has its place.                 *)
LEMMA WithoutPlaces ==
    ASSUME NEW E, NEW list \in Seq(E), NEW S
    PROVE  /\ Without(list, S) \in Seq(E)
           /\ Range(Without(list, S)) = Range(list) \ S
           /\ \E from \in [DOMAIN Without(list, S) -> DOMAIN list] :
                /\ \A i \in DOMAIN Without(list, S) : Without(list, S)[i] = list[from[i]]
                /\ \A i, j \in DOMAIN Without(list, S) : i < j => from[i] < from[j]
                /\ \A i \in DOMAIN list : list[i] \notin S =>
                        \E n \in DOMAIN Without(list, S) : from[n] = i
<1> DEFINE K == {i \in DOMAIN list : list[i] \notin S}
           N == Cardinality(K)
           rest == Without(list, S)
           from == [n \in 1 .. N |-> CHOOSE i \in K : Rank(K, i) = n]
<1>1. K \subseteq 1 .. Len(list) /\ K \subseteq Int /\ DOMAIN list = 1 .. Len(list)
  OBVIOUS
<1>2. IsFiniteSet(K) /\ N \in Nat
  <2>1. IsFiniteSet(1 .. Len(list))
    BY FS_Interval
  <2> QED
    BY <1>1, <2>1, FS_Subset, FS_CardinalityType
<1>3. rest = [n \in 1 .. N |-> list[CHOOSE i \in K : Rank(K, i) = n]]
  BY DEF Without
<1>4. \A i \in K : list[i] \in E /\ list[i] \notin S
  BY <1>1
<1> HIDE DEF K, N, rest
<1>5. /\ \A i \in K : Rank(K, i) \in 1 .. N
      /\ \A i, j \in K : i < j => Rank(K, i) < Rank(K, j)
  BY <1>1, <1>2, RankOnto DEF N
<1>6. \A n \in 1 .. N : from[n] \in K /\ Rank(K, from[n]) = n
  BY <1>1, <1>2, RankOnto DEF N
<1>7. \A n \in 1 .. N : rest[n] = list[from[n]]
  BY <1>3
<1>8. DOMAIN rest = 1 .. N
  BY <1>3
<1> HIDE DEF from
<1>9. rest \in Seq(E)
  <2>1. rest \in [1 .. N -> E]
    BY <1>3, <1>4, <1>6, <1>7
  <2> QED
    BY <1>2, <2>1
<1>10. ASSUME NEW i \in 1 .. N, NEW j \in 1 .. N, i < j
       PROVE  from[i] < from[j]
  <2>1. from[i] \in Int /\ from[j] \in Int
    BY <1>1, <1>6
  <2>2. from[j] < from[i] => j < i
    BY <1>6, <1>5
  <2>3. from[i] # from[j]
    BY <1>6, <1>10
  <2> QED
    BY <1>10, <2>1, <2>2, <2>3
<1>11. ASSUME NEW i \in K
       PROVE  Rank(K, i) \in 1 .. N /\ from[Rank(K, i)] = i
  <2>1. Rank(K, i) \in 1 .. N
    BY <1>5
  <2>2. PICK j \in K : j = from[Rank(K, i)] /\ Rank(K, j) = Rank(K, i)
    BY <1>6, <2>1
  <2>3. i \in Int /\ j \in Int
    BY <1>1
  <2>4. i = j
    BY <1>5, <2>1, <2>2, <2>3
  <2> QED
    BY <2>1, <2>2, <2>4
<1>12. Range(rest) = Range(list) \ S
  <2>1. ASSUME NEW x \in Range(rest)
        PROVE  x \in Range(list) \ S
    <3>1. PICK n \in 1 .. N : x = list[from[n]] /\ from[n] \in K
      BY <1>6, <1>7, <1>8 DEF Range
    <3>2. from[n] \in DOMAIN list /\ list[from[n]] \notin S
      BY <3>1 DEF K
    <3> QED
      BY <3>1, <3>2 DEF Range
  <2>2. ASSUME NEW x \in Range(list) \ S
        PROVE  x \in Range(rest)
    <3>1. PICK i \in DOMAIN list : x = list[i]
      BY DEF Range
    <3>2. i \in K
      BY <3>1 DEF K
    <3> QED
      BY <1>7, <1>8, <1>11, <3>1, <3>2 DEF Range
  <2> QED
    BY <2>1, <2>2
<1>13. from \in [1 .. N -> DOMAIN list]
  BY <1>1, <1>6 DEF from
<1> QED
  <2>1. /\ from \in [DOMAIN rest -> DOMAIN list]
        /\ \A i \in DOMAIN rest : rest[i] = list[from[i]]
    BY <1>7, <1>8, <1>13
  <2>2. \A i, j \in DOMAIN rest : i < j => from[i] < from[j]
    BY <1>8, <1>10
  <2>3. \A i \in DOMAIN list : list[i] \notin S => \E n \in DOMAIN rest : from[n] = i
    BY <1>8, <1>11 DEF K
  <2> QED
    BY <1>9, <1>12, <2>1, <2>2, <2>3 DEF rest

(* The same without the places of what is kept.                            *)
LEMMA WithoutIs ==
    ASSUME NEW E, NEW list \in Seq(E), NEW S
    PROVE  /\ Without(list, S) \in Seq(E)
           /\ Range(Without(list, S)) = Range(list) \ S
           /\ \E from \in [DOMAIN Without(list, S) -> DOMAIN list] :
                /\ \A i \in DOMAIN Without(list, S) : Without(list, S)[i] = list[from[i]]
                /\ \A i, j \in DOMAIN Without(list, S) : i < j => from[i] < from[j]
<1> DEFINE rest == Without(list, S)
<1>1. /\ rest \in Seq(E) /\ Range(rest) = Range(list) \ S
      /\ \E from \in [DOMAIN rest -> DOMAIN list] :
           /\ \A i \in DOMAIN rest : rest[i] = list[from[i]]
           /\ \A i, j \in DOMAIN rest : i < j => from[i] < from[j]
           /\ \A i \in DOMAIN list : list[i] \notin S => \E n \in DOMAIN rest : from[n] = i
  BY WithoutPlaces
<1> HIDE DEF rest
<1>2. PICK from \in [DOMAIN rest -> DOMAIN list] :
        /\ \A i \in DOMAIN rest : rest[i] = list[from[i]]
        /\ \A i, j \in DOMAIN rest : i < j => from[i] < from[j]
  BY <1>1, Zenon
<1> QED
  BY <1>1, <1>2 DEF rest

(* A list without entries.                                                 *)
LEMMA EmptyRange ==
    ASSUME NEW E, NEW list \in Seq(E), Range(list) = {}
    PROVE  list = <<>>
<1> SUFFICES ASSUME list # <<>> PROVE FALSE
  OBVIOUS
<1>1. 1 \in DOMAIN list
  OBVIOUS
<1>2. list[1] \in Range(list)
  BY <1>1 DEF Range
<1> QED
  BY <1>2

(* So has its tail; the head is gone from it if no entry is there twice.   *)
LEMMA TailIs ==
    ASSUME NEW E, NEW list \in Seq(E), list # <<>>
    PROVE  /\ Tail(list) \in Seq(E)
           /\ Head(list) \in Range(list)
           /\ Range(list) = Range(Tail(list)) \cup {Head(list)}
           /\ (\A i, j \in DOMAIN list : list[i] = list[j] => i = j)
                => Head(list) \notin Range(Tail(list))
           /\ \E from \in [DOMAIN Tail(list) -> DOMAIN list] :
                /\ \A i \in DOMAIN Tail(list) : Tail(list)[i] = list[from[i]]
                /\ \A i, j \in DOMAIN Tail(list) : i < j => from[i] < from[j]
<1> DEFINE rest == Tail(list)
           N == Len(list) - 1
           from == [i \in 1 .. N |-> i + 1]
<1>1. Head(list) = list[1] /\ Len(list) \in Nat \ {0} /\ N \in Nat
  OBVIOUS
<1>2. rest \in Seq(E) /\ DOMAIN rest = 1 .. N /\ DOMAIN list = 1 .. N + 1
  OBVIOUS
<1>3. \A i \in 1 .. N : rest[i] = list[i + 1]
  OBVIOUS
<1> HIDE DEF rest, N
<1>4. from \in [1 .. N -> 1 .. N + 1] /\ \A i, j \in 1 .. N : i < j => from[i] < from[j]
  BY <1>1
<1>5. ASSUME NEW x \in Range(list), x # list[1]
      PROVE  x \in Range(rest)
  <2>1. PICK i \in 1 .. N + 1 : x = list[i]
    BY <1>2 DEF Range
  <2>2. i - 1 \in 1 .. N /\ rest[i - 1] = x
    BY <1>1, <1>3, <1>5, <2>1
  <2> QED
    BY <1>2, <2>2 DEF Range
<1>6. ASSUME NEW x \in Range(rest)
      PROVE  \E i \in 1 .. N + 1 : i # 1 /\ x = list[i]
  <2>1. PICK i \in 1 .. N : x = rest[i]
    BY <1>2 DEF Range
  <2>2. i + 1 \in 1 .. N + 1 /\ i + 1 # 1 /\ list[i + 1] = x
    BY <1>1, <1>3, <2>1
  <2> QED
    BY <2>2
<1>7. 1 \in 1 .. N + 1 /\ list[1] \in Range(list)
  BY <1>1, <1>2 DEF Range
<1>8. Range(list) = Range(rest) \cup {Head(list)}
  BY <1>1, <1>2, <1>5, <1>6, <1>7 DEF Range
<1>9. (\A i, j \in DOMAIN list : list[i] = list[j] => i = j) => Head(list) \notin Range(rest)
  BY <1>1, <1>2, <1>6, <1>7
<1> HIDE DEF from
<1>10. \A i \in 1 .. N : rest[i] = list[from[i]]
  BY <1>3 DEF from
<1> QED
  BY <1>1, <1>2, <1>4, <1>7, <1>8, <1>9, <1>10 DEF rest

(* The first of the places where a test holds, as SelectInSeq finds it.    *)
LEMMA FirstPlace ==
    ASSUME NEW n \in Nat, NEW I \in SUBSET (1 .. n),
           NEW k, k = IF I # {} THEN Min(I) ELSE 0
    PROVE  /\ k \in 0 .. n
           /\ k > 0 => k \in I
           /\ \A i \in I : k > 0 /\ k <= i
<1>1. CASE I = {}
  BY <1>1
<1>2. CASE I # {}
  <2>1. IsFiniteSet(1 .. n)
    BY FS_Interval
  <2>2. IsFiniteSet(I)
    BY <2>1, FS_Subset
  <2>3. I \subseteq Int /\ I \subseteq 1 .. n
    OBVIOUS
  <2>4. Min(I) \in I /\ \A i \in I : Min(I) <= i
    BY <1>2, <2>2, <2>3, LeastExists
  <2>5. k = Min(I)
    BY <1>2
  <2>6. k \in I /\ \A i \in I : k <= i
    BY <2>4, <2>5
  <2>7. k \in 1 .. n
    BY <2>3, <2>6
  <2> QED
    BY <2>6, <2>7
<1> QED
  BY <1>1, <1>2

(* The other entries keep their order.                                     *)
LEMMA RemoveAtIs ==
    ASSUME NEW E, NEW list \in Seq(E), NEW k \in 1 .. Len(list)
    PROVE  /\ RemoveAt(list, k) \in Seq(E)
           /\ Len(RemoveAt(list, k)) = Len(list) - 1
           /\ \A i \in 1 .. Len(list) - 1 :
                RemoveAt(list, k)[i] = IF i < k THEN list[i] ELSE list[i + 1]
<1> DEFINE front == SubSeq(list, 1, k - 1)
           back == SubSeq(list, k + 1, Len(list))
           rest == front \o back
<1>1. Len(list) \in Nat /\ k \in Nat /\ \A i \in 1 .. Len(list) : list[i] \in E
  OBVIOUS
<1>2. /\ front \in Seq(E) /\ Len(front) = k - 1
      /\ \A i \in 1 .. k - 1 : front[i] = list[i]
  BY <1>1
<1>3. /\ back \in Seq(E) /\ Len(back) = Len(list) - k
      /\ \A i \in 1 .. Len(list) - k : back[i] = list[k + i]
  BY <1>1
<1> HIDE DEF front, back
<1>4. rest \in Seq(E) /\ Len(rest) = Len(list) - 1
  <2>1. front \in Seq(E) /\ back \in Seq(E)
    BY <1>2, <1>3
  <2>2. rest \in Seq(E) /\ Len(rest) = Len(front) + Len(back)
    BY <2>1
  <2> QED
    BY <1>1, <1>2, <1>3, <2>2
<1>5. ASSUME NEW i \in 1 .. Len(list) - 1
      PROVE  rest[i] = IF i < k THEN list[i] ELSE list[i + 1]
  <2>1. CASE i < k
    BY <1>1, <1>2, <1>3, <2>1
  <2>2. CASE ~(i < k)
    <3>1. i - (k - 1) \in 1 .. Len(list) - k
      BY <1>1, <2>2
    <3>2. rest[i] = back[i - (k - 1)]
      BY <1>1, <1>2, <1>3, <2>2
    <3>3. k + (i - (k - 1)) = i + 1
      BY <1>1
    <3> QED
      BY <1>3, <2>2, <3>1, <3>2, <3>3
  <2> QED
    BY <2>1, <2>2
<1>6. RemoveAt(list, k) = rest
  BY DEF RemoveAt, front, back
<1> HIDE DEF rest
<1> QED
  BY <1>4, <1>5, <1>6
=============================================================================

------------------------- MODULE SharedBufferProofs -------------------------
(***************************************************************************)
(* Proofs about SharedBuffer for any finite set of Strings and any set of  *)
(* addresses and texts: the counts are exact, a buffer is freed once, by   *)
(* its last owner, and Strings are isolated from each other.               *)
(***************************************************************************)
EXTENDS SharedBuffer, SetsAndLists

(* String t is inside Release of b and still counted.                      *)
Gives(t, b) == old[t] = b /\ pc[t] \in {"release", "dec"}

(* Which variables are in use where.                                       *)
Shape ==
    \A s \in Strings :
        /\ pc[s] \in Releasing <=> old[s] # NoBuffer
        /\ pc[s] \in {"edit", "resize", "copy", "write"} \/ then[s] = "write"
              => mString[s] # NoBuffer
        /\ then[s] = "write" => pc[s] \in Releasing

(* A String that is about to write to its buffer is its only owner.        *)
Alone ==
    \A s \in Strings : pc[s] \in {"resize", "write"} \/ then[s] = "write" =>
        \A t \in Strings :
            /\ mString[t] = mString[s] => t = s
            /\ ~Gives(t, mString[s])

IInv == TypeOK /\ Shape /\ Alone /\ NoUseAfterFree /\ NoLeak /\ CountsExact
-----------------------------------------------------------------------------
(* The owners of a buffer are finitely many.                               *)
LEMMA OwnersFinite ==
    ASSUME NEW b
    PROVE  /\ IsFiniteSet(Owners(b)) /\ Cardinality(Owners(b)) \in Nat
           /\ IsFiniteSet(Owners(b)') /\ Cardinality(Owners(b)') \in Nat
<1>1. /\ Owners(b) \subseteq Strings \X {"has", "releases"}
      /\ Owners(b)' \subseteq Strings \X {"has", "releases"}
  BY DEF Owners
<1> QED
  BY <1>1, MarkedFinite, StringsAssumption

(* What a count says about who owns a buffer.                              *)
LEMMA CountSays ==
    ASSUME NEW b
    PROVE  /\ Cardinality(Owners(b)) = 0
                <=> \A t \in Strings : mString[t] # b /\ ~Gives(t, b)
           /\ \A s \in Strings : mString[s] = b =>
                (Cardinality(Owners(b)) = 1 <=>
                   \A t \in Strings : (mString[t] = b => t = s) /\ ~Gives(t, b))
           /\ \A s \in Strings : Gives(s, b) =>
                (Cardinality(Owners(b)) = 1 <=>
                   \A t \in Strings : mString[t] # b /\ (Gives(t, b) => t = s))
<1>1. \A t \in Strings : /\ <<t, "has">> \in Owners(b) <=> mString[t] = b
                         /\ <<t, "releases">> \in Owners(b) <=> Gives(t, b)
  BY DEF Owners, Gives
<1>2. \A x \in Owners(b) : \E t \in Strings : x = <<t, "has">> \/ x = <<t, "releases">>
  BY DEF Owners
<1>3. Owners(b) = {} <=> \A t \in Strings : mString[t] # b /\ ~Gives(t, b)
  BY <1>1, <1>2
<1>4. Cardinality(Owners(b)) = 0 <=> Owners(b) = {}
  BY OwnersFinite, FS_EmptySet
<1>5. Cardinality(Owners(b)) = 1 => \E x : Owners(b) = {x}
  BY OwnersFinite, FS_Singleton
<1>6. ASSUME NEW s \in Strings, Cardinality(Owners(b)) = 1, mString[s] = b, NEW t \in Strings
      PROVE  (mString[t] = b => t = s) /\ ~Gives(t, b)
  <2>1. PICK x : Owners(b) = {x}
    BY <1>5, <1>6
  <2>2. x = <<s, "has">>
    BY <1>1, <1>6, <2>1
  <2>3. <<t, "has">> = <<s, "has">> => t = s
    OBVIOUS
  <2>4. <<t, "releases">> # <<s, "has">>
    OBVIOUS
  <2> QED
    BY <1>1, <2>1, <2>2, <2>3, <2>4
<1>7. ASSUME NEW s \in Strings, Cardinality(Owners(b)) = 1, Gives(s, b), NEW t \in Strings
      PROVE  mString[t] # b /\ (Gives(t, b) => t = s)
  <2>1. PICK x : Owners(b) = {x}
    BY <1>5, <1>7
  <2>2. x = <<s, "releases">>
    BY <1>1, <1>7, <2>1
  <2>3. <<t, "releases">> = <<s, "releases">> => t = s
    OBVIOUS
  <2>4. <<t, "has">> # <<s, "releases">>
    OBVIOUS
  <2> QED
    BY <1>1, <2>1, <2>2, <2>3, <2>4
<1>8. \A x : Owners(b) = {x} => Cardinality(Owners(b)) = 1
  BY FS_Singleton
<1>9. ASSUME NEW s \in Strings, mString[s] = b,
             \A t \in Strings : (mString[t] = b => t = s) /\ ~Gives(t, b)
      PROVE  Cardinality(Owners(b)) = 1
  <2>1. Owners(b) = {<<s, "has">>}
    BY <1>1, <1>2, <1>9
  <2> QED
    BY <1>8, <2>1
<1>10. ASSUME NEW s \in Strings, Gives(s, b),
              \A t \in Strings : mString[t] # b /\ (Gives(t, b) => t = s)
       PROVE  Cardinality(Owners(b)) = 1
  <2>1. Owners(b) = {<<s, "releases">>}
    BY <1>1, <1>2, <1>10
  <2> QED
    BY <1>8, <2>1
<1> QED
  BY <1>3, <1>4, <1>6, <1>7, <1>9, <1>10
-----------------------------------------------------------------------------
(* A step of String s leaves where the others are alone.                   *)
OthersStay(s) ==
    \A t \in Strings \ {s} :
        mString'[t] = mString[t] /\ old'[t] = old[t] /\ pc'[t] = pc[t] /\ then'[t] = then[t]

(* Such a step changes the number of owners of a buffer by the share of s. *)
LEMMA OwnersMove ==
    ASSUME NEW b, NEW s \in Strings, OthersStay(s)
    PROVE  Cardinality(Owners(b)') =
             Cardinality(Owners(b)) + One(mString'[s] = b) - One(mString[s] = b)
                 + One(old'[s] = b /\ pc'[s] \in {"release", "dec"}) - One(Gives(s, b))
<1> DEFINE H == <<s, "has">>
           R == <<s, "releases">>
           Rest == (Owners(b) \ {H}) \ {R}
           RestP == (Owners(b)' \ {H}) \ {R}
<1>1. RestP = Rest
  BY DEF Owners, OthersStay
<1>2. /\ H \in Owners(b) <=> mString[s] = b
      /\ R \in Owners(b) <=> Gives(s, b)
  BY DEF Owners, Gives
<1>3. /\ H \in Owners(b)' <=> mString'[s] = b
      /\ R \in Owners(b)' <=> old'[s] = b /\ pc'[s] \in {"release", "dec"}
  BY DEF Owners
<1>4. /\ Cardinality(Rest) \in Nat
      /\ Cardinality(Owners(b)) = Cardinality(Rest) + One(H \in Owners(b)) + One(R \in Owners(b))
      /\ Cardinality(Owners(b)') = Cardinality(RestP) + One(H \in Owners(b)') + One(R \in Owners(b)')
  <2>1. H # R
    OBVIOUS
  <2> HIDE DEF H, R
  <2> QED
    BY <2>1, OwnersFinite, WithoutTwo
<1> HIDE DEF Rest, RestP, H, R
<1> QED
  BY <1>1, <1>2, <1>3, <1>4 DEF One
-----------------------------------------------------------------------------
(* SetTo(NULL) and the destructor.                                         *)
LEMMA SetToNullKeeps ==
    ASSUME IInv, NEW s \in Strings, SetToNull(s)
    PROVE  IInv'
<1>1. TypeOK /\ Shape /\ Alone /\ NoUseAfterFree /\ NoLeak /\ CountsExact
  BY DEF IInv
<1>2. OthersStay(s)
  BY <1>1 DEF Releasing, Gives, SetToNull, ReleaseMine, Goto, TypeOK, OthersStay
<1>3. TypeOK' /\ Shape'
  BY <1>1, BuffersAssumption DEF Releasing, Gives, SetToNull, ReleaseMine, Goto, TypeOK, PCs, Shape
<1>4. Alone'
  BY <1>1, BuffersAssumption DEF Releasing, Gives, SetToNull, ReleaseMine, Goto, TypeOK, Shape, Alone
<1>5. NoUseAfterFree'
  BY <1>1, BuffersAssumption DEF Releasing, Gives, SetToNull, ReleaseMine, Goto, TypeOK, Shape, NoUseAfterFree
<1>6. NoLeak'
  BY <1>1 DEF Releasing, Gives, SetToNull, ReleaseMine, Goto, TypeOK, Shape, NoLeak
<1>7. CountsExact'
  <2> SUFFICES ASSUME NEW b \in allocated
               PROVE  Cardinality(Owners(b)') = Cardinality(Owners(b))
    BY <1>1 DEF Releasing, Gives, SetToNull, ReleaseMine, Goto, TypeOK, Shape, CountsExact
  <2>1. /\ ~Gives(s, b)
        /\ mString'[s] # b
        /\ mString[s] = b <=> old'[s] = b /\ pc'[s] \in {"release", "dec"}
    BY <1>1, BuffersAssumption DEF Releasing, Gives, SetToNull, ReleaseMine, Goto, TypeOK
  <2> QED
    BY <1>2, <2>1, OwnersMove, OwnersFinite DEF One
<1> QED
  BY <1>3, <1>4, <1>5, <1>6, <1>7 DEF IInv

(* SetTo of a String: the buffer of another one is acquired.               *)
LEMMA SetToKeeps ==
    ASSUME IInv, NEW s \in Strings, NEW other \in Strings, SetTo(s, other)
    PROVE  IInv'
<1>1. TypeOK /\ Shape /\ Alone /\ NoUseAfterFree /\ NoLeak /\ CountsExact
  BY DEF IInv
<1>2. OthersStay(s)
  BY <1>1 DEF Releasing, Gives, SetTo, ReleaseMine, Goto, TypeOK, OthersStay
<1>3. TypeOK' /\ Shape'
  BY <1>1, BuffersAssumption DEF Releasing, Gives, SetTo, ReleaseMine, Goto, TypeOK, PCs, Shape
<1>4. Alone'
  BY <1>1, BuffersAssumption DEF Releasing, Gives, SetTo, ReleaseMine, Goto, TypeOK, Shape, Alone
<1>5. NoUseAfterFree'
  BY <1>1, BuffersAssumption DEF Releasing, Gives, SetTo, ReleaseMine, Goto, TypeOK, Shape, NoUseAfterFree
<1>6. NoLeak'
  <2>1. \A b \in allocated, t \in Strings :
          mString[t] = b \/ old[t] = b => mString'[t] = b \/ old'[t] = b
    BY <1>1, BuffersAssumption DEF Releasing, SetTo, ReleaseMine, Goto, TypeOK, Shape
  <2> QED
    BY <1>1, <2>1 DEF SetTo, NoLeak
<1>7. CountsExact'
  <2> SUFFICES ASSUME NEW b \in allocated
               PROVE  /\ b # mString[other] => Cardinality(Owners(b)') = Cardinality(Owners(b))
                      /\ b = mString[other] => Cardinality(Owners(b)') = Cardinality(Owners(b)) + 1
    <3>1. \A b \in allocated : b # mString[other] => mRefs'[b] = mRefs[b]
      BY <1>1 DEF Releasing, Gives, SetTo, TypeOK
    <3>2. \A t \in Strings : pc[t] = "free" => old'[t] = old[t] /\ pc'[t] = "free"
      BY <1>1 DEF Releasing, Gives, SetTo, ReleaseMine, Goto, TypeOK
    <3> QED
      BY <1>1, OwnersFinite, <3>1, <3>2 DEF SetTo, TypeOK, CountsExact, NoUseAfterFree
  <2>1. /\ ~Gives(s, b)
        /\ mString'[s] = mString[other]
        /\ mString[s] = b <=> old'[s] = b /\ pc'[s] \in {"release", "dec"}
    BY <1>1, BuffersAssumption DEF Releasing, Gives, SetTo, ReleaseMine, Goto, TypeOK
  <2> QED
    BY <1>2, <2>1, OwnersMove, OwnersFinite DEF One
<1> QED
  BY <1>3, <1>4, <1>5, <1>6, <1>7 DEF IInv

(* SetTo of characters, and the copy an edit makes: s has a new buffer and *)
(* releases the one before.                                                *)
LEMMA NewBufferKeeps ==
    ASSUME IInv, NEW s \in Strings, NEW v \in Values, NEW x \in {"idle", "write"},
           pc[s] \in {"idle", "copy"}, x = "write" <=> pc[s] = "copy",
           Alloc(s, v), ReleaseMine(s), then' = [then EXCEPT ![s] = x]
    PROVE  IInv'
<1>1. TypeOK /\ Shape /\ Alone /\ NoUseAfterFree /\ NoLeak /\ CountsExact
  BY DEF IInv
<1>2. PICK n \in Buffers \ allocated :
        /\ allocated' = allocated \cup {n}
        /\ mRefs' = [mRefs EXCEPT ![n] = 1]
        /\ data' = [data EXCEPT ![n] = v]
        /\ mString' = [mString EXCEPT ![s] = n]
  BY DEF Alloc
<1>3. OthersStay(s)
  BY <1>1, <1>2 DEF ReleaseMine, Goto, TypeOK, OthersStay
<1>4. \A t \in Strings : mString[t] # n /\ old[t] # n
  BY <1>1, <1>2, BuffersAssumption DEF NoUseAfterFree
<1>5. TypeOK' /\ Shape'
  <2>1. TypeOK'
    BY <1>1, <1>2 DEF ReleaseMine, Goto, TypeOK, PCs, Releasing
  <2>2. Shape'
    BY <1>1, <1>2, BuffersAssumption DEF ReleaseMine, Goto, TypeOK, Releasing, Shape
  <2> QED
    BY <2>1, <2>2
<1>6. Alone'
  BY <1>1, <1>2, <1>4, BuffersAssumption
  DEF Gives, ReleaseMine, Goto, TypeOK, Releasing, Shape, Alone
<1>7. NoUseAfterFree'
  BY <1>1, <1>2, <1>4, BuffersAssumption
  DEF ReleaseMine, Goto, TypeOK, Releasing, Shape, NoUseAfterFree
<1>8. NoLeak'
  <2>1. \A b \in allocated, t \in Strings :
          mString[t] = b \/ old[t] = b => mString'[t] = b \/ old'[t] = b
    BY <1>1, <1>2, BuffersAssumption DEF Releasing, ReleaseMine, Goto, TypeOK, Shape
  <2>2. mString'[s] = n
    BY <1>1, <1>2 DEF TypeOK
  <2> QED
    BY <1>1, <1>2, <2>1, <2>2 DEF NoLeak
<1>9. CountsExact'
  <2>1. Cardinality(Owners(n)') = 1
    <3>1. Cardinality(Owners(n)) = 0
      BY <1>4, CountSays DEF Gives
    <3>2. mString'[s] = n /\ old'[s] # n
      BY <1>1, <1>2, <1>4 DEF ReleaseMine, TypeOK
    <3> QED
      BY <1>3, <1>4, <3>1, <3>2, OwnersMove DEF One, Gives
  <2>2. \A b \in allocated : Cardinality(Owners(b)') = Cardinality(Owners(b))
    <3> SUFFICES ASSUME NEW b \in allocated
                 PROVE  Cardinality(Owners(b)') = Cardinality(Owners(b))
      OBVIOUS
    <3>1. /\ ~Gives(s, b)
          /\ mString'[s] # b
          /\ mString[s] = b <=> old'[s] = b /\ pc'[s] \in {"release", "dec"}
      BY <1>1, <1>2, BuffersAssumption DEF Gives, Releasing, ReleaseMine, Goto, TypeOK, Shape
    <3> QED
      BY <1>3, <3>1, OwnersMove, OwnersFinite DEF One
  <2>3. \A t \in Strings : pc[t] = "free" => old'[t] = old[t] /\ pc'[t] = "free"
    BY <1>1, <1>3 DEF OthersStay
  <2>4. mRefs'[n] = 1 /\ \A b \in allocated : mRefs'[b] = mRefs[b]
    BY <1>1, <1>2 DEF TypeOK
  <2> QED
    BY <1>1, <1>2, <2>1, <2>2, <2>3, <2>4 DEF CountsExact
<1> QED
  BY <1>5, <1>6, <1>7, <1>8, <1>9 DEF IInv

(* SetTo of characters.                                                    *)
LEMMA SetToCharsKeeps ==
    ASSUME IInv, NEW s \in Strings, SetToChars(s)
    PROVE  IInv'
<1>1. then = [then EXCEPT ![s] = "idle"]
  BY DEF IInv, TypeOK, Shape, Releasing, SetToChars
<1> QED
  BY <1>1, NewBufferKeeps DEF SetToChars

(* EditResize of a shared buffer.                                          *)
LEMMA CopyBufferKeeps ==
    ASSUME IInv, NEW s \in Strings, CopyBuffer(s)
    PROVE  IInv'
<1>1. mString[s] \in Buffers
  BY DEF IInv, TypeOK, Shape, CopyBuffer
<1>2. data[mString[s]] \in Values
  BY <1>1 DEF IInv, TypeOK
<1> QED
  BY <1>1, <1>2, BuffersAssumption, NewBufferKeeps DEF CopyBuffer, ReleaseMine
-----------------------------------------------------------------------------
(* A step of an edit that leaves the buffers as they are.                  *)
LEMMA EditKeeps ==
    ASSUME IInv, NEW s \in Strings, NEW to \in PCs \ Releasing,
           pc[s] \notin Releasing, Goto(s, to),
           to # "idle" => mString[s] # NoBuffer,
           to \in {"resize", "write"} => \A t \in Strings :
               (mString[t] = mString[s] => t = s) /\ ~Gives(t, mString[s]),
           data' \in [Buffers -> Values],
           UNCHANGED <<allocated, mRefs, mString, old, then>>
    PROVE  IInv'
<1>1. TypeOK /\ Shape /\ Alone /\ NoUseAfterFree /\ NoLeak /\ CountsExact
  BY DEF IInv
<1>2. OthersStay(s)
  BY <1>1 DEF Goto, TypeOK, OthersStay
<1>3. TypeOK' /\ Shape'
  BY <1>1 DEF Goto, TypeOK, PCs, Releasing, Shape
<1>4. Alone'
  BY <1>1 DEF Goto, TypeOK, PCs, Releasing, Shape, Alone, Gives
<1>5. NoUseAfterFree' /\ NoLeak'
  BY <1>1 DEF Goto, TypeOK, PCs, Releasing, Shape, NoUseAfterFree, NoLeak
<1>6. CountsExact'
  <2>1. \A b \in allocated : Cardinality(Owners(b)') = Cardinality(Owners(b))
    <3> SUFFICES ASSUME NEW b \in allocated
                 PROVE  Cardinality(Owners(b)') = Cardinality(Owners(b))
      OBVIOUS
    <3>1. ~Gives(s, b) /\ ~(old'[s] = b /\ pc'[s] \in {"release", "dec"}) /\ mString' = mString
      BY <1>1 DEF Gives, Goto, TypeOK, PCs, Releasing
    <3> QED
      BY <1>2, <3>1, OwnersMove, OwnersFinite DEF One
  <2>2. \A t \in Strings : pc[t] = "free" => old'[t] = old[t] /\ pc'[t] = "free"
    BY <1>1, <1>2 DEF OthersStay, Releasing
  <2> QED
    BY <1>1, <2>1, <2>2 DEF CountsExact
<1> QED
  BY <1>3, <1>4, <1>5, <1>6 DEF IInv

(* RealAppend and LockBuffer begin, and a copy that finds no memory.       *)
LEMMA AppendAndCopyFailsKeep ==
    ASSUME IInv, NEW s \in Strings, RealAppend(s) \/ CopyFails(s)
    PROVE  IInv'
  BY EditKeeps DEF IInv, TypeOK, RealAppend, CopyFails, PCs, Releasing

(* A count of one: the String that found it is the only owner.             *)
LEMMA IsOnlyOwnerKeeps ==
    ASSUME IInv, NEW s \in Strings, IsOnlyOwner(s)
    PROVE  IInv'
<1> DEFINE m == mString[s]
<1>1. m # NoBuffer /\ m \in allocated
  BY DEF IInv, Shape, NoUseAfterFree, IsOnlyOwner
<1>2. mRefs[m] = 1 => Cardinality(Owners(m)) = 1
  <2>1. Cardinality(Owners(m)) # 0
    BY CountSays
  <2>2. mRefs[m] \in {Cardinality(Owners(m)), Cardinality(Owners(m)) + 1}
    BY <1>1 DEF IInv, CountsExact
  <2> QED
    BY <2>1, <2>2, OwnersFinite
<1>3. mRefs[m] = 1 => \A t \in Strings : (mString[t] = m => t = s) /\ ~Gives(t, m)
  BY <1>2, CountSays
<1>4. data' \in [Buffers -> Values]
  BY DEF IInv, TypeOK, IsOnlyOwner
<1> QED
  BY <1>1, <1>3, <1>4, EditKeeps DEF IsOnlyOwner, PCs, Releasing

(* The only owner writes.                                                  *)
LEMMA WriteKeeps ==
    ASSUME IInv, NEW s \in Strings, Write(s)
    PROVE  IInv'
<1>1. data' \in [Buffers -> Values]
  BY DEF IInv, TypeOK, Write
<1> QED
  BY <1>1, EditKeeps DEF Write, PCs, Releasing

(* realloc by the only owner: kept, moved or refused.                      *)
LEMMA ResizeKeeps ==
    ASSUME IInv, NEW s \in Strings, Resize(s)
    PROVE  IInv'
<1> DEFINE m == mString[s]
<1>1. TypeOK /\ Shape /\ Alone /\ NoUseAfterFree /\ NoLeak /\ CountsExact
  BY DEF IInv
<1>2. /\ pc[s] = "resize" /\ m \in Buffers /\ m \in allocated
      /\ \A t \in Strings : (mString[t] = m => t = s) /\ ~Gives(t, m) /\ old[t] # m
  BY <1>1 DEF TypeOK, Shape, Alone, NoUseAfterFree, Releasing, Gives, Resize
<1>3. CASE /\ (Goto(s, "write") \/ Goto(s, "copy"))
           /\ UNCHANGED <<allocated, mRefs, data, mString, old, then>>
  <2>1. m # NoBuffer /\ data' \in [Buffers -> Values]
    BY <1>1, <1>2, <1>3, BuffersAssumption DEF TypeOK
  <2> QED
    BY <1>2, <1>3, <2>1, EditKeeps DEF PCs, Releasing
<1>4. ASSUME NEW n \in Buffers \ allocated,
             /\ allocated' = (allocated \ {m}) \cup {n}
             /\ mRefs' = [mRefs EXCEPT ![n] = mRefs[m], ![m] = 0]
             /\ data' = [data EXCEPT ![n] = data[m]]
             /\ mString' = [mString EXCEPT ![s] = n]
             /\ Goto(s, "write")
             /\ UNCHANGED <<old, then>>
      PROVE  IInv'
  <2>1. OthersStay(s)
    BY <1>1, <1>4 DEF Goto, TypeOK, OthersStay
  <2>2. \A t \in Strings : mString[t] # n /\ old[t] # n
    BY <1>1, <1>4, BuffersAssumption DEF NoUseAfterFree
  <2>3. TypeOK' /\ Shape'
    <3>1. TypeOK'
      BY <1>1, <1>2, <1>4 DEF Goto, TypeOK, PCs
    <3>2. Shape'
      BY <1>1, <1>2, <1>4, BuffersAssumption DEF Goto, TypeOK, Releasing, Shape
    <3> QED
      BY <3>1, <3>2
  <2>4. Alone'
    BY <1>1, <1>2, <1>4, <2>2 DEF Gives, Goto, TypeOK, Releasing, Shape, Alone
  <2>5. NoUseAfterFree'
    BY <1>1, <1>2, <1>4, <2>2, BuffersAssumption
    DEF Goto, TypeOK, Releasing, Shape, NoUseAfterFree
  <2>6. NoLeak'
    BY <1>1, <1>2, <1>4 DEF TypeOK, NoLeak
  <2>7. CountsExact'
    <3>1. \A b : /\ ~Gives(s, b) /\ ~(old'[s] = b /\ pc'[s] \in {"release", "dec"})
                 /\ mString'[s] = n /\ (mString[s] = b <=> m = b)
      BY <1>1, <1>2, <1>4 DEF Gives, Goto, TypeOK
    <3>2. mRefs[m] = 1
      <4>1. Cardinality(Owners(m)) = 1
        BY <1>2, CountSays
      <4> QED
        BY <1>1, <1>2, <4>1 DEF CountsExact
    <3>3. Cardinality(Owners(n)) = 0
      BY <2>2, CountSays DEF Gives
    <3>4. Cardinality(Owners(n)') = 1
      BY <1>2, <1>4, <2>1, <3>1, <3>3, OwnersMove DEF One
    <3>5. \A b \in allocated \ {m} : Cardinality(Owners(b)') = Cardinality(Owners(b))
      <4> SUFFICES ASSUME NEW b \in allocated \ {m}
                   PROVE  Cardinality(Owners(b)') = Cardinality(Owners(b))
        OBVIOUS
      <4> QED
        BY <2>1, <3>1, OwnersMove, OwnersFinite DEF One
    <3>6. /\ mRefs'[n] = 1
          /\ \A b \in allocated \ {m} : mRefs'[b] = mRefs[b]
      BY <1>1, <1>2, <1>4, <3>2 DEF TypeOK
    <3>7. \A t \in Strings : pc[t] = "free" => old'[t] = old[t] /\ pc'[t] = "free"
      BY <1>1, <1>2, <1>4, <2>1 DEF OthersStay
    <3> QED
      BY <1>1, <1>4, <3>4, <3>5, <3>6, <3>7 DEF CountsExact
  <2> QED
    BY <2>3, <2>4, <2>5, <2>6, <2>7 DEF IInv
<1> QED
  BY <1>3, <1>4 DEF Resize
-----------------------------------------------------------------------------
(* The first test of Release: a count of one excludes every other owner.   *)
LEMMA ReleaseOnlyOwnerKeeps ==
    ASSUME IInv, NEW s \in Strings, ReleaseOnlyOwner(s)
    PROVE  IInv'
<1>0. PICK m : m = old[s]
  OBVIOUS
<1>1. TypeOK /\ Shape /\ Alone /\ NoUseAfterFree /\ NoLeak /\ CountsExact
  BY DEF IInv
<1>2. pc[s] = "release" /\ m \in allocated /\ m \in Buffers /\ Gives(s, m)
  BY <1>0, <1>1 DEF ReleaseOnlyOwner, Shape, Releasing, NoUseAfterFree, Gives, TypeOK
<1>3. OthersStay(s)
  BY <1>0, <1>1 DEF ReleaseOnlyOwner, Goto, TypeOK, OthersStay
<1>4. mRefs[m] = 1 => /\ Cardinality(Owners(m)) = 1
                      /\ \A t \in Strings : mString[t] # m /\ (Gives(t, m) => t = s)
  <2>1. Cardinality(Owners(m)) # 0
    BY <1>2, CountSays
  <2>2. mRefs[m] = 1 => Cardinality(Owners(m)) = 1
    BY <1>0, <1>1, <1>2, <2>1, OwnersFinite DEF CountsExact
  <2> QED
    BY <1>2, <2>2, CountSays
<1>5. TypeOK' /\ Shape'
  <2>1. TypeOK'
    BY <1>0, <1>1 DEF ReleaseOnlyOwner, Goto, TypeOK, PCs, Releasing
  <2>2. Shape'
    BY <1>0, <1>1, <1>2 DEF ReleaseOnlyOwner, Goto, TypeOK, Releasing, Shape
  <2> QED
    BY <2>1, <2>2
<1>6. Alone'
  BY <1>0, <1>1, <1>2 DEF ReleaseOnlyOwner, Goto, Gives, TypeOK, Releasing, Shape, Alone
<1>7. NoUseAfterFree'
  <2>1. \A t \in Strings : old[t] = m /\ ~Gives(t, m) => pc[t] = "free" /\ t = s
    BY <1>0, <1>1, <1>2, BuffersAssumption DEF NoUseAfterFree, Shape, Releasing, Gives
  <2> QED
    BY <1>0, <1>1, <1>2, <1>4, <2>1 DEF ReleaseOnlyOwner, Goto, TypeOK, NoUseAfterFree
<1>8. NoLeak'
  BY <1>0, <1>1 DEF ReleaseOnlyOwner, NoLeak
<1>9. CountsExact'
  <2>1. CASE mRefs[m] = 1
    <3>1. pc'[s] = "free" /\ mString' = mString /\ old' = old /\ mRefs' = mRefs /\ allocated' = allocated
      BY <1>0, <1>1, <2>1 DEF ReleaseOnlyOwner, Goto, TypeOK
    <3>2. Cardinality(Owners(m)') = 0
      BY <1>2, <1>3, <1>4, <2>1, <3>1, OwnersMove DEF One
    <3>3. \A b \in allocated \ {m} : Cardinality(Owners(b)') = Cardinality(Owners(b))
      <4> SUFFICES ASSUME NEW b \in allocated \ {m}
                   PROVE  Cardinality(Owners(b)') = Cardinality(Owners(b))
        OBVIOUS
      <4> QED
        BY <1>0, <1>3, <3>1, OwnersMove, OwnersFinite DEF One, Gives
    <3>4. \A t \in Strings : pc[t] = "free" => old'[t] = old[t] /\ pc'[t] = "free"
      BY <1>0, <1>2, <1>3 DEF OthersStay
    <3> QED
      BY <1>0, <1>1, <2>1, <3>1, <3>2, <3>3, <3>4 DEF CountsExact
  <2>2. CASE mRefs[m] # 1
    <3>1. /\ mString' = mString /\ old' = old /\ mRefs' = mRefs /\ allocated' = allocated
          /\ pc'[s] = "dec"
      BY <1>0, <1>1, <2>2 DEF ReleaseOnlyOwner, Goto, TypeOK
    <3>2. \A b \in allocated : Cardinality(Owners(b)') = Cardinality(Owners(b))
      <4> SUFFICES ASSUME NEW b \in allocated
                   PROVE  Cardinality(Owners(b)') = Cardinality(Owners(b))
        OBVIOUS
      <4> QED
        BY <1>2, <1>3, <3>1, OwnersMove, OwnersFinite DEF One, Gives
    <3>3. \A t \in Strings : pc[t] = "free" => pc'[t] = "free"
      BY <1>0, <1>2, <1>3 DEF OthersStay
    <3> QED
      BY <1>0, <1>1, <3>1, <3>2, <3>3 DEF CountsExact
  <2> QED
    BY <2>1, <2>2
<1> QED
  BY <1>5, <1>6, <1>7, <1>8, <1>9 DEF IInv

(* The second: the String whose atomic_dec finds the count at one frees.   *)
LEMMA DecrementKeeps ==
    ASSUME IInv, NEW s \in Strings, Decrement(s)
    PROVE  IInv'
<1>0. PICK m : m = old[s]
  OBVIOUS
<1>1. TypeOK /\ Shape /\ Alone /\ NoUseAfterFree /\ NoLeak /\ CountsExact
  BY DEF IInv
<1>2. pc[s] = "dec" /\ m \in allocated /\ m \in Buffers /\ Gives(s, m)
  BY <1>0, <1>1 DEF Decrement, Shape, Releasing, NoUseAfterFree, Gives, TypeOK
<1>3. OthersStay(s)
  BY <1>0, <1>1 DEF Decrement, Return, Goto, TypeOK, OthersStay
<1>4. \A t \in Strings : old[t] = m => pc[t] \in {"release", "dec"}
  BY <1>0, <1>1, <1>2, BuffersAssumption DEF NoUseAfterFree, Shape, Releasing
<1>5. /\ mRefs[m] = Cardinality(Owners(m))
      /\ Cardinality(Owners(m)) \in Nat /\ Cardinality(Owners(m)) >= 1
  <2>1. Cardinality(Owners(m)) # 0
    BY <1>2, CountSays
  <2> QED
    BY <1>0, <1>1, <1>2, <1>4, <2>1, OwnersFinite DEF CountsExact
<1>6. mRefs[m] = 1 <=> \A t \in Strings : mString[t] # m /\ (old[t] = m => t = s)
  BY <1>2, <1>4, <1>5, CountSays DEF Gives
<1>7. /\ allocated' = allocated /\ mString' = mString
      /\ mRefs'[m] = mRefs[m] - 1 /\ \A b \in allocated \ {m} : mRefs'[b] = mRefs[b]
      /\ mRefs[m] = 1 => old' = old /\ then' = then /\ pc'[s] = "free"
      /\ mRefs[m] # 1 => old'[s] = NoBuffer /\ then'[s] = "idle" /\ pc'[s] = then[s]
  BY <1>0, <1>1, <1>2 DEF Decrement, Return, Goto, TypeOK
<1>8. TypeOK' /\ Shape'
  <2>1. mRefs' \in [Buffers -> Nat]
    BY <1>0, <1>1, <1>2, <1>5 DEF Decrement, TypeOK
  <2>2. TypeOK'
    BY <1>0, <1>1, <2>1 DEF Decrement, Return, Goto, TypeOK, PCs, Releasing
  <2>3. Shape'
    BY <1>0, <1>1, <1>2, <1>3, <1>7, BuffersAssumption DEF TypeOK, Releasing, Shape, OthersStay
  <2> QED
    BY <2>2, <2>3
<1>9. Alone'
  BY <1>0, <1>1, <1>2, <1>3, <1>7, BuffersAssumption DEF Gives, TypeOK, Releasing, Shape, Alone, OthersStay
<1>10. NoUseAfterFree'
  BY <1>0, <1>1, <1>2, <1>3, <1>6, <1>7, BuffersAssumption DEF TypeOK, NoUseAfterFree, Shape, Releasing, OthersStay
<1>11. NoLeak'
  <2>1. mRefs[m] # 1 => \E t \in Strings : mString'[t] = m \/ old'[t] = m
    BY <1>3, <1>6, <1>7 DEF OthersStay
  <2>2. mRefs[m] = 1 => old'[s] = m
    BY <1>0, <1>7
  <2>3. \A b \in allocated \ {m}, t \in Strings : old[t] = b => old'[t] = b
    BY <1>0, <1>2, <1>3 DEF OthersStay
  <2> QED
    BY <1>0, <1>1, <1>7, <2>1, <2>2, <2>3 DEF NoLeak
<1>12. CountsExact'
  <2>1. Cardinality(Owners(m)') = Cardinality(Owners(m)) - 1
    <3>1. ~(old'[s] = m /\ pc'[s] \in {"release", "dec"}) /\ mString'[s] = mString[s]
      BY <1>0, <1>1, <1>2, <1>7, BuffersAssumption
    <3> QED
      BY <1>2, <1>3, <1>5, <3>1, OwnersMove DEF One
  <2>2. \A b \in allocated \ {m} : Cardinality(Owners(b)') = Cardinality(Owners(b))
    <3> SUFFICES ASSUME NEW b \in allocated \ {m}
                 PROVE  Cardinality(Owners(b)') = Cardinality(Owners(b))
      OBVIOUS
    <3>1. ~(old'[s] = b /\ pc'[s] \in {"release", "dec"}) /\ mString'[s] = mString[s]
      BY <1>0, <1>1, <1>7, BuffersAssumption DEF TypeOK
    <3> QED
      BY <1>0, <1>3, <3>1, OwnersMove, OwnersFinite DEF One, Gives
  <2>3. \A t \in Strings : pc[t] = "free" => old'[t] = old[t] /\ pc'[t] = "free"
    BY <1>0, <1>2, <1>3 DEF OthersStay
  <2> QED
    BY <1>0, <1>1, <1>5, <1>7, <2>1, <2>2, <2>3 DEF CountsExact
<1> QED
  BY <1>8, <1>9, <1>10, <1>11, <1>12 DEF IInv

(* free() of a buffer that nobody has.                                     *)
LEMMA FreeKeeps ==
    ASSUME IInv, NEW s \in Strings, Free(s)
    PROVE  IInv'
<1>0. PICK m : m = old[s]
  OBVIOUS
<1>1. TypeOK /\ Shape /\ Alone /\ NoUseAfterFree /\ NoLeak /\ CountsExact
  BY DEF IInv
<1>2. pc[s] = "free" /\ m \in allocated /\ m \in Buffers
  BY <1>0, <1>1 DEF Free, Shape, Releasing, NoUseAfterFree, TypeOK
<1>3. OthersStay(s)
  BY <1>0, <1>1 DEF Free, Return, Goto, TypeOK, OthersStay
<1>4. \A t \in Strings : mString[t] # m /\ (old[t] = m => t = s)
  BY <1>0, <1>1, <1>2 DEF NoUseAfterFree
<1>5. /\ allocated' = allocated \ {m} /\ mString' = mString
      /\ \A b \in allocated \ {m} : mRefs'[b] = mRefs[b]
      /\ old'[s] = NoBuffer /\ then'[s] = "idle" /\ pc'[s] = then[s]
  BY <1>0, <1>1, <1>2 DEF Free, Return, Goto, TypeOK
<1>6. TypeOK' /\ Shape'
  <2>1. TypeOK'
    BY <1>0, <1>1 DEF Free, Return, Goto, TypeOK, PCs, Releasing
  <2>2. Shape'
    BY <1>0, <1>1, <1>2, <1>3, <1>5, BuffersAssumption DEF TypeOK, Releasing, Shape, OthersStay
  <2> QED
    BY <2>1, <2>2
<1>7. Alone'
  BY <1>0, <1>1, <1>2, <1>3, <1>5, BuffersAssumption DEF Gives, TypeOK, Releasing, Shape, Alone, OthersStay
<1>8. NoUseAfterFree'
  BY <1>0, <1>1, <1>2, <1>3, <1>4, <1>5, BuffersAssumption
  DEF TypeOK, NoUseAfterFree, Shape, Releasing, OthersStay
<1>9. NoLeak'
  BY <1>0, <1>1, <1>3, <1>5 DEF NoLeak, OthersStay
<1>10. CountsExact'
  <2>1. \A b \in allocated \ {m} : Cardinality(Owners(b)') = Cardinality(Owners(b))
    <3> SUFFICES ASSUME NEW b \in allocated \ {m}
                 PROVE  Cardinality(Owners(b)') = Cardinality(Owners(b))
      OBVIOUS
    <3>1. ~(old'[s] = b /\ pc'[s] \in {"release", "dec"}) /\ mString'[s] = mString[s]
      BY <1>0, <1>1, <1>5, BuffersAssumption DEF TypeOK
    <3> QED
      BY <1>0, <1>3, <3>1, OwnersMove, OwnersFinite DEF One, Gives
  <2>2. \A t \in Strings : pc[t] = "free" /\ old[t] # m => old'[t] = old[t] /\ pc'[t] = "free"
    BY <1>0, <1>2, <1>3 DEF OthersStay
  <2> QED
    BY <1>0, <1>1, <1>5, <2>1, <2>2 DEF CountsExact
<1> QED
  BY <1>6, <1>7, <1>8, <1>9, <1>10 DEF IInv
-----------------------------------------------------------------------------
(* The invariant of SharedBuffer.                                          *)
THEOREM Invariance == Spec => []IInv
<1>1. Init => IInv
  <2> SUFFICES ASSUME Init PROVE IInv
    OBVIOUS
  <2>1. TypeOK
    BY DEF Init, TypeOK, PCs
  <2>2. Shape /\ Alone /\ NoUseAfterFree /\ NoLeak /\ CountsExact
    BY DEF Init, Shape, Alone, NoUseAfterFree, NoLeak, CountsExact, Releasing
  <2> QED
    BY <2>1, <2>2 DEF IInv
<1>2. IInv /\ [Next]_vars => IInv'
  <2> SUFFICES ASSUME IInv, [Next]_vars PROVE IInv'
    OBVIOUS
  <2>1. CASE UNCHANGED vars
    BY <2>1 DEF vars, IInv, TypeOK, Shape, Alone, NoUseAfterFree, NoLeak, CountsExact, Owners, Gives
  <2>2. ASSUME NEW s \in Strings,
               \/ SetToChars(s) \/ SetToNull(s) \/ \E other \in Strings : SetTo(s, other)
               \/ RealAppend(s) \/ IsOnlyOwner(s) \/ Resize(s) \/ CopyBuffer(s) \/ CopyFails(s)
               \/ Write(s) \/ ReleaseOnlyOwner(s) \/ Decrement(s) \/ Free(s)
        PROVE  IInv'
    BY <2>2, SetToCharsKeeps, SetToNullKeeps, SetToKeeps, AppendAndCopyFailsKeep,
       IsOnlyOwnerKeeps, ResizeKeeps, CopyBufferKeeps, WriteKeeps,
       ReleaseOnlyOwnerKeeps, DecrementKeeps, FreeKeeps
  <2> QED
    BY <2>1, <2>2 DEF Next
<1> QED
  BY <1>1, <1>2, PTL DEF Spec

(* Every variable keeps its type: above all, no count goes below zero.     *)
THEOREM TypeCorrect == Spec => []TypeOK
  BY Invariance, PTL DEF IInv

(* mRefs is the number of Strings that have the buffer or are giving it    *)
(* back, whatever the order of Acquire and Release on several threads.     *)
THEOREM CountsAreExact == Spec => []CountsExact
  BY Invariance, PTL DEF IInv

(* No String reaches a freed buffer, and no two threads free the same one. *)
THEOREM NeverUsedAfterFree == Spec => []NoUseAfterFree
  BY Invariance, PTL DEF IInv

(* A buffer that no String has any more is being freed.                    *)
THEOREM NeverLeaked == Spec => []NoLeak
  BY Invariance, PTL DEF IInv
-----------------------------------------------------------------------------
(* What the Strings say, as in ImplementsValues.                           *)
Text == [s \in Strings |-> IF mString[s] = NoBuffer THEN Null ELSE data[mString[s]]]

(* A new buffer is no other String's: only s says something else.          *)
LEMMA NewBufferTells ==
    ASSUME TypeOK, NoUseAfterFree, NEW s \in Strings, NEW v, Alloc(s, v)
    PROVE  Text' = [Text EXCEPT ![s] = v]
<1>1. PICK n \in Buffers \ allocated :
        data' = [data EXCEPT ![n] = v] /\ mString' = [mString EXCEPT ![s] = n]
  BY DEF Alloc
<1>2. \A t \in Strings : mString[t] # n
  BY <1>1, BuffersAssumption DEF NoUseAfterFree
<1> QED
  BY <1>1, <1>2, BuffersAssumption DEF TypeOK, Text

(* Copy on write: what a String says changes only by its own operations.   *)
THEOREM StringsAreIsolated == Spec => ImplementsValues
<1>1. Init => Isolated!Init
  BY DEF Init, Isolated!Init
<1>2. IInv /\ [Next]_vars => [Isolated!Next]_Text
  <2> SUFFICES ASSUME IInv, [Next]_vars, Text' # Text
               PROVE  \E s \in Strings :
                        \/ \E v \in Values \cup {Null} : Text' = [Text EXCEPT ![s] = v]
                        \/ \E other \in Strings : Text' = [Text EXCEPT ![s] = Text[other]]
    BY DEF Isolated!Next, Isolated!Assign, Isolated!Copy, Text
  <2>1. TypeOK /\ Shape /\ Alone /\ NoUseAfterFree
    BY DEF IInv
  <2>2. ASSUME mString' = mString, data' = data PROVE FALSE
    BY <2>2 DEF Text
  <2>3. PICK s \in Strings :
          \/ SetToChars(s) \/ SetToNull(s) \/ \E other \in Strings : SetTo(s, other)
          \/ Resize(s) \/ CopyBuffer(s) \/ Write(s)
    BY <2>2 DEF Next, vars, RealAppend, IsOnlyOwner, CopyFails, ReleaseOnlyOwner, Decrement, Free
  <2>4. CASE SetToChars(s)
    <3>1. PICK v \in Values : Alloc(s, v)
      BY <2>4 DEF SetToChars
    <3>2. Text' = [Text EXCEPT ![s] = v]
      BY <2>1, <3>1, NewBufferTells
    <3> QED
      BY <3>2
  <2>5. CASE SetToNull(s)
    <3>1. Text' = [Text EXCEPT ![s] = Null]
      BY <2>1, <2>5 DEF SetToNull, TypeOK, Text
    <3> QED
      BY <3>1
  <2>6. ASSUME NEW other \in Strings, SetTo(s, other)
        PROVE  Text' = [Text EXCEPT ![s] = Text[other]]
    BY <2>1, <2>6 DEF SetTo, TypeOK, Text
  <2>7. CASE Resize(s)
    <3>1. mString[s] # NoBuffer /\ mString[s] \in Buffers
      BY <2>1, <2>7 DEF Resize, Shape, TypeOK
    <3>2. PICK n \in Buffers \ allocated :
            /\ data' = [data EXCEPT ![n] = data[mString[s]]]
            /\ mString' = [mString EXCEPT ![s] = n]
      BY <2>2, <2>7 DEF Resize
    <3>3. \A t \in Strings : mString[t] # n
      BY <2>1, <3>2, BuffersAssumption DEF NoUseAfterFree
    <3>4. Text' = Text
      BY <2>1, <3>1, <3>2, <3>3, BuffersAssumption DEF TypeOK, Text
    <3> QED
      BY <3>4
  <2>8. CASE CopyBuffer(s)
    <3>1. mString[s] # NoBuffer /\ Alloc(s, data[mString[s]])
      BY <2>1, <2>8 DEF CopyBuffer, Shape
    <3>2. Text' = [Text EXCEPT ![s] = data[mString[s]]]
      BY <2>1, <3>1, NewBufferTells
    <3>3. Text' = Text
      BY <3>1, <3>2 DEF Text
    <3> QED
      BY <3>3
  <2>9. CASE Write(s)
    <3>1. mString[s] # NoBuffer /\ mString[s] \in Buffers
      BY <2>1, <2>9 DEF Write, Shape, TypeOK
    <3>2. PICK v \in Values : data' = [data EXCEPT ![mString[s]] = v]
      BY <2>9 DEF Write
    <3>3. \A t \in Strings : mString[t] = mString[s] => t = s
      BY <2>1, <2>9 DEF Alone, Write
    <3>4. Text' = [Text EXCEPT ![s] = v]
      BY <2>1, <2>9, <3>1, <3>2, <3>3 DEF TypeOK, Text, Write
    <3> QED
      BY <3>4
  <2> QED
    BY <2>3, <2>4, <2>5, <2>6, <2>7, <2>8, <2>9
<1> QED
  BY <1>1, <1>2, Invariance, PTL DEF Spec, ImplementsValues, Isolated!Spec, Text
=============================================================================

------------------------- MODULE MessageQueueProofs -------------------------
(***************************************************************************)
(* Proofs about MessageQueue: no wake-up is lost, the list stays in order, *)
(* and barriers hold back what they should, for any number of threads,     *)
(* messages, barriers and idle handlers.                                   *)
(*                                                                         *)
(* The inductive invariant IInv adds two things to what the theorems say.  *)
(* The order of the list covers the barriers: what stands before a barrier *)
(* was due when it was posted or was sent to the front (Follows).  And the *)
(* Looper polls with the timeout it computed from the list only when       *)
(* mBlocked is set (LooperOK), so that a thread that reads mBlocked as     *)
(* FALSE need not wake it.  What the threads do to the list while it       *)
(* sleeps then never brings the next message forward unless they wake it   *)
(* (NextLater, SleepsOn).                                                  *)
(***************************************************************************)
EXTENDS MessageQueue, SetsAndLists

-----------------------------------------------------------------------------
Entries ==
    [payload : Payloads \cup {BarrierPayload(token) : token \in 0 .. MaxBarriers},
     when : Times, since : Times, id : Nat]

(* Whatever is in the list was put there, and a barrier has no time of its *)
(* own.                                                                    *)
EntryOK(e) ==
    /\ e.id \in 1 .. posts
    /\ IsBarrier(e) => e.when = 0 /\ e.since > 0 /\ ~IsAsync(e)

(* What may stand before what: messages in the order of their times, and   *)
(* before a barrier only what was due when it was posted or was sent to    *)
(* the front.                                                              *)
InTime(a, b) ==
    \/ a.when < b.when
    \/ a.when = b.when /\ (IF a.when = 0 THEN a.id > b.id ELSE a.id < b.id)
DueBefore(a, b) == a.when < b.since \/ (a.when = b.since /\ a.id < b.id)
Follows(a, b) ==
    ~IsBarrier(a) => IF IsBarrier(b) THEN DueBefore(a, b) ELSE InTime(a, b)
InOrder(list) ==
    \A i, j \in 1 .. Len(list) : i < j => Follows(list[i], list[j])

ListOK ==
    /\ mMessages \in Seq(Entries)
    /\ \A e \in Queued : EntryOK(e)
    /\ InOrder(mMessages)

CountersOK ==
    /\ now \in Times /\ posts \in Nat
    /\ mNextBarrierToken \in 0 .. MaxBarriers
    /\ posts - mNextBarrierToken \in 0 .. MaxPosts
    /\ standing \subseteq 0 .. mNextBarrierToken - 1

(* The Looper polls without a timeout it computed from the list only when  *)
(* mBlocked says so.                                                       *)
LooperOK ==
    /\ looper \in [pc : {"poll", "look", "idle", "dispatch", "exited"},
                   deadline : Times \cup {Forever},
                   idleCount : -1 .. Cardinality(Idlers), idlers : SUBSET Idlers,
                   msg : Entries \cup {None}]
    /\ looper.msg # None \/ looper.pc = "dispatch" => looper.msg.id \in 1 .. posts
    /\ looper.pc = "poll" /\ ~mBlocked => looper.deadline = 0

CallersOK ==
    /\ caller \in [Threads -> [pc : {"idle", "wake", "wait"}, task : Nat,
                               timeout : Nat, until : Int \cup {Forever}]]
    /\ \A t \in Threads : caller[t].task <= posts
    /\ done \subseteq 1 .. posts

FlagsOK ==
    /\ mBlocked \in BOOLEAN /\ mQuiting \in BOOLEAN /\ wake \in BOOLEAN
    /\ mIdleHandlers \subseteq Idlers

IInv == ListOK /\ CountersOK /\ LooperOK /\ CallersOK /\ FlagsOK /\ NoLostWakeup
-----------------------------------------------------------------------------
(* The place of the message that is next in a list.                        *)
NextIn(list) ==
    IF list = <<>> THEN 0
    ELSE IF ~IsBarrier(Head(list)) THEN 1
    ELSE SelectInSeq(list, IsAsync)

LEMMA NextMessageIs ==
    /\ NextMessage = NextIn(mMessages)
    /\ NextMessage' = NextIn(mMessages')
BY DEF NextMessage, NextIn

LEMMA EntryFields ==
    ASSUME NEW e \in Entries
    PROVE  /\ e.when \in Nat /\ e.when \in Times /\ e.since \in Nat /\ e.since \in Times
           /\ e.id \in Nat
           /\ IsBarrier(e) => ~IsAsync(e)
<1>1. /\ e.when \in Times /\ e.since \in Times /\ e.id \in Nat
      /\ \/ e.payload \in Payloads
         \/ \E token \in 0 .. MaxBarriers : e.payload = BarrierPayload(token)
  BY DEF Entries
<1>2. IsBarrier(e) => ~IsAsync(e)
  <2>1. CASE e.payload \in Payloads
    BY <2>1, MessagesAssumption DEF IsBarrier
  <2>2. ASSUME NEW token \in 0 .. MaxBarriers, e.payload = BarrierPayload(token)
        PROVE  ~IsAsync(e)
    BY <2>2 DEF IsAsync, BarrierPayload
  <2> QED
    BY <1>1, <2>1, <2>2
<1> QED
  BY <1>1, <1>2, MessagesAssumption DEF Times

(* The head, or the first asynchronous message behind a barrier.           *)
LEMMA NextInIs ==
    ASSUME NEW list \in Seq(Entries), NEW k, k = NextIn(list)
    PROVE  /\ k \in 0 .. Len(list)
           /\ k > 0 => ~IsBarrier(list[k])
           /\ list # <<>> /\ ~IsBarrier(list[1]) => k = 1
           /\ k > 0 /\ IsBarrier(list[1]) => IsAsync(list[k])
           /\ \A i \in 1 .. Len(list) :
                IsBarrier(list[1]) /\ IsAsync(list[i]) => k > 0 /\ k <= i
<1>1. CASE list = <<>>
  BY <1>1 DEF NextIn
<1>2. CASE list # <<>> /\ ~IsBarrier(list[1])
  BY <1>2 DEF NextIn
<1>3. CASE list # <<>> /\ IsBarrier(list[1])
  <2> DEFINE I == {i \in 1 .. Len(list) : IsAsync(list[i])}
  <2>1. k = IF I # {} THEN Min(I) ELSE 0
    BY <1>3 DEF NextIn, SelectInSeq
  <2>2. Len(list) \in Nat /\ I \in SUBSET (1 .. Len(list))
    OBVIOUS
  <2>3. /\ k \in 0 .. Len(list) /\ (k > 0 => k \in I)
        /\ \A i \in I : k > 0 /\ k <= i
    BY <2>1, <2>2, FirstPlace
  <2>4. k > 0 => list[k] \in Entries /\ IsAsync(list[k])
    BY <2>3
  <2>5. k > 0 => ~IsBarrier(list[k])
    BY <2>4, EntryFields
  <2> QED
    BY <1>3, <2>3, <2>4, <2>5
<1> QED
  BY <1>1, <1>2, <1>3

(* A list made from another one without moving a message to an earlier     *)
(* place: its next message is not before the next of the other.            *)
LEMMA NextLater ==
    ASSUME NEW list \in Seq(Entries), InOrder(list), NEW rest \in Seq(Entries),
           list # <<>> /\ rest # <<>> /\ IsBarrier(list[1]) => IsBarrier(rest[1]),
           NextIn(rest) # 0,
           \E i \in 1 .. Len(list) : list[i] = rest[NextIn(rest)]
    PROVE  NextIn(list) # 0 /\ list[NextIn(list)].when <= rest[NextIn(rest)].when
<1>1. PICK k \in 1 .. Len(rest) :
        /\ k = NextIn(rest) /\ ~IsBarrier(rest[k])
        /\ IsBarrier(rest[1]) => IsAsync(rest[k])
  BY NextInIs
<1>2. PICK i \in 1 .. Len(list) : list[i] = rest[k]
  BY <1>1
<1>3. list # <<>> /\ rest # <<>>
  BY <1>1, <1>2
<1>4. PICK n \in 1 .. Len(list) : n = NextIn(list) /\ ~IsBarrier(list[n]) /\ n <= i
  <2>1. CASE IsBarrier(list[1])
    <3>1. IsAsync(list[i])
      BY <1>1, <1>2, <1>3, <2>1
    <3> QED
      BY <2>1, <3>1, NextInIs
  <2>2. CASE ~IsBarrier(list[1])
    BY <1>3, <2>2, NextInIs
  <2> QED
    BY <2>1, <2>2
<1>5. list[n] \in Entries /\ list[i] \in Entries
  OBVIOUS
<1>6. n = i \/ Follows(list[n], list[i])
  BY <1>4 DEF InOrder
<1>7. list[n].when <= list[i].when
  BY <1>1, <1>2, <1>4, <1>5, <1>6, EntryFields DEF Follows, InTime
<1>8. n # 0
  OBVIOUS
<1> QED
  BY <1>1, <1>2, <1>4, <1>7, <1>8
-----------------------------------------------------------------------------
(* Taking entries out of a list leaves it in order.                        *)
LEMMA ThinnedInOrder ==
    ASSUME NEW list \in Seq(Entries), InOrder(list), NEW rest \in Seq(Entries),
           NEW from \in [1 .. Len(rest) -> 1 .. Len(list)],
           \A i \in 1 .. Len(rest) : rest[i] = list[from[i]],
           \A i, j \in 1 .. Len(rest) : i < j => from[i] < from[j]
    PROVE  InOrder(rest)
BY DEF InOrder

(* An entry is put in order where all before it may stand before it, and   *)
(* it before all behind it.                                                *)
LEMMA InsertedInOrder ==
    ASSUME NEW list \in Seq(Entries), InOrder(list), NEW n \in 0 .. Len(list),
           NEW e \in Entries,
           \A i \in 1 .. Len(list) : i <= n => Follows(list[i], e),
           \A i \in 1 .. Len(list) : i > n => Follows(e, list[i]),
           NEW longer, longer = InsertAt(list, n + 1, e)
    PROVE  /\ longer \in Seq(Entries) /\ InOrder(longer)
           /\ Range(longer) = Range(list) \cup {e}
           /\ Len(longer) = Len(list) + 1
           /\ \A i \in 1 .. Len(list) + 1 : longer[i] =
                IF i < n + 1 THEN list[i] ELSE IF i = n + 1 THEN e ELSE list[i - 1]
<1>1. PICK place \in 1 .. Len(list) + 1 : place = n + 1
  OBVIOUS
<1>2. /\ InsertAt(list, place, e) \in Seq(Entries)
      /\ Len(InsertAt(list, place, e)) = Len(list) + 1
      /\ \A i \in 1 .. Len(list) + 1 : InsertAt(list, place, e)[i] =
            IF i < place THEN list[i] ELSE IF i = place THEN e ELSE list[i - 1]
      /\ Range(InsertAt(list, place, e)) = Range(list) \cup {e}
  BY ONLY list \in Seq(Entries), place \in 1 .. Len(list) + 1, e \in Entries, InsertAtIs
<1>3. /\ longer \in Seq(Entries)
      /\ Len(longer) = Len(list) + 1
      /\ Range(longer) = Range(list) \cup {e}
      /\ \A i \in 1 .. Len(list) + 1 : longer[i] =
            IF i < place THEN list[i] ELSE IF i = place THEN e ELSE list[i - 1]
  BY <1>1, <1>2
<1>4. ASSUME NEW i \in 1 .. Len(list) + 1, NEW j \in 1 .. Len(list) + 1, i < j
      PROVE  Follows(longer[i], longer[j])
  <2>1. \A k, m \in 1 .. Len(list) : k < m => Follows(list[k], list[m])
    BY DEF InOrder
  <2>2. /\ i < place => i \in 1 .. Len(list) /\ i <= n /\ longer[i] = list[i]
        /\ i = place => longer[i] = e
        /\ i > place => i - 1 \in 1 .. Len(list) /\ i - 1 > n /\ longer[i] = list[i - 1]
    BY <1>1, <1>3
  <2>3. /\ j < place => j \in 1 .. Len(list) /\ j <= n /\ longer[j] = list[j]
        /\ j = place => longer[j] = e
        /\ j > place => j - 1 \in 1 .. Len(list) /\ j - 1 > n /\ longer[j] = list[j - 1]
    BY <1>1, <1>3
  <2>4. i \in Int /\ j \in Int /\ place \in Int
    OBVIOUS
  <2> QED
    BY <1>4, <2>1, <2>2, <2>3, <2>4
<1> QED
  BY <1>1, <1>3, <1>4 DEF InOrder

LEMMA ListTyped ==
    ASSUME ListOK
    PROVE  /\ Len(mMessages) \in Nat
           /\ \A i \in 1 .. Len(mMessages) :
                mMessages[i] \in Entries /\ mMessages[i] \in Queued /\ EntryOK(mMessages[i])
<1>1. mMessages \in Seq(Entries)
  BY DEF ListOK
<1>2. \A i \in 1 .. Len(mMessages) : mMessages[i] \in Entries /\ mMessages[i] \in Queued
  BY <1>1 DEF Queued, Range
<1> QED
  BY <1>1, <1>2 DEF ListOK

(* A message goes behind all that are not later, barriers included: their  *)
(* time is 0.  Everything behind the first later message is later.         *)
LEMMA InsertAfterIs ==
    ASSUME ListOK, CountersOK, NEW p \in Payloads, NEW w \in Times
    PROVE  /\ InsertAfter(w) \in 0 .. Len(mMessages)
           /\ Entry(p, w) \in Entries
           /\ \A i \in 1 .. Len(mMessages) :
                /\ i <= InsertAfter(w) => Follows(mMessages[i], Entry(p, w))
                /\ i > InsertAfter(w) => Follows(Entry(p, w), mMessages[i])
<1> DEFINE N == Len(mMessages)
           I == {i \in 2 .. N : w < mMessages[i].when}
           later == IF I # {} THEN Min(I) ELSE 0
<1>1. /\ N \in Nat /\ w \in Nat
      /\ \A i \in 1 .. N : /\ mMessages[i] \in Entries /\ EntryOK(mMessages[i])
                           /\ mMessages[i].when \in Nat /\ mMessages[i].since \in Nat
                           /\ mMessages[i].id \in 1 .. posts
      /\ \A i, j \in 1 .. N : i < j => Follows(mMessages[i], mMessages[j])
  BY ListTyped, EntryFields, MessagesAssumption DEF ListOK, EntryOK, InOrder, Times
<1>2. PICK e \in Entries : /\ e = Entry(p, w)
                           /\ ~IsBarrier(e) /\ e.when = w /\ e.id = posts + 1
  <2>1. p.target # NoTarget /\ posts + 1 \in Nat
    BY MessagesAssumption DEF CountersOK
  <2>2. Entry(p, w) = [payload |-> p, when |-> w, since |-> w, id |-> posts + 1]
    BY <2>1 DEF Entry
  <2>3. Entry(p, w) \in Entries
    BY <2>1, <2>2 DEF Entries
  <2> QED
    BY <2>1, <2>2, <2>3 DEF IsBarrier
<1>3. posts \in Nat
  BY DEF CountersOK
<1>4. CASE mMessages = <<>> \/ w = 0
  <2>1. InsertAfter(w) = 0
    BY <1>4 DEF InsertAfter
  <2>2. ASSUME NEW i \in 1 .. N
        PROVE  Follows(e, mMessages[i])
    <3>1. w = 0
      BY <1>4
    <3> QED
      BY <1>1, <1>2, <1>3, <3>1 DEF Follows, InTime, DueBefore, EntryOK
  <2> QED
    BY <1>1, <1>2, <2>1, <2>2
<1>5. CASE mMessages # <<>> /\ w # 0 /\ w < Head(mMessages).when
  <2>1. InsertAfter(w) = 0
    BY <1>5 DEF InsertAfter
  <2>2. ASSUME NEW i \in 1 .. N
        PROVE  Follows(e, mMessages[i])
    <3>1. 1 \in 1 .. N /\ w < mMessages[1].when /\ ~IsBarrier(mMessages[1])
      BY <1>1, <1>5 DEF EntryOK
    <3>2. i = 1 \/ Follows(mMessages[1], mMessages[i])
      BY <1>1, <3>1
    <3> QED
      BY <1>1, <1>2, <3>1, <3>2 DEF Follows, InTime, DueBefore
  <2> QED
    BY <1>1, <1>2, <2>1, <2>2
<1>6. CASE mMessages # <<>> /\ w # 0 /\ ~(w < Head(mMessages).when)
  <2>1. InsertAfter(w) = IF later = 0 THEN N ELSE later - 1
    BY <1>6 DEF InsertAfter, SelectInSubSeq
  <2>2. I \in SUBSET (1 .. N) /\ later = IF I # {} THEN Min(I) ELSE 0
    BY <1>1
  <2> HIDE DEF later
  <2>3. /\ later \in 0 .. N /\ (later > 0 => later \in I)
        /\ \A i \in I : later > 0 /\ later <= i
    <3> HIDE DEF I
    <3> QED
      BY <1>1, <2>2, FirstPlace
  <2>4. PICK n \in 0 .. N : /\ n = InsertAfter(w)
                            /\ \A i \in 1 .. N : i <= n => ~(w < mMessages[i].when)
                            /\ n < N => n + 1 \in 1 .. N /\ w < mMessages[n + 1].when
    <3>1. ~(w < mMessages[1].when)
      BY <1>6
    <3>2. CASE later = 0
      BY <1>1, <2>1, <2>3, <3>1, <3>2
    <3>3. CASE later # 0
      <4>1. PICK n \in 0 .. N : n = later - 1 /\ n + 1 = later
        BY <1>1, <2>3, <3>3
      <4>2. \A i \in 1 .. N : i <= n => i = 1 \/ i \notin I
        BY <1>1, <2>3, <4>1
      <4>3. later \in I
        BY <2>3, <3>3
      <4> QED
        BY <1>1, <2>1, <3>1, <3>3, <4>1, <4>2, <4>3
    <3> QED
      BY <3>2, <3>3
  <2>5. ASSUME NEW i \in 1 .. N, i <= n
        PROVE  Follows(mMessages[i], e)
    BY <1>1, <1>2, <1>3, <1>6, <2>4, <2>5 DEF Follows, InTime
  <2>6. ASSUME NEW i \in 1 .. N, i > n
        PROVE  Follows(e, mMessages[i])
    <3>1. n + 1 \in 1 .. N /\ w < mMessages[n + 1].when /\ ~IsBarrier(mMessages[n + 1])
      BY <1>1, <2>4, <2>6 DEF EntryOK
    <3>2. i = n + 1 \/ Follows(mMessages[n + 1], mMessages[i])
      BY <1>1, <2>6, <3>1
    <3> QED
      BY <1>1, <1>2, <3>1, <3>2 DEF Follows, InTime, DueBefore
  <2> QED
    BY <1>2, <2>4, <2>5, <2>6
<1> QED
  BY <1>4, <1>5, <1>6

(* A barrier goes behind everything that was due when its time was read.   *)
BarrierAfter(w) ==
    LET later == SelectInSeq(mMessages, LAMBDA e : w < e.when)
    IN  IF later = 0 THEN Len(mMessages) ELSE later - 1

LEMMA BarrierAfterIs ==
    ASSUME ListOK, CountersOK, NEW token \in 0 .. MaxBarriers, NEW w \in Times, w > 0
    PROVE  LET e == Entry(BarrierPayload(token), w)
           IN  /\ BarrierAfter(w) \in 0 .. Len(mMessages)
               /\ e \in Entries /\ IsBarrier(e) /\ e.when = 0 /\ e.since = w
               /\ e.id = posts + 1
               /\ \A i \in 1 .. Len(mMessages) :
                    /\ i <= BarrierAfter(w) => Follows(mMessages[i], e)
                    /\ i > BarrierAfter(w) => Follows(e, mMessages[i])
<1> DEFINE N == Len(mMessages)
           I == {i \in 1 .. N : w < mMessages[i].when}
           later == IF I # {} THEN Min(I) ELSE 0
<1>1. /\ N \in Nat /\ w \in Nat
      /\ \A i \in 1 .. N : /\ mMessages[i].when \in Nat /\ mMessages[i].id \in 1 .. posts
  BY ListTyped, EntryFields, MessagesAssumption DEF EntryOK, Times
<1>2. PICK e \in Entries : /\ e = Entry(BarrierPayload(token), w) /\ IsBarrier(e)
                           /\ e.when = 0 /\ e.since = w /\ e.id = posts + 1
  <2> DEFINE b == BarrierPayload(token)
  <2>1. posts + 1 \in Nat /\ 0 \in Times /\ b.target = NoTarget
    BY MessagesAssumption DEF CountersOK, Times, BarrierPayload
  <2> HIDE DEF b
  <2>2. Entry(b, w) = [payload |-> b, when |-> 0, since |-> w, id |-> posts + 1]
    BY <2>1 DEF Entry
  <2>3. Entry(b, w) \in Entries
    BY <2>1, <2>2 DEF Entries, b
  <2> QED
    BY <2>1, <2>2, <2>3 DEF IsBarrier, b
<1>3. posts \in Nat
  BY DEF CountersOK
<1>4. BarrierAfter(w) = IF later = 0 THEN N ELSE later - 1
  BY DEF BarrierAfter, SelectInSeq
<1>5. I \in SUBSET (1 .. N) /\ later = IF I # {} THEN Min(I) ELSE 0
  OBVIOUS
<1> HIDE DEF later
<1>6. /\ later \in 0 .. N /\ (later > 0 => later \in I)
      /\ \A i \in I : later > 0 /\ later <= i
  <2> HIDE DEF I
  <2> QED
    BY <1>1, <1>5, FirstPlace
<1>7. PICK n \in 0 .. N : /\ n = BarrierAfter(w)
                          /\ \A i \in 1 .. N : i <= n => ~(w < mMessages[i].when)
  <2>1. CASE later = 0
    BY <1>1, <1>4, <1>6, <2>1
  <2>2. CASE later # 0
    <3>1. PICK n \in 0 .. N : n = later - 1
      BY <1>1, <1>6, <2>2
    <3>2. \A i \in 1 .. N : i <= n => i \notin I
      BY <1>1, <1>6, <3>1
    <3> QED
      BY <1>4, <2>2, <3>1, <3>2
  <2> QED
    BY <2>1, <2>2
<1>8. ASSUME NEW i \in 1 .. N, i <= n
      PROVE  Follows(mMessages[i], e)
  BY <1>1, <1>2, <1>3, <1>7, <1>8 DEF Follows, DueBefore
<1>9. ASSUME NEW i \in 1 .. N
      PROVE  Follows(e, mMessages[i])
  BY <1>2 DEF Follows
<1> QED
  BY <1>2, <1>7, <1>8, <1>9
-----------------------------------------------------------------------------
LEMMA Typed ==
    ASSUME IInv
    PROVE  /\ ListOK /\ CountersOK /\ LooperOK /\ CallersOK /\ FlagsOK
           /\ now \in Nat /\ posts \in Nat
           /\ 0 \in Times
BY MessagesAssumption DEF IInv, CountersOK, Times

(* A list that no step touches.                                            *)
LEMMA ListStays ==
    ASSUME ListOK, UNCHANGED <<mMessages, posts>>
    PROVE  ListOK'
BY DEF ListOK, EntryOK, Queued

(* What the Looper does next it does not learn from others.                *)
LEMMA LooperStays ==
    ASSUME LooperOK, UNCHANGED <<looper, mBlocked>>,
           posts \in Nat, posts' \in Nat, posts <= posts'
    PROVE  LooperOK'
BY DEF LooperOK

LEMMA CallersStay ==
    ASSUME CallersOK, UNCHANGED <<caller, done>>,
           posts \in Nat, posts' \in Nat, posts <= posts'
    PROVE  CallersOK'
<1>1. \A t \in Threads : caller[t].task \in Nat
  BY DEF CallersOK
<1> QED
  BY <1>1 DEF CallersOK

(* A thread leaves the lock.                                               *)
LEMMA LeaveKeeps ==
    ASSUME CallersOK, now \in Nat, UNCHANGED done,
           posts \in Nat, posts' \in Nat, posts <= posts',
           NEW t \in Threads, NEW needWake \in BOOLEAN,
           NEW task \in Nat, task <= posts', NEW timeout \in Nat,
           Leave(t, needWake, task, timeout)
    PROVE  /\ CallersOK'
           /\ (caller'[t].pc = "wake") <=> needWake
           /\ \A u \in Threads \ {t} : caller'[u] = caller[u]
<1> DEFINE Callers == [pc : {"idle", "wake", "wait"}, task : Nat,
                       timeout : Nat, until : Int \cup {Forever}]
<1>1. caller \in [Threads -> Callers] /\ \A u \in Threads : caller[u].task \in Nat
  BY DEF CallersOK
<1>2. PICK r \in Callers :
        /\ caller' = [caller EXCEPT ![t] = r]
        /\ r.task = task /\ (r.pc = "wake" <=> needWake)
  <2> DEFINE r == [pc |-> IF needWake THEN "wake" ELSE IF task # 0 THEN "wait" ELSE "idle",
                   task |-> task, timeout |-> timeout,
                   until |-> IF needWake \/ timeout = 0 THEN Forever ELSE now + timeout]
  <2>1. now + timeout \in Int
    OBVIOUS
  <2>2. r \in Callers
    BY <2>1
  <2>3. r.task = task /\ (r.pc = "wake" <=> needWake)
    OBVIOUS
  <2>4. caller' = [caller EXCEPT ![t] = r]
    BY DEF Leave
  <2> HIDE DEF r, Callers
  <2> QED
    BY <2>2, <2>3, <2>4
<1> HIDE DEF Callers
<1>3. /\ caller' \in [Threads -> Callers]
      /\ caller'[t] = r
      /\ \A u \in Threads \ {t} : caller'[u] = caller[u]
  BY <1>1, <1>2
<1>4. ASSUME NEW u \in Threads
      PROVE  caller'[u].task <= posts'
  <2>1. CASE u = t
    BY <1>2, <1>3, <2>1
  <2>2. CASE u # t
    BY <1>1, <1>3, <2>2 DEF CallersOK
  <2> QED
    BY <2>1, <2>2
<1>5. done' \subseteq 1 .. posts'
  BY DEF CallersOK
<1> QED
  BY <1>2, <1>3, <1>4, <1>5 DEF CallersOK, Callers

(* The Looper sleeps on while a thread changes the list without waking it, *)
(* if what is next now is not before what was next when it fell asleep.    *)
LEMMA SleepsOn ==
    ASSUME IInv, UNCHANGED <<now, mBlocked, mQuiting, looper, wake>>,
           mMessages' \in Seq(Entries),
           \A t \in Threads : caller'[t].pc # "wake" => caller[t].pc # "wake",
           mBlocked /\ NextIn(mMessages') # 0 =>
                /\ NextIn(mMessages) # 0
                /\ mMessages[NextIn(mMessages)].when <= mMessages'[NextIn(mMessages')].when
    PROVE  NoLostWakeup'
<1> SUFFICES ASSUME looper.pc = "poll", ~wake, \A t \in Threads : caller[t].pc # "wake",
                    NEW k, k = NextIn(mMessages')
             PROVE  /\ mQuiting => /\ looper.deadline # Forever
                                   /\ looper.deadline <= now
                    /\ k # 0 => /\ looper.deadline # Forever
                                /\ \/ looper.deadline <= now
                                   \/ looper.deadline <= mMessages'[k].when
  BY NextMessageIs DEF NoLostWakeup
<1>1. /\ now \in Nat /\ looper.deadline \in Times \cup {Forever} /\ Times \subseteq Nat
      /\ 0 # Forever /\ ListOK
  BY Typed, MessagesAssumption DEF LooperOK, Times
<1>2. /\ mQuiting => looper.deadline # Forever /\ looper.deadline <= now
      /\ NextIn(mMessages) # 0 =>
            /\ looper.deadline # Forever
            /\ \/ looper.deadline <= now
               \/ looper.deadline <= mMessages[NextIn(mMessages)].when
  BY NextMessageIs DEF IInv, NoLostWakeup
<1>3. CASE ~mBlocked
  BY <1>1, <1>2, <1>3, Typed DEF LooperOK
<1>4. CASE mBlocked
  <2>1. CASE k = 0
    BY <1>2, <2>1
  <2>2. CASE k # 0
    <3>1. PICK n \in 1 .. Len(mMessages) :
            n = NextIn(mMessages) /\ mMessages[n].when <= mMessages'[k].when
      <4>1. mMessages \in Seq(Entries)
        BY <1>1 DEF ListOK
      <4> QED
        BY <1>4, <2>2, <4>1, NextInIs
    <3>2. mMessages[n].when \in Nat
      BY <1>1, ListTyped, EntryFields
    <3>3. mMessages'[k].when \in Nat
      <4>1. k \in 0 .. Len(mMessages')
        BY NextInIs
      <4>2. mMessages'[k] \in Entries
        BY <2>2, <4>1
      <4> QED
        BY <4>2, EntryFields
    <3>4. /\ looper.deadline # Forever
          /\ looper.deadline <= now \/ looper.deadline <= mMessages[n].when
      BY <1>2, <3>1
    <3>5. looper.deadline \in Nat
      BY <1>1, <3>4
    <3>6. looper.deadline <= now \/ looper.deadline <= mMessages'[k].when
      BY <1>1, <3>1, <3>2, <3>3, <3>4, <3>5
    <3> QED
      BY <1>2, <3>4, <3>6
  <2> QED
    BY <2>1, <2>2
<1> QED
  BY <1>3, <1>4 DEF FlagsOK

(* A thread that has left the lock to wake the Looper up, or the byte in   *)
(* the pipe.                                                               *)
LEMMA AboutToWake ==
    ASSUME wake' \/ (\E t \in Threads : caller'[t].pc = "wake") \/ looper'.pc # "poll"
    PROVE  NoLostWakeup'
BY DEF NoLostWakeup

(* Entries are put in the list one at a time.                              *)
LEMMA EntryAdded ==
    ASSUME IInv, NEW n \in 0 .. Len(mMessages), NEW e \in Entries,
           e.id = posts + 1, posts' = posts + 1,
           IsBarrier(e) => e.when = 0 /\ e.since > 0 /\ ~IsAsync(e),
           \A i \in 1 .. Len(mMessages) :
                /\ i <= n => Follows(mMessages[i], e)
                /\ i > n => Follows(e, mMessages[i]),
           mMessages' = InsertAt(mMessages, n + 1, e)
    PROVE  /\ ListOK'
           /\ mMessages' \in Seq(Entries) /\ Len(mMessages') = Len(mMessages) + 1
           /\ \A i \in 1 .. Len(mMessages) + 1 : mMessages'[i] =
                IF i < n + 1 THEN mMessages[i]
                ELSE IF i = n + 1 THEN e ELSE mMessages[i - 1]
<1>1. /\ mMessages \in Seq(Entries) /\ InOrder(mMessages) /\ posts \in Nat
      /\ \A d \in Queued : EntryOK(d)
  BY Typed DEF ListOK
<1>2. /\ mMessages' \in Seq(Entries) /\ InOrder(mMessages')
      /\ Range(mMessages') = Range(mMessages) \cup {e}
      /\ Len(mMessages') = Len(mMessages) + 1
      /\ \A i \in 1 .. Len(mMessages) + 1 : mMessages'[i] =
            IF i < n + 1 THEN mMessages[i]
            ELSE IF i = n + 1 THEN e ELSE mMessages[i - 1]
  BY <1>1, InsertedInOrder
<1>3. EntryOK(e)' /\ \A d \in Queued : EntryOK(d)'
  BY <1>1 DEF EntryOK
<1>4. \A d \in Queued' : EntryOK(d)'
  BY <1>2, <1>3 DEF Queued
<1>5. InOrder(mMessages)' <=> InOrder(mMessages')
  BY DEF InOrder
<1> QED
  BY <1>2, <1>4, <1>5 DEF ListOK
-----------------------------------------------------------------------------
(* A new head wakes the Looper up, and so does the first asynchronous      *)
(* message behind a barrier: any other one leaves what is next unchanged.  *)
LEMMA EnqueueMessageKeeps ==
    ASSUME IInv, NEW t \in Threads, NEW p \in Payloads, NEW w \in Times,
           NEW timeout \in 0 .. 1, EnqueueMessage(t, p, w, timeout)
    PROVE  IInv'
<1>1. PICK n \in 0 .. Len(mMessages), e \in Entries :
        /\ n = InsertAfter(w) /\ e = Entry(p, w)
        /\ \A i \in 1 .. Len(mMessages) :
             /\ i <= n => Follows(mMessages[i], e)
             /\ i > n => Follows(e, mMessages[i])
  BY InsertAfterIs, Typed
<1>2. ~IsBarrier(e) /\ e.id = posts + 1 /\ (IsAsync(e) <=> p.async)
  BY <1>1, MessagesAssumption DEF Entry, IsBarrier, IsAsync
<1>3. /\ posts' = posts + 1 /\ posts' \in Nat /\ posts <= posts' /\ now \in Nat
      /\ mMessages' = InsertAt(mMessages, n + 1, e)
      /\ UNCHANGED <<now, mBlocked, mQuiting, mNextBarrierToken, mIdleHandlers, wake,
                     looper, done, standing>>
      /\ caller[t].pc = "idle"
  BY <1>1, Typed DEF EnqueueMessage
<1>4. /\ ListOK'
      /\ mMessages' \in Seq(Entries) /\ Len(mMessages') = Len(mMessages) + 1
      /\ \A i \in 1 .. Len(mMessages) + 1 : mMessages'[i] =
           IF i < n + 1 THEN mMessages[i]
           ELSE IF i = n + 1 THEN e ELSE mMessages[i - 1]
  BY <1>1, <1>2, <1>3, EntryAdded
<1>5. /\ CallersOK'
      /\ (caller'[t].pc = "wake") <=> NeedWake(p, n)
      /\ \A u \in Threads \ {t} : caller'[u] = caller[u]
  <2>1. PICK task \in Nat :
          task <= posts' /\ Leave(t, NeedWake(p, n), task, timeout)
    BY <1>1, <1>3, Typed DEF EnqueueMessage
  <2>2. NeedWake(p, n) \in BOOLEAN
    BY DEF NeedWake
  <2>3. timeout \in Nat
    OBVIOUS
  <2> QED
    BY <1>3, <2>1, <2>2, <2>3, LeaveKeeps, Typed
<1>6. CountersOK'
  <2>1. UNCHANGED <<now, mNextBarrierToken, standing>> /\ posts - mNextBarrierToken < MaxPosts
    BY DEF EnqueueMessage
  <2>2. PICK token \in 0 .. MaxBarriers : token = mNextBarrierToken
    BY Typed DEF CountersOK
  <2>3. posts' - token \in 0 .. MaxPosts
    BY <1>3, <2>1, <2>2, Typed, MessagesAssumption DEF CountersOK
  <2> QED
    BY <1>3, <2>1, <2>2, <2>3, Typed DEF CountersOK
<1>7. LooperOK'
  BY <1>3, LooperStays, Typed
<1>8. FlagsOK'
  BY <1>3, Typed DEF FlagsOK
<1>9. NoLostWakeup'
  <2>1. CASE NeedWake(p, n)
    BY <1>5, <2>1, AboutToWake
  <2>2. CASE ~NeedWake(p, n)
    <3>1. ASSUME mBlocked, NEW k, k = NextIn(mMessages'), k # 0
          PROVE  /\ NextIn(mMessages) # 0
                 /\ mMessages[NextIn(mMessages)].when <= mMessages'[k].when
      <4>1. mMessages \in Seq(Entries) /\ InOrder(mMessages) /\ Len(mMessages) \in Nat
        BY Typed DEF ListOK
      <4>2. /\ n > 0
            /\ IsBarrier(mMessages[1]) /\ p.async =>
                 \E i \in 2 .. n : IsAsync(mMessages[i])
        BY <2>2, <3>1 DEF NeedWake
      <4>3. /\ k \in 1 .. Len(mMessages) + 1
            /\ ~IsBarrier(mMessages'[1]) => k = 1
            /\ IsBarrier(mMessages'[1]) => IsAsync(mMessages'[k])
            /\ \A i \in 1 .. Len(mMessages) + 1 :
                 IsBarrier(mMessages'[1]) /\ IsAsync(mMessages'[i]) => k <= i
        <5>1. mMessages' # <<>>
          BY <1>4, <4>1
        <5> QED
          BY <1>4, <3>1, <4>1, <5>1, NextInIs
      <4>4. mMessages'[1] = mMessages[1] /\ mMessages # <<>>
        BY <1>4, <4>1, <4>2
      <4>5. k # n + 1
        <5>1. CASE ~IsBarrier(mMessages[1])
          BY <4>2, <4>3, <4>4, <5>1
        <5>2. CASE IsBarrier(mMessages[1]) /\ ~p.async
          <6>1. mMessages'[n + 1] = e
            BY <1>4
          <6> QED
            BY <1>2, <4>3, <4>4, <5>2, <6>1
        <5>3. CASE IsBarrier(mMessages[1]) /\ p.async
          <6>1. PICK i \in 2 .. n : IsAsync(mMessages[i])
            BY <4>2, <5>3
          <6>2. mMessages'[i] = mMessages[i] /\ i \in 1 .. Len(mMessages) + 1
            BY <1>4
          <6> QED
            BY <4>3, <4>4, <5>3, <6>1, <6>2
        <5> QED
          BY <5>1, <5>2, <5>3
      <4>6. \E i \in 1 .. Len(mMessages) : mMessages[i] = mMessages'[k]
        <5>1. CASE k < n + 1
          BY <1>4, <4>3, <5>1
        <5>2. CASE k > n + 1
          <6>1. k - 1 \in 1 .. Len(mMessages) /\ mMessages'[k] = mMessages[k - 1]
            BY <1>4, <4>1, <4>3, <5>2
          <6> QED
            BY <6>1
        <5> QED
          BY <4>3, <4>5, <5>1, <5>2
      <4> QED
        BY <1>4, <3>1, <4>1, <4>4, <4>6, NextLater
    <3> QED
      BY <1>3, <1>4, <1>5, <3>1, SleepsOn
  <2> QED
    BY <2>1, <2>2
<1> QED
  BY <1>4, <1>5, <1>6, <1>7, <1>8, <1>9 DEF IInv

(* A barrier is never next itself, and it only puts off what is behind it. *)
LEMMA EnqueueSyncBarrierKeeps ==
    ASSUME IInv, NEW t \in Threads, NEW w \in 1 .. now, EnqueueSyncBarrier(t, w)
    PROVE  IInv'
<1>1. /\ now \in Nat /\ now <= MaxTime /\ MaxTime \in Nat
      /\ mNextBarrierToken \in 0 .. MaxBarriers
  BY Typed, MessagesAssumption DEF CountersOK, Times
<1>2. w \in Times /\ w > 0
  BY <1>1 DEF Times
<1>3. PICK n \in 0 .. Len(mMessages), e \in Entries :
        /\ n = BarrierAfter(w) /\ e = Entry(BarrierPayload(mNextBarrierToken), w)
        /\ IsBarrier(e) /\ e.when = 0 /\ e.since = w /\ e.id = posts + 1
        /\ \A i \in 1 .. Len(mMessages) :
             /\ i <= n => Follows(mMessages[i], e)
             /\ i > n => Follows(e, mMessages[i])
  BY <1>1, <1>2, BarrierAfterIs, Typed
<1>4. /\ posts' = posts + 1 /\ posts' \in Nat /\ posts <= posts'
      /\ mMessages' = InsertAt(mMessages, n + 1, e)
      /\ UNCHANGED <<now, mBlocked, mQuiting, mIdleHandlers, wake, looper, caller, done>>
  BY <1>3, Typed DEF EnqueueSyncBarrier, BarrierAfter
<1>5. /\ ListOK'
      /\ mMessages' \in Seq(Entries) /\ Len(mMessages') = Len(mMessages) + 1
      /\ \A i \in 1 .. Len(mMessages) + 1 : mMessages'[i] =
           IF i < n + 1 THEN mMessages[i]
           ELSE IF i = n + 1 THEN e ELSE mMessages[i - 1]
  BY <1>2, <1>3, <1>4, EntryAdded, EntryFields
<1>6. CountersOK'
  <2>1. /\ mNextBarrierToken' = mNextBarrierToken + 1 /\ mNextBarrierToken < MaxBarriers
        /\ standing' = standing \cup {mNextBarrierToken} /\ posts' = posts + 1 /\ now' = now
    BY DEF EnqueueSyncBarrier
  <2> QED
    BY <1>1, <2>1, Typed, MessagesAssumption DEF CountersOK
<1>7. LooperOK' /\ CallersOK' /\ FlagsOK'
  <2>1. FlagsOK'
    BY <1>4, Typed DEF FlagsOK
  <2> QED
    BY <1>4, <2>1, LooperStays, CallersStay, Typed
<1>8. NoLostWakeup'
  <2>1. ASSUME NEW k, k = NextIn(mMessages'), k # 0
        PROVE  /\ NextIn(mMessages) # 0
               /\ mMessages[NextIn(mMessages)].when <= mMessages'[k].when
    <3>1. mMessages \in Seq(Entries) /\ InOrder(mMessages) /\ Len(mMessages) \in Nat
      BY Typed DEF ListOK
    <3>2. k \in 1 .. Len(mMessages) + 1 /\ ~IsBarrier(mMessages'[k])
      BY <1>5, <2>1, <3>1, NextInIs
    <3>3. mMessages'[n + 1] = e /\ k # n + 1
      BY <1>3, <1>5, <3>2
    <3>4. mMessages # <<>> /\ IsBarrier(mMessages[1]) => IsBarrier(mMessages'[1])
      BY <1>3, <1>5, <3>1
    <3>5. \E i \in 1 .. Len(mMessages) : mMessages[i] = mMessages'[k]
      <4>1. CASE k < n + 1
        <5>1. k \in 1 .. Len(mMessages) /\ mMessages'[k] = mMessages[k]
          BY <1>5, <3>1, <3>2, <4>1
        <5> QED
          BY <5>1
      <4>2. CASE k > n + 1
        <5>1. k - 1 \in 1 .. Len(mMessages) /\ mMessages'[k] = mMessages[k - 1]
          BY <1>5, <3>1, <3>2, <4>2
        <5> QED
          BY <5>1
      <4> QED
        BY <3>2, <3>3, <4>1, <4>2
    <3> QED
      BY <1>5, <2>1, <3>1, <3>4, <3>5, NextLater
  <2> QED
    BY <1>4, <1>5, <2>1, SleepsOn
<1> QED
  BY <1>5, <1>6, <1>7, <1>8 DEF IInv
-----------------------------------------------------------------------------
LEMMA ListThinned ==
    ASSUME IInv, posts' = posts, mMessages' \in Seq(Entries),
           NEW from \in [1 .. Len(mMessages') -> 1 .. Len(mMessages)],
           \A i \in 1 .. Len(mMessages') : mMessages'[i] = mMessages[from[i]],
           \A i, j \in 1 .. Len(mMessages') : i < j => from[i] < from[j]
    PROVE  ListOK'
<1>1. mMessages \in Seq(Entries) /\ InOrder(mMessages)
  BY Typed DEF ListOK
<1>2. InOrder(mMessages')
  BY <1>1, ThinnedInOrder
<1>3. ASSUME NEW d \in Queued'
      PROVE  EntryOK(d)'
  <2>1. PICK i \in 1 .. Len(mMessages') : d = mMessages'[i]
    BY DEF Queued, Range
  <2>2. from[i] \in 1 .. Len(mMessages) /\ d = mMessages[from[i]]
    BY <2>1
  <2>3. EntryOK(d)
    BY <2>2, ListTyped, Typed
  <2> QED
    BY <2>3 DEF EntryOK
<1>4. InOrder(mMessages)' <=> InOrder(mMessages')
  BY DEF InOrder
<1> QED
  BY <1>2, <1>3, <1>4 DEF ListOK

LEMMA EntryTaken ==
    ASSUME IInv, posts' = posts, NEW k \in 1 .. Len(mMessages),
           mMessages' = RemoveAt(mMessages, k)
    PROVE  /\ ListOK'
           /\ mMessages' \in Seq(Entries) /\ Len(mMessages') = Len(mMessages) - 1
           /\ \A i \in 1 .. Len(mMessages) - 1 : mMessages'[i] =
                IF i < k THEN mMessages[i] ELSE mMessages[i + 1]
<1>1. mMessages \in Seq(Entries) /\ Len(mMessages) \in Nat
  BY Typed DEF ListOK
<1>2. /\ mMessages' \in Seq(Entries) /\ Len(mMessages') = Len(mMessages) - 1
      /\ \A i \in 1 .. Len(mMessages) - 1 : mMessages'[i] =
           IF i < k THEN mMessages[i] ELSE mMessages[i + 1]
  BY <1>1, RemoveAtIs
<1> DEFINE from == [i \in 1 .. Len(mMessages') |-> IF i < k THEN i ELSE i + 1]
<1>3. /\ from \in [1 .. Len(mMessages') -> 1 .. Len(mMessages)]
      /\ \A i \in 1 .. Len(mMessages') : mMessages'[i] = mMessages[from[i]]
      /\ \A i, j \in 1 .. Len(mMessages') : i < j => from[i] < from[j]
  BY <1>1, <1>2
<1> HIDE DEF from
<1>4. ListOK'
  BY <1>2, <1>3, ListThinned
<1> QED
  BY <1>2, <1>4

(* Only a barrier that leaves the head of the list can bring a message     *)
(* forward: then the Looper is woken up, unless another barrier is behind. *)
LEMMA RemoveSyncBarrierKeeps ==
    ASSUME IInv, NEW t \in Threads, NEW token \in standing, RemoveSyncBarrier(t, token)
    PROVE  IInv'
<1> DEFINE N == Len(mMessages)
           I == {i \in 1 .. N : IsBarrier(mMessages[i]) \/ mMessages[i].payload.arg1 = token}
<1>1. mMessages \in Seq(Entries) /\ N \in Nat /\ InOrder(mMessages)
  BY Typed DEF ListOK
<1>2. PICK k \in 0 .. N : k = Removed(token)
  <2>1. Removed(token) = IF I # {} THEN Min(I) ELSE 0
    BY DEF Removed, SelectInSeq
  <2>2. I \in SUBSET (1 .. N)
    OBVIOUS
  <2> HIDE DEF I, N
  <2> QED
    BY <1>1, <2>1, <2>2, FirstPlace
<1>3. /\ UNCHANGED <<now, mBlocked, mQuiting, mNextBarrierToken, mIdleHandlers, wake,
                     looper, posts, done>>
      /\ caller[t].pc = "idle" /\ standing' = standing \ {token}
  BY DEF RemoveSyncBarrier
<1>4. CountersOK'
  BY <1>3, Typed DEF CountersOK
<1>5. LooperOK' /\ FlagsOK'
  <2>1. FlagsOK'
    BY <1>3, Typed DEF FlagsOK
  <2> QED
    BY <1>3, <2>1, LooperStays, Typed
<1>6. CASE k = 0
  <2>1. UNCHANGED <<mMessages, caller>>
    BY <1>2, <1>6 DEF RemoveSyncBarrier
  <2>2. ListOK' /\ CallersOK'
    BY <1>3, <2>1, ListStays, CallersStay, Typed
  <2>3. NoLostWakeup'
    BY <1>3, <2>1 DEF IInv, NoLostWakeup, NextMessage, IsBarrier
  <2> QED
    BY <1>4, <1>5, <2>2, <2>3 DEF IInv
<1>7. CASE k > 0
  <2> DEFINE rest == RemoveAt(mMessages, k)
             needWake == k = 1 /\ (rest # <<>> => ~IsBarrier(Head(rest)))
  <2>1. mMessages' = rest /\ Leave(t, needWake, 0, 0)
    BY <1>2, <1>7 DEF RemoveSyncBarrier
  <2>2. /\ ListOK'
        /\ mMessages' \in Seq(Entries) /\ Len(mMessages') = N - 1
        /\ \A i \in 1 .. N - 1 : mMessages'[i] =
             IF i < k THEN mMessages[i] ELSE mMessages[i + 1]
    BY <1>3, <1>7, <2>1, EntryTaken
  <2>3. /\ needWake \in BOOLEAN
        /\ ~needWake => k # 1 \/ (mMessages' # <<>> /\ IsBarrier(mMessages'[1]))
    BY <2>1
  <2> HIDE DEF needWake
  <2>4. /\ CallersOK'
        /\ (caller'[t].pc = "wake") <=> needWake
        /\ \A u \in Threads \ {t} : caller'[u] = caller[u]
    BY <1>3, <2>1, <2>3, LeaveKeeps, Typed
  <2>5. NoLostWakeup'
    <3>1. CASE needWake
      BY <2>4, <3>1, AboutToWake
    <3>2. CASE ~needWake
      <4>1. ASSUME NEW n, n = NextIn(mMessages'), n # 0
            PROVE  /\ NextIn(mMessages) # 0
                   /\ mMessages[NextIn(mMessages)].when <= mMessages'[n].when
        <5>1. n \in 1 .. N - 1 /\ mMessages' # <<>>
          BY <1>1, <2>2, <4>1, NextInIs
        <5>2. IsBarrier(mMessages[1]) => IsBarrier(mMessages'[1])
          BY <1>1, <1>7, <2>2, <2>3, <3>2, <5>1
        <5>3. \E i \in 1 .. N : mMessages[i] = mMessages'[n]
          <6>1. n \in 1 .. N /\ n + 1 \in 1 .. N
            BY <1>1, <5>1
          <6> QED
            BY <2>2, <5>1, <6>1
        <5> QED
          BY <1>1, <2>2, <4>1, <5>2, <5>3, NextLater
      <4> QED
        BY <1>3, <2>2, <2>3, <2>4, <3>2, <4>1, SleepsOn
    <3> QED
      BY <2>3, <3>1, <3>2
  <2> QED
    BY <1>4, <1>5, <2>2, <2>4, <2>5 DEF IInv
<1> QED
  BY <1>6, <1>7

(* The removals by Handler leave the barriers where they are: what is next *)
(* afterwards is not before what was next.                                 *)
LEMMA RemoveEntriesKeeps ==
    ASSUME IInv, NEW t \in Threads, NEW S, \A e \in S : ~IsBarrier(e),
           RemoveEntries(t, S)
    PROVE  IInv'
<1>1. mMessages \in Seq(Entries) /\ Len(mMessages) \in Nat /\ InOrder(mMessages)
  BY Typed DEF ListOK
<1>2. /\ UNCHANGED <<now, mBlocked, mQuiting, mNextBarrierToken, mIdleHandlers, wake,
                     looper, caller, posts, done, standing>>
      /\ mMessages' = Without(mMessages, S)
  BY DEF RemoveEntries
<1>3. /\ mMessages' \in Seq(Entries)
      /\ \E from \in [DOMAIN mMessages' -> DOMAIN mMessages] :
           /\ \A i \in DOMAIN mMessages' : mMessages'[i] = mMessages[from[i]]
           /\ \A i, j \in DOMAIN mMessages' : i < j => from[i] < from[j]
           /\ \A i \in DOMAIN mMessages : mMessages[i] \notin S =>
                \E n \in DOMAIN mMessages' : from[n] = i
  BY <1>1, <1>2, WithoutPlaces
<1>4. PICK from \in [1 .. Len(mMessages') -> 1 .. Len(mMessages)] :
        /\ \A i \in 1 .. Len(mMessages') : mMessages'[i] = mMessages[from[i]]
        /\ \A i, j \in 1 .. Len(mMessages') : i < j => from[i] < from[j]
        /\ \A i \in 1 .. Len(mMessages) : mMessages[i] \notin S =>
             \E n \in 1 .. Len(mMessages') : from[n] = i
  <2>1. DOMAIN mMessages = 1 .. Len(mMessages) /\ DOMAIN mMessages' = 1 .. Len(mMessages')
    BY <1>1, <1>3
  <2> QED
    BY <1>3, <2>1
<1>5. ListOK'
  BY <1>2, <1>3, <1>4, ListThinned
<1>6. CountersOK' /\ FlagsOK'
  BY <1>2, Typed DEF CountersOK, FlagsOK
<1>7. LooperOK' /\ CallersOK'
  BY <1>2, LooperStays, CallersStay, Typed
<1>8. NoLostWakeup'
  <2>1. ASSUME NEW k, k = NextIn(mMessages'), k # 0
        PROVE  /\ NextIn(mMessages) # 0
               /\ mMessages[NextIn(mMessages)].when <= mMessages'[k].when
    <3>1. k \in 1 .. Len(mMessages') /\ Len(mMessages') \in Nat
      BY <1>3, <2>1, NextInIs
    <3>2. from[k] \in 1 .. Len(mMessages) /\ mMessages'[k] = mMessages[from[k]]
      BY <1>4, <3>1
    <3>3. IsBarrier(mMessages[1]) => IsBarrier(mMessages'[1])
      <4>1. SUFFICES ASSUME IsBarrier(mMessages[1])
                     PROVE  IsBarrier(mMessages'[1])
        OBVIOUS
      <4>2. 1 \in 1 .. Len(mMessages) /\ mMessages[1] \notin S
        BY <1>1, <3>2, <4>1
      <4>3. PICK n \in 1 .. Len(mMessages') : from[n] = 1
        BY <1>4, <4>2
      <4>4. 1 \in 1 .. Len(mMessages') /\ from[1] \in 1 .. Len(mMessages)
        BY <3>1
      <4>5. n = 1
        BY <1>4, <4>3, <4>4
      <4> QED
        BY <1>4, <4>1, <4>3, <4>5
    <3> QED
      BY <1>1, <1>3, <2>1, <3>2, <3>3, NextLater
  <2> QED
    BY <1>2, <1>3, <2>1, SleepsOn
<1> QED
  BY <1>5, <1>6, <1>7, <1>8 DEF IInv
-----------------------------------------------------------------------------
(* The steps of threads that leave the list alone.                         *)
LEMMA NativeWakeKeeps ==
    ASSUME IInv, NEW t \in Threads, NativeWake(t)
    PROVE  IInv'
<1>1. /\ UNCHANGED <<now, mMessages, mBlocked, mQuiting, mNextBarrierToken, mIdleHandlers,
                     looper, posts, done, standing>>
      /\ wake' = TRUE
      /\ Leave(t, FALSE, caller[t].task, caller[t].timeout)
  BY DEF NativeWake
<1>2. caller[t].task \in Nat /\ caller[t].task <= posts /\ caller[t].timeout \in Nat
  BY Typed DEF CallersOK
<1>3. CallersOK'
  <2>1. PICK task \in Nat, timeout \in Nat :
          /\ task <= posts' /\ posts' = posts
          /\ Leave(t, FALSE, task, timeout)
    BY <1>1, <1>2
  <2>2. now \in Nat /\ posts' \in Nat /\ posts \in Nat /\ posts <= posts' /\ UNCHANGED done
    BY <1>1, Typed
  <2>3. FALSE \in BOOLEAN
    OBVIOUS
  <2> QED
    BY <2>1, <2>2, <2>3, LeaveKeeps, Typed
<1>4. ListOK' /\ LooperOK'
  BY <1>1, ListStays, LooperStays, Typed
<1>5. CountersOK' /\ FlagsOK'
  BY <1>1, Typed DEF CountersOK, FlagsOK
<1>6. NoLostWakeup'
  BY <1>1, AboutToWake
<1> QED
  BY <1>3, <1>4, <1>5, <1>6 DEF IInv

(* What is next does not change, so that the Looper may sleep on.          *)
LEMMA SameList ==
    ASSUME IInv, UNCHANGED <<now, mMessages, mBlocked, mQuiting, looper, wake>>,
           \A t \in Threads : caller'[t].pc # "wake" => caller[t].pc # "wake"
    PROVE  NoLostWakeup'
<1>1. mMessages \in Seq(Entries)
  BY Typed DEF ListOK
<1>2. NextIn(mMessages) # 0 => mMessages[NextIn(mMessages)].when \in Nat
  <2>1. NextIn(mMessages) \in 0 .. Len(mMessages)
    BY <1>1, NextInIs
  <2> QED
    BY <2>1, ListTyped, EntryFields, Typed
<1>3. \A when \in Nat : when <= when
  OBVIOUS
<1> QED
  BY <1>1, <1>2, <1>3, SleepsOn

LEMMA WaitReturnsKeeps ==
    ASSUME IInv, NEW t \in Threads, WaitReturns(t)
    PROVE  IInv'
<1>1. /\ UNCHANGED <<now, mMessages, mBlocked, mQuiting, mNextBarrierToken, mIdleHandlers,
                     wake, looper, posts, standing>>
      /\ caller[t].pc = "wait" /\ caller' = [caller EXCEPT ![t] = Idle]
      /\ done' \subseteq done
  BY DEF WaitReturns
<1>2. CallersOK'
  <2> DEFINE Callers == [pc : {"idle", "wake", "wait"}, task : Nat,
                         timeout : Nat, until : Int \cup {Forever}]
  <2>1. PICK r \in Callers : r = Idle
    BY DEF Idle
  <2>2. caller \in [Threads -> Callers]
    BY Typed DEF CallersOK
  <2> HIDE DEF Callers
  <2>3. caller' \in [Threads -> Callers]
    BY <1>1, <2>1, <2>2
  <2>4. ASSUME NEW u \in Threads
        PROVE  caller'[u].task <= posts'
    <3>1. caller'[u] = IF u = t THEN Idle ELSE caller[u]
      BY <1>1, <2>2
    <3>2. Idle.task = 0
      BY DEF Idle
    <3>3. caller[u].task <= posts /\ posts \in Nat /\ posts' = posts
      BY <1>1, Typed DEF CallersOK
    <3> QED
      BY <3>1, <3>2, <3>3
  <2>5. done' \subseteq 1 .. posts'
    BY <1>1, Typed DEF CallersOK
  <2> QED
    BY <2>3, <2>4, <2>5 DEF CallersOK, Callers
<1>3. ListOK' /\ LooperOK'
  BY <1>1, ListStays, LooperStays, Typed
<1>4. CountersOK' /\ FlagsOK'
  BY <1>1, Typed DEF CountersOK, FlagsOK
<1>5. NoLostWakeup'
  <2>1. ASSUME NEW u \in Threads, caller'[u].pc # "wake"
        PROVE  caller[u].pc # "wake"
    BY <1>1, <2>1, Typed DEF CallersOK
  <2> QED
    BY <1>1, <2>1, SameList
<1> QED
  BY <1>2, <1>3, <1>4, <1>5 DEF IInv

LEMMA QuitKeeps ==
    ASSUME IInv, NEW t \in Threads, Quit(t)
    PROVE  IInv'
<1>1. /\ UNCHANGED <<now, mMessages, mBlocked, mNextBarrierToken, mIdleHandlers, wake,
                     looper, posts, done, standing>>
      /\ mQuiting' = TRUE /\ Leave(t, TRUE, 0, 0)
  BY DEF Quit
<1>2. CallersOK' /\ caller'[t].pc = "wake"
  <2>1. /\ now \in Nat /\ posts' \in Nat /\ posts \in Nat /\ posts <= posts' /\ UNCHANGED done
        /\ TRUE \in BOOLEAN /\ 0 \in Nat /\ 0 <= posts'
    BY <1>1, Typed
  <2> QED
    BY <1>1, <2>1, LeaveKeeps, Typed
<1>3. ListOK' /\ LooperOK'
  BY <1>1, ListStays, LooperStays, Typed
<1>4. CountersOK' /\ FlagsOK'
  BY <1>1, Typed DEF CountersOK, FlagsOK
<1>5. NoLostWakeup'
  BY <1>2, AboutToWake
<1> QED
  BY <1>2, <1>3, <1>4, <1>5 DEF IInv

LEMMA IdleHandlersKeep ==
    ASSUME IInv, NEW t \in Threads, NEW i \in Idlers,
           AddIdleHandler(t, i) \/ RemoveIdleHandler(t, i)
    PROVE  IInv'
<1>1. /\ UNCHANGED <<now, mMessages, mBlocked, mQuiting, mNextBarrierToken, wake, looper,
                     caller, posts, done, standing>>
      /\ mIdleHandlers' \subseteq mIdleHandlers \cup {i}
  BY DEF AddIdleHandler, RemoveIdleHandler
<1>2. ListOK' /\ LooperOK' /\ CallersOK'
  BY <1>1, ListStays, LooperStays, CallersStay, Typed
<1>3. CountersOK' /\ FlagsOK'
  BY <1>1, Typed DEF CountersOK, FlagsOK
<1>4. NoLostWakeup'
  BY <1>1, SameList
<1> QED
  BY <1>2, <1>3, <1>4 DEF IInv

LEMMA ThreadStepKeeps ==
    ASSUME IInv, NEW t \in Threads, ThreadStep(t)
    PROVE  IInv'
<1>1. ASSUME NEW h \in Targets, NEW p \in Payloads, NEW obj \in {None, p.obj},
             \/ RemoveMessages(t, h, p.what, obj)
             \/ RemoveMessagesEx(t, h, p.callback, obj)
             \/ RemoveCallbacksAndMessages(t, h, obj)
      PROVE  IInv'
  <2>1. \A e \in EntriesOf(h, obj) : ~IsBarrier(e)
    BY MessagesAssumption DEF EntriesOf, IsBarrier, Targets
  <2>2. PICK S : RemoveEntries(t, S) /\ S \subseteq EntriesOf(h, obj)
    BY <1>1 DEF RemoveMessages, RemoveMessagesEx, RemoveCallbacksAndMessages
  <2> QED
    BY <2>1, <2>2, RemoveEntriesKeeps
<1>2. CASE \E p \in Payloads, w \in Times, timeout \in 0 .. 1 :
             EnqueueMessage(t, p, w, timeout)
  BY <1>2, EnqueueMessageKeeps
<1>3. CASE NativeWake(t) \/ WaitReturns(t) \/ Quit(t)
  BY <1>3, NativeWakeKeeps, WaitReturnsKeeps, QuitKeeps
<1>4. CASE \E w \in 1 .. now : EnqueueSyncBarrier(t, w)
  BY <1>4, EnqueueSyncBarrierKeeps
<1>5. CASE \E token \in standing : RemoveSyncBarrier(t, token)
  BY <1>5, RemoveSyncBarrierKeeps
<1>6. CASE \E i \in Idlers : AddIdleHandler(t, i) \/ RemoveIdleHandler(t, i)
  BY <1>6, IdleHandlersKeep
<1> QED
  BY <1>1, <1>2, <1>3, <1>4, <1>5, <1>6 DEF ThreadStep
-----------------------------------------------------------------------------
Loopers ==
    [pc : {"poll", "look", "idle", "dispatch", "exited"},
     deadline : Times \cup {Forever},
     idleCount : -1 .. Cardinality(Idlers), idlers : SUBSET Idlers,
     msg : Entries \cup {None}]

LEMMA LooperTyped ==
    ASSUME LooperOK
    PROVE  /\ looper \in Loopers
           /\ looper.deadline \in Times \cup {Forever}
           /\ looper.idleCount \in -1 .. Cardinality(Idlers)
           /\ looper.idlers \subseteq Idlers
           /\ looper.msg \in Entries \cup {None}
BY DEF LooperOK, Loopers

(* GetNext polls again.                                                    *)
LEMMA ToPollIs ==
    ASSUME LooperOK, NEW deadline \in Times \cup {Forever},
           NEW count \in -1 .. Cardinality(Idlers), ToPoll(deadline, count),
           mBlocked' \/ deadline = 0
    PROVE  LooperOK' /\ looper'.pc = "poll" /\ looper'.deadline = deadline
<1>1. PICK r \in Loopers : r = looper
  BY LooperTyped
<1>2. looper' = [pc |-> "poll", deadline |-> deadline, idleCount |-> count,
                 idlers |-> {}, msg |-> None]
  BY <1>1 DEF ToPoll, Loopers
<1>3. looper' \in Loopers
  BY <1>2 DEF Loopers
<1>4. /\ looper'.pc = "poll" /\ looper'.deadline = deadline /\ looper'.msg = None
  BY <1>2
<1> QED
  BY <1>3, <1>4 DEF LooperOK, Loopers

(* GetNext goes on.                                                        *)
LEMMA LooperGoes ==
    ASSUME LooperOK, posts \in Nat, posts' = posts, looper' \in Loopers,
           looper'.pc # "poll",
           looper'.msg = looper.msg \/ looper'.msg.id \in 1 .. posts,
           looper'.pc = "dispatch" => looper'.msg.id \in 1 .. posts
    PROVE  LooperOK'
BY DEF LooperOK, Loopers

LEMMA PollReturnsKeeps ==
    ASSUME IInv, PollReturns
    PROVE  IInv'
<1>1. /\ UNCHANGED <<now, mMessages, mBlocked, mQuiting, mNextBarrierToken, mIdleHandlers,
                     caller, posts, done, standing>>
      /\ wake' = FALSE
      /\ looper' = [looper EXCEPT !.pc = "look", !.deadline = 0]
  BY DEF PollReturns
<1>2. PICK r \in Loopers : r = looper
  BY LooperTyped, Typed
<1>3. looper' \in Loopers /\ looper'.pc = "look" /\ looper'.msg = looper.msg
  BY <1>1, <1>2, Typed DEF Loopers
<1>4. LooperOK'
  BY <1>1, <1>3, LooperGoes, Typed
<1>5. ListOK' /\ CallersOK'
  BY <1>1, ListStays, CallersStay, Typed
<1>6. CountersOK' /\ FlagsOK'
  BY <1>1, Typed DEF CountersOK, FlagsOK
<1>7. NoLostWakeup'
  BY <1>3, AboutToWake
<1> QED
  BY <1>4, <1>5, <1>6, <1>7 DEF IInv

LEMMA LoopEndsKeeps ==
    ASSUME IInv, LoopEnds
    PROVE  IInv'
<1>1. /\ UNCHANGED <<now, mMessages, mBlocked, mQuiting, mNextBarrierToken, mIdleHandlers,
                     wake, caller, posts, done, standing>>
      /\ looper' = [looper EXCEPT !.pc = "exited"]
  BY DEF LoopEnds
<1>2. PICK r \in Loopers : r = looper
  BY LooperTyped, Typed
<1>3. looper' \in Loopers /\ looper'.pc = "exited" /\ looper'.msg = looper.msg
  BY <1>1, <1>2, Typed DEF Loopers
<1>4. LooperOK'
  BY <1>1, <1>3, LooperGoes, Typed
<1>5. ListOK' /\ CallersOK'
  BY <1>1, ListStays, CallersStay, Typed
<1>6. CountersOK' /\ FlagsOK'
  BY <1>1, Typed DEF CountersOK, FlagsOK
<1>7. NoLostWakeup'
  BY <1>3, AboutToWake
<1> QED
  BY <1>4, <1>5, <1>6, <1>7 DEF IInv

LEMMA TakeMessageKeeps ==
    ASSUME IInv, TakeMessage
    PROVE  IInv'
<1>1. /\ UNCHANGED <<now, mQuiting, mNextBarrierToken, mIdleHandlers, wake, caller, posts,
                     done, standing>>
      /\ mBlocked' = FALSE
  BY DEF TakeMessage
<1>2. PICK k \in 1 .. Len(mMessages) :
        /\ mMessages' = RemoveAt(mMessages, k)
        /\ looper' = [looper EXCEPT !.pc = "dispatch", !.msg = mMessages[k]]
  <2>1. mMessages \in Seq(Entries) /\ Len(mMessages) \in Nat
    BY Typed DEF ListOK
  <2>2. NextMessage \in 0 .. Len(mMessages)
    BY <2>1, NextInIs, NextMessageIs
  <2>3. PICK k \in 0 .. Len(mMessages) : k = NextMessage
    BY <2>2
  <2>4. /\ k # 0 /\ mMessages' = RemoveAt(mMessages, k)
        /\ looper' = [looper EXCEPT !.pc = "dispatch", !.msg = mMessages[k]]
    BY <2>3 DEF TakeMessage
  <2>5. k \in 1 .. Len(mMessages)
    BY <2>1, <2>4
  <2> QED
    BY <2>4, <2>5
<1>3. ListOK'
  BY <1>1, <1>2, EntryTaken
<1>4. PICK r \in Loopers : r = looper
  BY LooperTyped, Typed
<1>5. PICK e \in Entries : e = mMessages[k] /\ e.id \in 1 .. posts
  BY ListTyped, Typed DEF EntryOK
<1>6. looper' \in Loopers /\ looper'.pc = "dispatch" /\ looper'.msg = e
  BY <1>2, <1>4, <1>5, Typed DEF Loopers
<1>7. LooperOK'
  BY <1>1, <1>5, <1>6, LooperGoes, Typed
<1>8. CallersOK'
  BY <1>1, CallersStay, Typed
<1>9. CountersOK' /\ FlagsOK'
  BY <1>1, Typed DEF CountersOK, FlagsOK
<1>10. NoLostWakeup'
  BY <1>6, AboutToWake
<1> QED
  BY <1>3, <1>7, <1>8, <1>9, <1>10 DEF IInv

LEMMA TimeoutTyped ==
    ASSUME IInv
    PROVE  /\ Timeout \in Times \cup {Forever}
           /\ NextMessage # 0 => /\ Timeout = mMessages[NextMessage].when
                                 /\ Timeout \in Nat /\ Timeout # Forever
           /\ IdleCount \in -1 .. Cardinality(Idlers)
<1>1. mMessages \in Seq(Entries) /\ Len(mMessages) \in Nat
  BY Typed DEF ListOK
<1>2. NextMessage \in 0 .. Len(mMessages)
  BY <1>1, NextInIs, NextMessageIs
<1>3. \A i \in 1 .. Len(mMessages) :
        mMessages[i].when \in Times /\ mMessages[i].when \in Nat
  BY ListTyped, EntryFields, Typed
<1>4. /\ Timeout \in Times \cup {Forever}
      /\ NextMessage # 0 => /\ Timeout = mMessages[NextMessage].when
                            /\ Timeout \in Nat /\ Timeout # Forever
  BY <1>2, <1>3, MessagesAssumption DEF Timeout
<1>5. IdleCount \in -1 .. Cardinality(Idlers)
  <2>1. mIdleHandlers \in SUBSET Idlers
    BY Typed DEF FlagsOK
  <2>2. IsFiniteSet(Idlers)
    BY MessagesAssumption
  <2>3. /\ IsFiniteSet(mIdleHandlers)
        /\ Cardinality(mIdleHandlers) <= Cardinality(Idlers)
    BY <2>1, <2>2, FS_Subset
  <2>4. Cardinality(mIdleHandlers) \in Nat /\ Cardinality(Idlers) \in Nat
    BY <2>2, <2>3, FS_CardinalityType
  <2> QED
    BY <2>3, <2>4, LooperTyped, Typed DEF IdleCount
<1> QED
  BY <1>4, <1>5

LEMMA BlockKeeps ==
    ASSUME IInv, Block
    PROVE  IInv'
<1>1. /\ UNCHANGED <<now, mMessages, mQuiting, mNextBarrierToken, mIdleHandlers, wake,
                     caller, posts, done, standing>>
      /\ mBlocked' = TRUE /\ ~mQuiting /\ ToPoll(Timeout, IdleCount)
  BY DEF Block, NothingDue
<1>2. LooperOK' /\ looper'.deadline = Timeout
  <2>1. PICK deadline \in Times \cup {Forever}, count \in -1 .. Cardinality(Idlers) :
          deadline = Timeout /\ count = IdleCount
    BY TimeoutTyped
  <2> QED
    BY <1>1, <2>1, ToPollIs, Typed
<1>3. ListOK' /\ CallersOK'
  BY <1>1, ListStays, CallersStay, Typed
<1>4. CountersOK' /\ FlagsOK'
  BY <1>1, Typed DEF CountersOK, FlagsOK
<1>5. NoLostWakeup'
  <2>1. NextMessage' = NextMessage
    BY <1>1, NextMessageIs
  <2>2. NextMessage # 0 => /\ looper'.deadline # Forever
                           /\ looper'.deadline <= mMessages'[NextMessage].when
    BY <1>1, <1>2, TimeoutTyped
  <2> QED
    BY <1>1, <2>1, <2>2 DEF NoLostWakeup
<1> QED
  BY <1>2, <1>3, <1>4, <1>5 DEF IInv

LEMMA StartIdleKeeps ==
    ASSUME IInv, StartIdle
    PROVE  IInv'
<1>1. /\ UNCHANGED <<now, mMessages, mBlocked, mQuiting, mNextBarrierToken, mIdleHandlers,
                     wake, caller, posts, done, standing>>
      /\ looper' = [looper EXCEPT !.pc = "idle", !.deadline = Timeout,
                                  !.idleCount = IdleCount, !.idlers = mIdleHandlers]
  BY DEF StartIdle
<1>2. PICK r \in Loopers : r = looper
  BY LooperTyped, Typed
<1>3. PICK deadline \in Times \cup {Forever}, count \in -1 .. Cardinality(Idlers) :
        deadline = Timeout /\ count = IdleCount
  BY TimeoutTyped
<1>4. mIdleHandlers \in SUBSET Idlers
  BY Typed DEF FlagsOK
<1>5. looper' \in Loopers /\ looper'.pc = "idle" /\ looper'.msg = looper.msg
  BY <1>1, <1>2, <1>3, <1>4 DEF Loopers
<1>6. LooperOK'
  BY <1>1, <1>5, LooperGoes, Typed
<1>7. ListOK' /\ CallersOK'
  BY <1>1, ListStays, CallersStay, Typed
<1>8. CountersOK' /\ FlagsOK'
  BY <1>1, Typed DEF CountersOK, FlagsOK
<1>9. NoLostWakeup'
  BY <1>5, AboutToWake
<1> QED
  BY <1>6, <1>7, <1>8, <1>9 DEF IInv

LEMMA RunIdlerKeeps ==
    ASSUME IInv, RunIdler
    PROVE  IInv'
<1>1. /\ UNCHANGED <<now, mMessages, mBlocked, mQuiting, mNextBarrierToken, wake, caller,
                     posts, done, standing>>
      /\ looper.pc = "idle" /\ mIdleHandlers' \subseteq mIdleHandlers
  BY DEF RunIdler
<1>2. PICK i : looper' = [looper EXCEPT !.idlers = @ \ {i}]
  BY DEF RunIdler
<1>3. PICK r \in Loopers : r = looper
  BY LooperTyped, Typed
<1>4. looper' \in Loopers /\ looper'.pc = "idle" /\ looper'.msg = looper.msg
  BY <1>1, <1>2, <1>3 DEF Loopers
<1>5. LooperOK'
  BY <1>1, <1>4, LooperGoes, Typed
<1>6. ListOK' /\ CallersOK'
  BY <1>1, ListStays, CallersStay, Typed
<1>7. CountersOK' /\ FlagsOK'
  BY <1>1, Typed DEF CountersOK, FlagsOK
<1>8. NoLostWakeup'
  BY <1>4, AboutToWake
<1> QED
  BY <1>5, <1>6, <1>7, <1>8 DEF IInv

(* A poll that ends at once may not lose anything.                         *)
LEMMA PollsAtOnce ==
    ASSUME IInv, UNCHANGED <<now, mMessages, mQuiting>>, looper'.deadline = 0
    PROVE  NoLostWakeup'
<1>1. now \in Nat /\ 0 # Forever
  BY Typed, MessagesAssumption
<1>2. looper'.deadline <= now' /\ looper'.deadline # Forever
  BY <1>1
<1> QED
  BY <1>2 DEF NoLostWakeup

LEMMA EndIdleKeeps ==
    ASSUME IInv, EndIdle
    PROVE  IInv'
<1>1. /\ UNCHANGED <<now, mMessages, mBlocked, mQuiting, mNextBarrierToken, mIdleHandlers,
                     wake, caller, posts, done, standing>>
      /\ ToPoll(0, 0)
  BY DEF EndIdle
<1>2. LooperOK' /\ looper'.deadline = 0
  <2>1. 0 \in -1 .. Cardinality(Idlers)
    BY FS_CardinalityType, MessagesAssumption
  <2> QED
    BY <1>1, <2>1, ToPollIs, Typed
<1>3. ListOK' /\ CallersOK'
  BY <1>1, ListStays, CallersStay, Typed
<1>4. CountersOK' /\ FlagsOK'
  BY <1>1, Typed DEF CountersOK, FlagsOK
<1>5. NoLostWakeup'
  BY <1>1, <1>2, PollsAtOnce
<1> QED
  BY <1>2, <1>3, <1>4, <1>5 DEF IInv

LEMMA DispatchKeeps ==
    ASSUME IInv, Dispatch
    PROVE  IInv'
<1>1. /\ UNCHANGED <<now, mMessages, mBlocked, mQuiting, mNextBarrierToken, mIdleHandlers,
                     wake, caller, posts, standing>>
      /\ looper.pc = "dispatch" /\ ToPoll(0, -1)
      /\ done' \subseteq done \cup {looper.msg.id}
  BY DEF Dispatch
<1>2. LooperOK' /\ looper'.deadline = 0
  <2>1. -1 \in -1 .. Cardinality(Idlers)
    BY FS_CardinalityType, MessagesAssumption
  <2> QED
    BY <1>1, <2>1, ToPollIs, Typed
<1>3. looper.msg.id \in 1 .. posts
  BY <1>1, Typed DEF LooperOK
<1>4. CallersOK'
  BY <1>1, <1>3, Typed DEF CallersOK
<1>5. ListOK'
  BY <1>1, ListStays, Typed
<1>6. CountersOK' /\ FlagsOK'
  BY <1>1, Typed DEF CountersOK, FlagsOK
<1>7. NoLostWakeup'
  BY <1>1, <1>2, PollsAtOnce
<1> QED
  BY <1>2, <1>4, <1>5, <1>6, <1>7 DEF IInv

LEMMA LooperStepKeeps ==
    ASSUME IInv, LooperStep
    PROVE  IInv'
BY PollReturnsKeeps, LoopEndsKeeps, TakeMessageKeeps, BlockKeeps, StartIdleKeeps,
   RunIdlerKeeps, EndIdleKeeps, DispatchKeeps DEF LooperStep

LEMMA TickKeeps ==
    ASSUME IInv, Tick
    PROVE  IInv'
<1>1. /\ UNCHANGED <<mMessages, mBlocked, mQuiting, mNextBarrierToken, mIdleHandlers, wake,
                     looper, caller, posts, done, standing>>
      /\ now' = now + 1 /\ now < MaxTime /\ MaxTime \in Nat
  BY MessagesAssumption DEF Tick
<1>2. ListOK' /\ LooperOK' /\ CallersOK'
  BY <1>1, ListStays, LooperStays, CallersStay, Typed
<1>3. CountersOK' /\ FlagsOK'
  <2>1. now' \in Times
    BY <1>1, Typed DEF Times
  <2> QED
    BY <1>1, <2>1, Typed DEF CountersOK, FlagsOK
<1>4. NoLostWakeup'
  <2>1. NextMessage' = NextMessage
    BY <1>1, NextMessageIs
  <2>2. looper.deadline \in Nat \cup {Forever} /\ now \in Nat
    BY LooperTyped, Typed, MessagesAssumption DEF Times
  <2>3. looper.deadline # Forever /\ looper.deadline <= now => looper.deadline <= now'
    BY <1>1, <2>2
  <2> QED
    BY <1>1, <2>1, <2>3 DEF IInv, NoLostWakeup
<1> QED
  BY <1>2, <1>3, <1>4 DEF IInv
-----------------------------------------------------------------------------
LEMMA InitIInv ==
    ASSUME Init
    PROVE  IInv
<1>1. ListOK
  <2>1. mMessages = <<>>
    BY DEF Init
  <2>2. Queued = {}
    BY <2>1 DEF Queued, Range
  <2> QED
    BY <2>1, <2>2 DEF ListOK, InOrder
<1>2. CountersOK
  BY MessagesAssumption DEF Init, CountersOK, Times
<1>3. LooperOK
  <2>1. Cardinality(Idlers) \in Nat /\ 0 \in Times
    BY FS_CardinalityType, MessagesAssumption DEF Times
  <2> QED
    BY <2>1 DEF Init, LooperOK
<1>4. CallersOK
  BY DEF Init, CallersOK, Idle
<1>5. FlagsOK
  BY DEF Init, FlagsOK
<1>6. NoLostWakeup
  <2>1. NextMessage = 0
    BY DEF Init, NextMessage
  <2> QED
    BY <2>1 DEF Init, NoLostWakeup
<1> QED
  BY <1>1, <1>2, <1>3, <1>4, <1>5, <1>6 DEF IInv

LEMMA NextIInv ==
    ASSUME IInv, [Next]_vars
    PROVE  IInv'
<1>1. CASE LooperStep
  BY <1>1, LooperStepKeeps
<1>2. CASE Tick
  BY <1>2, TickKeeps
<1>3. CASE \E t \in Threads : ThreadStep(t)
  BY <1>3, ThreadStepKeeps
<1>4. CASE UNCHANGED vars
  <2>1. UNCHANGED <<now, mMessages, mBlocked, mQuiting, mNextBarrierToken, mIdleHandlers,
                    wake, looper, caller, posts, done, standing>>
    BY <1>4 DEF vars
  <2>2. ListOK' /\ LooperOK' /\ CallersOK'
    BY <2>1, ListStays, LooperStays, CallersStay, Typed
  <2>3. CountersOK' /\ FlagsOK'
    BY <2>1, Typed DEF CountersOK, FlagsOK
  <2>4. NoLostWakeup'
    BY <2>1, SameList
  <2> QED
    BY <2>2, <2>3, <2>4 DEF IInv
<1> QED
  BY <1>1, <1>2, <1>3, <1>4 DEF Next

(* The inductive invariant holds in every state.                           *)
THEOREM Invariance == Spec => []IInv
<1>1. Init => IInv
  BY InitIInv
<1>2. IInv /\ [Next]_vars => IInv'
  BY NextIInv
<1> QED
  BY <1>1, <1>2, PTL DEF Spec

(* The variables of the queue, of its Looper and of the threads keep their *)
(* types, however many threads, messages and barriers there are.           *)
THEOREM TypeCorrect == Spec => []TypeOK
<1>1. ASSUME IInv
      PROVE  TypeOK
  <2>1. /\ \A e \in Queued : e.id \in 1 .. posts /\ e.when \in Times /\ e.since \in Times
    <3>1. ASSUME NEW e \in Queued
          PROVE  e.id \in 1 .. posts /\ e \in Entries
      <4>1. mMessages \in Seq(Entries) /\ EntryOK(e)
        BY <1>1, Typed DEF ListOK
      <4>2. e \in Entries
        BY <4>1 DEF Queued, Range
      <4> QED
        BY <4>1, <4>2 DEF EntryOK
    <3> QED
      BY <3>1, EntryFields
  <2>2. /\ now \in Times /\ mNextBarrierToken \in 0 .. MaxBarriers
        /\ standing \subseteq 0 .. mNextBarrierToken - 1
    BY <1>1, Typed DEF CountersOK
  <2>3. posts \in 0 .. MaxPosts + MaxBarriers
    <3>1. PICK token \in 0 .. MaxBarriers :
            token = mNextBarrierToken /\ posts - token \in 0 .. MaxPosts
      BY <1>1, Typed DEF CountersOK
    <3> QED
      BY <1>1, <3>1, Typed, MessagesAssumption
  <2>4. /\ looper.pc \in {"poll", "look", "idle", "dispatch", "exited"}
        /\ looper.deadline \in Times \cup {Forever}
        /\ looper.idleCount \in -1 .. Cardinality(Idlers)
        /\ looper.idlers \subseteq Idlers
        /\ looper.msg # None => looper.msg.id \in 1 .. posts
    BY <1>1, Typed DEF LooperOK
  <2>5. ASSUME NEW t \in Threads
        PROVE  /\ caller[t].pc \in {"idle", "wake", "wait"}
               /\ caller[t].task \in 0 .. posts
    <3>1. /\ caller[t].pc \in {"idle", "wake", "wait"}
          /\ caller[t].task \in Nat /\ caller[t].task <= posts /\ posts \in Nat
      BY <1>1, Typed DEF CallersOK
    <3> QED
      BY <3>1
  <2>6. /\ mBlocked \in BOOLEAN /\ mQuiting \in BOOLEAN /\ wake \in BOOLEAN
        /\ mIdleHandlers \subseteq Idlers /\ done \subseteq 1 .. posts
    BY <1>1, Typed DEF FlagsOK, CallersOK
  <2> QED
    BY <2>1, <2>2, <2>3, <2>4, <2>5, <2>6 DEF TypeOK
<1> QED
  BY <1>1, Invariance, PTL

(* The Looper never sleeps past a message that is due and not stalled, nor *)
(* through Quit, although the threads decide to wake it from mBlocked and  *)
(* the head of the list alone, and most removals do not wake it at all.    *)
THEOREM WakeupNotLost == Spec => []NoLostWakeup
<1>1. IInv => NoLostWakeup
  BY DEF IInv
<1> QED
  BY <1>1, Invariance, PTL

(* Messages stay in the order of their times and, for the same time, in    *)
(* that in which they were sent, whatever barriers stand between them.     *)
THEOREM ListStaysOrdered == Spec => []QueueOrder
<1>1. ASSUME IInv
      PROVE  QueueOrder
  <2>1. InOrder(mMessages)
    BY <1>1, Typed DEF ListOK
  <2>2. ASSUME NEW i \in 1 .. Len(mMessages), NEW j \in 1 .. Len(mMessages), i < j,
               ~IsBarrier(mMessages[i]), ~IsBarrier(mMessages[j])
        PROVE  InTime(mMessages[i], mMessages[j])
    BY <2>1, <2>2 DEF InOrder, Follows
  <2> QED
    BY <2>2 DEF QueueOrder, InTime
<1> QED
  BY <1>1, Invariance, PTL

(* No synchronous message gets past a barrier, but one that was due when   *)
(* the barrier was posted or that was sent to the front of the queue: what *)
(* GetNext takes is the head, and the barrier stands behind it.            *)
THEOREM BarriersHold == Spec => BarrierHolds
<1> DEFINE Held == \A b \in Queued :
         (IsBarrier(b) /\ looper.pc = "look" /\ looper'.pc = "dispatch"
            /\ ~IsAsync(looper'.msg)) =>
             \/ looper'.msg.when < b.since
             \/ looper'.msg.when = b.since /\ looper'.msg.id < b.id
<1>1. ASSUME IInv, [Next]_vars, NEW b \in Queued, IsBarrier(b),
             looper.pc = "look", looper'.pc = "dispatch", ~IsAsync(looper'.msg)
      PROVE  DueBefore(looper'.msg, b)
  <2>1. TakeMessage
    <3>1. looper' # looper /\ LooperOK
      BY <1>1, Typed
    <3>2. LooperStep
      BY <1>1, <3>1 DEF Next, vars, Tick, ThreadStep, EnqueueMessage, NativeWake,
         WaitReturns, Quit, EnqueueSyncBarrier, RemoveSyncBarrier, RemoveEntries,
         RemoveMessages, RemoveMessagesEx, RemoveCallbacksAndMessages,
         AddIdleHandler, RemoveIdleHandler
    <3>3. PICK r \in Loopers : r = looper
      BY <3>1, LooperTyped
    <3> QED
      BY <1>1, <3>2, <3>3 DEF LooperStep, PollReturns, LoopEnds, Block, StartIdle, RunIdler,
         EndIdle, Dispatch, ToPoll, NothingDue, Loopers
  <2>2. /\ mMessages \in Seq(Entries) /\ Len(mMessages) \in Nat /\ InOrder(mMessages)
    BY <1>1, Typed DEF ListOK
  <2>3. PICK k \in 1 .. Len(mMessages) :
          /\ k = NextIn(mMessages) /\ looper'.msg = mMessages[k]
    <3>1. NextIn(mMessages) \in 0 .. Len(mMessages)
      BY <2>2, NextInIs
    <3>2. PICK k \in 0 .. Len(mMessages) : k = NextMessage /\ k = NextIn(mMessages)
      BY <3>1, NextMessageIs
    <3>3. k # 0 /\ looper' = [looper EXCEPT !.pc = "dispatch", !.msg = mMessages[k]]
      BY <2>1, <3>2 DEF TakeMessage
    <3>4. PICK r \in Loopers : r = looper
      BY <1>1, LooperTyped, Typed
    <3>5. looper'.msg = mMessages[k]
      BY <3>3, <3>4 DEF Loopers
    <3> QED
      BY <2>2, <3>2, <3>3, <3>5
  <2>4. PICK j \in 1 .. Len(mMessages) : b = mMessages[j]
    BY <2>2 DEF Queued, Range
  <2>5. ~IsBarrier(mMessages[k])
    BY <2>2, <2>3, NextInIs
  <2>6. ~IsBarrier(mMessages[1])
    BY <1>1, <2>2, <2>3, NextInIs
  <2>7. k = 1
    BY <2>2, <2>3, <2>6, NextInIs
  <2>8. k < j
    BY <1>1, <2>4, <2>5, <2>7
  <2> QED
    BY <1>1, <2>2, <2>3, <2>4, <2>5, <2>8 DEF InOrder, Follows
<1>2. IInv /\ [Next]_vars => Held
  BY <1>1 DEF DueBefore
<1>3. IInv /\ [Next]_vars => [Held]_vars
  BY <1>2
<1> QED
  BY <1>3, Invariance, PTL DEF Spec, BarrierHolds
=============================================================================

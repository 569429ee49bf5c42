---------------------------- MODULE MessageQueue ----------------------------
(***************************************************************************)
(* The message queue of a Looper thread (CMessageQueue), with the Looper   *)
(* that empties it and the Handlers whose threads fill it.                 *)
(*                                                                         *)
(* Everything under mLock is one action.  What the code does outside of    *)
(* it is a step of its own: the wake-up after the lock is released, the    *)
(* poll on the pipe, the idle handlers, the dispatch of a message, and the *)
(* wait of a thread that runs a task with scissors.  mBlocked tells the    *)
(* threads whether a wake-up is needed: it is read under the lock, and the *)
(* wake-up itself comes later.                                             *)
(*                                                                         *)
(* Abstracted: a message is a record, the list of messages a sequence, and *)
(* the reuse of messages through CMessage's pool is left out (a message    *)
(* goes back to it when nothing else holds it).  The clock advances by     *)
(* Tick; a timeout of the poll is kept as the time at which it ends.       *)
(***************************************************************************)
EXTENDS Integers, Sequences, FiniteSets, SequencesExt, Lists

CONSTANTS
    Threads,      \* the threads that use Handlers of this queue
    Payloads,     \* the messages they send, without their time
    Idlers,       \* idle handlers
    NoTarget,     \* the NULL target of a barrier
    None,         \* a NULL callback or object
    Scissors,     \* the callback of a message sent by RunWithScissors
    Forever,      \* a poll or a wait without timeout
    MaxTime,      \* bound: the clock stops here
    MaxPosts,     \* bound: messages sent
    MaxBarriers   \* bound: barriers posted

\* A message has a Handler, a time is never Forever, and the clock has started.
ASSUME MessagesAssumption ==
    /\ \A p \in Payloads : p.target # NoTarget /\ p.async \in BOOLEAN
    /\ IsFiniteSet(Idlers)
    /\ Forever \notin Int
    /\ MaxTime \in Nat \ {0} /\ MaxPosts \in Nat /\ MaxBarriers \in Nat

VARIABLES
    now,               \* SystemClock::GetUptimeMillis
    mMessages,         \* the list of messages and barriers
    mBlocked, mQuiting, mNextBarrierToken, mIdleHandlers,
    wake,              \* a byte is in the pipe of the native looper
    looper,            \* the Looper thread: its pc and the locals of GetNext
    caller,            \* each other thread: its pc and the task it waits for
    posts,             \* how many messages were sent: the next one's identity
    done,              \* the tasks whose mDone is set, while a sender waits for them
    standing           \* tokens of the barriers posted and not yet released

vars == <<now, mMessages, mBlocked, mQuiting, mNextBarrierToken, mIdleHandlers,
          wake, looper, caller, posts, done, standing>>

(***************************************************************************)
(* A message in the list.  id and since are history, for the properties:   *)
(* its rank among everything that was ever put in the list, and the time   *)
(* for which it was sent or posted (a barrier's own when is never set).    *)
(***************************************************************************)
Entry(p, w) == [payload |-> p, when |-> IF p.target = NoTarget THEN 0 ELSE w,
                since |-> w, id |-> posts + 1]

BarrierPayload(token) ==
    [target |-> NoTarget, what |-> 0, callback |-> None, obj |-> None,
     arg1 |-> token, async |-> FALSE]

IsBarrier(e) == e.payload.target = NoTarget
IsAsync(e) == e.payload.async
Queued == Range(mMessages)
Times == 0 .. MaxTime

Idle == [pc |-> "idle", task |-> 0, timeout |-> 0, until |-> Forever]

Init ==
    /\ now = 1
    /\ mMessages = <<>>
    /\ mBlocked = FALSE
    /\ mQuiting = FALSE
    /\ mNextBarrierToken = 0
    /\ mIdleHandlers = {}
    /\ wake = FALSE
    /\ looper = [pc |-> "poll", deadline |-> 0, idleCount |-> -1,
                 idlers |-> {}, msg |-> None]
    /\ caller = [t \in Threads |-> Idle]
    /\ posts = 0
    /\ done = {}
    /\ standing = {}

-----------------------------------------------------------------------------
(***************************************************************************)
(* Putting messages in the list.                                           *)
(***************************************************************************)

\* Mutant: a message goes before those of the same time.
InsertAfterEarlier(w) ==
    LET later == SelectInSeq(mMessages, LAMBDA e : w <= e.when)
    IN IF later = 0 THEN Len(mMessages) ELSE later - 1

\* How many messages stay before one for time w: a new head, or after every
\* message that is not later.  A barrier's own time is never set and stays 0.
InsertAfter(w) ==
    IF \/ mMessages = <<>>
       \/ w = 0
       \/ w < Head(mMessages).when
    THEN 0
    ELSE LET later == SelectInSubSeq(mMessages, 2, Len(mMessages),
                                     LAMBDA e : w < e.when)
         IN IF later = 0 THEN Len(mMessages) ELSE later - 1

\* Mutant: only a new head wakes the Looper up.
NeedWakeForHead(p, n) == mBlocked /\ n = 0

\* Whether the Looper must be woken up for a message put after n others: it is
\* the new head, or the first asynchronous one behind a barrier at the head.
NeedWake(p, n) ==
    /\ mBlocked
    /\ n > 0 => /\ IsBarrier(Head(mMessages))
                /\ p.async
                /\ \A i \in 2 .. n : ~IsAsync(mMessages[i])

\* What a thread does once it has released the lock.  The timeout of PostAndWait
\* counts from the moment it starts to wait; 0 means none.
Leave(t, needWake, task, timeout) ==
    caller' = [caller EXCEPT ![t] =
        [pc |-> IF needWake THEN "wake" ELSE IF task # 0 THEN "wait" ELSE "idle",
         task |-> task, timeout |-> timeout,
         until |-> IF needWake \/ timeout = 0 THEN Forever ELSE now + timeout]]

\* Handler::SendMessageAtTime and its relatives (w = 0 sends to the front of the
\* queue), and RunWithScissors, whose task the sender waits for and whose time was
\* read before the lock.  Once the queue quits the answer is FALSE and nothing
\* changes.
EnqueueMessage(t, p, w, timeout) ==
    /\ caller[t].pc = "idle"
    /\ posts - mNextBarrierToken < MaxPosts
    /\ ~mQuiting
    /\ IF p.callback = Scissors THEN w \in 1 .. now ELSE timeout = 0
    /\ LET n == InsertAfter(w) IN
         /\ mMessages' = InsertAt(mMessages, n + 1, Entry(p, w))
         /\ Leave(t, NeedWake(p, n),
                  IF p.callback = Scissors THEN posts + 1 ELSE 0, timeout)
    /\ posts' = posts + 1
    /\ UNCHANGED <<now, mBlocked, mQuiting, mNextBarrierToken, mIdleHandlers,
                   wake, looper, done, standing>>

\* NativeWake, after the lock.
NativeWake(t) ==
    /\ caller[t].pc = "wake"
    /\ wake' = TRUE
    /\ Leave(t, FALSE, caller[t].task, caller[t].timeout)
    /\ UNCHANGED <<now, mMessages, mBlocked, mQuiting, mNextBarrierToken,
                   mIdleHandlers, looper, posts, done, standing>>

\* PostAndWait comes back: with TRUE when the task has run, with FALSE when its
\* timeout has passed first.
WaitReturns(t) ==
    /\ caller[t].pc = "wait"
    /\ \/ caller[t].task \in done
       \/ caller[t].until # Forever /\ caller[t].until <= now
    /\ caller' = [caller EXCEPT ![t] = Idle]
    /\ done' = done \ {caller[t].task}
    /\ UNCHANGED <<now, mMessages, mBlocked, mQuiting, mNextBarrierToken,
                   mIdleHandlers, wake, looper, posts, standing>>

Quit(t) ==
    /\ caller[t].pc = "idle"
    /\ ~mQuiting
    /\ mQuiting' = TRUE
    /\ Leave(t, TRUE, 0, 0)
    /\ UNCHANGED <<now, mMessages, mBlocked, mNextBarrierToken, mIdleHandlers,
                   wake, looper, posts, done, standing>>

\* Mutant: the next token stays the same.
EnqueueSyncBarrierSameToken(t, w) ==
    /\ caller[t].pc = "idle"
    /\ mMessages' = Append(mMessages, Entry(BarrierPayload(mNextBarrierToken), w))
    /\ standing' = standing \cup {mNextBarrierToken}
    /\ posts' = posts + 1
    /\ UNCHANGED <<now, mBlocked, mQuiting, mNextBarrierToken, mIdleHandlers,
                   wake, looper, caller, done>>

\* Looper::PostSyncBarrier: after every message that was due at time w, which was
\* read before the lock, and without a wake-up.
EnqueueSyncBarrier(t, w) ==
    /\ caller[t].pc = "idle"
    /\ mNextBarrierToken < MaxBarriers
    /\ LET later == SelectInSeq(mMessages, LAMBDA e : w < e.when)
           n == IF later = 0 THEN Len(mMessages) ELSE later - 1
       IN mMessages' = InsertAt(mMessages, n + 1,
                                Entry(BarrierPayload(mNextBarrierToken), w))
    /\ standing' = standing \cup {mNextBarrierToken}
    /\ mNextBarrierToken' = mNextBarrierToken + 1
    /\ posts' = posts + 1
    /\ UNCHANGED <<now, mBlocked, mQuiting, mIdleHandlers, wake, looper, caller,
                   done>>

-----------------------------------------------------------------------------
(***************************************************************************)
(* Taking messages out of the list, by other threads than the Looper.      *)
(***************************************************************************)

\* The loop of RemoveSyncBarrier stops at a barrier, whichever, or at a message
\* whose arg1 happens to be the token.
Removed(token) ==
    SelectInSeq(mMessages, LAMBDA e : IsBarrier(e) \/ e.payload.arg1 = token)

RemoveSyncBarrier(t, token) ==
    /\ caller[t].pc = "idle"
    /\ token \in standing
    /\ standing' = standing \ {token}
    /\ LET i == Removed(token)
           rest == RemoveAt(mMessages, i)
       IN IF i = 0       \* E_ILLEGAL_STATE_EXCEPTION
          THEN UNCHANGED <<mMessages, caller>>
          ELSE /\ mMessages' = rest
               /\ Leave(t, i = 1 /\ (rest # <<>> => ~IsBarrier(Head(rest))), 0, 0)
    /\ UNCHANGED <<now, mBlocked, mQuiting, mNextBarrierToken, mIdleHandlers,
                   wake, looper, posts, done>>

\* What the three removals have in common: no wake-up, even when the head goes.
RemoveEntries(t, entries) ==
    /\ caller[t].pc = "idle"
    /\ mMessages' = Without(mMessages, entries)
    /\ UNCHANGED <<now, mBlocked, mQuiting, mNextBarrierToken, mIdleHandlers,
                   wake, looper, caller, posts, done, standing>>

\* The entries for a Handler and an object; None stands for any object.
EntriesOf(h, obj) ==
    {e \in Queued : e.payload.target = h /\ (obj # None => e.payload.obj = obj)}

RemoveMessages(t, h, what, obj) ==
    RemoveEntries(t, {e \in EntriesOf(h, obj) : e.payload.what = what})

RemoveMessagesEx(t, h, r, obj) ==
    RemoveEntries(t, {e \in EntriesOf(h, obj) : e.payload.callback = r})

RemoveCallbacksAndMessages(t, h, obj) == RemoveEntries(t, EntriesOf(h, obj))

\* A handler is in the list at most once.
AddIdleHandler(t, i) ==
    /\ caller[t].pc = "idle"
    /\ i \notin mIdleHandlers
    /\ mIdleHandlers' = mIdleHandlers \cup {i}
    /\ UNCHANGED <<now, mMessages, mBlocked, mQuiting, mNextBarrierToken, wake,
                   looper, caller, posts, done, standing>>

RemoveIdleHandler(t, i) ==
    /\ caller[t].pc = "idle"
    /\ i \in mIdleHandlers
    /\ mIdleHandlers' = mIdleHandlers \ {i}
    /\ UNCHANGED <<now, mMessages, mBlocked, mQuiting, mNextBarrierToken, wake,
                   looper, caller, posts, done, standing>>

-----------------------------------------------------------------------------
(***************************************************************************)
(* The Looper thread: GetNext and Loop.                                    *)
(***************************************************************************)
ToPoll(deadline, count) ==
    looper' = [looper EXCEPT !.pc = "poll", !.deadline = deadline,
                             !.idleCount = count, !.idlers = {}, !.msg = None]

\* NativePollOnce returns on a wake-up, which it takes from the pipe, or when
\* its timeout has passed.
PollReturns ==
    /\ looper.pc = "poll"
    /\ wake \/ (looper.deadline # Forever /\ looper.deadline <= now)
    /\ wake' = FALSE
    /\ looper' = [looper EXCEPT !.pc = "look", !.deadline = 0]
    /\ UNCHANGED <<now, mMessages, mBlocked, mQuiting, mNextBarrierToken,
                   mIdleHandlers, caller, posts, done, standing>>

\* No message: Loop ends.
LoopEnds ==
    /\ looper.pc = "look"
    /\ mQuiting
    /\ looper' = [looper EXCEPT !.pc = "exited"]
    /\ UNCHANGED <<now, mMessages, mBlocked, mQuiting, mNextBarrierToken,
                   mIdleHandlers, wake, caller, posts, done, standing>>

\* Mutant: a barrier is passed over.
NextMessageAny == SelectInSeq(mMessages, LAMBDA e : ~IsBarrier(e))

\* The place of the message that is next, 0 when there is none: the head, or the
\* first asynchronous message when a barrier is at the head.
NextMessage ==
    IF mMessages = <<>> THEN 0
    ELSE IF ~IsBarrier(Head(mMessages)) THEN 1
    ELSE SelectInSeq(mMessages, IsAsync)

TakeMessage ==
    /\ looper.pc = "look"
    /\ ~mQuiting
    /\ NextMessage # 0
    /\ mMessages[NextMessage].when <= now
    /\ mBlocked' = FALSE
    /\ mMessages' = RemoveAt(mMessages, NextMessage)
    /\ looper' = [looper EXCEPT !.pc = "dispatch", !.msg = mMessages[NextMessage]]
    /\ UNCHANGED <<now, mQuiting, mNextBarrierToken, mIdleHandlers, wake, caller,
                   posts, done, standing>>

\* When to look again without a wake-up.
Timeout == IF NextMessage = 0 THEN Forever ELSE mMessages[NextMessage].when

NothingDue ==
    /\ looper.pc = "look"
    /\ ~mQuiting
    /\ NextMessage # 0 => now < mMessages[NextMessage].when

\* How many idle handlers to run: they are counted once per GetNext, and only
\* when the list is empty or its head is not due.
IdleCount ==
    IF /\ looper.idleCount < 0
       /\ mMessages # <<>> => now < Head(mMessages).when
    THEN Cardinality(mIdleHandlers) ELSE looper.idleCount

Block ==
    /\ NothingDue
    /\ IdleCount <= 0
    /\ mBlocked' = TRUE
    /\ ToPoll(Timeout, IdleCount)
    /\ UNCHANGED <<now, mMessages, mQuiting, mNextBarrierToken, mIdleHandlers,
                   wake, caller, posts, done, standing>>

StartIdle ==
    /\ NothingDue
    /\ IdleCount > 0
    /\ looper' = [looper EXCEPT !.pc = "idle", !.deadline = Timeout,
                                !.idleCount = IdleCount, !.idlers = mIdleHandlers]
    /\ UNCHANGED <<now, mMessages, mBlocked, mQuiting, mNextBarrierToken,
                   mIdleHandlers, wake, caller, posts, done, standing>>

\* QueueIdle of one handler, which is removed unless it asks to be kept.
RunIdler ==
    /\ looper.pc = "idle"
    /\ \E i \in looper.idlers, keep \in BOOLEAN :
         /\ mIdleHandlers' = IF keep THEN mIdleHandlers ELSE mIdleHandlers \ {i}
         /\ looper' = [looper EXCEPT !.idlers = @ \ {i}]
    /\ UNCHANGED <<now, mMessages, mBlocked, mQuiting, mNextBarrierToken, wake,
                   caller, posts, done, standing>>

\* Mutant: the timeout computed before the idle handlers is not reset.
EndIdleKeepsTimeout ==
    /\ looper.pc = "idle"
    /\ looper.idlers = {}
    /\ ToPoll(looper.deadline, 0)
    /\ UNCHANGED <<now, mMessages, mBlocked, mQuiting, mNextBarrierToken,
                   mIdleHandlers, wake, caller, posts, done, standing>>

\* After the idle handlers: look again at once, and do not run them again.
EndIdle ==
    /\ looper.pc = "idle"
    /\ looper.idlers = {}
    /\ ToPoll(0, 0)
    /\ UNCHANGED <<now, mMessages, mBlocked, mQuiting, mNextBarrierToken,
                   mIdleHandlers, wake, caller, posts, done, standing>>

\* DispatchMessage; a BlockingRunnable tells its sender that it has run.  Then
\* Loop calls GetNext again.
Dispatch ==
    /\ looper.pc = "dispatch"
    /\ done' = done \cup {caller[t].task : t \in {u \in Threads :
                                    caller[u].task = looper.msg.id}}
    /\ ToPoll(0, -1)
    /\ UNCHANGED <<now, mMessages, mBlocked, mQuiting, mNextBarrierToken,
                   mIdleHandlers, wake, caller, posts, standing>>

Tick ==
    /\ now < MaxTime
    /\ now' = now + 1
    /\ UNCHANGED <<mMessages, mBlocked, mQuiting, mNextBarrierToken,
                   mIdleHandlers, wake, looper, caller, posts, done, standing>>

LooperStep ==
    \/ PollReturns \/ LoopEnds \/ TakeMessage \/ Block
    \/ StartIdle \/ RunIdler \/ EndIdle \/ Dispatch

Targets == {p.target : p \in Payloads}

ThreadStep(t) ==
    \/ \E p \in Payloads, w \in Times, timeout \in 0 .. 1 :
           EnqueueMessage(t, p, w, timeout)
    \/ NativeWake(t) \/ WaitReturns(t) \/ Quit(t)
    \/ \E w \in 1 .. now : EnqueueSyncBarrier(t, w)
    \/ \E token \in standing : RemoveSyncBarrier(t, token)
    \/ \E h \in Targets, p \in Payloads : \E obj \in {None, p.obj} :
           \/ RemoveMessages(t, h, p.what, obj)
           \/ /\ p.callback \notin {None, Scissors}
              /\ RemoveMessagesEx(t, h, p.callback, obj)
           \/ RemoveCallbacksAndMessages(t, h, obj)
    \/ \E i \in Idlers : AddIdleHandler(t, i) \/ RemoveIdleHandler(t, i)

Next == LooperStep \/ Tick \/ \E t \in Threads : ThreadStep(t)

Spec == Init /\ [][Next]_vars

\* The Looper runs, a thread that has released the lock goes on, time passes.
LiveSpec ==
    /\ Spec
    /\ WF_vars(LooperStep)
    /\ \A t \in Threads : WF_vars(NativeWake(t)) /\ WF_vars(WaitReturns(t))
    /\ WF_vars(Tick)

-----------------------------------------------------------------------------
(* What must hold. *)

\* The variables stay in range; ids are those of what was put in the list.
TypeOK ==
    /\ now \in Times
    /\ \A e \in Queued : e.id \in 1 .. posts /\ e.when \in Times /\ e.since \in Times
    /\ mBlocked \in BOOLEAN /\ mQuiting \in BOOLEAN /\ wake \in BOOLEAN
    /\ mNextBarrierToken \in 0 .. MaxBarriers
    /\ mIdleHandlers \subseteq Idlers
    /\ looper.pc \in {"poll", "look", "idle", "dispatch", "exited"}
    /\ looper.deadline \in Times \cup {Forever}
    /\ looper.idleCount \in -1 .. Cardinality(Idlers)
    /\ looper.idlers \subseteq Idlers
    /\ looper.msg # None => looper.msg.id \in 1 .. posts
    /\ \A t \in Threads : /\ caller[t].pc \in {"idle", "wake", "wait"}
                          /\ caller[t].task \in 0 .. posts
    /\ posts \in 0 .. MaxPosts + MaxBarriers
    /\ done \subseteq 1 .. posts
    /\ standing \subseteq 0 .. mNextBarrierToken - 1

\* No wake-up is lost: while the Looper sleeps and nobody is about to wake it,
\* it sleeps no longer than until the next message that it may take, and it does
\* not sleep through Quit.  The threads decide under mLock, from mBlocked and
\* the list alone, and the idle handlers run with mBlocked false.
NoLostWakeup ==
    looper.pc = "poll" /\ ~wake /\ (\A t \in Threads : caller[t].pc # "wake") =>
        LET endsBy(time) == looper.deadline # Forever
                            /\ (looper.deadline <= now \/ looper.deadline <= time)
        IN /\ mQuiting => endsBy(now)
           /\ NextMessage # 0 => endsBy(mMessages[NextMessage].when)

\* The list is in the order of the times, messages for the same time in the order
\* in which they were sent, those sent to the front in the reverse order, whatever
\* barriers, whose time is 0, stand between them.
QueueOrder ==
    \A i, j \in 1 .. Len(mMessages) :
        LET a == mMessages[i]  b == mMessages[j] IN
        i < j /\ ~IsBarrier(a) /\ ~IsBarrier(b) =>
            \/ a.when < b.when
            \/ a.when = b.when /\ (IF a.when = 0 THEN a.id > b.id ELSE a.id < b.id)

\* While a barrier stands in the list, a synchronous message is dispatched only
\* if it was due before the barrier was posted, or was sent to the front: neither
\* those that were waiting for a later time nor those sent later get past it.
BarrierHolds ==
    [][\A b \in Queued :
         (IsBarrier(b) /\ looper.pc = "look" /\ looper'.pc = "dispatch"
            /\ ~IsAsync(looper'.msg)) =>
             \/ looper'.msg.when < b.since
             \/ looper'.msg.when = b.since /\ looper'.msg.id < b.id]_vars

\* A message that is due and not stalled.
Deliverable(id) ==
    \E i \in 1 .. Len(mMessages) :
        LET e == mMessages[i] IN
        /\ e.id = id /\ ~IsBarrier(e) /\ e.when <= now
        /\ IsAsync(e) \/ \A j \in 1 .. i : ~IsBarrier(mMessages[j])

\* A barrier whose time was read before the message was due may still come first.
Stalled(id) ==
    \E j \in 1 .. Len(mMessages) : \E i \in 1 .. j :
        mMessages[j].id = id /\ IsBarrier(mMessages[i]) /\ ~IsAsync(mMessages[j])

\* Such a message is dispatched, unless somebody removes it, a barrier stalls it
\* or the queue quits first, and a thread that waits for its task comes back.
Delivered(id) ==
    /\ \A e \in Queued : e.id # id
    /\ \A t \in Threads :
           caller[t].pc = "wait" /\ caller[t].task = id => id \notin done
DueDelivered ==
    \A id \in 1 .. MaxPosts + MaxBarriers :
        Deliverable(id) ~> Delivered(id) \/ Stalled(id) \/ mQuiting

\* What Looper.car says of barriers: one stands in the list until
\* RemoveSyncBarrier is called with its token, and no longer.
BarrierUntilReleased ==
    {e.payload.arg1 : e \in {q \in Queued : IsBarrier(q)}} = standing
=============================================================================

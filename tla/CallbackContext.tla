--------------------------- MODULE CallbackContext ---------------------------
(***************************************************************************)
(* CCallbackContext (CCallbackContext.cpp, cbapi.cpp, callback.h): the     *)
(* event queue of one callback thread.  Any thread posts events to it,     *)
(* sends them and waits for the callback, cancels them or asks the thread  *)
(* to finish; the callback thread takes them one at a time and runs the    *)
(* callback without the queue's lock.                                      *)
(*                                                                         *)
(* Every event has a thread of its own that creates it and posts or sends  *)
(* it (_PostCallbackEvent of a callback sink).  Sections under m_queueLock *)
(* are one action, except that the callback thread reads the finish flags, *)
(* which are written without the lock, one after the other.  Only the      *)
(* calls with fPriority = 0 are modelled: the other ones are reached only  *)
(* through TL_ORG_CALLBACK_SLOT, which nothing sets.                       *)
(***************************************************************************)
EXTENDS Integers, Sequences, FiniteSets, SequencesExt, Lists

CONSTANTS
    Events, NoEvent,
    SyncCall,       \* the events that are sent, the others are posted
    Timed,          \* sent with a timeout, or by an interruptible thread
    Duplicated,     \* the events that replace pending ones of their kind
    CarClients,     \* the events whose receiving object may be dying
    Priority,       \* m_flags & CallbackEventFlag_PriorityMask: 0 is first
    Sender, Id,     \* m_pSender; m_pSender with m_id
    Registration,   \* m_pSender, m_id, m_pHandlerThis and m_pHandlerFunc
    Cancels,        \* the registrations whose handler may be removed; when
                    \* there is none, pending events are not cancelled either
    CoalescerCancels, \* whether a coalescer answers E_CANCLE_BOTH_EVENTS
    Finishes,       \* the flags RequestToFinish is called with
    Reordered,      \* whether its two stores may be seen in the other order
    MaxTime         \* the clock stops there

ASSUME EventsAssumption ==
    /\ IsFiniteSet(Events) /\ NoEvent \notin Events
    /\ Timed \subseteq SyncCall /\ SyncCall \subseteq Events
    /\ Duplicated \subseteq Events /\ CarClients \subseteq Events
    /\ Priority \in [Events -> Nat]
    /\ MaxTime \in Nat
    /\ CoalescerCancels \in BOOLEAN /\ Reordered \in BOOLEAN
    /\ Finishes \subseteq {"Nice", "ASAP"}

(* A registration has one sender and one id; the flags of an event are     *)
(* those its kind of callback is declared with.  A kind that is both       *)
(* synchronous and coalesced is left out: a removed event is not signalled.*)
ASSUME RegistrationsAssumption ==
    /\ \A d, e \in Events : Registration[d] = Registration[e] =>
        /\ Id[d] = Id[e] /\ Sender[d] = Sender[e]
        /\ d \in SyncCall <=> e \in SyncCall
    /\ \A d, e \in Events : Id[d] = Id[e] => Sender[d] = Sender[e]
    /\ SyncCall \cap Duplicated = {}

VARIABLES
    m_eventQueue,
    m_bExitRequested, m_bRequestToQuit,
    m_pThreadEvent,   \* semaphore the callback thread waits on
    event,            \* the fields of each event
    now,              \* gettimeofday
    handler,          \* where the callback thread is
    pCallbackEvent,   \* the event it has taken, in m_currentEvents
    looked,           \* the event GetEvent found not due, before it reads its time
    wakeAt,           \* when its usleep ends
    caller,           \* where the thread of each event is
    result,           \* what SendCallbackEvent answers
    finisher,         \* RequestToFinish: its flag, and the stores not yet seen
    canceller,        \* what CancelCallbackEvents has removed and found busy
    finishes,         \* history: the flags RequestToFinish was called with
    invoked,          \* history: events whose callback was called
    abandoned,        \* history: events still queued when Send timed out
    quiet,            \* history: events CancelCallbackEvents vouched for
    dropped,          \* history: events taken away since GetEvent unlocked
    replaced          \* history: events replaced by a newer one before it reads

context == <<m_eventQueue, m_bExitRequested, m_bRequestToQuit, m_pThreadEvent>>
meanwhile == <<dropped, replaced>>
history == <<invoked, abandoned, quiet, meanwhile>>
loop == <<handler, pCallbackEvent, looked, wakeAt>>
vars == <<context, event, now, loop, caller, result, finisher, canceller, finishes, history>>

HandlerPCs ==
    {"check", "get", "wait", "unlocked", "sleep", "begin", "start", "running",
     "pop", "finished", "sentinel"}
CallerPCs == {"new", "notify", "waiting", "woken", "timed_out", "mark", "release", "done"}

TypeOK ==
    /\ m_eventQueue \in Seq(Events)
    /\ m_bExitRequested \in BOOLEAN /\ m_bRequestToQuit \in BOOLEAN
    /\ m_pThreadEvent \in Nat
    /\ event \in [Events -> [m_Status : {"created", "running", "completed", "cancelled"},
                             m_pSyncEvent : Nat, m_cRef : Nat,
                             m_when : 0 .. MaxTime, priority : Nat]]
    /\ now \in 0 .. MaxTime /\ wakeAt \in 0 .. MaxTime
    /\ handler \in HandlerPCs
    /\ pCallbackEvent \in Events \cup {NoEvent} /\ looked \in Events \cup {NoEvent}
    /\ caller \in [Events -> CallerPCs]
    /\ result \in [Events -> {"none", "NOERROR", "E_TIMED_OUT", "E_CALLBACK_CANCELED"}]
    /\ finisher \in [flag : Finishes \cup {"none"},
                    stores : SUBSET {"m_bExitRequested", "m_bRequestToQuit"}]
    /\ canceller \subseteq Events
    /\ finishes \subseteq Finishes
    /\ invoked \subseteq Events /\ abandoned \subseteq Events /\ quiet \subseteq Events
    /\ dropped \subseteq Events /\ replaced \subseteq Events

(* The constructor of an event takes the reference its creator holds.      *)
Init ==
    /\ m_eventQueue = <<>>
    /\ m_bExitRequested = FALSE /\ m_bRequestToQuit = FALSE
    /\ m_pThreadEvent = 0
    /\ event = [e \in Events |->
                  [m_Status |-> "created", m_pSyncEvent |-> 0, m_cRef |-> 1,
                   m_when |-> 0, priority |-> Priority[e]]]
    /\ now = 0 /\ wakeAt = 0
    /\ handler = "check" /\ pCallbackEvent = NoEvent /\ looked = NoEvent
    /\ caller = [e \in Events |-> "new"]
    /\ result = [e \in Events |-> "none"]
    /\ finisher = [flag |-> "none", stores |-> {}] /\ canceller = {} /\ finishes = {}
    /\ invoked = {} /\ abandoned = {} /\ quiet = {} /\ dropped = {} /\ replaced = {}

QueueLockFree == handler # "get"
WorkingLockFree == handler \notin {"begin", "start", "running"}

CallerGoes(e, to) == caller' = [caller EXCEPT ![e] = to]
HandlerGoes(to) == handler' = to /\ UNCHANGED <<pCallbackEvent, looked, wakeAt>>

(* The history of what is done while GetEvent is without the lock.         *)
Drop(S) == dropped' = IF handler \in {"unlocked", "sleep"} THEN dropped \cup S ELSE dropped
Replace(S) == replaced' = IF handler = "unlocked" THEN replaced \cup S ELSE replaced

(* m_Status, m_bCompleted and sem_post(&m_pSyncEvent).                     *)
Signalled(record, status) ==
    [record EXCEPT !.m_Status = status, !.m_pSyncEvent = @ + 1]

(* Release: an event nothing refers to is freed, and its fields are gone.  *)
Freed == [m_Status |-> "created", m_pSyncEvent |-> 0, m_cRef |-> 0, m_when |-> 0,
          priority |-> 0]
Released(record) ==
    IF record.m_cRef = 1 THEN Freed ELSE [record EXCEPT !.m_cRef = @ - 1]
-----------------------------------------------------------------------------
(* The queue is ordered by priority, then by time, then by arrival.        *)
Before(d, when, priority) ==
    \/ event[d].priority < priority
    \/ event[d].priority = priority /\ event[d].m_when <= when

\* Mutant: the time is compared whatever the priority.
InsertedByTime(queue, e, when, priority) ==
    LET InFront(d) == event[d].m_when <= when
    IN  InsertAt(queue, SelectLastInSeq(queue, InFront) + 1, e)

Inserted(queue, e, when, priority) ==
    LET InFront(d) == Before(d, when, priority)
    IN  InsertAt(queue, SelectLastInSeq(queue, InFront) + 1, e)

Pending == Range(m_eventQueue)

(* The events a Duplicated event may replace; a coalescer decides for each *)
(* of them, from the newest to the oldest.                                 *)
Coalescable(e) ==
    IF e \in Duplicated THEN {d \in Pending : Registration[d] = Registration[e]} ELSE {}

(* The new event goes no later in the queue than the oldest it replaces.   *)
CoalescedPriority(e, older) ==
    IF older = {} THEN Priority[e]
    ELSE LET oldest == SelectInSeq(m_eventQueue, LAMBDA d : d \in older)
             highest == event[m_eventQueue[oldest]].priority
         IN  IF Priority[e] > highest THEN highest ELSE Priority[e]

AfterPost(e) == IF e \in SyncCall THEN "waiting" ELSE "release"

(* A context that is to finish cancels the event at once.                  *)
PostRefused(e) ==
    /\ caller[e] = "new" /\ QueueLockFree
    /\ m_bExitRequested \/ m_bRequestToQuit
    /\ event' = [event EXCEPT ![e] = Signalled(@, "cancelled")]
    /\ CallerGoes(e, AfterPost(e))
    /\ UNCHANGED <<context, now, loop, result, finisher, canceller, finishes, history>>

\* Mutant: the thread is woken when the queue was not empty.
PostNotifyInverted(e) ==
    /\ caller[e] = "new" /\ QueueLockFree
    /\ ~m_bExitRequested /\ ~m_bRequestToQuit
    /\ \E when \in 0 .. MaxTime :
        /\ when <= now + 1
        /\ event' = [event EXCEPT ![e].m_cRef = @ + 1, ![e].m_when = when]
        /\ m_eventQueue' = Inserted(m_eventQueue, e, when, Priority[e])
    /\ CallerGoes(e, IF m_eventQueue # <<>> THEN "notify" ELSE AfterPost(e))
    /\ UNCHANGED <<m_bExitRequested, m_bRequestToQuit, m_pThreadEvent, now, loop,
                   result, finisher, canceller, finishes, history>>

\* Mutant: the queue takes no reference of its own.
PostUncounted(e) ==
    /\ caller[e] = "new" /\ QueueLockFree
    /\ ~m_bExitRequested /\ ~m_bRequestToQuit
    /\ event' = [event EXCEPT ![e].m_when = now]
    /\ m_eventQueue' = Inserted(m_eventQueue, e, now, Priority[e])
    /\ CallerGoes(e, IF m_eventQueue = <<>> THEN "notify" ELSE AfterPost(e))
    /\ UNCHANGED <<m_bExitRequested, m_bRequestToQuit, m_pThreadEvent, now, loop,
                   result, finisher, canceller, finishes, history>>

\* Mutant: the new event is not put where those it replaces were.
PostUninserted(e) ==
    /\ caller[e] = "new" /\ QueueLockFree
    /\ ~m_bExitRequested /\ ~m_bRequestToQuit
    /\ \E when \in 0 .. MaxTime, older \in SUBSET Coalescable(e) :
        /\ when <= now + 1
        /\ event' = [d \in Events |->
              CASE d = e /\ older = {} -> [event[e] EXCEPT !.m_cRef = @ + 1, !.m_when = when]
                [] d \in older -> Released(event[d])
                [] OTHER -> event[d]]
        /\ m_eventQueue' =
              IF older = {} THEN Inserted(m_eventQueue, e, when, Priority[e])
              ELSE Without(m_eventQueue, older)
        /\ Replace(older)
    /\ CallerGoes(e, IF m_eventQueue = <<>> THEN "notify" ELSE AfterPost(e))
    /\ UNCHANGED <<m_bExitRequested, m_bRequestToQuit, m_pThreadEvent, now, loop,
                   result, finisher, canceller, finishes, invoked, abandoned, quiet,
                   dropped>>

(* PostCallbackEvent: the events it replaces are released without being    *)
(* signalled, and the thread is woken only if the queue was empty on       *)
(* entry.  The caller chose m_when before: the current millisecond,        *)
(* rounded up or by now past, or a later time.                             *)
PostCallbackEvent(e) ==
    /\ caller[e] = "new" /\ QueueLockFree
    /\ ~m_bExitRequested /\ ~m_bRequestToQuit
    /\ \E when \in 0 .. MaxTime, older \in SUBSET Coalescable(e) :
        LET priority == CoalescedPriority(e, older) IN
        /\ when <= now + 1
        /\ event' = [d \in Events |->
              CASE d = e -> [event[e] EXCEPT !.m_cRef = @ + 1, !.m_when = when,
                                             !.priority = priority]
                [] d \in older -> Released(event[d])
                [] OTHER -> event[d]]
        /\ m_eventQueue' = Inserted(Without(m_eventQueue, older), e, when, priority)
        /\ Replace(older)
    /\ CallerGoes(e, IF m_eventQueue = <<>> THEN "notify" ELSE AfterPost(e))
    /\ UNCHANGED <<m_bExitRequested, m_bRequestToQuit, m_pThreadEvent, now, loop,
                   result, finisher, canceller, finishes, invoked, abandoned, quiet,
                   dropped>>

(* The coalescer cancels the new event and the old one.                    *)
PostCancelledBoth(e) ==
    /\ CoalescerCancels
    /\ caller[e] = "new" /\ QueueLockFree
    /\ ~m_bExitRequested /\ ~m_bRequestToQuit
    /\ \E older \in (SUBSET Coalescable(e)) \ {{}} :
        /\ event' = [d \in Events |-> IF d \in older THEN Released(event[d]) ELSE event[d]]
        /\ m_eventQueue' = Without(m_eventQueue, older)
        /\ Drop(older)
    /\ CallerGoes(e, "release")
    /\ UNCHANGED <<m_bExitRequested, m_bRequestToQuit, m_pThreadEvent, now, loop,
                   result, finisher, canceller, finishes, invoked, abandoned, quiet,
                   replaced>>

(* sem_post(&m_pThreadEvent), after the lock is released.                  *)
Notify(e) ==
    /\ caller[e] = "notify"
    /\ m_pThreadEvent' = m_pThreadEvent + 1
    /\ CallerGoes(e, AfterPost(e))
    /\ UNCHANGED <<m_eventQueue, m_bExitRequested, m_bRequestToQuit, event, now, loop,
                   result, finisher, canceller, finishes, history>>
-----------------------------------------------------------------------------
(* SendCallbackEvent after the post: sem_wait or sem_timedwait.            *)
SyncWoken(e) ==
    /\ caller[e] = "waiting" /\ event[e].m_pSyncEvent > 0
    /\ event' = [event EXCEPT ![e].m_pSyncEvent = @ - 1]
    /\ CallerGoes(e, "woken")
    /\ UNCHANGED <<context, now, loop, result, finisher, canceller, finishes, history>>

SyncTimedOut(e) ==
    /\ caller[e] = "waiting" /\ e \in Timed
    /\ CallerGoes(e, "timed_out")
    /\ UNCHANGED <<context, event, now, loop, result, finisher, canceller, finishes, history>>

\* Mutant: the status is not looked at.
SendResultUnread(e) ==
    /\ caller[e] \in {"woken", "timed_out"}
    /\ result' = [result EXCEPT ![e] =
          IF caller[e] = "timed_out" THEN "E_TIMED_OUT" ELSE "NOERROR"]
    /\ CallerGoes(e, IF caller[e] = "timed_out" THEN "mark" ELSE "release")
    /\ UNCHANGED <<context, event, now, loop, finisher, canceller, finishes, history>>

SendResult(e) ==
    /\ caller[e] \in {"woken", "timed_out"}
    /\ result' = [result EXCEPT ![e] =
          IF event[e].m_Status = "cancelled" THEN "E_CALLBACK_CANCELED"
          ELSE IF caller[e] = "timed_out" THEN "E_TIMED_OUT" ELSE "NOERROR"]
    /\ CallerGoes(e, IF caller[e] = "timed_out" THEN "mark" ELSE "release")
    /\ UNCHANGED <<context, event, now, loop, finisher, canceller, finishes, history>>

(* if (bCancelled) m_Status = CallingStatus_Cancelled, without the lock.   *)
MarkCancelled(e) ==
    /\ caller[e] = "mark"
    /\ event' = [event EXCEPT ![e].m_Status = "cancelled"]
    /\ abandoned' = IF e \in Pending THEN abandoned \cup {e} ELSE abandoned
    /\ CallerGoes(e, "release")
    /\ UNCHANGED <<context, now, loop, result, finisher, canceller, finishes,
                   invoked, quiet, meanwhile>>

(* The callback sink releases the event it created.                        *)
ReleaseEvent(e) ==
    /\ caller[e] = "release"
    /\ event' = [event EXCEPT ![e] = Released(@)]
    /\ CallerGoes(e, "done")
    /\ UNCHANGED <<context, now, loop, result, finisher, canceller, finishes, history>>
-----------------------------------------------------------------------------
(* The callback thread, in HandleCallbackEvents.  It waits with sem_wait,  *)
(* its pbOccured is NULL and its fPriority is 0 (TryToHandleEvents).       *)
Check ==
    /\ handler = "check"
    /\ HandlerGoes(IF m_bExitRequested /\ ~m_bRequestToQuit THEN "finished" ELSE "get")
    /\ UNCHANGED <<context, event, now, caller, result, finisher, canceller, finishes, history>>

(* GetEvent for the first event of a queue that is not empty: it is taken  *)
(* and, before the lock is released, put in m_currentEvents and            *)
(* m_workingLock locked; or, when it is not due, the lock is released and  *)
(* the pointer to it kept, without a reference.                            *)
TakeFirst ==
    LET first == Head(m_eventQueue) IN
    /\ dropped' = {} /\ replaced' = {}
    /\ wakeAt' = 0
    /\ IF now < event[first].m_when
       THEN /\ handler' = "unlocked" /\ looked' = first
            /\ UNCHANGED <<m_eventQueue, pCallbackEvent>>
       ELSE /\ handler' = "begin" /\ pCallbackEvent' = first
            /\ m_eventQueue' = Tail(m_eventQueue)
            /\ UNCHANGED looked

\* Mutant: a request to quit is looked at before the queue.
GetQuitFirst ==
    /\ handler = "get"
    /\ IF m_eventQueue = <<>> \/ m_bRequestToQuit
       THEN /\ HandlerGoes(IF m_bRequestToQuit THEN "finished" ELSE "wait")
            /\ UNCHANGED <<m_eventQueue, meanwhile>>
       ELSE TakeFirst
    /\ UNCHANGED <<m_bExitRequested, m_bRequestToQuit, m_pThreadEvent, event, now, caller,
                   result, finisher, canceller, finishes, invoked, abandoned, quiet>>

Get ==
    /\ handler = "get"
    /\ IF m_eventQueue = <<>>
       THEN /\ HandlerGoes(IF m_bRequestToQuit THEN "finished" ELSE "wait")
            /\ UNCHANGED <<m_eventQueue, meanwhile>>
       ELSE TakeFirst
    /\ UNCHANGED <<m_bExitRequested, m_bRequestToQuit, m_pThreadEvent, event, now, caller,
                   result, finisher, canceller, finishes, invoked, abandoned, quiet>>

(* sem_wait(&m_pThreadEvent).                                              *)
Wait ==
    /\ handler = "wait" /\ m_pThreadEvent > 0
    /\ m_pThreadEvent' = m_pThreadEvent - 1
    /\ HandlerGoes("check")
    /\ UNCHANGED <<m_eventQueue, m_bExitRequested, m_bRequestToQuit, event, now, caller,
                   result, finisher, canceller, finishes, history>>

(* usleep(m_when - now): the time is read after the lock was released.  If *)
(* the event has been freed by then, it is whatever the memory holds.      *)
Usleep ==
    /\ handler = "unlocked"
    /\ \E when \in 0 .. MaxTime :
        /\ event[looked].m_cRef > 0 => when = event[looked].m_when
        /\ wakeAt' = when
    /\ handler' = "sleep" /\ looked' = NoEvent /\ replaced' = {}
    /\ UNCHANGED <<context, event, now, pCallbackEvent, caller, result, finisher, canceller,
                   finishes, invoked, abandoned, quiet, dropped>>

(* goto again after usleep: the first event of the queue is taken without  *)
(* asking again whether there is one.  In an empty queue it is the head    *)
(* of the list itself, which is then detached, released and freed: what    *)
(* follows is undefined, and the thread is taken no further.               *)
Again ==
    /\ handler = "sleep" /\ now >= wakeAt
    /\ IF m_eventQueue = <<>>
       THEN HandlerGoes("sentinel") /\ UNCHANGED <<m_eventQueue, meanwhile>>
       ELSE TakeFirst
    /\ UNCHANGED <<m_bExitRequested, m_bRequestToQuit, m_pThreadEvent, event, now, caller,
                   result, finisher, canceller, finishes, invoked, abandoned, quiet>>

\* Mutant: the status is not looked at.
BeginUnchecked ==
    /\ handler = "begin"
    /\ HandlerGoes("start")
    /\ UNCHANGED <<context, event, now, caller, result, finisher, canceller, finishes, history>>

(* An event for an object whose last reference is gone is dropped without  *)
(* a signal; one that its sender gave up is signalled and not called.      *)
Begin ==
    LET e == pCallbackEvent
        cancelled == e \in SyncCall /\ event[e].m_Status = "cancelled"
    IN
    /\ handler = "begin"
    /\ \/ /\ e \in CarClients
          /\ HandlerGoes("pop") /\ UNCHANGED event
       \/ /\ cancelled
          /\ event' = [event EXCEPT ![e] = Signalled(@, "cancelled")]
          /\ HandlerGoes("pop")
       \/ /\ ~cancelled
          /\ HandlerGoes("start") /\ UNCHANGED event
    /\ UNCHANGED <<context, now, caller, result, finisher, canceller, finishes, history>>

(* The status is set and the callback called.                              *)
Start ==
    /\ handler = "start"
    /\ event' = IF pCallbackEvent \in SyncCall
                THEN [event EXCEPT ![pCallbackEvent].m_Status = "running"] ELSE event
    /\ invoked' = invoked \cup {pCallbackEvent}
    /\ HandlerGoes("running")
    /\ UNCHANGED <<context, now, caller, result, finisher, canceller, finishes,
                   abandoned, quiet, meanwhile>>

\* Mutant: the sender is not told that the callback has returned.
CompleteUnsignalled ==
    /\ handler = "running"
    /\ HandlerGoes("pop")
    /\ UNCHANGED <<context, event, now, caller, result, finisher, canceller, finishes, history>>

(* The callback has returned; m_workingLock is released.                   *)
Complete ==
    /\ handler = "running"
    /\ event' = IF pCallbackEvent \in SyncCall
                THEN [event EXCEPT ![pCallbackEvent] = Signalled(@, "completed")] ELSE event
    /\ HandlerGoes("pop")
    /\ UNCHANGED <<context, now, caller, result, finisher, canceller, finishes, history>>

(* PopEvent and Release.                                                   *)
Pop ==
    /\ handler = "pop"
    /\ event' = [event EXCEPT ![pCallbackEvent] = Released(@)]
    /\ pCallbackEvent' = NoEvent /\ handler' = "check"
    /\ UNCHANGED <<context, now, looked, wakeAt, caller, result, finisher, canceller, finishes, history>>

Tick ==
    /\ now < MaxTime
    /\ now' = now + 1
    /\ UNCHANGED <<context, event, loop, caller, result, finisher, canceller, finishes, history>>
-----------------------------------------------------------------------------
(* RequestToFinish stores its two flags without the lock, then posts.      *)
RequestToFinish(flag) ==
    /\ finisher.flag = "none" /\ flag \notin finishes
    /\ finishes' = finishes \cup {flag}
    /\ finisher' = [flag |-> flag, stores |-> {"m_bExitRequested", "m_bRequestToQuit"}]
    /\ UNCHANGED <<context, event, now, loop, caller, result, canceller, history>>

StoreRequestToQuit ==
    /\ "m_bRequestToQuit" \in finisher.stores
    /\ m_bRequestToQuit' = (finisher.flag = "Nice")
    /\ finisher' = [finisher EXCEPT !.stores = @ \ {"m_bRequestToQuit"}]
    /\ UNCHANGED <<m_eventQueue, m_bExitRequested, m_pThreadEvent, event, now, loop, caller,
                   result, canceller, finishes, history>>

StoreExitRequested ==
    /\ "m_bExitRequested" \in finisher.stores
    /\ Reordered \/ "m_bRequestToQuit" \notin finisher.stores
    /\ m_bExitRequested' = TRUE
    /\ finisher' = [finisher EXCEPT !.stores = @ \ {"m_bExitRequested"}]
    /\ UNCHANGED <<m_eventQueue, m_bRequestToQuit, m_pThreadEvent, event, now, loop, caller,
                   result, canceller, finishes, history>>

\* Mutant: the thread is not woken.
FinishUnposted ==
    /\ finisher.flag # "none" /\ finisher.stores = {}
    /\ finisher' = [finisher EXCEPT !.flag = "none"]
    /\ UNCHANGED <<context, event, now, loop, caller, result, canceller, finishes, history>>

FinishPosted ==
    /\ finisher.flag # "none" /\ finisher.stores = {}
    /\ m_pThreadEvent' = m_pThreadEvent + 1
    /\ finisher' = [finisher EXCEPT !.flag = "none"]
    /\ UNCHANGED <<m_eventQueue, m_bExitRequested, m_bRequestToQuit, event, now, loop, caller,
                   result, canceller, finishes, history>>
-----------------------------------------------------------------------------
\* Mutant: what is cancelled is not released.
CancelPendingUnreleased(S) ==
    /\ Cancels # {} /\ QueueLockFree
    /\ m_eventQueue' = Without(m_eventQueue, S)
    /\ event' = [d \in Events |->
          IF d \in S \cap Pending THEN Signalled(event[d], "cancelled") ELSE event[d]]
    /\ Drop(S \cap Pending)
    /\ UNCHANGED <<m_bExitRequested, m_bRequestToQuit, m_pThreadEvent, now, loop, caller,
                   result, finisher, finishes, invoked, abandoned, replaced>>

(* Takes the pending events of S out of the queue, cancels, signals and    *)
(* releases them.                                                          *)
CancelPending(S) ==
    /\ Cancels # {} /\ QueueLockFree
    /\ m_eventQueue' = Without(m_eventQueue, S)
    /\ event' = [d \in Events |->
          IF d \in S \cap Pending THEN Released(Signalled(event[d], "cancelled")) ELSE event[d]]
    /\ Drop(S \cap Pending)
    /\ UNCHANGED <<m_bExitRequested, m_bRequestToQuit, m_pThreadEvent, now, loop, caller,
                   result, finisher, finishes, invoked, abandoned, replaced>>

CancelAllPendingCallbacks(sender) ==
    CancelPending({d \in Events : Sender[d] = sender}) /\ UNCHANGED <<canceller, quiet>>
CancelPendingCallback(id) ==
    CancelPending({d \in Events : Id[d] = id}) /\ UNCHANGED <<canceller, quiet>>
CancelAllCallbackEvents ==
    CancelPending(Events) /\ UNCHANGED <<canceller, quiet>>

\* Mutant: the event that is being handled is not looked for.
CancelQueuedOnly(registration) ==
    LET of == {d \in Events : Registration[d] = registration}
    IN  /\ canceller = {}
        /\ CancelPending(of)
        /\ quiet' = quiet \cup {d \in of : caller[d] # "new"}
        /\ UNCHANGED canceller

(* A thread that removes a handler, one at a time: when the queue has been *)
(* cleared and the event in m_currentEvents is of another registration,    *)
(* the answer is NOERROR at once.                                          *)
CancelCallbackEvents(registration) ==
    LET of == {d \in Events : Registration[d] = registration}
        posted == {d \in of : caller[d] # "new"}
    IN  /\ canceller = {}
        /\ CancelPending(of)
        /\ IF pCallbackEvent \in of
           THEN canceller' = posted /\ UNCHANGED quiet
           ELSE quiet' = quiet \cup posted /\ UNCHANGED canceller

(* It is busy: E_CALLBACK_IS_BUSY unless m_workingLock can be taken.       *)
TryWorkingLock ==
    /\ canceller # {}
    /\ quiet' = IF WorkingLockFree THEN quiet \cup canceller ELSE quiet
    /\ canceller' = {}
    /\ UNCHANGED <<context, event, now, loop, caller, result, finisher, finishes,
                   invoked, abandoned, meanwhile>>
-----------------------------------------------------------------------------
CallerReturns(e) ==
    Notify(e) \/ SyncWoken(e) \/ SendResult(e) \/ MarkCancelled(e) \/ ReleaseEvent(e)
Handle ==
    Check \/ Get \/ Wait \/ Usleep \/ Again \/ Begin \/ Start \/ Complete \/ Pop
Finish == StoreRequestToQuit \/ StoreExitRequested \/ FinishPosted

(* A cancel that finds nothing pending changes nothing: it is a stutter.   *)
Next ==
    \/ \E e \in Events :
        \/ PostRefused(e) \/ PostCallbackEvent(e) \/ PostCancelledBoth(e)
        \/ SyncTimedOut(e) \/ CallerReturns(e)
    \/ Handle \/ Tick
    \/ \E flag \in Finishes : RequestToFinish(flag)
    \/ Finish
    \/ \E e \in Pending :
        CancelAllPendingCallbacks(Sender[e]) \/ CancelPendingCallback(Id[e])
    \/ \E registration \in Cancels : CancelCallbackEvents(registration)
    \/ Pending # {} /\ CancelAllCallbackEvents
    \/ TryWorkingLock

Spec == Init /\ [][Next]_vars

(* Every thread runs, callbacks return and time passes.                    *)
FairSpec ==
    /\ Spec
    /\ WF_vars(Handle) /\ WF_vars(Tick) /\ WF_vars(Finish)
    /\ \A e \in Events : WF_vars(CallerReturns(e))
-----------------------------------------------------------------------------
(* The callback thread never sleeps on its semaphore while an event waits  *)
(* for it: a wake-up has been posted or is about to be.  PostCallbackEvent *)
(* wakes it only when it finds the queue empty, and does so after the lock *)
(* is released, when cancels and coalescing may have changed the queue.    *)
NoLostWakeup ==
    handler = "wait" /\ m_eventQueue # <<>> =>
        m_pThreadEvent > 0 \/ \E e \in Events : caller[e] = "notify"

(* Events are called in the order of their priorities, then of their       *)
(* times, although coalescing changes the priority of a new event and the  *)
(* insertion searches from the end.                                        *)
QueueSorted ==
    \A i, j \in DOMAIN m_eventQueue : i < j =>
        LET d == event[m_eventQueue[i]]
            e == event[m_eventQueue[j]]
        IN  d.priority < e.priority \/ (d.priority = e.priority /\ d.m_when <= e.m_when)

(* NOERROR means that the callback has been called and has returned, and   *)
(* E_CALLBACK_CANCELED that it is not called, now or later, whatever       *)
(* cancels and timeouts crossed the callback thread.  A sender that gave   *)
(* up while its event was still queued will not see the callback run,      *)
(* although the event stays in the queue.                                  *)
SendResultTrue ==
    \A e \in SyncCall :
        /\ result[e] = "NOERROR" =>
            e \in invoked /\ (pCallbackEvent = e => handler = "pop")
        /\ result[e] = "E_CALLBACK_CANCELED" =>
            e \notin invoked /\ (pCallbackEvent = e => handler \in {"begin", "pop"})
        /\ e \in abandoned => e \notin invoked

(* After CancelCallbackEvents has answered NOERROR none of the events it   *)
(* was asked about is being called, nor will be: a handler may be deleted. *)
CancelQuiet ==
    \A e \in quiet : e \notin Pending /\ (pCallbackEvent = e => handler = "pop")

(* An event has one reference for its creator, one for the queue and one   *)
(* for the callback thread that calls it: none is freed in their hands,    *)
(* and none is leaked when it is replaced, cancelled or refused.  The look *)
(* at the time of an event that is not due has no reference of its own:    *)
(* see SleeperUndisturbed.                                                 *)
RefsExact ==
    \A e \in Events : event[e].m_cRef =
        Cardinality({x \in {"creator", "queue", "handler"} :
            \/ x = "creator" /\ caller[e] # "done"
            \/ x = "queue" /\ e \in Pending
            \/ x = "handler" /\ e = pCallbackEvent})

(* GetEvent works without the lock, and without a reference, from the      *)
(* moment it finds the first event not due until it has slept.  It then    *)
(* reads a freed event only if that one was cancelled or replaced since,   *)
(* and takes the head of the queue for an event only if a cancel, or a     *)
(* coalescer that cancels both, took the events it had left there:         *)
(* nothing else, timeouts, releases and coalescing of an event by a newer  *)
(* one included, empties the queue behind its back.                        *)
SleeperUndisturbed ==
    /\ handler = "unlocked" /\ event[looked].m_cRef = 0 => looked \in dropped \cup replaced
    /\ handler = "sentinel" => dropped # {}

(* A thread asked to finish nicely has called every event that was posted  *)
(* before its context refused them, if the stores are seen in order.       *)
NoneLeftBehind ==
    handler = "finished" /\ "ASAP" \notin finishes => m_eventQueue = <<>>

(* Every thread that sends an event is answered, unless the context is     *)
(* told to finish ASAP.  Asked of contexts whose clients are not dying and *)
(* whose pending events are not cancelled.                                 *)
EverySendReturns ==
    \A e \in SyncCall : caller[e] = "waiting" ~> caller[e] = "done" \/ "ASAP" \in finishes

(* A callback thread that is asked to finish does.                         *)
FinishEnds == finishes # {} ~> handler = "finished"
=============================================================================

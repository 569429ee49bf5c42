------------------------ MODULE CallbackContextProofs ------------------------
(***************************************************************************)
(* Proofs about CallbackContext for any finite set of events and any       *)
(* senders, priorities and registrations: the wake-up of the callback      *)
(* thread is never lost, its queue stays in order, SendCallbackEvent       *)
(* answers what happened, a cancelled handler is not called, and the       *)
(* references of every event are exact.                                    *)
(*                                                                         *)
(* The queue stays in order only because an event on it keeps a reference  *)
(* (Counted), so that nobody reuses it, and because its thread posts it    *)
(* once (Untouched).  The answer is true because of what its status and    *)
(* its signal say to the sender, on every path that ends an event:         *)
(* Answered, Told and GivenUp.  What GetEvent does without the lock is     *)
(* disturbed only by cancels, coalescers and newer events, because of what *)
(* it left in the queue (Unlocked).  NoneStaysBehind has a hypothesis: the *)
(* two stores are seen in the order in which the program writes them.      *)
(***************************************************************************)
EXTENDS CallbackContext, SetsAndLists

-----------------------------------------------------------------------------
(* The event is neither queued nor being called.                           *)
Over(e) == e \notin Pending /\ (pCallbackEvent = e => handler = "pop")

(* One reference each for the creator, the queue and the callback thread.  *)
Counted(e) ==
    event[e].m_cRef =
        One(caller[e] # "done") + One(e \in Pending) + One(e = pCallbackEvent)

(* Before its thread posts it nobody else knows an event.                  *)
Untouched(e) == caller[e] = "new" =>
    /\ e \notin Pending /\ e # pCallbackEvent
    /\ e \notin invoked \cup abandoned \cup quiet \cup canceller
    /\ result[e] = "none"
    /\ event[e].m_Status = "created" /\ event[e].m_pSyncEvent = 0

(* An event is queued once in its life.                                    *)
Uncalled(e) ==
    e \in Pending \/ (e = pCallbackEvent /\ handler \in {"begin", "start"}) =>
        e \notin invoked

(* Only events that are sent are waited for, and the answer is given once. *)
Sending(e) ==
    /\ caller[e] \in {"waiting", "woken", "timed_out", "mark"} => e \in SyncCall
    /\ caller[e] \in {"notify", "waiting", "woken", "timed_out"} => result[e] = "none"

(* Until the sender has looked at it, the status of an event that was      *)
(* signalled or cancelled says how it ended.                               *)
Answered(e) ==
    /\ e \in SyncCall
    /\ caller[e] \in {"notify", "waiting", "woken", "timed_out"}
    /\ \/ event[e].m_pSyncEvent > 0
       \/ caller[e] = "woken"
       \/ event[e].m_Status = "cancelled"
    => /\ Over(e)
       /\ \/ event[e].m_Status = "cancelled" /\ e \notin invoked
          \/ event[e].m_Status = "completed" /\ e \in invoked

(* What the sender was told.                                               *)
Told(e) ==
    /\ result[e] = "NOERROR" => e \in invoked /\ Over(e)
    /\ result[e] = "E_CALLBACK_CANCELED" => e \notin invoked /\ Over(e)

(* An event its sender gave up in the queue keeps the mark that stops the  *)
(* callback thread, as long as that thread may look at it.                 *)
GivenUp(e) == e \in abandoned =>
    /\ e \in SyncCall /\ e \notin invoked
    /\ e \in Pending \/ e = pCallbackEvent => event[e].m_Status = "cancelled"
    /\ e = pCallbackEvent => handler \in {"begin", "pop"}

(* An event CancelCallbackEvents has taken out does not come back.         *)
Removed(e) ==
    /\ e \in quiet \cup canceller => caller[e] # "new" /\ e \notin Pending
    /\ e \in quiet => Over(e)

EventOK(e) ==
    /\ Counted(e) /\ Untouched(e) /\ Uncalled(e) /\ Sending(e)
    /\ Answered(e) /\ Told(e) /\ GivenUp(e) /\ Removed(e)

(* The callback thread has an event exactly while it handles one, and it   *)
(* has taken it out of the queue, in which no event is twice.              *)
Taken ==
    /\ pCallbackEvent \in Events <=> handler \in {"begin", "start", "running", "pop"}
    /\ pCallbackEvent \notin Pending
    /\ handler = "running" => pCallbackEvent \in invoked
DistinctIn(q) == \A i, j \in DOMAIN q : q[i] = q[j] => i = j
Distinct == DistinctIn(m_eventQueue)

(* QueueSorted, of any queue and any fields of the events.                 *)
Ordered(d, e) ==
    d.priority < e.priority \/ (d.priority = e.priority /\ d.m_when <= e.m_when)
SortedIn(q, fields) ==
    \A i, j \in DOMAIN q : i < j => Ordered(fields[q[i]], fields[q[j]])

IInv ==
    /\ TypeOK /\ Taken /\ Distinct /\ QueueSorted /\ NoLostWakeup
    /\ \A e \in Events : EventOK(e)
-----------------------------------------------------------------------------
Statuses == {"created", "running", "completed", "cancelled"}
EventRecord == [m_Status : Statuses, m_pSyncEvent : Nat, m_cRef : Nat,
                m_when : 0 .. MaxTime, priority : Nat]

LEMMA SignalledIs ==
    ASSUME NEW r \in EventRecord, NEW status \in Statuses
    PROVE  /\ Signalled(r, status) \in EventRecord
           /\ Signalled(r, status).m_Status = status
           /\ Signalled(r, status).m_pSyncEvent = r.m_pSyncEvent + 1
           /\ Signalled(r, status).m_cRef = r.m_cRef
           /\ Signalled(r, status).m_when = r.m_when
           /\ Signalled(r, status).priority = r.priority
<1>1. /\ Signalled(r, status).m_Status = status
      /\ Signalled(r, status).m_pSyncEvent = r.m_pSyncEvent + 1
      /\ Signalled(r, status).m_cRef = r.m_cRef
      /\ Signalled(r, status).m_when = r.m_when
      /\ Signalled(r, status).priority = r.priority
  BY DEF EventRecord, Signalled
<1>3. Signalled(r, status) \in EventRecord
  <2> DEFINE marked == [r EXCEPT !.m_Status = status]
             n == r.m_pSyncEvent + 1
  <2>1. marked \in EventRecord /\ n \in Nat
    BY DEF EventRecord
  <2>2. Signalled(r, status) = [marked EXCEPT !.m_pSyncEvent = n]
    BY DEF EventRecord, Signalled
  <2> HIDE DEF marked, n
  <2> QED
    BY <2>1, <2>2 DEF EventRecord
<1> QED
  BY <1>1, <1>3

(* Only the last reference changes more than the count.                    *)
LEMMA ReleasedIs ==
    ASSUME NEW r \in EventRecord, r.m_cRef > 0
    PROVE  /\ Released(r) \in EventRecord
           /\ Released(r).m_cRef = r.m_cRef - 1
           /\ r.m_cRef = 1 => Released(r) = Freed
           /\ r.m_cRef > 1 => /\ Released(r).m_Status = r.m_Status
                              /\ Released(r).m_pSyncEvent = r.m_pSyncEvent
                              /\ Released(r).m_when = r.m_when
                              /\ Released(r).priority = r.priority
<1>1. 0 \in 0 .. MaxTime /\ Freed \in EventRecord
  BY EventsAssumption DEF Freed, EventRecord, Statuses
<1>2. CASE r.m_cRef = 1
  BY <1>1, <1>2 DEF Released, Freed
<1>3. CASE r.m_cRef > 1
  BY <1>3 DEF Released, EventRecord
<1> QED
  BY <1>2, <1>3 DEF EventRecord

LEMMA EventsTyped == TypeOK => event \in [Events -> EventRecord]
BY DEF TypeOK, EventRecord, Statuses

LEMMA TypedAgain ==
    ASSUME TypeOK, event' \in [Events -> EventRecord],
           NEW e \in Events, NEW to \in CallerPCs, CallerGoes(e, to),
           UNCHANGED <<m_eventQueue, m_bExitRequested, m_bRequestToQuit, now,
                       loop, finisher, canceller, finishes, invoked, quiet, meanwhile>>,
           m_pThreadEvent' \in Nat, abandoned' \subseteq Events,
           result' \in [Events -> {"none", "NOERROR", "E_TIMED_OUT", "E_CALLBACK_CANCELED"}]
    PROVE  TypeOK'
<1>1. caller' \in [Events -> CallerPCs]
  BY DEF TypeOK, CallerGoes
<1> QED
  BY <1>1 DEF TypeOK, loop, meanwhile, EventRecord, Statuses
-----------------------------------------------------------------------------
(* An event that a step leaves alone.                                      *)
LEMMA EventUntouched ==
    ASSUME NEW e \in Events, EventOK(e),
           event'[e] = event[e], caller'[e] = caller[e], result'[e] = result[e],
           (e \in Pending)' <=> e \in Pending,
           e = pCallbackEvent' <=> e = pCallbackEvent,
           e = pCallbackEvent => handler' = handler,
           e \in invoked' <=> e \in invoked,
           e \in abandoned' <=> e \in abandoned,
           e \in quiet' => e \in quiet,
           e \in canceller' => e \in canceller
    PROVE  EventOK(e)'
<1>1. Counted(e)'
  BY DEF EventOK, Counted, One
<1>2. Untouched(e)' /\ Uncalled(e)' /\ Sending(e)'
  BY DEF EventOK, Untouched, Uncalled, Sending
<1>3. Answered(e)'
  BY DEF EventOK, Answered, Over
<1>4. Told(e)' /\ GivenUp(e)' /\ Removed(e)'
  BY DEF EventOK, Told, GivenUp, Removed, Over
<1> QED
  BY <1>1, <1>2, <1>3, <1>4 DEF EventOK

(* A step that leaves the queue alone and does not touch the order of the  *)
(* events in it.                                                           *)
LEMMA QueueUntouched ==
    ASSUME Distinct, QueueSorted, m_eventQueue' = m_eventQueue,
           \A d \in Pending : /\ event'[d].priority = event[d].priority
                              /\ event'[d].m_when = event[d].m_when
    PROVE  Distinct' /\ QueueSorted' /\ Pending' = Pending
<1>1. \A i \in DOMAIN m_eventQueue : m_eventQueue[i] \in Pending
  BY DEF Pending, Range
<1>2. Distinct' /\ Pending' = Pending
  BY DEF Distinct, DistinctIn, Pending
<1>3. QueueSorted'
  BY <1>1 DEF QueueSorted
<1> QED
  BY <1>2, <1>3

(* A step of the thread of one event that touches that event only.         *)
LEMMA CallerMoves ==
    ASSUME IInv, NEW e \in Events,
           UNCHANGED <<m_eventQueue, loop, invoked, quiet, canceller>>,
           \A d \in Events \ {e} :
                /\ event'[d] = event[d] /\ caller'[d] = caller[d]
                /\ result'[d] = result[d] /\ (d \in abandoned' <=> d \in abandoned)
    PROVE  /\ Taken'
           /\ \A d \in Events \ {e} : EventOK(d)'
           /\ Pending' = Pending
           /\ (e \in Pending => /\ event'[e].priority = event[e].priority
                                /\ event'[e].m_when = event[e].m_when)
                => Distinct' /\ QueueSorted'
<1>1. Pending' = Pending
  BY DEF Pending
<1>2. Taken'
  BY <1>1 DEF IInv, Taken, loop
<1>3. ASSUME NEW d \in Events \ {e}
      PROVE  EventOK(d)'
  BY <1>1, <1>3, EventUntouched DEF IInv, loop
<1>4. Pending \subseteq Events
  BY DEF IInv, TypeOK, Pending, Range
<1>5. ASSUME e \in Pending => /\ event'[e].priority = event[e].priority
                              /\ event'[e].m_when = event[e].m_when
      PROVE  Distinct' /\ QueueSorted'
  <2>1. \A d \in Pending : /\ event'[d].priority = event[d].priority
                           /\ event'[d].m_when = event[d].m_when
    BY <1>4, <1>5
  <2> QED
    BY <2>1, QueueUntouched DEF IInv
<1> QED
  BY <1>1, <1>2, <1>3, <1>5
-----------------------------------------------------------------------------

(* An event a finishing context refuses is answered at once, uncalled.     *)
LEMMA PostRefusedKeeps ==
    ASSUME IInv, NEW e \in Events, PostRefused(e)
    PROVE  IInv'
<1>1. /\ TypeOK /\ Counted(e) /\ Untouched(e) /\ Uncalled(e) /\ Sending(e)
      /\ Answered(e) /\ Told(e) /\ GivenUp(e) /\ Removed(e) /\ Taken
  BY DEF IInv, EventOK
<1>2. event \in [Events -> EventRecord]
  BY <1>1, EventsTyped
<1>3. /\ event'[e] = Signalled(event[e], "cancelled")
      /\ event[e] \in EventRecord /\ event'[e] \in EventRecord
      /\ event' \in [Events -> EventRecord]
      /\ event'[e].m_Status = "cancelled"
      /\ event'[e].m_pSyncEvent = event[e].m_pSyncEvent + 1
      /\ event'[e].m_cRef = event[e].m_cRef
      /\ \A d \in Events \ {e} : event'[d] = event[d]
  BY <1>2, SignalledIs DEF Statuses, PostRefused
<1>4. e \in Pending => /\ event'[e].priority = event[e].priority
                       /\ event'[e].m_when = event[e].m_when
  BY <1>2, <1>3, SignalledIs DEF Statuses
<1>5. TypeOK'
  <2>1. AfterPost(e) \in CallerPCs
    BY DEF CallerPCs, AfterPost
  <2>2. m_pThreadEvent' \in Nat /\ abandoned' \subseteq Events
    BY <1>1 DEF TypeOK, PostRefused, context, history
  <2>3. result' \in [Events -> {"none", "NOERROR", "E_TIMED_OUT", "E_CALLBACK_CANCELED"}]
    BY <1>1 DEF TypeOK, PostRefused
  <2> QED
    BY <1>1, <1>3, <2>1, <2>2, <2>3, TypedAgain DEF PostRefused, context, history
<1>6. /\ Taken' /\ Pending' = Pending
      /\ \A d \in Events \ {e} : EventOK(d)'
      /\ Distinct' /\ QueueSorted'
  BY <1>1, <1>3, <1>4, CallerMoves DEF PostRefused, CallerGoes, context, history
<1>7. NoLostWakeup'
  BY <1>1 DEF IInv, NoLostWakeup, PostRefused, CallerGoes, context, loop
<1>8. Counted(e)'
  BY <1>1, <1>3, <1>6 DEF Counted, PostRefused, CallerGoes, AfterPost, loop
<1>9. Untouched(e)'
  BY <1>1, <1>6 DEF TypeOK, Untouched, PostRefused, CallerGoes, AfterPost
<1>10. Uncalled(e)'
  BY <1>1, <1>6 DEF Uncalled, PostRefused, loop, history
<1>11. Sending(e)'
  BY <1>1, <1>6 DEF Sending, Untouched, PostRefused, CallerGoes, AfterPost
<1>12. Answered(e)'
  BY <1>1, <1>3, <1>6 DEF Answered, Over, Untouched, PostRefused, loop, history
<1>13. Told(e)'
  BY <1>1, <1>6 DEF Told, Over, PostRefused, loop, history
<1>14. GivenUp(e)'
  BY <1>1, <1>3, <1>6 DEF GivenUp, PostRefused, loop, history
<1>15. Removed(e)'
  BY <1>1, <1>6 DEF Removed, PostRefused, history
<1> QED
  BY <1>5, <1>6, <1>7, <1>8, <1>9, <1>10, <1>11, <1>12, <1>13, <1>14, <1>15
     DEF IInv, EventOK

(* The token is there before the thread stops being about to post it.      *)
LEMMA NotifyKeeps ==
    ASSUME IInv, NEW e \in Events, Notify(e)
    PROVE  IInv'
<1>1. /\ TypeOK /\ Counted(e) /\ Untouched(e) /\ Uncalled(e) /\ Sending(e)
      /\ Answered(e) /\ Told(e) /\ GivenUp(e) /\ Removed(e) /\ Taken
  BY DEF IInv, EventOK
<1>2. event \in [Events -> EventRecord]
  BY <1>1, EventsTyped
<1>3. /\ event' = event /\ event' \in [Events -> EventRecord]
      /\ \A d \in Events \ {e} : event'[d] = event[d]
  BY <1>2 DEF Notify
<1>4. e \in Pending => /\ event'[e].priority = event[e].priority
                       /\ event'[e].m_when = event[e].m_when
  BY <1>3
<1>5. TypeOK'
  <2>1. AfterPost(e) \in CallerPCs
    BY DEF CallerPCs, AfterPost
  <2>2. m_pThreadEvent' \in Nat /\ abandoned' \subseteq Events
    BY <1>1 DEF TypeOK, Notify, history
  <2>3. result' \in [Events -> {"none", "NOERROR", "E_TIMED_OUT", "E_CALLBACK_CANCELED"}]
    BY <1>1 DEF TypeOK, Notify
  <2> QED
    BY <1>1, <1>3, <2>1, <2>2, <2>3, TypedAgain DEF Notify, history
<1>6. /\ Taken' /\ Pending' = Pending
      /\ \A d \in Events \ {e} : EventOK(d)'
      /\ Distinct' /\ QueueSorted'
  BY <1>1, <1>3, <1>4, CallerMoves DEF Notify, CallerGoes, history
<1>7. NoLostWakeup'
  BY <1>1 DEF TypeOK, NoLostWakeup, Notify
<1>8. Counted(e)'
  BY <1>1, <1>3, <1>6 DEF Counted, Notify, CallerGoes, AfterPost, loop
<1>9. Untouched(e)'
  BY <1>1, <1>6 DEF Untouched, Notify, CallerGoes, AfterPost
<1>10. Uncalled(e)'
  BY <1>1, <1>6 DEF Uncalled, Notify, loop, history
<1>11. Sending(e)'
  BY <1>1, <1>6 DEF Sending, Notify, CallerGoes, AfterPost
<1>12. Answered(e)'
  BY <1>1, <1>3, <1>6 DEF Answered, Over, Notify, CallerGoes, AfterPost, loop, history
<1>13. Told(e)'
  BY <1>1, <1>6 DEF Told, Sending, Notify
<1>14. GivenUp(e)'
  BY <1>1, <1>3, <1>6 DEF GivenUp, Notify, loop, history
<1>15. Removed(e)'
  BY <1>1, <1>6 DEF Removed, Over, Notify, CallerGoes, AfterPost, loop, history
<1> QED
  BY <1>5, <1>6, <1>7, <1>8, <1>9, <1>10, <1>11, <1>12, <1>13, <1>14, <1>15
     DEF IInv, EventOK

(* The signal is taken, and how the event ended can be read.               *)
LEMMA SyncWokenKeeps ==
    ASSUME IInv, NEW e \in Events, SyncWoken(e)
    PROVE  IInv'
<1>1. /\ TypeOK /\ Counted(e) /\ Untouched(e) /\ Uncalled(e) /\ Sending(e)
      /\ Answered(e) /\ Told(e) /\ GivenUp(e) /\ Removed(e) /\ Taken
  BY DEF IInv, EventOK
<1>2. event \in [Events -> EventRecord]
  BY <1>1, EventsTyped
<1>3. /\ event[e] \in EventRecord /\ event'[e] \in EventRecord
      /\ event' \in [Events -> EventRecord]
      /\ event'[e].m_Status = event[e].m_Status
      /\ event'[e].m_cRef = event[e].m_cRef
      /\ \A d \in Events \ {e} : event'[d] = event[d]
  BY <1>2 DEF EventRecord, SyncWoken
<1>4. e \in Pending => /\ event'[e].priority = event[e].priority
                       /\ event'[e].m_when = event[e].m_when
  BY <1>2 DEF EventRecord, SyncWoken
<1>5. TypeOK'
  <2>1. "woken" \in CallerPCs
    BY DEF CallerPCs, AfterPost
  <2>2. m_pThreadEvent' \in Nat /\ abandoned' \subseteq Events
    BY <1>1 DEF TypeOK, SyncWoken, context, history
  <2>3. result' \in [Events -> {"none", "NOERROR", "E_TIMED_OUT", "E_CALLBACK_CANCELED"}]
    BY <1>1 DEF TypeOK, SyncWoken
  <2> QED
    BY <1>1, <1>3, <2>1, <2>2, <2>3, TypedAgain DEF SyncWoken, context, history
<1>6. /\ Taken' /\ Pending' = Pending
      /\ \A d \in Events \ {e} : EventOK(d)'
      /\ Distinct' /\ QueueSorted'
  BY <1>1, <1>3, <1>4, CallerMoves DEF SyncWoken, CallerGoes, context, history
<1>7. NoLostWakeup'
  BY <1>1 DEF IInv, NoLostWakeup, SyncWoken, CallerGoes, context, loop
<1>8. Counted(e)'
  BY <1>1, <1>3, <1>6 DEF Counted, SyncWoken, CallerGoes, loop
<1>9. Untouched(e)'
  BY <1>1, <1>6 DEF Untouched, SyncWoken, CallerGoes
<1>10. Uncalled(e)'
  BY <1>1, <1>6 DEF Uncalled, SyncWoken, loop, history
<1>11. Sending(e)'
  BY <1>1, <1>6 DEF Sending, SyncWoken
<1>12. Answered(e)'
  BY <1>1, <1>3, <1>6 DEF Answered, Over, SyncWoken, loop, history
<1>13. Told(e)'
  BY <1>1, <1>6 DEF Told, Sending, SyncWoken
<1>14. GivenUp(e)'
  BY <1>1, <1>3, <1>6 DEF GivenUp, SyncWoken, loop, history
<1>15. Removed(e)'
  BY <1>1, <1>6 DEF Removed, Over, SyncWoken, CallerGoes, loop, history
<1> QED
  BY <1>5, <1>6, <1>7, <1>8, <1>9, <1>10, <1>11, <1>12, <1>13, <1>14, <1>15
     DEF IInv, EventOK

(* A sender that gives up has not been answered.                           *)
LEMMA SyncTimedOutKeeps ==
    ASSUME IInv, NEW e \in Events, SyncTimedOut(e)
    PROVE  IInv'
<1>1. /\ TypeOK /\ Counted(e) /\ Untouched(e) /\ Uncalled(e) /\ Sending(e)
      /\ Answered(e) /\ Told(e) /\ GivenUp(e) /\ Removed(e) /\ Taken
  BY DEF IInv, EventOK
<1>2. event \in [Events -> EventRecord]
  BY <1>1, EventsTyped
<1>3. /\ event' = event /\ event' \in [Events -> EventRecord]
      /\ \A d \in Events \ {e} : event'[d] = event[d]
  BY <1>2 DEF SyncTimedOut
<1>4. e \in Pending => /\ event'[e].priority = event[e].priority
                       /\ event'[e].m_when = event[e].m_when
  BY <1>3
<1>5. TypeOK'
  <2>1. "timed_out" \in CallerPCs
    BY DEF CallerPCs, AfterPost
  <2>2. m_pThreadEvent' \in Nat /\ abandoned' \subseteq Events
    BY <1>1 DEF TypeOK, SyncTimedOut, context, history
  <2>3. result' \in [Events -> {"none", "NOERROR", "E_TIMED_OUT", "E_CALLBACK_CANCELED"}]
    BY <1>1 DEF TypeOK, SyncTimedOut
  <2> QED
    BY <1>1, <1>3, <2>1, <2>2, <2>3, TypedAgain DEF SyncTimedOut, context, history
<1>6. /\ Taken' /\ Pending' = Pending
      /\ \A d \in Events \ {e} : EventOK(d)'
      /\ Distinct' /\ QueueSorted'
  BY <1>1, <1>3, <1>4, CallerMoves DEF SyncTimedOut, CallerGoes, context, history
<1>7. NoLostWakeup'
  BY <1>1 DEF IInv, NoLostWakeup, SyncTimedOut, CallerGoes, context, loop
<1>8. Counted(e)'
  BY <1>1, <1>3, <1>6 DEF Counted, SyncTimedOut, CallerGoes, loop
<1>9. Untouched(e)'
  BY <1>1, <1>6 DEF Untouched, SyncTimedOut, CallerGoes
<1>10. Uncalled(e)'
  BY <1>1, <1>6 DEF Uncalled, SyncTimedOut, loop, history
<1>11. Sending(e)'
  BY <1>1, <1>6 DEF Sending, SyncTimedOut
<1>12. Answered(e)'
  BY <1>1, <1>3, <1>6 DEF Answered, Over, SyncTimedOut, CallerGoes, loop, history
<1>13. Told(e)'
  BY <1>1, <1>6 DEF Told, Sending, SyncTimedOut
<1>14. GivenUp(e)'
  BY <1>1, <1>3, <1>6 DEF GivenUp, SyncTimedOut, loop, history
<1>15. Removed(e)'
  BY <1>1, <1>6 DEF Removed, Over, SyncTimedOut, CallerGoes, loop, history
<1> QED
  BY <1>5, <1>6, <1>7, <1>8, <1>9, <1>10, <1>11, <1>12, <1>13, <1>14, <1>15
     DEF IInv, EventOK

(* The status read is the one the event ended with, unless it timed out.   *)
LEMMA SendResultKeeps ==
    ASSUME IInv, NEW e \in Events, SendResult(e)
    PROVE  IInv'
<1>1. /\ TypeOK /\ Counted(e) /\ Untouched(e) /\ Uncalled(e) /\ Sending(e)
      /\ Answered(e) /\ Told(e) /\ GivenUp(e) /\ Removed(e) /\ Taken
  BY DEF IInv, EventOK
<1>2. event \in [Events -> EventRecord]
  BY <1>1, EventsTyped
<1>3. /\ event' = event /\ event' \in [Events -> EventRecord]
      /\ \A d \in Events \ {e} : event'[d] = event[d]
  BY <1>2 DEF SendResult
<1>4. e \in Pending => /\ event'[e].priority = event[e].priority
                       /\ event'[e].m_when = event[e].m_when
  BY <1>3
<1>5. TypeOK'
  <2>1. (IF caller[e] = "timed_out" THEN "mark" ELSE "release") \in CallerPCs
    BY DEF CallerPCs, AfterPost
  <2>2. m_pThreadEvent' \in Nat /\ abandoned' \subseteq Events
    BY <1>1 DEF TypeOK, SendResult, context, history
  <2>3. result' \in [Events -> {"none", "NOERROR", "E_TIMED_OUT", "E_CALLBACK_CANCELED"}]
    BY <1>1 DEF TypeOK, SendResult
  <2> QED
    BY <1>1, <1>3, <2>1, <2>2, <2>3, TypedAgain DEF SendResult, context, history
<1>6. /\ Taken' /\ Pending' = Pending
      /\ \A d \in Events \ {e} : EventOK(d)'
      /\ Distinct' /\ QueueSorted'
  BY <1>1, <1>3, <1>4, CallerMoves DEF SendResult, CallerGoes, context, history
<1>7. NoLostWakeup'
  BY <1>1 DEF IInv, NoLostWakeup, SendResult, CallerGoes, context, loop
<1>8. Counted(e)'
  BY <1>1, <1>3, <1>6 DEF Counted, SendResult, CallerGoes, loop
<1>9. Untouched(e)'
  BY <1>1, <1>6 DEF Untouched, SendResult, CallerGoes
<1>10. Uncalled(e)'
  BY <1>1, <1>6 DEF Uncalled, SendResult, loop, history
<1>11. Sending(e)'
  BY <1>1, <1>6 DEF TypeOK, Sending, SendResult, CallerGoes
<1>12. Answered(e)'
  BY <1>1, <1>3, <1>6 DEF Answered, Over, SendResult, CallerGoes, loop, history
<1>13. Told(e)'
  BY <1>1, <1>6 DEF Told, Over, Answered, Sending, SendResult, loop, history
<1>14. GivenUp(e)'
  BY <1>1, <1>3, <1>6 DEF GivenUp, SendResult, loop, history
<1>15. Removed(e)'
  BY <1>1, <1>6 DEF Removed, Over, SendResult, CallerGoes, loop, history
<1> QED
  BY <1>5, <1>6, <1>7, <1>8, <1>9, <1>10, <1>11, <1>12, <1>13, <1>14, <1>15
     DEF IInv, EventOK

(* The mark is put after the answer was read from the status.              *)
LEMMA MarkCancelledKeeps ==
    ASSUME IInv, NEW e \in Events, MarkCancelled(e)
    PROVE  IInv'
<1>1. /\ TypeOK /\ Counted(e) /\ Untouched(e) /\ Uncalled(e) /\ Sending(e)
      /\ Answered(e) /\ Told(e) /\ GivenUp(e) /\ Removed(e) /\ Taken
  BY DEF IInv, EventOK
<1>2. event \in [Events -> EventRecord]
  BY <1>1, EventsTyped
<1>3. /\ event[e] \in EventRecord /\ event'[e] \in EventRecord
      /\ event' \in [Events -> EventRecord]
      /\ event'[e].m_Status = "cancelled"
      /\ event'[e].m_cRef = event[e].m_cRef
      /\ \A d \in Events \ {e} : event'[d] = event[d]
  BY <1>2 DEF EventRecord, Statuses, MarkCancelled
<1>4. e \in Pending => /\ event'[e].priority = event[e].priority
                       /\ event'[e].m_when = event[e].m_when
  BY <1>2 DEF EventRecord, MarkCancelled
<1>5. TypeOK'
  <2>1. "release" \in CallerPCs
    BY DEF CallerPCs, AfterPost
  <2>2. m_pThreadEvent' \in Nat /\ abandoned' \subseteq Events
    BY <1>1 DEF TypeOK, MarkCancelled, context
  <2>3. result' \in [Events -> {"none", "NOERROR", "E_TIMED_OUT", "E_CALLBACK_CANCELED"}]
    BY <1>1 DEF TypeOK, MarkCancelled
  <2> QED
    BY <1>1, <1>3, <2>1, <2>2, <2>3, TypedAgain DEF MarkCancelled, context
<1>6. /\ Taken' /\ Pending' = Pending
      /\ \A d \in Events \ {e} : EventOK(d)'
      /\ Distinct' /\ QueueSorted'
  BY <1>1, <1>3, <1>4, CallerMoves DEF MarkCancelled, CallerGoes, context
<1>7. NoLostWakeup'
  BY <1>1 DEF IInv, NoLostWakeup, MarkCancelled, CallerGoes, context, loop
<1>8. Counted(e)'
  BY <1>1, <1>3, <1>6 DEF Counted, MarkCancelled, CallerGoes, loop
<1>9. Untouched(e)'
  BY <1>1, <1>6 DEF Untouched, MarkCancelled, CallerGoes
<1>10. Uncalled(e)'
  BY <1>1, <1>6 DEF Uncalled, MarkCancelled, loop
<1>11. Sending(e)'
  BY <1>1, <1>6 DEF Sending, MarkCancelled, CallerGoes
<1>12. Answered(e)'
  BY <1>1, <1>3, <1>6 DEF Answered, MarkCancelled, CallerGoes
<1>13. Told(e)'
  BY <1>1, <1>6 DEF Told, Over, MarkCancelled, loop
<1>14. GivenUp(e)'
  BY <1>1, <1>3, <1>6 DEF GivenUp, Sending, Uncalled, Taken, MarkCancelled, loop
<1>15. Removed(e)'
  BY <1>1, <1>6 DEF Removed, Over, MarkCancelled, CallerGoes, loop
<1> QED
  BY <1>5, <1>6, <1>7, <1>8, <1>9, <1>10, <1>11, <1>12, <1>13, <1>14, <1>15
     DEF IInv, EventOK

(* An event in the queue or being handled is not freed with it.            *)
LEMMA ReleaseEventKeeps ==
    ASSUME IInv, NEW e \in Events, ReleaseEvent(e)
    PROVE  IInv'
<1>1. /\ TypeOK /\ Counted(e) /\ Untouched(e) /\ Uncalled(e) /\ Sending(e)
      /\ Answered(e) /\ Told(e) /\ GivenUp(e) /\ Removed(e) /\ Taken
  BY DEF IInv, EventOK
<1>2. event \in [Events -> EventRecord]
  BY <1>1, EventsTyped
<1>3. /\ event'[e] = Released(event[e])
      /\ event[e] \in EventRecord /\ event'[e] \in EventRecord
      /\ event' \in [Events -> EventRecord]
      /\ event'[e].m_cRef = event[e].m_cRef - 1 /\ event[e].m_cRef \in Nat
      /\ \A d \in Events \ {e} : event'[d] = event[d]
      /\ e \in Pending \/ e = pCallbackEvent =>
            event'[e].m_Status = event[e].m_Status
  BY <1>1, <1>2, ReleasedIs DEF Counted, One, ReleaseEvent
<1>4. e \in Pending => /\ event'[e].priority = event[e].priority
                       /\ event'[e].m_when = event[e].m_when
  BY <1>1, <1>2, <1>3, ReleasedIs DEF Counted, One, ReleaseEvent
<1>5. TypeOK'
  <2>1. "done" \in CallerPCs
    BY DEF CallerPCs, AfterPost
  <2>2. m_pThreadEvent' \in Nat /\ abandoned' \subseteq Events
    BY <1>1 DEF TypeOK, ReleaseEvent, context, history
  <2>3. result' \in [Events -> {"none", "NOERROR", "E_TIMED_OUT", "E_CALLBACK_CANCELED"}]
    BY <1>1 DEF TypeOK, ReleaseEvent
  <2> QED
    BY <1>1, <1>3, <2>1, <2>2, <2>3, TypedAgain DEF ReleaseEvent, context, history
<1>6. /\ Taken' /\ Pending' = Pending
      /\ \A d \in Events \ {e} : EventOK(d)'
      /\ Distinct' /\ QueueSorted'
  BY <1>1, <1>3, <1>4, CallerMoves DEF ReleaseEvent, CallerGoes, context, history
<1>7. NoLostWakeup'
  BY <1>1 DEF IInv, NoLostWakeup, ReleaseEvent, CallerGoes, context, loop
<1>8. Counted(e)'
  BY <1>1, <1>3, <1>6 DEF TypeOK, Counted, One, ReleaseEvent, CallerGoes, loop
<1>9. Untouched(e)'
  BY <1>1, <1>6 DEF Untouched, ReleaseEvent, CallerGoes
<1>10. Uncalled(e)'
  BY <1>1, <1>6 DEF Uncalled, ReleaseEvent, loop, history
<1>11. Sending(e)'
  BY <1>1, <1>6 DEF Sending, ReleaseEvent, CallerGoes
<1>12. Answered(e)'
  BY <1>1, <1>3, <1>6 DEF Answered, ReleaseEvent, CallerGoes
<1>13. Told(e)'
  BY <1>1, <1>6 DEF Told, Over, ReleaseEvent, loop, history
<1>14. GivenUp(e)'
  BY <1>1, <1>3, <1>6 DEF GivenUp, ReleaseEvent, loop, history
<1>15. Removed(e)'
  BY <1>1, <1>6 DEF Removed, Over, ReleaseEvent, CallerGoes, loop, history
<1> QED
  BY <1>5, <1>6, <1>7, <1>8, <1>9, <1>10, <1>11, <1>12, <1>13, <1>14, <1>15
     DEF IInv, EventOK
-----------------------------------------------------------------------------

(* A step that touches no event and, while one is being handled, leaves    *)
(* the callback thread where it is.                                        *)
LEMMA EventsUntouched ==
    ASSUME IInv, UNCHANGED <<m_eventQueue, event, pCallbackEvent, caller, result,
                             invoked, abandoned>>,
           quiet' \subseteq quiet, canceller' \subseteq canceller,
           pCallbackEvent \in Events => handler' = handler,
           pCallbackEvent \notin Events =>
                handler' \notin {"begin", "start", "running", "pop"}
    PROVE  Taken' /\ Distinct' /\ QueueSorted' /\ \A e \in Events : EventOK(e)'
<1>1. Pending' = Pending
  BY DEF Pending
<1>2. Taken'
  BY <1>1 DEF IInv, Taken
<1>3. Distinct' /\ QueueSorted'
  BY QueueUntouched DEF IInv
<1>4. ASSUME NEW e \in Events
      PROVE  EventOK(e)'
  BY <1>1, <1>4, EventUntouched DEF IInv
<1> QED
  BY <1>2, <1>3, <1>4

LEMMA TickKeeps == IInv /\ Tick => IInv'
<1> SUFFICES ASSUME IInv, Tick PROVE IInv'
  OBVIOUS
<1>1. TypeOK'
  <2>1. now' \in 0 .. MaxTime
    BY EventsAssumption DEF IInv, TypeOK, Tick
  <2> QED
    BY <2>1 DEF IInv, TypeOK, Tick, context, loop, history, meanwhile
<1>2. Taken' /\ Distinct' /\ QueueSorted' /\ \A e \in Events : EventOK(e)'
  BY EventsUntouched DEF IInv, Taken, Tick, context, loop, history
<1>3. NoLostWakeup'
  BY DEF IInv, NoLostWakeup, Tick, context, loop
<1> QED
  BY <1>1, <1>2, <1>3 DEF IInv

LEMMA StoreRequestToQuitKeeps == IInv /\ StoreRequestToQuit => IInv'
<1> SUFFICES ASSUME IInv, StoreRequestToQuit PROVE IInv'
  OBVIOUS
<1>1. TypeOK'
  BY DEF IInv, TypeOK, StoreRequestToQuit, loop, history, meanwhile
<1>2. Taken' /\ Distinct' /\ QueueSorted' /\ \A e \in Events : EventOK(e)'
  BY EventsUntouched DEF IInv, Taken, StoreRequestToQuit, loop, history
<1>3. NoLostWakeup'
  BY DEF IInv, NoLostWakeup, StoreRequestToQuit, loop
<1> QED
  BY <1>1, <1>2, <1>3 DEF IInv

LEMMA StoreExitRequestedKeeps == IInv /\ StoreExitRequested => IInv'
<1> SUFFICES ASSUME IInv, StoreExitRequested PROVE IInv'
  OBVIOUS
<1>1. TypeOK'
  BY DEF IInv, TypeOK, StoreExitRequested, loop, history, meanwhile
<1>2. Taken' /\ Distinct' /\ QueueSorted' /\ \A e \in Events : EventOK(e)'
  BY EventsUntouched DEF IInv, Taken, StoreExitRequested, loop, history
<1>3. NoLostWakeup'
  BY DEF IInv, NoLostWakeup, StoreExitRequested, loop
<1> QED
  BY <1>1, <1>2, <1>3 DEF IInv

LEMMA FinishPostedKeeps == IInv /\ FinishPosted => IInv'
<1> SUFFICES ASSUME IInv, FinishPosted PROVE IInv'
  OBVIOUS
<1>1. TypeOK'
  <2>1. m_pThreadEvent' \in Nat
    BY DEF IInv, TypeOK, FinishPosted
  <2>2. finisher' \in [flag : Finishes \cup {"none"},
                      stores : SUBSET {"m_bExitRequested", "m_bRequestToQuit"}]
    BY DEF IInv, TypeOK, FinishPosted
  <2> QED
    BY <2>1, <2>2 DEF IInv, TypeOK, FinishPosted, loop, history, meanwhile
<1>2. Taken' /\ Distinct' /\ QueueSorted' /\ \A e \in Events : EventOK(e)'
  BY EventsUntouched DEF IInv, Taken, FinishPosted, loop, history
<1>3. NoLostWakeup'
  BY DEF IInv, TypeOK, NoLostWakeup, FinishPosted
<1> QED
  BY <1>1, <1>2, <1>3 DEF IInv

LEMMA CheckKeeps == IInv /\ Check => IInv'
<1> SUFFICES ASSUME IInv, Check PROVE IInv'
  OBVIOUS
<1>1. TypeOK'
  BY DEF IInv, TypeOK, HandlerPCs, Check, context, history, HandlerGoes, meanwhile
<1>2. Taken' /\ Distinct' /\ QueueSorted' /\ \A e \in Events : EventOK(e)'
  BY EventsUntouched DEF IInv, Taken, Check, context, history, HandlerGoes
<1>3. NoLostWakeup'
  BY DEF NoLostWakeup, Check, HandlerGoes
<1> QED
  BY <1>1, <1>2, <1>3 DEF IInv

LEMMA WaitKeeps == IInv /\ Wait => IInv'
<1> SUFFICES ASSUME IInv, Wait PROVE IInv'
  OBVIOUS
<1>1. TypeOK'
  <2>1. m_pThreadEvent' \in Nat /\ handler' \in HandlerPCs
    BY DEF IInv, TypeOK, HandlerPCs, Wait, HandlerGoes
  <2> QED
    BY <2>1 DEF IInv, TypeOK, Wait, history, HandlerGoes, meanwhile
<1>2. Taken' /\ Distinct' /\ QueueSorted' /\ \A e \in Events : EventOK(e)'
  BY EventsUntouched DEF IInv, Taken, Wait, history, HandlerGoes
<1>3. NoLostWakeup'
  BY DEF NoLostWakeup, Wait, HandlerGoes
<1> QED
  BY <1>1, <1>2, <1>3 DEF IInv

LEMMA RequestToFinishKeeps ==
    ASSUME IInv, NEW flag \in Finishes, RequestToFinish(flag)
    PROVE  IInv'
<1>1. TypeOK'
  BY DEF IInv, TypeOK, RequestToFinish, context, loop, history, meanwhile
<1>2. Taken' /\ Distinct' /\ QueueSorted' /\ \A e \in Events : EventOK(e)'
  BY EventsUntouched DEF IInv, Taken, RequestToFinish, context, loop, history
<1>3. NoLostWakeup'
  BY DEF IInv, NoLostWakeup, RequestToFinish, context, loop
<1> QED
  BY <1>1, <1>2, <1>3 DEF IInv

(* With m_workingLock the event that was busy is over.                     *)
LEMMA TryWorkingLockKeeps == IInv /\ TryWorkingLock => IInv'
<1> SUFFICES ASSUME IInv, TryWorkingLock PROVE IInv'
  OBVIOUS
<1>1. TypeOK'
  BY DEF IInv, TypeOK, TryWorkingLock, context, loop, meanwhile
<1>2. Pending' = Pending /\ UNCHANGED <<handler, pCallbackEvent>>
  BY DEF Pending, TryWorkingLock, context, loop
<1>3. Taken' /\ Distinct' /\ QueueSorted'
  BY <1>2, QueueUntouched DEF IInv, Taken, TryWorkingLock, context
<1>4. NoLostWakeup'
  BY DEF IInv, NoLostWakeup, TryWorkingLock, context, loop
<1>5. ASSUME NEW e \in Events
      PROVE  EventOK(e)'
  <2>1. Counted(e) /\ Untouched(e) /\ Uncalled(e) /\ Sending(e) /\ Answered(e) /\ Told(e)
        /\ GivenUp(e) /\ Removed(e) /\ Taken
    BY DEF IInv, EventOK
  <2>2. Counted(e)' /\ Uncalled(e)' /\ Sending(e)'
    BY <1>2, <2>1 DEF Counted, Uncalled, Sending, TryWorkingLock
  <2>3. Answered(e)' /\ Told(e)' /\ GivenUp(e)'
    BY <1>2, <2>1 DEF Answered, Told, GivenUp, Over, TryWorkingLock
  <2>4. Untouched(e)'
    BY <1>2, <2>1 DEF Untouched, TryWorkingLock
  <2>5. Removed(e)'
    <3>1. pCallbackEvent = e => handler \in {"begin", "start", "running", "pop"}
      BY <2>1 DEF Taken
    <3> QED
      BY <1>2, <2>1, <3>1 DEF Removed, Over, TryWorkingLock, WorkingLockFree
  <2> QED
    BY <2>2, <2>3, <2>4, <2>5 DEF EventOK
<1> QED
  BY <1>1, <1>3, <1>4, <1>5 DEF IInv
-----------------------------------------------------------------------------

(* The callback thread moves on with the event it has taken.               *)
LEMMA HandlerMoves ==
    ASSUME IInv, NEW e \in Events, e = pCallbackEvent,
           UNCHANGED <<m_eventQueue, caller, result, abandoned, quiet, canceller>>,
           pCallbackEvent' \in {e, NoEvent},
           \A d \in Events \ {e} : event'[d] = event[d] /\ (d \in invoked' <=> d \in invoked)
    PROVE  /\ \A d \in Events \ {e} : EventOK(d)'
           /\ Pending' = Pending /\ Distinct' /\ QueueSorted'
           /\ Pending' \subseteq Events
<1>1. Pending' = Pending /\ Pending \subseteq Events /\ e \notin Pending
  BY DEF IInv, TypeOK, Taken, Pending, Range
<1>2. Distinct' /\ QueueSorted'
  BY <1>1, QueueUntouched DEF IInv
<1>3. ASSUME NEW d \in Events \ {e}
      PROVE  EventOK(d)'
  <2>1. d # pCallbackEvent /\ d # pCallbackEvent'
    BY EventsAssumption
  <2> QED
    BY <1>1, <2>1, EventUntouched DEF IInv
<1> QED
  BY <1>1, <1>2, <1>3 DEF IInv

(* An event whose sender gave up is signalled, and not called.             *)
LEMMA BeginKeeps == IInv /\ Begin => IInv'
<1> SUFFICES ASSUME IInv, Begin PROVE IInv'
  OBVIOUS
<1> DEFINE e == pCallbackEvent
<1>1. /\ TypeOK /\ Taken /\ e \in Events /\ Counted(e) /\ Untouched(e) /\ Uncalled(e)
      /\ Sending(e) /\ Answered(e) /\ Told(e) /\ GivenUp(e) /\ Removed(e)
  BY DEF IInv, Taken, EventOK, Begin
<1>2. event \in [Events -> EventRecord] /\ event[e] \in EventRecord
  BY <1>1, EventsTyped
<1>3. /\ event' \in [Events -> EventRecord]
      /\ event'[e].m_cRef = event[e].m_cRef
      /\ event'[e].m_Status = event[e].m_Status
      /\ \A d \in Events \ {e} : event'[d] = event[d]
      /\ \/ event'[e] = event[e]
         \/ event[e].m_Status = "cancelled" /\ handler' = "pop"
      /\ handler' = "start" => ~(e \in SyncCall /\ event[e].m_Status = "cancelled")
      /\ handler' \in {"start", "pop"} /\ pCallbackEvent' = pCallbackEvent
  BY <1>2, SignalledIs DEF Statuses, Begin, HandlerGoes
<1>4. TypeOK'
  BY <1>1, <1>3
     DEF TypeOK, HandlerPCs, EventRecord, Statuses, Begin, context, history,
         HandlerGoes, meanwhile
<1>5. PICK x \in Events : x = e
  BY <1>1
<1>6. /\ \A d \in Events \ {x} : EventOK(d)'
      /\ Pending' = Pending /\ Distinct' /\ QueueSorted' /\ Pending' \subseteq Events
  BY <1>3, <1>5, HandlerMoves DEF Begin, context, history
<1>7. Taken'
  BY <1>1, <1>6, EventsAssumption DEF Taken, Begin, HandlerGoes
<1>8. NoLostWakeup'
  BY DEF NoLostWakeup, Begin, HandlerGoes
<1>9. Counted(x)'
  BY <1>1, <1>3, <1>5, <1>6, EventsAssumption DEF Counted, Begin
<1>10. Untouched(x)' /\ Uncalled(x)' /\ Sending(x)'
  BY <1>1, <1>5, <1>6 DEF Untouched, Uncalled, Sending, Begin, history
<1>11. Answered(x)'
  BY <1>1, <1>2, <1>3, <1>5, <1>6 DEF Answered, Over, Begin
<1>12. Told(x)'
  BY <1>1, <1>5, <1>6 DEF Told, Over, Begin
<1>13. GivenUp(x)'
  BY <1>1, <1>3, <1>5, <1>6, EventsAssumption DEF GivenUp, Begin, history
<1>14. Removed(x)'
  BY <1>1, <1>5, <1>6 DEF Removed, Over, Begin, history
<1> QED
  BY <1>4, <1>5, <1>6, <1>7, <1>8, <1>9, <1>10, <1>11, <1>12, <1>13, <1>14
     DEF IInv, EventOK

(* The sender has not been answered: the event was not over.               *)
LEMMA StartKeeps == IInv /\ Start => IInv'
<1> SUFFICES ASSUME IInv, Start PROVE IInv'
  OBVIOUS
<1> DEFINE e == pCallbackEvent
<1>1. /\ TypeOK /\ Taken /\ e \in Events /\ Counted(e) /\ Untouched(e) /\ Uncalled(e)
      /\ Sending(e) /\ Answered(e) /\ Told(e) /\ GivenUp(e) /\ Removed(e)
  BY DEF IInv, Taken, EventOK, Start
<1>2. event \in [Events -> EventRecord] /\ event[e] \in EventRecord
  BY <1>1, EventsTyped
<1>3. /\ event' \in [Events -> EventRecord]
      /\ event'[e].m_cRef = event[e].m_cRef
      /\ event'[e].m_pSyncEvent = event[e].m_pSyncEvent
      /\ e \in SyncCall => event'[e].m_Status = "running"
      /\ e \notin SyncCall => event'[e].m_Status = event[e].m_Status
      /\ \A d \in Events \ {e} : event'[d] = event[d]
  <2>1. CASE e \in SyncCall
    <3>1. event' = [event EXCEPT ![e].m_Status = "running"]
      BY <2>1 DEF Start
    <3> HIDE DEF e
    <3> QED
      BY <1>1, <1>2, <2>1, <3>1 DEF EventRecord, Statuses
  <2>2. CASE e \notin SyncCall
    BY <1>2, <2>2 DEF EventRecord, Start
  <2> QED
    BY <2>1, <2>2
<1>4. TypeOK'
  BY <1>1, <1>3 DEF TypeOK, HandlerPCs, EventRecord, Start, context, HandlerGoes, meanwhile
<1>5. PICK x \in Events : x = e
  BY <1>1
<1>6. /\ \A d \in Events \ {x} : EventOK(d)'
      /\ Pending' = Pending /\ Distinct' /\ QueueSorted' /\ Pending' \subseteq Events
  BY <1>3, <1>5, HandlerMoves DEF Start, context, HandlerGoes
<1>7. Taken'
  BY <1>1, <1>6, EventsAssumption DEF Taken, Start, HandlerGoes
<1>8. NoLostWakeup'
  BY DEF NoLostWakeup, Start, HandlerGoes
<1>9. Counted(x)'
  BY <1>1, <1>3, <1>5, <1>6, EventsAssumption DEF Counted, Start, HandlerGoes
<1>10. Untouched(x)' /\ Uncalled(x)' /\ Sending(x)'
  BY <1>1, <1>5, <1>6 DEF Untouched, Uncalled, Sending, Taken, Start, HandlerGoes
<1>11. Answered(x)'
  BY <1>1, <1>2, <1>3, <1>5, <1>6 DEF Answered, Over, Start
<1>12. Told(x)'
  BY <1>1, <1>5, <1>6 DEF Told, Over, Start
<1>13. GivenUp(x)'
  BY <1>1, <1>3, <1>5, <1>6, EventsAssumption DEF GivenUp, Start
<1>14. Removed(x)'
  BY <1>1, <1>5, <1>6 DEF Removed, Over, Start
<1> QED
  BY <1>4, <1>5, <1>6, <1>7, <1>8, <1>9, <1>10, <1>11, <1>12, <1>13, <1>14
     DEF IInv, EventOK

(* The event is over, and its sender is told that it was called.           *)
LEMMA CompleteKeeps == IInv /\ Complete => IInv'
<1> SUFFICES ASSUME IInv, Complete PROVE IInv'
  OBVIOUS
<1> DEFINE e == pCallbackEvent
<1>1. /\ TypeOK /\ Taken /\ e \in Events /\ Counted(e) /\ Untouched(e) /\ Uncalled(e)
      /\ Sending(e) /\ Answered(e) /\ Told(e) /\ GivenUp(e) /\ Removed(e)
  BY DEF IInv, Taken, EventOK, Complete
<1>2. event \in [Events -> EventRecord] /\ event[e] \in EventRecord
  BY <1>1, EventsTyped
<1>3. /\ event' \in [Events -> EventRecord]
      /\ event'[e].m_cRef = event[e].m_cRef
      /\ e \in SyncCall => event'[e].m_Status = "completed"
      /\ e \notin SyncCall => event' = event
      /\ \A d \in Events \ {e} : event'[d] = event[d]
  <2>1. CASE e \in SyncCall
    <3>1. event' = [event EXCEPT ![e] = Signalled(event[e], "completed")]
      BY <2>1 DEF Complete
    <3> HIDE DEF e
    <3> QED
      BY <1>1, <1>2, <2>1, <3>1, SignalledIs DEF Statuses
  <2>2. CASE e \notin SyncCall
    BY <1>2, <2>2 DEF EventRecord, Complete
  <2> QED
    BY <2>1, <2>2
<1>4. TypeOK'
  BY <1>1, <1>3
     DEF TypeOK, HandlerPCs, EventRecord, Complete, context, history, HandlerGoes, meanwhile
<1>5. PICK x \in Events : x = e
  BY <1>1
<1>6. /\ \A d \in Events \ {x} : EventOK(d)'
      /\ Pending' = Pending /\ Distinct' /\ QueueSorted' /\ Pending' \subseteq Events
  BY <1>3, <1>5, HandlerMoves DEF Complete, context, history, HandlerGoes
<1>7. Taken'
  BY <1>1, <1>6, EventsAssumption DEF Taken, Complete, HandlerGoes
<1>8. NoLostWakeup'
  BY DEF NoLostWakeup, Complete, HandlerGoes
<1>9. Counted(x)'
  BY <1>1, <1>3, <1>5, <1>6, EventsAssumption DEF Counted, Complete, HandlerGoes
<1>10. Untouched(x)' /\ Uncalled(x)' /\ Sending(x)'
  BY <1>1, <1>5, <1>6 DEF Untouched, Uncalled, Sending, Complete, history, HandlerGoes
<1>11. Answered(x)'
  BY <1>1, <1>2, <1>3, <1>5, <1>6
     DEF Answered, Over, Taken, Complete, history, HandlerGoes
<1>12. Told(x)'
  BY <1>1, <1>5, <1>6 DEF Told, Over, Complete
<1>13. GivenUp(x)'
  BY <1>1, <1>3, <1>5, <1>6, EventsAssumption DEF GivenUp, Complete, history
<1>14. Removed(x)'
  BY <1>1, <1>5, <1>6 DEF Removed, Over, Complete, history
<1> QED
  BY <1>4, <1>5, <1>6, <1>7, <1>8, <1>9, <1>10, <1>11, <1>12, <1>13, <1>14
     DEF IInv, EventOK

(* The reference of the callback thread goes; the sender keeps its own.    *)
LEMMA PopKeeps == IInv /\ Pop => IInv'
<1> SUFFICES ASSUME IInv, Pop PROVE IInv'
  OBVIOUS
<1> DEFINE e == pCallbackEvent
<1>1. /\ TypeOK /\ Taken /\ e \in Events /\ Counted(e) /\ Untouched(e) /\ Uncalled(e)
      /\ Sending(e) /\ Answered(e) /\ Told(e) /\ GivenUp(e) /\ Removed(e)
  BY DEF IInv, Taken, EventOK, Pop
<1>2. event \in [Events -> EventRecord] /\ event[e] \in EventRecord
  BY <1>1, EventsTyped
<1>3. /\ event' \in [Events -> EventRecord]
      /\ event'[e].m_cRef = event[e].m_cRef - 1 /\ event[e].m_cRef \in Nat
      /\ caller[e] # "done" => /\ event'[e].m_Status = event[e].m_Status
                               /\ event'[e].m_pSyncEvent = event[e].m_pSyncEvent
      /\ \A d \in Events \ {e} : event'[d] = event[d]
  BY <1>1, <1>2, ReleasedIs DEF Counted, One, Pop
<1>4. TypeOK'
  BY <1>1, <1>3 DEF TypeOK, HandlerPCs, EventRecord, Statuses, Pop, context, history, meanwhile
<1>5. PICK x \in Events : x = e
  BY <1>1
<1>6. /\ \A d \in Events \ {x} : EventOK(d)'
      /\ Pending' = Pending /\ Distinct' /\ QueueSorted' /\ Pending' \subseteq Events
  BY <1>3, <1>5, HandlerMoves DEF Pop, context, history
<1>7. Taken'
  BY <1>1, <1>6, EventsAssumption DEF Taken, Pop
<1>8. NoLostWakeup'
  BY DEF NoLostWakeup, Pop
<1>9. Counted(x)'
  BY <1>1, <1>3, <1>5, <1>6, EventsAssumption DEF Counted, One, Pop
<1>10. Untouched(x)' /\ Uncalled(x)' /\ Sending(x)'
  BY <1>1, <1>5, <1>6 DEF Untouched, Uncalled, Sending, Pop, history
<1>11. Answered(x)'
  BY <1>1, <1>2, <1>3, <1>5, <1>6, EventsAssumption DEF Answered, Over, Pop, history
<1>12. Told(x)'
  BY <1>1, <1>5, <1>6, EventsAssumption DEF Told, Over, Pop, history
<1>13. GivenUp(x)'
  BY <1>1, <1>3, <1>5, <1>6, EventsAssumption DEF GivenUp, Taken, Pop, history
<1>14. Removed(x)'
  BY <1>1, <1>5, <1>6, EventsAssumption DEF Removed, Over, Pop, history
<1> QED
  BY <1>4, <1>5, <1>6, <1>7, <1>8, <1>9, <1>10, <1>11, <1>12, <1>13, <1>14
     DEF IInv, EventOK
-----------------------------------------------------------------------------

(* A queue that keeps some of the entries, in their order.                 *)
LEMMA QueueThinned ==
    ASSUME NEW q \in Seq(Events), NEW rest \in Seq(Events),
           NEW from \in [DOMAIN rest -> DOMAIN q],
           \A i \in DOMAIN rest : rest[i] = q[from[i]],
           \A i, j \in DOMAIN rest : i < j => from[i] < from[j]
    PROVE  /\ DistinctIn(q) => DistinctIn(rest)
           /\ SortedIn(q, event) => SortedIn(rest, event)
<1>1. DOMAIN rest \subseteq Int /\ DOMAIN q \subseteq Int
  OBVIOUS
<1>2. ASSUME DistinctIn(q), NEW i \in DOMAIN rest, NEW j \in DOMAIN rest, rest[i] = rest[j]
      PROVE  i = j
  <2>1. from[i] = from[j] /\ from[i] \in DOMAIN q
    BY <1>2 DEF DistinctIn
  <2> QED
    BY <1>1, <2>1
<1>3. ASSUME SortedIn(q, event)
      PROVE  SortedIn(rest, event)
  BY <1>1, <1>3 DEF SortedIn
<1> QED
  BY <1>2, <1>3 DEF DistinctIn

LEMMA SortedStill ==
    ASSUME NEW q \in Seq(Events), SortedIn(q, event),
           \A d \in Range(q) : /\ event'[d].priority = event[d].priority
                               /\ event'[d].m_when = event[d].m_when
    PROVE  SortedIn(q, event')
<1>1. \A i \in DOMAIN q : q[i] \in Range(q)
  BY DEF Range
<1> QED
  BY <1>1 DEF SortedIn, Ordered

(* Everything up to the last event the new one goes after is before it,    *)
(* because the queue is sorted; nothing behind that event is.              *)
LEMMA InsertedInOrder ==
    ASSUME NEW q \in Seq(Events), SortedIn(q, event), DistinctIn(q),
           event \in [Events -> EventRecord], event' \in [Events -> EventRecord],
           NEW e \in Events, e \notin Range(q),
           \A d \in Range(q) : /\ event'[d].priority = event[d].priority
                               /\ event'[d].m_when = event[d].m_when
    PROVE  LET r == Inserted(q, e, event'[e].m_when, event'[e].priority)
           IN  /\ r \in Seq(Events) /\ Range(r) = Range(q) \cup {e}
               /\ DistinctIn(r) /\ SortedIn(r, event')
<1> DEFINE when == event'[e].m_when
           priority == event'[e].priority
           r == Inserted(q, e, when, priority)
           ahead == {i \in 1 .. Len(q) : Before(q[i], when, priority)}
           k == SelectLastInSeq(q, LAMBDA d : Before(d, when, priority))
<1>1. when \in Nat /\ priority \in Nat
  BY EventsAssumption DEF EventRecord
<1>2. /\ \A i \in 1 .. Len(q) : q[i] \in Events /\ q[i] \in Range(q)
      /\ DOMAIN q = 1 .. Len(q) /\ Len(q) \in Nat
  BY DEF Range
<1>3. ASSUME NEW d \in Events
      PROVE  event[d].m_when \in Nat /\ event[d].priority \in Nat
  <2>1. event[d] \in EventRecord
    OBVIOUS
  <2> QED
    BY <2>1, EventsAssumption DEF EventRecord
<1>4. k = IF ahead # {} THEN Max(ahead) ELSE 0
  BY DEF SelectLastInSeq
<1>5. r = InsertAt(q, k + 1, e)
  BY DEF Inserted
<1> HIDE DEF r, k, when, priority
<1>6. /\ k \in 0 .. Len(q)
      /\ k > 0 => Before(q[k], when, priority)
      /\ \A i \in 1 .. Len(q) : i > k => ~Before(q[i], when, priority)
  <2>1. CASE ahead = {}
    BY <1>2, <1>4, <2>1
  <2>2. CASE ahead # {}
    <3>1. ahead \subseteq 1 .. Len(q) /\ ahead \subseteq Int
      OBVIOUS
    <3>2. IsFiniteSet(ahead)
      <4>1. IsFiniteSet(1 .. Len(q))
        BY FS_Interval
      <4> QED
        BY <3>1, <4>1, FS_Subset
    <3>3. Max(ahead) \in ahead /\ \A i \in ahead : i <= Max(ahead)
      BY <2>2, <3>1, <3>2, GreatestExists
    <3>4. PICK m \in ahead : m = k /\ \A i \in ahead : i <= m
      BY <1>4, <2>2, <3>3
    <3>5. \A i \in 1 .. Len(q) : i > m => i \notin ahead
      BY <3>1, <3>4
    <3> QED
      BY <1>2, <3>4, <3>5
  <2> QED
    BY <2>1, <2>2
<1>7. ASSUME NEW i \in 1 .. Len(q), i <= k
      PROVE  Ordered(event[q[i]], event'[e])
  <2>1. k \in 1 .. Len(q) /\ Before(q[k], when, priority)
    BY <1>6, <1>7
  <2>2. i = k \/ Ordered(event[q[i]], event[q[k]])
    BY <1>2, <1>7, <2>1 DEF SortedIn
  <2> QED
    BY <1>1, <1>2, <1>3, <2>1, <2>2 DEF Ordered, Before, when, priority
<1>8. ASSUME NEW i \in 1 .. Len(q), i > k
      PROVE  Ordered(event'[e], event[q[i]])
  BY <1>1, <1>2, <1>3, <1>6, <1>8 DEF Ordered, Before, when, priority
<1>9. /\ r \in Seq(Events) /\ Range(r) = Range(q) \cup {e}
      /\ DOMAIN r = 1 .. Len(q) + 1
      /\ \A i \in 1 .. Len(q) + 1 :
            r[i] = IF i < k + 1 THEN q[i] ELSE IF i = k + 1 THEN e ELSE q[i - 1]
  <2>1. PICK place \in 1 .. Len(q) + 1 : place = k + 1
    BY <1>2, <1>6
  <2>2. /\ InsertAt(q, place, e) \in Seq(Events)
        /\ Len(InsertAt(q, place, e)) = Len(q) + 1
        /\ \A i \in 1 .. Len(q) + 1 : InsertAt(q, place, e)[i] =
              IF i < place THEN q[i] ELSE IF i = place THEN e ELSE q[i - 1]
        /\ Range(InsertAt(q, place, e)) = Range(q) \cup {e}
    BY InsertAtIs
  <2>3. r \in Seq(Events) /\ Len(r) = Len(q) + 1
    BY <1>5, <2>1, <2>2
  <2>4. DOMAIN r = 1 .. Len(q) + 1
    BY <2>3
  <2> QED
    BY <1>5, <2>1, <2>2, <2>3, <2>4
<1>10. DistinctIn(r)
  <2> SUFFICES ASSUME NEW i \in 1 .. Len(q) + 1, NEW j \in 1 .. Len(q) + 1, r[i] = r[j]
               PROVE  i = j
    BY <1>9 DEF DistinctIn
  <2>1. \A n \in 1 .. Len(q) : q[n] # e
    BY <1>2
  <2>2. \A n, m \in 1 .. Len(q) : q[n] = q[m] => n = m
    BY <1>2 DEF DistinctIn
  <2>3. k \in 0 .. Len(q)
    BY <1>6
  <2>4. /\ i < k + 1 => i \in 1 .. Len(q) /\ r[i] = q[i]
        /\ i = k + 1 => r[i] = e
        /\ i > k + 1 => i - 1 \in 1 .. Len(q) /\ r[i] = q[i - 1]
    BY <1>2, <1>9, <2>3
  <2>5. /\ j < k + 1 => j \in 1 .. Len(q) /\ r[j] = q[j]
        /\ j = k + 1 => r[j] = e
        /\ j > k + 1 => j - 1 \in 1 .. Len(q) /\ r[j] = q[j - 1]
    BY <1>2, <1>9, <2>3
  <2>6. i \in Int /\ j \in Int
    OBVIOUS
  <2> QED
    BY <2>1, <2>2, <2>3, <2>4, <2>5, <2>6
<1>11. SortedIn(r, event')
  <2> SUFFICES ASSUME NEW i \in 1 .. Len(q) + 1, NEW j \in 1 .. Len(q) + 1, i < j
               PROVE  Ordered(event'[r[i]], event'[r[j]])
    BY <1>9 DEF SortedIn
  <2>1. k \in 0 .. Len(q)
    BY <1>6
  <2>2. SortedIn(q, event')
    BY SortedStill
  <2>3. \A n, m \in 1 .. Len(q) : n < m => Ordered(event'[q[n]], event'[q[m]])
    BY <1>2, <2>2 DEF SortedIn
  <2>4. /\ \A n \in 1 .. Len(q) : n <= k => Ordered(event'[q[n]], event'[e])
        /\ \A n \in 1 .. Len(q) : n > k => Ordered(event'[e], event'[q[n]])
    BY <1>2, <1>7, <1>8 DEF Ordered
  <2>5. /\ i < k + 1 => i \in 1 .. Len(q) /\ i <= k /\ r[i] = q[i]
        /\ i = k + 1 => r[i] = e
        /\ i > k + 1 => i - 1 \in 1 .. Len(q) /\ i - 1 > k /\ r[i] = q[i - 1]
    BY <1>2, <1>9, <2>1
  <2>6. /\ j < k + 1 => j \in 1 .. Len(q) /\ j <= k /\ r[j] = q[j]
        /\ j = k + 1 => r[j] = e
        /\ j > k + 1 => j - 1 \in 1 .. Len(q) /\ j - 1 > k /\ r[j] = q[j - 1]
    BY <1>2, <1>9, <2>1
  <2>7. i \in Int /\ j \in Int
    OBVIOUS
  <2> QED
    BY <2>1, <2>3, <2>4, <2>5, <2>6, <2>7
<1> QED
  BY <1>9, <1>10, <1>11 DEF r, when, priority
-----------------------------------------------------------------------------

LEMMA QueueSortedIs ==
    /\ QueueSorted <=> SortedIn(m_eventQueue, event)
    /\ QueueSorted' <=> SortedIn(m_eventQueue', event')
BY DEF QueueSorted, SortedIn, Ordered

(* The event the callback thread takes has not been called nor answered:   *)
(* it was in the queue until now.                                          *)
LEMMA FirstTaken ==
    ASSUME IInv, handler \in {"get", "sleep"}, m_eventQueue # <<>>, TakeFirst,
           UNCHANGED <<m_bExitRequested, m_bRequestToQuit, m_pThreadEvent, event, now, caller,
                       result, finisher, canceller, finishes, invoked, abandoned, quiet>>
    PROVE  IInv'
<1>1. TypeOK /\ Taken /\ m_eventQueue \in Seq(Events) /\ pCallbackEvent = NoEvent
  BY DEF IInv, TypeOK, Taken
<1>2. PICK first \in Events : first = Head(m_eventQueue)
  BY <1>1
<1>3. event \in [Events -> EventRecord] /\ Pending \subseteq Events
  BY <1>1, EventsTyped DEF Pending, Range
<1>4. CASE now < event[first].m_when
  <2>1. /\ handler' = "unlocked" /\ looked' = first /\ wakeAt' = 0
        /\ dropped' = {} /\ replaced' = {}
        /\ UNCHANGED <<m_eventQueue, pCallbackEvent>>
    BY <1>2, <1>4 DEF TakeFirst
  <2>2. TypeOK'
    <3>1. 0 \in 0 .. MaxTime
      BY EventsAssumption
    <3> QED
      BY <1>1, <1>2, <2>1, <3>1 DEF TypeOK, HandlerPCs
  <2>3. Taken' /\ Distinct' /\ QueueSorted' /\ \A e \in Events : EventOK(e)'
    BY <1>1, <2>1, EventsUntouched, EventsAssumption
  <2>4. NoLostWakeup'
    BY <2>1 DEF NoLostWakeup
  <2> QED
    BY <2>2, <2>3, <2>4 DEF IInv
<1>5. CASE ~(now < event[first].m_when)
  <2>1. /\ handler' = "begin" /\ pCallbackEvent' = first /\ wakeAt' = 0
        /\ m_eventQueue' = Tail(m_eventQueue)
        /\ dropped' = {} /\ replaced' = {} /\ UNCHANGED looked
    BY <1>2, <1>5 DEF TakeFirst
  <2>2. /\ m_eventQueue' \in Seq(Events) /\ first \in Pending /\ first \notin Pending'
        /\ Pending = Pending' \cup {first}
    BY <1>1, <1>2, <2>1, TailIs DEF IInv, Distinct, DistinctIn, Pending
  <2>3. TypeOK'
    <3>1. 0 \in 0 .. MaxTime
      BY EventsAssumption
    <3> QED
      BY <1>1, <2>1, <2>2, <3>1 DEF TypeOK, HandlerPCs
  <2>4. Taken'
    BY <2>1, <2>2 DEF Taken
  <2>5. Distinct' /\ QueueSorted'
    <3>1. PICK from \in [DOMAIN m_eventQueue' -> DOMAIN m_eventQueue] :
            /\ \A i \in DOMAIN m_eventQueue' : m_eventQueue'[i] = m_eventQueue[from[i]]
            /\ \A i, j \in DOMAIN m_eventQueue' : i < j => from[i] < from[j]
      BY <1>1, <2>1, TailIs
    <3>2. DistinctIn(m_eventQueue') /\ SortedIn(m_eventQueue', event)
      BY <1>1, <2>2, <3>1, QueueThinned, QueueSortedIs DEF IInv, Distinct
    <3> QED
      BY <3>2, QueueSortedIs DEF Distinct
  <2>6. NoLostWakeup'
    BY <2>1 DEF NoLostWakeup
  <2>7. ASSUME NEW d \in Events \ {first}
        PROVE  EventOK(d)'
    <3>1. d # pCallbackEvent /\ d # pCallbackEvent' /\ (d \in Pending' <=> d \in Pending)
      BY <1>1, <2>1, <2>2, EventsAssumption
    <3> QED
      BY <3>1, EventUntouched DEF IInv
  <2>8. EventOK(first)'
    <3>1. /\ Counted(first) /\ Untouched(first) /\ Uncalled(first) /\ Sending(first)
          /\ Answered(first) /\ Told(first) /\ GivenUp(first) /\ Removed(first)
      BY DEF IInv, EventOK
    <3>2. Counted(first)'
      BY <1>1, <2>1, <2>2, <3>1, EventsAssumption DEF Counted, One
    <3>3. Untouched(first)' /\ Uncalled(first)' /\ Sending(first)'
      BY <2>1, <2>2, <3>1 DEF Untouched, Uncalled, Sending
    <3>4. Answered(first)' /\ Told(first)' /\ Removed(first)'
      BY <2>1, <2>2, <3>1 DEF Answered, Told, Removed, Over
    <3>5. GivenUp(first)'
      BY <2>1, <2>2, <3>1 DEF GivenUp
    <3> QED
      BY <3>2, <3>3, <3>4, <3>5 DEF EventOK
  <2> QED
    BY <2>3, <2>4, <2>5, <2>6, <2>7, <2>8 DEF IInv
<1> QED
  BY <1>4, <1>5

(* The thread waits only when it has seen an empty queue under the lock.   *)
LEMMA GetKeeps == IInv /\ Get => IInv'
<1> SUFFICES ASSUME IInv, Get PROVE IInv'
  OBVIOUS
<1>1. CASE m_eventQueue = <<>>
  <2>1. TypeOK'
    BY <1>1 DEF IInv, TypeOK, HandlerPCs, Get, HandlerGoes, meanwhile
  <2>2. Taken' /\ Distinct' /\ QueueSorted' /\ \A e \in Events : EventOK(e)'
    BY <1>1, EventsUntouched DEF IInv, Taken, Get, HandlerGoes
  <2>3. NoLostWakeup'
    BY <1>1 DEF NoLostWakeup, Get
  <2> QED
    BY <2>1, <2>2, <2>3 DEF IInv
<1>2. CASE m_eventQueue # <<>>
  BY <1>2, FirstTaken DEF Get
<1> QED
  BY <1>1, <1>2

(* Nothing but the handler's own place changes.                            *)
LEMMA UsleepKeeps == IInv /\ Usleep => IInv'
<1> SUFFICES ASSUME IInv, Usleep PROVE IInv'
  OBVIOUS
<1>1. TypeOK'
  BY DEF IInv, TypeOK, HandlerPCs, Usleep, context
<1>2. Taken' /\ Distinct' /\ QueueSorted' /\ \A e \in Events : EventOK(e)'
  BY EventsUntouched DEF IInv, Taken, Usleep, context
<1>3. NoLostWakeup'
  BY DEF NoLostWakeup, Usleep
<1> QED
  BY <1>1, <1>2, <1>3 DEF IInv

LEMMA AgainKeeps == IInv /\ Again => IInv'
<1> SUFFICES ASSUME IInv, Again PROVE IInv'
  OBVIOUS
<1>1. CASE m_eventQueue = <<>>
  <2>1. TypeOK'
    BY <1>1 DEF IInv, TypeOK, HandlerPCs, Again, HandlerGoes, meanwhile
  <2>2. Taken' /\ Distinct' /\ QueueSorted' /\ \A e \in Events : EventOK(e)'
    BY <1>1, EventsUntouched DEF IInv, Taken, Again, HandlerGoes
  <2>3. NoLostWakeup'
    BY <1>1 DEF NoLostWakeup, Again
  <2> QED
    BY <2>1, <2>2, <2>3 DEF IInv
<1>2. CASE m_eventQueue # <<>>
  BY <1>2, FirstTaken DEF Again
<1> QED
  BY <1>1, <1>2
-----------------------------------------------------------------------------

(* An empty queue stays empty.                                             *)
LEMMA CancelsNothing ==
    ASSUME IInv, NEW S, CancelPending(S), m_eventQueue = <<>>
    PROVE  m_eventQueue' = <<>>
<1>1. m_eventQueue \in Seq(Events)
  BY DEF IInv, TypeOK
<1>2. /\ Without(m_eventQueue, S) \in Seq(Events)
      /\ Range(Without(m_eventQueue, S)) = Range(m_eventQueue) \ S
  BY <1>1, WithoutIs
<1>3. Without(m_eventQueue, S) = <<>>
  <2>1. Range(m_eventQueue) = {}
    BY DEF Range
  <2>2. Range(Without(m_eventQueue, S)) = {}
    BY <1>2, <2>1
  <2> QED
    BY <1>2, <2>2, EmptyRange
<1> QED
  BY <1>3 DEF CancelPending

(* The events that are cancelled were not called and never will be, and    *)
(* who waits for one gets the signal.                                      *)
LEMMA CancelPendingKeeps ==
    ASSUME IInv, NEW S \in SUBSET Events, CancelPending(S),
           quiet' \subseteq Events, canceller' \subseteq Events,
           \A d \in quiet' \cup canceller' :
                d \in quiet \cup canceller \/ (d \in S /\ caller[d] # "new"),
           \A d \in quiet' : d \in quiet \/ (d \in S /\ d # pCallbackEvent)
    PROVE  IInv'
<1>1. /\ TypeOK /\ Taken /\ m_eventQueue \in Seq(Events) /\ Pending \subseteq Events
      /\ event \in [Events -> EventRecord]
  <2>1. TypeOK /\ Taken /\ event \in [Events -> EventRecord]
    BY EventsTyped DEF IInv
  <2> QED
    BY <2>1 DEF TypeOK, Pending, Range
<1>2. /\ m_eventQueue' = Without(m_eventQueue, S)
      /\ event' = [d \in Events |-> IF d \in S \cap Pending
                    THEN Released(Signalled(event[d], "cancelled")) ELSE event[d]]
      /\ UNCHANGED <<m_bExitRequested, m_bRequestToQuit, m_pThreadEvent, now, handler,
                     pCallbackEvent, looked, wakeAt, caller, result, finisher, finishes,
                     invoked, abandoned, replaced>>
  BY DEF CancelPending, loop
<1>3. m_eventQueue' \in Seq(Events) /\ Pending' = Pending \ S
  BY <1>1, <1>2, WithoutIs DEF Pending
<1>4. ASSUME NEW d \in S \cap Pending
      PROVE  /\ event'[d] \in EventRecord /\ event[d].m_cRef \in Nat
             /\ event'[d].m_cRef = event[d].m_cRef - 1
             /\ caller[d] # "done" => event'[d].m_Status = "cancelled"
  <2>1. Counted(d) /\ d # pCallbackEvent
    BY <1>1 DEF IInv, EventOK, Taken
  <2>2. event[d] \in EventRecord /\ event[d].m_cRef \in Nat
    BY <1>1 DEF EventRecord
  <2>3. PICK r \in EventRecord : r = Signalled(event[d], "cancelled")
    BY <2>2, SignalledIs DEF Statuses
  <2>4. r.m_cRef = event[d].m_cRef /\ r.m_Status = "cancelled"
    BY <2>2, <2>3, SignalledIs DEF Statuses
  <2>5. r.m_cRef = One(caller[d] # "done") + 1
    BY <2>1, <2>4 DEF Counted, One
  <2>6. event'[d] = Released(r)
    BY <1>2, <2>3
  <2> QED
    BY <2>2, <2>4, <2>5, <2>6, ReleasedIs DEF One
<1>5. \A d \in Events : d \notin S \cap Pending => event'[d] = event[d]
  BY <1>2
<1>6. event' \in [Events -> EventRecord]
  BY <1>1, <1>2, <1>4
<1>7. TypeOK'
  <2>1. dropped' \subseteq Events
    BY <1>1 DEF TypeOK, CancelPending, Drop
  <2> QED
    BY <1>1, <1>2, <1>3, <1>6, <2>1 DEF TypeOK, EventRecord, Statuses
<1>8. Taken'
  BY <1>1, <1>2, <1>3 DEF Taken
<1>9. Distinct' /\ QueueSorted'
  <2>1. PICK from \in [DOMAIN m_eventQueue' -> DOMAIN m_eventQueue] :
            /\ \A i \in DOMAIN m_eventQueue' : m_eventQueue'[i] = m_eventQueue[from[i]]
            /\ \A i, j \in DOMAIN m_eventQueue' : i < j => from[i] < from[j]
    BY <1>1, <1>2, WithoutIs
  <2>2. DistinctIn(m_eventQueue') /\ SortedIn(m_eventQueue', event)
    BY <1>1, <1>3, <2>1, QueueThinned, QueueSortedIs DEF IInv, Distinct
  <2>3. SortedIn(m_eventQueue', event')
    BY <1>1, <1>3, <1>5, <2>2, SortedStill DEF Pending
  <2> QED
    BY <2>2, <2>3, QueueSortedIs DEF Distinct
<1>10. NoLostWakeup'
  <2>1. m_eventQueue = <<>> => m_eventQueue' = <<>>
    BY <1>1, CancelsNothing DEF IInv
  <2> QED
    BY <1>2, <2>1 DEF IInv, NoLostWakeup
<1>11. ASSUME NEW d \in Events
       PROVE  EventOK(d)'
  <2>1. /\ Counted(d) /\ Untouched(d) /\ Uncalled(d) /\ Sending(d)
        /\ Answered(d) /\ Told(d) /\ GivenUp(d) /\ Removed(d)
    BY DEF IInv, EventOK
  <2>2. Counted(d)'
    <3>1. d \in Pending' <=> d \in Pending /\ d \notin S
      BY <1>3
    <3>2. event'[d].m_cRef = event[d].m_cRef - One(d \in S \cap Pending)
      <4>1. CASE d \in S \cap Pending
        BY <1>4, <4>1 DEF One
      <4>2. CASE d \notin S \cap Pending
        <5>1. event[d] \in EventRecord
          BY <1>1
        <5> QED
          BY <1>5, <4>2, <5>1 DEF One, EventRecord
      <4> QED
        BY <4>1, <4>2
    <3>3. caller' = caller /\ pCallbackEvent' = pCallbackEvent
      BY <1>2
    <3> QED
      BY <2>1, <3>1, <3>2, <3>3 DEF Counted, One
  <2>3. Untouched(d)' /\ Uncalled(d)' /\ Sending(d)'
    BY <1>2, <1>3, <1>5, <2>1 DEF Untouched, Uncalled, Sending
  <2>4. Answered(d)'
    <3>1. CASE d \in S \cap Pending
      BY <1>1, <1>2, <1>3, <1>4, <2>1, <3>1 DEF Answered, Over, Uncalled, Taken
    <3>2. CASE d \notin S \cap Pending
      BY <1>2, <1>3, <1>5, <2>1, <3>2 DEF Answered, Over
    <3> QED
      BY <3>1, <3>2
  <2>5. Told(d)'
    BY <1>2, <1>3, <2>1 DEF Told, Over
  <2>6. GivenUp(d)'
    BY <1>1, <1>2, <1>3, <1>5, <2>1 DEF GivenUp, Taken
  <2>7. Removed(d)'
    BY <1>2, <1>3, <2>1 DEF Removed, Over
  <2> QED
    BY <2>2, <2>3, <2>4, <2>5, <2>6, <2>7 DEF EventOK
<1> QED
  BY <1>7, <1>8, <1>9, <1>10, <1>11 DEF IInv

LEMMA CancelsKeep ==
    /\ IInv /\ CancelAllCallbackEvents => IInv'
    /\ \A sender : IInv /\ CancelAllPendingCallbacks(sender) => IInv'
    /\ \A id : IInv /\ CancelPendingCallback(id) => IInv'
<1>1. ASSUME IInv, NEW S \in SUBSET Events, CancelPending(S), UNCHANGED <<canceller, quiet>>
      PROVE  IInv'
  BY <1>1, CancelPendingKeeps DEF IInv, TypeOK
<1>2. IInv /\ CancelAllCallbackEvents => IInv'
  BY <1>1 DEF CancelAllCallbackEvents
<1>3. ASSUME IInv, NEW sender, CancelAllPendingCallbacks(sender)
      PROVE  IInv'
  BY <1>1, <1>3 DEF CancelAllPendingCallbacks
<1>4. ASSUME IInv, NEW id, CancelPendingCallback(id)
      PROVE  IInv'
  BY <1>1, <1>4 DEF CancelPendingCallback
<1> QED
  BY <1>2, <1>3, <1>4

(* Only an event in m_currentEvents needs the second look.                 *)
LEMMA CancelCallbackEventsKeeps ==
    ASSUME IInv, NEW registration, CancelCallbackEvents(registration)
    PROVE  IInv'
<1> DEFINE S == {d \in Events : Registration[d] = registration}
<1>1. S \in SUBSET Events /\ CancelPending(S)
  BY DEF CancelCallbackEvents
<1>2. /\ quiet' \subseteq Events /\ canceller' \subseteq Events
      /\ \A d \in quiet' \cup canceller' :
            d \in quiet \cup canceller \/ (d \in S /\ caller[d] # "new")
      /\ \A d \in quiet' : d \in quiet \/ (d \in S /\ d # pCallbackEvent)
  BY DEF IInv, TypeOK, CancelCallbackEvents
<1> HIDE DEF S
<1> QED
  BY <1>1, <1>2, CancelPendingKeeps
-----------------------------------------------------------------------------

(* Only events that are posted are replaced.                               *)
LEMMA OnlyPostedReplaced ==
    ASSUME TypeOK, NEW e \in Events, NEW d \in Coalescable(e)
    PROVE  d \in Pending /\ d \in Events /\ d \notin SyncCall /\ e \notin SyncCall
<1>1. Pending \subseteq Events
  BY DEF TypeOK, Pending, Range
<1>2. e \in Duplicated /\ d \in Pending /\ Registration[d] = Registration[e]
  BY DEF Coalescable
<1> QED
  BY <1>1, <1>2, RegistrationsAssumption

(* The priority that a new event gets is its own or one of the queue's.    *)
LEMMA CoalescedPriorityIs ==
    ASSUME TypeOK, NEW e \in Events, NEW older \in SUBSET Pending
    PROVE  CoalescedPriority(e, older) \in Nat
<1>1. /\ event \in [Events -> EventRecord] /\ m_eventQueue \in Seq(Events)
      /\ Priority[e] \in Nat
  BY EventsTyped, EventsAssumption DEF TypeOK
<1>2. CASE older = {}
  BY <1>1, <1>2 DEF CoalescedPriority
<1>3. CASE older # {}
  <2> DEFINE places == {i \in 1 .. Len(m_eventQueue) : m_eventQueue[i] \in older}
             oldest == SelectInSeq(m_eventQueue, LAMBDA d : d \in older)
  <2>1. places # {}
    <3>1. PICK d \in Pending : d \in older
      BY <1>3
    <3>2. PICK i \in DOMAIN m_eventQueue : m_eventQueue[i] = d
      BY <3>1 DEF Pending, Range
    <3> QED
      BY <1>1, <3>1, <3>2
  <2>2. IsFiniteSet(places) /\ places \subseteq Int
    <3>1. IsFiniteSet(1 .. Len(m_eventQueue))
      <4>1. Len(m_eventQueue) \in Nat
        BY <1>1
      <4> QED
        BY <4>1, FS_Interval
    <3>2. places \subseteq 1 .. Len(m_eventQueue)
      OBVIOUS
    <3> QED
      BY <3>1, <3>2, FS_Subset
  <2>3. oldest = Min(places)
    BY <2>1 DEF SelectInSeq
  <2>4. Min(places) \in places
    BY <2>1, <2>2, LeastExists
  <2> HIDE DEF oldest
  <2>5. event[m_eventQueue[oldest]] \in EventRecord
    BY <1>1, <2>3, <2>4
  <2>6. event[m_eventQueue[oldest]].priority \in Nat
    BY <2>5 DEF EventRecord
  <2> QED
    BY <1>1, <1>3, <2>6 DEF CoalescedPriority, oldest
<1> QED
  BY <1>2, <1>3

(* The events that are replaced leave the queue, and only one reference    *)
(* is left, if any: that of the thread that has posted the event.          *)
LEMMA ReplacedKeep ==
    ASSUME IInv, NEW e \in Events, NEW d \in Coalescable(e),
           caller'[d] = caller[d], event'[d] = Released(event[d]),
           d \notin Pending',
           UNCHANGED <<result, loop, canceller, invoked, abandoned, quiet>>
    PROVE  EventOK(d)' /\ event'[d] \in EventRecord
<1>1. /\ Counted(d) /\ Untouched(d) /\ Uncalled(d) /\ Sending(d)
      /\ Answered(d) /\ Told(d) /\ GivenUp(d) /\ Removed(d)
      /\ d \in Pending /\ d \in Events /\ d \notin SyncCall /\ d # pCallbackEvent
      /\ event[d] \in EventRecord
  BY OnlyPostedReplaced, EventsTyped DEF IInv, EventOK, Taken
<1>2. event[d].m_cRef = One(caller[d] # "done") + 1
  BY <1>1 DEF Counted, One
<1>3. event'[d] \in EventRecord /\ event'[d].m_cRef = One(caller[d] # "done")
  BY <1>1, <1>2, ReleasedIs DEF One
<1>4. Counted(d)'
  BY <1>1, <1>3 DEF Counted, One, loop
<1>5. Untouched(d)' /\ Uncalled(d)' /\ Sending(d)'
  BY <1>1 DEF Untouched, Uncalled, Sending, loop
<1>6. Answered(d)' /\ Told(d)' /\ GivenUp(d)' /\ Removed(d)'
  BY <1>1 DEF Answered, Told, GivenUp, Removed, Over
<1> QED
  BY <1>3, <1>4, <1>5, <1>6 DEF EventOK

(* What is left of the queue when events are replaced.                  *)
LEMMA ReplacedThinned ==
    ASSUME IInv, NEW older
    PROVE  LET q == Without(m_eventQueue, older)
           IN  /\ q \in Seq(Events) /\ Range(q) = Pending \ older
               /\ DistinctIn(q) /\ SortedIn(q, event)
<1> DEFINE q == Without(m_eventQueue, older)
<1>1. m_eventQueue \in Seq(Events)
  BY DEF IInv, TypeOK
<1>2. q \in Seq(Events) /\ Range(q) = Pending \ older
  BY <1>1, WithoutIs DEF Pending
<1>3. PICK from \in [DOMAIN q -> DOMAIN m_eventQueue] :
          /\ \A i \in DOMAIN q : q[i] = m_eventQueue[from[i]]
          /\ \A i, j \in DOMAIN q : i < j => from[i] < from[j]
  BY <1>1, WithoutIs
<1> HIDE DEF q
<1>4. DistinctIn(q) /\ SortedIn(q, event)
  BY <1>1, <1>2, <1>3, QueueThinned, QueueSortedIs DEF IInv, Distinct
<1> QED
  BY <1>2, <1>4 DEF q

LEMMA PostCallbackEventKeeps ==
    ASSUME IInv, NEW e \in Events, PostCallbackEvent(e)
    PROVE  /\ IInv' /\ e \in Pending'
           /\ UNCHANGED <<loop, dropped>>
           /\ \E older \in SUBSET Events :
                Pending' = (Pending \ older) \cup {e} /\ Replace(older)
<1>1. /\ TypeOK /\ Taken /\ Counted(e) /\ Untouched(e) /\ Uncalled(e) /\ Sending(e)
      /\ Answered(e) /\ Told(e) /\ GivenUp(e) /\ Removed(e)
      /\ event \in [Events -> EventRecord] /\ caller[e] = "new"
      /\ e \notin Pending /\ e # pCallbackEvent
  BY EventsTyped DEF IInv, EventOK, Untouched, PostCallbackEvent
<1>2. PICK when \in 0 .. MaxTime, older \in SUBSET Coalescable(e) :
        /\ event' = [d \in Events |->
              CASE d = e -> [event[e] EXCEPT !.m_cRef = @ + 1, !.m_when = when,
                                     !.priority = CoalescedPriority(e, older)]
                [] d \in older -> Released(event[d])
                [] OTHER -> event[d]]
        /\ m_eventQueue' = Inserted(Without(m_eventQueue, older), e, when,
                                    CoalescedPriority(e, older))
        /\ Replace(older)
  BY DEF PostCallbackEvent
<1> DEFINE posted(priority) == [event[e] EXCEPT !.m_cRef = @ + 1, !.m_when = when,
                                                !.priority = priority]
<1>3. /\ CallerGoes(e, IF m_eventQueue = <<>> THEN "notify" ELSE AfterPost(e))
      /\ UNCHANGED <<m_bExitRequested, m_bRequestToQuit, m_pThreadEvent, now, loop,
                     result, finisher, canceller, finishes, invoked, abandoned, quiet,
                     dropped>>
  BY DEF PostCallbackEvent
<1>4. older \in SUBSET Pending /\ e \notin older
  BY <1>1 DEF Coalescable
<1>5. PICK priority \in Nat : priority = CoalescedPriority(e, older)
  BY <1>1, <1>4, CoalescedPriorityIs
<1>6. PICK q \in Seq(Events) :
        /\ q = Without(m_eventQueue, older) /\ Range(q) = Pending \ older
        /\ DistinctIn(q) /\ SortedIn(q, event)
  BY ReplacedThinned
<1>7. /\ event[e] \in EventRecord /\ event'[e] \in EventRecord
      /\ event'[e].m_when = when /\ event'[e].priority = priority
      /\ event'[e].m_cRef = event[e].m_cRef + 1
      /\ event'[e].m_Status = event[e].m_Status
      /\ event'[e].m_pSyncEvent = event[e].m_pSyncEvent
  <2>1. event[e] \in EventRecord
    BY <1>1
  <2>2. event'[e] = posted(priority)
    BY <1>2, <1>4, <1>5
  <2>3. posted(priority) \in EventRecord
    <3>1. PICK r \in EventRecord : r = event[e]
      BY <2>1
    <3>2. PICK n \in Nat : n = r.m_cRef + 1
      BY DEF EventRecord
    <3>3. [r EXCEPT !.m_cRef = n, !.m_when = when, !.priority = priority] \in EventRecord
      BY DEF EventRecord
    <3> QED
      BY <3>1, <3>2, <3>3
  <2> QED
    BY <2>1, <2>2, <2>3 DEF EventRecord
<1>8. /\ \A d \in older : event'[d] = Released(event[d])
      /\ \A d \in Events : d # e /\ d \notin older => event'[d] = event[d]
  <2>1. older \subseteq Events
    BY <1>1, OnlyPostedReplaced
  <2> QED
    BY <1>2, <1>4, <2>1
<1>9. \A d \in older : event'[d] \in EventRecord
  <2> SUFFICES ASSUME NEW d \in older
               PROVE  event'[d] \in EventRecord
    OBVIOUS
  <2>1. d \in Pending /\ d \in Events /\ Counted(d) /\ d # pCallbackEvent
    BY <1>1, OnlyPostedReplaced DEF IInv, EventOK, Taken
  <2>2. event[d] \in EventRecord /\ event[d].m_cRef > 0
    BY <1>1, <2>1 DEF Counted, One
  <2> QED
    BY <1>8, <2>2, ReleasedIs
<1>10. event' \in [Events -> EventRecord]
  BY <1>1, <1>2, <1>7, <1>8, <1>9
<1>11. /\ m_eventQueue' \in Seq(Events) /\ Pending' = (Pending \ older) \cup {e}
       /\ DistinctIn(m_eventQueue') /\ SortedIn(m_eventQueue', event')
  <2>1. /\ e \notin Range(q)
        /\ \A d \in Range(q) : /\ event'[d].priority = event[d].priority
                               /\ event'[d].m_when = event[d].m_when
    <3>1. Pending \subseteq Events
      BY <1>1 DEF TypeOK, Pending, Range
    <3> QED
      BY <1>1, <1>6, <1>8, <3>1
  <2>2. m_eventQueue' = Inserted(q, e, event'[e].m_when, event'[e].priority)
    BY <1>2, <1>5, <1>6, <1>7
  <2> QED
    BY <1>1, <1>6, <1>10, <2>1, <2>2, InsertedInOrder DEF Pending
<1>12. older \in SUBSET Events
  BY <1>1, OnlyPostedReplaced
<1>13. TypeOK'
  <2>1. caller' \in [Events -> CallerPCs]
    BY <1>1, <1>3 DEF TypeOK, CallerGoes, CallerPCs, AfterPost
  <2>2. replaced' \subseteq Events
    BY <1>1, <1>2, <1>12 DEF TypeOK, Replace
  <2> QED
    BY <1>1, <1>3, <1>10, <1>11, <2>1, <2>2 DEF TypeOK, EventRecord, Statuses, loop
<1>14. Taken'
  BY <1>1, <1>3, <1>11 DEF Taken, loop
<1>15. Distinct' /\ QueueSorted'
  BY <1>11, QueueSortedIs DEF Distinct
<1>16. NoLostWakeup'
  BY <1>1, <1>3 DEF IInv, TypeOK, NoLostWakeup, CallerGoes, loop
<1>17. ASSUME NEW d \in Events \ {e}
       PROVE  EventOK(d)'
  <2>1. caller'[d] = caller[d]
    BY <1>1, <1>3 DEF TypeOK, CallerGoes
  <2>2. CASE d \in older
    BY <1>3, <1>8, <1>11, <1>17, <2>1, <2>2, ReplacedKeep
  <2>3. CASE d \notin older
    BY <1>3, <1>8, <1>11, <1>17, <2>1, <2>3, EventUntouched DEF IInv, loop
  <2> QED
    BY <2>2, <2>3
<1>18. EventOK(e)'
  <2>1. caller'[e] \in {"notify", "waiting", "release"} /\ e \in Pending'
        /\ (caller'[e] = "waiting" => e \in SyncCall)
    BY <1>1, <1>3, <1>11 DEF TypeOK, CallerGoes, AfterPost
  <2>2. Counted(e)'
    BY <1>1, <1>3, <1>7, <2>1 DEF Counted, One, loop
  <2>3. Untouched(e)' /\ Uncalled(e)' /\ Sending(e)'
    BY <1>1, <1>3, <2>1 DEF Untouched, Uncalled, Sending
  <2>4. Answered(e)' /\ Told(e)' /\ GivenUp(e)' /\ Removed(e)'
    BY <1>1, <1>3, <1>7, <2>1 DEF Answered, Told, GivenUp, Removed, Untouched
  <2> QED
    BY <2>2, <2>3, <2>4 DEF EventOK
<1> QED
  BY <1>2, <1>3, <1>11, <1>12, <1>13, <1>14, <1>15, <1>16, <1>17, <1>18 DEF IInv

(* The new event is released by its creator alone.                         *)
LEMMA PostCancelledBothKeeps ==
    ASSUME IInv, NEW e \in Events, PostCancelledBoth(e)
    PROVE  /\ IInv'
           /\ UNCHANGED <<loop, replaced>>
           /\ \E older \in SUBSET Events : Pending' = Pending \ older /\ Drop(older)
<1>1. /\ TypeOK /\ Taken /\ Counted(e) /\ Untouched(e) /\ Uncalled(e) /\ Sending(e)
      /\ Answered(e) /\ Told(e) /\ GivenUp(e) /\ Removed(e)
      /\ event \in [Events -> EventRecord] /\ caller[e] = "new"
      /\ e \notin Pending /\ e # pCallbackEvent
  BY EventsTyped DEF IInv, EventOK, Untouched, PostCancelledBoth
<1>2. PICK older \in SUBSET Coalescable(e) :
        /\ event' = [d \in Events |-> IF d \in older THEN Released(event[d]) ELSE event[d]]
        /\ m_eventQueue' = Without(m_eventQueue, older)
        /\ Drop(older)
  BY DEF PostCancelledBoth
<1>3. /\ CallerGoes(e, "release")
      /\ UNCHANGED <<m_bExitRequested, m_bRequestToQuit, m_pThreadEvent, now, loop,
                     result, finisher, canceller, finishes, invoked, abandoned, quiet,
                     replaced>>
  BY DEF PostCancelledBoth
<1>4. older \in SUBSET Pending /\ older \subseteq Events /\ e \notin older
  BY <1>1, OnlyPostedReplaced DEF Coalescable
<1>5. /\ m_eventQueue' \in Seq(Events) /\ Pending' = Pending \ older
      /\ DistinctIn(m_eventQueue') /\ SortedIn(m_eventQueue', event)
  BY <1>2, ReplacedThinned DEF Pending
<1>6. /\ \A d \in older : event'[d] = Released(event[d])
      /\ \A d \in Events : d \notin older => event'[d] = event[d]
  BY <1>2, <1>4
<1>7. ASSUME NEW d \in Events \ {e}
      PROVE  EventOK(d)' /\ event'[d] \in EventRecord
  <2>1. caller'[d] = caller[d]
    BY <1>1, <1>3 DEF TypeOK, CallerGoes
  <2>2. CASE d \in older
    BY <1>3, <1>5, <1>6, <2>1, <2>2, ReplacedKeep
  <2>3. CASE d \notin older
    BY <1>1, <1>3, <1>5, <1>6, <1>7, <2>1, <2>3, EventUntouched DEF IInv, loop
  <2> QED
    BY <2>2, <2>3
<1>8. event' \in [Events -> EventRecord]
  BY <1>1, <1>2, <1>4, <1>6, <1>7
<1>9. TypeOK'
  <2>1. caller' \in [Events -> CallerPCs]
    BY <1>1, <1>3 DEF TypeOK, CallerGoes, CallerPCs
  <2>2. dropped' \subseteq Events
    BY <1>1, <1>2, <1>4 DEF TypeOK, Drop
  <2> QED
    BY <1>1, <1>3, <1>5, <1>8, <2>1, <2>2 DEF TypeOK, EventRecord, Statuses, loop
<1>10. Taken'
  BY <1>1, <1>3, <1>5 DEF Taken, loop
<1>11. Distinct' /\ QueueSorted'
  <2>1. \A d \in Range(m_eventQueue') : event'[d] = event[d]
    <3>1. Range(m_eventQueue') = Pending \ older
      BY <1>2, ReplacedThinned
    <3>2. Pending \subseteq Events
      BY <1>1 DEF TypeOK, Pending, Range
    <3> QED
      BY <1>6, <3>1, <3>2
  <2> QED
    BY <1>5, <2>1, SortedStill, QueueSortedIs DEF Distinct
<1>12. NoLostWakeup'
  <2>1. PICK d \in Pending : TRUE
    <3>1. PICK gone \in SUBSET Coalescable(e) : gone # {}
      BY DEF PostCancelledBoth
    <3>2. gone \subseteq Pending
      BY <3>1 DEF Coalescable
    <3> QED
      BY <3>1, <3>2
  <2>2. m_eventQueue # <<>>
    BY <2>1 DEF Pending, Range
  <2> QED
    BY <1>1, <1>3, <2>2 DEF IInv, NoLostWakeup, CallerGoes, loop
<1>13. EventOK(e)'
  <2>1. caller'[e] = "release" /\ e \notin Pending' /\ event'[e] = event[e]
    BY <1>1, <1>3, <1>4, <1>5, <1>6 DEF TypeOK, CallerGoes
  <2>2. Counted(e)'
    BY <1>1, <1>3, <2>1 DEF Counted, One, loop
  <2>3. Untouched(e)' /\ Uncalled(e)' /\ Sending(e)'
    BY <1>1, <1>3, <2>1 DEF Untouched, Uncalled, Sending
  <2>4. Answered(e)' /\ Told(e)' /\ GivenUp(e)' /\ Removed(e)'
    BY <1>1, <1>3, <2>1 DEF Answered, Told, GivenUp, Removed, Untouched
  <2> QED
    BY <2>2, <2>3, <2>4 DEF EventOK
<1> QED
  BY <1>2, <1>3, <1>4, <1>5, <1>7, <1>9, <1>10, <1>11, <1>12, <1>13 DEF IInv
-----------------------------------------------------------------------------

LEMMA InitIInv == Init => IInv
<1> SUFFICES ASSUME Init PROVE IInv
  OBVIOUS
<1>1. Pending = {} /\ pCallbackEvent \notin Events
  BY EventsAssumption DEF Init, Pending, Range
<1>2. event \in [Events -> EventRecord]
  BY EventsAssumption DEF Init, EventRecord, Statuses
<1>3. TypeOK
  <2>1. 0 \in 0 .. MaxTime
    BY EventsAssumption
  <2>2. /\ caller \in [Events -> CallerPCs] /\ handler \in HandlerPCs
        /\ finisher \in [flag : Finishes \cup {"none"},
                         stores : SUBSET {"m_bExitRequested", "m_bRequestToQuit"}]
    BY DEF Init, HandlerPCs, CallerPCs
  <2>3. event \in [Events -> [m_Status : {"created", "running", "completed", "cancelled"},
                              m_pSyncEvent : Nat, m_cRef : Nat,
                              m_when : 0 .. MaxTime, priority : Nat]]
    BY <1>2 DEF EventRecord, Statuses
  <2>4. /\ m_eventQueue \in Seq(Events) /\ m_pThreadEvent \in Nat
        /\ now \in 0 .. MaxTime /\ wakeAt \in 0 .. MaxTime
        /\ result \in [Events -> {"none", "NOERROR", "E_TIMED_OUT", "E_CALLBACK_CANCELED"}]
    BY <2>1 DEF Init
  <2> QED
    BY <2>2, <2>3, <2>4 DEF Init, TypeOK
<1>4. Taken /\ NoLostWakeup
  BY <1>1 DEF Init, Taken, NoLostWakeup
<1>5. Distinct /\ QueueSorted
  BY DEF Init, Distinct, DistinctIn, QueueSorted
<1>6. ASSUME NEW e \in Events
      PROVE  EventOK(e)
  <2>1. /\ event[e].m_cRef = 1 /\ event[e].m_pSyncEvent = 0
        /\ event[e].m_Status = "created"
    BY DEF Init
  <2>2. Counted(e)
    BY <1>1, <2>1 DEF Init, Counted, One
  <2>3. Untouched(e) /\ Uncalled(e) /\ Sending(e)
    BY <1>1, <2>1 DEF Init, Untouched, Uncalled, Sending
  <2>4. Answered(e) /\ Told(e) /\ GivenUp(e) /\ Removed(e)
    BY DEF Init, Answered, Told, GivenUp, Removed
  <2> QED
    BY <2>2, <2>3, <2>4 DEF EventOK
<1> QED
  BY <1>3, <1>4, <1>5, <1>6 DEF IInv

LEMMA StutterIInv == IInv /\ UNCHANGED vars => IInv'
<1> SUFFICES ASSUME IInv, UNCHANGED vars PROVE IInv'
  OBVIOUS
<1>1. TypeOK' /\ NoLostWakeup'
  BY DEF IInv, TypeOK, NoLostWakeup, vars, context, loop, history, meanwhile
<1>2. Taken' /\ Distinct' /\ QueueSorted' /\ \A e \in Events : EventOK(e)'
  BY EventsUntouched DEF IInv, Taken, vars, context, loop, history
<1> QED
  BY <1>1, <1>2 DEF IInv

LEMMA NextIInv == IInv /\ [Next]_vars => IInv'
<1> SUFFICES ASSUME IInv, [Next]_vars PROVE IInv'
  OBVIOUS
<1>1. ASSUME NEW e \in Events,
             PostRefused(e) \/ PostCallbackEvent(e) \/ PostCancelledBoth(e)
      PROVE  IInv'
  BY <1>1, PostRefusedKeeps, PostCallbackEventKeeps, PostCancelledBothKeeps
<1>2. ASSUME NEW e \in Events, SyncTimedOut(e) \/ CallerReturns(e)
      PROVE  IInv'
  BY <1>2, NotifyKeeps, SyncWokenKeeps, SyncTimedOutKeeps, SendResultKeeps,
     MarkCancelledKeeps, ReleaseEventKeeps DEF CallerReturns
<1>3. CASE Handle
  BY <1>3, CheckKeeps, GetKeeps, WaitKeeps, UsleepKeeps, AgainKeeps, BeginKeeps, StartKeeps,
     CompleteKeeps, PopKeeps DEF Handle
<1>4. CASE Tick
  BY <1>4, TickKeeps
<1>5. CASE (\E flag \in Finishes : RequestToFinish(flag)) \/ Finish
  BY <1>5, RequestToFinishKeeps, StoreRequestToQuitKeeps, StoreExitRequestedKeeps,
     FinishPostedKeeps DEF Finish
<1>6. CASE \E e \in Pending :
              CancelAllPendingCallbacks(Sender[e]) \/ CancelPendingCallback(Id[e])
  BY <1>6, CancelsKeep
<1>7. CASE \E registration \in Cancels : CancelCallbackEvents(registration)
  BY <1>7, CancelCallbackEventsKeeps
<1>8. CASE CancelAllCallbackEvents \/ TryWorkingLock
  BY <1>8, CancelsKeep, TryWorkingLockKeeps
<1>9. CASE UNCHANGED vars
  BY <1>9, StutterIInv
<1> QED
  BY <1>1, <1>2, <1>3, <1>4, <1>5, <1>6, <1>7, <1>8, <1>9 DEF Next

(* The inductive invariant, in every state of every behaviour.             *)
THEOREM Invariance == Spec => []IInv
<1> QED
  BY InitIInv, NextIInv, PTL DEF Spec
-----------------------------------------------------------------------------
(* The fields, the queue and the threads stay what they are declared to    *)
(* be: no count or semaphore is negative, whatever crosses.                *)
THEOREM TypeCorrect == Spec => []TypeOK
<1>1. IInv => TypeOK
  BY DEF IInv
<1> QED
  BY <1>1, Invariance, PTL

(* The callback thread is never left waiting while events are queued, for  *)
(* any number of events and any interleaving of posts, coalescing, cancels *)
(* and finish requests.                                                    *)
THEOREM WakeupNotLost == Spec => []NoLostWakeup
<1>1. IInv => NoLostWakeup
  BY DEF IInv
<1> QED
  BY <1>1, Invariance, PTL

(* The queue is ordered by priority, then by time: coalescing never breaks *)
(* the order the insertion from the end relies on.                         *)
THEOREM QueueStaysSorted == Spec => []QueueSorted
<1>1. IInv => QueueSorted
  BY DEF IInv
<1> QED
  BY <1>1, Invariance, PTL

(* What SendCallbackEvent answers is true and stays true.                  *)
THEOREM SendAnswersTrue == Spec => []SendResultTrue
<1>1. IInv => SendResultTrue
  <2> SUFFICES ASSUME IInv, NEW e \in SyncCall
               PROVE  /\ result[e] = "NOERROR" =>
                            e \in invoked /\ (pCallbackEvent = e => handler = "pop")
                      /\ result[e] = "E_CALLBACK_CANCELED" =>
                            /\ e \notin invoked
                            /\ pCallbackEvent = e => handler \in {"begin", "pop"}
                      /\ e \in abandoned => e \notin invoked
    BY DEF SendResultTrue
  <2>1. Told(e) /\ GivenUp(e)
    BY EventsAssumption DEF IInv, EventOK
  <2> QED
    BY <2>1 DEF Told, GivenUp, Over
<1> QED
  BY <1>1, Invariance, PTL

(* A handler whose events CancelCallbackEvents has vouched for can be      *)
(* deleted: none of them is called any more.                               *)
THEOREM CancelStaysQuiet == Spec => []CancelQuiet
<1>1. IInv => CancelQuiet
  <2> SUFFICES ASSUME IInv, NEW e \in quiet
               PROVE  e \notin Pending /\ (pCallbackEvent = e => handler = "pop")
    BY DEF CancelQuiet
  <2>1. e \in Events /\ Removed(e)
    BY DEF IInv, EventOK, TypeOK
  <2> QED
    BY <2>1 DEF Removed, Over
<1> QED
  BY <1>1, Invariance, PTL

(* One count for each of three holders.                                    *)
LEMMA ThreeHolders ==
    ASSUME NEW S, S \subseteq {"creator", "queue", "handler"}
    PROVE  Cardinality(S) = One("creator" \in S) + One("queue" \in S) + One("handler" \in S)
<1> DEFINE T == (S \ {"creator"}) \ {"queue"}
<1>1. IsFiniteSet(S)
  <2>1. IsFiniteSet({"creator"} \cup {"queue"})
    BY FS_Singleton, FS_AddElement
  <2>2. IsFiniteSet(({"creator"} \cup {"queue"}) \cup {"handler"})
    BY <2>1, FS_AddElement
  <2>3. S \subseteq ({"creator"} \cup {"queue"}) \cup {"handler"}
    OBVIOUS
  <2> QED
    BY <2>2, <2>3, FS_Subset
<1>2. Cardinality(S) = Cardinality(T) + One("creator" \in S) + One("queue" \in S)
  BY <1>1, WithoutTwo
<1>3. T = IF "handler" \in S THEN {"handler"} ELSE {}
  OBVIOUS
<1>4. Cardinality(T) = One("handler" \in S)
  BY <1>3, FS_EmptySet, FS_Singleton DEF One
<1> QED
  BY <1>2, <1>4 DEF One

(* No event is freed while its creator, the queue or the callback thread   *)
(* refers to it, and none is leaked, for any number of events.             *)
THEOREM RefsStayExact == Spec => []RefsExact
<1>1. IInv => RefsExact
  <2> SUFFICES ASSUME IInv, NEW e \in Events
               PROVE  event[e].m_cRef =
                        Cardinality({x \in {"creator", "queue", "handler"} :
                            \/ x = "creator" /\ caller[e] # "done"
                            \/ x = "queue" /\ e \in Pending
                            \/ x = "handler" /\ e = pCallbackEvent})
    BY DEF RefsExact
  <2> DEFINE S == {x \in {"creator", "queue", "handler"} :
                            \/ x = "creator" /\ caller[e] # "done"
                            \/ x = "queue" /\ e \in Pending
                            \/ x = "handler" /\ e = pCallbackEvent}
  <2>1. Counted(e)
    BY DEF IInv, EventOK
  <2>2. /\ S \subseteq {"creator", "queue", "handler"}
        /\ "creator" \in S <=> caller[e] # "done"
        /\ "queue" \in S <=> e \in Pending
        /\ "handler" \in S <=> e = pCallbackEvent
    OBVIOUS
  <2> HIDE DEF S
  <2>3. Cardinality(S) = One("creator" \in S) + One("queue" \in S) + One("handler" \in S)
    BY <2>2, ThreeHolders
  <2> QED
    BY <2>1, <2>2, <2>3 DEF Counted, One, S
<1> QED
  BY <1>1, Invariance, PTL

(* No event is called twice.                                               *)
THEOREM CalledOnce == Spec => [](handler = "start" => pCallbackEvent \notin invoked)
<1>1. IInv => (handler = "start" => pCallbackEvent \notin invoked)
  BY DEF IInv, Taken, EventOK, Uncalled
<1> QED
  BY <1>1, Invariance, PTL
-----------------------------------------------------------------------------
(* What the callback thread left in the queue when it released the lock in *)
(* GetEvent is there until it is taken away by a cancel or a coalescer, or *)
(* replaced by an event that is put in.                                    *)
Unlocked ==
    /\ handler \in {"unlocked", "sleep"} => Pending # {} \/ dropped # {}
    /\ handler = "unlocked" =>
        looked \in Events /\ looked \in Pending \cup dropped \cup replaced
    /\ handler = "sentinel" => dropped # {}

LEMMA QueueEmpty ==
    ASSUME TypeOK
    PROVE  /\ m_eventQueue = <<>> <=> Pending = {}
           /\ m_eventQueue # <<>> =>
                Head(m_eventQueue) \in Pending /\ Head(m_eventQueue) \in Events
<1>1. m_eventQueue \in Seq(Events)
  BY DEF TypeOK
<1>2. m_eventQueue = <<>> => Pending = {}
  BY DEF Pending, Range
<1>3. m_eventQueue # <<>> => Head(m_eventQueue) = m_eventQueue[1] /\ 1 \in DOMAIN m_eventQueue
  BY <1>1
<1> QED
  BY <1>1, <1>2, <1>3 DEF Pending, Range

(* A step that takes S out of the queue, and says so.                      *)
LEMMA UnlockedDropping ==
    ASSUME Unlocked, NEW S, Pending' = Pending \ S, Drop(S \cap Pending),
           UNCHANGED <<loop, replaced>>
    PROVE  Unlocked'
BY DEF Unlocked, Drop, loop

LEMMA NextUnlocked ==
    ASSUME IInv, Unlocked, [Next]_vars
    PROVE  Unlocked'
<1>0. TypeOK
  BY DEF IInv
<1>1. ASSUME NEW e \in Events, PostCallbackEvent(e)
      PROVE  Unlocked'
  <2>1. PICK older \in SUBSET Events :
            Pending' = (Pending \ older) \cup {e} /\ Replace(older)
    BY <1>1, PostCallbackEventKeeps
  <2>2. UNCHANGED <<loop, dropped>>
    BY <1>1, PostCallbackEventKeeps
  <2> QED
    BY <2>1, <2>2 DEF Unlocked, Replace, loop
<1>2. ASSUME NEW e \in Events, PostCancelledBoth(e)
      PROVE  Unlocked'
  <2>1. PICK older \in SUBSET Events : Pending' = Pending \ older /\ Drop(older)
    BY <1>2, PostCancelledBothKeeps
  <2>2. UNCHANGED <<loop, replaced>>
    BY <1>2, PostCancelledBothKeeps
  <2> QED
    BY <2>1, <2>2 DEF Unlocked, Drop, loop
<1>3. ASSUME NEW S \in SUBSET Events, CancelPending(S)
      PROVE  Unlocked'
  <2>1. m_eventQueue' = Without(m_eventQueue, S) /\ Drop(S \cap Pending)
        /\ UNCHANGED <<loop, replaced>>
    BY <1>3 DEF CancelPending
  <2>2. Pending' = Pending \ S
    BY <1>0, <2>1, WithoutIs DEF Pending, TypeOK
  <2> QED
    BY <2>1, <2>2, UnlockedDropping
<1>4. ASSUME NEW e \in Events, PostRefused(e) \/ SyncTimedOut(e) \/ CallerReturns(e)
      PROVE  Unlocked'
  BY <1>4
     DEF Unlocked, Pending, PostRefused, SyncTimedOut, CallerReturns, Notify, SyncWoken,
         SendResult, MarkCancelled, ReleaseEvent, context, loop, history, meanwhile
<1>5. CASE Get \/ Again
  <2>1. CASE m_eventQueue = <<>>
    BY <1>0, <1>5, <2>1, QueueEmpty
       DEF Unlocked, Pending, Get, Again, HandlerGoes, meanwhile
  <2>2. CASE m_eventQueue # <<>>
    <3>1. TakeFirst
      BY <1>5, <2>2 DEF Get, Again
    <3>2. CASE handler' = "unlocked"
      <4>1. looked' = Head(m_eventQueue) /\ m_eventQueue' = m_eventQueue
        BY <3>1, <3>2 DEF TakeFirst
      <4> QED
        BY <1>0, <2>2, <3>2, <4>1, QueueEmpty DEF Unlocked, Pending
    <3>3. CASE handler' = "begin"
      BY <3>3 DEF Unlocked
    <3> QED
      BY <3>1, <3>2, <3>3 DEF TakeFirst
  <2> QED
    BY <2>1, <2>2
<1>6. CASE Usleep
  BY <1>6 DEF Unlocked, Pending, Usleep, context
<1>7. CASE Check \/ Wait \/ Begin \/ Start \/ Complete \/ Pop
  BY <1>7
     DEF Unlocked, Check, Wait, Begin, Start, Complete, Pop, HandlerGoes
<1>8. CASE Tick \/ Finish \/ TryWorkingLock \/ UNCHANGED vars
  BY <1>8
     DEF Unlocked, Pending, Tick, Finish, StoreRequestToQuit, StoreExitRequested,
         FinishPosted, TryWorkingLock, vars, context, loop, history, meanwhile
<1>9. CASE \E flag \in Finishes : RequestToFinish(flag)
  BY <1>9 DEF Unlocked, Pending, RequestToFinish, context, loop, history, meanwhile
<1>10. CASE CancelAllCallbackEvents
  BY <1>3, <1>10 DEF CancelAllCallbackEvents
<1>11. ASSUME NEW e \in Pending, CancelAllPendingCallbacks(Sender[e]) \/ CancelPendingCallback(Id[e])
       PROVE  Unlocked'
  BY <1>3, <1>11 DEF CancelAllPendingCallbacks, CancelPendingCallback
<1>12. ASSUME NEW registration \in Cancels, CancelCallbackEvents(registration)
       PROVE  Unlocked'
  BY <1>3, <1>12 DEF CancelCallbackEvents
<1> QED
  BY <1>1, <1>2, <1>4, <1>5, <1>6, <1>7, <1>8, <1>9, <1>10, <1>11, <1>12
     DEF Next, Handle

(* While GetEvent is without the lock it reads a freed event only if that  *)
(* one was cancelled or replaced, and takes the head of the list for an    *)
(* event only if a cancel or a coalescer that cancels both emptied the     *)
(* queue: for any number of events and of threads that post and cancel.    *)
THEOREM OnlyCancelsDisturb == Spec => []SleeperUndisturbed
<1>1. Init => Unlocked
  BY DEF Init, Unlocked
<1>2. IInv /\ Unlocked /\ [Next]_vars => Unlocked'
  BY NextUnlocked
<1>3. IInv /\ Unlocked => SleeperUndisturbed
  <2> SUFFICES ASSUME IInv, Unlocked, handler = "unlocked", event[looked].m_cRef = 0
               PROVE  looked \in dropped \cup replaced
    BY DEF Unlocked, SleeperUndisturbed
  <2>1. looked \in Events /\ looked \in Pending \cup dropped \cup replaced
    BY DEF Unlocked
  <2>2. Counted(looked)
    BY <2>1 DEF IInv, EventOK
  <2>3. looked \notin Pending
    BY <2>2 DEF Counted, One
  <2> QED
    BY <2>1, <2>3
<1> QED
  BY <1>1, <1>2, <1>3, Invariance, PTL DEF Spec
-----------------------------------------------------------------------------
(* While the context is only asked to finish nicely and its stores are     *)
(* seen in order, m_bRequestToQuit is seen before m_bExitRequested and is  *)
(* not taken back: the thread leaves its loop from GetEvent only, with an  *)
(* empty queue, and nothing is posted to it afterwards.                    *)
QuitFirst ==
    /\ finisher.flag \in finishes \cup {"none"}
    /\ finisher.flag = "none" => finisher.stores = {}
    /\ "ASAP" \notin finishes =>
        /\ m_bExitRequested => m_bRequestToQuit
        /\ finisher.flag = "Nice" /\ "m_bRequestToQuit" \notin finisher.stores =>
            m_bRequestToQuit
        /\ handler = "finished" => m_bRequestToQuit /\ m_eventQueue = <<>>

LEMMA NextQuitFirst ==
    ASSUME ~Reordered, IInv, QuitFirst, [Next]_vars
    PROVE  QuitFirst'
<1>1. /\ finisher \in [flag : Finishes \cup {"none"},
                       stores : SUBSET {"m_bExitRequested", "m_bRequestToQuit"}]
      /\ Finishes \subseteq {"Nice", "ASAP"}
  BY EventsAssumption DEF IInv, TypeOK
<1>2. ASSUME NEW e \in Events,
             PostCallbackEvent(e) \/ PostCancelledBoth(e)
      PROVE  QuitFirst'
  <2>1. /\ ~m_bRequestToQuit
        /\ UNCHANGED <<m_bExitRequested, m_bRequestToQuit, handler, finisher, finishes>>
    BY <1>2 DEF PostCallbackEvent, PostCancelledBoth, loop
  <2> QED
    BY <2>1 DEF QuitFirst
<1>3. ASSUME NEW e \in Events, PostRefused(e) \/ SyncTimedOut(e) \/ CallerReturns(e)
      PROVE  QuitFirst'
  BY <1>3
     DEF QuitFirst, PostRefused, SyncTimedOut, CallerReturns, Notify, SyncWoken,
         SendResult, MarkCancelled, ReleaseEvent, context, loop
<1>4. CASE Get \/ Again
  BY <1>4 DEF QuitFirst, Get, Again, TakeFirst, HandlerGoes
<1>5. CASE Check \/ Wait \/ Usleep \/ Begin \/ Start \/ Complete \/ Pop
  BY <1>5 DEF QuitFirst, Check, Wait, Usleep, Begin, Start, Complete, Pop, HandlerGoes, context
<1>6. CASE Tick \/ TryWorkingLock \/ UNCHANGED vars
  BY <1>6 DEF QuitFirst, Tick, TryWorkingLock, vars, context, loop
<1>7. CASE FinishPosted
  BY <1>1, <1>7 DEF QuitFirst, FinishPosted, loop
<1>8. CASE StoreRequestToQuit
  BY <1>1, <1>8 DEF QuitFirst, StoreRequestToQuit, loop
<1>9. CASE StoreExitRequested
  BY <1>1, <1>9 DEF QuitFirst, StoreExitRequested, loop
<1>10. ASSUME NEW flag \in Finishes, RequestToFinish(flag)
       PROVE  QuitFirst'
  BY <1>1, <1>10 DEF QuitFirst, RequestToFinish, context, loop
<1>11. ASSUME NEW S \in SUBSET Events, CancelPending(S)
       PROVE  QuitFirst'
  <2>1. m_eventQueue = <<>> => m_eventQueue' = <<>>
    BY <1>11, CancelsNothing
  <2> QED
    BY <1>11, <2>1 DEF QuitFirst, CancelPending, loop
<1> QED
  BY <1>2, <1>3, <1>4, <1>5, <1>6, <1>7, <1>8, <1>9, <1>10, <1>11
     DEF Next, Handle, Finish, CancelAllPendingCallbacks, CancelPendingCallback,
         CancelAllCallbackEvents, CancelCallbackEvents

(* A context that is asked to finish nicely, and whose two stores are seen *)
(* in the order they are written in, leaves no event in its queue.         *)
THEOREM NoneStaysBehind ==
    ASSUME ~Reordered
    PROVE  Spec => []NoneLeftBehind
<1>1. Init => QuitFirst
  BY DEF Init, QuitFirst
<1>2. IInv /\ QuitFirst /\ [Next]_vars => QuitFirst'
  BY NextQuitFirst
<1>3. QuitFirst => NoneLeftBehind
  BY DEF QuitFirst, NoneLeftBehind
<1> QED
  BY <1>1, <1>2, <1>3, Invariance, PTL DEF Spec
=============================================================================

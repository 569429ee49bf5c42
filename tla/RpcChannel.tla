----------------------------- MODULE RpcChannel -----------------------------
(***************************************************************************)
(* One remote object of linux_rpc: the proxy in one process, the stub in   *)
(* another, and the sockets between them.                                  *)
(*                                                                         *)
(* The threads that hold the proxy call it.  The first call connects a     *)
(* socket and starts the ping task, without a lock; then a call, like a    *)
(* ping, sends its message and waits for the reply under m_Lock, and gives *)
(* up when none has come in time.  The stub's Looper is edge-triggered: it *)
(* is told once that something has arrived, accepts one connection or      *)
(* reads one message, and has a thread of the pool answer it.  The last    *)
(* Release of the proxy sends RELEASE, upon which the stub deletes itself. *)
(*                                                                         *)
(* Abstracted: a message is shorter than the buffer that it is read into,  *)
(* so that one recv takes everything that has arrived; a socket has the    *)
(* name of the thread that connects it; the stub has this one reference;   *)
(* every task gets a thread (ThreadPoolExecutor has the failure).  The     *)
(* proxy's own counting and the import table are in ProxyTable.            *)
(***************************************************************************)
EXTENDS Integers, Sequences, FiniteSets, Bags

CONSTANTS
    Threads,      \* the threads that hold the proxy
    Recipients,   \* death recipients
    None,         \* no socket, no task, no lock holder, no list
    Listen,       \* the stub's listening socket, as an event of its Looper
    MaxCalls,     \* bound: calls made
    AnyTimeOut    \* whoever waits may give up: the bound MayTimeOut is off

VARIABLES
    m_cSocketfd, m_pPingTask, m_Lock,   \* the proxy
    m_pOrgue,     \* its list of death recipients, None before the first
    held,         \* the threads that have a reference of the proxy
    crashed,      \* the proxy's process has crashed
    agent,        \* the callers and the ping tasks
    signalled,    \* the ping tasks that StopTask has sent SIGUSR2
    calls,        \* how many calls were made: the last one's identity
    stub,         \* "alive", "deleted" by RELEASE, or "dead" with its process
    m_cConnfd,    \* the connection the stub closes when it is deleted
    connfd,       \* the connection that ListenCallback has still to store there
    backlog,      \* connections that wait to be accepted
    watched,      \* connections the Looper was told of by AddFd
    edges,        \* events that epoll has not yet reported
    polled,       \* events reported, whose callbacks have not yet run
    inbox,        \* socket -> messages that the stub has not read
    pool,         \* the bag of messages whose tasks have not run, with their sockets
    replies,      \* socket -> replies that the proxy has not read
    timedOut,     \* history: sockets on which somebody has given up waiting
    crowded,      \* history: RELEASE was sent while a ping had the lock
    pingedLate    \* history: a ping was sent after RELEASE

proxy == <<m_cSocketfd, m_pPingTask, m_Lock, m_pOrgue, held, crashed, agent, calls, signalled>>
server == <<stub, m_cConnfd, connfd, backlog, watched, edges, polled, pool>>
wires == <<inbox, replies>>
history == <<timedOut, crowded, pingedLate>>
vars == <<proxy, server, wires, history>>

Agents == Threads \X {"caller", "pinger"}
Caller(t) == <<t, "caller">>
Pinger(t) == <<t, "pinger">>

ASSUME ThreadsAssumption == IsFiniteSet(Threads)
ASSUME NamesAssumption == None \notin Threads /\ None \notin Agents /\ Listen \notin Threads
ASSUME BoundAssumption == AnyTimeOut \in BOOLEAN

Invoke(id) == [cmd |-> "INVOKE", id |-> id]
Ping == [cmd |-> "PING", id |-> 0]
Release == [cmd |-> "RELEASE", id |-> 0]

At(pc) == [pc |-> pc, id |-> 0, sentOn |-> None, on |-> None]

Init ==
    /\ m_cSocketfd = None /\ m_pPingTask = None /\ m_Lock = None
    /\ m_pOrgue = None
    /\ held = Threads
    /\ crashed = FALSE
    /\ agent = [a \in Agents |-> At(IF a[2] = "caller" THEN "idle" ELSE "none")]
    /\ calls = 0 /\ signalled = {}
    /\ stub = "alive"
    /\ m_cConnfd = None /\ connfd = None
    /\ backlog = <<>> /\ watched = {} /\ edges = {} /\ polled = {} /\ pool = EmptyBag
    /\ inbox = [s \in Threads |-> <<>>] /\ replies = [s \in Threads |-> <<>>]
    /\ timedOut = {} /\ crowded = FALSE /\ pingedLate = FALSE

Goto(a, pc) == agent' = [agent EXCEPT ![a].pc = pc]
Return(a, pc) == agent' = [agent EXCEPT ![a] = At(pc)]

\* The sockets whose other end exists: they wait to be accepted or are watched.
Open(s) == s \in watched \/ \E i \in 1 .. Len(backlog) : backlog[i] = s

-----------------------------------------------------------------------------
(***************************************************************************)
(* The proxy: CInterfaceProxy::ProxyEntry and PingRunnable::Run.           *)
(***************************************************************************)

\* A call begins by looking at m_cSocketfd.
Call(t) ==
    /\ t \in held
    /\ agent[Caller(t)].pc = "idle"
    /\ calls < MaxCalls
    /\ calls' = calls + 1
    /\ agent' = [agent EXCEPT ![Caller(t)].id = calls + 1,
                     ![Caller(t)].pc = IF m_cSocketfd = None THEN "connect" ELSE "ready"]
    /\ UNCHANGED <<m_cSocketfd, m_pPingTask, m_Lock, m_pOrgue, held, crashed, signalled,
                   server, wires, history>>

Connect(t) ==
    /\ agent[Caller(t)].pc = "connect"
    /\ IF stub = "alive"
       THEN /\ Goto(Caller(t), "connected")
            /\ backlog' = Append(backlog, t)
            /\ edges' = edges \cup {Listen}
       ELSE /\ Return(Caller(t), "idle")        \* E_FAIL
            /\ UNCHANGED <<backlog, edges>>
    /\ UNCHANGED <<m_cSocketfd, m_pPingTask, m_Lock, m_pOrgue, held, crashed, calls,
                   signalled, stub, m_cConnfd, connfd, watched, polled, pool, wires,
                   history>>

\* The socket becomes the proxy's, over whatever another thread has stored, and
\* the ping task is started if there is none.
Connected(t) ==
    /\ agent[Caller(t)].pc = "connected"
    /\ m_cSocketfd' = t
    /\ IF m_pPingTask = None
       THEN agent' = [agent EXCEPT ![Caller(t)].pc = "started", ![Pinger(t)].pc = "ready"]
       ELSE Goto(Caller(t), "ready")
    /\ UNCHANGED <<m_pPingTask, m_Lock, m_pOrgue, held, crashed, calls, signalled,
                   server, wires, history>>

PingTaskStarted(t) ==
    /\ agent[Caller(t)].pc = "started"
    /\ m_pPingTask' = Pinger(t)
    /\ Goto(Caller(t), "ready")
    /\ UNCHANGED <<m_cSocketfd, m_Lock, m_pOrgue, held, crashed, calls, signalled,
                   server, wires, history>>

\* A message goes to the other end, whose Looper learns of it once it watches
\* the connection.
Sent(s, message) ==
    IF s # None /\ Open(s)
    THEN /\ inbox' = [inbox EXCEPT ![s] = Append(@, message)]
         /\ edges' = IF s \in watched THEN edges \cup {s} ELSE edges
    ELSE UNCHANGED <<inbox, edges>>

\* The last Release has begun to end the proxy.
ReleaseSent == \E t \in Threads : agent[Caller(t)].pc \in {"delete", "gone"}
Gone == \E t \in Threads : agent[Caller(t)].pc = "gone"

Message(a) == IF a[2] = "caller" THEN Invoke(agent[a].id) ELSE Ping

\* Mutant: the lock is not held while the reply is waited for.
SendUnlocked(a) ==
    /\ agent[a].pc = "ready"
    /\ m_Lock = None
    /\ agent' = [agent EXCEPT ![a].pc = "sent", ![a].sentOn = m_cSocketfd]
    /\ Sent(m_cSocketfd, Message(a))
    /\ pingedLate' = (pingedLate \/ ReleaseSent)
    /\ UNCHANGED <<m_cSocketfd, m_pPingTask, m_Lock, m_pOrgue, held, crashed, calls,
                   signalled, stub, m_cConnfd, connfd, backlog, watched, polled, pool,
                   replies, timedOut, crowded>>

\* send under m_Lock.
Send(a) ==
    /\ agent[a].pc = "ready"
    /\ m_Lock = None
    /\ m_Lock' = a
    /\ agent' = [agent EXCEPT ![a].pc = "sent", ![a].sentOn = m_cSocketfd]
    /\ Sent(m_cSocketfd, Message(a))
    /\ pingedLate' = (pingedLate \/ ReleaseSent)
    /\ UNCHANGED <<m_cSocketfd, m_pPingTask, m_pOrgue, held, crashed, calls, signalled,
                   stub, m_cConnfd, connfd, backlog, watched, polled, pool, replies,
                   timedOut, crowded>>

\* send fails on a connection whose other end is known to be gone: the caller
\* returns E_FAIL ...
SendFails(t) ==
    /\ agent[Caller(t)].pc = "ready"
    /\ m_Lock = None
    /\ ~Open(m_cSocketfd)
    /\ Return(Caller(t), "idle")
    /\ UNCHANGED <<m_cSocketfd, m_pPingTask, m_Lock, m_pOrgue, held, crashed, calls,
                   signalled, server, wires, history>>

\* ... if it comes to that: nothing here ignores SIGPIPE, which ends the process
\* unless a runtime around it has blocked the signal.
BrokenPipe(a) ==
    /\ \/ agent[a].pc = "ready" /\ m_Lock = None
       \/ agent[a].pc = "release" /\ m_cSocketfd # None
    /\ ~Open(m_cSocketfd)
    /\ crashed' = TRUE
    /\ UNCHANGED <<m_cSocketfd, m_pPingTask, m_Lock, m_pOrgue, held, agent, calls,
                   signalled, server, wires, history>>

\* recv reads m_cSocketfd again.
EnterRecv(a) ==
    /\ agent[a].pc = "sent"
    /\ agent' = [agent EXCEPT ![a].pc = "recv", ![a].on = m_cSocketfd]
    /\ UNCHANGED <<m_cSocketfd, m_pPingTask, m_Lock, m_pOrgue, held, crashed, calls,
                   signalled, server, wires, history>>

\* recv takes what has arrived; the first reply counts.
Receive(a) ==
    LET s == agent[a].on IN
    /\ agent[a].pc = "recv"
    /\ replies[s] # <<>>
    /\ replies' = [replies EXCEPT ![s] = <<>>]
    /\ m_Lock' = None
    /\ Return(a, IF a[2] = "caller" THEN "idle" ELSE "ready")
    /\ UNCHANGED <<m_cSocketfd, m_pPingTask, m_pOrgue, held, crashed, calls, signalled,
                   server, inbox, history>>

\* Bound, unless AnyTimeOut: while the other end exists nobody gives up after the
\* first who does, or after a race has started two ping tasks.
MayTimeOut ==
    \/ AnyTimeOut
    \/ timedOut = {} /\ \E t \in Threads : agent[Pinger(t)].pc = "none"

\* Mutant: the ping task goes on after a failure.
ReceiveFailsPinging(a) ==
    LET s == agent[a].on IN
    /\ agent[a].pc = "recv"
    /\ replies[s] = <<>>
    /\ Open(s) => MayTimeOut
    /\ timedOut' = IF Open(s) THEN timedOut \cup {s, agent[a].sentOn} ELSE timedOut
    /\ IF a[2] = "caller" THEN Return(a, "died") /\ UNCHANGED m_Lock
                          ELSE Return(a, "ready") /\ m_Lock' = None
    /\ UNCHANGED <<m_cSocketfd, m_pPingTask, m_pOrgue, held, crashed, calls, signalled,
                   server, wires, crowded, pingedLate>>

\* recv fails, because the other end is gone or because no reply came in time.
\* A call keeps the lock when it goes on to StubDied; the ping task does not.
ReceiveFails(a) ==
    LET s == agent[a].on IN
    /\ agent[a].pc = "recv"
    /\ replies[s] = <<>>
    /\ Open(s) => MayTimeOut
    /\ timedOut' = IF Open(s) THEN timedOut \cup {s, agent[a].sentOn} ELSE timedOut
    /\ Return(a, "died")
    /\ m_Lock' = IF a[2] = "caller" THEN m_Lock ELSE None
    /\ UNCHANGED <<m_cSocketfd, m_pPingTask, m_pOrgue, held, crashed, calls, signalled,
                   server, wires, crowded, pingedLate>>

\* StubDied: NotifyAll tells the recipients and forgets them, under the lock of
\* their list.  When nobody has ever linked one there is no list to be locked.
StubDied(a) ==
    /\ agent[a].pc = "died"
    /\ IF m_pOrgue = None
       THEN crashed' = TRUE /\ UNCHANGED <<m_pOrgue, m_Lock, agent>>
       ELSE /\ m_pOrgue' = {}
            /\ m_Lock' = IF m_Lock = a THEN None ELSE m_Lock
            /\ Return(a, IF a[2] = "caller" THEN "idle" ELSE "ended")
            /\ UNCHANGED crashed
    /\ UNCHANGED <<m_cSocketfd, m_pPingTask, held, calls, signalled, server, wires,
                   history>>

\* The list is made by the first LinkToDeath, without a lock; two threads that
\* link their first recipients at the same time are left out.
LinkToDeath(t, r) ==
    /\ t \in held
    /\ agent[Caller(t)].pc = "idle"
    /\ m_pOrgue' = (IF m_pOrgue = None THEN {} ELSE m_pOrgue) \cup {r}
    /\ UNCHANGED <<m_cSocketfd, m_pPingTask, m_Lock, held, crashed, agent, calls,
                   signalled, server, wires, history>>

\* Nobody unlinks before the first link, which would look into a list that is
\* not there.
UnlinkToDeath(t, r) ==
    /\ t \in held
    /\ agent[Caller(t)].pc = "idle"
    /\ m_pOrgue # None
    /\ m_pOrgue' = m_pOrgue \ {r}
    /\ UNCHANGED <<m_cSocketfd, m_pPingTask, m_Lock, held, crashed, agent, calls,
                   signalled, server, wires, history>>

\* Release of a thread's reference.
Drop(t) ==
    /\ t \in held
    /\ agent[Caller(t)].pc = "idle"
    /\ held' = held \ {t}
    /\ Goto(Caller(t), IF held = {t} THEN "release" ELSE "idle")
    /\ UNCHANGED <<m_cSocketfd, m_pPingTask, m_Lock, m_pOrgue, crashed, calls,
                   signalled, server, wires, history>>

\* The last reference: RELEASE is sent, without the lock and to no descriptor at
\* all when nobody has called the proxy.
SendRelease(t) ==
    /\ agent[Caller(t)].pc = "release"
    /\ Sent(m_cSocketfd, Release)
    /\ crowded' = (m_Lock # None)
    /\ Goto(Caller(t), "delete")
    /\ UNCHANGED <<m_cSocketfd, m_pPingTask, m_Lock, m_pOrgue, held, crashed, calls,
                   signalled, stub, m_cConnfd, connfd, backlog, watched, polled, pool,
                   replies, timedOut, pingedLate>>

\* Mutant: the proxy is deleted without stopping its ping task.
DeleteProxyOnly(t) ==
    /\ agent[Caller(t)].pc = "delete"
    /\ Goto(Caller(t), "gone")
    /\ UNCHANGED <<m_cSocketfd, m_pPingTask, m_Lock, m_pOrgue, held, crashed, calls,
                   signalled, server, wires, history>>

\* delete this: the destructor has StopTask signal the ping task that m_pPingTask
\* names, and does not wait for its end.
DeleteProxy(t) ==
    /\ agent[Caller(t)].pc = "delete"
    /\ Goto(Caller(t), "gone")
    /\ signalled' = IF m_pPingTask # None /\ agent[m_pPingTask].pc # "ended"
                    THEN signalled \cup {m_pPingTask} ELSE signalled
    /\ UNCHANGED <<m_cSocketfd, m_pPingTask, m_Lock, m_pOrgue, held, crashed, calls,
                   server, wires, history>>

\* The signal is handled: the ping task's thread ends wherever it is, and its
\* lock is given back or not, with the way in which pthread_exit ends a thread.
SiguserHandler(a) ==
    /\ a \in signalled
    /\ agent[a].pc # "ended"
    /\ signalled' = signalled \ {a}
    /\ Return(a, "ended")
    /\ \/ UNCHANGED m_Lock
       \/ m_Lock = a /\ m_Lock' = None
    /\ UNCHANGED <<m_cSocketfd, m_pPingTask, m_pOrgue, held, crashed, calls,
                   server, wires, history>>

\* A ping task goes on with the proxy that is deleted as long as the memory is as
\* it was; once it is not, it is "wild", and what it does is not modelled.
UseFreedProxy(a) ==
    /\ Gone
    /\ agent[a].pc \in {"ready", "sent", "recv", "died"}
    /\ Return(a, "wild")
    /\ UNCHANGED <<m_cSocketfd, m_pPingTask, m_Lock, m_pOrgue, held, crashed, calls,
                   signalled, server, wires, history>>

-----------------------------------------------------------------------------
(***************************************************************************)
(* The stub: its Looper and the tasks of its pool.                         *)
(***************************************************************************)
Poll ==
    /\ connfd = None
    /\ polled = {}
    /\ edges # {}
    /\ polled' = edges
    /\ edges' = {}
    /\ UNCHANGED <<proxy, stub, m_cConnfd, connfd, backlog, watched, pool, wires,
                   history>>

\* One connection is accepted and given to the Looper, whose epoll reports at once
\* what it already holds ...
ListenCallback ==
    /\ connfd = None
    /\ Listen \in polled
    /\ backlog # <<>>
    /\ LET s == Head(backlog) IN
         /\ connfd' = s
         /\ watched' = watched \cup {s}
         /\ edges' = IF inbox[s] # <<>> THEN edges \cup {s} ELSE edges
    /\ backlog' = Tail(backlog)
    /\ polled' = polled \ {Listen}
    /\ UNCHANGED <<proxy, stub, m_cConnfd, pool, wires, history>>

\* ... and then stored through the raw pointer to the stub, which a task may have
\* deleted by now: the store then goes to freed memory.
StoreConnfd ==
    /\ connfd # None
    /\ m_cConnfd' = IF stub = "alive" THEN connfd ELSE m_cConnfd
    /\ connfd' = None
    /\ UNCHANGED <<proxy, stub, backlog, watched, edges, polled, pool, wires, history>>

\* Mutant: the callback is removed once it has been called.
AcceptCallbackOnce(s) ==
    /\ connfd = None
    /\ s \in polled
    /\ inbox[s] # <<>>
    /\ inbox' = [inbox EXCEPT ![s] = <<>>]
    /\ pool' = pool (+) SetToBag({<<s, Head(inbox[s])>>})
    /\ polled' = polled \ {s}
    /\ watched' = watched \ {s}
    /\ UNCHANGED <<proxy, stub, m_cConnfd, connfd, backlog, edges, replies, history>>

\* The first of the messages that have arrived becomes a task of the pool; those
\* read along with it are lost.  recv, and with it the Looper, blocks when
\* an earlier callback has taken what the event was about.
AcceptCallback(s) ==
    /\ connfd = None
    /\ s \in polled
    /\ inbox[s] # <<>>
    /\ inbox' = [inbox EXCEPT ![s] = <<>>]
    /\ pool' = pool (+) SetToBag({<<s, Head(inbox[s])>>})
    /\ polled' = polled \ {s}
    /\ UNCHANGED <<proxy, stub, m_cConnfd, connfd, backlog, watched, edges, replies,
                   history>>

\* OnTransact answers a call or a ping.
Transact(s, message) ==
    /\ BagIn(<<s, message>>, pool)
    /\ message.cmd # "RELEASE"
    /\ stub = "alive"
    /\ pool' = pool (-) SetToBag({<<s, message>>})
    /\ replies' = [replies EXCEPT ![s] = Append(@, message)]
    /\ UNCHANGED <<proxy, stub, m_cConnfd, connfd, backlog, watched, edges, polled,
                   inbox, history>>

\* Mutant: RELEASE does not reach the count.
TransactReleaseIgnored(s) ==
    /\ BagIn(<<s, Release>>, pool)
    /\ stub = "alive"
    /\ pool' = pool (-) SetToBag({<<s, Release>>})
    /\ UNCHANGED <<proxy, stub, m_cConnfd, connfd, backlog, watched, edges, polled,
                   wires, history>>

\* RELEASE is not answered.  The destructor of the stub closes the listening
\* socket and the last connection accepted.
TransactRelease(s) ==
    /\ BagIn(<<s, Release>>, pool)
    /\ stub = "alive"
    /\ stub' = "deleted"
    /\ pool' = pool (-) SetToBag({<<s, Release>>})
    /\ watched' = watched \ {m_cConnfd}
    /\ inbox' = [inbox EXCEPT ![m_cConnfd] = <<>>]
    /\ backlog' = <<>>
    /\ edges' = edges \ {m_cConnfd, Listen}
    /\ UNCHANGED <<proxy, m_cConnfd, connfd, polled, replies, history>>

\* A callback that was due on a socket which the destructor has closed removes
\* itself.
CallbackFails(s) ==
    /\ connfd = None
    /\ stub = "deleted"
    /\ s \in polled \cap {m_cConnfd, Listen}
    /\ polled' = polled \ {s}
    /\ UNCHANGED <<proxy, stub, m_cConnfd, connfd, backlog, watched, edges, pool, wires,
                   history>>

\* The stub's process ends.
Die ==
    /\ stub # "dead"
    /\ stub' = "dead"
    /\ m_cConnfd' = None /\ connfd' = None
    /\ backlog' = <<>> /\ watched' = {} /\ edges' = {} /\ polled' = {} /\ pool' = EmptyBag
    /\ inbox' = [s \in Threads |-> <<>>]
    /\ UNCHANGED <<proxy, replies, history>>

-----------------------------------------------------------------------------
\* What an agent does once it has begun.
Proceed(a) == EnterRecv(a) \/ Receive(a) \/ ReceiveFails(a) \/ StubDied(a)

Begin(t) == Connect(t) \/ Connected(t) \/ PingTaskStarted(t)

CallerStep(t) ==
    \/ Call(t) \/ Begin(t) \/ SendFails(t)
    \/ Drop(t) \/ SendRelease(t) \/ DeleteProxy(t)
    \/ \E r \in Recipients : LinkToDeath(t, r) \/ UnlinkToDeath(t, r)

SendStep(a) == Send(a) \/ BrokenPipe(a)

ServerStep ==
    \/ Poll \/ ListenCallback \/ StoreConnfd
    \/ \E s \in Threads : AcceptCallback(s) \/ TransactRelease(s)
    \/ \E s \in polled : CallbackFails(s)
    \/ \E task \in BagToSet(pool) : Transact(task[1], task[2])

\* What the stub does after the proxy's process has crashed is left out.
Next ==
    /\ ~crashed
    /\ \/ \E t \in Threads : CallerStep(t)
       \/ \E a \in Agents : SendStep(a) \/ Proceed(a) \/ SiguserHandler(a)
       \/ \E t \in Threads : UseFreedProxy(Pinger(t))
       \/ ServerStep
       \/ Die

Spec == Init /\ [][Next]_vars

\* Who has sent a message goes on and a ping task pings, as long as either can.
\* Nothing is asked of the callers or of the stub's process.
FairSpec ==
    /\ Spec
    /\ WF_vars(/\ ~crashed
               /\ (\E a \in Agents : Proceed(a)) \/ (\E t \in Threads : SendStep(Pinger(t))))

-----------------------------------------------------------------------------
(* What must hold. *)
TypeOK ==
    /\ m_cSocketfd \in Threads \cup {None}
    /\ m_pPingTask \in (Threads \X {"pinger"}) \cup {None}
    /\ signalled \subseteq Threads \X {"pinger"}
    /\ m_Lock \in Agents \cup {None}
    /\ m_pOrgue = None \/ m_pOrgue \subseteq Recipients
    /\ \A a \in Agents : /\ agent[a].on \in Threads \cup {None}
                         /\ agent[a].id \in 0 .. calls
                         /\ agent[a].pc \in {"sent", "recv"} => m_Lock = a
    /\ stub \in {"alive", "deleted", "dead"}
    /\ watched \subseteq Threads /\ connfd \in Threads \cup {None}
    /\ edges \cup polled \subseteq Threads \cup {Listen}
    /\ Len(backlog) + Cardinality(watched) <= Cardinality(Threads)

\* A call returns with its own reply, whatever other threads and the ping task
\* do on the same socket, unless somebody gave up waiting on that socket before.
OwnReply ==
    [][\A t \in Threads :
         LET c == agent[Caller(t)] IN
         (c.pc = "recv" /\ agent'[Caller(t)].pc = "idle") =>
             Head(replies[c.on]).id = c.id \/ c.on \in timedOut]_vars

\* The Looper has an event to report that leads it to what has arrived on a socket.
Noted(s) == (IF s \in watched THEN s ELSE Listen) \in edges \cup polled

\* Something that will be noticed is on its way along a socket.
OnItsWay(s) ==
    \/ replies[s] # <<>>
    \/ \E task \in BagToSet(pool) : task[1] = s
    \/ inbox[s] # <<>> /\ Noted(s)

\* The Looper may never learn of a connection that arrives together with another.
Overlooked(s) == s \notin watched /\ watched # {}

\* Something is on its way to everybody who waits for a reply: the edge-triggered
\* Looper leaves no request unread.  The ways to lose one are a socket that another
\* thread's took the place of, and a connection that arrived together with another.
\* Whose reply it is, after somebody gave up on the socket, OwnReply says.
NoLostRequest ==
    \A a \in Agents :
        LET s == agent[a].on IN
        agent[a].pc = "recv" /\ agent[a].sentOn = s /\ stub = "alive" /\ ~Overlooked(s) =>
            OnItsWay(s)

\* Once the proxy is gone its RELEASE is a task of the pool, or the next thing that
\* the Looper reads from the socket, or has deleted the stub, unless nobody ever
\* called the proxy, RELEASE went together with a ping, somebody gave up on the
\* socket before, or the Looper overlooks it.
ReleaseArrives ==
    LET s == m_cSocketfd IN
    Gone /\ s # None /\ stub = "alive" /\ ~crowded /\ s \notin timedOut /\ ~Overlooked(s) =>
        \/ BagIn(<<s, Release>>, pool)
        \/ inbox[s] # <<>> /\ Head(inbox[s]) = Release /\ Noted(s)

\* What is deleted is used by mistake in these ways only.  A call is answered by a
\* stub that is deleted when its caller gave up waiting; a ping, also when RELEASE
\* went together with it or before it.  A ping task works on a deleted proxy when
\* the signal that ends it is pending, or when two threads that made the first call
\* have each started one.  ListenCallback's raw pointer is good: RELEASE is read
\* after every connection that the Looper was told of has been accepted and stored.
SafeUnlessLateOrRaced ==
    /\ stub = "deleted" => \A task \in BagToSet(pool) :
         /\ task[2].cmd = "INVOKE" => timedOut # {}
         /\ task[2].cmd = "PING" => timedOut # {} \/ crowded \/ pingedLate
    /\ stub = "deleted" => connfd = None
    /\ Gone => \A t \in Threads : agent[Pinger(t)].pc \notin {"none", "ended"} =>
         \/ Pinger(t) \in signalled
         \/ \E u \in Threads \ {t} : agent[Pinger(u)].pc # "none"

Linked(r) == m_pOrgue # None /\ r \in m_pOrgue

\* A recipient that is linked while the ping task runs is told when the stub's
\* process ends, unless it is unlinked or the proxy released first.
DeathTold ==
    \A r \in Recipients :
        (/\ stub = "dead" /\ ~crashed
         /\ Linked(r)
         /\ \E t \in Threads : agent[Pinger(t)].pc \notin {"none", "ended"})
            ~> (~Linked(r) \/ Gone \/ crashed)
=============================================================================

# Elastos RDK 5.0: specifications of the CAR runtime

ElastosRDK5_0 is an Android-like application framework in C++ on a component
runtime, CAR. The bulk of its 29,000 files is ported code: the core library
(`Sources/Elastos/LibCore`), the Droid framework (`Sources/Elastos/Frameworks`)
and vendored libraries. What is its own, and what everything else rests on, is
the runtime (`Sources/Elastos/Runtime`, 61,000 lines): reference counting,
shared strings, remote objects and callbacks. These modules specify its
concurrent core, and the message queue of the framework, on which every
application thread waits. Paths below are relative to
`src/Sources/Elastos/Runtime`, and those that begin with `os/` to
`src/Sources/Elastos/Frameworks/Droid/Base/Core/src`; `ServiceManager.cpp` and
`DCARServer.cpp` are in `src/Sources/Elastos/Frameworks/Droid`.

## 1. The system

| Part | State | Operations | Modelled in |
|---|---|---|---|
| Reference counted objects, `Library/eltypes/elrefbase` | strong and weak count, lifetime flag | IncStrong, DecStrong, ForceIncStrong, IncWeak, DecWeak, AttemptIncStrong, AttemptIncWeak, Resolve, destructor | `RefBase` |
| Shared buffers, `Library/eltypes/elstring/elsharedbuf.cpp` | count, size and bytes of a buffer; the pointer of each String | Alloc, Acquire, Release, Edit, EditResize; SetTo, Append, LockBuffer of String | `SharedBuffer` |
| Import side of RPC, `Core/marshal/linux_rpc/{rot,imarshal,proxy}.cpp` | table from net address to proxy, count of each proxy, `g_marshalLock` | StdUnmarshalInterface, FindImportObject, RegisterImportObject, AddRef, Release, UnregisterImportObject | `ProxyTable` |
| Callback context, `Core/carapi/{CCallbackContext,cbapi}.cpp`, `Core/inc/callback.h` | event queue, current event, finish flags, two locks, semaphores, count and status of each event | Post, Send, four cancels, RequestToFinish, HandleCallbackEvents | `CallbackContext` |
| Message queue, `os/{CMessageQueue,Looper,Handler,NativeMessageQueue}.cpp` | list of messages and barriers, mBlocked, mQuiting, next token, idle handlers, the wake-up pipe | GetNext, EnqueueMessage, removals, barriers, Quit, Loop, RunWithScissors | `MessageQueue` |
| RPC channel, `linux_rpc/{proxy,stub}.cpp` | the proxy's socket and lock, the stub's connections | ProxyEntry, ListenCallback, AcceptCallback, TransactRunnable | `RpcChannel` |
| Death recipients and pings, `linux_rpc/proxy.cpp` | recipient list, ping task | LinkToDeath, UnlinkToDeath, StubDied, PingRunnable | `RpcChannel` |
| Thread pool, `linux_rpc/threadpoolexecutor.cpp` | list of Workers, count and lock of each, the executor's lock | RunTask, ThreadEntry, StopTask, the handler of SIGUSR2 | `ThreadPoolExecutor` |
| Looper of stubs, `linux_rpc/looper.cpp` | registered descriptors, responses | AddFd, RemoveFd, PollInner | `RpcChannel`, for one stub |
| Export side of RPC, `linux_rpc/{rot,imarshal,stub}.cpp` | table from object to stub, count of each stub | StdMarshalInterface, RegisterExportObject, FindExportObject, StdUnmarshalInterface of an object of the same process, RELEASE, the stub's destructor | `RemoteObject`; one connection in `RpcChannel` |
| Service manager, `DCARServiceManager/ServiceManager.cpp`, `DCARServer/DCARServer.cpp` | a pack for each name | AddService, GetService, RemoveService | `RemoteObject` |
| Local modules, `Core/carapi/locmod.cpp` | list of loaded libraries | AcquireClassFactory, FreeUnusedModules | planned |
| Binder marshalling, `Core/marshal/android_linux` | as linux_rpc | as linux_rpc | not yet |
| Quintets, reflection, aggregation, elapi, CAR compiler, LibCore, Frameworks | | | no (section 7) |

How they interact. Components are reference counted (`RefBase`). A component of
another process is reached through a proxy: unmarshalling an interface pointer
finds the proxy of its net address in the import table or makes one, a call on
it goes through the RPC channel to the stub, whose looper hands it to the thread
pool, and dropping the proxy sends RELEASE to the stub. What is unmarshalled is a
pack: the address, made when the object's process marshals the interface, which
takes a reference on the stub for it. A service's pack is kept by DCARServer,
which gives it to whoever asks. A task of the pool pings
the stub for every proxy that was called, and tells the death recipients when it
does not answer. A component that raises
CAR events posts them, through a generated callback sink, to the context of the
thread its listener lives on; the callback thread calls the listener. Threads of
the framework send messages, through Handlers, to the queue of the thread that is
to handle them; its Looper takes them in the order of their times. Strings
cross all of these and share buffers between threads.

What is hard in it:

* lock-free counting, with windows in which a count is off by 2^28, with checks
  that precede the update they justify, and with the last reference dropped
  while another thread tries to promote a weak one;
* a table of objects whose own counts reach zero outside the table's lock;
* a queue whose consumer is woken after the lock is released, sleeps without
  it, and runs callbacks with another lock;
* senders that time out while their callback is being taken or run, cancels
  that must promise silence, and finish flags that are stored without a lock;
* a message queue whose consumer sleeps in a poll and is woken after the lock is
  released, with barriers that stall some messages and idle handlers that run in
  between;
* a stub whose count is raised by those who marshal and lowered by the messages of
  other processes, which get copies of packs and may crash;
* remote references given back by messages, sockets connected without a lock,
  replies that are told apart only by their order, and an edge-triggered looper
  that is told of nothing twice;
* threads that are ended by a signal, wherever they are and whatever they hold.

What makes each part correct is stated with its module below; `PROJECT.json`
lists the hazards, each at its line, with the properties that catch it or the
reason none does yet.

## 2. Modules

| Module | About |
|---|---|
| `SharedOwnership` | abstract: owners keep an object, observers its control block |
| `RefBase` | ElRefBase, one object, one step per atomic operation; implements `SharedOwnership` |
| `RefBaseProofs` | theorems about `RefBase` for any number of clients |
| `ProxyTable` | the proxies of one net address in one process |
| `MessageQueue` | the queue of one Looper thread, the threads that send to it |
| `RpcChannel` | one proxy with its threads, one stub, the sockets between them |
| `RemoteObject` | one stub, the packs that name it, the processes and the service manager that have them |
| `ThreadPoolExecutor` | the threads of the pings and of the calls, and those that start and stop them |
| `CallbackContext` | one callback thread, the threads that post to it, cancel and finish it |
| `ProxyTableProofs` | theorems about `ProxyTable` for any number of threads |
| `StringValues` | abstract: every String has a value of its own |
| `SharedBuffer` | Strings over shared buffers; implements `StringValues` |
| `SharedBufferProofs` | theorems about `SharedBuffer` for any number of Strings, addresses, texts |
| `RemoteObjectProofs` | theorems about `RemoteObject` for any numbers of clients, threads, packs and connections |
| `LinuxRpcProofs` | theorems about `RpcChannel` for any numbers of threads, recipients and calls, and about `ThreadPoolExecutor` for any set of tasks |
| `CallbackContextProofs` | theorems about `CallbackContext` for any set of events |
| `MessageQueueProofs` | theorems about `MessageQueue` for any numbers of threads, messages, barriers and idle handlers |
| `Lists` | a list with some of its entries detached, for the two queues |
| `SetsAndLists` | lemmas on the size of a set that changes at one element, and on lists in which one entry is put, from which one is taken or some are detached; for the proofs about proxies, buffers, stubs and the two queues |
| `MC...` | the same for TLC: symmetry, and functions of the events |

Conventions. Variables, constants and actions have the names of the code. A
thread is at a label of its `pc` and an action takes it to the next point where
another thread can see or change something: one atomic instruction in `RefBase`
and `SharedBuffer`, one critical section in the others, and one step for each
shared access outside a lock. "Mutant:" marks definitions that no specification
uses: each is an action as a plausible bug would have it, and shows that a
property can fail.

### RefBase

A *client* is one reference with the thread that is taking or dropping it.
`mStrong`, `mWeak` and `mFlags` are the fields of `WeakRefImpl`; `object` and
`refs` say whether the two blocks of memory are freed. `IncStrong` is
`IncStrong`, `IncStrongAdd`, `SubtractInitial`, `OnFirstRef`; `DecStrong` is
`DecStrong`, `OnLastStrongRef`, `DeleteObject`, `DecStrongWeak`, `LastWeak`;
`AttemptIncStrong` is `AttemptIncStrong`, `AttemptRead` and then `AttemptSwap`,
or `AttemptAllowed` or `AttemptRefused`, `AttemptAdd` and `AttemptUnneeded`.
`OnIncStrongAttempted` is virtual, so an object with the WEAK lifetime may
answer either. A client copies from another client, which cannot drop its strong
reference while `IncStrong` runs on it (`lender`): this is the contract of the
interface and without it no implementation is right. `WeakFirst` says which
lifetimes hand out weak references before the first strong one.

Correct means: `CountsExact`, `NoUseAfterFree`, `NoLeak`, `AssertionsHold` (the
assertions of the code), `OneFirstRef` (OnFirstRef runs for one thread at a
time), and `ImplementsOwnership`: a strong reference is given out only while
the object lives, the object dies once, when it has no owner, and the counters
after it, when they have no observer.

### ProxyTable

`imports` is the chain of table entries for the address, `m_cRef` and `memory`
are those of each proxy, `this` is the proxy a thread works on and `holds` the
reference it owns. `StdUnmarshalInterface` is `FindImportObject` (which keeps
`g_marshalLock` if there is no entry), `S_CreateObject` or `CreateFails`,
`GetInterface`, `Release`; `CObjectProxy::Release` is `Release`,
`UnregisterImportObject`, `SendRelease`, `DeleteThis`. A step that would read
a deleted proxy is not taken.

`HeldProxyUsable` (a held proxy is live and the only entry of its address) and
`CountsExact` hold although the proxy's destruction is not atomic. What does not
hold is that a proxy is destroyed once: see finding 2. `SafeUnlessResurrected`
shows that the only cause, also of a proxy that is forgotten with count 0, is a
reference taken on a count of 0: a correction of FindImportObject (take no
reference on such a proxy) is enough.

### CallbackContext

Each event has a thread of its own, `caller`, that creates it and posts it, or
sends it and waits. The callback thread (`handler`) is `Check`, `Get` (the lock
is held in between), then `Wait`, or `Usleep` and `Again` when the first event is not
due, or `Begin`, `Start`, `Complete`, `Pop`. Post and the four cancels are one action each, under
`m_queueLock`; `Notify` follows without it. A cancel that
finds nothing pending is left out of `Next`, as it changes nothing, unless it has an
answer to give. `RequestToFinish` is two stores, in
order or not (`Reordered`), and a post of the semaphore. `m_when` and `now` are
a small clock; `usleep` ends when `now` has reached `wakeAt`. A refusal by
`m_Status` alone cannot be told from one by the flags, which stay set, and is
not modelled. Callbacks do not use the context of the thread they run on.

`quiet` remembers what a cancel has vouched for and `abandoned` what a timed-out
sender left in the queue; `dropped` and `replaced` are the events that cancels and
coalescing took away while GetEvent was without the lock.

GetEvent does two things without the lock that the code does not protect. It reads
`m_when` of the first event after unlocking (CCallbackContext.cpp:498) with no
reference of its own (`looked`): in `Usleep` the time of an event that was freed
meanwhile is any. And it does not ask again after the sleep whether there is an event:
when the queue is empty it takes the list head for one (`"sentinel"`), and what
follows is undefined. Both happen as soon as pending events are cancelled, and the
first also when one is replaced; the safety run, which has all of that, stops the
thread at the head and checks everything up to that point. `SleeperUndisturbed` says
that nothing else leads to either: timeouts and releases leave the event alone, and
coalescing, which removes events, always puts one in. The references of `RefsExact`
are those the code counts; the pointer that GetEvent keeps is not among them.

### MessageQueue

One action per critical section: `EnqueueMessage` (every SendMessage of Handler
ends there; time 0 is the front of the queue), `EnqueueSyncBarrier`,
`RemoveSyncBarrier`, the three removals, `Quit`. `NativeWake` follows without the
lock, as in the code, and `WaitReturns` is the wait of RunWithScissors.
GetNext is `PollReturns`, then one look under the lock that ends as `TakeMessage`,
`Block` or `StartIdle` (or ends the loop), then `RunIdler` and `EndIdle`, back to a
poll with timeout 0; `Dispatch` is Loop and DispatchMessage. `NextMessage` is the
search behind a barrier, `InsertAfter` and `NeedWake` are the decisions of
EnqueueMessage. A barrier keeps `when` 0, as the code never sets it; `since` and
`id` are history. A task of RunWithScissors and a barrier have a time that was
read before the lock was taken.

`NoLostWakeup` relates the deadline of a sleeping Looper to the list;
`QueueOrder` is the order of the list although barriers with time 0 stand in it;
`BarrierHolds` says what a barrier may let pass, and `DueDelivered` that what is
due and not stalled is dispatched.

### RpcChannel

An *agent* is a thread's call or the ping task that it started. A call is `Call`
(the look at m_cSocketfd), `Connect`, `Connected` and `PingTaskStarted` if there was no
socket, `Send`, `EnterRecv` (the second look at m_cSocketfd), and then `Receive`, or
`ReceiveFails` and `StubDied`; the ping task is `Send`, `EnterRecv`, `Receive` again
and again. A call keeps m_Lock until it has told the recipients, the ping task
does not. The last Release is `Drop`, `SendRelease`, `DeleteProxy`, whose StopTask
only sends the signal (`signalled`); `SiguserHandler` is its handling, at any later
time and wherever the ping task is, with m_Lock given back or not. Until then the ping
task goes on with the freed proxy: with its old contents, sending pings after RELEASE
(`pingedLate`), or, once the memory is used again, in a way that is not modelled
(`UseFreedProxy`, "wild"). On the other
side `Poll` takes the events that epoll has to report, and `ListenCallback` and
`AcceptCallback` follow in any order; `Transact` and `TransactRelease` are tasks of
the pool. `ListenCallback` accepts a connection and gives it to the Looper, and
`StoreConnfd` stores it through the raw pointer to the stub, with tasks of the pool in
between; the Looper's thread does nothing else meanwhile (`connfd`). `edges` are the events not yet reported: one is added when something
arrives, never because something is still there, which is what EPOLLET means.
`Die` is the end of the stub's process.

`send` to a connection whose other end is gone fails or, as nothing in the
runtime ignores SIGPIPE, ends the process (`BrokenPipe`); the Droid runtime
blocks that signal, so both happen. Data that has arrived is received even if
the other end is gone. `StubDied` without a list of recipients dereferences NULL
(proxy.cpp:1252): the process is `crashed` and the model stops.

The properties name the ways in which the code does lose something, so that they
show there is no other:

* a reply is another call's only after somebody gave up waiting on that socket
  (`OwnReply`);
* a request is lost only on a socket that a race has replaced, or on a connection
  that arrived together with another, of which ListenCallback accepts one; on any
  other something is on its way to whoever waits, although after a timeout it may
  be another call's reply (`NoLostRequest`, `Overlooked`);
* RELEASE is lost on a connection that is overlooked, on a socket where somebody
  gave up waiting, when the proxy was never called, or when it goes together with a
  ping, as it is sent without m_Lock; else it is the next message that the stub
  takes from its socket (`ReleaseArrives`);
* a deleted stub is worked on only for a call that gave up, or for a ping that was
  sent along with RELEASE or after it; a deleted proxy only by the ping task that
  the signal has not yet ended, or by the second one of two first calls that race
  (`SafeUnlessLateOrRaced`). ListenCallback's store never meets a deleted stub: with
  one proxy every connection is made before the RELEASE and reported to the Looper
  no later than what comes before the RELEASE on its socket, so that when the RELEASE
  is a task nothing is left to be accepted or stored. With
  several proxies a stub is deleted under a connection only if its count is wrong,
  which is `RemoteObject`'s subject;
* a recipient that is linked while a ping task runs is told of the death
  (`DeathTold`).

### RemoteObject

`stub`, `mRef` and `m_cConnfd` are the stub, which is also its entry in the export
table, since nothing removes an entry. `packs` are the packs on their way to a
process, `mServices` says whether DCARServer has one, `refs` and `m_cSocketfd` are
the proxy of each client, and `conns` are the connections that the stub has
accepted, each with the request that is on it or in a task of the pool. The
actions are the critical sections: `FindExportObject` or `S_CreateObject` under
g_marshalLock, `StdMarshalInterface` (the second AddRef, after the lock is
released), `SendPack`, `AddService` or `PackDropped`; `Unmarshal` in a client,
`UnmarshalHome` and `ReleaseHome` in the object's own process; `Connect`, `Call`,
`Release` of a client; `AcceptCallback`, `Transact`, `TransactRelease` of the stub.
`ClientDies` is the crash of a client, of which the stub's process sees at most
that a connection ends (stub.cpp:743-746): it takes no reference back.

It composes the others at their boundary: of ProxyTable it uses that a client has
one proxy, which sends one RELEASE; of RpcChannel, that what is sent on an open
connection arrives. What those modules say about it when it does not hold is not
repeated here. The destructor closes the connection that was accepted last only;
a request on another one, or one that is a task already, still comes to the
deleted stub. The model stops at a step that would use a deleted stub; since the
entry is never removed, marshalling the object again is such a step. A parcel is
taken to carry the address of a pack across: an array of interfaces and the
service manager's messages do, while `WriteInterfacePtr` copies the pack with the
pointer that its String is.

`uncounted` is history: a pack was made for which no reference was taken, by
`Forward` (a proxy is marshalled) or by the second `GetService` of one pack
(`spent`). `lost` is history too: a reference was taken that nobody will give back.
`SafeUnlessUncounted` says that the count is right up to the first: in particular
the creator of a stub, whose count is 0 until after it has released the lock, is
not overtaken. What happens after it is certain: a service's pack is counted once and
given to every process that asks (DCARServer.cpp:172), each of their proxies sends
RELEASE, the first one deletes the stub, and the next is executed on a deleted stub
whose count is 0, where elrefbase.h:131 asserts that it does not become negative.
`DeletedUnlessLost` says that the stub goes with its last user but
for the second.

### ThreadPoolExecutor

A task has one Worker and three threads that matter: the one in RunTask
(`caller`), its own (`worker`) and, if it is a ping, the one in the destructor of
its proxy (`stopper`). `RunTask`, `Create`, `StoreThread`, `AddWorker`, `EndRunTask` are
RunTask, with mLock from the first to the fourth; `Enter`, `CheckThread`, `Finish`,
`LockMain`, `RemoveWorker`, `Leave` are ThreadEntry; `StopTask`, which sends the
signal, and `EraseWorker` are StopTask with mMainLock between them. `mRef` is the
Worker's count, kept by RunTask's variable, the list, the thread and StopTask's
variable. The proxy stores m_pPingTask after RunTask has returned (proxy.cpp:668),
so that StopTask never comes before.

`Killed` is the signal's handler, at any time after pthread_kill, which does not
wait for it. `StopOwnTask` is the same on the ping's own thread: a death recipient
gives the last reference of the proxy back, the destructor calls StopTask, and
the thread ends inside pthread_kill. Where a thread ends its stack may be unwound,
with the destructors of its AutoMutex and AutoPtr, or not, depending on the C
library and on the instruction that was interrupted: both are possible
("killed", "lost"). A thread that is "lost" with mMainLock keeps it for ever
(`LockLost`), by `StopOwnTask` or because a signal was handled late; RunTask then
waits for mMainLock with the new Worker's mLock, for which the new thread waits.

`RefsExact`, `ListedLives` and the assertion of ThreadEntry (`ThreadKnown`) hold
however threads end. What the code does wrong is stated by the exceptions: memory
that was freed is used only by a thread that has been signalled and has not handled
it yet (`SafeUnlessSignalled`), which is the raw pointer that pthread_create is given
when the task is stopped before it begins, and the proxy whose destructor did not
wait for its ping; and a call's task is not run only when the lock was lost or
pthread_create failed (threadpoolexecutor.cpp:37), in which case RunTask answers
E_FAIL, which no caller of it looks at, and the task is deleted with its Worker
(`EveryTaskRuns`). RpcChannel takes from here that every task gets a thread, and that
the signal may be handled at any time.

### SharedBuffer

`mString` is the buffer of a String and `old` the one it is releasing. An edit
is `IsOnlyOwner`, `Resize` (which may move the buffer, or fail and fall through
to the copy) or `CopyBuffer`, then `Write`; `Release` is `ReleaseOnlyOwner`,
`Decrement`, `Free`. An address that is freed may be allocated again at once.
One thread at a time works on one String, and nobody edits a String that is
being copied; its *buffer* is shared without such care. `ImplementsValues` is
copy on write as its users see it: no String ever sees another one's edit. The
header says that Release returns the previous count (elsharedbuf.h:97-99); it
returns the new one, or 0. Nobody reads it, and the model has no return value.

## 3. What the runs show

| Run | Instance | Shows |
|---|---|---|
| `refbase` | 5 clients, both lifetimes, weak references first only with WEAK | all of RefBase's properties and the refinement |
| `refbase_weak_first` | 3 clients, STRONG, weak references first | finding 1 |
| `proxytable` | 4 threads, 3 proxies | identity, usability and counts of proxies; the single cause of a double destruction |
| `proxytable_race` | 3 threads, 3 proxies | finding 2 |
| `callback` | one sent event that may time out or be dropped, two posted ones that coalesce with different priorities, cancels of every kind, times 0 and 1 | safety against cancels, coalescing and timeouts, also of what GetEvent does unlocked |
| `callback_live` | two sent events of different priorities, finishes of both kinds, times 0 and 1 | safety and liveness around RequestToFinish |
| `messagequeue` | 2 threads, 2 messages (an asynchronous one and a task that is waited for), 1 barrier, 1 idle handler, times 0 to 2 | no lost wake-up, the order of the list, what a barrier lets pass, and that what is due is dispatched |
| `messagequeue_barrier` | 1 thread, 1 message, 1 barrier | finding 3 |
| `rpcchannel` | 2 threads, 2 calls, 1 recipient | replies, requests, RELEASE, deletion and death notices |
| `remoteobject` | 2 threads of the object's process, 3 clients, 4 packs, 4 connections | the count of the stub against its users |
| `threadpoolexecutor` | 2 pings, 1 call | counts, locks and entries of Workers against threads that are ended by a signal |
| `sharedbuffer` | 3 Strings, 4 addresses, 2 texts | counts, memory and copy on write |

The bounds. *RefBase*: an object is created once and references come and go
without limit; the longest stories need a constructor, two threads that promote,
one that drops the last strong and one that drops the last weak reference, which
are five clients. The theorems remove the bound. *ProxyTable*: three threads
are the fewest that destroy a proxy twice and a fourth can import at the same
time; three proxies let the address be imported, dropped and imported again
twice. *CallbackContext*: every event is
posted once, so `Events` bounds the calls; three are a queue in which the order
can be wrong at either end, and two duplicates are what coalescing needs; two
instants are enough for an event to be due later (`MaxTime`: the clock stops
there). *MessageQueue*: two messages and a barrier are a list in which one can
be put at each end and between two, behind a barrier, which stalls the one kind
and lets the other pass (`MaxPosts`, `MaxBarriers`); an idle handler is a time in
which a sender wakes nobody up; instants 0 to 2 are a time
that has passed, one that is to come, and 0, which the code uses for the front.
*RpcChannel*: two calls (`MaxCalls`) are what the race of first calls needs, and
what it needs for one call to meet what another left; pings are not bounded.
While the stub's end of a socket exists, one agent gives up waiting, and none
once a race has started two ping tasks (`MayTimeOut`): the two faults are
explored one at a time, which keeps the state space at a million. `AnyTimeOut`
takes this bound away; the theorems hold with it and without it, and for any
`MaxCalls`.
*RemoteObject*: four packs (`MaxPacks`) are one that is registered, one that it is
copied to, one that is forwarded and one that comes home; four connections
(`MaxConns`) are one for each client and one for a client that comes back.
*ThreadPoolExecutor*: tasks meet only at mMainLock, so that one that loses it,
one that waits for it and a call are all there is; the theorems hold for any set.
*SharedBuffer*: four addresses are one for each String and one more, so
that every allocation has a choice; three owners are one more than the two whose
releases race. CHECK_DEADLOCK is FALSE for all modules but SharedBuffer
because they may rightly stop: RefBase when all references are dropped,
ProxyTable when no proxy is left to allocate (the bound) or a thread is at a
deleted one, CallbackContext when the events are handled, or the thread has
finished or is stopped at the list head, MessageQueue when everything is
dispatched or after Quit, RpcChannel when the proxy is gone or its process has
crashed, or when the Looper is in a blocking recv or accept, RemoteObject when the
stub is deleted or the bounds are reached, ThreadPoolExecutor when every task is over
or the lock is lost. SharedBuffer never stops, which its
runs check.

The type invariants of RefBase, ProxyTable, SharedBuffer, RemoteObject and
ThreadPoolExecutor are proved (section 5), and no run repeats them.

## 4. Fairness

`CallbackContext` has liveness properties under `FairSpec`: weak fairness
of the callback thread, of the clock, of the thread inside RequestToFinish and
of each sender once it is past the post. Each of these is a thread of the
operating system that runs when it is not blocked: weak fairness is what the
scheduler gives, for actions that stay enabled until they are taken (a
semaphore that was posted is taken by one thread only). That callbacks return is
assumed (`Complete`). Nobody is obliged to post, to time out, to cancel or to
finish. Under it `EverySendReturns` excludes contexts that finish ASAP, which
drop queued events without a signal, and is asked of contexts whose receivers
are not dying and whose events are not cancelled; the hazards name these cases.
`NoneLeftBehind` and `EverySendReturns` hold with the two stores of
RequestToFinish seen in order, which x86 guarantees and plain stores on ARM do
not; with `Reordered` TRUE they fail.

`MessageQueue` assumes (`LiveSpec`) that the Looper thread runs, that a thread
that has left the lock goes on to wake the Looper up or to wait, and that time
passes (up to `MaxTime`). Nobody is obliged to send, to remove, to release a
barrier or to quit. Messages that are removed, stalled behind a barrier or left
when the queue quits are not promised anything.

`RpcChannel` has one weak fairness condition (`FairSpec`): as long as somebody
who has sent a message can go on, or a ping task can ping, one of them does. That
is less than the scheduler gives to each of them. It is enough because after the
stub's death calls are finitely many (`MaxCalls`) and each ping task ends. Nothing
is asked of the callers, of the stub or of its Looper.

`ThreadPoolExecutor` assumes of each thread that it runs when it is not blocked
(`TPFairSpec`), which includes that a pending signal is handled. Each takes mMainLock
a bounded number of times, so that weak fairness is enough for those that wait.
That the task of a call returns is assumed; a ping need not, and nobody is obliged
to run or to stop a task.

## 5. What is proved

`RefBaseProofs` proves about `RefBase`, for every finite set of clients smaller
than INITIAL_STRONG_VALUE (the code's 2^28), with no bound on the run:

| Theorem | States | Under |
|---|---|---|
| `CountingInvariant` | `[]Counting` | |
| `TypeCorrect`, `CountsAreExact`, `FirstRefOnce` | `TypeOK`, `CountsExact`, `OneFirstRef` | |
| `MemoryInvariant` | `[]IInv` | `SafeUse` |
| `MemorySafety`, `NothingLeaks`, `AssertionsNeverFail` | `NoUseAfterFree`, `NoLeak`, `AssertionsHold` | `SafeUse` |
| `Refinement` | `Spec => ImplementsOwnership` | `SafeUse` |

The assumptions are those of the constants and `SafeUse`: no object with the
STRONG lifetime hands out weak references before its first strong one. Finding 1
is what happens without it, so it cannot be dropped. The argument has two
layers. `Counting` says that each count is the number of clients at the labels
that count, plus INITIAL_STRONG_VALUE before the first reference and until the
one client at "inc_first" has subtracted it; it is inductive by itself, by
lemmas about the cardinality of a set of clients of which one moves. It is
needed because `CountsExact` says nothing of that one client. `IInv` adds
`Memory`, in parts named for their subject: `Constructing` (before publication
nobody is inside an operation), `Lending` and `Borrowing` (a lent reference is
strong and stays), `StrongLifetime` and `WeakLifetime` (who still needs the
object, and that its death has one executioner at a time) and `Block` (the
counters outlive all that). Each action preserves each part it can disturb. For
the refinement a client that passed its atomic increment is an owner, one that
passed its decrement is not, and DeleteObject and LastWeak are the deaths.

`ProxyTableProofs` proves about `ProxyTable`, for every finite set of threads and
of proxies, and with no assumption but that:

| Theorem | States |
|---|---|
| `Invariance` | `[]IInv` |
| `TypeCorrect`, `CountsAreExact` | `TypeOK`, `CountsExact` |
| `HeldProxiesAreUsable` | `HeldProxyUsable` |
| `SafeWithoutResurrection` | `SafeUnlessResurrected` |

`HeldProxyUsable` is not inductive: it says nothing of a proxy on its way to
destruction, which a step can bring back. `IInv` adds `Shape` (the creator keeps
g_marshalLock, and the table is empty until it has inserted), `Used` (whoever has
a counted reference has it to the one live entry, and past
UnregisterImportObject the entry is gone) and `Unresurrected`: as long as nobody
took a reference on a count of 0, a proxy with that count has exactly one
destroyer and stays in the table until that thread takes it out. The last part
is where the code relies on luck. UnregisterImportObject looks at the count again
under the lock, so a proxy that came back stays; but if the new reference is
dropped before that look, two threads find a count of 0 and both destroy it. The
theorems say that this is the only way to go wrong.

`SharedBufferProofs` proves about `SharedBuffer`, for every finite set of Strings
and any addresses and texts, with the buffers' addresses used again at will:

| Theorem | States |
|---|---|
| `Invariance` | `[]IInv` |
| `TypeCorrect`, `CountsAreExact` | `TypeOK`, `CountsExact` |
| `NeverUsedAfterFree`, `NeverLeaked` | `NoUseAfterFree`, `NoLeak` |
| `StringsAreIsolated` | `Spec => ImplementsValues` |

What has to be added to the checked invariants is `Alone`: a String that found
itself the only owner still is when it resizes or writes, since only an owner can
make another one and the one thread of that String is busy. From it the write
changes the text of one String: it is an Assign of `StringValues`, as are the
constructions of a new buffer; SetTo is a Copy, and every other step, in
particular the copy before a write and the moves of a resize, is invisible.

`RemoteObjectProofs` proves about `RemoteObject`, for all finite sets of clients and
of threads and all bounds on packs and connections:

| Theorem | States |
|---|---|
| `Invariance` | `[]IInv` |
| `TypeCorrect` | `TypeOK` |
| `UsedIsNotDeleted` | `SafeUnlessUncounted` |
| `UnusedIsDeleted` | `DeletedUnlessLost` |

Neither property is inductive, as `InUse` says that somebody uses the stub and not
how many do. `Firm` counts them: threads with a reference, packs on their way,
clients with a proxy, RELEASEs on their way or in a task, and the pack that
DCARServer has not handed out. `Count` is the invariant: up to the first uncounted
pack `mRef` is at least `Firm` plus the threads that have found the entry, up to the
first lost reference at most that. Three facts make it inductive. The creator of a
stub has no reference until it makes the pack's, so while `mRef` is 0 the stub must
be known to nobody else (`Known`), and when it is not 0 any longer there is one
reference more than `Firm` needs, the one that a thread which found the entry has
left for good. A client with a connection has a proxy and has sent no RELEASE on it
(`Wires`), so that its last Release makes one RELEASE out of one proxy. And a call
that outlives its client counts as one more, `Orphan`, because its task still uses
the stub: that is safe only since the reference of a crashed client is never given
back. `FiniteAssumption` is what the proofs add to the module; `IInv` was checked
by TLC on the instance of `remoteobject` before it was proved.

`LinuxRpcProofs` proves about `RpcChannel`, for every finite set of threads, any
recipients and any number of calls, however many give up waiting:

| Theorem | States |
|---|---|
| `Invariance` | `[]IInv` |
| `TypeCorrect` | `TypeOK` |
| `RepliesAreOwn` | `Spec => OwnReply` |
| `NothingIsLost` | `NoLostRequest` |
| `ReleaseIsFirst` | `ReleaseArrives` |
| `DeletedIsUnused` | `SafeUnlessLateOrRaced` |

The assumptions are that the threads are finitely many and that `None` and `Listen`
are none of them. `IInv` says three things of every state.

*Who may have sent something.* Who waits has m_Lock (`Working`), who has dropped its
reference is in no call, and the last one to leave finds the others gone (`Left`),
so that before the RELEASE one agent at a time has a message under way. A socket that
has not become the proxy's is used by nobody (`Unused`), and while the stub lives the
other end of those in use exists (`Connections`).

*What is on a socket.* Until somebody gives up on it there is nothing, or exactly one
message, that of the agent that waits, as a request, as a task of the pool or as a reply
(`OneRequest`). The exception is a socket that another thread's has replaced and that
nobody reads any more (`Stale`): an agent that sent on it before and looked at
m_cSocketfd again after the replacement waits on the new one. `RepliesAreOwn` comes
from this part, and with `Invoked` (a call, or a ping sent in time, that is under way
has somebody who waits for it) and `NoneWaits` (after RELEASE only a late ping waits)
the first half of `DeletedIsUnused`. When somebody does give up, what
is left of `OneRequest` is `Answerable`: something is still under way on the socket of
whoever waits, because requests leave a socket only for a task, a task only for a
reply, and who takes a reply stops waiting. Before the last release there is no RELEASE anywhere (`Unreleased`), and after it
the RELEASE stands before everything else on its socket (`Released`).

*That it is noticed.* An edge is reported once, and a callback may take several
messages, so that data may be in a socket long after its edge was reported. `Noticed`
is the invariant: a watched socket with something in it has an edge that is not
reported or not yet handled, and so has the listening socket while nothing is accepted.
Accepting one of two connections breaks it for the other, which is `Overlooked`.
`Accepted` is a second invariant, which rests on `IInv`, for the connections: once
what follows the first message can be read from the proxy's last socket, the listening
socket has no event left. So none is accepted, and none remains to be stored, when
the RELEASE is a task.

`OwnReply` is an action property; it follows from `OneRequest` in the state before the
step, since only `Receive` takes an agent out of its wait with an identity to compare. The ping
task has parts of its own: `Pinging` says that the one m_pPingTask names has ended or
has its signal pending when the proxy is gone, that no other is signalled, and that only
a race of first calls starts one that is not named.
`IInv` was checked by TLC on the instance of `rpcchannel` before it was proved, and with
`AnyTimeOut` on a smaller one, of one call and no recipient.

It also proves about `ThreadPoolExecutor`, for any set of tasks:

| Theorem | States |
|---|---|
| `TPInvariance` | `[]TPIInv` |
| `TPTypeCorrect`, `CountsAreExact` | `TPTypeOK`, `RefsExact` |
| `AssertionHolds` | `ThreadKnown` |
| `OnlyTheLivingAreListed` | `ListedLives` |
| `UseIsOutlived` | `SafeUnlessSignalled` |

The two share one module of proofs as they share a process; TP sets apart the names that
both have. A step for one task leaves the others' Workers alone (`OneTaskMoves`), so that
`TPIInv` is said of one task. It adds where RunTask and the thread can be at the same
time (`Handed`): while mLock is held the thread is at most before its look at
mThread, hence it is in the list and its Worker is counted when it begins. With it,
a thread that has begun is in the list or was stopped (`Found`), and a signal is
pending only where there is a thread to handle it (`Stopped`). None of this needs
mMainLock to be held by one thread at a time: what it orders is the list itself,
whose operations are one step each.

`CallbackContextProofs` proves about `CallbackContext`, for every finite set of events
with any senders, priorities, identities and registrations, any kinds of cancels and
finishes, and both orders of the two stores of RequestToFinish:

| Theorem | States | Under |
|---|---|---|
| `Invariance`, `TypeCorrect` | `[]IInv`, `TypeOK` | |
| `WakeupNotLost` | `NoLostWakeup` | |
| `QueueStaysSorted` | `QueueSorted` | |
| `SendAnswersTrue` | `SendResultTrue` | |
| `CancelStaysQuiet` | `CancelQuiet` | |
| `RefsStayExact` | `RefsExact` | |
| `CalledOnce` | no event is called twice | |
| `OnlyCancelsDisturb` | `SleeperUndisturbed` | |
| `NoneStaysBehind` | `NoneLeftBehind` | stores in order |

The properties depend on each other in a circle, so that one invariant has to carry
them all. The queue stays in order only while no event on it changes its priority or
time, and an event changes when it is posted and when it is freed; hence `Counted`:
its count is one for its creator, one for the queue and one for the callback thread,
so that an event on the queue is not freed; and `Untouched`: what is posted was not on
the queue before. That the count is given back once on each path needs `Distinct` (no
event is on the queue twice) and `Taken` (what the callback thread has is off the
queue, at exactly the labels where it has something). What a sender is told needs
what its event's status means at each of its labels, before it has looked at it
(`Answered`), after it (`Told`), and after it has given up (`GivenUp`: the mark that
makes the callback thread pass over the event stays until that thread has passed it).
`Removed` is the same for cancels. The cases are the actions, and in each the parts
it can disturb; `IInv` was checked by TLC on the instances of `callback` and
`callback_live` before it was proved.

`OnlyCancelsDisturb` has an invariant of its own, `Unlocked`: while GetEvent is without
the lock the event it looked at is in the queue, or was dropped or replaced, and the
queue has an event unless one was dropped, which coalescing keeps because the event
that replaces others is put in. With `Counted` an event in the queue is not freed.
One theorem has a hypothesis, since what it says is false without it:
`NoneStaysBehind` needs the flag that makes posts fail to be seen before the
one that lets the thread go (`QuitFirst`).

`MessageQueueProofs` proves about `MessageQueue`, for any threads, messages, barriers
and times, and any finite set of idle handlers:

| Theorem | States |
|---|---|
| `Invariance`, `TypeCorrect` | `[]IInv`, `TypeOK` |
| `WakeupNotLost` | `NoLostWakeup` |
| `ListStaysOrdered` | `QueueOrder` |
| `BarriersHold` | `Spec => BarrierHolds` |

`QueueOrder` is not inductive: it relates messages across the barriers between them,
and EnqueueMessage compares with the time of a barrier, which is 0. `InOrder` says
what may stand before what for all pairs of entries, barriers included (`Follows`).
From it a new message that goes before the first later entry, and a barrier that goes
behind what was due, find their places (`InsertAfterIs`, `BarrierAfterIs`), and taking
any entries out keeps it (`ThinnedInOrder`). `BarriersHold` follows: a synchronous
message is taken only from the head, so that every barrier in the list stands behind
it. For `NoLostWakeup` the invariant adds that the Looper polls with a timeout it
computed from the list only with mBlocked set. A thread that changes the list under a
sleeping Looper then either wakes it or does not bring the next message forward
(`SleepsOn`): an entry that is put in behind another one is not next (the second
half of `NeedWake`), a barrier never is, and what is taken out is at most the next
message itself, unless a barrier leaves the head (`NextLater`). This is why the three
removals need no wake-up. `MessagesAssumption` is what the proofs ask of the constants:
messages have a Handler, and the clock has started. `IInv` was checked by TLC on the
instance of `messagequeue` first.

Both queues are filtered. `Without`, in `Lists`, is `SelectSeq` written with the ranks of
the places that are kept, since tlapm knows nothing of a recursive definition;
TLC checks in `MCCallbackContext` that the two agree (`WithoutSelects`). The lemmas about
it, and about the community modules' `InsertAt`, `RemoveAt` and `SelectInSeq`, are proved
in `SetsAndLists`.

## 6. Findings

1. `refbase_weak_first`: AttemptIncStrong may revive an object whose lifetime is
   STRONG after it was deleted, which the comment at elrefbase.cpp:454 excludes.
   It needs an object that publishes a weak reference to itself before it has a
   strong one.
2. `proxytable_race`: a proxy is destroyed by two threads (rot.cpp:208 has a
   BUGBUG asking for the atomicity that is missing).
3. `messagequeue_barrier`: RemoveSyncBarrier takes the wrong entry out of the
   list: its loop stops at any barrier, and at any message whose arg1 equals the
   token (CMessageQueue.cpp:704 has AND where OR is needed). Looper.car:36
   promises that the barrier stands until it is released.

## 7. Only model-checked, and not modelled

Only model-checked: all liveness (`EverySendReturns`, `FinishEnds`, `DueDelivered`,
`DeathTold`, `EveryTaskRuns`), which TLAPS does not prove. Every other property of a
passing run is stated by a theorem. That `Without` is `SelectSeq` for lists of any
length is an induction over data, also out of this prover's reach; nothing that is
proved uses it.

Left out of the modelled parts, with the reason: in RefBase the DEBUG_REFS
trackers; in CallbackContext the handling with a priority or a timeout and
WaitForCallbackEvent (only reached when TL_ORG_CALLBACK_SLOT is set, which
nothing does), several generated sinks sharing one event, and the context's own
lifetime; in ProxyTable other addresses, custom marshalling and the table's hash;
in SharedBuffer the lengths and the bytes; in MessageQueue the pool of CMessage,
sending one message twice (which the code refuses), HasMessages (it only
reads), polls that return for no reason and the set-up of a Looper; in
RemoteObject custom marshalling, the Coexisting flag (which no caller passes), the
failures of S_CreateObject, several names of services and how the server is found,
and the reference that a stub takes on its object (stub.cpp:886) and its
destructor never gives back; in
RpcChannel what is in a parcel, messages longer than one buffer, the connection
of GetRemoteClassInfo, two threads that link their
first recipients at once, recipients that call back, the pool's threads, and the
numbers of descriptors; in ThreadPoolExecutor the creation of the executor, and what
a thread does with a deleted Worker.

Not modelled, and not planned: class metadata and reflection (read only),
parameter layout in messages (sequential conversions without state), text
algorithms of String, the CAR compiler, vendored code. LibCore and the Frameworks
are ports; a few of their algorithms are candidates once the runtime is done.

## 8. Plan

In this order, the most important first; 1 to 8 are done.

1. `RefBase`, `SharedOwnership`, with proofs.
2. `ProxyTable`, with proofs.
3. `CallbackContext`, with proofs.
4. `SharedBuffer`, `StringValues`, with proofs.
5. `MessageQueue`, with proofs.
6. `RpcChannel`, with proofs.
7. `RemoteObject`, with proofs. To come: its refinement of "a stub lives while a
   proxy does", which holds up to `uncounted`.
8. `ThreadPoolExecutor`, with proofs. To come: recipients that call back, with the
   list's lock. `Looper`: descriptors that are closed and reused.
9. `LocalModules`.
10. From LibCore and Frameworks: NativeThread's monitors, FutureTask, HandlerThread,
    AsyncTask.

-------------------------- MODULE ThreadPoolExecutor --------------------------
(***************************************************************************)
(* The threads that run the tasks of linux_rpc: the pings of the proxies,  *)
(* and the calls that a stub answers.                                      *)
(*                                                                         *)
(* RunTask makes a Worker and a detached thread that gets it as a raw      *)
(* pointer; the Worker is owned by RunTask, by the list mWorkers, by       *)
(* StopTask while it looks at it, and by its thread once that has begun.   *)
(* The destructor of a proxy stops its ping task: StopTask sends SIGUSR2   *)
(* to the thread, whose handler calls pthread_exit wherever the thread is, *)
(* and waits for nothing.  A proxy may also be destroyed by its own ping   *)
(* task, when a death recipient gives the last reference back.             *)
(*                                                                         *)
(* pthread_exit is not made for signal handlers: the thread may unwind its *)
(* stack, which gives locks and references back, or end with all it has.   *)
(* The model has both outcomes, and a signal may be handled at any time    *)
(* after it was sent.  mLock is only ever held by RunTask for longer than  *)
(* the look at mThread.  What a task does is RpcChannel's, and TP sets     *)
(* apart what both modules have.                                           *)
(***************************************************************************)
EXTENDS Integers, FiniteSets

CONSTANTS
    Tasks,   \* the tasks, each handed once to RunTask
    Pings,   \* those that are ping tasks, which somebody stops
    Nobody   \* no holder of mMainLock

ASSUME PingsAssumption == Pings \subseteq Tasks

VARIABLES
    mRef,        \* the count of each task's Worker
    deleted,     \* the tasks whose Worker is deleted
    mThread,     \* the tasks whose Worker knows its thread
    mLock,       \* the tasks whose Worker's lock is held by RunTask
    mMainLock,   \* who holds the executor's lock
    mWorkers,    \* the tasks whose Worker is in the list
    signals,     \* the tasks whose thread has SIGUSR2 pending
    caller,      \* task -> where its RunTask is
    worker,      \* task -> where its thread is
    stopper      \* task -> where its StopTask is

tpVars == <<mRef, deleted, mThread, mLock, mMainLock, mWorkers, signals,
            caller, worker, stopper>>

CallerAt == {"idle", "create", "store", "add", "return", "done", "failed"}
WorkerAt == {"none", "start", "entered", "run", "finished", "removing", "leaving",
             "ended", "wild", "killed", "lost"}
StopperAt == {"idle", "erase", "done", "self", "stuck"}
Holders == Tasks \X {"worker", "stopper"}

TPInit ==
    /\ mRef = [t \in Tasks |-> 0]
    /\ deleted = {} /\ mThread = {} /\ mLock = {}
    /\ mMainLock = Nobody
    /\ mWorkers = {} /\ signals = {}
    /\ caller = [t \in Tasks |-> "idle"]
    /\ worker = [t \in Tasks |-> "none"]
    /\ stopper = [t \in Tasks |-> "idle"]

\* ElLightRefBase: the count, and the deletion that a count of 0 causes.
AddRef(t) ==
    /\ mRef' = [mRef EXCEPT ![t] = @ + 1]
    /\ UNCHANGED deleted

ReleaseRef(t, n) ==
    /\ mRef' = [mRef EXCEPT ![t] = @ - n]
    /\ deleted' = IF mRef[t] = n THEN deleted \cup {t} ELSE deleted

-----------------------------------------------------------------------------
(***************************************************************************)
(* RunTask.                                                                *)
(***************************************************************************)

\* A new Worker, and its lock.
RunTask(t) ==
    /\ caller[t] = "idle"
    /\ caller' = [caller EXCEPT ![t] = "create"]
    /\ AddRef(t)
    /\ mLock' = mLock \cup {t}
    /\ UNCHANGED <<mThread, mMainLock, mWorkers, signals, worker, stopper>>

\* pthread_create.
Create(t) ==
    /\ caller[t] = "create"
    /\ caller' = [caller EXCEPT ![t] = "store"]
    /\ worker' = [worker EXCEPT ![t] = "start"]
    /\ UNCHANGED <<mRef, deleted, mThread, mLock, mMainLock, mWorkers, signals, stopper>>

\* pthread_create fails: E_FAIL, which no caller looks at.
CreateFails(t) ==
    /\ caller[t] = "create"
    /\ caller' = [caller EXCEPT ![t] = "failed"]
    /\ ReleaseRef(t, 1)
    /\ mLock' = mLock \ {t}
    /\ UNCHANGED <<mThread, mMainLock, mWorkers, signals, worker, stopper>>

\* Mutant: mLock is given back before the Worker is in the list.
StoreThreadUnlocking(t) ==
    /\ caller[t] = "store"
    /\ caller' = [caller EXCEPT ![t] = "add"]
    /\ mThread' = mThread \cup {t}
    /\ mLock' = mLock \ {t}
    /\ UNCHANGED <<mRef, deleted, mMainLock, mWorkers, signals, worker, stopper>>

StoreThread(t) ==
    /\ caller[t] = "store"
    /\ caller' = [caller EXCEPT ![t] = "add"]
    /\ mThread' = mThread \cup {t}
    /\ UNCHANGED <<mRef, deleted, mLock, mMainLock, mWorkers, signals, worker, stopper>>

\* Under both locks; mMainLock is given back at once, and mLock after it.
AddWorker(t) ==
    /\ caller[t] = "add"
    /\ mMainLock = Nobody
    /\ caller' = [caller EXCEPT ![t] = "return"]
    /\ mWorkers' = mWorkers \cup {t}
    /\ AddRef(t)
    /\ mLock' = mLock \ {t}
    /\ UNCHANGED <<mThread, mMainLock, signals, worker, stopper>>

EndRunTask(t) ==
    /\ caller[t] = "return"
    /\ caller' = [caller EXCEPT ![t] = "done"]
    /\ ReleaseRef(t, 1)
    /\ UNCHANGED <<mThread, mLock, mMainLock, mWorkers, signals, worker, stopper>>

-----------------------------------------------------------------------------
(***************************************************************************)
(* ThreadEntry.                                                            *)
(***************************************************************************)

\* Mutant: the thread works with the raw pointer.
EnterUncounted(t) ==
    /\ worker[t] = "start"
    /\ worker' = [worker EXCEPT ![t] = IF t \in deleted THEN "wild" ELSE "entered"]
    /\ UNCHANGED <<mRef, deleted, mThread, mLock, mMainLock, mWorkers, signals,
                   caller, stopper>>

\* The thread's own reference.  One that comes too late works on freed memory:
\* "wild", and what it does is not modelled.
Enter(t) ==
    /\ worker[t] = "start"
    /\ IF t \in deleted
       THEN /\ worker' = [worker EXCEPT ![t] = "wild"]
            /\ UNCHANGED <<mRef, deleted>>
       ELSE /\ worker' = [worker EXCEPT ![t] = "entered"]
            /\ AddRef(t)
    /\ UNCHANGED <<mThread, mLock, mMainLock, mWorkers, signals, caller, stopper>>

\* The look at mThread, for which the thread waits until RunTask has unlocked.
CheckThread(t) ==
    /\ worker[t] = "entered"
    /\ t \notin mLock
    /\ worker' = [worker EXCEPT ![t] = "run"]
    /\ UNCHANGED <<mRef, deleted, mThread, mLock, mMainLock, mWorkers, signals,
                   caller, stopper>>

\* The task returns.
Finish(t) ==
    /\ worker[t] = "run"
    /\ worker' = [worker EXCEPT ![t] = "finished"]
    /\ UNCHANGED <<mRef, deleted, mThread, mLock, mMainLock, mWorkers, signals,
                   caller, stopper>>

LockMain(t) ==
    /\ worker[t] = "finished"
    /\ mMainLock = Nobody
    /\ worker' = [worker EXCEPT ![t] = "removing"]
    /\ mMainLock' = <<t, "worker">>
    /\ UNCHANGED <<mRef, deleted, mThread, mLock, mWorkers, signals, caller, stopper>>

\* Mutant: the list's reference is given back whether or not StopTask did it.
RemoveWorkerTwice(t) ==
    /\ worker[t] = "removing"
    /\ worker' = [worker EXCEPT ![t] = "leaving"]
    /\ ReleaseRef(t, 1)
    /\ mWorkers' = mWorkers \ {t}
    /\ mMainLock' = Nobody
    /\ UNCHANGED <<mThread, mLock, signals, caller, stopper>>

\* Mutant: the entry stays in the list.
RemoveWorkerForgets(t) ==
    /\ worker[t] = "removing"
    /\ worker' = [worker EXCEPT ![t] = "leaving"]
    /\ mMainLock' = Nobody
    /\ UNCHANGED <<mRef, deleted, mWorkers, mThread, mLock, signals, caller, stopper>>

RemoveWorker(t) ==
    /\ worker[t] = "removing"
    /\ worker' = [worker EXCEPT ![t] = "leaving"]
    /\ IF t \in mWorkers THEN ReleaseRef(t, 1) ELSE UNCHANGED <<mRef, deleted>>
    /\ mWorkers' = mWorkers \ {t}
    /\ mMainLock' = Nobody
    /\ UNCHANGED <<mThread, mLock, signals, caller, stopper>>

Leave(t) ==
    /\ worker[t] = "leaving"
    /\ worker' = [worker EXCEPT ![t] = "ended"]
    /\ ReleaseRef(t, 1)
    /\ signals' = signals \ {t}
    /\ UNCHANGED <<mThread, mLock, mMainLock, mWorkers, caller, stopper>>

-----------------------------------------------------------------------------
(***************************************************************************)
(* StopTask, siguserHandler.                                               *)
(***************************************************************************)

\* The destructor of a proxy, whose m_pPingTask is set after RunTask returned.
StopTask(t) ==
    /\ t \in Pings
    /\ caller[t] \in {"done", "failed"}
    /\ stopper[t] = "idle"
    /\ mMainLock = Nobody
    /\ IF t \in mWorkers
       THEN /\ stopper' = [stopper EXCEPT ![t] = "erase"]
            /\ mMainLock' = <<t, "stopper">>
            /\ signals' = signals \cup {t}
            /\ AddRef(t)
       ELSE /\ stopper' = [stopper EXCEPT ![t] = "done"]
            /\ UNCHANGED <<mMainLock, signals, mRef, deleted>>
    /\ UNCHANGED <<mThread, mLock, mWorkers, caller, worker>>

\* The reference of the list goes, and that of StopTask's variable.
EraseWorker(t) ==
    /\ stopper[t] = "erase"
    /\ stopper' = [stopper EXCEPT ![t] = "done"]
    /\ mWorkers' = mWorkers \ {t}
    /\ ReleaseRef(t, IF t \in mWorkers THEN 2 ELSE 1)
    /\ mMainLock' = Nobody
    /\ UNCHANGED <<mThread, mLock, signals, caller, worker>>

\* The destructor is run by the ping task itself, in StubDied: the signal is
\* handled before pthread_kill returns, with the lock held and before the erase.
StopOwnTask(t) ==
    /\ t \in Pings \cap mWorkers
    /\ caller[t] = "done"
    /\ worker[t] = "run"
    /\ stopper[t] = "idle"
    /\ mMainLock = Nobody
    /\ \/ /\ worker' = [worker EXCEPT ![t] = "killed"]
          /\ stopper' = [stopper EXCEPT ![t] = "self"]
          /\ ReleaseRef(t, 1)
          /\ UNCHANGED mMainLock
       \/ /\ worker' = [worker EXCEPT ![t] = "lost"]
          /\ stopper' = [stopper EXCEPT ![t] = "stuck"]
          /\ AddRef(t)
          /\ mMainLock' = <<t, "stopper">>
    /\ UNCHANGED <<mThread, mLock, mWorkers, signals, caller>>

\* Where the thread has a reference of its Worker.
Owning == {"entered", "run", "finished", "removing", "leaving"}

\* pthread_exit in the handler, with and without unwinding.
Killed(t) ==
    /\ t \in signals
    /\ signals' = signals \ {t}
    /\ \/ /\ worker' = [worker EXCEPT ![t] = "killed"]
          /\ IF worker[t] \in Owning THEN ReleaseRef(t, 1)
                                     ELSE UNCHANGED <<mRef, deleted>>
          /\ mMainLock' = IF mMainLock = <<t, "worker">> THEN Nobody ELSE mMainLock
       \/ /\ worker[t] \in Owning
          /\ worker' = [worker EXCEPT ![t] = "lost"]
          /\ UNCHANGED <<mRef, deleted, mMainLock>>
    /\ UNCHANGED <<mThread, mLock, mWorkers, caller, stopper>>

-----------------------------------------------------------------------------
RunStep(t) ==
    Create(t) \/ CreateFails(t) \/ StoreThread(t) \/ AddWorker(t) \/ EndRunTask(t)

\* How long a ping task pings is up to the other process.
ThreadStep(t) ==
    \/ Enter(t) \/ CheckThread(t) \/ LockMain(t) \/ RemoveWorker(t) \/ Leave(t)
    \/ t \notin Pings /\ Finish(t)

TPNext == \E t \in Tasks :
    \/ RunTask(t) \/ RunStep(t)
    \/ ThreadStep(t) \/ Finish(t)
    \/ StopTask(t) \/ EraseWorker(t) \/ StopOwnTask(t) \/ Killed(t)

TPSpec == TPInit /\ [][TPNext]_tpVars

\* Threads run, a mutex that is free is given to one of the few that wait, and
\* the task of a call returns.
TPFairSpec ==
    /\ TPSpec
    /\ \A t \in Tasks : /\ WF_tpVars(RunStep(t)) /\ WF_tpVars(ThreadStep(t))
                        /\ WF_tpVars(EraseWorker(t)) /\ WF_tpVars(Killed(t))

-----------------------------------------------------------------------------
(***************************************************************************)
(* Properties.                                                             *)
(***************************************************************************)

TPTypeOK ==
    /\ mRef \in [Tasks -> Nat]
    /\ deleted \subseteq Tasks /\ mThread \subseteq Tasks /\ mLock \subseteq Tasks
    /\ mMainLock \in Holders \cup {Nobody}
    /\ mWorkers \subseteq Tasks /\ signals \subseteq Pings
    /\ caller \in [Tasks -> CallerAt]
    /\ worker \in [Tasks -> WorkerAt]
    /\ stopper \in [Tasks -> StopperAt]

One(b) == IF b THEN 1 ELSE 0

(* The count of a Worker is the number of its owners, a thread that ended  *)
(* without giving its reference back among them, and it is deleted exactly *)
(* when it has lost the last one.                                          *)
RefsExact == \A t \in Tasks :
    /\ mRef[t] = One(caller[t] \in {"create", "store", "add", "return"})
                   + One(t \in mWorkers)
                   + One(worker[t] \in Owning \cup {"lost"})
                   + One(stopper[t] \in {"erase", "stuck"})
    /\ t \in deleted <=> caller[t] # "idle" /\ mRef[t] = 0

(* A Worker in the list knows its thread, and the thread has not ended, so *)
(* that StopTask signals none that is gone, whose pthread_t is no longer   *)
(* valid; but the entry of a task that stopped itself stays.  RunTask adds *)
(* the Worker before it lets the thread begin, which removes it at its end.*)
ListedLives == \A t \in mWorkers :
    /\ t \in mThread
    /\ \/ worker[t] \in {"start", "entered", "run", "finished", "removing"}
       \/ stopper[t] \in {"erase", "self", "stuck"}

(* The thread works on freed memory, or will: its Worker is deleted, or    *)
(* StopTask has returned to the destructor of the proxy that it pings.     *)
Dangling(t) ==
    \/ t \in deleted /\ worker[t] \notin {"none", "ended", "killed"}
    \/ stopper[t] = "done" /\ worker[t] \in {"start", "entered", "run"}

(* Such a thread has been signalled: StopTask missed none because it was   *)
(* not in the list yet or no longer, and the raw pointer that              *)
(* pthread_create was given is used too late only by a task that was       *)
(* stopped before it began.                                                *)
SafeUnlessSignalled == \A t \in Tasks : Dangling(t) => t \in signals

(* A task does not run before its Worker knows its thread, which           *)
(* ThreadEntry asserts (threadpoolexecutor.cpp:74) and mLock is for.       *)
ThreadKnown == \A t \in Tasks :
    worker[t] \in {"run", "finished", "removing", "leaving", "ended"} => t \in mThread

\* The executor's lock is held by a thread that has ended.
LockLost ==
    \/ \E t \in Tasks : worker[t] = "lost" /\ mMainLock = <<t, "worker">>
    \/ \E t \in Tasks : stopper[t] = "stuck"

(* Every call that RunTask is given a thread for is run to its end, and    *)
(* its Worker deleted, unless the executor's lock was lost with a thread:  *)
(* then no task of this process begins any more.  When pthread_create      *)
(* fails (threadpoolexecutor.cpp:37) the call is dropped with its Worker,  *)
(* never run and never answered.                                           *)
EveryTaskRuns == \A t \in Tasks \ Pings :
    caller[t] = "create" ~>
        \/ worker[t] = "ended" /\ t \in deleted
        \/ caller[t] = "failed" /\ t \in deleted
        \/ LockLost
=============================================================================

----------------------------- MODULE ThreadPool -----------------------------
(***************************************************************************)
(* OpenAPT::Thread::ThreadPool: worker threads, one mutex, one condition   *)
(* variable shared by the workers and by the callers of wait(), and a FIFO *)
(* of tasks.                                                               *)
(*                                                                         *)
(* No critical section of the class blocks while it holds mutex_ (a wait   *)
(* gives it up), so each is one action here.  What lies between two        *)
(* critical sections is a step of its own: notify_one() after enqueue()    *)
(* has released the mutex, notify_all() after the destructor has released  *)
(* it, the run of a task, a woken thread's wait for the mutex.             *)
(***************************************************************************)
EXTENDS Integers, Sequences, FiniteSets

CONSTANTS Workers,  \* the threads of workers_
          Clients,  \* threads outside the pool that call enqueue()
          Waiters,  \* threads outside the pool that call wait()
          Tasks,    \* every call of enqueue() that a behaviour can make
          NoTask    \* a worker's empty std::function

ASSUME WorkersAssumption == Workers # {}
ASSUME ThreadsAssumption == /\ Workers \cap Clients = {}
                            /\ Workers \cap Waiters = {}
                            /\ Clients \cap Waiters = {}
ASSUME TasksAssumption == NoTask \notin Tasks

VARIABLES tasks_,     \* the queue
          stop_,      \* the destructor has begun
          pc,         \* where each thread is
          task,       \* what each worker took from the queue last
          dtor,       \* where the owner is in ~ThreadPool()
          submitted,  \* history: the tasks passed to enqueue()
          done        \* history: the tasks that were run to their end

vars == <<tasks_, stop_, pc, task, dtor, submitted, done>>

Threads == Workers \cup Clients \cup Waiters

(***************************************************************************)
(* A thread is "sleeping" in condition_.wait(), "locking" when it is about *)
(* to take the mutex and evaluate the predicate of its wait, "notify"      *)
(* between the end of enqueue()'s critical section and its notify_one().   *)
(* A worker is "running" its task or has "exited"; a thread from outside   *)
(* is "idle" between two calls.                                            *)
(***************************************************************************)
WorkerPC == {"locking", "sleeping", "running", "notify", "exited"}
ClientPC == {"idle", "notify"}
WaiterPC == {"idle", "locking", "sleeping"}

Sleeping == {t \in Threads : pc[t] = "sleeping"}
Busy     == {w \in Workers : pc[w] \in {"running", "notify"}}
Queued   == {tasks_[i] : i \in 1..Len(tasks_)}
Running  == {task[w] : w \in Busy}

Init == /\ tasks_ = <<>>
        /\ stop_ = FALSE
        /\ pc = [t \in Threads |-> IF t \in Workers THEN "locking" ELSE "idle"]
        /\ task = [w \in Workers |-> NoTask]
        /\ dtor = "alive"
        /\ submitted = {}
        /\ done = {}

(***************************************************************************)
(* A worker's loop.                                                        *)
(***************************************************************************)
\* Mutant: the predicate forgets stop_.
WakeableIgnoresStop == tasks_ # <<>>

Wakeable == stop_ \/ tasks_ # <<>>

WorkerSleep(w) ==
    /\ pc[w] = "locking"
    /\ ~Wakeable
    /\ pc' = [pc EXCEPT ![w] = "sleeping"]
    /\ UNCHANGED <<tasks_, stop_, task, dtor, submitted, done>>

\* Mutant: the worker leaves as soon as stop_ is set.
WorkerExitUndrained(w) ==
    /\ pc[w] = "locking"
    /\ stop_
    /\ pc' = [pc EXCEPT ![w] = "exited"]
    /\ UNCHANGED <<tasks_, stop_, task, dtor, submitted, done>>

WorkerExit(w) ==
    /\ pc[w] = "locking"
    /\ stop_ /\ tasks_ = <<>>
    /\ pc' = [pc EXCEPT ![w] = "exited"]
    /\ UNCHANGED <<tasks_, stop_, task, dtor, submitted, done>>

WorkerTake(w) ==
    /\ pc[w] = "locking"
    /\ tasks_ # <<>>
    /\ task' = [task EXCEPT ![w] = Head(tasks_)]
    /\ tasks_' = Tail(tasks_)
    /\ pc' = [pc EXCEPT ![w] = "running"]
    /\ UNCHANGED <<stop_, dtor, submitted, done>>

\* Mutant: the worker leaves its loop after one task.
WorkerFinishOnce(w) ==
    /\ pc[w] = "running"
    /\ done' = done \cup {task[w]}
    /\ task' = [task EXCEPT ![w] = NoTask]
    /\ pc' = [pc EXCEPT ![w] = "exited"]
    /\ UNCHANGED <<tasks_, stop_, dtor, submitted>>

\* task() returns: packaged_task keeps what the task throws in its shared state.
WorkerFinish(w) ==
    /\ pc[w] = "running"
    /\ done' = done \cup {task[w]}
    /\ task' = [task EXCEPT ![w] = NoTask]
    /\ pc' = [pc EXCEPT ![w] = "locking"]
    /\ UNCHANGED <<tasks_, stop_, dtor, submitted>>

(***************************************************************************)
(* enqueue(): called by a client, which must not use a pool that is being  *)
(* destroyed, or by a task that is running in the pool, at any time.       *)
(***************************************************************************)
MayEnqueue(t) == \/ t \in Clients /\ pc[t] = "idle" /\ dtor = "alive"
                 \/ t \in Workers /\ pc[t] = "running"

Enqueue(t, x) ==
    /\ MayEnqueue(t)
    /\ x \notin submitted
    /\ tasks_' = Append(tasks_, x)
    /\ submitted' = submitted \cup {x}
    /\ pc' = [pc EXCEPT ![t] = "notify"]
    /\ UNCHANGED <<stop_, task, dtor, done>>

AfterEnqueue(t) == IF t \in Workers THEN "running" ELSE "idle"

\* Mutant: enqueue() notifies no one.
NotifyNobody(t) ==
    /\ pc[t] = "notify"
    /\ pc' = [pc EXCEPT ![t] = AfterEnqueue(t)]
    /\ UNCHANGED <<tasks_, stop_, task, dtor, submitted, done>>

\* notify_one() wakes some sleeper, a worker or a caller of wait(), if there is one.
NotifyOne(t) ==
    /\ pc[t] = "notify"
    /\ \/ /\ Sleeping = {}
          /\ pc' = [pc EXCEPT ![t] = AfterEnqueue(t)]
       \/ \E s \in Sleeping :
             pc' = [pc EXCEPT ![t] = AfterEnqueue(t), ![s] = "locking"]
    /\ UNCHANGED <<tasks_, stop_, task, dtor, submitted, done>>

\* Mutant: the wait has no predicate, a thread that wakes runs the task it has not taken.
SpuriousRun(t) ==
    /\ t \in Sleeping
    /\ pc' = [pc EXCEPT ![t] = "running"]
    /\ UNCHANGED <<tasks_, stop_, task, dtor, submitted, done>>

\* The standard allows condition_.wait() to wake with no notification.
SpuriousWake(t) ==
    /\ t \in Sleeping
    /\ pc' = [pc EXCEPT ![t] = "locking"]
    /\ UNCHANGED <<tasks_, stop_, task, dtor, submitted, done>>

(***************************************************************************)
(* wait().                                                                 *)
(***************************************************************************)
WaitCall(c) ==
    /\ pc[c] = "idle"
    /\ dtor = "alive"
    /\ pc' = [pc EXCEPT ![c] = "locking"]
    /\ UNCHANGED <<tasks_, stop_, task, dtor, submitted, done>>

WaitSleep(c) ==
    /\ pc[c] = "locking"
    /\ tasks_ # <<>>
    /\ pc' = [pc EXCEPT ![c] = "sleeping"]
    /\ UNCHANGED <<tasks_, stop_, task, dtor, submitted, done>>

WaitReturn(c) ==
    /\ pc[c] = "locking"
    /\ tasks_ = <<>>
    /\ pc' = [pc EXCEPT ![c] = "idle"]
    /\ UNCHANGED <<tasks_, stop_, task, dtor, submitted, done>>

(***************************************************************************)
(* ~ThreadPool().  Its caller has seen every outside call return: to       *)
(* destroy an object that another thread is using is undefined.            *)
(***************************************************************************)
DtorStop ==
    /\ dtor = "alive"
    /\ \A t \in Clients \cup Waiters : pc[t] = "idle"
    /\ stop_' = TRUE
    /\ dtor' = "stopped"
    /\ UNCHANGED <<tasks_, pc, task, submitted, done>>

\* Mutant: the destructor wakes one thread, not all.
DtorNotifyOne ==
    /\ dtor = "stopped"
    /\ dtor' = "joining"
    /\ \/ Sleeping = {} /\ UNCHANGED pc
       \/ \E s \in Sleeping : pc' = [pc EXCEPT ![s] = "locking"]
    /\ UNCHANGED <<tasks_, stop_, task, submitted, done>>

DtorNotifyAll ==
    /\ dtor = "stopped"
    /\ dtor' = "joining"
    /\ pc' = [t \in Threads |-> IF pc[t] = "sleeping" THEN "locking" ELSE pc[t]]
    /\ UNCHANGED <<tasks_, stop_, task, submitted, done>>

\* The last join() returns, the members are destroyed.
DtorReturn ==
    /\ dtor = "joining"
    /\ \A w \in Workers : pc[w] = "exited"
    /\ dtor' = "destroyed"
    /\ UNCHANGED <<tasks_, stop_, pc, task, submitted, done>>

Worker(w) == WorkerSleep(w) \/ WorkerExit(w) \/ WorkerTake(w) \/ WorkerFinish(w)
Waiter(c) == WaitSleep(c) \/ WaitReturn(c)
Dtor == DtorNotifyAll \/ DtorReturn

Next == \/ \E w \in Workers : Worker(w)
        \/ \E t \in Workers \cup Clients : NotifyOne(t) \/ \E x \in Tasks : Enqueue(t, x)
        \/ \E t \in Threads : SpuriousWake(t)
        \/ \E c \in Waiters : WaitCall(c) \/ Waiter(c)
        \/ DtorStop
        \/ Dtor

(***************************************************************************)
(* The operating system runs every thread that can run, mutex_ is handed   *)
(* to every thread that asks for it (no critical section is long), and a   *)
(* task ends.  Nobody is obliged to enqueue, to call wait() or to destroy  *)
(* the pool, and no spurious wakeup is promised.                           *)
(***************************************************************************)
Fairness == /\ \A w \in Workers : WF_vars(Worker(w))
            /\ \A t \in Workers \cup Clients : WF_vars(NotifyOne(t))
            /\ \A c \in Waiters : WF_vars(Waiter(c))
            /\ WF_vars(Dtor)

Spec == Init /\ [][Next]_vars /\ Fairness

-----------------------------------------------------------------------------
(***************************************************************************)
(* Properties.                                                             *)
(***************************************************************************)
\* The types of the members of ThreadPool and of the threads' control states.
TypeOK == /\ tasks_ \in Seq(Tasks)
          /\ stop_ \in BOOLEAN
          /\ pc \in [Threads -> WorkerPC \cup ClientPC \cup WaiterPC]
          /\ \A w \in Workers : pc[w] \in WorkerPC
          /\ \A c \in Clients : pc[c] \in ClientPC
          /\ \A c \in Waiters : pc[c] \in WaiterPC
          /\ task \in [Workers -> Tasks \cup {NoTask}]
          /\ dtor \in {"alive", "stopped", "joining", "destroyed"}
          /\ submitted \subseteq Tasks
          /\ done \subseteq Tasks

\* A task never lies in the queue with every worker asleep in condition_.wait(),
\* unless enqueue() still owes its notify_one() or a thread is inside wait():
\* only a caller of wait() can take a worker's notification.
NoStrandedTask ==
    tasks_ # <<>> /\ (\A w \in Workers : pc[w] = "sleeping")
        => \/ \E c \in Clients : pc[c] = "notify"
           \/ \E c \in Waiters : pc[c] # "idle"

\* Once the destructor has called notify_all() no worker sleeps again, whatever
\* tasks the running tasks still enqueue: join() waits for work, never for a wakeup.
StopReachesEveryWorker ==
    dtor \in {"joining", "destroyed"} => \A w \in Workers : pc[w] # "sleeping"

\* The pool is an executor: tasks start in the order of enqueue(), each starts once
\* and finishes once, and the destructor returns only when everything that was
\* enqueued, from outside or by a task, before or after stop_ was set, has run.
Exec == INSTANCE Executor WITH queue <- tasks_, running <- Running,
                               done <- done, closed <- (dtor = "destroyed")
ImplementsExecutor == Exec!Spec

\* Unless a thread goes to sleep in wait(), every task that was enqueued is run.
EnqueuedTasksRun ==
    [](\A c \in Waiters : pc[c] # "sleeping")
        => \A x \in Tasks : (x \in submitted) ~> (x \in done)

\* The destructor returns once it was called, if every task ends.
DestructorReturns == (dtor = "stopped") ~> (dtor = "destroyed")

\* What the comment on wait() promises, "wait for all tasks to complete": when it
\* returns, every task that was enqueued has been run to its end.
WaitMeansAllDone ==
    [][\A c \in Waiters : WaitReturn(c) => submitted \subseteq done]_vars
=============================================================================

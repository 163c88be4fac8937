-------------------------- MODULE ThreadPoolProofs --------------------------
(***************************************************************************)
(* Proofs about ThreadPool, for any non-empty set of workers and any sets  *)
(* of clients, callers of wait() and tasks.                                *)
(***************************************************************************)
EXTENDS ThreadPool, TLAPS

(***************************************************************************)
(* The inductive invariant.                                                *)
(***************************************************************************)
\* How far the destructor is, and what that means for the threads.
Shutdown == /\ stop_ <=> dtor # "alive"
            /\ dtor # "alive" => \A t \in Clients \cup Waiters : pc[t] = "idle"
            /\ \A w \in Workers : pc[w] = "exited" => stop_
            /\ dtor = "destroyed" => \A w \in Workers : pc[w] = "exited"

\* The last worker to leave has seen the queue empty, and nobody else can fill it.
Drained == (\A w \in Workers : pc[w] = "exited") => tasks_ = <<>>

\* A task is in one place: in one slot of the queue, with one worker, or done.
QueueOnce == \A i \in 1..Len(tasks_) :
                /\ tasks_[i] \in submitted
                /\ tasks_[i] \notin done
                /\ \A j \in 1..Len(tasks_) : tasks_[i] = tasks_[j] => i = j
                /\ \A w \in Busy : task[w] # tasks_[i]

WorkersOnce == \A w \in Busy :
                /\ task[w] \in submitted
                /\ task[w] \notin done
                /\ \A v \in Busy : task[w] = task[v] => w = v

IInv == /\ TypeOK
        /\ Shutdown
        /\ Drained
        /\ QueueOnce
        /\ WorkersOnce
        /\ done \subseteq submitted
        /\ NoStrandedTask
        /\ StopReachesEveryWorker

-----------------------------------------------------------------------------
\* It holds initially.
LEMMA InitIInv == Init => IInv
<1> SUFFICES ASSUME Init PROVE IInv
  OBVIOUS
<1> USE DEF Init
<1>1. tasks_ \in Seq(Tasks) /\ Len(tasks_) = 0
  OBVIOUS
<1>2. pc \in [Threads -> WorkerPC \cup ClientPC \cup WaiterPC]
  BY DEF WorkerPC, ClientPC
<1>3. /\ \A w \in Workers : pc[w] = "locking"
      /\ \A c \in Clients \cup Waiters : pc[c] = "idle"
  BY ThreadsAssumption DEF Threads
<1>4. TypeOK
  BY <1>1, <1>2, <1>3 DEF TypeOK, WorkerPC, ClientPC, WaiterPC
<1>5. Busy = {}
  BY <1>3 DEF Busy
<1>6. QueueOnce /\ WorkersOnce
  BY <1>1, <1>5 DEF QueueOnce, WorkersOnce
<1>7. Shutdown /\ Drained /\ NoStrandedTask /\ StopReachesEveryWorker
  BY <1>3 DEF Shutdown, Drained, NoStrandedTask, StopReachesEveryWorker
<1> QED
  BY <1>4, <1>6, <1>7 DEF IInv

\* The steps that only move threads between control states outside Busy.
LEMMA QueueUntouched ==
    ASSUME IInv, UNCHANGED <<tasks_, task, submitted, done>>, Busy' = Busy
    PROVE  QueueOnce' /\ WorkersOnce' /\ (done \subseteq submitted)'
  BY DEF IInv, QueueOnce, WorkersOnce

\* A worker goes to sleep, or leaves its loop.
LEMMA WorkerStep ==
    ASSUME IInv, NEW w \in Workers, WorkerSleep(w) \/ WorkerExit(w)
    PROVE  IInv'
<1> USE ThreadsAssumption
<1>1. TypeOK'
  BY DEF IInv, TypeOK, WorkerSleep, WorkerExit, WorkerPC, ClientPC, WaiterPC, Threads
<1>2. Busy' = Busy
  BY DEF IInv, TypeOK, Threads, WorkerSleep, WorkerExit, Busy
<1>3. QueueOnce' /\ WorkersOnce' /\ (done \subseteq submitted)'
  BY <1>2, QueueUntouched DEF WorkerSleep, WorkerExit
<1>4. Shutdown' /\ Drained'
  BY DEF IInv, TypeOK, Threads, Shutdown, Drained, WorkerSleep, WorkerExit, Wakeable
<1>5. NoStrandedTask'
  BY DEF IInv, TypeOK, Threads, NoStrandedTask, WorkerSleep, WorkerExit, Wakeable
<1>6. StopReachesEveryWorker'
  BY DEF IInv, TypeOK, Threads, Shutdown, StopReachesEveryWorker, WorkerSleep, WorkerExit, Wakeable
<1> QED
  BY <1>1, <1>3, <1>4, <1>5, <1>6 DEF IInv

\* A worker takes the front of the queue.
LEMMA TakeStep ==
    ASSUME IInv, NEW w \in Workers, WorkerTake(w)
    PROVE  IInv'
<1> USE ThreadsAssumption DEF WorkerTake
<1>1. /\ Len(tasks_) > 0
      /\ Len(tasks_') = Len(tasks_) - 1
      /\ \A i \in 1..Len(tasks_') : i + 1 \in 1..Len(tasks_) /\ tasks_'[i] = tasks_[i + 1]
      /\ tasks_' \in Seq(Tasks)
      /\ task'[w] = tasks_[1]
      /\ tasks_[1] \in Tasks
  BY DEF IInv, TypeOK
<1>2. TypeOK'
  BY <1>1 DEF IInv, TypeOK, WorkerPC, ClientPC, WaiterPC, Threads
<1>3. /\ Busy' = Busy \cup {w}
      /\ \A v \in Busy : v # w /\ task'[v] = task[v]
  BY DEF IInv, TypeOK, Threads, Busy
<1>4. QueueOnce'
  <2> SUFFICES ASSUME NEW i \in 1..Len(tasks_')
               PROVE  /\ tasks_'[i] \in submitted
                      /\ tasks_'[i] \notin done
                      /\ \A j \in 1..Len(tasks_') : tasks_'[i] = tasks_'[j] => i = j
                      /\ \A v \in Busy' : task'[v] # tasks_'[i]
    BY DEF QueueOnce
  <2>1. /\ i + 1 \in 1..Len(tasks_) /\ 1 \in 1..Len(tasks_) /\ i + 1 # 1
        /\ tasks_'[i] = tasks_[i + 1]
    BY <1>1 DEF IInv, TypeOK
  <2>2. tasks_[i + 1] # tasks_[1]
    BY <2>1 DEF IInv, QueueOnce
  <2>3. \A v \in Busy' : task'[v] # tasks_'[i]
    BY <1>1, <1>3, <2>1, <2>2 DEF IInv, QueueOnce
  <2>4. \A j \in 1..Len(tasks_') : tasks_'[i] = tasks_'[j] => i = j
    BY <1>1, <2>1 DEF IInv, QueueOnce
  <2> QED
    BY <2>1, <2>3, <2>4 DEF IInv, QueueOnce
<1>5. WorkersOnce'
  <2>1. 1 \in 1..Len(tasks_)
    BY <1>1 DEF IInv, TypeOK
  <2>2. /\ task'[w] \in submitted /\ task'[w] \notin done
        /\ \A v \in Busy : task'[v] # task'[w]
    BY <1>1, <1>3, <2>1 DEF IInv, QueueOnce
  <2> QED
    BY <1>3, <2>2 DEF IInv, WorkersOnce
<1>6. Shutdown' /\ Drained' /\ StopReachesEveryWorker' /\ NoStrandedTask'
  BY DEF IInv, TypeOK, Threads, Shutdown, Drained, StopReachesEveryWorker, NoStrandedTask
<1> QED
  BY <1>2, <1>4, <1>5, <1>6 DEF IInv

\* A task returns.
LEMMA FinishStep ==
    ASSUME IInv, NEW w \in Workers, WorkerFinish(w)
    PROVE  IInv'
<1> USE ThreadsAssumption DEF WorkerFinish
<1>1. /\ w \in Busy
      /\ Busy' = Busy \ {w}
      /\ \A v \in Busy' : task'[v] = task[v]
  BY DEF IInv, TypeOK, Threads, Busy
<1>2. TypeOK'
  BY <1>1 DEF IInv, TypeOK, WorkersOnce, WorkerPC, ClientPC, WaiterPC, Threads
<1>3. QueueOnce' /\ WorkersOnce' /\ (done \subseteq submitted)'
  BY <1>1 DEF IInv, TypeOK, QueueOnce, WorkersOnce
<1>4. Shutdown' /\ Drained' /\ StopReachesEveryWorker' /\ NoStrandedTask'
  BY DEF IInv, TypeOK, Threads, Shutdown, Drained, StopReachesEveryWorker, NoStrandedTask
<1> QED
  BY <1>2, <1>3, <1>4 DEF IInv

\* A task is put into the queue, from outside or by a running task.
LEMMA EnqueueStep ==
    ASSUME IInv, NEW t \in Workers \cup Clients, NEW x \in Tasks, Enqueue(t, x)
    PROVE  IInv'
<1> USE ThreadsAssumption DEF Enqueue, MayEnqueue
<1>1. /\ Len(tasks_') = Len(tasks_) + 1
      /\ \A i \in 1..Len(tasks_) : tasks_'[i] = tasks_[i]
      /\ tasks_'[Len(tasks_) + 1] = x
      /\ tasks_' \in Seq(Tasks)
      /\ Len(tasks_) \in Nat
  BY DEF IInv, TypeOK
<1>2. TypeOK'
  BY <1>1 DEF IInv, TypeOK, WorkerPC, ClientPC, WaiterPC, Threads
<1>3. Busy' = Busy
  BY DEF IInv, TypeOK, Threads, Busy
<1>4. QueueOnce'
  <2> SUFFICES ASSUME NEW i \in 1..Len(tasks_')
               PROVE  /\ tasks_'[i] \in submitted'
                      /\ tasks_'[i] \notin done
                      /\ \A j \in 1..Len(tasks_') : tasks_'[i] = tasks_'[j] => i = j
                      /\ \A v \in Busy : task[v] # tasks_'[i]
    BY <1>3 DEF QueueOnce
  <2>1. \A j \in 1..Len(tasks_') : j \in 1..Len(tasks_) \/ j = Len(tasks_) + 1
    BY <1>1
  <2>2. \A j \in 1..Len(tasks_) : tasks_'[j] \in submitted /\ tasks_'[j] # x
    BY <1>1 DEF IInv, QueueOnce
  <2>3. \A v \in Busy : task[v] # x
    BY DEF IInv, WorkersOnce
  <2>4. CASE i \in 1..Len(tasks_)
    BY <1>1, <2>1, <2>2, <2>4 DEF IInv, QueueOnce
  <2>5. CASE i = Len(tasks_) + 1
    BY <1>1, <2>1, <2>2, <2>3, <2>5 DEF IInv
  <2> QED
    BY <2>1, <2>4, <2>5
<1>5. WorkersOnce' /\ (done \subseteq submitted)'
  BY <1>3 DEF IInv, WorkersOnce
<1>6. Shutdown' /\ StopReachesEveryWorker' /\ NoStrandedTask'
  BY DEF IInv, TypeOK, Threads, Shutdown, StopReachesEveryWorker, NoStrandedTask
<1>7. Drained'
  BY WorkersAssumption DEF IInv, TypeOK, Threads, Shutdown, Drained
<1> QED
  BY <1>2, <1>4, <1>5, <1>6, <1>7 DEF IInv

\* The notification that follows wakes one sleeper, a worker or a caller of wait().
LEMMA NotifyStep ==
    ASSUME IInv, NEW t \in Workers \cup Clients, NotifyOne(t)
    PROVE  IInv'
<1> USE ThreadsAssumption DEF NotifyOne, AfterEnqueue, Sleeping
<1>1. /\ pc[t] = "notify"
      /\ pc'[t] = IF t \in Workers THEN "running" ELSE "idle"
      /\ \A u \in Threads : u # t => pc'[u] = pc[u] \/ (pc[u] = "sleeping" /\ pc'[u] = "locking")
      /\ pc' \in [Threads -> WorkerPC \cup ClientPC \cup WaiterPC]
  BY DEF IInv, TypeOK, Threads, WorkerPC, ClientPC, WaiterPC
<1>2. TypeOK'
  BY <1>1 DEF IInv, TypeOK, WorkerPC, ClientPC, WaiterPC, Threads
<1>3. Busy' = Busy
  BY <1>1 DEF IInv, TypeOK, Threads, Busy
<1>4. QueueOnce' /\ WorkersOnce' /\ (done \subseteq submitted)'
  BY <1>3, QueueUntouched
<1>5. Shutdown' /\ Drained' /\ StopReachesEveryWorker'
  BY <1>1 DEF IInv, TypeOK, Threads, Shutdown, Drained, StopReachesEveryWorker
<1>6. NoStrandedTask'
  \* A notification that wakes no worker while all of them sleep wakes a caller of wait().
  <2> SUFFICES ASSUME tasks_ # <<>>, \A w \in Workers : pc'[w] = "sleeping"
               PROVE  \E c \in Waiters : pc'[c] # "idle"
    BY DEF NoStrandedTask
  <2>1. \A w \in Workers : pc[w] = "sleeping"
    BY <1>1 DEF Threads
  <2>2. Sleeping # {}
    BY <2>1, WorkersAssumption DEF Threads
  <2>3. PICK s \in Sleeping : pc' = [pc EXCEPT ![t] = AfterEnqueue(t), ![s] = "locking"]
    BY <2>2
  <2>4. pc[s] = "sleeping" /\ pc'[s] = "locking" /\ s \in Threads
    BY <2>3 DEF IInv, TypeOK
  <2>5. s \in Waiters
    BY <2>4 DEF IInv, TypeOK, ClientPC, Threads
  <2> QED
    BY <2>4, <2>5
<1> QED
  BY <1>2, <1>4, <1>5, <1>6 DEF IInv

\* A spurious wakeup.
LEMMA WakeStep ==
    ASSUME IInv, NEW t \in Threads, SpuriousWake(t)
    PROVE  IInv'
<1> USE ThreadsAssumption DEF SpuriousWake, Sleeping
<1>1. TypeOK'
  BY DEF IInv, TypeOK, WorkerPC, ClientPC, WaiterPC, Threads
<1>2. Busy' = Busy
  BY DEF IInv, TypeOK, Threads, Busy
<1>3. QueueOnce' /\ WorkersOnce' /\ (done \subseteq submitted)'
  BY <1>2, QueueUntouched
<1>4. Shutdown' /\ Drained' /\ StopReachesEveryWorker'
  BY DEF IInv, TypeOK, Threads, Shutdown, Drained, StopReachesEveryWorker
<1>5. NoStrandedTask'
  BY DEF IInv, TypeOK, Threads, NoStrandedTask
<1> QED
  BY <1>1, <1>3, <1>4, <1>5 DEF IInv

\* The steps of wait().
LEMMA WaitStep ==
    ASSUME IInv, NEW c \in Waiters, WaitCall(c) \/ Waiter(c)
    PROVE  IInv'
<1> USE ThreadsAssumption DEF WaitCall, Waiter, WaitSleep, WaitReturn
<1>1. TypeOK'
  BY DEF IInv, TypeOK, WorkerPC, ClientPC, WaiterPC, Threads
<1>2. Busy' = Busy
  BY DEF IInv, TypeOK, Threads, Busy
<1>3. QueueOnce' /\ WorkersOnce' /\ (done \subseteq submitted)'
  BY <1>2, QueueUntouched
<1>4. Shutdown' /\ Drained' /\ StopReachesEveryWorker'
  BY DEF IInv, TypeOK, Threads, Shutdown, Drained, StopReachesEveryWorker
<1>5. NoStrandedTask'
  BY DEF IInv, TypeOK, Threads, NoStrandedTask
<1> QED
  BY <1>1, <1>3, <1>4, <1>5 DEF IInv

\* The steps of the destructor.
LEMMA DtorStep ==
    ASSUME IInv, DtorStop \/ Dtor
    PROVE  IInv'
<1> USE ThreadsAssumption DEF Dtor, DtorStop, DtorNotifyAll, DtorReturn
<1>1. TypeOK'
  BY DEF IInv, TypeOK, WorkerPC, ClientPC, WaiterPC, Threads
<1>2. Busy' = Busy
  BY DEF IInv, TypeOK, Threads, Busy
<1>3. QueueOnce' /\ WorkersOnce' /\ (done \subseteq submitted)'
  BY <1>2, QueueUntouched
<1>4. Shutdown' /\ Drained' /\ StopReachesEveryWorker'
  BY DEF IInv, TypeOK, Threads, Shutdown, Drained, StopReachesEveryWorker
<1>5. NoStrandedTask'
  BY WorkersAssumption DEF IInv, TypeOK, Threads, NoStrandedTask
<1> QED
  BY <1>1, <1>3, <1>4, <1>5 DEF IInv

\* Every step keeps it.
LEMMA NextIInv == IInv /\ [Next]_vars => IInv'
<1> SUFFICES ASSUME IInv, [Next]_vars PROVE IInv'
  OBVIOUS
<1>1. CASE UNCHANGED vars
  BY <1>1 DEF vars, IInv, TypeOK, Shutdown, Drained, QueueOnce, WorkersOnce, Busy,
              NoStrandedTask, StopReachesEveryWorker
<1> QED
  BY <1>1, WorkerStep, TakeStep, FinishStep, EnqueueStep, NotifyStep, WakeStep, WaitStep, DtorStep
  DEF Next, Worker

\* So it always holds.
LEMMA Inductive == Spec => []IInv
  BY InitIInv, NextIInv, PTL DEF Spec

-----------------------------------------------------------------------------
\* The members of ThreadPool and the threads' control states keep their types.
THEOREM TypeCorrect == Spec => []TypeOK
  BY Inductive, PTL DEF IInv

\* Only a caller of wait() can keep a worker's notification from the workers: with
\* nobody inside wait(), a queued task never meets a pool whose workers all sleep.
THEOREM NoTaskIsStranded == Spec => []NoStrandedTask
  BY Inductive, PTL DEF IInv

\* No worker sleeps through the destructor's notify_all(), or after it.
THEOREM EveryWorkerStops == Spec => []StopReachesEveryWorker
  BY Inductive, PTL DEF IInv

\* A step of the pool is a step of the executor it implements, or none.
LEMMA StepRefines == IInv /\ [Next]_vars => [Exec!Next]_(Exec!vars)
<1> SUFFICES ASSUME IInv, [Next]_vars PROVE [Exec!Next]_(Exec!vars)
  OBVIOUS
<1> USE ThreadsAssumption DEF Exec!Next, Exec!vars
<1>1. ASSUME NEW w \in Workers, WorkerTake(w) PROVE Exec!Start
  <2>1. Busy' = Busy \cup {w} /\ task'[w] = Head(tasks_) /\ \A v \in Busy : task'[v] = task[v]
    BY <1>1 DEF IInv, TypeOK, Threads, Busy, WorkerTake
  <2>2. Running' = Running \cup {Head(tasks_)}
    BY <2>1 DEF Running
  <2>3. Head(tasks_) = tasks_[1] /\ 1 \in 1..Len(tasks_)
    BY <1>1 DEF IInv, TypeOK, WorkerTake
  <2>4. Head(tasks_) \notin Running \cup done
    BY <2>3 DEF IInv, QueueOnce, Running
  <2> QED
    BY <1>1, <2>2, <2>4 DEF Exec!Start, WorkerTake
<1>2. ASSUME NEW w \in Workers, WorkerFinish(w) PROVE \E x \in Tasks : Exec!Finish(x)
  <2>1. w \in Busy /\ Busy' = Busy \ {w} /\ \A v \in Busy' : task'[v] = task[v]
    BY <1>2 DEF IInv, TypeOK, Threads, Busy, WorkerFinish
  <2>2. \A v \in Busy' : task[v] # task[w]
    BY <2>1 DEF IInv, WorkersOnce
  <2>3. Running' = Running \ {task[w]} /\ task[w] \in Running
    BY <2>1, <2>2 DEF Running
  <2>4. task[w] \in Tasks
    BY <2>1 DEF IInv, TypeOK, WorkersOnce
  <2>5. Exec!Finish(task[w])
    BY <1>2, <2>3 DEF Exec!Finish, WorkerFinish
  <2> QED
    BY <2>4, <2>5
<1>3. ASSUME NEW t \in Workers \cup Clients, NEW x \in Tasks, Enqueue(t, x) PROVE Exec!Submit(x)
  <2>1. Busy' = Busy /\ dtor # "destroyed"
    BY <1>3 DEF IInv, TypeOK, Threads, Busy, Shutdown, Enqueue, MayEnqueue
  <2>2. Running' = Running
    BY <1>3, <2>1 DEF Running, Enqueue
  <2>3. x \notin Exec!Queued \cup Running \cup done
    BY <1>3 DEF Exec!Queued, IInv, QueueOnce, WorkersOnce, Running, Enqueue
  <2> QED
    BY <1>3, <2>1, <2>2, <2>3 DEF Exec!Submit, Enqueue
<1>4. CASE DtorReturn
  <2>1. tasks_ = <<>> /\ Running = {}
    BY <1>4 DEF DtorReturn, IInv, Drained, Running, Busy
  <2>2. Running' = Running
    BY <1>4 DEF DtorReturn, Running, Busy
  <2> QED
    BY <1>4, <2>1, <2>2 DEF DtorReturn, Exec!Close
<1>5. ASSUME UNCHANGED <<tasks_, task, done>>, Busy' = Busy,
             (dtor = "destroyed")' = (dtor = "destroyed")
      PROVE  UNCHANGED Exec!vars
  BY <1>5 DEF Running
<1>6. ASSUME NEW w \in Workers, WorkerSleep(w) \/ WorkerExit(w) PROVE UNCHANGED Exec!vars
  BY <1>5, <1>6 DEF IInv, TypeOK, Threads, Busy, WorkerSleep, WorkerExit
<1>7. ASSUME NEW t \in Workers \cup Clients, NotifyOne(t) PROVE UNCHANGED Exec!vars
  BY <1>5, <1>7 DEF IInv, TypeOK, Threads, Busy, NotifyOne, AfterEnqueue, Sleeping
<1>8. ASSUME NEW t \in Threads, SpuriousWake(t) PROVE UNCHANGED Exec!vars
  BY <1>5, <1>8 DEF IInv, TypeOK, Threads, Busy, SpuriousWake, Sleeping
<1>9. ASSUME NEW c \in Waiters, WaitCall(c) \/ Waiter(c) PROVE UNCHANGED Exec!vars
  BY <1>5, <1>9 DEF IInv, TypeOK, Threads, Busy, WaitCall, Waiter, WaitSleep, WaitReturn
<1>10. ASSUME DtorStop \/ DtorNotifyAll PROVE UNCHANGED Exec!vars
  BY <1>5, <1>10 DEF IInv, TypeOK, Threads, Busy, DtorStop, DtorNotifyAll
<1>11. CASE UNCHANGED vars
  BY <1>5, <1>11 DEF vars, Busy
<1> QED
  BY <1>1, <1>2, <1>3, <1>4, <1>6, <1>7, <1>8, <1>9, <1>10, <1>11 DEF Next, Worker, Dtor

\* The pool implements Executor: FIFO, each task once, and a destructor that returns
\* only when every task, those enqueued by the last tasks included, has run.
THEOREM PoolIsExecutor == Spec => ImplementsExecutor
<1>1. Init => Exec!Init
  BY ThreadsAssumption DEF Init, Exec!Init, Running, Busy, Threads
<1>2. QED
  BY <1>1, StepRefines, Inductive, PTL DEF Spec, ImplementsExecutor, Exec!Spec
=============================================================================

# A TLA+ model of OpenAPT

OpenAPT is a C++ server for astrophotography: clients talk to it over a websocket, it
runs tasks (exposures, slews, focus moves, scripts) one after the other, it drives
telescopes, cameras, focusers and filter wheels through INDI, and it carries around a
number of services (threads, downloads, logging, modules, configuration). This directory
holds TLA+ modules for the parts of it that have state and control worth checking, the
TLC configurations that check them on small instances, and proofs that hold for every
instance. Paths below are relative to `src/src/components/` unless they say otherwise.

Everything is translated from the code. Where a comment or a header says something else, the
weightiest cases are runs of kind `violation`, listed in `PROJECT.json` as findings. Section 7
lists the other such claims: each is stated as a property of its module, with a configuration
that finds it violated.

## 1. Inventory

| Component | State | Operations | What is hard about it |
|---|---|---|---|
| `thread/threadpool` ThreadPool | task queue, stop flag, workers, one mutex, one condition variable | enqueue, wait, destructor, worker loop | lost and stolen wakeups, tasks that enqueue tasks, shutdown with work in the queue |
| `thread/thread` ThreadManager | vector of named threads with a pointer and a sleep flag, limit, mutex, condition variable, stop flag | addThread, joinAllThreads, joinThreadByName, sleepThreadByName, isThreadRunning, destructor | blocking with the mutex held, references kept across an unlock, notifications that come before the change they announce |
| `task/runner`, `task/task` TaskManager | task list, current task, stop flag, counter; each task's stop, done and can-execute flags | add, insert, modify, delete (by index, by name), executeAllTasks, executeTaskByName, stopTask, save | two threads share the current task and the flags without a lock; daemon tasks; tasks that throw |
| `task/runner` TaskGenerator | macros | add, delete, load macros; generate tasks from JSON | recursive macro expansion, JSON shapes |
| `server/wsserver`, `server/commander` | running flag, connection counter and limit, `clients.json`, handler table | run, stop, onOpen, onClose, onMessage, processMessage, saveClientInfo, dispatch | one thread per message, exceptions in handlers, early returns that leave a connection uncounted, a file rewritten in place |
| `driver/indi/*`, `api/indiclient` INDI drivers | connected and ready flags, property pointers | connect, disconnect, reconnect, callbacks of the INDI listener thread, focuser moves | callbacks in another thread, stale connection status, pointers nulled between check and use |
| `device/device_manager`, `device/device` | one list of devices per type; messages and observers of a device | add, remove (by type, by name), find, getSimpleTask | names unique across types, removal without disconnect |
| `network/downloader` DownloadManager | task table and its text file, priority queue, running flag, mutex | add, remove, start, pause, resume, worker loop, save | a file appended to and rewritten, kills in between, words read back in pairs, nested locking of one mutex |
| `launcher/launcher` ServerLauncher, its own ThreadPool | running and stopped flags, server thread, reader thread, a pipe, resource files | run, start_server, stop_server, read output, stop | waiting for the exit of a thread that waits for a flag, a flag set after its reader was started, a pipe closed under its reader |
| `logger/*` Logger, LoggerManager | levels, output, queue, error list, background thread, flags | log, setLogToFile, enable and disable asynchronous logging, scan and upload | messages queued at shutdown, a wakeup lost between check and wait, a lock taken twice |
| `module/modloader`, `module/compiler` | table of loaded libraries | load, unload, lookup, run a function in a thread | handles overwritten, symbols used after unload |
| `config/configor`, `config/achievement*` | JSON document, achievement list, their files | load, set, get, delete, save | keys that pass through a value that is no object; a crash between truncate and write |
| `api/phd2client`, `network/socketclient`, `network/httpclient` | a socket and its buffers | connect, send, receive | asynchronous sends, partial reads |
| `api/astap`, `api/astrometry`, `network/time`, `network/utils`, `system/system`, `io/*`, `image/*`, `property/*`, `database/*`, `debug/terminal`, `launcher/crash` | little or none | wrappers of external programs and libraries, conversions | nothing that interleaves |
| `src/src/openapt.cpp` | command line, lists of Lua scripts | start-up of the old server | sequential |

The parts meet in few places. The websocket server hands a message to a detached thread,
which asks the dispatcher for a handler; a handler may get a SimpleTask from the device
manager and give it to the task manager; a device task calls a driver; a driver's state is
changed by the INDI listener thread. ThreadManager is used by the module loader, ThreadPool
by whoever wants one. `TODO.md` says of `runner.cpp` and `device_manager.cpp` that they are
to be rewritten: `runner.cpp` calls the tasks by their older method names (`execute`, `stop`)
and `task.hpp` has the newer ones (`Execute`, `Stop`); the model takes them as the same.

What makes each part correct: an executor loses, repeats and reorders nothing and can be
shut down; a manager never forgets a thread and never sleeps without a cause; a stop reaches
what it should stop; a counter counts what it says; an answer reaches the one who asked; a
status tells the truth; a file survives its rewriting. The hazards, each with its line, are
in `PROJECT.json`.

## 2. Modules

| Module | Models | Runs |
|---|---|---|
| `Executor` | what a FIFO executor promises (no code) | through `ThreadPool` |
| `ThreadPool` | `thread/threadpool.cpp`, `.hpp` | `thread_pool`, `thread_pool_wait` |
| `ThreadPoolProofs` | theorems about `ThreadPool` | proofs |
| `ThreadManager` | `thread/thread.cpp`, `.hpp` | `thread_manager`, `thread_manager_join` |
| `ThreadManagerProofs` | theorems about `ThreadManager` | proofs |
| `TaskManager`, `MCTaskManager` | `task/runner.cpp` from line 226, `task/task.hpp` | `task_manager`, `task_manager_stop` |
| `TaskManagerProofs` | theorems about `TaskManager` | proofs |
| `WebSocketServer`, `MCWebSocketServer` | `server/wsserver.cpp`, `server/commander.cpp` | `websocket_server`, `websocket_server_limit` |
| `WebSocketServerProofs` | theorems about `WebSocketServer` | proofs |
| `IndiDriver`, `MCIndiDriver` | `driver/indi/*.cpp`, `api/indiclient.cpp` | `indi_driver` |
| `IndiDriverProofs` | theorems about `IndiDriver` | proofs |
| `Logger` | `logger/aptlogger.hpp`, `.cpp` | `logger` |
| `LoggerProofs` | theorems about `Logger` | proofs |
| `Launcher` | `launcher/launcher.cpp`, `.hpp` | `launcher` |
| `LauncherProofs` | theorems about `Launcher` | proofs |
| `DownloadManager`, `AchievementList`, `MCStores` | `network/downloader.cpp`, `config/achievement_list.cpp`, `config/achievement.cpp` | `stores` |
| `StoresProofs` | theorems about `MCStores`, that is both stores | proofs |

Variables have the names of the members they stand for (`tasks_`, `m_threads`,
`active_connections_`); actions have the names of the functions, with a suffix for the step
of it (`JoinBegin`, `JoinWait`, `JoinReset`, `JoinErase`). A definition that begins with a
comment `Mutant:` is not part of the model: it is a plausible bug in the definition after
it, used to see that a property would notice.

### ThreadPool

The grain is the critical section: none of the class's critical sections blocks with the
mutex held, so each is one action, and what lies between two of them is a step of its own.
That is where the wakeups can go wrong: `enqueue()` notifies after it has released the
mutex, the destructor too, a woken thread has to get the mutex again, `wait()` sleeps on
the workers' condition variable, and the standard allows spurious wakeups. Clients and
callers of `wait()` are threads outside the pool, which respect its lifetime; a running
task may enqueue at any time, during the destructor too.

`Executor` says what this is for: a queue, a set of running tasks, a set of finished ones,
and the moment at which it is closed. `ThreadPool` implements it with the queue mapped to
`tasks_`, the running tasks to those the workers hold, and "closed" to the return of the
destructor.

`thread_pool` (2 workers, 1 client, 1 caller of `wait()`, 3 tasks) checks: no task lies in
the queue with all workers asleep unless a notification is pending or somebody is in
`wait()`; no worker sleeps after the destructor's `notify_all()`; the refinement; every
enqueued task is run unless somebody sleeps in `wait()`; the destructor returns. Two
workers are enough for a stolen wakeup and for two tasks in flight, three tasks for a queue
that is not empty while both run. The exception for `wait()` in two of these is real: its
caller can swallow the only `notify_one()`, and then no worker takes the task until the next
`enqueue()` or the destructor. `thread_pool_wait` shows that `wait()` returns while a task
is running, which its comment denies.

### ThreadManager

The mutex is a variable only for the two callers that block while they own it: one in
`std::thread::join()`, one in the destructor, which locks the mutex a second time. The
vector is modelled with its capacity, because `joinThread()` and `sleepThreadByName()` keep
a reference to an element over an unlock: an erase moves another element into the slot,
a reallocation frees the buffer, and the code then resets a pointer or writes a flag there.
To delete a thread that nobody joined is `std::terminate()`; to touch a freed buffer is
anything from nothing to a crash, and the model chooses. The creation of a thread may fail
in `addThread()`, which then changes nothing. The second lock in the destructor blocks for
ever or throws; if it throws, the vector is destroyed with the threads that are still in it,
which ends the process unless all were joined. Spurious wakeups are left out
here: a woken thread looks at its predicate again and sleeps, which `SleepersHaveCause`
would not notice. `m_threads.empty()` read without the lock only decides whether to warn.

`thread_manager` (2 callers, 3 threads, 2 names, a limit of 2, so that there are duplicates,
reallocations and waits for room) checks the limit, that no running thread is ever forgotten,
that nobody sleeps on the condition variable without a cause (the erase after a join comes
after the last notification, but before the mutex is released, which saves it), and that calls
that do not overlap can neither terminate the process, but for the destructor, nor leave a
sleep flag behind. `LateJoinReturns` says when a join by name returns: when no join ever
begins before its thread has ended. `thread_manager_join` drops that condition and finds the
deadlock: the joiner holds the mutex that the joined thread wants.

### TaskManager

One thread executes, one calls `stopTask()`; every access to the members they share is a
step. The list is edited between executions only: to change a vector another thread
iterates over is undefined, and the callers' business. `skipList` is not modelled since
nothing is ever put into it. A task's function, its condition and its stop function may
return or throw, so may the lookup of a loop's items and the creation of a daemon's thread; a
daemon's function that throws ends the process. A loop may have no items.

`task_manager` (five tasks, one of each class and a loop without items, two of them with one
name; a list of at most 2, 2 edits, 2 executions, any number of stops) checks that the current
task is always null or the task being executed, whichever thread writes it last, and that
`stopTask()` reads a null pointer after its check only if the task has ended meanwhile; that
at most one more task begins once the stop flag is set; that a task is marked done without
having run only if it was stopped, its condition was false, or it is a loop without items; and
that executions return. Two executions are needed because flags survive an execution, two
edits to have two tasks or a modified one. `task_manager_stop` shows the gap between the check
of the flag and the assignment of the current task, through which a stop misses the task.

### WebSocketServer

websocketpp is external and modelled from its use: handlers are called by the one thread in
`run()`, a handle opens once and closes once, `send()` to a closed one throws,
`remote_endpoint()` of a vanished socket throws, after `stop()` no handler runs. Messages
differ in kind: not JSON, empty, without a name, without a handler, with a handler that
returns or throws. The client file is unreadable or maps names to addresses: the places of a
JSON list, or the names `client<k>` of an object and whatever others it has. The code counts
the entries to name the next one, so in an object with a gap in its names the new entry can
replace an old one. A rewrite may fail before or after the file was truncated.

`websocket_server` (2 connections, 2 messages, a limit of 1; the file empty, with one of the
clients, or an object with the entry `client2` alone) checks that the counter is the number of
open connections as long as no handler has left early; that a recorded address stays recorded
while the file can be read and its names have no gap; that a client gets at most one answer to
a message and only to its own; that `run()` returns after `stop()`; and that an accepted
message is answered unless it is empty, the client leaves or the server stops.
`websocket_server_limit` shows more open connections than the limit: the early return of
`onOpen()` does not close the connection, and `onMessage()` serves it.

### IndiDriver

One module for the four drivers, which differ in few places: `kind` chooses one at the start.
The camera never looks at `is_connected` before it connects and never resets it; only the
telescope's `disconnect()` does something; only the focuser has operations that use a pointer.
`ptr` is the pointer to each property: null, valid, dangling after libindi freed the property,
or wild, as no constructor initialises a member (`is_connected` and `is_ready` start with any
value too, and nothing ever assigns `is_ready`). One property stands for each way the code
treats them: CONNECTION, the ones just stored (CCD_INFO, INFO), the camera's video properties
that `ClearStatus()` forgets (STREAM_DELAY), the focuser's position and temperature,
FOCUS_MOTION for the two whose pointers are read and never assigned, and DEVICE_BAUD_RATE for
what is used as soon as it comes. An element that a message lacks is looked up all the same:
libindi returns null, and the code dereferences it unless it tests. The listener thread takes
messages in order; `connect()` is cut wherever the listener can write between two of its
writes, and `newProperty()` for CONNECTION between its write of `is_connected` and the test by
which it decides to ask the device to connect. libindi is external: the comment at the head of
the module lists what is assumed of it. The methods of the telescope that only test
`is_connected`, and those that log and return a constant, change nothing and are left out.

`indi_driver` (2 calls and 3 events; for the camera 1 call and 4 events) checks that after a
session no pointer of `ClearStatus()` is left and that no late message undoes `disconnect()`;
that `is_connected` is true whenever the device is connected and all messages are handled,
unless a `connect()` was refused on an open link; that the process dies in the caller of a
null pointer only when `ClearStatus()` came between check and use, and in the listener,
messages that lack an element aside, only of the pointers behind FOCUS_MOTION or of a CCD_INFO
cleared on a ready camera; and that every call returns. Two calls are needed for a second
connection or a disconnection, four events to define CCD_INFO and CONNECTION, switch it off
and send CCD_INFO again. After a loss of the server `is_connected` stays as it
is (section 7). That the flag can also be true of a device that is off, when `connect()` writes
it last, is in the model and contradicts no comment.

### Logger

Any thread calls `log()`, whose whole effect happens under `queueMutex` and is one action;
one owner starts and stops the background thread and changes the levels and the output. The
background thread is cut at every point where it gives the mutex up, and once more between
the test of its wait and its sleep, because `disableAsyncLogging()` changes the flag and
notifies without the mutex. Its `push_back()` on `errorMessages`, also without the mutex,
takes two steps: one of `log()` in between may lose an element. The outcomes of the
undefined second lock in `setLogToFile()` are a hang with the mutex and an exception. The
text of a message is left out; a message is a number and a level.

`logger` (levels Info and Error, 3 messages, 4 calls of the owner) checks that accepted
messages are written once and in order through any number of stops and starts; that the list
of errors is exact as long as the logger's level has not been Error (then the background
thread adds every message to it, too); that `disableAsyncLogging()` returns unless its
notification fell into the gap before the sleep; and that a queued message is written while
logging stays on. Four calls give enable, disable, enable and one more, or a change of level
or output between two of them; three messages give one in the thread's hands, one in the
queue and one that comes late. Two things the model has and no property asserts: a second
`setLogToFile()` silences the logger, since `open()` on an open stream sets its failbit and
`is_open()` stays true; a second `enableAsyncLogging()` ends the process.

### Launcher

The main thread in `run()`, the thread of `start_server()`, the detached reader and another
thread that calls `stop()` at most once while `run()` is in progress. The pipe is opened for
reading, so the two stop commands reach nobody and the server exits when it likes. popen, a
download, the creation of a thread and the warning mail may fail; a mail that fails ends the
process, since nothing catches the exception in the detached thread. That thread searches the
lines with a local of `read_server_output()`, which has returned by then: the search finds an
error in any line, or none, or ends the process. The resource files
survive a launch: `files` says whether the first of them can be read, on which
`check_resources()` depends.

`launcher` (3 launches on one disk) checks that `is_running()` is false after `run()`, so that
`main()` never gets to call `stop()`, and outlives the server's output only when the reader was
faster than the assignment of the flag; who can use the pipe after it was closed, and when; and
that a `stop()` from another thread ends the wait of `run()` unless its notification is lost.
The reader is obliged to go on only when the server has exited.

What the header says of `check_resources()`, `is_running()` and `wait_for_server_to_exit()` is
not what the code does: section 7.

### DownloadManager and AchievementList

Two lists that are kept in a file, checked by one run that takes one or the other. A kill may
come between any two steps; the lists in memory are kept as a history to compare the file
with. What is buffered and flushed together is one step: a line of the task file, the JSON
document. A full disk may cut a line anywhere, behind a word or in it; power failures, which
can tear a write that succeeded, are not modelled.

The task file is the sequence of its words, because words are what `operator>>` reads: a
path with a blank is two, an empty one none. What a cut line leaves without an end becomes one
word with the next one written. `start()` is modelled up to the second lock of
`mutex_`, where its threads hang or end the process, so that `download_task()` is dead code.
The JSON file is an array, `null` for an empty list, or torn, which means empty or cut off.

`stores` (3 tasks, 3 changes, 3 processes; 3 achievements with 2 names, 4 changes, 2
processes) checks that the next process gets every task that was accepted and not removed, in
order, with the exceptions that its comment names; that none comes twice or from nowhere by the
two ways of writing the file; and that the achievement file mirrors the list. Three processes
are needed for an odd word that one leaves, the next puts its own words behind, and the third
reads; three changes for three tasks, or two and a removal. A removed task is back after a
restart (section 7), and a paused download without its pause, which no comment denies.

## 3. Fairness

Liveness is checked under the fairness that a scheduler gives: a thread that can go on goes
on (weak fairness of its own next step), a mutex is handed in turn to those that ask for it
(strong fairness of a caller's step in `ThreadManager`, whose lock can be taken away again
and again), and functions supplied by users return. Nobody is obliged to call anything, no
spurious wakeup is promised, no client has to send or leave. Deadlock is not checked, as all
systems may come to rest: destroyed, out of threads, runs or calls, stopped. In
`TaskManager` the thread that executes and the one in `stopTask()` are scheduled, and the
daemons' threads may stand still. In
`IndiDriver` the listener and the caller are scheduled; the server owes nothing. In `Logger`
both threads are scheduled; in `Launcher` all but the server, the mail server and the reader
that waits for a line. The stores are checked for safety only.

## 4. Proofs

Every safety property that a passing run checks is also a theorem, for every value of the constants
that the assumptions of its module allow. No such property is inductive by itself, with one
exception (`FileMirrorsList`); each proof module defines an inductive invariant `IInv`, the
conjunction of the properties and of what holds them up, and proves that it holds initially
and that every action keeps it.

| Module | Theorems | Assumed of the constants |
|---|---|---|
| `ThreadPoolProofs` | `TypeCorrect`, `NoTaskIsStranded`, `EveryWorkerStops`, `PoolIsExecutor` | there is a worker, the sets of threads are disjoint, the empty task is no task |
| `ThreadManagerProofs` | `TypeCorrect`, `ThreadsAreBounded`, `ThreadsAreNotOrphaned`, `SleepHasCause`, `SerialCallsSafe` | the limit is a natural number other than 0, the value for "nobody" is neither caller nor thread |
| `TaskManagerProofs` | `TypeCorrect`, `CurrentTaskIsExecuting`, `StopLetsOneTaskBegin`, `DoneTasksHaveRun` | every task has a class, null is no task, the number of items and the bounds are natural numbers |
| `WebSocketServerProofs` | `TypeCorrect`, `ActiveConnectionsAreCounted`, `RecordsAreKept`, `AnswersReachTheirSender` | finitely many connections, each with an address, a client file with finitely many entries, the value for "none" is not one of them, the limit is a natural number |
| `IndiDriverProofs` | `TypeCorrect`, `SessionsEndClean`, `DeviceIsSeen`, `CrashesHaveCauses` | the drivers are some of the four, the bounds are natural numbers |
| `LoggerProofs` | `TypeCorrect`, `WrittenInOrder`, `ErrorsStay` | the levels are some of `LogLevel`, the bounds are natural numbers |
| `LauncherProofs` | `RunningIsTold`, `PipeIsUsedOpen` | none used |
| `StoresProofs` | `TasksSurvive`, `NoTaskTwice`, `AchievementsSurvive` | the texts are sequences of words, the bounds are natural numbers |

**ThreadPool.** `IInv` adds: the destructor's phase determines `stop_` and the outside threads
are idle once it is set (`Shutdown`); a worker exits only with `stop_` set and an empty queue,
and an empty queue stays empty when all workers have exited, since only a running worker can
still enqueue (`Drained`); a task is in one place only, once in the queue or in the hands of
one worker or finished (`QueueOnce`, `WorkersOnce`). `PoolIsExecutor` is the safety of the
refinement, `Spec => Exec!Spec`: each action is Submit, Start, Finish, Close or a stutter.

**ThreadManager.** Who blocks in `std::thread::join()` owns the mutex, and so its reference is
good until it has joined (`JoinerLocks`): that is what makes it impossible that another joiner
erases the entry of a thread that still runs. References are held only inside the calls that
took them (`RefsInCalls`). For calls that do not overlap, there is one at a time, nothing is
freed under it, and the entry it has joined stays null until it is erased (`OneCall`,
`GoodRefs`); without these `SerialCallsAreSafe` says nothing of the step in which the joiner
comes back. What `remove_if()` and `erase()` leave (`Live`) is the result of a loop over the
vector; that it has exactly the entries with a pointer is an induction over that loop.

**TaskManager.** `Control` and `TaskAtHand` say where in `Execute()` the executing thread can
be with which task: a loop task has run or has all its items before it, a task reaches its end
because it ran, was stopped, asked its condition or is a loop without items. `LateIsLast`
carries `AtMostOneMoreTask`: the flag, once seen too late, stays set until the execution ends
and no second task gets past the check.

**WebSocketServer.** A received message has a sender (`SenderKnown`) and an answered one is out
of its thread's hands (`AnsweredOnce`), so that no thread can answer it again. The counter is
compared with the cardinality of the set of open connections, by two lemmas on what opening and
closing do to it. For `RecordsAreKept` a lemma on the new entry (`EntryAdded`): without a gap no
name reaches the next number, so that it is free; and a file that has a gap keeps it, so that
one that may have lost a client is never taken for one without gaps again.

**IndiDriver.** The state that matters is in flight. `OnComes`: as long as the driver has not
seen that a device is connected, the message that says so is in the channel. `InfoAnnounced`:
every update of CCD_INFO in the channel has a definition before it, or the listener knows the
property already, and no deletion comes between; `KnownInfo`: a camera that knows the property
has a valid pointer, unless it was ready and cleared. `MotionUnassigned`: the focuser's two
pointers of FOCUS_MOTION are what the constructor left or what `ClearStatus()` made of them.
`CheckedPointers`: a pointer that the
focuser's methods have checked becomes null through `ClearStatus()` only. `LinkAndCaller`: a
link is closed by `disconnect()` alone, which waits for the listener.

**Logger.** The delicate step of `WrittenInOrder` is the one that takes a message: the predicate
of the wait was true under the mutex, but because the queue was not empty or because the flag
was false, and the flag is read again without the mutex. `Head` of an empty queue is avoided
only because the flag cannot become true between the two: `ThreadAndFlag` says that while a
thread runs with the flag false the owner waits for it in `disableAsyncLogging()`. For
`ErrorsStay`, `NoErrorLevel` says that before the level has been Error the background thread
never is in its own `push_back()`, so that the one of `log()` loses nothing; that the errors of
a longer sequence are those of the shorter and perhaps one more is an induction.

**Launcher.** `BeforeStart`, `ReaderStarted`, `RunningInRun`, `ClosedLate` and `WaiterStopped` tie
the places of the three threads together: which of them exist, who can have set the flag, and
that `run()` closes the pipe only after the waiting thread has left its loop for a stop request.

**The stores.** For `TasksSurvive` the invariant follows the file word by word: the tasks kept
are at their places (`KeptIsThere`), with nothing behind them whenever something may be
written behind them (`NothingBehind`), but the line of the task that `add_task()` has written
and not yet put into its list (`LineBehind`), and it ends with a line unless the disk was full
(`SaveOK`). A task that is at its own place is its own witness for the order that the property
asks for. The texts are arbitrary, so that the argument covers paths with blanks and empty
ones. `AchievementsSurvive` needs nothing more.

Inductions over a sequence are done by the least counterexample: the set of lengths for which
the claim fails is a set of natural numbers, has a least element if it is not empty
(`HasMinimum`, from the well-foundedness of `<`), and the loop's last step contradicts it.
That is why `Live` and `Errors` are recursive functions.

Only model-checked, because TLAPS does not do liveness under fairness: `EnqueuedTasksRun`,
`DestructorReturns`, `LateJoinReturns`, `ExecutionReturns`, `StopEndsRun`,
`AcceptedMessagesAnswered`, `CallsReturn`, `DisableReturns`, `QueuedIsWritten`, `StopEndsWait`.

## 5. Plan

The safety properties are all proved. What is left is to read the proofs again for leaves that
can be shorter, and to state, as lemmas of `ThreadPoolProofs` and `ThreadManagerProofs`, the
steps on which the liveness properties rest (which step makes progress in which state), as far
as they can be said without `ENABLED`.

## 6. Not modelled

- `device/device_manager`: `addDevice()` creates objects of `Camera`, `Telescope`, `Focuser`
  and `Filterwheel`, which inherit `getSimpleTask()` as a pure virtual function, so that the
  code cannot be built as it is. What it would have to watch: a list read without a lock, a
  cast to the wrong class used without a test, devices removed while connected.
- TaskGenerator and the saved task list: sequential conversions between JSON shapes. What
  `saveTasksToJson()` writes has no member `tasks` and no types; nothing can load it.
- `module/*`, `config/configor`, `logger/log_manager`, `launcher/crash`: sequential code
  around a library, without state that two actors share or that a failure can tear.
- What only wraps a library, a socket, the operating system or an external program, or
  converts data: see the inventory and the components of `PROJECT.json`, with reasons.

## 7. Claims that the code does not keep

Four runs of kind `violation`, each described with its module, show the weightiest:
`thread_pool_wait`, `thread_manager_join`, `task_manager_stop` and `websocket_server_limit`.
The others are these. The property states the claim; TLC, started by hand on the module with the configuration, shows a
behaviour that breaks it (`tlc -config LauncherWait.cfg Launcher`).

| Property and configuration | Module | The claim | What the code does |
|---|---|---|---|
| `ClientsAreAdded`, `WebSocketServerClients.cfg` | `MCWebSocketServer` | `wsserver.cpp:266`: the new client is added to the list | in a JSON object the new entry is stored under "client" and the number of entries plus one (`wsserver.cpp:275`), in the place of an entry that has this name |
| `StatusIsReset`, `IndiDriverStatus.cfg` | `MCIndiDriver` | `indifocuser.cpp:352`: after a disconnection the connection status is reset | `ClearStatus()` sets the pointers to null and leaves `is_connected`; a later `connect()` returns true without connecting |
| `ResourcesAreAccepted`, `LauncherResources.cfg` | `Launcher` | `launcher.hpp:120`: `check_resources()` returns true when the resources are there | it reads an entry as a string and then as an object (`launcher.cpp:159`), which throws once the first file is there: the launch after the one that downloads cannot start the server |
| `RunningMeansUp`, `LauncherRunning.cfg` | `Launcher` | `launcher.hpp:85`: `is_running()` is true when the server is running and false otherwise | the flag is set after the reader was started (`launcher.cpp:432`): of a server that fails at once it is cleared first, set last, and stays true |
| `WaitEndsWithServer`, `LauncherWait.cfg` | `Launcher` | `launcher.hpp:199`: waiting with a condition variable and a mutex avoids deadlock and busy waiting | `run()` joins a thread that leaves its loop for a stop request only (`launcher.cpp:346`), and the end of the server requests none; while `_server_running` is true that thread goes round without sleeping |
| `RemovedIsGone`, `StoresRemove.cfg` | `MCStores` | `downloader.hpp:85`: `remove_task()` deletes the task | it sets `completed`, which is not in the file, and the destructor writes all tasks (`downloader.cpp:101`, `293`): the task is back after a restart |

---------------------------- MODULE TaskManager ----------------------------
(***************************************************************************)
(* OpenAPT::TaskManager and the BasicTask classes it runs.  One thread     *)
(* executes the list (executeAllTasks, executeTaskByName), another calls   *)
(* stopTask().  They share m_StopFlag and m_CurrentTask with no lock, so   *)
(* every access to those is a step.  The list is edited between            *)
(* executions: to change a vector that another thread iterates over is     *)
(* undefined and is left to the callers.                                   *)
(*                                                                         *)
(* skipList is not modelled: nothing ever puts an index into it, so the    *)
(* two deletions never find one there.                                     *)
(***************************************************************************)
EXTENDS Integers, Sequences, SequencesExt

CONSTANTS Tasks,      \* the task objects
          Kind,       \* the class of each
          Name,       \* the name of each, not necessarily unique
          Items,      \* the number of items of each LoopTask, 0 also if "items" is missing
          MaxList,    \* bound on the length of m_taskList
          MaxRuns,    \* bound on the number of executions
          MaxEdits,   \* bound on the number of edits of the list
          Null

Kinds == {"simple", "conditional", "loop", "daemon"}

ASSUME TasksAssumption == /\ Kind \in [Tasks -> Kinds]
                          /\ Null \notin Tasks
ASSUME ItemsAssumption == Items \in [Tasks -> Nat]
ASSUME BoundsAssumption == MaxList \in Nat /\ MaxRuns \in Nat /\ MaxEdits \in Nat

VARIABLES m_taskList, m_StopFlag, m_CurrentTask, m_completedTaskCount,
          stop_flag_, can_execute_, done_,  \* the tasks' own members
          daemons,    \* the tasks with a detached thread in RunTask()
          mode,       \* what the executing thread is in: "idle", "all" or "one"
          xpc,        \* where it is
          cursor,     \* the rest of the list, its head is the task at hand
          left,       \* the items a LoopTask has still to visit
          runs,       \* the number of executions begun
          edits,      \* the number of edits made
          spc,        \* where stopTask() is
          target,     \* the task on which it calls stop()
          ran,        \* history: the tasks whose function has returned
          late,       \* history: tasks begun in this execution with m_StopFlag set
          crashed     \* a null m_CurrentTask was dereferenced, or a daemon's function threw

list  == <<m_taskList, can_execute_, edits>>
exec  == <<mode, xpc, cursor, left, runs>>
stop  == <<spc, target, m_StopFlag, stop_flag_, crashed>>
marks == <<m_completedTaskCount, done_, daemons, ran, late>>
vars  == <<list, exec, stop, marks, m_CurrentTask>>

Init == /\ m_taskList = <<>>
        /\ m_StopFlag = FALSE
        /\ m_CurrentTask = Null
        /\ m_completedTaskCount = 0
        /\ stop_flag_ = [t \in Tasks |-> FALSE]
        /\ can_execute_ = [t \in Tasks |-> TRUE]
        /\ done_ = [t \in Tasks |-> FALSE]
        /\ daemons = {}
        /\ mode = "idle" /\ xpc = "idle" /\ cursor = <<>> /\ left = 0 /\ runs = 0 /\ edits = 0
        /\ spc = "idle" /\ target = Null
        /\ ran = {} /\ late = 0
        /\ crashed = FALSE

(***************************************************************************)
(* Edits of the list.  addTask, insertTask and modifyTask set canExecute   *)
(* before they look at the index.                                          *)
(***************************************************************************)
Editing == /\ ~crashed /\ mode = "idle"
           /\ edits < MaxEdits
           /\ edits' = edits + 1

\* The place of the first task called n; 0 if there is none.
PlaceOf(n) == SelectInSeq(m_taskList, LAMBDA t : Name[t] = n)

AddTask(t, can) ==
    /\ Editing
    /\ Len(m_taskList) < MaxList
    /\ can_execute_' = [can_execute_ EXCEPT ![t] = can]
    /\ m_taskList' = Append(m_taskList, t)
    /\ UNCHANGED <<exec, stop, marks, m_CurrentTask>>

\* i is the code's taskIndex.
InsertTask(i, t, can) ==
    /\ Editing
    /\ Len(m_taskList) < MaxList
    /\ can_execute_' = [can_execute_ EXCEPT ![t] = can]
    /\ m_taskList' = IF i < 0 \/ i > Len(m_taskList) THEN m_taskList
                     ELSE InsertAt(m_taskList, i + 1, t)
    /\ UNCHANGED <<exec, stop, marks, m_CurrentTask>>

ModifyTask(i, t, can) ==
    /\ Editing
    /\ can_execute_' = [can_execute_ EXCEPT ![t] = can]
    /\ m_taskList' = IF i < 0 \/ i >= Len(m_taskList) THEN m_taskList
                     ELSE ReplaceAt(m_taskList, i + 1, t)
    /\ UNCHANGED <<exec, stop, marks, m_CurrentTask>>

ModifyTaskByName(n, t, can) ==
    /\ Editing
    /\ PlaceOf(n) # 0
    /\ can_execute_' = [can_execute_ EXCEPT ![t] = can]
    /\ m_taskList' = ReplaceAt(m_taskList, PlaceOf(n), t)
    /\ UNCHANGED <<exec, stop, marks, m_CurrentTask>>

DeleteTask(i) ==
    /\ Editing
    /\ 0 <= i /\ i < Len(m_taskList)
    /\ m_taskList' = RemoveAt(m_taskList, i + 1)
    /\ UNCHANGED <<can_execute_, exec, stop, marks, m_CurrentTask>>

DeleteTaskByName(n) ==
    /\ Editing
    /\ PlaceOf(n) # 0
    /\ m_taskList' = RemoveAt(m_taskList, PlaceOf(n))
    /\ UNCHANGED <<can_execute_, exec, stop, marks, m_CurrentTask>>

(***************************************************************************)
(* Execution.                                                              *)
(***************************************************************************)
ExecuteAllTasks ==
    /\ ~crashed /\ mode = "idle" /\ runs < MaxRuns
    /\ m_CurrentTask' = Null
    /\ m_StopFlag' = FALSE
    /\ mode' = "all" /\ xpc' = "next" /\ cursor' = m_taskList
    /\ runs' = runs + 1
    /\ late' = 0
    /\ UNCHANGED <<list, left, spc, target, stop_flag_, crashed,
                   m_completedTaskCount, done_, daemons, ran>>

\* executeTaskByName() looks at no stop flag and sets no current task.
ExecuteTaskByName(n) ==
    /\ ~crashed /\ mode = "idle" /\ runs < MaxRuns
    /\ PlaceOf(n) # 0
    /\ can_execute_[m_taskList[PlaceOf(n)]]
    /\ mode' = "one" /\ xpc' = "begin" /\ cursor' = <<m_taskList[PlaceOf(n)]>>
    /\ runs' = runs + 1
    /\ UNCHANGED <<list, left, stop, marks, m_CurrentTask>>

\* Mutant: the stop flag is looked at once, before the loop.
SkippedNever == ~can_execute_[Head(cursor)]

\* The loop passes over a task.
Skipped == m_StopFlag \/ ~can_execute_[Head(cursor)]

ExecSkip ==
    /\ ~crashed /\ xpc = "next" /\ cursor # <<>>
    /\ Skipped
    /\ cursor' = Tail(cursor)
    /\ UNCHANGED <<list, mode, xpc, left, runs, stop, marks, m_CurrentTask>>

ExecSelect ==
    /\ ~crashed /\ xpc = "next" /\ cursor # <<>>
    /\ ~Skipped
    /\ xpc' = "set"
    /\ UNCHANGED <<list, mode, cursor, left, runs, stop, marks, m_CurrentTask>>

ExecReturn ==
    /\ ~crashed /\ xpc = "next" /\ cursor = <<>>
    /\ mode' = "idle" /\ xpc' = "idle"
    /\ UNCHANGED <<list, cursor, left, runs, stop, marks, m_CurrentTask>>

SetCurrent ==
    /\ ~crashed /\ xpc = "set"
    /\ m_CurrentTask' = Head(cursor)
    /\ xpc' = "begin"
    /\ late' = IF m_StopFlag THEN late + 1 ELSE late
    /\ UNCHANGED <<list, mode, cursor, left, runs, stop,
                   m_completedTaskCount, done_, daemons, ran>>

\* Execute() up to the first call of the task's function, or to its end without one: a
\* SimpleTask that was stopped runs nothing, a ConditionalTask asks its condition, which
\* may throw, and a LoopTask looks up its items, which throws if its parameters are no object.
Begin(t) ==
    /\ ~crashed /\ xpc = "begin" /\ Head(cursor) = t
    /\ left' = IF Kind[t] = "loop" THEN Items[t] ELSE 0
    /\ \/ /\ Kind[t] = "simple"
          /\ xpc' = IF stop_flag_[t] THEN "end" ELSE "function"
       \/ /\ Kind[t] = "conditional"
          /\ xpc' \in {"function", "end", "caught"}
       \/ /\ Kind[t] = "loop"
          /\ xpc' \in {"item", "caught"}
       \/ /\ Kind[t] = "daemon"
          /\ xpc' = "detach"
    /\ UNCHANGED <<list, mode, cursor, runs, stop, marks, m_CurrentTask>>

\* Mutant: the loop does not end with the items.
ItemNoEnd(t) ==
    /\ ~crashed /\ xpc = "item" /\ Head(cursor) = t
    /\ xpc' = IF stop_flag_[t] THEN "end" ELSE "function"
    /\ UNCHANGED <<list, mode, cursor, left, runs, stop, marks, m_CurrentTask>>

\* LoopTask's loop head.
Item(t) ==
    /\ ~crashed /\ xpc = "item" /\ Head(cursor) = t
    /\ xpc' = IF left = 0 \/ stop_flag_[t] THEN "end" ELSE "function"
    /\ UNCHANGED <<list, mode, cursor, left, runs, stop, marks, m_CurrentTask>>

\* The task's function returns: on to the next item, or to the end of Execute().
Returns(t) ==
    /\ ran' = ran \cup {t}
    /\ IF Kind[t] = "loop" THEN xpc' = "item" /\ left' = left - 1
                           ELSE xpc' = "end" /\ UNCHANGED left

\* Mutant: a task whose function throws is marked as done.
FunctionThrowIsDone(t) ==
    /\ ~crashed /\ xpc = "function" /\ Head(cursor) = t
    /\ \/ Returns(t) /\ UNCHANGED done_
       \/ /\ xpc' = "caught"
          /\ done_' = [done_ EXCEPT ![t] = TRUE]
          /\ UNCHANGED <<ran, left>>
    /\ UNCHANGED <<list, mode, cursor, runs, stop,
                   m_completedTaskCount, daemons, late, m_CurrentTask>>

\* The task's function is called and returns, or throws.
Function(t) ==
    /\ ~crashed /\ xpc = "function" /\ Head(cursor) = t
    /\ \/ Returns(t)
       \/ xpc' = "caught" /\ UNCHANGED <<ran, left>>
    /\ UNCHANGED <<list, mode, cursor, runs, stop,
                   m_completedTaskCount, done_, daemons, late, m_CurrentTask>>

\* Mutant: a DaemonTask is joined where it should be detached.
DetachJoins(t) ==
    /\ ~crashed /\ xpc = "detach" /\ Head(cursor) = t
    /\ daemons' = daemons \cup {t}
    /\ stop_flag_[t]
    /\ xpc' = "return"
    /\ UNCHANGED <<list, mode, cursor, left, runs, stop,
                   m_completedTaskCount, done_, ran, late, m_CurrentTask>>

\* The thread of a DaemonTask is started and detached; if none can be started this throws.
Detach(t) ==
    /\ ~crashed /\ xpc = "detach" /\ Head(cursor) = t
    /\ \/ daemons' = daemons \cup {t} /\ xpc' = "return"
       \/ xpc' = "caught" /\ UNCHANGED daemons
    /\ UNCHANGED <<list, mode, cursor, left, runs, stop,
                   m_completedTaskCount, done_, ran, late, m_CurrentTask>>

EndTask(t) ==
    /\ ~crashed /\ xpc = "end" /\ Head(cursor) = t
    /\ done_' = [done_ EXCEPT ![t] = TRUE]
    /\ xpc' = "return"
    /\ UNCHANGED <<list, mode, cursor, left, runs, stop,
                   m_completedTaskCount, daemons, ran, late, m_CurrentTask>>

\* Mutant: executeAllTasks() leaves m_CurrentTask as it is.
FinishedKeepsCurrent ==
    /\ ~crashed /\ xpc \in {"return", "caught"}
    /\ IF mode = "all" THEN xpc' = "next" /\ UNCHANGED mode
                       ELSE xpc' = "idle" /\ mode' = "idle"
    /\ cursor' = Tail(cursor)
    /\ m_completedTaskCount' = IF mode = "all" /\ xpc = "return" THEN m_completedTaskCount + 1
                               ELSE m_completedTaskCount
    /\ UNCHANGED <<list, left, runs, stop, done_, daemons, ran, late, m_CurrentTask>>

\* Execute() is over, by return or by exception; back to the loop of executeAllTasks()
\* or out of executeTaskByName().
Finished ==
    /\ ~crashed /\ xpc \in {"return", "caught"}
    /\ \/ /\ mode = "all"
          /\ m_CurrentTask' = Null
          /\ xpc' = "next"
          /\ UNCHANGED mode
       \/ /\ mode = "one"
          /\ xpc' = "idle" /\ mode' = "idle"
          /\ UNCHANGED m_CurrentTask
    /\ cursor' = Tail(cursor)
    /\ m_completedTaskCount' = IF mode = "all" /\ xpc = "return" THEN m_completedTaskCount + 1
                               ELSE m_completedTaskCount
    /\ UNCHANGED <<list, left, runs, stop, done_, daemons, ran, late>>

\* The detached thread of a DaemonTask calls its function until the stop flag is set.
\* Nothing catches what the function throws.
DaemonLoop(t) ==
    /\ ~crashed /\ t \in daemons
    /\ \/ /\ stop_flag_[t]
          /\ daemons' = daemons \ {t}
          /\ done_' = [done_ EXCEPT ![t] = TRUE]
          /\ UNCHANGED <<ran, crashed>>
       \/ /\ ~stop_flag_[t]
          /\ ran' = ran \cup {t}
          /\ UNCHANGED <<daemons, done_, crashed>>
       \/ /\ ~stop_flag_[t]
          /\ crashed' = TRUE
          /\ UNCHANGED <<daemons, done_, ran>>
    /\ UNCHANGED <<list, exec, spc, target, m_StopFlag, stop_flag_,
                   m_completedTaskCount, late, m_CurrentTask>>

(***************************************************************************)
(* stopTask().                                                             *)
(***************************************************************************)
StopFlag ==
    /\ ~crashed /\ spc = "idle"
    /\ m_StopFlag' = TRUE
    /\ spc' = "flagged"
    /\ UNCHANGED <<list, exec, marks, m_CurrentTask, target, stop_flag_, crashed>>

StopCheck ==
    /\ ~crashed /\ spc = "flagged"
    /\ spc' = IF m_CurrentTask = Null THEN "idle" ELSE "checked"
    /\ UNCHANGED <<list, exec, marks, m_CurrentTask, target, m_StopFlag, stop_flag_, crashed>>

\* m_CurrentTask is read again to call getName() and stop() on it.
StopLoad ==
    /\ ~crashed /\ spc = "checked"
    /\ IF m_CurrentTask = Null
       THEN crashed' = TRUE /\ UNCHANGED <<spc, target>>
       ELSE spc' = "loaded" /\ target' = m_CurrentTask /\ UNCHANGED crashed
    /\ UNCHANGED <<list, exec, marks, m_CurrentTask, m_StopFlag, stop_flag_>>

\* If the task's stop function throws, stopTask() ends here.
StopCall ==
    /\ ~crashed /\ spc = "loaded"
    /\ stop_flag_' = [stop_flag_ EXCEPT ![target] = TRUE]
    /\ target' = Null
    /\ spc' \in {"clear", "idle"}
    /\ UNCHANGED <<list, exec, marks, m_CurrentTask, m_StopFlag, crashed>>

StopClear ==
    /\ ~crashed /\ spc = "clear"
    /\ m_CurrentTask' = Null
    /\ spc' = "idle"
    /\ UNCHANGED <<list, exec, marks, target, m_StopFlag, stop_flag_, crashed>>

Edit == \/ \E t \in Tasks, can \in BOOLEAN :
             \/ AddTask(t, can)
             \/ \E i \in -1..MaxList : InsertTask(i, t, can) \/ ModifyTask(i, t, can)
             \/ \E u \in Tasks : ModifyTaskByName(Name[u], t, can)
        \/ \E i \in 0..MaxList : DeleteTask(i)
        \/ \E t \in Tasks : DeleteTaskByName(Name[t])

Execute == \/ ExecSkip \/ ExecSelect \/ ExecReturn \/ SetCurrent \/ Finished
           \/ \E t \in Tasks : Begin(t) \/ Item(t) \/ Function(t) \/ Detach(t) \/ EndTask(t)

Stop == StopCheck \/ StopLoad \/ StopCall \/ StopClear

Next == \/ Edit
        \/ ExecuteAllTasks \/ \E t \in Tasks : ExecuteTaskByName(Name[t])
        \/ Execute
        \/ \E t \in Tasks : DaemonLoop(t)
        \/ StopFlag
        \/ Stop

\* The thread that executes and the one in stopTask() are scheduled, and the functions of tasks
\* return.  The detached threads of daemon tasks may stand still.
Fairness == WF_vars(Execute) /\ WF_vars(Stop)

Spec == Init /\ [][Next]_vars /\ Fairness

-----------------------------------------------------------------------------
(***************************************************************************)
(* Properties.                                                             *)
(***************************************************************************)
\* The types of the members of TaskManager and of its tasks.
TypeOK == /\ m_taskList \in Seq(Tasks) /\ Len(m_taskList) <= MaxList
          /\ m_StopFlag \in BOOLEAN
          /\ m_CurrentTask \in Tasks \cup {Null}
          /\ m_completedTaskCount \in Nat
          /\ stop_flag_ \in [Tasks -> BOOLEAN]
          /\ can_execute_ \in [Tasks -> BOOLEAN]
          /\ done_ \in [Tasks -> BOOLEAN]
          /\ daemons \subseteq Tasks /\ ran \subseteq Tasks
          /\ mode \in {"idle", "all", "one"}
          /\ xpc \in {"idle", "next", "set", "begin", "item", "function", "detach", "end",
                      "return", "caught"}
          /\ cursor \in Seq(Tasks)
          /\ left \in Nat
          /\ spc \in {"idle", "flagged", "checked", "loaded", "clear"}
          /\ target \in Tasks \cup {Null}
          /\ crashed \in BOOLEAN

\* The states of the executing thread in which it is inside, or just out of, Execute().
InTask == {"begin", "item", "function", "detach", "end", "return", "caught"}

\* m_CurrentTask is null or the task that executeAllTasks() is executing, however
\* stopTask() and the executing thread interleave their writes to it; and a stopTask() that
\* has found a task finds null when it reads again only if that task has ended meanwhile.
CurrentIsExecuting ==
    /\ m_CurrentTask # Null => mode = "all" /\ xpc \in InTask /\ m_CurrentTask = Head(cursor)
    /\ spc = "checked" /\ m_CurrentTask = Null => mode # "all" \/ xpc \notin InTask

\* After stopTask() has set the flag at most one more task begins: the one that
\* executeAllTasks() had already let past its check.
AtMostOneMoreTask == late <= 1

\* The classes of tasks that may find nothing to do: a condition that is false, no items.
NothingToDo(t) == Kind[t] = "conditional" \/ (Kind[t] = "loop" /\ Items[t] = 0)

\* A task that is marked done although its function never returned is one that was
\* stopped before it ran, one whose condition was false, or a loop over no items.
DoneHasCause ==
    \A t \in Tasks : done_[t] /\ t \notin ran => stop_flag_[t] \/ NothingToDo(t)

\* executeAllTasks() and executeTaskByName() return, daemon tasks in the list or not.
ExecutionReturns == (mode # "idle") ~> (mode = "idle" \/ crashed)

\* What the comment on stopTask() says, that it "stops the current task if there is any
\* running": while stopTask() is not in progress, and m_StopFlag says that it was called
\* in this execution, no task runs its function without having been told to stop.
StopStopsTheRunningTask ==
    mode = "all" /\ xpc = "function" /\ m_StopFlag /\ spc = "idle" => stop_flag_[Head(cursor)]
=============================================================================

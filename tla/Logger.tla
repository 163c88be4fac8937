------------------------------- MODULE Logger -------------------------------
(***************************************************************************)
(* The logger of logger/aptlogger.hpp: threads that call log() put their   *)
(* messages into a queue under queueMutex, and one background thread,      *)
(* started by enableAsyncLogging() and ended by disableAsyncLogging() or   *)
(* the destructor, takes them out and writes them.  The owner of the       *)
(* logger is the one thread that starts and stops the background thread    *)
(* and changes the levels and the output; any thread may call log().  The  *)
(* flag asyncLoggingEnabled is not guarded by the mutex, and neither are   *)
(* what the background thread does between two messages and its use of     *)
(* errorMessages.                                                          *)
(***************************************************************************)
EXTENDS Naturals, Sequences

CONSTANTS Levels,    \* the levels in use, a subset of the enumeration LogLevel
          MaxLogs,   \* bound: calls of log()
          MaxCalls   \* bound: calls of the owner

\* enum class LogLevel { None, Trace, Debug, Info, Warning, Error, Critical }
LogLevel == 0..6
LNone == 0
Info == 3
Error == 5

ASSUME LevelsAssumption == Levels \subseteq LogLevel /\ Levels # {}
ASSUME BoundsAssumption == MaxLogs \in Nat /\ MaxCalls \in Nat

VARIABLES currentLogLevel, filterLevel,
          asyncLoggingEnabled,
          queueMutex,     \* "free", or who holds it: "background" or "owner"
          logQueue,       \* the messages, [id, level]
          errorMessages,  \* the identifiers of the messages kept as errors
          outputStream,   \* "cout", "file", or "failed": a file whose failbit is set
          background,     \* where the background thread is
          message,        \* <<>>, or the one message it has taken and not written
          owner,          \* where the owner is
          closing,        \* whether the owner is in the destructor
          logs, calls,
          accepted,       \* history: the messages put into the queue, [id, level]
          written,        \* history: the messages taken out and written, [id, to]
          missed,         \* history: the last notify_one() for the end came before the thread slept
          errorLevel      \* history: currentLogLevel has been Error

config  == <<currentLogLevel, filterLevel, errorLevel>>
queue   == <<logQueue, accepted, logs>>
control == <<owner, closing, calls>>
vars    == <<config, asyncLoggingEnabled, queueMutex, queue, errorMessages, outputStream,
             background, message, control, written, missed>>

Init == /\ currentLogLevel = Info /\ filterLevel = LNone
        /\ asyncLoggingEnabled = FALSE
        /\ queueMutex = "free"
        /\ logQueue = <<>> /\ errorMessages = <<>>
        /\ outputStream = "cout"
        /\ background = "none" /\ message = <<>>
        /\ owner = "idle" /\ closing = FALSE
        /\ logs = 0 /\ calls = 0
        /\ accepted = <<>> /\ written = <<>>
        /\ missed = FALSE /\ errorLevel = FALSE

Alive == owner # "terminated"

\* notify_one(): wakes the background thread if it sleeps, and is lost otherwise.
Notified == IF background = "asleep" THEN "lock" ELSE background
-----------------------------------------------------------------------------
(* Any thread. *)

shouldLog(level) == level >= currentLogLevel /\ level >= filterLevel

\* push_back() on errorMessages: while the background thread is in the middle of its own,
\* without the mutex, one of the two elements may be lost.
PushError(id) ==
    \/ errorMessages' = Append(errorMessages, id)
    \/ background = "push" /\ UNCHANGED errorMessages

\* Mutant: the background thread is not notified.
LogQuietly(level) ==
    /\ Alive /\ ~closing
    /\ queueMutex = "free"
    /\ logs < MaxLogs
    /\ logs' = logs + 1
    /\ IF shouldLog(level)
         THEN /\ logQueue' = Append(logQueue, [id |-> logs', level |-> level])
              /\ accepted' = Append(accepted, [id |-> logs', level |-> level])
              /\ IF level = Error THEN PushError(logs') ELSE UNCHANGED errorMessages
         ELSE UNCHANGED <<logQueue, accepted, errorMessages>>
    /\ UNCHANGED <<config, asyncLoggingEnabled, queueMutex, outputStream, background, message,
                   control, written, missed>>

\* log(): everything happens under queueMutex.  No thread is in log() once the destructor runs.
Log(level) ==
    /\ Alive /\ ~closing
    /\ queueMutex = "free"
    /\ logs < MaxLogs
    /\ logs' = logs + 1
    /\ IF shouldLog(level)
         THEN /\ logQueue' = Append(logQueue, [id |-> logs', level |-> level])
              /\ accepted' = Append(accepted, [id |-> logs', level |-> level])
              /\ background' = Notified
              /\ IF level = Error THEN PushError(logs') ELSE UNCHANGED errorMessages
         ELSE UNCHANGED <<logQueue, accepted, background, errorMessages>>
    /\ UNCHANGED <<config, asyncLoggingEnabled, queueMutex, outputStream, message,
                   control, written, missed>>
-----------------------------------------------------------------------------
(* The background thread: loggingFunction(). *)

At(from, to) == Alive /\ background = from /\ background' = to

\* The mutex is taken and the predicate of the wait evaluated.
TestPredicate ==
    /\ At("lock", IF logQueue # <<>> \/ ~asyncLoggingEnabled THEN "check" ELSE "sleeping")
    /\ queueMutex = "free"
    /\ queueMutex' = "background"
    /\ UNCHANGED <<config, asyncLoggingEnabled, queue, errorMessages, outputStream, message,
                   control, written, missed>>

\* The predicate was false: the mutex is given up and the thread sleeps.
Sleep ==
    /\ At("sleeping", "asleep")
    /\ queueMutex' = "free"
    /\ UNCHANGED <<config, asyncLoggingEnabled, queue, errorMessages, outputStream, message,
                   control, written, missed>>

\* A condition variable may wake its waiter for no reason.
SpuriousWakeup ==
    /\ At("asleep", "lock")
    /\ UNCHANGED <<config, asyncLoggingEnabled, queueMutex, queue, errorMessages, outputStream,
                   message, control, written, missed>>

\* Mutant: the message is taken before the flag is tested.
TakeOrReturnLate ==
    /\ At("check", IF asyncLoggingEnabled THEN "level" ELSE "done")
    /\ queueMutex' = "free"
    /\ IF logQueue # <<>>
         THEN logQueue' = Tail(logQueue)
         ELSE UNCHANGED logQueue
    /\ message' = IF asyncLoggingEnabled THEN <<Head(logQueue)>> ELSE <<>>
    /\ UNCHANGED <<config, asyncLoggingEnabled, accepted, logs, errorMessages, outputStream,
                   control, written, missed>>

\* The flag is read again: the thread returns, leaving the queue, or takes the next message.
TakeOrReturn ==
    /\ background = "check" /\ Alive
    /\ queueMutex' = "free"
    /\ \/ /\ ~asyncLoggingEnabled
          /\ background' = "done"
          /\ UNCHANGED <<logQueue, message>>
       \/ /\ asyncLoggingEnabled
          /\ background' = "level"
          /\ message' = <<Head(logQueue)>>
          /\ logQueue' = Tail(logQueue)
    /\ UNCHANGED <<config, asyncLoggingEnabled, accepted, logs, errorMessages, outputStream,
                   control, written, missed>>

\* Mutant: the level of the message decides.
ReadMessageLevel ==
    /\ At("level", IF message[1].level = Error THEN "push" ELSE "write")
    /\ UNCHANGED <<config, asyncLoggingEnabled, queueMutex, queue, errorMessages, outputStream,
                   message, control, written, missed>>

\* Not the level of the message but the logger's decides whether it is kept as an error.
ReadLevel ==
    /\ At("level", IF currentLogLevel = Error THEN "push" ELSE "write")
    /\ UNCHANGED <<config, asyncLoggingEnabled, queueMutex, queue, errorMessages, outputStream,
                   message, control, written, missed>>

\* Mutant: the message is moved into errorMessages and not copied.
KeepErrorMoves ==
    /\ At("push", "write")
    /\ errorMessages' = Append(errorMessages, message[1].id)
    /\ message' = <<>>
    /\ UNCHANGED <<config, asyncLoggingEnabled, queueMutex, queue, outputStream,
                   control, written, missed>>

\* The end of errorMessages.push_back(), without the mutex.
KeepError ==
    /\ At("push", "write")
    /\ errorMessages' = Append(errorMessages, message[1].id)
    /\ UNCHANGED <<config, asyncLoggingEnabled, queueMutex, queue, outputStream, message,
                   control, written, missed>>

\* The message goes to whatever outputStream points to now.
Write ==
    /\ At("write", "lock")
    /\ written' = Append(written, [id |-> message[1].id, to |-> outputStream])
    /\ message' = <<>>
    /\ UNCHANGED <<config, asyncLoggingEnabled, queueMutex, queue, errorMessages, outputStream,
                   control, missed>>
-----------------------------------------------------------------------------
(* The owner. *)

Call == /\ owner = "idle"
        /\ calls < MaxCalls
        /\ calls' = calls + 1

setLogLevel(level) ==
    /\ Call /\ queueMutex = "free"
    /\ currentLogLevel' = level
    /\ errorLevel' = (errorLevel \/ level = Error)
    /\ UNCHANGED <<filterLevel, asyncLoggingEnabled, queueMutex, queue, errorMessages, outputStream,
                   background, message, owner, closing, written, missed>>

setFilterLevel(level) ==
    /\ Call /\ queueMutex = "free"
    /\ filterLevel' = level
    /\ UNCHANGED <<currentLogLevel, errorLevel, asyncLoggingEnabled, queueMutex, queue, errorMessages,
                   outputStream, background, message, owner, closing, written, missed>>

\* setLogToFile(): the file is opened.  The second open() of an ofstream that is open sets its
\* failbit and leaves is_open() true: nothing is written any more.
setLogToFile ==
    /\ Call /\ queueMutex = "free"
    /\ outputStream' = IF outputStream = "cout" THEN "file" ELSE "failed"
    /\ UNCHANGED <<config, asyncLoggingEnabled, queueMutex, queue, errorMessages, background, message,
                   owner, closing, written, missed>>

\* setLogToFile(): the file cannot be opened, and logError() locks the mutex that setLogToFile()
\* holds.  The thread hangs with the mutex, or the lock throws and the guard unlocks.
setLogToFileFails ==
    /\ Call /\ queueMutex = "free"
    /\ outputStream = "cout"
    /\ \/ owner' = "hung" /\ queueMutex' = "owner"
       \/ UNCHANGED <<owner, queueMutex>>
    /\ UNCHANGED <<config, asyncLoggingEnabled, queue, errorMessages, outputStream, background,
                   message, closing, written, missed>>

\* enableAsyncLogging(): the thread is started, or std::thread throws with the flag already set;
\* to assign to a thread that is joinable ends the process.
enableAsyncLogging ==
    /\ Call
    /\ asyncLoggingEnabled' = TRUE
    /\ \/ background = "none" /\ background' \in {"lock", "none"} /\ UNCHANGED owner
       \/ background # "none" /\ owner' = "terminated" /\ UNCHANGED background
    /\ UNCHANGED <<config, queueMutex, queue, errorMessages, outputStream, message, closing,
                   written, missed>>

\* disableAsyncLogging(), alone or in the destructor: the flag, without the mutex.  (There is a
\* thread to end only if the flag was set.)
disableAsyncLogging(inDestructor) ==
    /\ Call
    /\ closing' = inDestructor
    /\ asyncLoggingEnabled' = FALSE
    /\ missed' = FALSE
    /\ \/ background # "none" /\ owner' = "notify"
       \/ background = "none" /\ owner' = IF inDestructor THEN "gone" ELSE "idle"
    /\ UNCHANGED <<config, queueMutex, queue, errorMessages, outputStream, background, message,
                   written>>

\* Mutant: the thread is joined without being notified.
NotifyEndSkipped ==
    /\ owner = "notify"
    /\ owner' = "join"
    /\ missed' = (background = "sleeping")
    /\ UNCHANGED <<config, asyncLoggingEnabled, queueMutex, queue, errorMessages, outputStream,
                   background, message, closing, calls, written>>

\* Then notify_one(), which does nothing for a thread that has decided to sleep and does not yet.
NotifyEnd ==
    /\ owner = "notify"
    /\ owner' = "join"
    /\ background' = Notified
    /\ missed' = (background = "sleeping")
    /\ UNCHANGED <<config, asyncLoggingEnabled, queueMutex, queue, errorMessages, outputStream,
                   message, closing, calls, written>>

\* Then join().
Join ==
    /\ owner = "join"
    /\ background = "done"
    /\ background' = "none"
    /\ owner' = IF closing THEN "gone" ELSE "idle"
    /\ UNCHANGED <<config, asyncLoggingEnabled, queueMutex, queue, errorMessages, outputStream,
                   message, closing, calls, written, missed>>
-----------------------------------------------------------------------------
Background == TestPredicate \/ Sleep \/ TakeOrReturn \/ ReadLevel \/ KeepError \/ Write
OwnerStep == NotifyEnd \/ Join
Next == \/ Background \/ SpuriousWakeup \/ OwnerStep
        \/ \E level \in Levels : Log(level) \/ setLogLevel(level) \/ setFilterLevel(level)
        \/ setLogToFile \/ setLogToFileFails
        \/ enableAsyncLogging
        \/ \E d \in BOOLEAN : disableAsyncLogging(d)

\* Both threads are scheduled; nobody has to call anything, and no wakeup is spurious by duty.
Fairness == WF_vars(Background) /\ WF_vars(OwnerStep)

Spec == Init /\ [][Next]_vars /\ Fairness
-----------------------------------------------------------------------------
Ids(s) == [i \in DOMAIN s |-> s[i].id]

\* The types; a message is in the background thread's hands exactly between taking and writing.
TypeOK ==
    /\ {currentLogLevel, filterLevel} \subseteq Levels \cup {Info, LNone}
    /\ {asyncLoggingEnabled, closing, missed, errorLevel} \subseteq BOOLEAN
    /\ queueMutex \in {"free", "background", "owner"}
    /\ logQueue \in Seq([id : 1..MaxLogs, level : Levels])
    /\ errorMessages \in Seq(1..MaxLogs)
    /\ accepted \in Seq([id : 1..MaxLogs, level : Levels])
    /\ written \in Seq([id : 1..MaxLogs, to : {"cout", "file", "failed"}])
    /\ outputStream \in {"cout", "file", "failed"}
    /\ background \in {"none", "lock", "check", "sleeping", "asleep", "level", "push", "write", "done"}
    /\ message \in {<<>>} \cup {<<m>> : m \in [id : 1..MaxLogs, level : Levels]}
    /\ message # <<>> <=> background \in {"level", "push", "write"}
    /\ owner \in {"idle", "notify", "join", "hung", "terminated", "gone"}
    /\ logs \in 0..MaxLogs /\ calls \in 0..MaxCalls

\* Every message that log() has accepted is written once and in the order of the calls, or is
\* still with the background thread or in the queue: none is lost, repeated or overtaken when
\* the background thread is stopped in any state and started again.
InOrderOnce == Ids(accepted) = Ids(written) \o Ids(message) \o Ids(logQueue)

\* The identifiers of the messages of level Error, in order.
Errors(s) == LET kept[n \in 0..Len(s)] ==
                     IF n = 0 THEN <<>>
                     ELSE IF s[n].level = Error THEN Append(kept[n - 1], s[n].id) ELSE kept[n - 1]
             IN kept[Len(s)]

\* errorMessages holds the accepted messages of level Error, each once and in order, as long as
\* currentLogLevel has not been Error; from then on the background thread adds to it, too.
ErrorsKept == ~errorLevel => errorMessages = Errors(accepted)

\* disableAsyncLogging() and the destructor return: they wait for ever only if their notification
\* fell between the background thread's test and its sleep.
DisableReturns == owner \in {"notify", "join"} ~> owner \notin {"notify", "join"} \/ missed

\* A message in the queue is written while asynchronous logging stays on: no notification of
\* log() is lost.  (Unless the owner hangs with the mutex or the process has ended.)
QueuedIsWritten ==
    \A id \in 1..MaxLogs :
        (asyncLoggingEnabled /\ background # "none" /\ \E i \in DOMAIN logQueue : logQueue[i].id = id)
            ~> \/ ~asyncLoggingEnabled \/ owner \in {"hung", "terminated"}
               \/ \E i \in DOMAIN written : written[i].id = id
=============================================================================

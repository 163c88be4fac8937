------------------------------ MODULE Launcher ------------------------------
(***************************************************************************)
(* ServerLauncher of launcher/launcher.cpp and its main().  Four actors:   *)
(* the main thread in run(); the thread of start_server(), which waits for *)
(* _stop_requested; the detached thread of read_server_output(); and       *)
(* another thread that calls stop(), such as a signal thread of an         *)
(* embedding program (main() itself calls stop() only after run()).  The   *)
(* server is external: it writes lines and exits when it likes.  The stop  *)
(* commands reach nobody, because the pipe is opened for reading.  Only    *)
(* the thread of start_server() locks _server_mutex.                       *)
(*                                                                         *)
(* The resource files stay on disk from one launch to the next.            *)
(***************************************************************************)
EXTENDS Naturals

CONSTANT MaxLaunches  \* bound: launches on the same disk

ASSUME LaunchesAssumption == MaxLaunches \in Nat \ {0}

VARIABLES _stop_requested, _server_running,
          _server_process,  \* the pipe: "none", "open" or "closed"
          main,             \* where the main thread is
          waiter,           \* where the thread of start_server() is
          reader,           \* where the thread of read_server_output() is
          stopper,          \* where the other thread is in stop()
          server,           \* the server: "none", "up" or "exited"
          files,            \* the resources: "none" configured, the first unreadable ("absent"), or "present"
          launches,
          missed,           \* history: stop()'s notify_all() came before the waiter slept
          overtaken,        \* history: the reader had ended when _server_running became true
          touched           \* history: who used the pipe after it was closed

flags   == <<_stop_requested, _server_running>>
disk    == <<files, launches>>
history == <<missed, overtaken, touched>>
vars    == <<flags, _server_process, main, waiter, reader, stopper, server, disk, history>>

\* load_config() has succeeded.
Init == /\ _stop_requested = FALSE /\ _server_running = FALSE
        /\ _server_process = "none"
        /\ main = "check"
        /\ waiter = "none" /\ reader = "none" /\ stopper = "none" /\ server = "none"
        /\ files \in {"none", "absent", "present"}
        /\ launches = 1
        /\ missed = FALSE /\ overtaken = FALSE /\ touched = {}

Alive == main \notin {"exit", "terminated"}

\* notify_all() on _server_cv, where the waiter waits.
Notified == IF waiter = "asleep" THEN "test" ELSE waiter

Use(who) == touched' = IF _server_process = "closed" THEN touched \cup {who} ELSE touched
-----------------------------------------------------------------------------
(* The main thread. *)

At(from, to) == main = from /\ main' = to

\* check_resources(): an entry is used as a file name, a string, and then as an object with a
\* member "sha256", which throws.  An empty list passes; a file that is not there is downloaded.
check_resources ==
    /\ \/ files = "none" /\ At("check", "start")
       \/ files = "absent" /\ At("check", "download")
       \/ files = "present" /\ At("check", "exit")
    /\ UNCHANGED <<flags, _server_process, waiter, reader, stopper, server, disk, history>>

\* download_resources(): every file is tried; if an answer fails to come run() throws, if the
\* file cannot be written nobody notices.
download_resources ==
    /\ files' \in {"absent", "present"}
    /\ At("download", "start") \/ At("download", "exit")
    /\ UNCHANGED <<flags, _server_process, waiter, reader, stopper, server, launches, history>>

\* start_server(): the command fails, or the server runs and its thread is started, or is not.
\* (The answers of check_dependencies() and check_config_file() are ignored.)
start_server ==
    /\ \/ At("start", "exit") /\ UNCHANGED <<_server_process, server, waiter>>
       \/ /\ _server_process' = "open"
          /\ server' = "up"
          /\ \/ At("start", "read") /\ waiter' = "head"
             \/ At("start", "unwind") /\ UNCHANGED waiter
    /\ UNCHANGED <<flags, reader, stopper, disk, history>>

\* read_server_output(): the reader is started, or std::thread throws.
start_reader ==
    /\ \/ At("read", "running") /\ reader' = "read"
       \/ At("read", "unwind") /\ UNCHANGED reader
    /\ UNCHANGED <<flags, _server_process, waiter, stopper, server, disk, history>>

\* The reader is running, or has ended already, when the flag is set.
set_running ==
    /\ At("running", "command")
    /\ _server_running' = TRUE
    /\ overtaken' = (reader \in {"notify", "done"})
    /\ UNCHANGED <<_stop_requested, _server_process, waiter, reader, stopper, server, disk,
                   missed, touched>>

stop_server ==
    /\ At("command", "join")
    /\ Use("main")
    /\ UNCHANGED <<flags, _server_process, waiter, reader, stopper, server, disk, missed, overtaken>>

\* Mutant: the pipe is closed first.
join_thread_late ==
    /\ At("join", "close")
    /\ UNCHANGED <<flags, _server_process, waiter, reader, stopper, server, disk, history>>

\* wait_for_server_to_exit(): the thread of start_server() is joined.
join_thread ==
    /\ At("join", "close")
    /\ waiter = "done"
    /\ UNCHANGED <<flags, _server_process, waiter, reader, stopper, server, disk, history>>

\* Then the pipe is closed and pclose() waits for the server to exit.
close_pipe ==
    /\ At("close", "wait")
    /\ _server_process' = "closed"
    /\ UNCHANGED <<flags, waiter, reader, stopper, server, disk, history>>

\* Mutant: the flag stays.
clear_running_not ==
    /\ At("wait", "ask")
    /\ server = "exited"
    /\ UNCHANGED <<flags, _server_process, waiter, reader, stopper, server, disk, history>>

clear_running ==
    /\ At("wait", "ask")
    /\ server = "exited"
    /\ _server_running' = FALSE
    /\ UNCHANGED <<_stop_requested, _server_process, waiter, reader, stopper, server, disk, history>>

\* main() asks is_running() and calls stop() or leaves.
ask_running ==
    /\ At("ask", IF _server_running THEN "stop" ELSE "exit")
    /\ UNCHANGED <<flags, _server_process, waiter, reader, stopper, server, disk, history>>

\* run() has thrown after the server was started: the destructor closes the pipe ...
unwind_pipe ==
    /\ At("unwind", "unwindWait")
    /\ _server_process' = "closed"
    /\ UNCHANGED <<flags, waiter, reader, stopper, server, disk, history>>

\* ... and, when the server has exited, joins the thread of start_server() if there is one.
unwind_thread ==
    /\ At("unwindWait", "exit")
    /\ server = "exited"
    /\ waiter \in {"none", "done"}
    /\ UNCHANGED <<flags, _server_process, waiter, reader, stopper, server, disk, history>>

\* The launcher is started again, in a new process.
Relaunch ==
    /\ At("exit", "check")
    /\ launches < MaxLaunches
    /\ launches' = launches + 1
    /\ _stop_requested' = FALSE /\ _server_running' = FALSE
    /\ _server_process' = "none"
    /\ waiter' = "none" /\ reader' = "none" /\ stopper' = "none" /\ server' = "none"
    /\ missed' = FALSE /\ overtaken' = FALSE /\ touched' = {}
    /\ UNCHANGED files
-----------------------------------------------------------------------------
(* The thread of start_server().  While the server runs it goes round without sleeping. *)

WaiterAt(from, to) == Alive /\ waiter = from /\ waiter' = to

wait_head ==
    /\ WaiterAt("head", IF _stop_requested THEN "send" ELSE "test")
    /\ UNCHANGED <<flags, _server_process, main, reader, stopper, server, disk, history>>

\* The predicate of _server_cv.wait().
wait_test ==
    /\ WaiterAt("test", IF _server_running \/ _stop_requested THEN "head" ELSE "sleeping")
    /\ UNCHANGED <<flags, _server_process, main, reader, stopper, server, disk, history>>

wait_sleep ==
    /\ WaiterAt("sleeping", "asleep")
    /\ UNCHANGED <<flags, _server_process, main, reader, stopper, server, disk, history>>

\* A condition variable may wake its waiter for no reason.
spurious_wakeup ==
    /\ WaiterAt("asleep", "test")
    /\ UNCHANGED <<flags, _server_process, main, reader, stopper, server, disk, history>>

\* The stop command, written to the pipe.
send_stop ==
    /\ WaiterAt("send", "done")
    /\ Use("waiter")
    /\ UNCHANGED <<flags, _server_process, main, reader, stopper, server, disk, missed, overtaken>>
-----------------------------------------------------------------------------
(* The thread of read_server_output(). *)

ReaderAt(from, to) == Alive /\ reader = from /\ reader' = to

\* fgets(): a line without an error changes nothing; an error ends the thread, a warning does so
\* after a mail; so does the end of the output, when the server has exited.  The line is searched
\* with a local of read_server_output(): once that has returned the search is undefined, finds
\* an error in any line or in none, or kills the process.
read_line ==
    /\ \/ ReaderAt("read", "read") /\ UNCHANGED main
       \/ ReaderAt("read", "mail") /\ UNCHANGED main
       \/ ReaderAt("read", "flag") /\ UNCHANGED main
       \/ ReaderAt("read", "done") /\ main # "running" /\ main' = "terminated"
    /\ Use("reader")
    /\ UNCHANGED <<flags, _server_process, waiter, stopper, server, disk, missed, overtaken>>

\* send_warning_email(): nothing catches its exceptions in the detached thread.
send_warning_email ==
    /\ \/ ReaderAt("mail", "flag") /\ UNCHANGED main
       \/ ReaderAt("mail", "done") /\ main' = "terminated"
    /\ UNCHANGED <<flags, _server_process, waiter, stopper, server, disk, history>>

read_flag ==
    /\ ReaderAt("flag", "notify")
    /\ _server_running' = FALSE
    /\ UNCHANGED <<_stop_requested, _server_process, main, waiter, stopper, server, disk, history>>

read_notify ==
    /\ ReaderAt("notify", "done")
    /\ waiter' = Notified
    /\ UNCHANGED <<flags, _server_process, main, stopper, server, disk, history>>
-----------------------------------------------------------------------------
(* stop(), called by another thread while run() is in progress. *)

InRun == main \in {"check", "download", "start", "read", "running", "command", "join"}

stop_flag ==
    /\ InRun
    /\ stopper = "none"
    /\ stopper' = "notify"
    /\ _stop_requested' = TRUE
    /\ UNCHANGED <<_server_running, _server_process, main, waiter, reader, server, disk, history>>

\* Mutant: nobody is notified.
stop_notify_not ==
    /\ Alive
    /\ stopper = "notify"
    /\ stopper' = "done"
    /\ missed' = (waiter = "sleeping")
    /\ UNCHANGED <<flags, _server_process, main, waiter, reader, server, disk, overtaken, touched>>

stop_notify ==
    /\ Alive
    /\ stopper = "notify"
    /\ stopper' = "done"
    /\ waiter' = Notified
    /\ missed' = (waiter = "sleeping")
    /\ UNCHANGED <<flags, _server_process, main, reader, server, disk, overtaken, touched>>
-----------------------------------------------------------------------------
\* The server exits (external).
server_exits ==
    /\ server = "up"
    /\ server' = "exited"
    /\ UNCHANGED <<flags, _server_process, main, waiter, reader, stopper, disk, history>>

Main == \/ check_resources \/ download_resources \/ start_server \/ start_reader \/ set_running
        \/ stop_server \/ join_thread \/ close_pipe \/ clear_running \/ ask_running
        \/ unwind_pipe \/ unwind_thread
Waiter == wait_head \/ wait_test \/ wait_sleep \/ send_stop
Reader == read_line \/ send_warning_email \/ read_flag \/ read_notify
Next == Main \/ Waiter \/ spurious_wakeup \/ Reader \/ stop_flag \/ stop_notify \/ server_exits \/ Relaunch

\* The threads are scheduled; the server, the mail server and whoever may call stop() owe nothing,
\* so that the reader may wait for a line for ever while the server runs.
Fairness == /\ WF_vars(Main) /\ WF_vars(Waiter) /\ WF_vars(stop_notify)
            /\ WF_vars(read_flag \/ read_notify)
            /\ WF_vars(server = "exited" /\ read_line)

Spec == Init /\ [][Next]_vars /\ Fairness
-----------------------------------------------------------------------------
\* What is_running() says: when run() has returned it is false, so that main() never calls
\* stop(); and it outlives the output of the server only if the reader had ended before
\* read_server_output() set it.
IsRunning ==
    /\ main \in {"ask", "stop", "exit"} /\ _server_process # "none" => ~_server_running
    /\ main # "stop"
    /\ reader \in {"notify", "done"} /\ _server_running => overtaken \/ main = "terminated"

\* The pipe is used after it was closed only by the reader, when stop() was called before the
\* server's output ended, and by the thread of start_server(), when stop() was called and run()
\* then threw.
PipeUse ==
    /\ "main" \notin touched
    /\ "reader" \in touched => _stop_requested
    /\ "waiter" \in touched => _stop_requested /\ main \in {"unwindWait", "exit"}

\* stop() from another thread ends the wait of run() for the thread of start_server(), unless
\* its notification fell between that thread's test and its sleep or the process has died.
StopEndsWait == stopper = "done" /\ main = "join" ~> main # "join" \/ missed

\* What the header says of check_resources(), "returns true if all the necessary resources are
\* downloaded, otherwise false": with the files there run() goes on from the check.
ResourcesAreAccepted == [][main = "check" /\ files = "present" => main' # "exit"]_vars

\* What the header says of is_running(), "returns true if the server is running, otherwise
\* false": when the server has exited and its output was read to the end it is false.
RunningMeansUp == Alive /\ server = "exited" /\ reader = "done" => ~_server_running

\* What the header says of wait_for_server_to_exit(), that it waits for the end of the server's
\* process and that its condition variable avoids deadlock: the wait ends when the server has.
WaitEndsWithServer == server = "exited" /\ main = "join" ~> main # "join"
=============================================================================

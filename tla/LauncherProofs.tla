--------------------------- MODULE LauncherProofs ---------------------------
(***************************************************************************)
(* Proofs about Launcher, for any number of launches: what is_running()    *)
(* says, and who uses the pipe when.                                       *)
(***************************************************************************)
EXTENDS Launcher, TLAPS

Places == /\ main \in {"check", "download", "start", "read", "running", "command", "join", "close",
                       "wait", "ask", "exit", "unwind", "unwindWait", "terminated"}
          /\ waiter \in {"none", "head", "test", "sleeping", "asleep", "send", "done"}
          /\ reader \in {"none", "read", "mail", "flag", "notify", "done"}
          /\ _server_process \in {"none", "open", "closed"}

\* Before start_server() there is no pipe.
BeforeStart == main \in {"check", "download", "start"} => _server_process = "none"

\* The reader exists only once read_server_output() was passed, which the unwinding run() was not.
ReaderStarted ==
    main \in {"check", "download", "start", "read", "unwind", "unwindWait"} => reader = "none"

\* _server_running can be true only between set_running and the end of run().
RunningInRun ==
    main \in {"check", "download", "start", "read", "running", "ask", "exit", "unwind", "unwindWait"}
        => ~_server_running

\* The pipe is closed by the last steps of run() or of its unwinding.
ClosedLate ==
    _server_process = "closed" => main \in {"wait", "ask", "exit", "unwindWait", "terminated"}

\* The thread of start_server() leaves its loop only for a stop request, and run() closes the
\* pipe only after it.
WaiterStopped ==
    /\ waiter \in {"send", "done"} => _stop_requested
    /\ main \in {"close", "wait", "ask"} => waiter = "done"

IInv == /\ Places /\ BeforeStart /\ ReaderStarted /\ RunningInRun /\ ClosedLate /\ WaiterStopped
        /\ IsRunning /\ PipeUse
-----------------------------------------------------------------------------
\* It holds initially.
LEMMA InitInv == Init => IInv
  BY DEF Init, IInv, Places, BeforeStart, ReaderStarted, RunningInRun, ClosedLate, WaiterStopped,
         IsRunning, PipeUse

\* Every step keeps it.
LEMMA NextInv ==
    ASSUME IInv, [Next]_vars
    PROVE  IInv'
<1> USE DEF flags, disk, history, IInv, Places, BeforeStart, ReaderStarted, RunningInRun, ClosedLate,
            WaiterStopped, IsRunning, PipeUse
<1>1. CASE check_resources
  BY <1>1 DEF check_resources, At
<1>2. CASE download_resources
  BY <1>2 DEF download_resources, At
<1>3. CASE start_server
  BY <1>3 DEF start_server, At
<1>4. CASE start_reader
  BY <1>4 DEF start_reader, At
<1>5. CASE set_running
  BY <1>5 DEF set_running, At
<1>6. CASE stop_server
  BY <1>6 DEF stop_server, At, Use
<1>7. CASE join_thread
  BY <1>7 DEF join_thread, At
<1>8. CASE close_pipe
  BY <1>8 DEF close_pipe, At
<1>9. CASE clear_running
  BY <1>9 DEF clear_running, At
<1>10. CASE ask_running
  BY <1>10 DEF ask_running, At
<1>11. CASE unwind_pipe
  BY <1>11 DEF unwind_pipe, At
<1>12. CASE unwind_thread
  BY <1>12 DEF unwind_thread, At
<1>13. CASE Relaunch
  BY <1>13 DEF Relaunch, At
<1>14. CASE wait_head
  BY <1>14 DEF wait_head, WaiterAt, Alive
<1>15. CASE wait_test
  BY <1>15 DEF wait_test, WaiterAt, Alive
<1>16. CASE wait_sleep
  BY <1>16 DEF wait_sleep, WaiterAt, Alive
<1>17. CASE spurious_wakeup
  BY <1>17 DEF spurious_wakeup, WaiterAt, Alive
<1>18. CASE send_stop
  BY <1>18 DEF send_stop, WaiterAt, Alive, Use
<1>19. CASE read_line
  BY <1>19 DEF read_line, ReaderAt, Alive, Use
<1>20. CASE send_warning_email
  BY <1>20 DEF send_warning_email, ReaderAt, Alive
<1>21. CASE read_flag
  BY <1>21 DEF read_flag, ReaderAt, Alive
<1>22. CASE read_notify
  BY <1>22 DEF read_notify, ReaderAt, Alive, Notified
<1>23. CASE stop_flag
  BY <1>23 DEF stop_flag, InRun
<1>24. CASE stop_notify
  BY <1>24 DEF stop_notify, Alive, Notified
<1>25. CASE server_exits
  BY <1>25 DEF server_exits
<1>26. CASE UNCHANGED vars
  BY <1>26 DEF vars
<1> QED
  BY <1>1, <1>2, <1>3, <1>4, <1>5, <1>6, <1>7, <1>8, <1>9, <1>10, <1>11, <1>12, <1>13, <1>14,
     <1>15, <1>16, <1>17, <1>18, <1>19, <1>20, <1>21, <1>22, <1>23, <1>24, <1>25, <1>26
     DEF Next, Main, Waiter, Reader

\* is_running() is false when run() has returned, so that main() never calls stop(); and it
\* outlives the server's output only if the reader had ended before the flag was set.
THEOREM RunningIsTold == Spec => []IsRunning
<1>1. IInv => IsRunning
  BY DEF IInv
<1>2. IInv /\ [Next]_vars => IInv'
  BY NextInv
<1>3. QED
  BY <1>1, <1>2, InitInv, PTL DEF Spec

\* run() never uses the closed pipe; its two threads do so only after a stop request.
THEOREM PipeIsUsedOpen == Spec => []PipeUse
<1>1. IInv => PipeUse
  BY DEF IInv
<1>2. IInv /\ [Next]_vars => IInv'
  BY NextInv
<1>3. QED
  BY <1>1, <1>2, InitInv, PTL DEF Spec
=============================================================================

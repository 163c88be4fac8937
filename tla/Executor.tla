------------------------------ MODULE Executor ------------------------------
(***************************************************************************)
(* What a thread pool promises to the code that uses it, with no threads,  *)
(* locks or condition variables: a first-in first-out queue of tasks, each *)
(* of which is started once and finished once, and an executor that closes *)
(* only when it has nothing left to run.                                   *)
(***************************************************************************)
EXTENDS Integers, Sequences

CONSTANT Tasks      \* every call of enqueue() that a behaviour can make

VARIABLES queue,    \* accepted and not started, in order of acceptance
          running,  \* started and not finished
          done,     \* finished
          closed    \* the executor is gone

vars == <<queue, running, done, closed>>

Queued == {queue[i] : i \in 1..Len(queue)}

Init == /\ queue = <<>>
        /\ running = {}
        /\ done = {}
        /\ closed = FALSE

Submit(t) == /\ ~closed
             /\ t \notin Queued \cup running \cup done
             /\ queue' = Append(queue, t)
             /\ UNCHANGED <<running, done, closed>>

Start == /\ queue # <<>>
         /\ Head(queue) \notin running \cup done
         /\ running' = running \cup {Head(queue)}
         /\ queue' = Tail(queue)
         /\ UNCHANGED <<done, closed>>

Finish(t) == /\ t \in running
             /\ running' = running \ {t}
             /\ done' = done \cup {t}
             /\ UNCHANGED <<queue, closed>>

Close == /\ queue = <<>>
         /\ running = {}
         /\ closed' = TRUE
         /\ UNCHANGED <<queue, running, done>>

Next == \/ Start
        \/ Close
        \/ \E t \in Tasks : Submit(t) \/ Finish(t)

Spec == Init /\ [][Next]_vars
=============================================================================

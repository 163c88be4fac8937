--------------------------- MODULE ThreadManager ---------------------------
(***************************************************************************)
(* OpenAPT::Thread::ThreadManager: a vector of named threads guarded by    *)
(* m_mtx, and a condition variable m_cv on which addThread() waits for     *)
(* room and joinAllThreads() for an empty vector.                          *)
(*                                                                         *)
(* A critical section that does not block is one action, enabled when      *)
(* m_mtx is free.  Two do block with the mutex held: joinThreadByName()    *)
(* in std::thread::join(), and the destructor, whose call of               *)
(* joinAllThreads() locks m_mtx a second time: that never returns, or it   *)
(* throws.  Every managed thread locks m_mtx once more after its function  *)
(* has returned.                                                           *)
(*                                                                         *)
(* joinThread() and sleepThreadByName() keep a reference to an element of  *)
(* m_threads across an unlock.  The reference is a slot of the vector's    *)
(* buffer: an erase moves other elements into the slot, a reallocation     *)
(* frees it.                                                               *)
(*                                                                         *)
(* m_stopFlag is set by the destructor alone, which never gives m_mtx back,*)
(* so no call of addThread() gets to see it set.                           *)
(***************************************************************************)
EXTENDS Integers, Sequences, FiniteSets, SequencesExt

CONSTANTS Callers,      \* threads that use the manager
          Ids,          \* the threads that addThread() can start
          Names,        \* their names, not necessarily distinct
          MaxThreads,   \* m_maxThreads
          None

ASSUME MaxThreadsAssumption == MaxThreads \in Nat \ {0}
ASSUME NoneAssumption == None \notin Callers \cup Ids

VARIABLES m_threads,  \* the vector: [id, name, ptr (not null), sleep]
          cap,        \* its capacity
          m_mtx,      \* the owner of the mutex, when it blocks with it, or None
          m_stopFlag,
          th,         \* each managed thread: "new", "running" or "finished"
          pc,         \* where each caller is
          ref,        \* the slot its reference denotes, 0: none
          freed,      \* the callers whose reference points into a freed buffer
          aborted,    \* std::terminate() or a crash has ended the process
          overlapped  \* history: a call has begun while another was in progress

vars == <<m_threads, cap, m_mtx, m_stopFlag, th, pc, ref, freed, aborted, overlapped>>

Entry == [id : Ids, name : Names, ptr : BOOLEAN, sleep : BOOLEAN]

PCs == {"idle",
        "add-sleep", "add-lock",          \* addThread(), waiting for room
        "all-sleep", "all-lock",          \* joinAllThreads(), waiting for none
        "joining", "window", "relock",    \* joinThreadByName()
        "dozing",                         \* sleepThreadByName(), in sleep_for()
        "dtor",                           \* ~ThreadManager(), in the second lock
        "gone"}                           \* the manager is destroyed

Init == /\ m_threads = <<>>
        /\ cap = 0
        /\ m_mtx = None
        /\ m_stopFlag = FALSE
        /\ th = [x \in Ids |-> "new"]
        /\ pc = [c \in Callers |-> "idle"]
        /\ ref = [c \in Callers |-> 0]
        /\ freed = {}
        /\ aborted = FALSE
        /\ overlapped = FALSE

Free == ~aborted /\ m_mtx = None

\* What a step of c that may be the first of a call adds to the history.
Called(c) == overlapped' = \/ overlapped
                           \/ pc[c] = "idle" /\ \E d \in Callers \ {c} : pc[d] # "idle"

\* The first entry called n; 0 if there is none.
SlotOf(n) == SelectInSeq(m_threads, LAMBDA e : e.name = n)

\* notify_all() and notify_one() on m_cv, as a change of the control states.
Woken(s) == CASE s = "add-sleep" -> "add-lock"
              [] s = "all-sleep" -> "all-lock"
              [] OTHER -> s
NotifyAll(p) == [c \in Callers |-> Woken(p[c])]
Sleepers(p) == {c \in Callers : Woken(p[c]) # p[c]}
NotifyOne(p) == IF Sleepers(p) = {} THEN {p}
                ELSE {[p EXCEPT ![c] = Woken(p[c])] : c \in Sleepers(p)}

(***************************************************************************)
(* A managed thread: its function returns or throws, then the thread locks *)
(* m_mtx and unlocks it again.                                             *)
(***************************************************************************)
ThreadEnd(x) ==
    /\ th[x] = "running"
    /\ Free
    /\ th' = [th EXCEPT ![x] = "finished"]
    /\ UNCHANGED <<m_threads, cap, m_mtx, m_stopFlag, pc, ref, freed, aborted, overlapped>>

(***************************************************************************)
(* addThread().                                                            *)
(***************************************************************************)
\* Mutant: one thread too many.
HasRoomOffByOne == Len(m_threads) <= MaxThreads

HasRoom == Len(m_threads) < MaxThreads

AddSleep(c) ==
    /\ pc[c] \in {"idle", "add-lock"}
    /\ Free
    /\ ~HasRoom
    /\ pc' = [pc EXCEPT ![c] = "add-sleep"]
    /\ Called(c)
    /\ UNCHANGED <<m_threads, cap, m_mtx, m_stopFlag, th, ref, freed, aborted>>

AddThread(c, x, n) ==
    /\ pc[c] \in {"idle", "add-lock"}
    /\ Free
    /\ HasRoom
    /\ th[x] = "new"
    /\ th' = [th EXCEPT ![x] = "running"]
    /\ m_threads' = Append(m_threads, [id |-> x, name |-> n, ptr |-> TRUE, sleep |-> FALSE])
    /\ IF Len(m_threads) < cap
       THEN UNCHANGED <<cap, freed>>
       ELSE /\ cap' = IF cap = 0 THEN 1 ELSE 2 * cap
            /\ freed' = freed \cup {d \in Callers : ref[d] # 0}
    /\ pc' \in NotifyOne([pc EXCEPT ![c] = "idle"])
    /\ Called(c)
    /\ UNCHANGED <<m_mtx, m_stopFlag, ref, aborted>>

\* No thread can be started: the exception is logged and nobody is notified.
AddThreadFails(c) ==
    /\ pc[c] \in {"idle", "add-lock"}
    /\ Free
    /\ HasRoom
    /\ pc' = [pc EXCEPT ![c] = "idle"]
    /\ Called(c)
    /\ UNCHANGED <<m_threads, cap, m_mtx, m_stopFlag, th, ref, freed, aborted>>

(***************************************************************************)
(* joinAllThreads().  When its wait is over the vector is empty, so its    *)
(* loop joins nothing.                                                     *)
(***************************************************************************)
JoinAllSleep(c) ==
    /\ pc[c] \in {"idle", "all-lock"}
    /\ Free
    /\ m_threads # <<>>
    /\ pc' = [pc EXCEPT ![c] = "all-sleep"]
    /\ Called(c)
    /\ UNCHANGED <<m_threads, cap, m_mtx, m_stopFlag, th, ref, freed, aborted>>

JoinAllReturn(c) ==
    /\ pc[c] = "all-lock"
    /\ Free
    /\ m_threads = <<>>
    /\ pc' = [pc EXCEPT ![c] = "idle"]
    /\ UNCHANGED <<m_threads, cap, m_mtx, m_stopFlag, th, ref, freed, aborted, overlapped>>

(***************************************************************************)
(* joinThreadByName() and joinThread().                                    *)
(***************************************************************************)
JoinBegin(c, n) ==
    /\ pc[c] = "idle"
    /\ Free
    /\ SlotOf(n) # 0
    /\ m_mtx' = c
    /\ ref' = [ref EXCEPT ![c] = SlotOf(n)]
    /\ freed' = freed \ {c}
    /\ pc' = [pc EXCEPT ![c] = "joining"]
    /\ Called(c)
    /\ UNCHANGED <<m_threads, cap, m_stopFlag, th, aborted>>

\* An entry with a null pointer is one that another caller has joined and not yet erased.
Joinable(e) == e.ptr => th[e.id] = "finished"

\* Mutant: joinThread() detaches the thread in place of joining it.
JoinNotWaiting(c) ==
    /\ ~aborted
    /\ pc[c] = "joining"
    /\ m_threads' = [m_threads EXCEPT ![ref[c]].ptr = FALSE, ![ref[c]].sleep = TRUE]
    /\ m_mtx' = None
    /\ pc' = NotifyAll([pc EXCEPT ![c] = "window"])
    /\ UNCHANGED <<cap, m_stopFlag, th, ref, freed, aborted, overlapped>>

\* Mutant: joinThread() does not unlock before it locks again.
JoinKeepsMutex(c) ==
    /\ ~aborted
    /\ pc[c] = "joining"
    /\ Joinable(m_threads[ref[c]])
    /\ m_threads' = [m_threads EXCEPT ![ref[c]].ptr = FALSE, ![ref[c]].sleep = TRUE]
    /\ pc' = NotifyAll([pc EXCEPT ![c] = "window"])
    /\ UNCHANGED <<cap, m_mtx, m_stopFlag, th, ref, freed, aborted, overlapped>>

\* join() returns; the pointer is reset, the flag set, the sleepers woken, m_mtx released.
JoinWait(c) ==
    /\ ~aborted
    /\ pc[c] = "joining"
    /\ Joinable(m_threads[ref[c]])
    /\ m_threads' = [m_threads EXCEPT ![ref[c]].ptr = FALSE, ![ref[c]].sleep = TRUE]
    /\ m_mtx' = None
    /\ pc' = NotifyAll([pc EXCEPT ![c] = "window"])
    /\ UNCHANGED <<cap, m_stopFlag, th, ref, freed, aborted, overlapped>>

InVector(c) == c \notin freed /\ ref[c] <= Len(m_threads)

\* The second reset(), without the mutex.  It hits whatever the slot holds by now: to
\* delete a std::thread that nobody has joined is std::terminate(), to delete what a
\* freed buffer holds is anything from nothing to a crash.
JoinReset(c) ==
    /\ ~aborted
    /\ pc[c] = "window"
    /\ aborted' \in IF c \in freed THEN BOOLEAN
                    ELSE {InVector(c) /\ m_threads[ref[c]].ptr}
    /\ pc' = [pc EXCEPT ![c] = "relock"]
    /\ UNCHANGED <<m_threads, cap, m_mtx, m_stopFlag, th, ref, freed, overlapped>>

\* The vector after the write of FALSE to the flag through c's reference.
FlagCleared(c) == IF InVector(c) THEN [m_threads EXCEPT ![ref[c]].sleep = FALSE]
                  ELSE m_threads

\* A write into a freed buffer goes unnoticed or ends the process.
MayAbort(c) == aborted' \in IF c \in freed THEN BOOLEAN ELSE {aborted}

\* What remove_if() and erase() leave of a vector: the entries with a pointer, in order.
Live(s) == LET kept[n \in 0..Len(s)] ==
                   IF n = 0 THEN <<>>
                   ELSE IF s[n].ptr THEN Append(kept[n - 1], s[n]) ELSE kept[n - 1]
           IN kept[Len(s)]

\* Mutant: the second notify_all() of joinThread() is missing.
JoinEraseSilently(c) ==
    /\ pc[c] = "relock"
    /\ Free
    /\ m_threads' = Live(FlagCleared(c))
    /\ MayAbort(c)
    /\ pc' = [pc EXCEPT ![c] = "idle"]
    /\ ref' = [ref EXCEPT ![c] = 0]
    /\ freed' = freed \ {c}
    /\ UNCHANGED <<cap, m_mtx, m_stopFlag, th, overlapped>>

\* Mutant: the vector is shrunk to fit, under the references of other calls.
JoinEraseShrinks(c) ==
    /\ pc[c] = "relock"
    /\ Free
    /\ m_threads' = Live(FlagCleared(c))
    /\ cap' = Len(m_threads')
    /\ MayAbort(c)
    /\ pc' = NotifyAll([pc EXCEPT ![c] = "idle"])
    /\ ref' = [ref EXCEPT ![c] = 0]
    /\ freed' = freed \ {c}
    /\ UNCHANGED <<m_mtx, m_stopFlag, th, overlapped>>

\* joinThread() ends, and joinThreadByName() erases the entries with a null pointer.
JoinErase(c) ==
    /\ pc[c] = "relock"
    /\ Free
    /\ m_threads' = Live(FlagCleared(c))
    /\ MayAbort(c)
    /\ pc' = NotifyAll([pc EXCEPT ![c] = "idle"])
    /\ ref' = [ref EXCEPT ![c] = 0]
    /\ freed' = freed \ {c}
    /\ UNCHANGED <<cap, m_mtx, m_stopFlag, th, overlapped>>

(***************************************************************************)
(* sleepThreadByName(): it is the caller that sleeps.                      *)
(***************************************************************************)
SleepBegin(c, n) ==
    /\ pc[c] = "idle"
    /\ Free
    /\ SlotOf(n) # 0 /\ ~m_threads[SlotOf(n)].sleep
    /\ m_threads' = [m_threads EXCEPT ![SlotOf(n)].sleep = TRUE]
    /\ ref' = [ref EXCEPT ![c] = SlotOf(n)]
    /\ pc' = NotifyAll([pc EXCEPT ![c] = "dozing"])
    /\ Called(c)
    /\ UNCHANGED <<cap, m_mtx, m_stopFlag, th, freed, aborted>>

\* Mutant: the flag is not cleared after the sleep.
SleepEndKeepsFlag(c) ==
    /\ pc[c] = "dozing"
    /\ Free
    /\ MayAbort(c)
    /\ pc' = NotifyAll([pc EXCEPT ![c] = "idle"])
    /\ ref' = [ref EXCEPT ![c] = 0]
    /\ freed' = freed \ {c}
    /\ UNCHANGED <<m_threads, cap, m_mtx, m_stopFlag, th, overlapped>>

SleepEnd(c) ==
    /\ pc[c] = "dozing"
    /\ Free
    /\ m_threads' = FlagCleared(c)
    /\ MayAbort(c)
    /\ pc' = NotifyAll([pc EXCEPT ![c] = "idle"])
    /\ ref' = [ref EXCEPT ![c] = 0]
    /\ freed' = freed \ {c}
    /\ UNCHANGED <<cap, m_mtx, m_stopFlag, th, overlapped>>

(***************************************************************************)
(* ~ThreadManager(), called when no other call is in progress.  The second *)
(* lock hangs, or throws and the exception is logged: then the members are *)
(* destroyed, and a std::thread among them that nobody has joined is       *)
(* std::terminate().  Nothing is called afterwards.                        *)
(***************************************************************************)
DtorBegin(c) ==
    /\ \A d \in Callers : pc[d] = "idle"
    /\ Free
    /\ m_mtx' = c
    /\ m_stopFlag' = TRUE
    /\ \/ pc' = [pc EXCEPT ![c] = "dtor"] /\ UNCHANGED aborted
       \/ /\ pc' = [pc EXCEPT ![c] = "gone"]
          /\ aborted' = \E i \in 1..Len(m_threads) : m_threads[i].ptr
    /\ Called(c)
    /\ UNCHANGED <<m_threads, cap, th, ref, freed>>

\* What a caller does next by itself, once it is inside a call.
Continue(c) ==
    \/ /\ pc[c] = "add-lock"
       /\ \/ AddSleep(c)
          \/ \E x \in Ids, n \in Names : AddThread(c, x, n)
          \/ AddThreadFails(c)
    \/ pc[c] = "all-lock" /\ JoinAllSleep(c)
    \/ JoinAllReturn(c)
    \/ JoinWait(c)
    \/ JoinReset(c)
    \/ JoinErase(c)
    \/ SleepEnd(c)

Call(c) ==
    \/ pc[c] = "idle" /\ AddSleep(c)
    \/ pc[c] = "idle" /\ \E x \in Ids, n \in Names : AddThread(c, x, n)
    \/ pc[c] = "idle" /\ (AddThreadFails(c) \/ JoinAllSleep(c))
    \/ \E n \in Names : JoinBegin(c, n) \/ SleepBegin(c, n)
    \/ DtorBegin(c)

Next == \/ \E x \in Ids : ThreadEnd(x)
        \/ \E c \in Callers : Call(c) \/ Continue(c)

\* Threads that can run are run, and the functions given to addThread() return.
\* m_mtx is handed in turn to the threads that ask for it.  Calls are not obligatory.
Fairness == /\ \A x \in Ids : SF_vars(ThreadEnd(x))
            /\ \A c \in Callers : SF_vars(Continue(c))

Spec == Init /\ [][Next]_vars /\ Fairness

-----------------------------------------------------------------------------
(***************************************************************************)
(* Properties.                                                             *)
(***************************************************************************)
\* The types of ThreadManager's members and of the callers' control states.
TypeOK == /\ m_threads \in Seq(Entry)
          /\ cap \in Nat /\ Len(m_threads) <= cap
          /\ m_mtx \in Callers \cup {None}
          /\ m_stopFlag \in BOOLEAN
          /\ th \in [Ids -> {"new", "running", "finished"}]
          /\ pc \in [Callers -> PCs]
          /\ ref \in [Callers -> 0..cap]
          /\ freed \subseteq Callers
          /\ aborted \in BOOLEAN
          /\ overlapped \in BOOLEAN

\* addThread() never takes the manager above m_maxThreads, whoever it races with.
AtMostMaxThreads == Len(m_threads) <= MaxThreads

\* A thread that runs is registered with a live pointer: joinThreadByName() forgets a
\* thread only after it has ended, whichever entries two joiners erase for each other.
NoOrphanThread ==
    \/ aborted
    \/ \A x \in Ids : th[x] = "running" =>
          \E i \in 1..Len(m_threads) : m_threads[i].id = x /\ m_threads[i].ptr

\* Nobody sleeps on m_cv when there is nothing to sleep for: each erase is notified after
\* the last point at which a sleeper could have gone back to sleep.
SleepersHaveCause ==
    \A c \in Callers : /\ pc[c] = "add-sleep" => ~HasRoom
                       /\ pc[c] = "all-sleep" => m_threads # <<>>

\* If calls do not overlap, no std::thread is destroyed unjoined but by the destructor, and
\* a thread is marked as sleeping only while a call that will clear the mark refers to it.
SerialCallsAreSafe ==
    ~overlapped =>
        /\ aborted => m_stopFlag
        /\ \A i \in 1..Len(m_threads) : m_threads[i].sleep =>
              \E c \in Callers : ref[c] = i /\ pc[c] \in {"window", "relock", "dozing"}

\* joinThreadByName() returns if no join by name ever begins before its thread has ended.
TooEarly(c) == pc[c] = "joining" /\ ~Joinable(m_threads[ref[c]])
LateJoinReturns ==
    [](\A c \in Callers : ~TooEarly(c)) =>
        \A c \in Callers : (pc[c] = "joining") ~> (pc[c] = "idle" \/ aborted)

\* What the comment on joinThreadByName() says, "wait for the named thread to complete":
\* the call waits, the thread completes, the call returns.
JoinByNameReturns ==
    \A c \in Callers : (pc[c] = "joining") ~> (pc[c] = "idle" \/ aborted)
=============================================================================

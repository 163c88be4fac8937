--------------------------- MODULE DownloadManager ---------------------------
(***************************************************************************)
(* DownloadManager of network/downloader.cpp: a list of tasks in memory    *)
(* and a text file with one line per task.  The constructor reads the      *)
(* file, add_task() appends to it, the destructor writes it again from the *)
(* start.  A text is the sequence of its words, since words are what       *)
(* operator>> gives back: a path with a blank is two words, an empty one   *)
(* is none.  The process may be killed between any two steps; every line   *)
(* is flushed and is in the file or is not, but for a full disk, which may *)
(* cut it anywhere.                                                        *)
(*                                                                         *)
(* start() gets no further than the first lock: get_next_task() calls      *)
(* get_next_task_index() with mutex_ locked, and that locks it again.      *)
(* task_queue_ is always empty, download_task() is never reached, and      *)
(* downloaded_bytes and priority are never used.                           *)
(***************************************************************************)
EXTENDS Naturals, Sequences, FiniteSets

CONSTANTS Texts,        \* the URLs and paths, sequences of words
          Workers,      \* the threads that start() may create
          MaxTasks,     \* bound: the length of tasks_
          MaxChanges,   \* bound: calls that change the list
          MaxLives,     \* bound: processes one after the other
          Garbled,      \* a word that was cut, or run together with another
          Nobody

\* The words of the texts.
Words == {Garbled} \cup UNION {{text[i] : i \in DOMAIN text} : text \in Texts}

ASSUME TextsAssumption == Texts \subseteq Seq(Words)
ASSUME NobodyAssumption == Nobody \notin Workers
ASSUME TasksAssumption == MaxTasks \in Nat /\ MaxChanges \in Nat /\ MaxLives \in Nat

VARIABLES task_file,    \* the words of the file
          unended,      \* whether the last of them has no blank or end of line behind it
          tasks_,       \* kept when the process ends, to compare it with the file
          manager,      \* "down", "up", "adding", "saving" or "starting"
          adding,       \* the arguments of add_task()
          saved,        \* how many lines save_task_list_to_file() has got to
          worker,       \* where the threads of start() are
          mutex_,
          changes, lives,
          torn,         \* history: the last process ended in the middle of its save
          failed,       \* history: this process, or the last, wrote a line in vain
          shifted       \* history: the file had an odd word, or no end, when this process read it

disk         == <<task_file, unended>>
store        == <<disk, tasks_, adding, saved, torn, failed, shifted>>
threads      == <<worker, mutex_>>
downloadVars == <<store, threads, manager, changes, lives>>

DownloadTask(url, filepath) ==
    [url |-> url, filepath |-> filepath, completed |-> FALSE, paused |-> FALSE]

\* A line of the file.
Line(task) == task.url \o task.filepath

\* What the constructor makes of the words: they are taken in pairs, an odd one is dropped.
Parse(words) == [i \in 1..(Len(words) \div 2) |-> DownloadTask(<<words[2 * i - 1]>>, <<words[2 * i]>>)]

DownloadInit ==
    /\ task_file = <<>> /\ unended = FALSE
    /\ tasks_ = <<>>
    /\ manager = "down"
    /\ adding = DownloadTask(<<>>, <<>>) /\ saved = 0
    /\ worker = [w \in Workers |-> "none"] /\ mutex_ = Nobody
    /\ changes = 0 /\ lives = 0
    /\ torn = FALSE /\ failed = FALSE /\ shifted = FALSE

\* The constructor.
Load ==
    /\ manager = "down"
    /\ lives < MaxLives
    /\ lives' = lives + 1
    /\ manager' = "up"
    /\ tasks_' = Parse(task_file)
    /\ torn' = FALSE /\ failed' = FALSE
    /\ shifted' = (unended \/ Len(task_file) % 2 = 1)
    /\ UNCHANGED <<disk, adding, saved, threads, changes>>

Change == /\ manager = "up"
          /\ changes < MaxChanges
          /\ changes' = changes + 1

\* The file with words of a line written behind it: its last word, if nothing ends it, and the
\* first of a URL become one.
Behind(task, words) ==
    IF unended /\ <<>> \notin {task_file, task.url, words}
      THEN SubSeq(task_file, 1, Len(task_file) - 1) \o <<Garbled>> \o Tail(words)
      ELSE task_file \o words

WriteLine(task) == task_file' = Behind(task, Line(task)) /\ unended' = FALSE

\* The disk is full: nothing is written, or a line that ends behind one of its words, or in it.
CutLine(task) ==
    LET line == Line(task) IN
    \/ UNCHANGED disk
    \/ \E n \in 1..Len(line) :
          \/ task_file' = Behind(task, SubSeq(line, 1, n)) /\ unended' \in BOOLEAN
          \/ task_file' = Behind(task, Append(SubSeq(line, 1, n - 1), Garbled)) /\ unended' = TRUE

\* Mutant: the file is opened without ios_base::app.
add_task_truncates(url, filepath) ==
    /\ Change
    /\ Len(tasks_) < MaxTasks
    /\ manager' = "adding"
    /\ adding' = DownloadTask(url, filepath)
    /\ task_file' = Line(adding') /\ unended' = FALSE
    /\ UNCHANGED <<tasks_, saved, shifted, torn, failed, threads, lives>>

\* add_task(): the line is appended to the file; if the disk is full nobody notices.
\* (When the file cannot be opened add_task() throws and changes nothing.)
add_task(url, filepath) ==
    /\ Change
    /\ Len(tasks_) < MaxTasks
    /\ manager' = "adding"
    /\ adding' = DownloadTask(url, filepath)
    /\ \/ WriteLine(adding') /\ UNCHANGED failed
       \/ CutLine(adding') /\ failed' = TRUE
    /\ UNCHANGED <<tasks_, saved, shifted, torn, threads, lives>>

\* Then the task is put into the list.
add_task_pushes ==
    /\ manager = "adding"
    /\ manager' = "up"
    /\ tasks_' = Append(tasks_, adding)
    /\ UNCHANGED <<disk, adding, saved, shifted, torn, failed, threads, changes, lives>>

\* remove_task() only marks the task as completed.
remove_task(i) ==
    /\ Change
    /\ i \in DOMAIN tasks_
    /\ tasks_' = [tasks_ EXCEPT ![i].completed = TRUE]
    /\ UNCHANGED <<disk, adding, saved, shifted, torn, failed, threads, manager, lives>>

\* pause_task() and resume_task().
pause_task(i, paused) ==
    /\ Change
    /\ i \in DOMAIN tasks_
    /\ tasks_' = [tasks_ EXCEPT ![i].paused = paused]
    /\ UNCHANGED <<disk, adding, saved, shifted, torn, failed, threads, manager, lives>>

\* start(): some threads are created and joined; with none it returns at once.
start(ws) ==
    /\ Change
    /\ manager' = IF ws = {} THEN "up" ELSE "starting"
    /\ worker' = [w \in Workers |-> IF w \in ws THEN "lock" ELSE "none"]
    /\ UNCHANGED <<store, mutex_, lives>>

\* get_next_task() locks ...
get_next_task(w) ==
    /\ manager = "starting"
    /\ worker[w] = "lock"
    /\ mutex_ = Nobody
    /\ mutex_' = w
    /\ worker' = [worker EXCEPT ![w] = "locked"]
    /\ UNCHANGED <<store, manager, changes, lives>>

EndProcess ==
    /\ manager' = "down"
    /\ worker' = [w \in Workers |-> "none"]
    /\ mutex_' = Nobody
    /\ torn' = (manager = "saving")

\* ... and get_next_task_index() locks again: the thread hangs, or the lock throws in a thread
\* that catches nothing and the process ends.
get_next_task_index(w) ==
    /\ manager = "starting"
    /\ worker[w] = "locked"
    /\ \/ /\ worker' = [worker EXCEPT ![w] = "hung"]
          /\ UNCHANGED <<manager, mutex_, torn>>
       \/ EndProcess
    /\ UNCHANGED <<disk, tasks_, adding, saved, shifted, failed, changes, lives>>

\* Mutant: the lines are appended to the old ones.
save_appends ==
    /\ manager = "up"
    /\ manager' = "saving"
    /\ saved' = 0
    /\ shifted' = FALSE
    /\ UNCHANGED <<disk, tasks_, adding, torn, failed, threads, changes, lives>>

\* The destructor: save_task_list_to_file() empties the file.
save_task_list_to_file ==
    /\ manager = "up"
    /\ manager' = "saving"
    /\ task_file' = <<>> /\ unended' = FALSE
    /\ saved' = 0
    /\ shifted' = FALSE
    /\ UNCHANGED <<tasks_, adding, torn, failed, threads, changes, lives>>

\* Then it writes all tasks, also the removed ones.  After a line that cannot be written the
\* stream takes no other.
save_line ==
    /\ manager = "saving"
    /\ saved < Len(tasks_)
    /\ \/ /\ ~failed \/ saved = 0
          /\ \/ WriteLine(tasks_[saved + 1]) /\ failed' = FALSE
             \/ CutLine(tasks_[saved + 1]) /\ failed' = TRUE
       \/ failed /\ saved # 0 /\ UNCHANGED <<failed, disk>>
    /\ saved' = saved + 1
    /\ UNCHANGED <<tasks_, adding, shifted, torn, threads, manager, changes, lives>>

save_done ==
    /\ manager = "saving"
    /\ saved = Len(tasks_)
    /\ manager' = "down"
    /\ UNCHANGED <<store, threads, changes, lives>>

\* The process is killed, or the destructor cannot open the file and throws.
Kill ==
    /\ manager # "down"
    /\ EndProcess
    /\ UNCHANGED <<disk, tasks_, adding, saved, shifted, failed, changes, lives>>

DownloadNext ==
    \/ Load \/ add_task_pushes \/ save_task_list_to_file \/ save_line \/ save_done \/ Kill
    \/ \E u, p \in Texts : add_task(u, p)
    \/ \E i \in 1..MaxTasks : remove_task(i) \/ \E b \in BOOLEAN : pause_task(i, b)
    \/ \E ws \in SUBSET Workers : start(ws)
    \/ \E w \in Workers : get_next_task(w) \/ get_next_task_index(w)
-----------------------------------------------------------------------------
WellFormed(task) == Len(task.url) = 1 /\ Len(task.filepath) = 1

\* The tasks that the file has to hold: all, or those that the save has got to.
Kept == IF manager = "saving" \/ torn THEN saved ELSE Len(tasks_)

\* The next process gets every task that add_task() has accepted and nobody has removed, in
\* order, also when this one is killed or hangs in start(); a kill in the middle of the
\* destructor costs the tasks after the last line written.  A text that is not one word costs its
\* own task and the ones behind it, until a destructor has written the list again: an odd word
\* that a killed process leaves is put in front of whatever the next one adds.  (Unless a line
\* is not written, or only in part.)
DiskFollowsMemory ==
    ~failed /\ ~shifted =>
        LET found == Parse(task_file)
            live  == {k \in 1..Kept : ~tasks_[k].completed /\ \A i \in 1..k : WellFormed(tasks_[i])}
        IN \E at \in [live -> DOMAIN found] :
              \A k \in live : /\ Line(found[at[k]]) = Line(tasks_[k])
                              /\ \A j \in live : j < k => at[j] < at[k]

\* No task comes into the file twice, or from nowhere, by the two ways of writing it: it holds no
\* more than the list, or than the save has got to, through any number of processes, kills and
\* saves.
NothingComesTwice ==
    (/\ ~failed /\ ~shifted
     /\ \A i \in DOMAIN tasks_ : WellFormed(tasks_[i])
     /\ manager \in {"up", "starting", "saving"} \/ torn)
        => Len(Parse(task_file)) <= Kept

\* What the header says of remove_task(), "delete the download task": the file that a completed
\* save leaves to the next process has no more tasks than were not removed.
RemovedIsGone ==
    (/\ manager = "saving" /\ saved = Len(tasks_) /\ ~failed
     /\ \A i \in DOMAIN tasks_ : WellFormed(tasks_[i]))
        => Len(Parse(task_file)) <= Cardinality({i \in DOMAIN tasks_ : ~tasks_[i].completed})
=============================================================================

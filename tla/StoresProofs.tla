---------------------------- MODULE StoresProofs ----------------------------
(***************************************************************************)
(* Proofs about the two stores, DownloadManager and AchievementList, for   *)
(* any texts, any lengths of the lists and any number of calls, kills and  *)
(* processes.                                                              *)
(***************************************************************************)
EXTENDS MCStores, SequenceTheorems, TLAPS

\* The types of DownloadManager's members and of its file.
Task == [url : Seq(Words), filepath : Seq(Words), completed : BOOLEAN, paused : BOOLEAN]
StoreOK ==
    /\ task_file \in Seq(Words)
    /\ tasks_ \in Seq(Task)
    /\ adding \in Task
    /\ saved \in Nat
    /\ manager \in {"down", "up", "adding", "saving", "starting"}

\* Only a process that has ended has torn its file, a save begins with an empty file, and the
\* file ends with a line unless the disk was full.
SaveOK ==
    /\ torn => manager = "down"
    /\ manager = "saving" => ~shifted /\ (saved = 0 => task_file = <<>> /\ ~unended)
    /\ unended => failed \/ shifted
    /\ manager = "saving" \/ torn => saved <= Len(tasks_)

\* The first k tasks are written in two words each, and the k-th is at its place in the file.
WellFormedTo(k) == \A i \in 1..k : WellFormed(tasks_[i])
Holds(k) == /\ 2 * k <= Len(task_file)
            /\ task_file[2 * k - 1] = Line(tasks_[k])[1]
            /\ task_file[2 * k] = Line(tasks_[k])[2]

\* The tasks kept are in the file ...
KeptIsThere == ~failed /\ ~shifted => \A k \in 1..Kept : WellFormedTo(k) => Holds(k)

\* ... with nothing behind them while a process may write behind them ...
NothingBehind ==
    ~failed /\ ~shifted /\ (manager \in {"up", "starting", "saving"} \/ torn) /\ WellFormedTo(Kept)
        => Len(task_file) = 2 * Kept

\* ... but the line of the task that add_task() has not yet put into the list.
LineBehind ==
    ~failed /\ ~shifted /\ manager = "adding" /\ WellFormedTo(Len(tasks_)) =>
        /\ Len(task_file) = 2 * Len(tasks_) + Len(Line(adding))
        /\ \A j \in 1..Len(Line(adding)) : task_file[2 * Len(tasks_) + j] = Line(adding)[j]

DownloadInv == StoreOK /\ SaveOK /\ KeptIsThere /\ NothingBehind /\ LineBehind

IInv == DownloadInv /\ FileMirrorsList
-----------------------------------------------------------------------------
\* The words of a line.
LEMMA LineWords ==
    ASSUME NEW task \in Task
    PROVE  /\ Line(task) \in Seq(Words)
           /\ Len(Line(task)) \in Nat
           /\ WellFormed(task) => Len(Line(task)) = 2
<1>1. task.url \in Seq(Words) /\ task.filepath \in Seq(Words)
  BY DEF Task
<1>2. Line(task) \in Seq(Words) /\ Len(Line(task)) = Len(task.url) + Len(task.filepath)
  BY <1>1, ConcatProperties DEF Line
<1>3. Len(Line(task)) \in Nat
  BY <1>2, LenProperties
<1>4. WellFormed(task) => Len(Line(task)) = 2
  BY <1>2 DEF WellFormed
<1>5. QED
  BY <1>2, <1>3, <1>4

\* What is written behind a file leaves the words before it alone.
LEMMA WrittenBehind ==
    ASSUME NEW S, NEW f \in Seq(S), NEW l \in Seq(S)
    PROVE  /\ f \o l \in Seq(S)
           /\ Len(f) \in Nat /\ Len(l) \in Nat /\ Len(f \o l) = Len(f) + Len(l)
           /\ \A i \in 1..Len(f) : (f \o l)[i] = f[i]
           /\ \A j \in 1..Len(l) : (f \o l)[Len(f) + j] = l[j]
<1>1. /\ f \o l \in Seq(S) /\ Len(f) \in Nat /\ Len(l) \in Nat
      /\ Len(f \o l) = Len(f) + Len(l)
      /\ \A i \in 1..(Len(f) + Len(l)) : (f \o l)[i] = IF i <= Len(f) THEN f[i] ELSE l[i - Len(f)]
  BY ConcatProperties
<1>2. \A i \in 1..Len(f) : (f \o l)[i] = f[i]
  BY <1>1
<1>3. ASSUME NEW j \in 1..Len(l) PROVE (f \o l)[Len(f) + j] = l[j]
  BY <1>1
<1>4. QED
  BY <1>1, <1>2, <1>3

\* What is written behind a file, in one piece if it ends with a line.
LEMMA BehindWords ==
    ASSUME StoreOK, NEW task, NEW words \in Seq(Words)
    PROVE  /\ Behind(task, words) \in Seq(Words)
           /\ ~unended => Behind(task, words) = task_file \o words
<1>1. task_file \o words \in Seq(Words)
  BY ConcatProperties DEF StoreOK
<1>2. ASSUME task_file # <<>>, words # <<>>
      PROVE  SubSeq(task_file, 1, Len(task_file) - 1) \o <<Garbled>> \o Tail(words) \in Seq(Words)
  <2>1. PICK s \in Seq(Words) : s = SubSeq(task_file, 1, Len(task_file) - 1)
    <3>0. Len(task_file) \in Nat \ {0}
      BY <1>2, EmptySeq, LenProperties DEF StoreOK
    <3>1. PICK n \in 0..Len(task_file) : n = Len(task_file) - 1
      BY <3>0
    <3>2. SubSeq(task_file, 1, n) \in Seq(Words)
      BY <3>1, LenProperties DEF StoreOK
    <3>3. QED
      BY <3>1, <3>2
  <2>2. PICK t \in Seq(Words) : t = Tail(words)
    BY <1>2, HeadTailProperties
  <2>3. <<Garbled>> \in Seq(Words)
    BY DEF Words
  <2>4. s \o <<Garbled>> \in Seq(Words)
    BY <2>3, ConcatProperties
  <2>5. s \o <<Garbled>> \o t \in Seq(Words)
    BY <2>4, ConcatProperties
  <2>6. QED
    BY <2>1, <2>2, <2>5
<1>3. QED
  BY <1>1, <1>2 DEF Behind

\* A line that is cut leaves words, too.
LEMMA CutWords ==
    ASSUME StoreOK, NEW task \in Task, CutLine(task)
    PROVE  task_file' \in Seq(Words)
<1>1. PICK line \in Seq(Words) : line = Line(task)
  BY LineWords
<1>2. CASE UNCHANGED disk
  BY <1>2 DEF disk, StoreOK
<1>3. ASSUME NEW n \in 1..Len(line),
             \/ task_file' = Behind(task, SubSeq(line, 1, n))
             \/ task_file' = Behind(task, Append(SubSeq(line, 1, n - 1), Garbled))
      PROVE  task_file' \in Seq(Words)
  <2>1. SubSeq(line, 1, n) \in Seq(Words) /\ SubSeq(line, 1, n - 1) \in Seq(Words)
    BY <1>3, LenProperties
  <2>2. Garbled \in Words
    BY DEF Words
  <2>3. Append(SubSeq(line, 1, n - 1), Garbled) \in Seq(Words)
    BY <2>1, <2>2, AppendProperties
  <2>4. QED
    BY <1>3, <2>1, <2>3, BehindWords
<1>4. QED
  BY <1>1, <1>2, <1>3 DEF CutLine

\* What the constructor makes of a file: well-formed tasks, each of the two words at its place.
LEMMA ParseTasks ==
    ASSUME NEW f \in Seq(Words)
    PROVE  /\ Parse(f) \in Seq(Task)
           /\ Len(Parse(f)) = Len(f) \div 2
           /\ \A k \in 1..(Len(f) \div 2) :
                 /\ 2 * k \in 1..Len(f) /\ 2 * k - 1 \in 1..Len(f)
                 /\ WellFormed(Parse(f)[k])
                 /\ Line(Parse(f)[k]) = <<f[2 * k - 1], f[2 * k]>>
<1> DEFINE n == Len(f) \div 2
<1>1. Len(f) \in Nat /\ n \in Nat /\ 2 * n <= Len(f)
  OBVIOUS
<1>2. ASSUME NEW k \in 1..n
      PROVE  /\ 2 * k \in 1..Len(f) /\ 2 * k - 1 \in 1..Len(f)
             /\ Parse(f)[k] \in Task
             /\ WellFormed(Parse(f)[k])
             /\ Line(Parse(f)[k]) = <<f[2 * k - 1], f[2 * k]>>
  <2>1. 2 * k \in 1..Len(f) /\ 2 * k - 1 \in 1..Len(f)
    BY <1>1
  <2>2. PICK u \in Words, p \in Words : u = f[2 * k - 1] /\ p = f[2 * k]
    BY <2>1
  <2>3. Parse(f)[k] = DownloadTask(<<u>>, <<p>>)
    BY <2>2 DEF Parse
  <2>4. DownloadTask(<<u>>, <<p>>) \in Task
    BY DEF DownloadTask, Task
  <2>5. Parse(f)[k].url = <<u>> /\ Parse(f)[k].filepath = <<p>>
    BY <2>3 DEF DownloadTask
  <2>6. <<u>> \o <<p>> = <<u, p>>
    <3>1. <<u>> \in Seq(Words) /\ <<p>> \in Seq(Words)
      OBVIOUS
    <3>2. PICK s \in Seq(Words), t \in Seq(Words) : s = <<u>> /\ t = <<p>>
      BY <3>1, Zenon
    <3>3. PICK r : r = s \o t
      OBVIOUS
    <3>4. r \in Seq(Words) /\ Len(r) = 2 /\ r[1] = s[1] /\ r[1 + 1] = t[1]
      BY <3>2, <3>3, WrittenBehind
    <3>5. r = <<r[1], r[2]>>
      BY <3>4
    <3>6. r[1] = u /\ r[2] = p
      BY <3>2, <3>4
    <3>7. QED
      BY <3>2, <3>3, <3>5, <3>6, Zenon
  <2>7. QED
    BY <2>1, <2>2, <2>3, <2>4, <2>5, <2>6 DEF WellFormed, Line
<1> HIDE DEF n
<1>3. Parse(f) = [k \in 1..n |-> Parse(f)[k]]
  BY DEF Parse, n
<1>4. Parse(f) \in Seq(Task) /\ Len(Parse(f)) = n
  BY <1>1, <1>2, <1>3
<1>5. QED
  BY <1>2, <1>4 DEF n

\* The properties follow from the invariant.
LEMMA InvImplies == DownloadInv => DiskFollowsMemory /\ NothingComesTwice
<1> SUFFICES ASSUME DownloadInv, ~failed, ~shifted
             PROVE  DiskFollowsMemory /\ NothingComesTwice
  BY DEF DiskFollowsMemory, NothingComesTwice
<1>1. Len(tasks_) \in Nat /\ Kept \in Nat /\ Kept <= Len(tasks_)
  BY DEF DownloadInv, StoreOK, SaveOK, Kept
<1>2. ASSUME NEW k \in 1..Kept, \A i \in 1..k : WellFormed(tasks_[i])
      PROVE  k \in DOMAIN Parse(task_file) /\ Line(Parse(task_file)[k]) = Line(tasks_[k])
  <2>1. Holds(k)
    BY <1>2 DEF DownloadInv, KeptIsThere, WellFormedTo
  <2>2. k \in 1..(Len(task_file) \div 2)
    BY <2>1, <1>1, LenProperties DEF Holds, DownloadInv, StoreOK
  <2>3. Line(Parse(task_file)[k]) = <<task_file[2 * k - 1], task_file[2 * k]>>
    BY <2>2, ParseTasks DEF DownloadInv, StoreOK
  <2>4. Line(tasks_[k]) \in Seq(Words) /\ Len(Line(tasks_[k])) = 2
    <3>1. tasks_[k] \in Task /\ WellFormed(tasks_[k])
      BY <1>1, <1>2 DEF DownloadInv, StoreOK
    <3>2. QED
      BY <3>1, LineWords
  <2>5. Line(tasks_[k]) = <<Line(tasks_[k])[1], Line(tasks_[k])[2]>>
    BY <2>4
  <2>6. k \in DOMAIN Parse(task_file)
    BY <2>2 DEF Parse
  <2>7. QED
    BY <2>1, <2>3, <2>5, <2>6 DEF Holds
<1>3. DiskFollowsMemory
  <2> DEFINE found == Parse(task_file)
             live == {k \in 1..Kept : ~tasks_[k].completed /\ \A i \in 1..k : WellFormed(tasks_[i])}
             at == [k \in live |-> k]
  <2>1. \A k \in live : k \in DOMAIN found /\ Line(found[k]) = Line(tasks_[k])
    BY <1>2
  <2>2. at \in [live -> DOMAIN found] /\ \A k \in live : at[k] = k
    BY <2>1
  <2>3. \A k \in live : /\ Line(found[at[k]]) = Line(tasks_[k])
                        /\ \A j \in live : j < k => at[j] < at[k]
    BY <2>1, <2>2
  <2> HIDE DEF at, live, found
  <2>4. \E a \in [live -> DOMAIN found] :
           \A k \in live : /\ Line(found[a[k]]) = Line(tasks_[k])
                           /\ \A j \in live : j < k => a[j] < a[k]
    BY <2>2, <2>3
  <2>5. QED
    BY <2>4 DEF DiskFollowsMemory, live, found
<1>4. ASSUME \A i \in DOMAIN tasks_ : WellFormed(tasks_[i]),
             manager \in {"up", "starting", "saving"} \/ torn
      PROVE  Len(Parse(task_file)) <= Kept
  <2>1. WellFormedTo(Kept)
    BY <1>1, <1>4 DEF WellFormedTo, DownloadInv, StoreOK
  <2>2. Len(task_file) = 2 * Kept
    BY <1>4, <2>1 DEF DownloadInv, NothingBehind
  <2>3. QED
    BY <1>1, <2>2, ParseTasks DEF DownloadInv, StoreOK
<1>5. QED
  BY <1>3, <1>4 DEF NothingComesTwice

\* A mark on a task.
LEMMA MarkedTask ==
    ASSUME NEW task \in Task, NEW b \in BOOLEAN
    PROVE  [task EXCEPT !.completed = b] \in Task /\ [task EXCEPT !.paused = b] \in Task
  BY DEF Task

\* Steps that leave the file and the texts of the tasks alone.
LEMMA SameFile ==
    ASSUME DownloadInv, UNCHANGED <<task_file, adding, failed, shifted>>,
           Len(tasks_') = Len(tasks_),
           \A i \in 1..Len(tasks_) :
               tasks_'[i].url = tasks_[i].url /\ tasks_'[i].filepath = tasks_[i].filepath,
           Kept' = Kept,
           manager' \in {"up", "starting", "saving"} \/ torn' =>
               manager \in {"up", "starting", "saving"} \/ torn,
           manager' = "adding" => manager = "adding"
    PROVE  KeptIsThere' /\ NothingBehind' /\ LineBehind'
<1>1. Len(tasks_) \in Nat /\ Kept \in Nat /\ Kept <= Len(tasks_)
  BY DEF DownloadInv, StoreOK, SaveOK, Kept
<1>2. \A i \in 1..Len(tasks_) : /\ WellFormed(tasks_'[i]) <=> WellFormed(tasks_[i])
                                /\ Line(tasks_'[i]) = Line(tasks_[i])
  BY DEF WellFormed, Line
<1>3. \A k \in 0..Len(tasks_) : WellFormedTo(k)' <=> WellFormedTo(k)
  BY <1>1, <1>2 DEF WellFormedTo
<1>4. \A k \in 1..Len(tasks_) : Holds(k)' <=> Holds(k)
  BY <1>2 DEF Holds
<1>5. KeptIsThere'
  BY <1>1, <1>3, <1>4 DEF DownloadInv, KeptIsThere
<1>6. NothingBehind'
  <2>1. WellFormedTo(Kept)' <=> WellFormedTo(Kept)
    BY <1>1, <1>2 DEF WellFormedTo
  <2>2. QED
    BY <2>1 DEF DownloadInv, NothingBehind
<1>7. LineBehind'
  <2>1. WellFormedTo(Len(tasks_))' <=> WellFormedTo(Len(tasks_))
    BY <1>1, <1>2 DEF WellFormedTo
  <2>2. QED
    BY <2>1 DEF DownloadInv, LineBehind
<1>8. QED
  BY <1>5, <1>6, <1>7

\* A step that appends words to the file leaves the tasks that it holds at their places.
LEMMA HeldStays ==
    ASSUME StoreOK, NEW l \in Seq(Words), task_file' = task_file \o l, UNCHANGED tasks_,
           NEW k \in Nat \ {0}, Holds(k)
    PROVE  Holds(k)'
<1>1. /\ Len(task_file) \in Nat /\ Len(l) \in Nat /\ Len(task_file') = Len(task_file) + Len(l)
      /\ \A i \in 1..Len(task_file) : task_file'[i] = task_file[i]
  BY WrittenBehind DEF StoreOK
<1>2. 2 * k \in 1..Len(task_file) /\ 2 * k - 1 \in 1..Len(task_file)
  BY <1>1 DEF Holds
<1>3. QED
  BY <1>1, <1>2 DEF Holds

\* The constructor reads what the file holds.
LEMMA LoadInv ==
    ASSUME DownloadInv, Load
    PROVE  DownloadInv'
<1>1. task_file \in Seq(Words) /\ UNCHANGED task_file /\ tasks_' = Parse(task_file)
  BY DEF DownloadInv, StoreOK, Load, disk
<1>2. /\ tasks_' \in Seq(Task)
      /\ Len(tasks_') = Len(task_file) \div 2
      /\ \A k \in 1..(Len(task_file) \div 2) :
            /\ 2 * k \in 1..Len(task_file) /\ 2 * k - 1 \in 1..Len(task_file)
            /\ Line(tasks_'[k]) = <<task_file[2 * k - 1], task_file[2 * k]>>
  BY <1>1, ParseTasks
<1>3. Kept' = Len(tasks_')
  BY DEF Load, Kept
<1>4. StoreOK' /\ SaveOK'
  <2>1. unended' => shifted'
    BY Zenon DEF Load, disk
  <2>2. QED
    BY <1>1, <1>2, <2>1 DEF DownloadInv, StoreOK, SaveOK, Load
<1>5. KeptIsThere'
  BY <1>1, <1>2, <1>3 DEF KeptIsThere, Holds
<1>6. NothingBehind'
  <2>1. Len(task_file) \in Nat
    BY <1>1
  <2>2. ~shifted' => Len(task_file) % 2 # 1
    BY DEF Load
  <2>3. Len(task_file) % 2 # 1 => Len(task_file) = 2 * (Len(task_file) \div 2)
    BY <2>1
  <2>4. QED
    BY <1>1, <1>2, <1>3, <2>2, <2>3 DEF NothingBehind
<1>7. LineBehind'
  BY DEF Load, LineBehind
<1>8. QED
  BY <1>4, <1>5, <1>6, <1>7 DEF DownloadInv

\* add_task() appends the line of the task ...
LEMMA AddInv ==
    ASSUME DownloadInv, NEW u \in Texts, NEW p \in Texts, add_task(u, p)
    PROVE  DownloadInv'
<1>1. /\ manager = "up" /\ manager' = "adding" /\ torn' = torn /\ ~torn
      /\ UNCHANGED <<tasks_, saved, shifted>>
      /\ adding' = DownloadTask(u, p)
  BY DEF add_task, Change, DownloadInv, SaveOK
<1>2. adding' \in Task
  BY <1>1, TextsAssumption DEF DownloadTask, Task
<1>3. Line(adding') \in Seq(Words) /\ Len(Line(adding')) \in Nat
  BY <1>2, LineWords
<1>4. Kept = Len(tasks_) /\ Kept' = Len(tasks_)
  BY <1>1 DEF Kept
<1>5. CASE ~unended /\ WriteLine(adding') /\ UNCHANGED failed
  <2>0. task_file' = task_file \o Line(adding') /\ unended' = FALSE
    BY <1>3, <1>5, BehindWords DEF WriteLine, DownloadInv
  <2>1. PICK l \in Seq(Words) : l = Line(adding')
    BY <1>3
  <2>2. /\ task_file' \in Seq(Words)
        /\ Len(task_file') = Len(task_file) + Len(l)
        /\ \A j \in 1..Len(l) : task_file'[Len(task_file) + j] = l[j]
    BY <2>0, <2>1, WrittenBehind DEF DownloadInv, StoreOK
  <2>3. StoreOK' /\ SaveOK'
    BY <1>1, <1>2, <2>0, <2>2 DEF DownloadInv, StoreOK, SaveOK
  <2>4. KeptIsThere'
    <3>1. ASSUME NEW k \in 1..Len(tasks_), Holds(k) PROVE Holds(k)'
      <4>1. k \in Nat \ {0}
        BY DEF DownloadInv, StoreOK
      <4>2. task_file' = task_file \o l /\ UNCHANGED tasks_ /\ StoreOK
        BY <1>1, <2>0, <2>1, Zenon DEF DownloadInv
      <4>3. QED
        BY <3>1, <4>1, <4>2, HeldStays
    <3>2. \A k \in 1..Len(tasks_) : WellFormedTo(k)' <=> WellFormedTo(k)
      BY <1>1 DEF WellFormedTo
    <3>3. QED
      BY <1>1, <1>4, <1>5, <3>1, <3>2 DEF DownloadInv, KeptIsThere
  <2>5. LineBehind'
    <3>1. WellFormedTo(Len(tasks_))' <=> WellFormedTo(Kept)
      BY <1>1, <1>4 DEF WellFormedTo
    <3>2. QED
      BY <1>1, <1>4, <1>5, <2>1, <2>2, <3>1 DEF DownloadInv, NothingBehind, LineBehind
  <2>6. QED
    BY <1>1, <2>3, <2>4, <2>5 DEF DownloadInv, NothingBehind
<1>6. CASE unended /\ WriteLine(adding') /\ UNCHANGED failed
  <2>1. task_file' \in Seq(Words) /\ unended' = FALSE
    BY <1>3, <1>6, BehindWords DEF WriteLine, DownloadInv
  <2>2. failed' \/ shifted'
    BY <1>1, <1>6 DEF DownloadInv, SaveOK
  <2>3. QED
    BY <1>1, <1>2, <2>1, <2>2
    DEF DownloadInv, StoreOK, SaveOK, KeptIsThere, NothingBehind, LineBehind
<1>7. CASE CutLine(adding') /\ failed' = TRUE
  <2>1. task_file' \in Seq(Words)
    BY <1>2, <1>7, CutWords DEF DownloadInv
  <2>2. QED
    BY <1>1, <1>2, <1>7, <2>1
    DEF DownloadInv, StoreOK, SaveOK, KeptIsThere, NothingBehind, LineBehind
<1>8. QED
  BY <1>5, <1>6, <1>7 DEF add_task

\* ... and puts the task into the list.
LEMMA PushInv ==
    ASSUME DownloadInv, add_task_pushes
    PROVE  DownloadInv'
<1>1. PICK n \in Nat : n = Len(tasks_)
  BY DEF DownloadInv, StoreOK
<1>2. /\ manager = "adding" /\ manager' = "up" /\ torn' = torn /\ ~torn
      /\ UNCHANGED <<task_file, unended, adding, saved, shifted, failed>>
      /\ tasks_' = Append(tasks_, adding)
  BY DEF add_task_pushes, disk, DownloadInv, SaveOK
<1>3. /\ tasks_' \in Seq(Task) /\ Len(tasks_') = n + 1
      /\ \A i \in 1..n : tasks_'[i] = tasks_[i]
      /\ tasks_'[n + 1] = adding
  BY <1>1, <1>2 DEF DownloadInv, StoreOK
<1>4. Kept = n /\ Kept' = n + 1
  BY <1>1, <1>2, <1>3 DEF Kept
<1>5. \A k \in 1..n : (WellFormedTo(k)' <=> WellFormedTo(k)) /\ (Holds(k)' <=> Holds(k))
  BY <1>2, <1>3 DEF WellFormedTo, Holds
<1>6. StoreOK' /\ SaveOK'
  BY <1>2, <1>3 DEF DownloadInv, StoreOK, SaveOK
<1>7. ASSUME ~failed, ~shifted, WellFormedTo(n + 1)'
      PROVE  Len(task_file) = 2 * (n + 1) /\ Holds(n + 1)'
  <2>1. WellFormedTo(n) /\ WellFormed(adding)
    BY <1>3, <1>7 DEF WellFormedTo
  <2>2. Len(Line(adding)) = 2
    BY <2>1, LineWords DEF DownloadInv, StoreOK
  <2>3. /\ Len(task_file) = 2 * n + 2
        /\ task_file[2 * n + 1] = Line(adding)[1] /\ task_file[2 * n + 2] = Line(adding)[2]
    BY <1>1, <1>2, <1>7, <2>1, <2>2 DEF DownloadInv, LineBehind
  <2>4. 2 * (n + 1) = 2 * n + 2 /\ 2 * (n + 1) - 1 = 2 * n + 1
    OBVIOUS
  <2>5. QED
    BY <1>2, <1>3, <2>3, <2>4 DEF Holds
<1>8. KeptIsThere'
  <2>1. ASSUME ~failed, ~shifted, NEW k \in 1..(n + 1), WellFormedTo(k)' PROVE Holds(k)'
    <3>1. CASE k = n + 1
      BY <1>7, <2>1, <3>1
    <3>2. CASE k \in 1..n
      BY <1>4, <1>5, <2>1, <3>2 DEF DownloadInv, KeptIsThere
    <3>3. QED
      BY <2>1, <3>1, <3>2
  <2>2. QED
    BY <1>2, <1>4, <2>1 DEF KeptIsThere
<1>9. NothingBehind'
  BY <1>2, <1>4, <1>7 DEF NothingBehind, WellFormedTo
<1>10. QED
  BY <1>2, <1>6, <1>8, <1>9 DEF DownloadInv, LineBehind

\* The destructor empties the file ...
LEMMA SaveInv ==
    ASSUME DownloadInv, save_task_list_to_file
    PROVE  DownloadInv'
<1>1. Kept' = 0 /\ task_file' = <<>>
  BY DEF save_task_list_to_file, Kept
<1>2. StoreOK' /\ SaveOK'
  BY DEF DownloadInv, StoreOK, SaveOK, save_task_list_to_file
<1>3. KeptIsThere' /\ NothingBehind'
  BY <1>1 DEF KeptIsThere, NothingBehind
<1>4. QED
  BY <1>2, <1>3 DEF DownloadInv, LineBehind, save_task_list_to_file

\* ... and writes the lines one by one.
LEMMA SaveLineInv ==
    ASSUME DownloadInv, save_line
    PROVE  DownloadInv'
<1>1. PICK n \in Nat : n = saved
  BY DEF DownloadInv, StoreOK
<1>2. /\ manager = "saving" /\ manager' = "saving" /\ n < Len(tasks_) /\ saved' = n + 1
      /\ UNCHANGED <<tasks_, adding, shifted, torn>> /\ ~torn
  BY <1>1 DEF save_line, DownloadInv, SaveOK
<1>3. Kept = n /\ Kept' = n + 1
  BY <1>1, <1>2 DEF Kept
<1>4. tasks_[n + 1] \in Task
  BY <1>1, <1>2 DEF DownloadInv, StoreOK
<1>5. PICK l \in Seq(Words) : l = Line(tasks_[n + 1])
  BY <1>4, LineWords
<1>6. CASE (~failed \/ saved = 0) /\ WriteLine(tasks_[n + 1]) /\ failed' = FALSE
  <2>0. task_file' = task_file \o l /\ unended' = FALSE
    <3>1. ~unended
      BY <1>1, <1>2, <1>6 DEF DownloadInv, SaveOK
    <3>2. QED
      BY <1>5, <1>6, <3>1, BehindWords DEF WriteLine, DownloadInv
  <2>1. /\ \A k \in 1..n : WellFormedTo(k) => Holds(k)
        /\ WellFormedTo(n) => Len(task_file) = 2 * n
    <3>1. CASE n = 0
      BY <1>1, <1>2, <3>1 DEF DownloadInv, SaveOK
    <3>2. CASE ~failed
      BY <1>2, <1>3, <3>2 DEF DownloadInv, SaveOK, KeptIsThere, NothingBehind
    <3>3. QED
      BY <1>1, <1>6, <3>1, <3>2
  <2>2. /\ task_file' \in Seq(Words)
        /\ Len(task_file) \in Nat /\ Len(task_file') = Len(task_file) + Len(l)
        /\ \A j \in 1..Len(l) : task_file'[Len(task_file) + j] = l[j]
    BY <2>0, WrittenBehind DEF DownloadInv, StoreOK
  <2>3. StoreOK' /\ SaveOK'
    BY <1>1, <1>2, <2>0, <2>2 DEF DownloadInv, StoreOK, SaveOK
  <2>4. \A k \in 1..(n + 1) : WellFormedTo(k)' <=> WellFormedTo(k)
    BY <1>2 DEF WellFormedTo
  <2>5. ASSUME WellFormedTo(n + 1)
        PROVE  Len(task_file') = 2 * (n + 1) /\ Holds(n + 1)'
    <3>1. WellFormedTo(n) /\ WellFormed(tasks_[n + 1])
      BY <2>5 DEF WellFormedTo
    <3>2. Len(l) = 2
      BY <1>4, <1>5, <3>1, LineWords
    <3>3. /\ Len(task_file) = 2 * n /\ Len(task_file') = 2 * n + 2
          /\ task_file'[2 * n + 1] = l[1] /\ task_file'[2 * n + 2] = l[2]
      BY <2>1, <2>2, <3>1, <3>2
    <3>4. 2 * (n + 1) = 2 * n + 2 /\ 2 * (n + 1) - 1 = 2 * n + 1
      OBVIOUS
    <3>5. QED
      BY <1>2, <1>5, <3>3, <3>4 DEF Holds
  <2>6. KeptIsThere'
    <3>1. ASSUME NEW k \in 1..(n + 1), WellFormedTo(k) PROVE Holds(k)'
      <4>1. CASE k = n + 1
        BY <2>5, <3>1, <4>1
      <4>2. CASE k \in 1..n
        BY <1>2, <2>0, <2>1, <3>1, <4>2, HeldStays DEF DownloadInv
      <4>3. QED
        BY <3>1, <4>1, <4>2
    <3>2. QED
      BY <1>3, <2>4, <3>1 DEF KeptIsThere
  <2>7. NothingBehind'
    <3>1. WellFormedTo(Kept)' => WellFormedTo(n + 1)
      BY <1>2, <1>3 DEF WellFormedTo
    <3>2. QED
      BY <1>3, <2>5, <3>1 DEF NothingBehind
  <2>8. QED
    BY <1>2, <2>3, <2>6, <2>7 DEF DownloadInv, LineBehind
<1>7. CASE CutLine(tasks_[n + 1]) /\ failed' = TRUE
  <2>1. task_file' \in Seq(Words)
    BY <1>4, <1>7, CutWords DEF DownloadInv
  <2>2. QED
    BY <1>1, <1>2, <1>7, <2>1
    DEF DownloadInv, StoreOK, SaveOK, KeptIsThere, NothingBehind, LineBehind
<1>8. CASE failed /\ UNCHANGED <<failed, disk>>
  BY <1>1, <1>2, <1>8
  DEF DownloadInv, StoreOK, SaveOK, KeptIsThere, NothingBehind, LineBehind, disk
<1>9. QED
  BY <1>1, <1>6, <1>7, <1>8 DEF save_line

\* The other steps do not touch the file.
LEMMA OtherInv ==
    ASSUME DownloadInv,
           \/ save_done \/ Kill
           \/ \E i \in 1..MaxTasks : remove_task(i) \/ \E b \in BOOLEAN : pause_task(i, b)
           \/ \E ws \in SUBSET Workers : start(ws)
           \/ \E w \in Workers : get_next_task(w) \/ get_next_task_index(w)
           \/ UNCHANGED downloadVars
    PROVE  DownloadInv'
<1> USE DEF store, disk, threads
<1>1. Len(tasks_) \in Nat
  BY DEF DownloadInv, StoreOK
<1>2. CASE save_done
  BY <1>1, <1>2, SameFile DEF save_done, DownloadInv, StoreOK, SaveOK, Kept
<1>3. CASE Kill
  BY <1>1, <1>3, SameFile DEF Kill, EndProcess, DownloadInv, StoreOK, SaveOK, Kept
<1>4. ASSUME NEW i \in 1..MaxTasks, remove_task(i) PROVE DownloadInv'
  <2>1. /\ i \in 1..Len(tasks_) /\ tasks_' = [tasks_ EXCEPT ![i].completed = TRUE]
        /\ UNCHANGED <<task_file, unended, adding, saved, shifted, torn, failed, manager>>
    BY <1>4 DEF remove_task, Change, DownloadInv, StoreOK
  <2>2. tasks_' \in Seq(Task) /\ Len(tasks_') = Len(tasks_)
    <3>1. PICK task \in Task : task = [tasks_[i] EXCEPT !.completed = TRUE]
      <4>1. tasks_[i] \in Task
        BY <2>1 DEF DownloadInv, StoreOK
      <4>2. QED
        BY <4>1, MarkedTask, Zenon
    <3>2. tasks_' = [tasks_ EXCEPT ![i] = task]
      BY <2>1, <3>1
    <3>3. i \in 1..Len(tasks_) /\ tasks_ \in Seq(Task)
      BY <2>1 DEF DownloadInv, StoreOK
    <3>4. QED
      BY <3>2, <3>3, ExceptSeq
  <2>3. \A j \in 1..Len(tasks_) :
            tasks_'[j].url = tasks_[j].url /\ tasks_'[j].filepath = tasks_[j].filepath
    BY <2>1 DEF DownloadInv, StoreOK, Task
  <2>4. QED
    BY <1>1, <2>1, <2>2, <2>3, SameFile DEF DownloadInv, StoreOK, SaveOK, Kept
<1>5. ASSUME NEW i \in 1..MaxTasks, NEW b \in BOOLEAN, pause_task(i, b) PROVE DownloadInv'
  <2>1. /\ i \in 1..Len(tasks_) /\ tasks_' = [tasks_ EXCEPT ![i].paused = b]
        /\ UNCHANGED <<task_file, unended, adding, saved, shifted, torn, failed, manager>>
    BY <1>5 DEF pause_task, Change, DownloadInv, StoreOK
  <2>2. tasks_' \in Seq(Task) /\ Len(tasks_') = Len(tasks_)
    <3>1. PICK task \in Task : task = [tasks_[i] EXCEPT !.paused = b]
      <4>1. tasks_[i] \in Task
        BY <2>1 DEF DownloadInv, StoreOK
      <4>2. QED
        BY <4>1, MarkedTask, Zenon
    <3>2. tasks_' = [tasks_ EXCEPT ![i] = task]
      BY <2>1, <3>1
    <3>3. i \in 1..Len(tasks_) /\ tasks_ \in Seq(Task)
      BY <2>1 DEF DownloadInv, StoreOK
    <3>4. QED
      BY <3>2, <3>3, ExceptSeq
  <2>3. \A j \in 1..Len(tasks_) :
            tasks_'[j].url = tasks_[j].url /\ tasks_'[j].filepath = tasks_[j].filepath
    BY <2>1 DEF DownloadInv, StoreOK, Task
  <2>4. QED
    BY <1>1, <2>1, <2>2, <2>3, SameFile DEF DownloadInv, StoreOK, SaveOK, Kept
<1>6. ASSUME NEW ws \in SUBSET Workers, start(ws) PROVE DownloadInv'
  BY <1>1, <1>6, SameFile DEF start, Change, DownloadInv, StoreOK, SaveOK, Kept
<1>7. ASSUME NEW w \in Workers, get_next_task(w) PROVE DownloadInv'
  BY <1>1, <1>7, SameFile DEF get_next_task, DownloadInv, StoreOK, SaveOK, Kept
<1>8. ASSUME NEW w \in Workers, get_next_task_index(w) PROVE DownloadInv'
  <2>1. /\ manager = "starting" /\ manager' \in {"starting", "down"} /\ ~torn /\ ~torn'
        /\ UNCHANGED <<task_file, unended, tasks_, adding, saved, shifted, failed>>
    <3>1. manager = "starting" /\ ~torn /\ UNCHANGED <<task_file, unended, tasks_, adding, saved, shifted, failed>>
      BY <1>8 DEF get_next_task_index, DownloadInv, SaveOK
    <3>2. (manager' = manager /\ torn' = torn) \/ (manager' = "down" /\ torn' = (manager = "saving"))
      BY <1>8, Zenon DEF get_next_task_index, EndProcess
    <3>3. manager' \in {"starting", "down"} /\ ~torn'
      <4>1. CASE manager' = manager /\ torn' = torn
        BY <3>1, <4>1
      <4>2. CASE manager' = "down" /\ torn' = (manager = "saving")
        BY <3>1, <4>2
      <4>3. QED
        BY <3>2, <4>1, <4>2
    <3>4. QED
      BY <3>1, <3>3
  <2>2. QED
    BY <1>1, <2>1, SameFile DEF DownloadInv, StoreOK, SaveOK, Kept
<1>9. CASE UNCHANGED downloadVars
  BY <1>1, <1>9, SameFile DEF downloadVars, DownloadInv, StoreOK, SaveOK, Kept
<1>10. QED
  BY <1>2, <1>3, <1>4, <1>5, <1>6, <1>7, <1>8, <1>9

\* The file of the achievements: FileMirrorsList is inductive as it stands.
LEMMA ListInv ==
    ASSUME FileMirrorsList, ListNext \/ UNCHANGED listVars
    PROVE  FileMirrorsList'
<1> USE DEF FileMirrorsList
<1>1. CASE readFromFile
  BY <1>1 DEF readFromFile
<1>2. CASE openFile
  BY <1>2 DEF openFile
<1>3. CASE dump
  <2>1. /\ to_json(m_achievements) # Torn
        /\ from_json(to_json(m_achievements)) = m_achievements
    BY DEF to_json, from_json, Torn
  <2>2. Encodable' <=> Encodable
    BY <1>3 DEF dump, Encodable
  <2>3. QED
    BY <1>3, <2>1, <2>2 DEF dump
<1>4. CASE KillList
  BY <1>4 DEF KillList, Encodable
<1>5. ASSUME NEW a \in Achievements, addAchievement(a) PROVE FileMirrorsList'
  BY <1>5 DEF addAchievement, Changed
<1>6. ASSUME NEW n \in AchievementNames, removeAchievementByName(n) PROVE FileMirrorsList'
  BY <1>6 DEF removeAchievementByName, Changed
<1>7. ASSUME NEW n \in AchievementNames, completeAchievementByName(n) PROVE FileMirrorsList'
  BY <1>7 DEF completeAchievementByName, Changed
<1>8. ASSUME NEW n \in AchievementNames, NEW a \in Achievements, modifyAchievementByName(n, a)
      PROVE  FileMirrorsList'
  BY <1>8 DEF modifyAchievementByName, Changed
<1>9. CASE UNCHANGED listVars
  BY <1>9 DEF listVars, Encodable
<1>10. QED
  BY <1>1, <1>2, <1>3, <1>4, <1>5, <1>6, <1>7, <1>8, <1>9 DEF ListNext
-----------------------------------------------------------------------------
\* Initially the invariant holds.
LEMMA InitInv == Init => IInv
<1> SUFFICES ASSUME Init PROVE IInv
  OBVIOUS
<1>1. StoreOK /\ SaveOK
  BY DEF Init, DownloadInit, StoreOK, SaveOK, DownloadTask, Task
<1>2. Kept = 0
  BY DEF Init, DownloadInit, Kept
<1>3. KeptIsThere /\ NothingBehind /\ LineBehind
  BY <1>2 DEF Init, DownloadInit, KeptIsThere, NothingBehind, LineBehind
<1>4. FileMirrorsList
  BY DEF Init, ListInit, FileMirrorsList, to_json, from_json, Torn
<1>5. QED
  BY <1>1, <1>3, <1>4 DEF IInv, DownloadInv

\* The invariant is inductive; a step changes one of the stores.
LEMMA NextInv == IInv /\ [Next]_vars => IInv'
<1> SUFFICES ASSUME IInv, [Next]_vars PROVE IInv'
  OBVIOUS
<1>1. ASSUME DownloadNext \/ UNCHANGED downloadVars PROVE DownloadInv'
  BY <1>1, LoadInv, AddInv, PushInv, SaveInv, SaveLineInv, OtherInv DEF IInv, DownloadNext
<1>2. ASSUME ListNext \/ UNCHANGED listVars PROVE FileMirrorsList'
  BY <1>2, ListInv DEF IInv
<1>3. /\ DownloadNext \/ UNCHANGED downloadVars
      /\ ListNext \/ UNCHANGED listVars
  BY DEF Next, vars
<1>4. QED
  BY <1>1, <1>2, <1>3 DEF IInv

\* The next process finds every task that add_task() accepted and remove_task() left alone, in
\* order, whenever this one is killed: what the constructor reads, add_task() appends and the
\* destructor writes agree.
THEOREM TasksSurvive == Spec => []DiskFollowsMemory
<1>1. IInv => DiskFollowsMemory
  BY InvImplies DEF IInv
<1>2. IInv /\ [Next]_vars => IInv'
  BY NextInv
<1>3. QED
  BY <1>1, <1>2, InitInv, PTL DEF Spec

\* add_task() and the destructor together write no task twice.
THEOREM NoTaskTwice == Spec => []NothingComesTwice
<1>1. IInv => NothingComesTwice
  BY InvImplies DEF IInv
<1>2. IInv /\ [Next]_vars => IInv'
  BY NextInv
<1>3. QED
  BY <1>1, <1>2, InitInv, PTL DEF Spec

\* After every completed writeToFile() the next process reads exactly the list of this one.
THEOREM AchievementsSurvive == Spec => []FileMirrorsList
<1>1. IInv => FileMirrorsList
  BY DEF IInv
<1>2. IInv /\ [Next]_vars => IInv'
  BY NextInv
<1>3. QED
  BY <1>1, <1>2, InitInv, PTL DEF Spec
=============================================================================

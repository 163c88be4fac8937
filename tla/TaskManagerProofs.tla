------------------------- MODULE TaskManagerProofs -------------------------
(***************************************************************************)
(* Proofs about TaskManager, for any tasks of any classes, any list and    *)
(* any number of executions, edits and calls of stopTask().                *)
(***************************************************************************)
EXTENDS TaskManager, SequenceTheorems, WellFoundedInduction, TLAPS

\* Where the executing thread can be, and that it has a task when it is inside one.
Control ==
    /\ mode = "idle" <=> xpc = "idle"
    /\ xpc \in {"next", "set"} => mode = "all"
    /\ xpc \in InTask \cup {"set"} => cursor # <<>>

\* What the place in Execute() says of the task at hand: a LoopTask that has visited an item
\* has run, and a task comes to its end because it ran, was stopped, or had nothing to do.
TaskAtHand ==
    /\ xpc = "item" => Kind[Head(cursor)] = "loop"
    /\ xpc \in {"item", "function"} /\ Kind[Head(cursor)] = "loop" => 
          left = Items[Head(cursor)] \/ Head(cursor) \in ran
    /\ xpc = "function" /\ Kind[Head(cursor)] = "loop" => left > 0
    /\ xpc = "end" => \/ Head(cursor) \in ran \/ stop_flag_[Head(cursor)]
                      \/ NothingToDo(Head(cursor))

\* A task begun after the flag was set is the last one: the flag stays set until the next
\* execution, and no other task gets past the check.
LateIsLast ==
    /\ late \in Nat
    /\ mode = "all" /\ late > 0 => m_StopFlag /\ xpc # "set"

IInv == /\ TypeOK /\ Control /\ TaskAtHand /\ LateIsLast
        /\ CurrentIsExecuting /\ AtMostOneMoreTask /\ DoneHasCause
-----------------------------------------------------------------------------
(* Sequences. *)

\* A set of naturals that is not empty has a least element.
LEMMA HasMinimum ==
    ASSUME NEW S, S \subseteq Nat, S # {}
    PROVE  \E x \in S : \A y \in S : x <= y
<1>1. PICK x \in S : \A y \in S : ~(<<y, x>> \in OpToRel(<, Nat))
  BY NatLessThanWellFounded, WFMin
<1>2. \A y \in S : <<y, x>> \in OpToRel(<, Nat) <=> y < x
  BY DEF OpToRel
<1>3. \A y \in S : ~(y < x)
  BY <1>1, <1>2, Zenon
<1>4. \A y \in S : x <= y
  BY <1>3
<1> QED
  BY <1>4

\* PlaceOf(n) is a place of the list, or 0.
LEMMA PlaceInList ==
    ASSUME m_taskList \in Seq(Tasks), NEW n, PlaceOf(n) # 0
    PROVE  PlaceOf(n) \in 1..Len(m_taskList)
<1> DEFINE I == {i \in 1..Len(m_taskList) : Name[m_taskList[i]] = n}
<1>1. PlaceOf(n) = IF I # {} THEN Min(I) ELSE 0
  BY DEF PlaceOf, SelectInSeq
<1>2. I # {} /\ I \subseteq Nat
  BY <1>1
<1>3. Min(I) \in I
  <2> HIDE DEF I
  <2> QED
    BY <1>2, HasMinimum DEF Min
<1> QED
  BY <1>1, <1>2, <1>3

\* A list with a task put in (InsertTask()) is a list, longer by one.
LEMMA InsertAtType ==
    ASSUME NEW S, NEW s \in Seq(S), NEW e \in S, NEW i \in 1..(Len(s) + 1)
    PROVE  InsertAt(s, i, e) \in Seq(S) /\ Len(InsertAt(s, i, e)) = Len(s) + 1
<1> DEFINE a == SubSeq(s, 1, i - 1)
           b == SubSeq(s, i, Len(s))
<1>1. Len(s) \in Nat /\ \A j \in 1..Len(s) : s[j] \in S
  OBVIOUS
<1>2. a \in Seq(S) /\ Len(a) = i - 1
  BY <1>1, SubSeqProperties
<1>3. b \in Seq(S) /\ Len(b) = Len(s) - i + 1
  BY <1>1, SubSeqProperties
<1>4. <<e>> \in Seq(S) /\ Len(<<e>>) = 1
  OBVIOUS
<1> HIDE DEF a, b
<1>5. a \o <<e>> \in Seq(S) /\ Len(a \o <<e>>) = i
  BY <1>2, <1>4, ConcatProperties
<1>6. (a \o <<e>>) \o b \in Seq(S) /\ Len((a \o <<e>>) \o b) = Len(a \o <<e>>) + Len(b)
  BY <1>3, <1>5, ConcatProperties
<1>7. i + (Len(s) - i + 1) = Len(s) + 1
  BY <1>1
<1> QED
  BY <1>3, <1>5, <1>6, <1>7 DEF InsertAt, a, b

\* A list without one of its tasks (DeleteTask()) is a list, shorter by one.
LEMMA RemoveAtType ==
    ASSUME NEW S, NEW s \in Seq(S), NEW i \in 1..Len(s)
    PROVE  RemoveAt(s, i) \in Seq(S) /\ Len(RemoveAt(s, i)) = Len(s) - 1
<1> DEFINE a == SubSeq(s, 1, i - 1)
           b == SubSeq(s, i + 1, Len(s))
<1>1. Len(s) \in Nat /\ \A j \in 1..Len(s) : s[j] \in S
  OBVIOUS
<1>2. a \in Seq(S) /\ Len(a) = i - 1
  BY <1>1, SubSeqProperties
<1>3. b \in Seq(S) /\ Len(b) = Len(s) - i
  BY <1>1, SubSeqProperties
<1> HIDE DEF a, b
<1>4. a \o b \in Seq(S) /\ Len(a \o b) = Len(a) + Len(b)
  BY <1>2, <1>3, ConcatProperties
<1>5. (i - 1) + (Len(s) - i) = Len(s) - 1
  BY <1>1
<1> QED
  BY <1>2, <1>3, <1>4, <1>5 DEF RemoveAt, a, b

\* A list with a task replaced (ModifyTask()) is a list of the same length.
LEMMA ReplaceAtType ==
    ASSUME NEW S, NEW s \in Seq(S), NEW e \in S, NEW i \in 1..Len(s)
    PROVE  ReplaceAt(s, i, e) \in Seq(S) /\ Len(ReplaceAt(s, i, e)) = Len(s)
  BY ExceptSeq DEF ReplaceAt
-----------------------------------------------------------------------------
(* The inductive invariant. *)

\* It holds initially.
LEMMA InitInv == Init => IInv
<1> SUFFICES ASSUME Init PROVE IInv
  OBVIOUS
<1>1. TypeOK
  <2>1. /\ m_StopFlag \in BOOLEAN /\ crashed \in BOOLEAN
        /\ stop_flag_ \in [Tasks -> BOOLEAN] /\ can_execute_ \in [Tasks -> BOOLEAN]
        /\ done_ \in [Tasks -> BOOLEAN]
    BY DEF Init
  <2>2. /\ m_taskList \in Seq(Tasks) /\ Len(m_taskList) <= MaxList /\ cursor \in Seq(Tasks)
        /\ left \in Nat /\ m_completedTaskCount \in Nat
    BY ItemsAssumption, BoundsAssumption DEF Init
  <2> QED
    BY <2>1, <2>2 DEF Init, TypeOK
<1>2. Control /\ TaskAtHand /\ LateIsLast
  BY DEF Init, Control, TaskAtHand, LateIsLast, InTask
<1>3. CurrentIsExecuting /\ AtMostOneMoreTask /\ DoneHasCause
  BY DEF Init, CurrentIsExecuting, AtMostOneMoreTask, DoneHasCause
<1> QED
  BY <1>1, <1>2, <1>3 DEF IInv

\* The edits change the list only, and keep it a list of at most MaxList tasks.
LEMMA EditInv ==
    ASSUME IInv, Edit
    PROVE  IInv'
<1> DEFINE ListOK == m_taskList \in Seq(Tasks) /\ Len(m_taskList) <= MaxList
<1>1. ListOK /\ Len(m_taskList) \in Nat /\ MaxList \in Nat
  BY BoundsAssumption DEF IInv, TypeOK
<1>2. ASSUME NEW t \in Tasks, NEW can \in BOOLEAN, AddTask(t, can)
      PROVE  ListOK'
  BY <1>1, <1>2 DEF AddTask
<1>3. ASSUME NEW t \in Tasks, NEW can \in BOOLEAN, NEW i \in -1..MaxList, InsertTask(i, t, can)
      PROVE  ListOK'
  <2>1. CASE 0 <= i /\ i <= Len(m_taskList)
    <3>1. i + 1 \in 1..(Len(m_taskList) + 1)
      BY <1>1, <2>1
    <3>2. m_taskList' = InsertAt(m_taskList, i + 1, t)
      BY <1>1, <1>3, <2>1 DEF InsertTask
    <3>3. m_taskList' \in Seq(Tasks) /\ Len(m_taskList') = Len(m_taskList) + 1
      BY <1>1, <3>1, <3>2, InsertAtType
    <3> QED
      BY <1>1, <1>3, <3>3 DEF InsertTask
  <2>2. CASE ~(0 <= i /\ i <= Len(m_taskList))
    BY <1>1, <1>3, <2>2 DEF InsertTask
  <2> QED
    BY <2>1, <2>2
<1>4. ASSUME NEW t \in Tasks, NEW can \in BOOLEAN, NEW i \in -1..MaxList, ModifyTask(i, t, can)
      PROVE  ListOK'
  BY <1>1, <1>4, ReplaceAtType DEF ModifyTask
<1>5. ASSUME NEW t \in Tasks, NEW can \in BOOLEAN, NEW u \in Tasks, ModifyTaskByName(Name[u], t, can)
      PROVE  ListOK'
  BY <1>1, <1>5, ReplaceAtType, PlaceInList DEF ModifyTaskByName
<1>6. ASSUME NEW i \in 0..MaxList, DeleteTask(i)
      PROVE  ListOK'
  BY <1>1, <1>6, RemoveAtType DEF DeleteTask
<1>7. ASSUME NEW t \in Tasks, DeleteTaskByName(Name[t])
      PROVE  ListOK'
  BY <1>1, <1>7, RemoveAtType, PlaceInList DEF DeleteTaskByName
<1>8. ListOK'
  BY <1>2, <1>3, <1>4, <1>5, <1>6, <1>7 DEF Edit
<1>9. /\ UNCHANGED <<exec, stop, marks, m_CurrentTask>>
      /\ UNCHANGED can_execute_ \/ \E t \in Tasks, can \in BOOLEAN : can_execute_' = [can_execute_ EXCEPT ![t] = can]
  BY DEF Edit, AddTask, InsertTask, ModifyTask, ModifyTaskByName, DeleteTask, DeleteTaskByName
<1>10. can_execute_' \in [Tasks -> BOOLEAN]
  BY <1>9 DEF IInv, TypeOK
<1> HIDE DEF ListOK
<1>11. TypeOK'
  BY <1>8, <1>9, <1>10 DEF IInv, TypeOK, ListOK, exec, stop, marks
<1>12. Control' /\ TaskAtHand' /\ LateIsLast' /\ CurrentIsExecuting' /\ AtMostOneMoreTask' /\ DoneHasCause'
  BY <1>9 DEF IInv, exec, stop, marks, Control, TaskAtHand, LateIsLast, CurrentIsExecuting,
              AtMostOneMoreTask, DoneHasCause
<1> QED
  BY <1>11, <1>12 DEF IInv

\* Every step keeps it.
LEMMA NextInv ==
    ASSUME IInv, [Next]_vars
    PROVE  IInv'
<1> USE TasksAssumption, ItemsAssumption
    DEF list, exec, stop, marks, InTask, IInv, TypeOK, Control, TaskAtHand, LateIsLast,
        CurrentIsExecuting, AtMostOneMoreTask, DoneHasCause, NothingToDo
<1>1. cursor # <<>> => Head(cursor) \in Tasks /\ Tail(cursor) \in Seq(Tasks)
  BY HeadTailProperties
<1>2. CASE UNCHANGED vars
  BY <1>2 DEF vars
<1>3. CASE ExecuteAllTasks
  <2>1. TypeOK'
    BY <1>3 DEF ExecuteAllTasks
  <2>2. Control' /\ TaskAtHand' /\ DoneHasCause'
    BY <1>3 DEF ExecuteAllTasks
  <2>3. LateIsLast' /\ AtMostOneMoreTask' /\ CurrentIsExecuting'
    BY <1>3 DEF ExecuteAllTasks
  <2> QED
    BY <2>1, <2>2, <2>3
<1>4. CASE \E t \in Tasks : ExecuteTaskByName(Name[t])
  BY <1>4, <1>1, PlaceInList DEF ExecuteTaskByName
<1>5. CASE ExecSkip
  BY <1>5, <1>1 DEF ExecSkip
<1>6. CASE ExecSelect
  BY <1>6, <1>1 DEF ExecSelect, Skipped
<1>7. CASE ExecReturn
  BY <1>7 DEF ExecReturn
<1>8. CASE SetCurrent
  BY <1>8, <1>1 DEF SetCurrent
<1>9. CASE Finished
  BY <1>9, <1>1 DEF Finished
<1>10. CASE \E t \in Tasks : Begin(t)
  BY <1>10, <1>1 DEF Begin
<1>11. CASE \E t \in Tasks : Item(t)
  BY <1>11, <1>1 DEF Item
<1>12. CASE \E t \in Tasks : Function(t)
  BY <1>12, <1>1 DEF Function, Returns
<1>13. CASE \E t \in Tasks : Detach(t)
  BY <1>13, <1>1 DEF Detach
<1>14. CASE \E t \in Tasks : EndTask(t)
  BY <1>14, <1>1 DEF EndTask
<1>15. CASE \E t \in Tasks : DaemonLoop(t)
  <2>1. TypeOK'
    BY <1>15 DEF DaemonLoop
  <2>2. Control' /\ TaskAtHand' /\ DoneHasCause'
    BY <1>15 DEF DaemonLoop
  <2>3. LateIsLast' /\ AtMostOneMoreTask' /\ CurrentIsExecuting'
    BY <1>15 DEF DaemonLoop
  <2> QED
    BY <2>1, <2>2, <2>3
<1>16. CASE StopFlag
  BY <1>16 DEF StopFlag
<1>17. CASE StopCheck
  BY <1>17 DEF StopCheck
<1>18. CASE StopLoad
  BY <1>18 DEF StopLoad
<1>19. CASE StopCall
  <2>1. TypeOK'
    BY <1>19 DEF StopCall
  <2>2. Control' /\ TaskAtHand' /\ DoneHasCause'
    BY <1>19 DEF StopCall
  <2>3. LateIsLast' /\ AtMostOneMoreTask' /\ CurrentIsExecuting'
    BY <1>19 DEF StopCall
  <2> QED
    BY <2>1, <2>2, <2>3
<1>20. CASE StopClear
  BY <1>20 DEF StopClear
<1> QED
  BY EditInv, <1>2, <1>3, <1>4, <1>5, <1>6, <1>7, <1>8, <1>9, <1>10, <1>11, <1>12, <1>13,
     <1>14, <1>15, <1>16, <1>17, <1>18, <1>19, <1>20
     DEF Next, Execute, Stop

\* Every reachable state of a TaskManager with any tasks and any list is of its type.
THEOREM TypeCorrect == Spec => []TypeOK
<1>1. IInv => TypeOK
  BY DEF IInv
<1>2. IInv /\ [Next]_vars => IInv'
  BY NextInv
<1>3. QED
  BY <1>1, <1>2, InitInv, PTL DEF Spec

\* Without any lock m_CurrentTask is null or the task that executeAllTasks() is executing, and
\* stopTask() finds null at its second read only if the task has ended since the first.
THEOREM CurrentTaskIsExecuting == Spec => []CurrentIsExecuting
<1>1. IInv => CurrentIsExecuting
  BY DEF IInv
<1>2. IInv /\ [Next]_vars => IInv'
  BY NextInv
<1>3. QED
  BY <1>1, <1>2, InitInv, PTL DEF Spec

\* After stopTask() has set the flag at most one more task of any list begins.
THEOREM StopLetsOneTaskBegin == Spec => []AtMostOneMoreTask
<1>1. IInv => AtMostOneMoreTask
  BY DEF IInv
<1>2. IInv /\ [Next]_vars => IInv'
  BY NextInv
<1>3. QED
  BY <1>1, <1>2, InitInv, PTL DEF Spec

\* A task of any class is marked done without having run only if it was stopped, its condition
\* was false, or it is a loop over no items.
THEOREM DoneTasksHaveRun == Spec => []DoneHasCause
<1>1. IInv => DoneHasCause
  BY DEF IInv
<1>2. IInv /\ [Next]_vars => IInv'
  BY NextInv
<1>3. QED
  BY <1>1, <1>2, InitInv, PTL DEF Spec
=============================================================================

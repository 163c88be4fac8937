--------------------------- MODULE AchievementList ---------------------------
(***************************************************************************)
(* AchievementList of config/achievement_list.cpp: the list in memory and  *)
(* the JSON file that every change writes again as a whole.  writeToFile() *)
(* first truncates the file and then writes the document into it; it does  *)
(* not say when the file cannot be opened or the disk is full, and it      *)
(* throws, with the file already empty, when a text of the list is not     *)
(* UTF-8.  The process may be killed between any two steps.                *)
(*                                                                         *)
(* The file exists when the first process starts: the constructor throws   *)
(* without it, and nothing else creates it.                                *)
(***************************************************************************)
EXTENDS Naturals, Sequences, SequencesExt

CONSTANTS AchievementNames,
          MaxAchievements,   \* bound: the length of the list
          MaxListCalls,      \* bound: calls that change the list
          MaxListLives       \* bound: processes one after the other

ASSUME ListAssumption ==
    MaxAchievements \in Nat /\ MaxListCalls \in Nat /\ MaxListLives \in Nat

VARIABLES file,            \* "null", "torn" (empty or cut off), or the array of the document
          m_achievements,  \* kept when the process ends, to compare it with the file
          list,            \* whether a process has the list
          step,            \* of a call: "none", "open" (to open the file), "dump" (to write)
          listCalls, listLives,
          unsaved          \* history: the last write of the list failed and nobody was told

listVars == <<file, m_achievements, list, step, listCalls, listLives, unsaved>>

\* An achievement: its name, whether its texts are UTF-8, and whether it is completed.
Achievements == [name : AchievementNames, utf8 : BOOLEAN, isCompleted : BOOLEAN]

\* The document of a list: an empty json value is null, not an empty array.
to_json(s) == IF s = <<>> THEN [type |-> "null"] ELSE [type |-> "array", items |-> s]

Torn == [type |-> "torn"]

\* The list of a document; null has no elements.
from_json(doc) == IF doc.type = "null" THEN <<>> ELSE doc.items

ListInit ==
    /\ file = to_json(<<>>)
    /\ m_achievements = <<>>
    /\ list = "down" /\ step = "none"
    /\ listCalls = 0 /\ listLives = 0
    /\ unsaved = FALSE

\* The constructor, readFromFile(): it throws when the file is not JSON.
readFromFile ==
    /\ list = "down"
    /\ listLives < MaxListLives
    /\ file # Torn
    /\ listLives' = listLives + 1
    /\ list' = "up" /\ step' = "none"
    /\ m_achievements' = from_json(file)
    /\ unsaved' = FALSE
    /\ UNCHANGED <<file, listCalls>>

ListCall == /\ list = "up" /\ step = "none"
            /\ listCalls < MaxListCalls
            /\ listCalls' = listCalls + 1

\* The first achievement of that name; 0 if there is none.
Find(name) == SelectInSeq(m_achievements, LAMBDA a : a.name = name)

\* Every change ends with writeToFile().
Changed(s) == /\ m_achievements' = s
              /\ step' = "open"
              /\ UNCHANGED <<file, list, listLives, unsaved>>

addAchievement(a) ==
    /\ ListCall
    /\ Len(m_achievements) < MaxAchievements
    /\ Changed(Append(m_achievements, a))

removeAchievementByName(name) ==
    /\ ListCall
    /\ Find(name) # 0
    /\ Changed(RemoveAt(m_achievements, Find(name)))

modifyAchievementByName(name, a) ==
    /\ ListCall
    /\ Find(name) # 0
    /\ Changed(ReplaceAt(m_achievements, Find(name), a))

\* Mutant: the mark is not written.
completeAchievementQuietly(name) ==
    /\ ListCall
    /\ Find(name) # 0
    /\ m_achievements' = [m_achievements EXCEPT ![Find(name)].isCompleted = TRUE]
    /\ UNCHANGED <<file, list, step, listLives, unsaved>>

completeAchievementByName(name) ==
    /\ ListCall
    /\ Find(name) # 0
    /\ Changed([m_achievements EXCEPT ![Find(name)].isCompleted = TRUE])

\* writeToFile(): the file is truncated, or cannot be opened and stays as it is.
openFile ==
    /\ list = "up" /\ step = "open"
    /\ \/ file' = Torn /\ step' = "dump" /\ UNCHANGED unsaved
       \/ step' = "none" /\ unsaved' = TRUE /\ UNCHANGED file
    /\ UNCHANGED <<m_achievements, list, listCalls, listLives>>

Encodable == \A i \in DOMAIN m_achievements : m_achievements[i].utf8

\* The document is written; or the disk is full; or dump() throws at a text that is not UTF-8
\* and the exception reaches the caller.
dump ==
    /\ list = "up" /\ step = "dump"
    /\ step' = "none"
    /\ \/ Encodable /\ file' = to_json(m_achievements) /\ unsaved' = FALSE
       \/ Encodable /\ unsaved' = TRUE /\ UNCHANGED file
       \/ ~Encodable /\ unsaved' = FALSE /\ UNCHANGED file
    /\ UNCHANGED <<m_achievements, list, listCalls, listLives>>

\* The process ends, or is killed.
KillList ==
    /\ list = "up"
    /\ list' = "down"
    /\ UNCHANGED <<file, m_achievements, step, listCalls, listLives, unsaved>>

ListNext ==
    \/ readFromFile \/ openFile \/ dump \/ KillList
    \/ \E a \in Achievements : addAchievement(a)
    \/ \E n \in AchievementNames :
          \/ removeAchievementByName(n) \/ completeAchievementByName(n)
          \/ \E a \in Achievements : modifyAchievementByName(n, a)
-----------------------------------------------------------------------------
\* When no call is in progress, none was cut off by a kill and the last write was not silently
\* lost, the file is good and the next process reads exactly the list of this one: the order, the
\* names and the completions, also of an empty list and of equal names.  A text that is not UTF-8
\* leaves the file unreadable, and the first write without one makes it good again.
FileMirrorsList ==
    step = "none" /\ ~unsaved /\ Encodable => file # Torn /\ from_json(file) = m_achievements
=============================================================================

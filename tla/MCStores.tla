------------------------------ MODULE MCStores ------------------------------
(* The two stores that survive the process, checked one after the other:     *)
(* they share nothing, so a behaviour exercises one of them.  Texts are one  *)
(* word, two words (a blank in a path), or none (an empty path).             *)
EXTENDS DownloadManager, AchievementList

VARIABLE subject

MCTexts == {<<"a">>, <<"b", "c">>, <<>>}

vars == <<downloadVars, listVars, subject>>

Init == DownloadInit /\ ListInit /\ subject \in {"downloads", "achievements"}

Next == \/ subject = "downloads" /\ DownloadNext /\ UNCHANGED <<listVars, subject>>
        \/ subject = "achievements" /\ ListNext /\ UNCHANGED <<downloadVars, subject>>

Spec == Init /\ [][Next]_vars
=============================================================================

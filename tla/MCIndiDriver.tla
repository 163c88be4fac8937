---------------------------- MODULE MCIndiDriver ----------------------------
(***************************************************************************)
(* The bounds of the runs.  Four messages show a ready camera cleared      *)
(* between two values of CCD_INFO, in one session; the others have three   *)
(* messages and two calls, for a second connect() or a use of a pointer.   *)
(***************************************************************************)
EXTENDS IndiDriver

MCMaxCalls  == [camera |-> 1, focuser |-> 2, telescope |-> 2, filterwheel |-> 2]
MCMaxEvents == [camera |-> 4, focuser |-> 3, telescope |-> 3, filterwheel |-> 3]
=============================================================================

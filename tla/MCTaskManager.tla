--------------------------- MODULE MCTaskManager ---------------------------
(* A task of each class and a LoopTask with no items; two tasks share a name. *)
EXTENDS TaskManager

CONSTANTS simple, loop, empty, daemon, conditional

MCTasks == {simple, loop, empty, daemon, conditional}
MCKind == (simple :> "simple") @@ (loop :> "loop") @@ (empty :> "loop")
              @@ (daemon :> "daemon") @@ (conditional :> "conditional")
MCName == (simple :> "a") @@ (loop :> "b") @@ (empty :> "d") @@ (daemon :> "c")
              @@ (conditional :> "a")
MCItems == [t \in MCTasks |-> IF t = loop THEN 1 ELSE 0]
=============================================================================

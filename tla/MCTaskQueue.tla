----------------------------- MODULE MCTaskQueue -----------------------------
(* Job 3 is urgent and has no handler.                                     *)
EXTENDS TaskQueue

MCJobs == 1 .. 3
MCUnhandled == {3}
MCPriority == [t \in MCJobs |-> IF t = 3 THEN 10 ELSE 5]
=============================================================================

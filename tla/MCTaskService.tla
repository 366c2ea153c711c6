--------------------------- MODULE MCTaskService ---------------------------
(***************************************************************************)
(* Instances of the task path: retries of one request (Retry...) and tasks *)
(* of different requests that run side by side (Side...).                  *)
(***************************************************************************)
EXTENDS TaskService, TLC

CONSTANTS t1, t2, k1, k2, i1, i2

RetryTasks == {t1, t2}
RetryKeyOf == [t \in RetryTasks |-> k1]
RetryIdentityOf == [t \in RetryTasks |-> i1]
OneKey == {k1}
\* The two calls of Retry... carry the same request and are interchangeable.
RetrySymmetry == Permutations(RetryTasks)

SideTasks == {t1, t2}
SideKeyOf == (t1 :> k1) @@ (t2 :> k2)
SideIdentityOf == [t \in SideTasks |-> i1]
TwoKeys == {k1, k2}

AllIdentities == {i1, i2}
NoEvents == {{}}
SomeEvents == {{}, {"memory_oom_kill"}, {"pids_max"}}
=============================================================================

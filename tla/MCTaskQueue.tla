------------------------------ MODULE MCTaskQueue ------------------------------
(***************************************************************************)
(* Three calls, two of them with one clientRequestId, and one slot: calls  *)
(* that wait for each other and find the registry full (queue), and calls  *)
(* that reuse the clientRequestId for something else and find no slot      *)
(* (reuse).                                                                *)
(***************************************************************************)
EXTENDS TaskService, TLC

CONSTANTS t1, t2, t3, k1, k2, i1, i2

VARIABLE part

QueueTasks == {t1, t2, t3}
QueueKeyOf == (t1 :> k1) @@ (t2 :> k1) @@ (t3 :> k2)
QueueIdentityOf == [t \in QueueTasks |-> i1]
TwoKeys == {k1, k2}
TwoIdentities == {i1, i2}
NoEvents == {{}}

Reuse == INSTANCE TaskService WITH
  IdentityOf <- [QueueIdentityOf EXCEPT ![t2] = i2], MaxTasks <- 2

PartsInit == part \in {"queue", "reuse"} /\ Init
PartsNext ==
  /\ \/ part = "queue" /\ Next
     \/ part = "reuse" /\ Reuse!Next
  /\ UNCHANGED part

PartsSpec == PartsInit /\ [][PartsNext]_<<part, vars>>
================================================================================

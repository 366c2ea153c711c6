---------------------------- MODULE MCExecutor ----------------------------
(***************************************************************************)
(* What the task path relies on, side by side: one execution beside other  *)
(* tasks of the daemon (executor); the capture of the two streams of a     *)
(* task (capture) and of one longer stream (tail); the registry under any  *)
(* order of calls, with four submit calls over three clientRequestIds and  *)
(* room for two logical tasks (registry); a query of a profile's result    *)
(* while its task ends (results).  They share no state here: part names    *)
(* the one that takes the steps of a behaviour, the others stay as they    *)
(* begin.                                                                  *)
(***************************************************************************)
EXTENDS Executor, OutputCapture, TaskRegistry, TLC

CONSTANTS t1, t2, t3, t4, k1, k2, k3, i1

VARIABLES
  part,
  requests, tasks, terminal, ended, raw, rawIds, handler, on, todo, obs, answer,
  getPc, getOn, getAnswer

resultVars == <<requests, tasks, terminal, ended, raw, rawIds, handler, on, todo, obs, answer,
                getPc, getOn, getAnswer>>

MCTasks == {t1, t2, t3, t4}
MCKeys == {k1, k2, k3}
MCIdentities == {i1}
\* t1 and t2 share a clientRequestId: a reservation that is purged or released
\* can be taken by the other call.
MCKeyOf == (t1 :> k1) @@ (t2 :> k1) @@ (t3 :> k2) @@ (t4 :> k3)
MCIdentityOf == [t \in MCTasks |-> i1]
SomeEvents == {{}, {"memory_oom_kill"}, {"pids_max"}}
TwoStreams == {"stdout", "stderr"}

OneStream == INSTANCE OutputCapture WITH
  Streams <- {"stdout"}, Limit <- 3, ReadMax <- 4, PipeSize <- 5, MaxBytes <- 11

Profiles == INSTANCE ProfileRuntime WITH
  Calls <- {t1, t2}, Gets <- {t3}, RequestIds <- {k1}, IdOf <- [t \in {t1, t2} |-> k1],
  BodyOf <- [t \in {t1, t2} |-> "x"], pc <- handler

PartsInit ==
  /\ ExecutorInit /\ RegistryInit /\ Profiles!Init
  /\ \/ part \in {"executor", "capture", "registry", "results"} /\ Init
     \/ part = "tail" /\ OneStream!Init

PartsNext ==
  \/ part = "executor" /\ ExecutorNext /\ UNCHANGED <<part, vars, registryVars, resultVars>>
  \/ part = "capture" /\ Next /\ UNCHANGED <<part, executorVars, registryVars, resultVars>>
  \/ part = "tail" /\ OneStream!Next /\ UNCHANGED <<part, executorVars, registryVars, resultVars>>
  \/ part = "registry" /\ RegistryNext /\ UNCHANGED <<part, vars, executorVars, resultVars>>
  \/ part = "results" /\ Profiles!Next /\ UNCHANGED <<part, vars, executorVars, registryVars>>

\* The fairness of Executor, OutputCapture and ProfileRuntime, each for its own part.
PartsFairness ==
  /\ WF_executorVars(part = "executor" /\ pc \notin {"COMMITTED", "STOP", "DROP"} /\ RunTask)
  /\ WF_executorVars(part = "executor" /\ (ExecReported \/ ExecFailureReported))
  /\ WF_executorVars(part = "executor" /\ job.child = "RELEASED" /\ (ChildExecs \/ ChildExecFails))
  /\ WF_executorVars(part = "executor" /\ (StopReaps \/ DropReaps))
  /\ WF_executorVars(part = "executor" /\ pc \in {"STOP", "DROP"} /\ ChildDies)
  /\ \A s \in Streams : WF_vars(part = "capture" /\ Drain(s))
  /\ WF_vars(part = "capture" /\ Deadline)
  /\ WF_vars(part = "capture" /\ (CollectLoop \/ Join))
  /\ \A t \in {t1, t2} : /\ WF_resultVars(part = "results" /\ Profiles!Step(t))
                         /\ WF_resultVars(part = "results" /\ Profiles!Start(t))
  /\ WF_resultVars(part = "results" /\ Profiles!GetStep(t3))

PartsSpec ==
  PartsInit /\ [][PartsNext]_<<part, executorVars, vars, registryVars, resultVars>> /\ PartsFairness

-----------------------------------------------------------------------------
\* A tail is exactly the last bytes of its stream; a collection that succeeds has
\* read everything that was written, and no reader thread outlives it
\* (BoundedTail::push, collect_until).
CaptureSound ==
  /\ part = "capture" => TypeOK /\ CollectedIsComplete /\ NoThreadLeft
  /\ part = "tail" => OneStream!TailExact /\ OneStream!CollectedIsComplete

\* Every call of run_task returns, also while other tasks fail, if the kernel
\* finishes execve and ends what was killed, and every collection ends whatever
\* the processes of the task do with their pipes: it is bounded by a deadline.  A task that waits for room in
\* one pipe gets it while the other is read, and a query that waits for the
\* outcome of a profile is answered.
ExecutorReturns ==
  /\ part = "executor" => RunTaskReturns
  /\ part = "capture" => CollectionEnds
  /\ \A s \in Streams : part = "capture" /\ Waits(s) ~> part = "capture" /\ (~Full(s) \/ Ended(s))
  /\ Profiles!GetAnswered
=============================================================================

----------------------------- MODULE Execution -----------------------------
(***************************************************************************)
(* One execution as the rest of the daemon sees it: what LinuxTaskRunner:: *)
(* run_task (daemon/src/adapters/linux_executor.rs) may do to a task's     *)
(* cgroup and process tree, when it may activate fail-stop, and which      *)
(* result it returns.  The cleanup attempts themselves are in module       *)
(* Executor, which implements this one.                                    *)
(*                                                                         *)
(* tree is what the daemon can prove about the task's processes: NONE, a   *)
(* cgroup with at most a child held at the exec gate (GATED), an opened    *)
(* gate (LIVE), proved gone (GONE) or not proved gone (UNKNOWN).           *)
(***************************************************************************)
EXTENDS FailStop, Termination

CONSTANT
    EventSets       \* the sets of cgroup events a finished task may show

ASSUME EventAssumption ==
    EventSets \subseteq SUBSET {"memory_oom_kill", "memory_oom", "pids_max"}

VARIABLES
    exec,           \* where run_task is
    tree,
    started,        \* the RUNNING snapshot was handed to the owner
    latch,          \* TerminalTriggerLatch::first
    control,        \* the ControlTriggers taken when the stop was decided
    daemon_error,   \* CleanedRun::daemon_error
    outcome,        \* the result of run_task
    reason          \* TerminationReason of a completed run

executionVars ==
    <<exec, tree, started, latch, control, daemon_error, outcome, reason>>

(***************************************************************************)
(* Results: COMPLETED is Ok; the others are TaskRunFailure with            *)
(* (capacity_reusable, cleanup_complete) = (T, T) for REUSABLE, (F, T) for *)
(* BLOCKED and (F, F) for UNCERTAIN.                                       *)
(***************************************************************************)
Outcomes == {"NONE", "COMPLETED", "REUSABLE", "BLOCKED", "UNCERTAIN"}

ExecutionTypeOK ==
    /\ exec \in [Tasks -> {"IDLE", "PREPARING", "GATED", "COMMITTED",
                           "STARTED", "STOPPING", "DONE"}]
    /\ tree \in [Tasks -> {"NONE", "GATED", "LIVE", "GONE", "UNKNOWN"}]
    /\ started \in [Tasks -> BOOLEAN]
    /\ latch \in [Tasks -> LatchStates]
    /\ control \in [Tasks -> {"NONE", "TIMED_OUT", "CANCELLED"}]
    /\ daemon_error \in [Tasks -> BOOLEAN]
    /\ outcome \in [Tasks -> Outcomes]
    /\ reason \in [Tasks -> Reasons \cup {"NONE"}]

NothingDone ==
    /\ tree = [t \in Tasks |-> "NONE"]
    /\ started = [t \in Tasks |-> FALSE]
    /\ latch = [t \in Tasks |-> "OPEN"]
    /\ control = [t \in Tasks |-> "NONE"]
    /\ daemon_error = [t \in Tasks |-> FALSE]
    /\ outcome = [t \in Tasks |-> "NONE"]
    /\ reason = [t \in Tasks |-> "NONE"]

ExecutionInit == exec = [t \in Tasks |-> "IDLE"] /\ NothingDone

\* A process of the task may exist, or has not been proved gone.
MayHaveProcesses(t) == tree[t] \in {"GATED", "LIVE", "UNKNOWN"}

-----------------------------------------------------------------------------
(* How an execution ends *)

Stop(t, state, result) ==
    /\ exec' = [exec EXCEPT ![t] = "DONE"]
    /\ tree' = [tree EXCEPT ![t] = state]
    /\ outcome' = [outcome EXCEPT ![t] = result]
    /\ UNCHANGED started

NoVerdict == UNCHANGED <<latch, control, daemon_error, reason>>

\* A cleanup attempt failed and is retried: fail-stop is activated first.  A
\* started run that needed the retry reports a daemon error.
CleanupRetried(t) ==
    /\ exec[t] \in {"GATED", "COMMITTED", "STOPPING"}
    /\ activate(t)
    /\ daemon_error' = [daemon_error EXCEPT ![t] = @ \/ exec[t] = "STOPPING"]
    /\ UNCHANGED <<exec, tree, started, latch, control, outcome, reason, active>>

\* An uncertain failure: fail-stop is activated before the result is returned.
Lose(t) ==
    /\ activate(t)
    /\ Stop(t, "UNKNOWN", "UNCERTAIN")
    /\ UNCHANGED active
    /\ NoVerdict

-----------------------------------------------------------------------------
(* Before the gate *)

BeginExecution(t) ==
    /\ exec[t] = "IDLE"
    /\ exec' = [exec EXCEPT ![t] = "PREPARING"]
    /\ UNCHANGED <<tree, started, outcome>>
    /\ NoVerdict

\* The two looks at fail-stop before the cgroup exists.
RefuseForFailStop(t) ==
    /\ exec[t] = "PREPARING"
    /\ is_fail_stopping
    /\ Stop(t, "NONE", "BLOCKED")
    /\ UNCHANGED failStopVars
    /\ NoVerdict

\* The command cannot be prepared, or create_job fails and is rolled back.
RejectBeforeJob(t) ==
    /\ exec[t] = "PREPARING"
    /\ Stop(t, "NONE", "REUSABLE")
    /\ UNCHANGED failStopVars
    /\ NoVerdict

CreateJob(t) ==
    /\ exec[t] = "PREPARING"
    /\ exec' = [exec EXCEPT ![t] = "GATED"]
    /\ tree' = [tree EXCEPT ![t] = "GATED"]
    /\ UNCHANGED <<started, outcome, failStopVars>>
    /\ NoVerdict

\* Fail-stop seen after create_job and before spawn: the cgroup is removed.
AbandonForFailStop(t) ==
    /\ exec[t] = "GATED"
    /\ is_fail_stopping
    /\ Stop(t, "GONE", "BLOCKED")
    /\ UNCHANGED failStopVars
    /\ NoVerdict

\* spawn, the membership check or commit_start fails; the pending child and
\* the cgroup are cleaned up.
AbortPending(t) ==
    /\ exec[t] = "GATED"
    /\ Stop(t, "GONE", "REUSABLE")
    /\ UNCHANGED failStopVars
    /\ NoVerdict

\* Writing to the gate fails inside commit_start; AbortPending or Lose follows.
GateFailed(t) ==
    /\ exec[t] = "GATED"
    /\ commit_gate_failed(t)
    /\ UNCHANGED <<exec, tree, started, outcome>>
    /\ NoVerdict

CommitStart(t) ==
    /\ exec[t] = "GATED"
    /\ commit_start(t)
    /\ exec' = [exec EXCEPT ![t] = "COMMITTED"]
    /\ tree' = [tree EXCEPT ![t] = "LIVE"]
    /\ UNCHANGED <<started, outcome>>
    /\ NoVerdict

-----------------------------------------------------------------------------
(* After the gate *)

\* execve failed in the child: the run completes without RUNNING.
ExecFailed(t) ==
    /\ exec[t] = "COMMITTED"
    /\ Stop(t, "GONE", "COMPLETED")
    /\ \E events \in EventSets :
          reason' = [reason EXCEPT ![t] =
                        classify_termination(events, "NONE", FALSE, FALSE)]
    /\ UNCHANGED <<failStopVars, latch, control, daemon_error>>

\* The exec report is unreadable; the cgroup is cleaned up.
AbortCommitted(t) ==
    /\ exec[t] = "COMMITTED"
    /\ Stop(t, "GONE", "REUSABLE")
    /\ UNCHANGED failStopVars
    /\ NoVerdict

\* on_started: the RUNNING snapshot is handed to the owner.
ExecStarted(t) ==
    /\ exec[t] = "COMMITTED"
    /\ exec' = [exec EXCEPT ![t] = "STARTED"]
    /\ started' = [started EXCEPT ![t] = TRUE]
    /\ UNCHANGED <<tree, outcome, failStopVars>>
    /\ NoVerdict

\* The task of a job that cannot be proved clean, at any point before STARTED.
LoseBeforeStarted(t) ==
    /\ exec[t] \in {"PREPARING", "GATED", "COMMITTED"}
    /\ Lose(t)

Decide(t, first, daemonError) ==
    /\ exec[t] = "STARTED"
    /\ exec' = [exec EXCEPT ![t] = "STOPPING"]
    /\ latch' = [latch EXCEPT ![t] = first]
    /\ control' = [control EXCEPT ![t] = Trigger(first)]
    /\ daemon_error' = [daemon_error EXCEPT ![t] = daemonError]
    /\ UNCHANGED <<tree, started, outcome, reason>>

\* The child was reaped: close_without_control, or a cancel was first.
ObserveExit(t) ==
    /\ Decide(t, FirstOf(latch[t], "CLOSED"), FALSE)
    /\ UNCHANGED failStopVars

ObserveTimeout(t) ==
    /\ Decide(t, FirstOf(latch[t], "TIMED_OUT"), FALSE)
    /\ UNCHANGED failStopVars

ObserveCancel(t) ==
    /\ latch[t] = "CANCELLED"
    /\ Decide(t, latch[t], FALSE)
    /\ UNCHANGED failStopVars

ObserveFailStop(t) ==
    /\ is_fail_stopping
    /\ Decide(t, latch[t], TRUE)
    /\ UNCHANGED failStopVars

\* waitpid failed: cleanup_running_job will activate fail-stop.
ObserveWaitError(t) ==
    /\ Decide(t, latch[t], TRUE)
    /\ UNCHANGED failStopVars

\* Faulty: the latch is read again instead of the triggers taken with the decision.
FinishCleaned_LateLatch(t) ==
    /\ exec[t] = "STOPPING"
    /\ daemon_error[t] => is_fail_stopping
    /\ Stop(t, "GONE", "COMPLETED")
    /\ \E events \in EventSets :
          reason' = [reason EXCEPT ![t] =
                        classify_termination(events, Trigger(latch[t]), daemon_error[t], TRUE)]
    /\ UNCHANGED <<failStopVars, latch, control, daemon_error>>

\* A run that was decided or recovered by a daemon error ends in fail-stop.
FinishCleaned(t) ==
    /\ exec[t] = "STOPPING"
    /\ daemon_error[t] => is_fail_stopping
    /\ Stop(t, "GONE", "COMPLETED")
    /\ \E events \in EventSets :
          reason' = [reason EXCEPT ![t] =
                        classify_termination(events, control[t], daemon_error[t], TRUE)]
    /\ UNCHANGED <<failStopVars, latch, control, daemon_error>>

\* The tree is gone but no result can be built (SingleTaskLifecycle::complete
\* fails, for instance on a signal without a name).
FinishUnclassified(t) ==
    /\ exec[t] = "STOPPING"
    /\ daemon_error[t] => is_fail_stopping
    /\ Stop(t, "GONE", "REUSABLE")
    /\ UNCHANGED failStopVars
    /\ NoVerdict

\* The tree is gone but a profile's output staging could not be finalized:
\* submit_profile_validated reports it without activating fail-stop.
FinalizeFailed(t) ==
    /\ exec[t] \in {"COMMITTED", "STOPPING"}
    /\ Stop(t, "GONE", "UNCERTAIN")
    /\ UNCHANGED failStopVars
    /\ NoVerdict

FinishLost(t) ==
    /\ exec[t] = "STOPPING"
    /\ Lose(t)

\* Everything run_task does on its own, in the order it can happen.
ExecutionStep(t) ==
    \/ CleanupRetried(t)
    \/ RefuseForFailStop(t)
    \/ RejectBeforeJob(t)
    \/ CreateJob(t)
    \/ AbandonForFailStop(t)
    \/ AbortPending(t)
    \/ GateFailed(t)
    \/ CommitStart(t)
    \/ ExecFailed(t)
    \/ AbortCommitted(t)
    \/ ExecStarted(t)
    \/ LoseBeforeStarted(t)
    \/ ObserveExit(t)
    \/ ObserveTimeout(t)
    \/ ObserveCancel(t)
    \/ ObserveFailStop(t)
    \/ ObserveWaitError(t)
    \/ FinishCleaned(t)
    \/ FinishUnclassified(t)
    \/ FinalizeFailed(t)
    \/ FinishLost(t)

-----------------------------------------------------------------------------
(* run_task of one task, in a daemon whose other tasks may fail *)

AcceptCancel(t) ==
    /\ started[t]
    /\ latch' = [latch EXCEPT ![t] = FirstOf(@, "CANCELLED")]
    /\ UNCHANGED <<exec, tree, started, control, daemon_error, outcome, reason, failStopVars>>

AnotherFails(t) ==
    /\ \E u \in Tasks \ {t} : activate(u)
    /\ UNCHANGED <<executionVars, active>>

RunTaskInit(t) ==
    /\ phase = "HEALTHY"
    /\ firstReport = NoTask
    /\ active = [u \in Tasks |-> IF u = t THEN "PENDING" ELSE "NONE"]
    /\ exec = [u \in Tasks |-> IF u = t THEN "PREPARING" ELSE "IDLE"]
    /\ NothingDone

RunTaskNext(t) == ExecutionStep(t) \/ AcceptCancel(t) \/ AnotherFails(t)

runTaskVars == <<executionVars, failStopVars>>
=============================================================================

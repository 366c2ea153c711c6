------------------------------ MODULE Executor ------------------------------
(***************************************************************************)
(* run_task for one job, down to the kernel operations it performs         *)
(* (daemon/src/adapters/linux_executor.rs over linux-runtime's JobCgroup,  *)
(* PendingProcess and SpawnedProcess).                                     *)
(*                                                                         *)
(* job is the truth in the kernel, which run_task never reads as a whole:  *)
(* the cgroup directory, the direct child, whether descendants of it live, *)
(* whether cgroup.kill was written, and the output readers.  clean is what *)
(* run_task has recorded about its cleanup attempts; its fields failed and *)
(* waitError are history: a cleanup operation failed, and waitpid itself   *)
(* failed on a child that was not RUNNING yet.  Every operation can fail,  *)
(* and every wait that has a deadline can run into it.  Cleanup deadlines  *)
(* are always representable: bootstrap/config.rs rejects a zero cleanup    *)
(* timeout and milliseconds in 64 bits do not overflow an Instant.         *)
(***************************************************************************)
EXTENDS FailStop, Termination, Naturals

CONSTANTS
    Job,            \* the task run_task is called for
    EventSets       \* the sets of cgroup events a finished task may show

ASSUME JobAssumption == Job \in Tasks

VARIABLES
    pc,             \* where run_task is
    job,
    clean,
    started,        \* the remaining variables are those of Execution, for Job
    latch,
    control,
    daemon_error,
    outcome,
    reason

verdictVars == <<started, latch, control, daemon_error, outcome, reason>>
executorVars == <<failStopVars, pc, job, clean, verdictVars>>

(***************************************************************************)
(* Why the job is being cleaned up: cleanup_job_for_fail_stop, cleanup_job *)
(* _after_failure, cleanup_pending_job_until, finish_exec_failure,         *)
(* finish_cleaned_started, or cleanup_running_job.                         *)
(***************************************************************************)
Paths == {"NONE", "FAIL_STOP", "FAILURE", "PENDING", "EXEC_FAILED", "STARTED", "RECOVERY"}

\* The types of the executor's state and of the kernel state of its job.
ExecutorTypeOK ==
    /\ FailStopTypeOK
    /\ pc \in {"START", "JOB", "SPAWNED", "COMMITTED", "STOP", "STARTED", "ABORT",
               "ABORT_AGAIN", "KILL", "REAP", "R_KILL", "R_REAP", "R_AGAIN", "R_REAP_AGAIN",
               "FINISH", "EMPTY", "REMOVE", "FINISHED", "DROP", "REAP_LAST", "OUTPUT", "DONE"}
    /\ job \in [cgroup  : {"ABSENT", "PRESENT", "REMOVED"},
                child   : {"NONE", "GATED", "RELEASED", "EXECED", "FAILED", "DEAD", "REAPED"},
                forks   : BOOLEAN,
                killed  : BOOLEAN,
                execed  : BOOLEAN,
                readers : {"NONE", "OPEN", "JOINED"}]
    /\ clean \in [path : Paths, attempt : 1 .. 2, killSent : BOOLEAN, reaped : BOOLEAN,
                  aborted : BOOLEAN, uncertain : BOOLEAN, finish : {"NONE", "OK", "ERR"},
                  failed : BOOLEAN, waitError : BOOLEAN]
    /\ started \in BOOLEAN
    /\ latch \in LatchStates
    /\ control \in {"NONE", "TIMED_OUT", "CANCELLED"}
    /\ daemon_error \in BOOLEAN
    /\ outcome \in {"NONE", "COMPLETED", "REUSABLE", "BLOCKED", "UNCERTAIN"}

ExecutorInit ==
    /\ phase = "HEALTHY"
    /\ firstReport = NoTask
    /\ active = [t \in Tasks |-> IF t = Job THEN "PENDING" ELSE "NONE"]
    /\ pc = "START"
    /\ job = [cgroup |-> "ABSENT", child |-> "NONE", forks |-> FALSE, killed |-> FALSE,
              execed |-> FALSE, readers |-> "NONE"]
    /\ clean = [path |-> "NONE", attempt |-> 1, killSent |-> FALSE, reaped |-> FALSE,
                aborted |-> FALSE, uncertain |-> FALSE, finish |-> "NONE",
                failed |-> FALSE, waitError |-> FALSE]
    /\ started = FALSE
    /\ latch = "OPEN"
    /\ control = "NONE"
    /\ daemon_error = FALSE
    /\ outcome = "NONE"
    /\ reason = "NONE"

Alive == {"GATED", "RELEASED", "EXECED"}

\* The child has ended and was not waited for: waitpid returns its status.
Zombie == job.child \in {"FAILED", "DEAD"}

\* cgroup.events populated: a zombie does not count.
Populated == job.child \in Alive \/ job.forks

-----------------------------------------------------------------------------
(* The kernel and the other tasks *)

KernelMoves(next) ==
    /\ job.cgroup # "REMOVED"
    /\ job' = next
    /\ UNCHANGED <<failStopVars, pc, clean, verdictVars>>

ChildExecs == job.child = "RELEASED" /\ KernelMoves([job EXCEPT !.child = "EXECED", !.execed = TRUE])

\* dup2, prctl, chdir or execve fails: the child reports errno and exits.
ChildExecFails ==
    /\ job.child \in {"GATED", "RELEASED"}
    /\ KernelMoves([job EXCEPT !.child = "FAILED"])

\* The child exits, or is killed by a signal or by the OOM killer.
ChildDies == job.child \in Alive /\ KernelMoves([job EXCEPT !.child = "DEAD"])

ChildForks ==
    /\ job.child = "EXECED" /\ ~job.forks /\ ~job.killed
    /\ KernelMoves([job EXCEPT !.forks = TRUE])

ForksExit == job.forks /\ KernelMoves([job EXCEPT !.forks = FALSE])

\* A client cancels the RUNNING task.
CancelAccepted ==
    /\ started /\ latch = "OPEN"
    /\ latch' = "CANCELLED"
    /\ UNCHANGED <<failStopVars, pc, job, clean, started, control, daemon_error, outcome,
                   reason>>

\* The cleanup of another task fails.
OtherFails ==
    /\ \E t \in Tasks \ {Job} : activate(t)
    /\ UNCHANGED <<active, pc, job, clean, verdictVars>>

Environment ==
    \/ ChildExecs
    \/ ChildExecFails
    \/ ChildDies
    \/ ChildForks
    \/ ForksExit
    \/ CancelAccepted
    \/ OtherFails

-----------------------------------------------------------------------------
(* Building blocks *)

Goto(next) == pc' = next

\* run_task returns; a blocking failure activates fail-stop on the way.
Return(result) ==
    /\ Goto("DONE")
    /\ outcome' = result
    /\ IF result \in {"BLOCKED", "UNCERTAIN"}
       THEN activate(Job)
       ELSE UNCHANGED <<phase, firstReport>>
    /\ UNCHANGED <<active, started, latch, control, daemon_error>>

ReturnFailure(result) == Return(result) /\ UNCHANGED <<job, clean, reason>>

CleanUp(path, first) ==
    /\ Goto(first)
    /\ clean' = [clean EXCEPT !.path = path]

Silent == UNCHANGED <<failStopVars, verdictVars>>

\* cgroup.kill stops the processes at some later point; none is forked any more.
Killed == [job EXCEPT !.killed = TRUE]

Reaped == [job EXCEPT !.child = "REAPED"]

ReapedAndJoined == [job EXCEPT !.child = "REAPED", !.readers = "JOINED"]

OnlyJoined == [job EXCEPT !.readers = "JOINED"]

-----------------------------------------------------------------------------
(* run_task and execute, up to the gate *)

\* is_fail_stopping in run_task, and deadline() at the top of execute.
RefuseStart == pc = "START" /\ is_fail_stopping /\ ReturnFailure("BLOCKED")

\* prepare_resolved_command fails, or create_job fails and rolled back.
RejectCommand == pc = "START" /\ ReturnFailure("REUSABLE")

\* CoreFailure::before_job with an uncertain rollback.
CreateJobUncertain ==
    /\ pc = "START"
    /\ \E left \in {"ABSENT", "PRESENT"} : job' = [job EXCEPT !.cgroup = left]
    /\ clean' = [clean EXCEPT !.failed = TRUE]
    /\ Return("UNCERTAIN")
    /\ UNCHANGED reason

CreateJob ==
    /\ pc = "START"
    /\ job' = [job EXCEPT !.cgroup = "PRESENT"]
    /\ Goto("JOB")
    /\ Silent /\ UNCHANGED clean

FailStopAfterCreate ==
    /\ pc = "JOB" /\ is_fail_stopping
    /\ CleanUp("FAIL_STOP", "FINISH")
    /\ Silent /\ UNCHANGED job

SpawnFails ==
    /\ pc = "JOB"
    /\ CleanUp("FAILURE", "FINISH")
    /\ Silent /\ UNCHANGED job

Spawn ==
    /\ pc = "JOB"
    /\ job' = [job EXCEPT !.child = "GATED", !.readers = "OPEN"]
    /\ Goto("SPAWNED")
    /\ Silent /\ UNCHANGED clean

\* Fail-stop seen after spawn or by commit_start, or contains_pid not true.
AbortSpawned ==
    /\ pc = "SPAWNED"
    /\ CleanUp("PENDING", "ABORT")
    /\ Silent /\ UNCHANGED job

\* Faulty: the gate is reported closed although the byte went through.
GateFails_AfterWrite ==
    /\ pc = "SPAWNED" /\ job.child = "GATED"
    /\ commit_gate_failed(Job)
    /\ job' = [job EXCEPT !.child = "RELEASED"]
    /\ CleanUp("PENDING", "ABORT")
    /\ UNCHANGED verdictVars

GateFails ==
    /\ pc = "SPAWNED"
    /\ commit_gate_failed(Job)
    /\ CleanUp("PENDING", "ABORT")
    /\ UNCHANGED <<job, verdictVars>>

\* The byte is written to the gate inside commit_start.
CommitStart ==
    /\ pc = "SPAWNED" /\ job.child = "GATED"
    /\ commit_start(Job)
    /\ job' = [job EXCEPT !.child = "RELEASED"]
    /\ Goto("COMMITTED")
    /\ UNCHANGED <<clean, verdictVars>>

\* Faulty: fail-stop is activated without a look at the result of the abort.
AbortOk_Reports ==
    /\ pc \in {"ABORT", "ABORT_AGAIN"}
    /\ job' = ReapedAndJoined
    /\ Goto("FINISH")
    /\ clean' = [clean EXCEPT !.aborted = TRUE]
    /\ activate(Job)
    /\ UNCHANGED <<active, verdictVars>>

\* cleanup_pending_job_until: kill the child, reap it, join the readers.
AbortOk ==
    /\ pc \in {"ABORT", "ABORT_AGAIN"}
    /\ job' = ReapedAndJoined
    /\ Goto("FINISH")
    /\ clean' = [clean EXCEPT !.aborted = TRUE]
    /\ Silent

\* waitpid fails, which leaves the readers alone, or the deadline passes.  Only
\* the first failure activates fail-stop.
AbortFails ==
    /\ \/ pc = "ABORT" /\ Goto("ABORT_AGAIN") /\ activate(Job)
       \/ pc = "ABORT_AGAIN" /\ Goto("FINISH") /\ UNCHANGED <<phase, firstReport>>
    /\ \/ job' = OnlyJoined /\ clean' = [clean EXCEPT !.failed = TRUE]
       \/ UNCHANGED job /\ clean' = [clean EXCEPT !.failed = TRUE, !.waitError = TRUE]
    /\ UNCHANGED <<active, verdictVars>>

-----------------------------------------------------------------------------
(***************************************************************************)
(* wait_for_exec.  A child reports errno with one write of four bytes to a *)
(* pipe, which the kernel never splits: a report is empty or complete, and *)
(* the branch for a report of any other length (InvalidExecPayload) is not *)
(* reachable.                                                              *)
(***************************************************************************)

\* The exec pipe reached end of file with no errno in it.
ExecReported ==
    /\ pc = "COMMITTED" /\ job.child \in {"EXECED", "DEAD"}
    /\ Goto("STARTED")
    /\ started' = TRUE
    /\ UNCHANGED <<failStopVars, job, clean, latch, control, daemon_error, outcome, reason>>

\* The child is reaped and its output collected, which may fail.
ExecFailureReported ==
    /\ pc = "COMMITTED" /\ job.child = "FAILED"
    /\ job' = ReapedAndJoined
    /\ \E path \in {"EXEC_FAILED", "FAILURE"} : CleanUp(path, "FINISH")
    /\ Silent

\* Reading the pipe fails: stop_and_reap kills the child and waits for it.
ExecPipeFails ==
    /\ pc = "COMMITTED"
    /\ Goto("STOP")
    /\ Silent /\ UNCHANGED <<job, clean>>

StopReaps ==
    /\ pc = "STOP" /\ Zombie
    /\ job' = ReapedAndJoined
    /\ CleanUp("FAILURE", "FINISH")
    /\ Silent

\* waitpid fails in wait_for_exec: the child's end is not proved.
ExecWaitFails ==
    /\ pc = "STOP" \/ (pc = "COMMITTED" /\ job.child = "FAILED")
    /\ job' = OnlyJoined
    /\ Goto("FINISH")
    /\ clean' = [clean EXCEPT !.path = "FAILURE", !.uncertain = TRUE, !.failed = TRUE,
                              !.waitError = TRUE]
    /\ Silent

-----------------------------------------------------------------------------
(* finish_started_process: the biased select and what it decides *)

Decide(first, daemonError, next) ==
    /\ pc = "STARTED"
    /\ Goto(next)
    /\ latch' = first
    /\ control' = Trigger(first)
    /\ daemon_error' = daemonError
    /\ UNCHANGED <<failStopVars, started, outcome, reason>>

\* A first operation on the running job failed: cleanup_running_job is called.
Recovers == clean' = [clean EXCEPT !.path = "RECOVERY", !.failed = TRUE]

Cancelled ==
    /\ latch = "CANCELLED"
    /\ Decide(latch, FALSE, "KILL")
    /\ clean' = [clean EXCEPT !.path = "STARTED"]
    /\ UNCHANGED job

FailStopObserved ==
    /\ is_fail_stopping
    /\ Decide(latch, TRUE, "KILL")
    /\ clean' = [clean EXCEPT !.path = "STARTED"]
    /\ UNCHANGED job

TimedOut ==
    /\ Decide(FirstOf(latch, "TIMED_OUT"), FALSE, "KILL")
    /\ clean' = [clean EXCEPT !.path = "STARTED"]
    /\ UNCHANGED job

\* The child was reaped.  If a cancel won the latch, cgroup.kill is tried.
Exited ==
    /\ job.child = "DEAD"
    /\ Decide(FirstOf(latch, "CLOSED"), FALSE, "FINISH")
    /\ \E killSent \in {FALSE, latch # "OPEN"} :
          /\ job' = IF killSent THEN [Killed EXCEPT !.child = "REAPED"] ELSE Reaped
          /\ clean' = [clean EXCEPT !.path = "STARTED", !.killSent = killSent, !.reaped = TRUE]

WaitFails ==
    /\ Decide(latch, TRUE, "R_KILL")
    /\ Recovers
    /\ UNCHANGED job

-----------------------------------------------------------------------------
(* finish_controlled_process *)

ControlledKill ==
    /\ pc = "KILL"
    /\ \/ /\ job' = Killed
          /\ Goto("REAP")
          /\ clean' = [clean EXCEPT !.killSent = TRUE]
       \/ /\ Goto("R_KILL")
          /\ Recovers
          /\ UNCHANGED job
    /\ Silent

ControlledReap ==
    /\ pc = "REAP"
    /\ \/ /\ job.child = "DEAD"
          /\ job' = Reaped
          /\ Goto("FINISH")
          /\ clean' = [clean EXCEPT !.reaped = TRUE]
       \/ /\ Goto("R_KILL")
          /\ Recovers
          /\ UNCHANGED job
    /\ Silent

-----------------------------------------------------------------------------
(* cleanup_running_job *)

KillAttempt ==
    \/ job' = Killed /\ clean' = [clean EXCEPT !.killSent = TRUE]
    \/ UNCHANGED job /\ clean' = [clean EXCEPT !.killSent = FALSE]

ReapAttempt ==
    \/ job.child = "DEAD" /\ job' = Reaped /\ clean' = [clean EXCEPT !.reaped = TRUE]
    \/ UNCHANGED <<job, clean>>

RecoverKill == pc = "R_KILL" /\ KillAttempt /\ Goto("R_REAP") /\ Silent

RecoverReap == pc = "R_REAP" /\ ReapAttempt /\ Goto("R_AGAIN") /\ Silent

\* Faulty: a recovery that succeeded at once does not stop the daemon.
RecoverAgain_Quiet ==
    /\ pc = "R_AGAIN"
    /\ UNCHANGED <<phase, firstReport>>
    /\ IF clean.killSent THEN UNCHANGED <<job, clean>> ELSE KillAttempt
    /\ Goto(IF clean.reaped THEN "FINISH" ELSE "R_REAP_AGAIN")
    /\ daemon_error' = TRUE
    /\ UNCHANGED <<active, started, latch, control, outcome, reason>>

\* Fail-stop is activated even when both attempts succeeded.
RecoverAgain ==
    /\ pc = "R_AGAIN"
    /\ activate(Job)
    /\ IF clean.killSent THEN UNCHANGED <<job, clean>> ELSE KillAttempt
    /\ Goto(IF clean.reaped THEN "FINISH" ELSE "R_REAP_AGAIN")
    /\ daemon_error' = TRUE
    /\ UNCHANGED <<active, started, latch, control, outcome, reason>>

RecoverReapAgain == pc = "R_REAP_AGAIN" /\ ReapAttempt /\ Goto("FINISH") /\ Silent

-----------------------------------------------------------------------------
(* finish_job_with_retry over JobCgroup::finish_until *)

\* is_populated and kill_all, unless cgroup.kill was already written.
FinishBegins ==
    /\ pc = "FINISH"
    /\ \/ clean.killSent /\ clean.attempt = 1 /\ UNCHANGED job
       \/ ~(clean.killSent /\ clean.attempt = 1) /\ job' = IF Populated THEN Killed ELSE job
    /\ Goto("EMPTY")
    /\ Silent /\ UNCHANGED clean

WaitEmpty ==
    /\ pc = "EMPTY" /\ ~Populated
    /\ Goto("REMOVE")
    /\ Silent /\ UNCHANGED <<job, clean>>

RemoveOk ==
    /\ pc = "REMOVE" /\ ~Populated
    /\ job' = [job EXCEPT !.cgroup = "REMOVED"]
    /\ clean' = [clean EXCEPT !.finish = "OK"]
    /\ Goto("FINISHED")
    /\ Silent

\* The statistics are unreadable; removal is attempted all the same.
StatsFail ==
    /\ pc = "REMOVE" /\ ~Populated
    /\ job' = [job EXCEPT !.cgroup = "REMOVED"]
    /\ clean' = [clean EXCEPT !.finish = "ERR", !.failed = TRUE]
    /\ Goto("FINISHED")
    /\ IF clean.attempt = 1 /\ clean.path # "FAIL_STOP"
       THEN /\ activate(Job)
            /\ daemon_error' = (daemon_error \/ started)
       ELSE UNCHANGED <<phase, firstReport, daemon_error>>
    /\ UNCHANGED <<active, started, latch, control, outcome, reason>>

\* Faulty: the attempt is repeated for ever.
FinishFails_Forever ==
    /\ pc \in {"FINISH", "EMPTY", "REMOVE"}
    /\ activate(Job)
    /\ daemon_error' = (daemon_error \/ started)
    /\ clean' = [clean EXCEPT !.attempt = 2, !.failed = TRUE]
    /\ Goto("FINISH")
    /\ UNCHANGED <<active, job, started, latch, control, outcome, reason>>

\* An operation of the attempt fails or its deadline passes, with the cgroup
\* still there: once, fail-stop is activated and the attempt repeated.
FinishFails ==
    /\ pc \in {"FINISH", "EMPTY", "REMOVE"}
    /\ \/ /\ clean.attempt = 1 /\ clean.path # "FAIL_STOP"
          /\ activate(Job)
          /\ daemon_error' = (daemon_error \/ started)
          /\ clean' = [clean EXCEPT !.attempt = 2, !.failed = TRUE]
          /\ Goto("FINISH")
       \/ /\ clean.attempt = 2 \/ clean.path = "FAIL_STOP"
          /\ clean' = [clean EXCEPT !.finish = "ERR", !.failed = TRUE]
          /\ Goto("FINISHED")
          /\ UNCHANGED <<phase, firstReport, daemon_error>>
    /\ UNCHANGED <<active, job, started, latch, control, outcome, reason>>

-----------------------------------------------------------------------------
(* What each path makes of its attempts *)

FinishOk == clean.finish = "OK"

\* The result of the paths that end here.
PathResult ==
    CASE ~FinishOk -> "UNCERTAIN"
      [] FinishOk /\ clean.path = "FAIL_STOP" -> "BLOCKED"
      [] FinishOk /\ clean.path = "FAILURE" ->
            IF clean.uncertain THEN "UNCERTAIN" ELSE "REUSABLE"
      [] FinishOk /\ clean.path = "PENDING" ->
            IF clean.aborted THEN "REUSABLE" ELSE "UNCERTAIN"
      [] FinishOk /\ clean.path = "EXEC_FAILED" -> "COMPLETED"

\* Faulty: a pending child that could not be aborted is not waited for.
EndUnstarted_NotDropped ==
    /\ pc = "FINISHED" /\ clean.path \in {"FAIL_STOP", "FAILURE", "PENDING", "EXEC_FAILED"}
    /\ Return(PathResult)
    /\ IF PathResult = "COMPLETED"
       THEN \E events \in EventSets :
               reason' = classify_termination(events, "NONE", FALSE, FALSE)
       ELSE UNCHANGED reason
    /\ UNCHANGED <<job, clean>>

EndUnstarted ==
    /\ pc = "FINISHED"
    /\ \/ clean.path \in {"FAIL_STOP", "FAILURE", "EXEC_FAILED"}
       \/ clean.path = "PENDING" /\ clean.aborted
    /\ Return(PathResult)
    /\ IF PathResult = "COMPLETED"
       THEN \E events \in EventSets :
               reason' = classify_termination(events, "NONE", FALSE, FALSE)
       ELSE UNCHANGED reason
    /\ UNCHANGED <<job, clean>>

\* The end of cleanup_pending_job_until drops a PendingProcess that was not
\* reaped: it is killed once more and waited for without a deadline.
DropPending ==
    /\ pc = "FINISHED" /\ clean.path = "PENDING" /\ ~clean.aborted
    /\ Goto("DROP")
    /\ Silent /\ UNCHANGED <<job, clean>>

DropReaps ==
    /\ pc = "DROP" /\ Zombie
    /\ job' = ReapedAndJoined
    /\ Return("UNCERTAIN")
    /\ UNCHANGED <<clean, reason>>

\* waitpid fails; drop ignores it.
DropWaitFails ==
    /\ pc = "DROP"
    /\ job' = OnlyJoined
    /\ clean' = [clean EXCEPT !.waitError = TRUE]
    /\ Return("UNCERTAIN")
    /\ UNCHANGED reason

\* cleanup_running_job tries to reap once more after the cgroup is gone.
EndStarted ==
    /\ pc = "FINISHED" /\ clean.path \in {"STARTED", "RECOVERY"}
    /\ Goto(IF FinishOk /\ ~clean.reaped THEN "REAP_LAST" ELSE "OUTPUT")
    /\ Silent /\ UNCHANGED <<job, clean>>

ReapLast == pc = "REAP_LAST" /\ ReapAttempt /\ Goto("OUTPUT") /\ Silent

\* Faulty: an empty cgroup is taken for a reaped child.
CleanupProved_NoReap == FinishOk

CleanupProved == FinishOk /\ clean.reaped /\ (clean.path = "RECOVERY" => clean.killSent)

\* collect_until joined both readers; the lifecycle may still reject the exit.
OutputOk ==
    /\ pc = "OUTPUT"
    /\ job' = OnlyJoined
    /\ \E result \in IF CleanupProved THEN {"COMPLETED", "REUSABLE"} ELSE {"UNCERTAIN"} :
          /\ Return(result)
          /\ IF result = "COMPLETED"
             THEN \E events \in EventSets :
                     reason' = classify_termination(events, control, daemon_error, TRUE)
             ELSE UNCHANGED reason
    /\ UNCHANGED clean

\* A reader failed or the deadline passed; both readers are joined all the same.
OutputFails ==
    /\ pc = "OUTPUT"
    /\ job' = OnlyJoined
    /\ clean' = [clean EXCEPT !.failed = TRUE]
    /\ Return("UNCERTAIN")
    /\ UNCHANGED reason

RunTask ==
    \/ RefuseStart \/ RejectCommand \/ CreateJobUncertain \/ CreateJob
    \/ FailStopAfterCreate \/ SpawnFails \/ Spawn
    \/ AbortSpawned \/ GateFails \/ CommitStart \/ AbortOk \/ AbortFails
    \/ ExecReported \/ ExecFailureReported \/ ExecPipeFails \/ StopReaps \/ ExecWaitFails
    \/ Cancelled \/ FailStopObserved \/ TimedOut \/ Exited \/ WaitFails
    \/ ControlledKill \/ ControlledReap
    \/ RecoverKill \/ RecoverReap \/ RecoverAgain \/ RecoverReapAgain
    \/ FinishBegins \/ WaitEmpty \/ RemoveOk \/ StatsFail \/ FinishFails
    \/ EndUnstarted \/ DropPending \/ DropReaps \/ DropWaitFails
    \/ EndStarted \/ ReapLast \/ OutputOk \/ OutputFails

Returned == pc = "DONE" /\ UNCHANGED executorVars

ExecutorNext == RunTask \/ Environment \/ Returned

ExecutorSpec == ExecutorInit /\ [][ExecutorNext]_executorVars

(***************************************************************************)
(* run_task keeps running: all its waits are bounded by deadlines but for  *)
(* three.  wait_for_exec reads the report until the child has executed its *)
(* program or ended, so the kernel has to finish execve one way or the     *)
(* other.  stop_and_reap, after an unreadable report and in the drop of a  *)
(* pending child that could not be aborted, waits for a child it has sent  *)
(* SIGKILL, so the kernel has to end a killed process.  Nothing is assumed *)
(* of a child at the gate.                                                 *)
(***************************************************************************)
FairExecutorSpec ==
    /\ ExecutorSpec
    /\ WF_executorVars(pc \notin {"COMMITTED", "STOP", "DROP"} /\ RunTask)
    /\ WF_executorVars(ExecReported \/ ExecFailureReported)
    /\ WF_executorVars(job.child = "RELEASED" /\ (ChildExecs \/ ChildExecFails))
    /\ WF_executorVars(StopReaps \/ DropReaps)
    /\ WF_executorVars(pc \in {"STOP", "DROP"} /\ ChildDies)

-----------------------------------------------------------------------------
(* Properties *)

\* A result other than UNCERTAIN lets the daemon publish FINISHED, reuse the slot
\* or forget the request (run_task's capacity_reusable and cleanup_complete).
\* Then no process of the job is left, its child was reaped, its cgroup removed
\* and its readers joined, whatever failed on the way.
ResultMeansGone ==
    outcome \in {"COMPLETED", "REUSABLE", "BLOCKED"} =>
        /\ ~Populated
        /\ job.cgroup # "PRESENT"
        /\ job.child \in {"NONE", "REAPED"}
        /\ job.readers # "OPEN"

\* A start that was given up before its commit (cleanup_pending_job_until) has
\* run nothing, so the request may be tried again, and when run_task returns its
\* readers are joined and its child was waited for, by one of the two aborts or
\* by the drop, unless waitpid itself failed.
AbandonedIsCollected ==
    clean.path = "PENDING" =>
        /\ ~job.execed
        /\ pc = "DONE" => /\ job.readers = "JOINED"
                          /\ job.child = "REAPED" \/ clean.waitError

\* run_task raises fail-stop only when one of its own cleanup operations failed:
\* an end by exit, timeout or cancel, a refused or an aborted start, and an
\* unreadable exec report leave the daemon accepting work once they are clean.
FailStopHasCause == firstReport = Job => clean.failed

\* The comment at RUNNING's publication in run_task says that the snapshot is
\* published after execve was confirmed to have succeeded.
RunningMeansExeced == started => job.execed

\* run_task returns, whatever fails, as long as the kernel finishes execve and
\* ends killed processes: a task never stays RUNNING for ever.
RunTaskReturns == <>(pc = "DONE")

(***************************************************************************)
(* Execution, the contract the service relies on, sees only what run_task  *)
(* has proved about the tree.                                              *)
(***************************************************************************)
ExecAs ==
    CASE pc = "START" -> "PREPARING"
      [] pc \in {"COMMITTED", "STARTED", "DONE"} -> pc
      [] OTHER -> IF started THEN "STOPPING"
                  ELSE IF active[Job] = "COMMITTED" THEN "COMMITTED"
                  ELSE "GATED"

TreeAs ==
    CASE pc = "START" -> "NONE"
      [] pc = "DONE" -> IF outcome = "UNCERTAIN" THEN "UNKNOWN"
                        ELSE IF job.cgroup = "ABSENT" THEN "NONE" ELSE "GONE"
      [] OTHER -> IF active[Job] = "COMMITTED" THEN "LIVE" ELSE "GATED"

ForJob(value, other) == [t \in Tasks |-> IF t = Job THEN value ELSE other]

Contract == INSTANCE Execution WITH
    exec <- ForJob(ExecAs, "IDLE"),
    tree <- ForJob(TreeAs, "NONE"),
    started <- ForJob(started, FALSE),
    latch <- ForJob(latch, "OPEN"),
    control <- ForJob(control, "NONE"),
    daemon_error <- ForJob(daemon_error, FALSE),
    outcome <- ForJob(outcome, "NONE"),
    reason <- ForJob(reason, "NONE")

\* Every step of run_task down to the kernel is a step, or no step, of the
\* execution the service was checked against.
ImplementsExecution ==
    Contract!RunTaskInit(Job) /\ [][Contract!RunTaskNext(Job)]_(Contract!runTaskVars)
=============================================================================

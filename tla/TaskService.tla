---------------------------- MODULE TaskService ----------------------------
(***************************************************************************)
(* The task path of taskcaged: submit calls, execution owners and cancel   *)
(* calls over the task registry, the fail-stop coordinator, the slots and  *)
(* the executions (daemon/src/application/task/submit.rs, completion.rs,   *)
(* cancellation.rs and daemon/src/adapters/task_service.rs).               *)
(*                                                                         *)
(* A submit call, the owner task it may spawn and the cancel calls of      *)
(* other clients run concurrently.  An action is one critical section of   *)
(* one of them; between two actions every other may run.                   *)
(***************************************************************************)
EXTENDS TaskRegistry, Capacity, Execution

CONSTANT
    Cancellable     \* the tasks some client cancels: a bound on cancel calls

ASSUME CancellableAssumption == Cancellable \subseteq Tasks

VARIABLES
    call,           \* where each submit call is
    waitOn,         \* the task a submit call reports
    got,            \* what a submit call has been told
    owner,          \* where the owner of each task is
    signal,         \* SubmitSignal::observation of each task
    cancel          \* the cancel call of each task, and its answer

serviceVars == <<call, waitOn, got, owner, signal, cancel>>

vars == <<registryVars, failStopVars, capacityVars, executionVars, serviceVars>>

Observations == {"NONE", "RUNNING", "FINISHED", "FAILED"}

Answers == Observations \cup {"CONFLICT", "REGISTRY_FULL", "UNAVAILABLE", "LIMITS_GONE"}

ServiceTypeOK ==
    /\ call \in [Tasks -> {"NEW", "ADMIT", "WAIT", "OWNER", "LIMITS", "DONE"}]
    /\ waitOn \in [Tasks -> Tasks \cup {NoTask}]
    /\ got \in [Tasks -> Answers]
    /\ owner \in [Tasks -> {"NONE", "RESERVED", "EXECUTING", "PUBLISHED", "RUNNING",
                            "STORED", "ROLLED_BACK", "COMPLETING", "RELEASING",
                            "DROPPING", "RETAINING", "NOTIFYING", "FAILING", "FAILED",
                            "ABANDONING", "RUN_FAILED", "RUN_KEPT", "RUN_RETAIN",
                            "ORPHANING", "DONE"}]
    /\ signal \in [Tasks -> Observations]
    /\ cancel \in [Tasks -> {"IDLE", "WAITING", "TASK_CANCELLED", "TASK_ALREADY_FINISHED",
                             "TASK_NOT_FOUND"}]

\* The types of every variable of the task path.
TypeOK ==
    /\ RegistryTypeOK
    /\ FailStopTypeOK
    /\ CapacityTypeOK
    /\ ExecutionTypeOK
    /\ ServiceTypeOK

Init ==
    /\ RegistryInit
    /\ FailStopInit
    /\ CapacityInit
    /\ ExecutionInit
    /\ call = [t \in Tasks |-> "NEW"]
    /\ waitOn = [t \in Tasks |-> NoTask]
    /\ got = [t \in Tasks |-> "NONE"]
    /\ owner = [t \in Tasks |-> "NONE"]
    /\ signal = [t \in Tasks |-> "NONE"]
    /\ cancel = [t \in Tasks |-> "IDLE"]

-----------------------------------------------------------------------------
(* Building blocks *)

Answer(c, answer) ==
    /\ call' = [call EXCEPT ![c] = "DONE"]
    /\ got' = [got EXCEPT ![c] = answer]
    /\ UNCHANGED waitOn

WaitFor(c, t) ==
    /\ call' = [call EXCEPT ![c] = "WAIT"]
    /\ waitOn' = [waitOn EXCEPT ![c] = t]
    /\ UNCHANGED got

\* Faulty: the submit call is never woken.
SendInitial_Lost(t, observation) == UNCHANGED <<call, waitOn, got>>

\* The owner's oneshot wakes its own submit call, once.
SendInitial(t, observation) ==
    IF call[t] = "OWNER"
    THEN /\ call' = [call EXCEPT ![t] = "LIMITS"]
         /\ got' = [got EXCEPT ![t] = observation]
         /\ UNCHANGED waitOn
    ELSE UNCHANGED <<call, waitOn, got>>

OwnerGoes(t, from, to) ==
    /\ owner[t] = from
    /\ owner' = [owner EXCEPT ![t] = to]

publish(t, observation) == signal' = [signal EXCEPT ![t] = observation]

ExecutionDone(t) == exec[t] = "DONE"

-----------------------------------------------------------------------------
(* The submit call: coordinate_validated_submit_with_runtime *)

\* existing_submit, before any admission check.
ExistingSubmit(c) ==
    /\ call[c] = "NEW"
    /\ \E r \in AfterPurge(registry) :
          /\ registry' = r
          /\ \/ /\ ~HasExisting(r, c)
                /\ call' = [call EXCEPT ![c] = "ADMIT"]
                /\ UNCHANGED <<waitOn, got>>
             \/ /\ HasExisting(r, c)
                /\ SameIdentity(r, c)
                /\ WaitFor(c, r.requests[KeyOf[c]])
             \/ /\ HasExisting(r, c)
                /\ ~SameIdentity(r, c)
                /\ Answer(c, "CONFLICT")
    /\ UNCHANGED <<now, owner, signal, cancel, failStopVars, capacityVars, executionVars>>

\* try_admit fails.
RejectUnavailable(c) ==
    /\ call[c] = "ADMIT"
    /\ is_fail_stopping
    /\ Answer(c, "UNAVAILABLE")
    /\ UNCHANGED <<owner, signal, cancel, registryVars, failStopVars, capacityVars,
                   executionVars>>

\* try_admit succeeds: reserve_submit_with and register under its guard.
AdmitAndReserve(c) ==
    /\ call[c] = "ADMIT"
    /\ \E r \in AfterPurge(registry) :
          /\ CanReserve(r, c)
          /\ registry' = Reserved(r, c)
    /\ register(c)
    /\ OwnerGoes(c, "NONE", "RESERVED")
    /\ call' = [call EXCEPT ![c] = "OWNER"]
    /\ waitOn' = [waitOn EXCEPT ![c] = c]
    /\ UNCHANGED <<now, got, signal, cancel, capacityVars, executionVars>>

\* try_admit succeeds and the reservation does not.
AdmitWithoutReserve(c) ==
    /\ call[c] = "ADMIT"
    /\ ~is_fail_stopping
    /\ \E r \in AfterPurge(registry) :
          /\ registry' = r
          /\ \/ /\ HasExisting(r, c)
                /\ SameIdentity(r, c)
                /\ WaitFor(c, r.requests[KeyOf[c]])
             \/ /\ HasExisting(r, c)
                /\ ~SameIdentity(r, c)
                /\ Answer(c, "CONFLICT")
             \/ /\ ~HasExisting(r, c)
                /\ IsFull(r)
                /\ Answer(c, "REGISTRY_FULL")
    /\ UNCHANGED <<now, owner, signal, cancel, failStopVars, capacityVars, executionVars>>

\* SubmitWaiter::wait returns the observation the signal holds.
WaiterWakes(c) ==
    /\ call[c] = "WAIT"
    /\ signal[waitOn[c]] # "NONE"
    /\ call' = [call EXCEPT ![c] = "LIMITS"]
    /\ got' = [got EXCEPT ![c] = signal[waitOn[c]]]
    /\ UNCHANGED <<waitOn, owner, signal, cancel, registryVars, failStopVars,
                   capacityVars, executionVars>>

\* effective_limits_for: a RUNNING answer carries the stored limits.
EffectiveLimits(c) ==
    /\ call[c] = "LIMITS"
    /\ \/ /\ got[c] # "RUNNING"
          /\ Answer(c, got[c])
          /\ UNCHANGED registry
       \/ /\ got[c] = "RUNNING"
          /\ \E r \in AfterPurge(registry) :
                /\ registry' = r
                /\ Answer(c, IF HasLimits(r, waitOn[c]) THEN "RUNNING" ELSE "LIMITS_GONE")
    /\ UNCHANGED <<now, owner, signal, cancel, failStopVars, capacityVars, executionVars>>

\* try_acquire succeeds and the owner task is spawned.
AcquireAndSpawn(t) ==
    /\ OwnerGoes(t, "RESERVED", "EXECUTING")
    /\ try_acquire(t)
    /\ BeginExecution(t)
    /\ UNCHANGED <<call, waitOn, got, signal, cancel, registryVars, failStopVars>>

\* Faulty: the reservation is given back while the execution goes on.
RollBack_Early(t) ==
    /\ \/ OwnerGoes(t, "RESERVED", "ROLLED_BACK") /\ ~HasRoom
       \/ OwnerGoes(t, "EXECUTING", "ROLLED_BACK") /\ ~started[t]
    /\ \E r \in AfterPurge(registry) :
          /\ verify_owner(r, t)
          /\ registry' = Released(r, t)
    /\ UNCHANGED <<now, call, waitOn, got, signal, cancel, failStopVars, capacityVars,
                   executionVars>>

\* rollback_before_running, first half: release_failed_owner.  Either there
\* was no free slot, or the execution failed cleanly before RUNNING.
RollBack(t) ==
    /\ \/ OwnerGoes(t, "RESERVED", "ROLLED_BACK") /\ ~HasRoom
       \/ /\ OwnerGoes(t, "EXECUTING", "ROLLED_BACK")
          /\ ExecutionDone(t) /\ ~started[t] /\ outcome[t] = "REUSABLE"
    /\ \E r \in AfterPurge(registry) :
          /\ verify_owner(r, t)
          /\ registry' = Released(r, t)
    /\ UNCHANGED <<now, call, waitOn, got, signal, cancel, failStopVars, capacityVars,
                   executionVars>>

\* rollback_before_running, second half: the waiters are told.
PublishRollBack(t) ==
    /\ OwnerGoes(t, "ROLLED_BACK", "COMPLETING")
    /\ publish(t, "FAILED")
    /\ UNCHANGED <<call, waitOn, got, cancel, registryVars, failStopVars, capacityVars,
                   executionVars>>

-----------------------------------------------------------------------------
(* The owner: run_owner and what follows it *)

\* publish_running, inside the registry lock.
PublishRunningSnapshot(t) ==
    /\ OwnerGoes(t, "EXECUTING", "PUBLISHED")
    /\ started[t]
    /\ \E r \in AfterPurge(registry) :
          /\ CanPublishRunning(r, t)
          /\ registry' = WithRunning(r, t)
    /\ UNCHANGED <<now, call, waitOn, got, signal, cancel, failStopVars, capacityVars,
                   executionVars>>

\* publish_running, after the lock: waiters, then the submit call.
SignalRunning(t) ==
    /\ OwnerGoes(t, "PUBLISHED", "RUNNING")
    /\ publish(t, "RUNNING")
    /\ SendInitial(t, "RUNNING")
    /\ UNCHANGED <<cancel, registryVars, failStopVars, capacityVars, executionVars>>

\* Faulty: FINISHED is stored before run_task has returned.
StoreFinished_Early(t) ==
    /\ OwnerGoes(t, "RUNNING", "STORED")
    /\ \E r \in AfterPurge(registry) :
          /\ CanFinish(r, t)
          /\ registry' = WithFinished(r, t)
    /\ UNCHANGED <<now, call, waitOn, got, signal, cancel, failStopVars, capacityVars,
                   executionVars>>

\* finish_snapshot: FINISHED is stored, with or without a RUNNING before it.
StoreFinished(t) ==
    /\ \/ OwnerGoes(t, "EXECUTING", "STORED") /\ ~started[t]
       \/ OwnerGoes(t, "RUNNING", "STORED")
    /\ ExecutionDone(t) /\ outcome[t] = "COMPLETED"
    /\ \E r \in AfterPurge(registry) :
          /\ CanFinish(r, t)
          /\ registry' = WithFinished(r, t)
    /\ UNCHANGED <<now, call, waitOn, got, signal, cancel, failStopVars, capacityVars,
                   executionVars>>

\* Faulty: the waiters are told without the slot being released.
CompleteActive_NoRelease(t) ==
    /\ \/ OwnerGoes(t, "STORED", "NOTIFYING")
       \/ OwnerGoes(t, "COMPLETING", "NOTIFYING")
    /\ complete(t)
    /\ UNCHANGED <<call, waitOn, got, signal, cancel, registryVars, capacityVars,
                   executionVars>>

\* ActiveExecution::complete after FINISHED is stored or the reservation is
\* rolled back.  A call that never had a slot has none to release.
CompleteActive(t) ==
    /\ \/ OwnerGoes(t, "STORED", "RELEASING")
       \/ OwnerGoes(t, "COMPLETING", "RELEASING") /\ permit[t] = "HELD"
       \/ OwnerGoes(t, "COMPLETING", "NOTIFYING") /\ permit[t] = "NONE"
    /\ complete(t)
    /\ UNCHANGED <<call, waitOn, got, signal, cancel, registryVars, capacityVars,
                   executionVars>>

\* release_capacity looks at fail-stop, and then acts on what it saw.
ReleaseCapacityLook(t) ==
    /\ \/ OwnerGoes(t, "RELEASING", "DROPPING") /\ ~is_fail_stopping
       \/ OwnerGoes(t, "RELEASING", "RETAINING") /\ is_fail_stopping
    /\ UNCHANGED <<call, waitOn, got, signal, cancel, registryVars, failStopVars,
                   capacityVars, executionVars>>

ReleaseCapacityAct(t) ==
    /\ \/ OwnerGoes(t, "DROPPING", "NOTIFYING") /\ drop_permit(t)
       \/ OwnerGoes(t, "RETAINING", "NOTIFYING") /\ retain_for_fail_stop(t)
    /\ UNCHANGED <<call, waitOn, got, signal, cancel, registryVars, failStopVars,
                   executionVars>>

\* publish_completion after FINISHED; after a rollback only the submit call is
\* left to be told.
Notify(t) ==
    /\ OwnerGoes(t, "NOTIFYING", "DONE")
    /\ \/ /\ signal[t] = "FAILED"
          /\ SendInitial(t, "FAILED")
          /\ UNCHANGED signal
       \/ /\ signal[t] # "FAILED"
          /\ publish(t, "FINISHED")
          /\ SendInitial(t, "FINISHED")
    /\ UNCHANGED <<cancel, registryVars, failStopVars, capacityVars, executionVars>>

-----------------------------------------------------------------------------
(* Failures that block the slot, before RUNNING (finish_without_running) *)

RetainBeforeRunning(t) ==
    /\ OwnerGoes(t, "EXECUTING", "FAILING")
    /\ ExecutionDone(t) /\ ~started[t] /\ outcome[t] \in {"BLOCKED", "UNCERTAIN"}
    /\ retain_for_fail_stop(t)
    /\ UNCHANGED <<call, waitOn, got, signal, cancel, registryVars, failStopVars,
                   executionVars>>

FailBeforeRunning(t) ==
    /\ OwnerGoes(t, "FAILING", "FAILED")
    /\ \E r \in AfterPurge(registry) :
          /\ verify_owner(r, t)
          /\ registry' = Released(r, t)
    /\ UNCHANGED <<now, call, waitOn, got, signal, cancel, failStopVars, capacityVars,
                   executionVars>>

PublishFailure(t) ==
    /\ OwnerGoes(t, "FAILED", "ABANDONING")
    /\ publish(t, "FAILED")
    /\ UNCHANGED <<call, waitOn, got, cancel, registryVars, failStopVars, capacityVars,
                   executionVars>>

\* The execution is completed only when its cleanup is; otherwise its
\* ActiveExecution is dropped after the submit call was told.
SettleFailure(t) ==
    /\ \/ /\ OwnerGoes(t, "ABANDONING", "DONE")
          /\ outcome[t] = "BLOCKED"
          /\ complete(t)
       \/ /\ OwnerGoes(t, "ABANDONING", "ORPHANING")
          /\ outcome[t] = "UNCERTAIN"
          /\ UNCHANGED failStopVars
    /\ SendInitial(t, "FAILED")
    /\ UNCHANGED <<signal, cancel, registryVars, capacityVars, executionVars>>

DropActive(t) ==
    /\ OwnerGoes(t, "ORPHANING", "DONE")
    /\ drop_active(t)
    /\ UNCHANGED <<call, waitOn, got, signal, cancel, registryVars, capacityVars,
                   executionVars>>

-----------------------------------------------------------------------------
(* Failures after RUNNING (run_after_running and finish_after_running) *)

\* Faulty: a run whose tree is gone does not stop the daemon.
ReportRunningFailure_Quiet(t) ==
    /\ OwnerGoes(t, "RUNNING", "RUN_FAILED")
    /\ ExecutionDone(t) /\ outcome[t] # "COMPLETED"
    /\ UNCHANGED <<failStopVars, call, waitOn, got, signal, cancel, registryVars, capacityVars,
                   executionVars>>

ReportRunningFailure(t) ==
    /\ OwnerGoes(t, "RUNNING", "RUN_FAILED")
    /\ ExecutionDone(t) /\ outcome[t] # "COMPLETED"
    /\ activate(t)
    /\ UNCHANGED <<active, call, waitOn, got, signal, cancel, registryVars, capacityVars,
                   executionVars>>

\* owner.fail keeps the stored RUNNING snapshot and publishes it again.
FailAfterRunning(t) ==
    /\ OwnerGoes(t, "RUN_FAILED", "RUN_KEPT")
    /\ \E r \in AfterPurge(registry) :
          /\ verify_owner(r, t)
          /\ registry' = Released(r, t)
    /\ publish(t, "RUNNING")
    /\ UNCHANGED <<now, call, waitOn, got, cancel, failStopVars, capacityVars,
                   executionVars>>

CompleteRunningFailure(t) ==
    /\ OwnerGoes(t, "RUN_KEPT", "RUN_RETAIN")
    /\ \/ outcome[t] = "UNCERTAIN" /\ UNCHANGED failStopVars
       \/ outcome[t] # "UNCERTAIN" /\ complete(t)
    /\ UNCHANGED <<call, waitOn, got, signal, cancel, registryVars, capacityVars,
                   executionVars>>

RetainAfterRunning(t) ==
    /\ \/ OwnerGoes(t, "RUN_RETAIN", "ORPHANING") /\ outcome[t] = "UNCERTAIN"
       \/ OwnerGoes(t, "RUN_RETAIN", "DONE") /\ outcome[t] # "UNCERTAIN"
    /\ retain_for_fail_stop(t)
    /\ UNCHANGED <<call, waitOn, got, signal, cancel, registryVars, failStopVars,
                   executionVars>>

-----------------------------------------------------------------------------
(* The cancel call: request_cancel and CancellationWaiter::wait *)

RequestCancel(t) ==
    /\ t \in Cancellable
    /\ cancel[t] = "IDLE"
    /\ \E r \in AfterPurge(registry) :
          /\ registry' = r
          /\ \/ /\ r.snapshot[t] = "RUNNING"
                /\ latch' = [latch EXCEPT ![t] = FirstOf(@, "CANCELLED")]
                /\ cancel' = [cancel EXCEPT ![t] = "WAITING"]
             \/ /\ IsFinished(r, t)
                /\ cancel' = [cancel EXCEPT ![t] = "TASK_ALREADY_FINISHED"]
                /\ UNCHANGED latch
             \/ /\ r.snapshot[t] = "NONE"
                /\ cancel' = [cancel EXCEPT ![t] = "TASK_NOT_FOUND"]
                /\ UNCHANGED latch
    /\ UNCHANGED <<now, exec, tree, started, control, daemon_error, outcome, reason,
                   call, waitOn, got, owner, signal, failStopVars, capacityVars>>

\* handle_cancel: what the stored result's reason is answered as.
CancelAnswer(why) == IF why = "CANCELLED" THEN "TASK_CANCELLED" ELSE "TASK_ALREADY_FINISHED"

\* Faulty: only a cancelled completion fills the waiter's cell.
CancelWaiterWakes_CancelledOnly(t) ==
    /\ cancel[t] = "WAITING"
    /\ signal[t] = "FINISHED" /\ reason[t] = "CANCELLED"
    /\ cancel' = [cancel EXCEPT ![t] = "TASK_CANCELLED"]
    /\ UNCHANGED <<call, waitOn, got, owner, signal, registryVars, failStopVars,
                   capacityVars, executionVars>>

\* The cell of the waiter is filled by publish_completion.
CancelWaiterWakes(t) ==
    /\ cancel[t] = "WAITING"
    /\ signal[t] = "FINISHED"
    /\ cancel' = [cancel EXCEPT ![t] = CancelAnswer(reason[t])]
    /\ UNCHANGED <<call, waitOn, got, owner, signal, registryVars, failStopVars,
                   capacityVars, executionVars>>

-----------------------------------------------------------------------------
Execute(t) ==
    /\ ExecutionStep(t)
    /\ UNCHANGED <<serviceVars, registryVars, capacityVars>>

Clock ==
    /\ Tick
    /\ UNCHANGED <<serviceVars, failStopVars, capacityVars, executionVars>>

CallStep(t) ==
    \/ ExistingSubmit(t)
    \/ RejectUnavailable(t)
    \/ AdmitAndReserve(t)
    \/ AdmitWithoutReserve(t)
    \/ WaiterWakes(t)
    \/ EffectiveLimits(t)

OwnerStep(t) ==
    \/ AcquireAndSpawn(t)
    \/ RollBack(t)
    \/ PublishRollBack(t)
    \/ PublishRunningSnapshot(t)
    \/ SignalRunning(t)
    \/ StoreFinished(t)
    \/ CompleteActive(t)
    \/ ReleaseCapacityLook(t)
    \/ ReleaseCapacityAct(t)
    \/ Notify(t)
    \/ RetainBeforeRunning(t)
    \/ FailBeforeRunning(t)
    \/ PublishFailure(t)
    \/ SettleFailure(t)
    \/ DropActive(t)
    \/ ReportRunningFailure(t)
    \/ FailAfterRunning(t)
    \/ CompleteRunningFailure(t)
    \/ RetainAfterRunning(t)

\* All submit calls are answered and all owners have ended; only a cancel call
\* that fail-stop left behind may still wait.
Quiescent ==
    /\ \A t \in Tasks :
          /\ call[t] = "DONE"
          /\ owner[t] \in {"NONE", "DONE"}
          /\ cancel[t] = "WAITING" => is_fail_stopping
    /\ UNCHANGED vars

Next ==
    \/ \E t \in Tasks :
          \/ CallStep(t)
          \/ OwnerStep(t)
          \/ Execute(t)
          \/ RequestCancel(t)
          \/ CancelWaiterWakes(t)
    \/ Clock
    \/ Quiescent

Spec == Init /\ [][Next]_vars

(***************************************************************************)
(* Owners are tokio tasks that never block on a client, and an execution   *)
(* ends: deadlines bound all its waits but those for execve and for a      *)
(* killed child, which the kernel ends (Executor, FairExecutorSpec).       *)
(* Submit and cancel calls are tasks that are polled once woken.  Clients  *)
(* are not obliged to call.                                                *)
(***************************************************************************)
Fairness ==
    \A t \in Tasks :
        /\ WF_vars(call[t] # "NEW" /\ CallStep(t))
        /\ WF_vars(OwnerStep(t))
        /\ WF_vars(Execute(t))
        /\ WF_vars(CancelWaiterWakes(t))

FairSpec == Spec /\ Fairness

-----------------------------------------------------------------------------
(* Properties *)

\* An owner that has not given its reservation back still owns it.
OwnerHoldsReservation(t) ==
    owner[t] \in {"RESERVED", "EXECUTING", "PUBLISHED", "RUNNING", "FAILING", "RUN_FAILED"}

\* FINISHED is visible in the registry only for a task whose whole process
\* tree is proved gone: finish_snapshot is reached only by completed runs.
FinishedMeansClean ==
    \A t \in Tasks : IsFinished(registry, t) => tree[t] = "GONE"

\* A task that may have processes occupies a slot: release_capacity never
\* gives back the slot of a tree that is not proved gone.
SlotCoversTree ==
    \A t \in Tasks : MayHaveProcesses(t) => permit[t] \in {"HELD", "RETAINED"}

\* The two counters are exactly the slots taken and the slots retained, and
\* the former never exceeds the configured maximum.
SlotsCounted ==
    /\ in_use = Cardinality({t \in Tasks : permit[t] \in {"HELD", "RETAINED"}})
    /\ retained_for_fail_stop = Cardinality({t \in Tasks : permit[t] = "RETAINED"})
    /\ in_use <= MaxConcurrent

\* A task that may have processes is an active execution, so the fail-stop
\* drain, which waits for the active executions, waits for it.
ActiveCoversTree ==
    \A t \in Tasks : MayHaveProcesses(t) => active[t] # "NONE"

\* A tree that could not be proved gone always comes with fail-stop, and so
\* does a retained slot once its owner has ended.
UncertainMeansFailStop ==
    \A t \in Tasks :
        \/ tree[t] = "UNKNOWN"
        \/ permit[t] = "RETAINED" /\ owner[t] = "DONE"
        => is_fail_stopping

\* verify_owner succeeds for every owner that still has a registry operation
\* to do, whatever other calls, rollbacks and purges did in between: the
\* error branches of publish_running and finish_snapshot are not taken.
OwnerVerified ==
    \A t \in Tasks : OwnerHoldsReservation(t) =>
        /\ verify_owner(registry, t)
        /\ owner[t] \in {"RESERVED", "EXECUTING", "FAILING"} => registry.snapshot[t] = "NONE"
        /\ owner[t] \in {"PUBLISHED", "RUNNING", "RUN_FAILED"} => registry.snapshot[t] = "RUNNING"

\* Two tasks of one clientRequestId never have processes at the same time,
\* although a rolled back reservation may be taken again at once.
OneTreePerRequest ==
    \A t, u \in Tasks :
        KeyOf[t] = KeyOf[u] /\ MayHaveProcesses(t) /\ MayHaveProcesses(u) => t = u

\* A client that is told FINISHED, by a submit or a cancel answer, finds the
\* result stored or expired and the slot already released or retained.
ToldAfterRelease ==
    \A t \in Tasks : signal[t] = "FINISHED" =>
        /\ permit[t] \in {"RELEASED", "RETAINED"}
        /\ active[t] = "NONE"
        /\ registry.snapshot[t] # "RUNNING"

\* A cancel that won the latch before the stop was decided is reported as
\* CANCELLED, or as an OOM kill, but not as a limit that killed nothing
\* (classify_termination).  TASK_CANCELLED is answered only for such a cancel,
\* never for one that was accepted after fail-stop had decided the stop and left
\* the latch open (finish_started_process), and only once the tree is gone.
CancelHonest ==
    \A t \in Tasks :
        /\ control[t] = "CANCELLED" /\ reason[t] # "NONE" =>
              reason[t] \in {"CANCELLED", "MEMORY_LIMIT_EXCEEDED"}
        /\ reason[t] = "EXITED" => latch[t] = "CLOSED"
        /\ cancel[t] = "TASK_CANCELLED" => control[t] = "CANCELLED" /\ tree[t] = "GONE"

\* A submit that was told RUNNING and asks for the effective limits afterwards is
\* refused them (VerifiedEffectiveLimitsRequired) only when the task has completed
\* since and its result has expired, never while the task runs or its result is kept.
LimitsGoneMeansExpired ==
    \A c \in Tasks : got[c] = "LIMITS_GONE" =>
        /\ outcome[waitOn[c]] = "COMPLETED"
        /\ registry.snapshot[waitOn[c]] = "NONE"

\* The exec gate of no task opens once fail-stop is active.
NoStartAfterFailStop ==
    [][\A t \in Tasks : tree[t] # "LIVE" /\ tree'[t] = "LIVE" =>
          phase' = "HEALTHY" /\ owner[t] = "EXECUTING" /\ permit[t] = "HELD"]_vars

\* Fail-stop is never left, and its first report never replaced.
FailStopSticky ==
    [][is_fail_stopping =>
          /\ phase' = "FAIL_STOPPING"
          /\ firstReport' = firstReport
          /\ \A t \in Tasks : permit[t] = "RETAINED" => permit'[t] = "RETAINED"]_vars

\* Every submit call that passed its first look is answered.
SubmitAnswered ==
    \A t \in Tasks : call[t] # "NEW" ~> call[t] = "DONE"

\* Every cancel call that was accepted is answered, or the daemon stops.
CancelAnswered ==
    \A t \in Tasks : cancel[t] = "WAITING" ~> cancel[t] # "WAITING" \/ is_fail_stopping

\* Every slot taken is given back, unless the daemon stops.
SlotComesBack ==
    \A t \in Tasks : permit[t] = "HELD" ~> permit[t] = "RELEASED" \/ is_fail_stopping

-----------------------------------------------------------------------------
(* Refinement: a result that was stored and is no longer there has expired. *)

ShownAs(t) ==
    CASE registry.snapshot[t] = "RUNNING" -> "RUNNING"
      [] IsFinished(registry, t) -> "FINISHED"
      [] OTHER -> IF outcome[t] = "COMPLETED" /\ owner[t] \notin {"EXECUTING", "PUBLISHED", "RUNNING"}
                  THEN "EXPIRED" ELSE "ABSENT"

WorkAs(t) ==
    CASE tree[t] = "NONE" -> "IDLE"
      [] tree[t] = "GATED" -> "HELD"
      [] tree[t] = "LIVE" -> "OPEN"
      [] tree[t] = "GONE" -> "CLEAN"
      [] tree[t] = "UNKNOWN" -> "LOST"

Promise == INSTANCE TaskPromise WITH
    shown <- [t \in Tasks |-> ShownAs(t)],
    work <- [t \in Tasks |-> WorkAs(t)],
    healthy <- ~is_fail_stopping

\* The task path implements TaskPromise: whatever the interleaving of calls,
\* owners, executions and purges, a client sees only what is promised.
KeepsPromise == Promise!PromiseSpec
=============================================================================

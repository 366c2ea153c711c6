------------------------- MODULE TaskServiceProofs -------------------------
(***************************************************************************)
(* Proofs about the task path, for any number of submit calls, slots and   *)
(* keys.                                                                   *)
(*                                                                         *)
(* The registry in the task path is used only through its own operations,  *)
(* so what TaskRegistryProofs shows about it holds here too.  The rest is  *)
(* an invariant of one task: where its owner is determines what is known   *)
(* of its execution, slot, active entry and snapshot.                      *)
(*                                                                         *)
(* What clients are told: the task path implements TaskPromise, and cancel *)
(* calls are answered honestly.  A step is a step of the promise through   *)
(* what it does to one task: its snapshot in the registry, the tree of its *)
(* execution, and fail-stop.  The other tasks at most lose a result whose  *)
(* retention is over.                                                      *)
(*                                                                         *)
(* Last, what is counted: the slots against the permits of the owners, and *)
(* the logical tasks of the registry against their limit.                  *)
(***************************************************************************)
EXTENDS TaskService, TaskRegistryProofs

\* Most leaves are first-order: Zenon is the prover unless a leaf names another.
USE ZenonT(200)

\* The task path sees the registry record as a whole.
HIDE DEF RegistryState, InverseIndexes, SnapshotsReserved, QueueHoldsFinished,
         QueueOrdered, IsFinished, Snapshots

-----------------------------------------------------------------------------
(* The registry inside the task path *)

LEMMA CallRegistry ==
    ASSUME NEW t \in Tasks, CallStep(t)
    PROVE  ReserveSubmit(t) \/ Lookup \/ UNCHANGED registryVars
<1>1. ASSUME ExistingSubmit(t) PROVE Lookup
  BY <1>1 DEF ExistingSubmit, Lookup
<1>2. ASSUME RejectUnavailable(t) PROVE UNCHANGED registryVars
  BY <1>2 DEF RejectUnavailable
<1>3. ASSUME AdmitAndReserve(t) PROVE ReserveSubmit(t)
  BY <1>3 DEF AdmitAndReserve, ReserveSubmit
<1>4. ASSUME AdmitWithoutReserve(t) PROVE Lookup
  BY <1>4 DEF AdmitWithoutReserve, Lookup
<1>5. ASSUME WaiterWakes(t) PROVE UNCHANGED registryVars
  BY <1>5 DEF WaiterWakes
<1>6. ASSUME EffectiveLimits(t) PROVE Lookup \/ UNCHANGED registryVars
  BY <1>6 DEF EffectiveLimits, Lookup, registryVars
<1> QED BY <1>1, <1>2, <1>3, <1>4, <1>5, <1>6 DEF CallStep

LEMMA OwnerRegistry ==
    ASSUME NEW t \in Tasks, OwnerStep(t)
    PROVE  \/ PublishRunning(t) \/ FinishSnapshot(t) \/ ReleaseFailedOwner(t)
           \/ UNCHANGED registryVars
<1>1. ASSUME RollBack(t) \/ FailBeforeRunning(t) \/ FailAfterRunning(t)
      PROVE  ReleaseFailedOwner(t)
  BY <1>1 DEF RollBack, FailBeforeRunning, FailAfterRunning, ReleaseFailedOwner
<1>2. ASSUME PublishRunningSnapshot(t) PROVE PublishRunning(t)
  BY <1>2 DEF PublishRunningSnapshot, PublishRunning
<1>3. ASSUME StoreFinished(t) PROVE FinishSnapshot(t)
  BY <1>3 DEF StoreFinished, FinishSnapshot
<1>4. ASSUME \/ AcquireAndSpawn(t) \/ PublishRollBack(t) \/ SignalRunning(t)
             \/ CompleteActive(t) \/ ReleaseCapacityLook(t) \/ ReleaseCapacityAct(t)
             \/ Notify(t) \/ RetainBeforeRunning(t) \/ PublishFailure(t)
             \/ SettleFailure(t) \/ DropActive(t) \/ ReportRunningFailure(t)
             \/ CompleteRunningFailure(t) \/ RetainAfterRunning(t)
      PROVE  UNCHANGED registryVars
  BY <1>4 DEF AcquireAndSpawn, PublishRollBack, SignalRunning, CompleteActive,
              ReleaseCapacityLook, ReleaseCapacityAct, Notify, RetainBeforeRunning,
              PublishFailure, SettleFailure, DropActive, ReportRunningFailure,
              CompleteRunningFailure, RetainAfterRunning
<1> QED BY <1>1, <1>2, <1>3, <1>4 DEF OwnerStep

LEMMA ServiceRegistryStep == [Next]_vars => [RegistryNext]_registryVars
<1> SUFFICES ASSUME [Next]_vars PROVE [RegistryNext]_registryVars
  OBVIOUS
<1>1. ASSUME NEW t \in Tasks, CallStep(t) \/ OwnerStep(t)
      PROVE  [RegistryNext]_registryVars
  BY <1>1, CallRegistry, OwnerRegistry DEF RegistryNext
<1>2. ASSUME NEW t \in Tasks, Execute(t) \/ CancelWaiterWakes(t)
      PROVE  UNCHANGED registryVars
  BY <1>2 DEF Execute, CancelWaiterWakes
<1>3. ASSUME NEW t \in Tasks, RequestCancel(t) PROVE Lookup
  BY <1>3 DEF RequestCancel, Lookup
<1>4. ASSUME Clock PROVE Tick
  BY <1>4 DEF Clock
<1>5. ASSUME Quiescent \/ UNCHANGED vars PROVE UNCHANGED registryVars
  BY <1>5 DEF Quiescent, vars
<1> QED BY <1>1, <1>2, <1>3, <1>4, <1>5 DEF Next, RegistryNext

\* The task path uses the registry only through its operations: whatever calls,
\* owners and cancels do, the registry inside it behaves as TaskRegistry says, so
\* the theorems about the registry hold of the whole daemon.
THEOREM ServiceRunsRegistry == Spec => RegistrySpec
<1>1. Init => RegistryInit
  BY DEF Init
<1> QED BY <1>1, ServiceRegistryStep, PTL DEF Spec, RegistrySpec

-----------------------------------------------------------------------------
(* What a registry operation may do to the entry of a task it is not for *)

\* p is what some operation for another task made of r, as far as u can tell.
EntryKept(r, p, u) ==
    /\ \/ p.snapshot[u] = r.snapshot[u]
       \/ IsFinished(r, u) /\ p.snapshot[u] = "NONE"
    /\ verify_owner(r, u) /\ ~IsFinished(r, u) => verify_owner(p, u)

KeyUntaken(r, u) == r.requests[KeyOf[u]] \in {u, NoTask}

LEMMA PurgeKeepsEntry ==
    ASSUME NEW r, Sound(r), NEW p \in AfterPurge(r), NEW u \in Tasks
    PROVE  EntryKept(r, p, u) /\ (KeyUntaken(r, u) => KeyUntaken(p, u))
<1>1. PICK n \in PurgePoints(r) : p = Purged(r, n)
  BY DEF AfterPurge
<1> DEFINE gone == {r.expirations[i] : i \in 1 .. n}
<1>2. /\ p.snapshot[u] = IF u \in gone THEN "NONE" ELSE r.snapshot[u]
      /\ p.requests[KeyOf[u]] = IF \E t \in gone : r.taskRequests[t] = KeyOf[u]
                                THEN NoTask ELSE r.requests[KeyOf[u]]
  BY <1>1, RequestAssumption DEF Purged
<1>3. ASSUME NEW t \in gone
      PROVE  t \in Tasks /\ IsFinished(r, t)
  <2>1. PICK i \in 1 .. n : r.expirations[i] = t
    OBVIOUS
  <2>2. i \in 1 .. Len(r.expirations)
    BY SMTT(60) DEF PurgePoints, Sound, RegistryState
  <2>3. t \in Tasks
    BY <2>1, <2>2, QueueParts DEF Sound, RegistryState
  <2>4. IsFinished(r, t)
    BY <2>1, <2>2 DEF Sound, QueueHoldsFinished
  <2> QED BY <2>3, <2>4
<1>4. ASSUME verify_owner(r, u), ~IsFinished(r, u)
      PROVE  verify_owner(p, u)
  <2>1. ASSUME NEW t \in gone, r.taskRequests[t] = KeyOf[u]
        PROVE  FALSE
    <3>1. KeyOf[u] # NoKey
      BY RequestAssumption, NoKeyAssumption
    <3>2. r.requests[KeyOf[u]] = t
      BY <1>3, <2>1, <3>1 DEF Sound, InverseIndexes
    <3> QED BY <1>3, <1>4, <3>2 DEF verify_owner
  <2> QED BY <1>2, <1>4, <2>1 DEF verify_owner
<1>5. EntryKept(r, p, u)
  BY <1>2, <1>3, <1>4 DEF EntryKept
<1>6. KeyUntaken(r, u) => KeyUntaken(p, u)
  BY <1>2 DEF KeyUntaken
<1> QED BY <1>5, <1>6

\* The four updates, after a purge that kept the entry.
LEMMA UpdateKeepsEntry ==
    ASSUME NEW r, NEW p, Sound(p), NEW t \in Tasks, NEW u \in Tasks \ {t},
           EntryKept(r, p, u)
    PROVE  /\ CanReserve(p, t) => EntryKept(r, Reserved(p, t), u)
           /\ EntryKept(r, WithRunning(p, t), u)
           /\ EntryKept(r, WithFinished(p, t), u)
           /\ verify_owner(p, t) => EntryKept(r, Released(p, t), u)
           /\ KeyUntaken(p, u) =>
                 /\ KeyUntaken(WithRunning(p, t), u)
                 /\ KeyUntaken(WithFinished(p, t), u)
                 /\ verify_owner(p, t) => KeyUntaken(Released(p, t), u)
<1> USE RequestAssumption, TaskAssumption
<1>1. ASSUME CanReserve(p, t)
      PROVE  EntryKept(r, Reserved(p, t), u)
  <2>1. Reserved(p, t).snapshot = p.snapshot
    BY DEF Reserved, Sound, RegistryState
  <2>2. Reserved(p, t).requests = [p.requests EXCEPT ![KeyOf[t]] = t]
    BY DEF Reserved, Sound, RegistryState
  <2>3. verify_owner(p, u) => KeyOf[u] # KeyOf[t]
    BY <1>1 DEF CanReserve, HasExisting, verify_owner
  <2> QED BY <2>1, <2>2, <2>3 DEF EntryKept, verify_owner, Sound, RegistryState
<1>2. /\ WithRunning(p, t).snapshot[u] = p.snapshot[u]
      /\ WithRunning(p, t).requests = p.requests
      /\ WithFinished(p, t).snapshot[u] = p.snapshot[u]
      /\ WithFinished(p, t).requests = p.requests
  BY DEF WithRunning, WithFinished, Sound, RegistryState
<1>3. ASSUME verify_owner(p, t)
      PROVE  /\ Released(p, t).snapshot = p.snapshot
             /\ Released(p, t).requests[KeyOf[u]] \in {p.requests[KeyOf[u]], NoTask}
             /\ verify_owner(p, u) => verify_owner(Released(p, t), u)
  <2>1. Released(p, t).snapshot = p.snapshot
    BY DEF Released, Sound, RegistryState
  <2>2. \/ Released(p, t).requests = p.requests
        \/ Released(p, t).requests = [p.requests EXCEPT ![KeyOf[t]] = NoTask]
    BY DEF Released, Sound, RegistryState
  <2>3. verify_owner(p, u) => KeyOf[u] # KeyOf[t]
    BY <1>3 DEF verify_owner
  <2> QED BY <2>1, <2>2, <2>3 DEF verify_owner, Sound, RegistryState
<1>4. EntryKept(r, WithRunning(p, t), u) /\ EntryKept(r, WithFinished(p, t), u)
  BY <1>2 DEF EntryKept, verify_owner
<1>5. verify_owner(p, t) => EntryKept(r, Released(p, t), u)
  BY <1>3 DEF EntryKept
<1>6. KeyUntaken(p, u) =>
         /\ KeyUntaken(WithRunning(p, t), u)
         /\ KeyUntaken(WithFinished(p, t), u)
         /\ verify_owner(p, t) => KeyUntaken(Released(p, t), u)
  BY <1>2, <1>3 DEF KeyUntaken
<1> QED BY <1>1, <1>4, <1>5, <1>6

-----------------------------------------------------------------------------
(* The invariant of one task *)

\* Where run_task is determines what is known of the processes.
ExecutionPlace(t) ==
    /\ exec[t] \in {"IDLE", "PREPARING"} => tree[t] = "NONE"
    /\ exec[t] = "GATED" => tree[t] = "GATED"
    /\ exec[t] \in {"COMMITTED", "STARTED", "STOPPING"} => tree[t] = "LIVE"
    /\ exec[t] = "DONE" <=> outcome[t] # "NONE"
    /\ outcome[t] = "COMPLETED" => tree[t] = "GONE"
    /\ outcome[t] = "REUSABLE" => tree[t] \in {"NONE", "GONE"}
    /\ outcome[t] = "BLOCKED" => tree[t] \in {"NONE", "GONE"} /\ is_fail_stopping
    /\ outcome[t] = "UNCERTAIN" => tree[t] \in {"GONE", "UNKNOWN"}
    /\ tree[t] = "UNKNOWN" => is_fail_stopping

Unspawned(t) == exec[t] = "IDLE" /\ permit[t] = "NONE"

Ended(t, outcomes) == exec[t] = "DONE" /\ outcome[t] \in outcomes

\* An owner that still has to release the slot or the active entry has both.
Owns(t) == permit[t] = "HELD" /\ active[t] # "NONE"

\* Where the owner is determines what it holds and what the registry shows.
OwnerPlace(t) ==
    /\ owner[t] = "NONE" =>
          Unspawned(t) /\ active[t] = "NONE" /\ registry.snapshot[t] = "NONE"
    /\ owner[t] = "RESERVED" =>
          /\ Unspawned(t) /\ active[t] # "NONE"
          /\ registry.snapshot[t] = "NONE" /\ verify_owner(registry, t)
    /\ owner[t] = "EXECUTING" =>
          /\ Owns(t) /\ exec[t] # "IDLE"
          /\ registry.snapshot[t] = "NONE" /\ verify_owner(registry, t)
    /\ owner[t] \in {"PUBLISHED", "RUNNING"} =>
          /\ Owns(t) /\ exec[t] # "IDLE"
          /\ registry.snapshot[t] = "RUNNING" /\ verify_owner(registry, t)
    /\ owner[t] = "STORED" =>
          Owns(t) /\ Ended(t, {"COMPLETED"}) /\ registry.snapshot[t] # "RUNNING"
    /\ owner[t] \in {"ROLLED_BACK", "COMPLETING"} =>
          /\ active[t] # "NONE" /\ registry.snapshot[t] = "NONE"
          /\ Unspawned(t) \/ (permit[t] = "HELD" /\ Ended(t, {"REUSABLE"}))
    /\ owner[t] = "COMPLETING" => signal[t] = "FAILED"
    /\ owner[t] \in {"RELEASING", "DROPPING", "RETAINING"} =>
          /\ permit[t] = "HELD" /\ active[t] = "NONE"
          /\ Ended(t, {"COMPLETED", "REUSABLE"}) /\ registry.snapshot[t] # "RUNNING"
    /\ owner[t] = "RETAINING" => is_fail_stopping
    /\ owner[t] = "NOTIFYING" =>
          /\ active[t] = "NONE" /\ registry.snapshot[t] # "RUNNING"
          /\ permit[t] = "RETAINED" => is_fail_stopping
          /\ \/ Unspawned(t) /\ signal[t] = "FAILED"
             \/ /\ permit[t] \in {"RELEASED", "RETAINED"}
                /\ Ended(t, {"COMPLETED", "REUSABLE"})
    /\ owner[t] \in {"FAILING", "FAILED", "ABANDONING"} =>
          /\ permit[t] = "RETAINED" /\ active[t] # "NONE"
          /\ Ended(t, {"BLOCKED", "UNCERTAIN"}) /\ registry.snapshot[t] = "NONE"
    /\ owner[t] = "FAILING" => verify_owner(registry, t)
    /\ owner[t] \in {"RUN_FAILED", "RUN_KEPT"} =>
          /\ Owns(t) /\ Ended(t, {"REUSABLE", "BLOCKED", "UNCERTAIN"}) /\ is_fail_stopping
          /\ registry.snapshot[t] = "RUNNING" /\ verify_owner(registry, t)
    /\ owner[t] = "RUN_RETAIN" =>
          /\ permit[t] = "HELD" /\ is_fail_stopping
          /\ Ended(t, {"REUSABLE", "BLOCKED", "UNCERTAIN"})
          /\ outcome[t] = "UNCERTAIN" => active[t] # "NONE"
    /\ owner[t] = "ORPHANING" =>
          permit[t] = "RETAINED" /\ active[t] # "NONE" /\ Ended(t, {"UNCERTAIN"})
    /\ owner[t] = "DONE" =>
          /\ exec[t] \in {"IDLE", "DONE"} /\ permit[t] # "HELD"
          /\ permit[t] = "RETAINED" => is_fail_stopping
          /\ outcome[t] = "UNCERTAIN" => permit[t] = "RETAINED" /\ active[t] # "NONE"

\* What the registry and the waiters show of a task was earned.
ShownPlace(t) ==
    /\ IsFinished(registry, t) => outcome[t] = "COMPLETED"
    /\ signal[t] = "FINISHED" =>
          /\ owner[t] = "DONE" /\ permit[t] \in {"RELEASED", "RETAINED"}
          /\ active[t] = "NONE" /\ registry.snapshot[t] # "RUNNING"
    /\ MayHaveProcesses(t) => KeyUntaken(registry, t)

TaskInv(t) == ExecutionPlace(t) /\ OwnerPlace(t) /\ ShownPlace(t)

\* The types that do not depend on the counters.
Typed ==
    /\ FailStopTypeOK
    /\ permit \in [Tasks -> {"NONE", "HELD", "RETAINED", "RELEASED"}]
    /\ ExecutionTypeOK
    /\ ServiceTypeOK

\* A call that waits, waits for a task.
CallPlace(c) == call[c] = "WAIT" => waitOn[c] \in Tasks

ServiceInv ==
    /\ Inv
    /\ Typed
    /\ \A t \in Tasks : TaskInv(t) /\ CallPlace(t)
    /\ OneTreePerRequest

-----------------------------------------------------------------------------
(* Types *)

LEMMA FlagSet ==
    ASSUME NEW flag \in [Tasks -> BOOLEAN], NEW t \in Tasks
    PROVE  /\ [flag EXCEPT ![t] = TRUE] \in [Tasks -> BOOLEAN]
           /\ [flag EXCEPT ![t] = FALSE] \in [Tasks -> BOOLEAN]
<1> QED OBVIOUS

LEMMA ExecutionTyped ==
    ASSUME NEW t \in Tasks, ExecutionStep(t), FailStopTypeOK, ExecutionTypeOK
    PROVE  FailStopTypeOK' /\ ExecutionTypeOK'
<1> USE DEF FailStopTypeOK, ExecutionTypeOK, StartStates, Outcomes, LatchStates
<1>1. ASSUME CleanupRetried(t) PROVE FailStopTypeOK' /\ ExecutionTypeOK'
  BY <1>1 DEF CleanupRetried, activate
<1>2. ASSUME \/ RefuseForFailStop(t) \/ RejectBeforeJob(t) \/ AbandonForFailStop(t)
             \/ AbortPending(t) \/ AbortCommitted(t) \/ FinishUnclassified(t)
             \/ FinalizeFailed(t)
      PROVE  FailStopTypeOK' /\ ExecutionTypeOK'
  <2>1. PICK state \in {"NONE", "GONE"}, result \in Outcomes :
           Stop(t, state, result) /\ UNCHANGED failStopVars /\ NoVerdict
    BY <1>2 DEF RefuseForFailStop, RejectBeforeJob, AbandonForFailStop, AbortPending,
                AbortCommitted, FinishUnclassified, FinalizeFailed
  <2> QED BY <2>1 DEF Stop, NoVerdict, failStopVars
<1>3. ASSUME CreateJob(t) \/ ExecStarted(t) PROVE FailStopTypeOK' /\ ExecutionTypeOK'
  <2>1. CASE CreateJob(t)
    BY <2>1 DEF CreateJob, NoVerdict, failStopVars
  <2>2. CASE ExecStarted(t)
    <3>1. started' \in [Tasks -> BOOLEAN]
      BY <2>2, FlagSet DEF ExecStarted
    <3> QED BY <2>2, <3>1 DEF ExecStarted, NoVerdict, failStopVars
  <2> QED BY <1>3, <2>1, <2>2
<1>4. ASSUME GateFailed(t) \/ CommitStart(t) PROVE FailStopTypeOK' /\ ExecutionTypeOK'
  BY SMTT(60), <1>4 DEF GateFailed, CommitStart, commit_gate_failed, commit_start, NoVerdict
<1>5. ASSUME ExecFailed(t) \/ FinishCleaned(t) PROVE FailStopTypeOK' /\ ExecutionTypeOK'
  <2>1. CASE ExecFailed(t)
    <3>1. reason' \in [Tasks -> Reasons \cup {"NONE"}]
      BY <2>1 DEF ExecFailed, classify_termination, Reasons
    <3> QED BY <2>1, <3>1 DEF ExecFailed, Stop, failStopVars
  <2>2. CASE FinishCleaned(t)
    <3>1. reason' \in [Tasks -> Reasons \cup {"NONE"}]
      BY SMTT(60), <2>2 DEF FinishCleaned, classify_termination, Reasons
    <3> QED BY <2>2, <3>1 DEF FinishCleaned, Stop, failStopVars
  <2> QED BY <1>5, <2>1, <2>2
<1>6. ASSUME LoseBeforeStarted(t) \/ FinishLost(t) PROVE FailStopTypeOK' /\ ExecutionTypeOK'
  BY <1>6 DEF LoseBeforeStarted, FinishLost, Lose, activate, Stop, NoVerdict
<1>7. ASSUME \/ ObserveExit(t) \/ ObserveTimeout(t) \/ ObserveCancel(t)
             \/ ObserveFailStop(t) \/ ObserveWaitError(t)
      PROVE  FailStopTypeOK' /\ ExecutionTypeOK'
  <2>1. daemon_error' \in [Tasks -> BOOLEAN]
    BY <1>7, FlagSet DEF ObserveExit, ObserveTimeout, ObserveCancel, ObserveFailStop,
                         ObserveWaitError, Decide
  <2>2. PICK first \in LatchStates :
           /\ latch' = [latch EXCEPT ![t] = first]
           /\ control' = [control EXCEPT ![t] = Trigger(first)]
    BY <1>7 DEF ObserveExit, ObserveTimeout, ObserveCancel, ObserveFailStop,
                ObserveWaitError, Decide, FirstOf
  <2>3. /\ exec' = [exec EXCEPT ![t] = "STOPPING"]
        /\ UNCHANGED <<tree, started, outcome, reason, failStopVars>>
    BY <1>7 DEF ObserveExit, ObserveTimeout, ObserveCancel, ObserveFailStop,
                ObserveWaitError, Decide
  <2> QED BY <2>1, <2>2, <2>3 DEF Trigger, failStopVars
<1> QED BY <1>1, <1>2, <1>3, <1>4, <1>5, <1>6, <1>7 DEF ExecutionStep

LEMMA CallTyped ==
    ASSUME NEW t \in Tasks, CallStep(t), Sound(registry), now \in Nat, Typed,
           \A c \in Tasks : CallPlace(c)
    PROVE  Typed' /\ \A c \in Tasks : CallPlace(c)'
<1> USE DEF Typed, FailStopTypeOK, ServiceTypeOK, ExecutionTypeOK, StartStates,
            Observations, Answers, CallPlace
<1>1. ASSUME NEW r \in AfterPurge(registry), HasExisting(r, t)
      PROVE  r.requests[KeyOf[t]] \in Tasks
  <2>1. r \in RegistryState
    BY <1>1, AfterPurgeSound DEF Sound
  <2> QED BY SMTT(60), <1>1, <2>1, RequestAssumption DEF HasExisting, RegistryState
<1>2. ASSUME NEW u \in Tasks, WaitFor(t, u),
             UNCHANGED <<owner, signal, cancel, failStopVars, capacityVars, executionVars>>
      PROVE  Typed' /\ \A c \in Tasks : CallPlace(c)'
  BY SMTT(60), <1>2 DEF WaitFor, failStopVars, capacityVars, executionVars
<1>3. ASSUME NEW answer \in Answers, Answer(t, answer),
             UNCHANGED <<owner, signal, cancel, failStopVars, capacityVars, executionVars>>
      PROVE  Typed' /\ \A c \in Tasks : CallPlace(c)'
  BY <1>3 DEF Answer, failStopVars, capacityVars, executionVars
<1>4. ASSUME NEW place \in {"ADMIT", "LIMITS"}, NEW answer \in Answers,
             call' = [call EXCEPT ![t] = place], got' = [got EXCEPT ![t] = answer],
             UNCHANGED <<waitOn, owner, signal, cancel, failStopVars, capacityVars,
                         executionVars>>
      PROVE  Typed' /\ \A c \in Tasks : CallPlace(c)'
  BY SMTT(60), <1>4 DEF failStopVars, capacityVars, executionVars
<1>5. ASSUME ExistingSubmit(t) PROVE Typed' /\ \A c \in Tasks : CallPlace(c)'
  <2>1. got[t] \in Answers /\ got = [got EXCEPT ![t] = got[t]]
    OBVIOUS
  <2> QED BY <1>1, <1>2, <1>3, <1>4, <1>5, <2>1 DEF ExistingSubmit
<1>6. ASSUME RejectUnavailable(t) PROVE Typed' /\ \A c \in Tasks : CallPlace(c)'
  BY <1>3, <1>6 DEF RejectUnavailable
<1>7. ASSUME AdmitAndReserve(t) PROVE Typed' /\ \A c \in Tasks : CallPlace(c)'
  BY SMTT(60), <1>7 DEF AdmitAndReserve, register, OwnerGoes, capacityVars, executionVars
<1>8. ASSUME AdmitWithoutReserve(t) PROVE Typed' /\ \A c \in Tasks : CallPlace(c)'
  BY <1>1, <1>2, <1>3, <1>8 DEF AdmitWithoutReserve
<1>9. ASSUME WaiterWakes(t) PROVE Typed' /\ \A c \in Tasks : CallPlace(c)'
  <2>1. signal[waitOn[t]] \in Answers
    BY <1>9 DEF WaiterWakes
  <2> QED BY <1>4, <1>9, <2>1 DEF WaiterWakes
<1>10. ASSUME EffectiveLimits(t) PROVE Typed' /\ \A c \in Tasks : CallPlace(c)'
  <2>1. PICK answer \in Answers : Answer(t, answer)
    BY <1>10 DEF EffectiveLimits
  <2> QED BY <1>3, <1>10, <2>1 DEF EffectiveLimits
<1> QED BY <1>5, <1>6, <1>7, <1>8, <1>9, <1>10 DEF CallStep

-----------------------------------------------------------------------------
(* A step of one task leaves the others alone *)

\* What a step that is taken for t may not change.
OnlyFor(t) ==
    /\ \A u \in Tasks \ {t} :
          /\ owner'[u] = owner[u] /\ signal'[u] = signal[u]
          /\ exec'[u] = exec[u] /\ tree'[u] = tree[u] /\ outcome'[u] = outcome[u]
          /\ permit'[u] = permit[u] /\ active'[u] = active[u]
    /\ is_fail_stopping => is_fail_stopping'

LEMMA OwnerTyped ==
    ASSUME NEW t \in Tasks, OwnerStep(t), Typed, \A c \in Tasks : CallPlace(c)
    PROVE  Typed' /\ OnlyFor(t) /\ \A c \in Tasks : CallPlace(c)'
<1> DEFINE Goal == Typed' /\ OnlyFor(t) /\ \A c \in Tasks : CallPlace(c)'
<1> USE DEF Typed, FailStopTypeOK, ServiceTypeOK, StartStates, Observations, Answers,
            CallPlace, OnlyFor, OwnerGoes, is_fail_stopping, ExecutionTypeOK,
            executionVars, failStopVars, capacityVars
<1>0. ASSUME UNCHANGED <<call, waitOn, got>> \/ (\E o \in Observations : SendInitial(t, o))
      PROVE  /\ call' \in [Tasks -> {"NEW", "ADMIT", "WAIT", "OWNER", "LIMITS", "DONE"}]
             /\ waitOn' = waitOn
             /\ got' \in [Tasks -> Answers]
             /\ \A c \in Tasks : CallPlace(c)'
  BY SMTT(60), <1>0 DEF SendInitial
<1>1. ASSUME AcquireAndSpawn(t) PROVE Goal
  BY SMTT(60), <1>0, <1>1 DEF AcquireAndSpawn, try_acquire, BeginExecution, NoVerdict
<1>2. ASSUME RollBack(t) PROVE Goal
  BY SMTT(60), <1>0, <1>2 DEF RollBack
<1>3. ASSUME PublishRollBack(t) PROVE Goal
  BY SMTT(60), <1>0, <1>3 DEF PublishRollBack, publish
<1>4. ASSUME PublishRunningSnapshot(t) PROVE Goal
  BY SMTT(60), <1>0, <1>4 DEF PublishRunningSnapshot
<1>5. ASSUME SignalRunning(t) PROVE Goal
  <2>1. \E o \in Observations : SendInitial(t, o)
    BY <1>5 DEF SignalRunning
  <2> QED BY SMTT(60), <1>0, <1>5, <2>1 DEF SignalRunning, publish
<1>6. ASSUME StoreFinished(t) PROVE Goal
  BY SMTT(60), <1>0, <1>6 DEF StoreFinished
<1>7. ASSUME CompleteActive(t) PROVE Goal
  BY SMTT(60), <1>0, <1>7 DEF CompleteActive, complete
<1>8. ASSUME ReleaseCapacityLook(t) PROVE Goal
  BY SMTT(60), <1>0, <1>8 DEF ReleaseCapacityLook
<1>9. ASSUME ReleaseCapacityAct(t) PROVE Goal
  BY SMTT(60), <1>0, <1>9 DEF ReleaseCapacityAct, drop_permit, retain_for_fail_stop
<1>10. ASSUME Notify(t) PROVE Goal
  <2>1. \E o \in Observations : SendInitial(t, o)
    BY <1>10 DEF Notify
  <2> QED BY SMTT(60), <1>0, <1>10, <2>1 DEF Notify, publish
<1>11. ASSUME RetainBeforeRunning(t) PROVE Goal
  BY SMTT(60), <1>0, <1>11 DEF RetainBeforeRunning, retain_for_fail_stop
<1>12. ASSUME FailBeforeRunning(t) PROVE Goal
  BY SMTT(60), <1>0, <1>12 DEF FailBeforeRunning
<1>13. ASSUME PublishFailure(t) PROVE Goal
  BY SMTT(60), <1>0, <1>13 DEF PublishFailure, publish
<1>14. ASSUME SettleFailure(t) PROVE Goal
  <2>1. \E o \in Observations : SendInitial(t, o)
    BY <1>14 DEF SettleFailure
  <2>2. /\ active' = active \/ active' = [active EXCEPT ![t] = "NONE"]
        /\ UNCHANGED <<phase, firstReport>>
    BY <1>14 DEF SettleFailure, complete
  <2>3. owner' = [owner EXCEPT ![t] = "DONE"] \/ owner' = [owner EXCEPT ![t] = "ORPHANING"]
    BY <1>14 DEF SettleFailure
  <2> QED BY SMTT(60), <1>0, <1>14, <2>1, <2>2, <2>3 DEF SettleFailure
<1>15. ASSUME DropActive(t) PROVE Goal
  BY SMTT(60), <1>0, <1>15 DEF DropActive, drop_active, activate
<1>16. ASSUME ReportRunningFailure(t) PROVE Goal
  BY SMTT(60), <1>0, <1>16 DEF ReportRunningFailure, activate
<1>17. ASSUME FailAfterRunning(t) PROVE Goal
  BY SMTT(60), <1>0, <1>17 DEF FailAfterRunning, publish
<1>18. ASSUME CompleteRunningFailure(t) PROVE Goal
  BY SMTT(60), <1>0, <1>18 DEF CompleteRunningFailure, complete
<1>19. ASSUME RetainAfterRunning(t) PROVE Goal
  BY SMTT(60), <1>0, <1>19 DEF RetainAfterRunning, retain_for_fail_stop
<1> QED BY <1>1, <1>2, <1>3, <1>4, <1>5, <1>6, <1>7, <1>8, <1>9, <1>10, <1>11, <1>12,
           <1>13, <1>14, <1>15, <1>16, <1>17, <1>18, <1>19 DEF OwnerStep

LEMMA CallFrame ==
    ASSUME NEW t \in Tasks, CallStep(t), Typed
    PROVE  OnlyFor(t)
<1> USE DEF Typed, FailStopTypeOK, ServiceTypeOK, OnlyFor, is_fail_stopping,
            executionVars, failStopVars, capacityVars
<1>1. ASSUME AdmitAndReserve(t) PROVE OnlyFor(t)
  BY <1>1 DEF AdmitAndReserve, register, OwnerGoes
<1>2. ASSUME \/ ExistingSubmit(t) \/ RejectUnavailable(t) \/ AdmitWithoutReserve(t)
             \/ WaiterWakes(t) \/ EffectiveLimits(t)
      PROVE  OnlyFor(t)
  <2>1. UNCHANGED <<owner, signal, failStopVars, capacityVars, executionVars>>
    BY <1>2 DEF ExistingSubmit, RejectUnavailable, AdmitWithoutReserve, WaiterWakes,
                EffectiveLimits
  <2> QED BY <2>1
<1> QED BY <1>1, <1>2 DEF CallStep

LEMMA ExecuteFrame ==
    ASSUME NEW t \in Tasks, Execute(t), Typed
    PROVE  OnlyFor(t)
<1> USE DEF Typed, FailStopTypeOK, ServiceTypeOK, ExecutionTypeOK, OnlyFor,
            is_fail_stopping, failStopVars
<1>1. UNCHANGED <<owner, signal, permit>>
  BY DEF Execute, serviceVars, capacityVars
<1>2. ASSUME CleanupRetried(t) PROVE OnlyFor(t)
  BY <1>1, <1>2 DEF CleanupRetried, activate
<1>3. ASSUME NEW state, NEW result, Stop(t, state, result), UNCHANGED failStopVars
      PROVE  OnlyFor(t)
  BY <1>1, <1>3 DEF Stop
<1>4. ASSUME \/ RefuseForFailStop(t) \/ RejectBeforeJob(t) \/ AbandonForFailStop(t)
             \/ AbortPending(t) \/ AbortCommitted(t) \/ FinishUnclassified(t)
             \/ FinalizeFailed(t) \/ ExecFailed(t) \/ FinishCleaned(t)
      PROVE  OnlyFor(t)
  <2>1. PICK state, result : Stop(t, state, result) /\ UNCHANGED failStopVars
    BY <1>4 DEF RefuseForFailStop, RejectBeforeJob, AbandonForFailStop, AbortPending,
                AbortCommitted, FinishUnclassified, FinalizeFailed, ExecFailed,
                FinishCleaned
  <2> QED BY <1>3, <2>1
<1>5. ASSUME CreateJob(t) \/ ExecStarted(t) \/ GateFailed(t) \/ CommitStart(t)
      PROVE  OnlyFor(t)
  BY SMTT(60), <1>1, <1>5 DEF CreateJob, ExecStarted, GateFailed, CommitStart, commit_gate_failed,
                    commit_start
<1>6. ASSUME LoseBeforeStarted(t) \/ FinishLost(t) PROVE OnlyFor(t)
  BY SMTT(60), <1>1, <1>6 DEF LoseBeforeStarted, FinishLost, Lose, activate, Stop
<1>7. ASSUME \/ ObserveExit(t) \/ ObserveTimeout(t) \/ ObserveCancel(t)
             \/ ObserveFailStop(t) \/ ObserveWaitError(t)
      PROVE  OnlyFor(t)
  <2>1. /\ exec' = [exec EXCEPT ![t] = "STOPPING"]
        /\ UNCHANGED <<tree, outcome, failStopVars>>
    BY <1>7 DEF ObserveExit, ObserveTimeout, ObserveCancel, ObserveFailStop,
                ObserveWaitError, Decide
  <2> QED BY <1>1, <2>1
<1> QED BY <1>2, <1>4, <1>5, <1>6, <1>7 DEF Execute, ExecutionStep

\* Cancel calls, the clock and the end change nothing an owner relies on.
Untouched ==
    /\ UNCHANGED <<owner, signal, exec, tree, started, outcome, permit, active, phase>>
    /\ registry' \in AfterPurge(registry) \/ registry' = registry

LEMMA CancelTyped ==
    ASSUME Typed, \A c \in Tasks : CallPlace(c),
           \/ \E t \in Tasks : RequestCancel(t) \/ CancelWaiterWakes(t)
           \/ Clock
           \/ Quiescent
           \/ UNCHANGED vars
    PROVE  Typed' /\ Untouched /\ \A c \in Tasks : CallPlace(c)'
<1> DEFINE Goal == Typed' /\ Untouched /\ \A c \in Tasks : CallPlace(c)'
<1> USE DEF Typed, FailStopTypeOK, ServiceTypeOK, ExecutionTypeOK, CallPlace, Untouched,
            executionVars, failStopVars, capacityVars, serviceVars, registryVars
<1>1. ASSUME NEW t \in Tasks, RequestCancel(t) PROVE Goal
  <2>1. latch' \in [Tasks -> LatchStates]
    BY SMTT(60), <1>1 DEF RequestCancel, FirstOf, LatchStates
  <2>2. PICK answer \in {"WAITING", "TASK_ALREADY_FINISHED", "TASK_NOT_FOUND"} :
           cancel' = [cancel EXCEPT ![t] = answer]
    BY <1>1 DEF RequestCancel
  <2>3. registry' \in AfterPurge(registry)
    BY <1>1 DEF RequestCancel
  <2> QED BY <1>1, <2>1, <2>2, <2>3 DEF RequestCancel
<1>2. ASSUME NEW t \in Tasks, CancelWaiterWakes(t) PROVE Goal
  BY <1>2 DEF CancelWaiterWakes, CancelAnswer
<1>3. ASSUME Clock PROVE Goal
  BY <1>3 DEF Clock, Tick
<1>4. ASSUME UNCHANGED vars PROVE Goal
  BY <1>4 DEF vars
<1> QED BY <1>1, <1>2, <1>3, <1>4 DEF Quiescent

LEMMA OthersKept ==
    ASSUME NEW u \in Tasks, TaskInv(u),
           owner'[u] = owner[u], signal'[u] = signal[u], exec'[u] = exec[u],
           tree'[u] = tree[u], outcome'[u] = outcome[u], permit'[u] = permit[u],
           active'[u] = active[u], is_fail_stopping => is_fail_stopping',
           EntryKept(registry, registry', u),
           MayHaveProcesses(u) => KeyUntaken(registry', u)
    PROVE  TaskInv(u)'
<1> USE DEF TaskInv, EntryKept, IsFinished
<1>1. ExecutionPlace(u)'
  BY DEF ExecutionPlace
<1>2. OwnerPlace(u)'
  BY DEF OwnerPlace, Unspawned, Ended, Owns, verify_owner
<1>3. ShownPlace(u)'
  BY DEF ShownPlace, MayHaveProcesses, KeyUntaken
<1> QED BY <1>1, <1>2, <1>3

-----------------------------------------------------------------------------
(* A step of the owner *)

\* What the owner's own operations make of its entry.
LEMMA OwnEntry ==
    ASSUME NEW p, Sound(p), NEW t \in Tasks
    PROVE  /\ Reserved(p, t).snapshot[t] = p.snapshot[t]
           /\ verify_owner(Reserved(p, t), t)
           /\ WithRunning(p, t).snapshot[t] = "RUNNING"
           /\ WithRunning(p, t).requests = p.requests
           /\ IsFinished(WithFinished(p, t), t)
           /\ WithFinished(p, t).requests = p.requests
           /\ Released(p, t).snapshot[t] = p.snapshot[t]
           /\ p.snapshot[t] # "NONE" => Released(p, t) = p
           /\ KeyUntaken(p, t) => KeyUntaken(Released(p, t), t)
<1> USE RequestAssumption DEF Sound, RegistryState
<1>1. /\ Reserved(p, t).snapshot[t] = p.snapshot[t]
      /\ verify_owner(Reserved(p, t), t)
  BY DEF Reserved, verify_owner
<1>2. /\ WithRunning(p, t).snapshot[t] = "RUNNING"
      /\ WithRunning(p, t).requests = p.requests
  BY DEF WithRunning
<1>3. /\ IsFinished(WithFinished(p, t), t)
      /\ WithFinished(p, t).requests = p.requests
  BY DEF WithFinished, IsFinished
<1>4. /\ Released(p, t).snapshot[t] = p.snapshot[t]
      /\ p.snapshot[t] # "NONE" => Released(p, t) = p
      /\ KeyUntaken(p, t) => KeyUntaken(Released(p, t), t)
  BY DEF Released, KeyUntaken
<1> QED BY <1>1, <1>2, <1>3, <1>4

\* The registry as an owner that gives its reservation back leaves it.
LEMMA ReleaseOwn ==
    ASSUME NEW t \in Tasks, ReleaseFailedOwner(t), Sound(registry), now \in Nat,
           ~IsFinished(registry, t)
    PROVE  /\ registry'.snapshot[t] = registry.snapshot[t]
           /\ KeyUntaken(registry', t)
           /\ registry.snapshot[t] = "RUNNING" => verify_owner(registry', t)
<1>1. PICK p \in AfterPurge(registry) : verify_owner(p, t) /\ registry' = Released(p, t)
  BY DEF ReleaseFailedOwner
<1>2. Sound(p) /\ EntryKept(registry, p, t)
  BY <1>1, AfterPurgeSound, PurgeKeepsEntry
<1>3. p.snapshot[t] = registry.snapshot[t]
  BY <1>2 DEF EntryKept
<1> QED BY SMTT(60), <1>1, <1>2, <1>3, OwnEntry DEF verify_owner, KeyUntaken

LEMMA PublishOwn ==
    ASSUME NEW t \in Tasks, PublishRunning(t), Sound(registry), now \in Nat
    PROVE  registry'.snapshot[t] = "RUNNING" /\ verify_owner(registry', t)
<1>1. PICK p \in AfterPurge(registry) : verify_owner(p, t) /\ registry' = WithRunning(p, t)
  BY DEF PublishRunning, CanPublishRunning
<1> QED BY <1>1, AfterPurgeSound, OwnEntry DEF verify_owner

LEMMA FinishOwn ==
    ASSUME NEW t \in Tasks, FinishSnapshot(t), Sound(registry), now \in Nat
    PROVE  IsFinished(registry', t) /\ verify_owner(registry', t)
<1>1. PICK p \in AfterPurge(registry) : verify_owner(p, t) /\ registry' = WithFinished(p, t)
  BY DEF FinishSnapshot, CanFinish
<1> QED BY <1>1, AfterPurgeSound, OwnEntry DEF verify_owner

\* One lemma for each owner action: Step is what the action does to its task,
\* Entry what its registry operation does to the task's entry, and the two
\* give the task's new place.
LEMMA AcquireAndSpawnPlace ==
    ASSUME NEW t \in Tasks
    PROVE  Typed /\ TaskInv(t) /\ AcquireAndSpawn(t) => TaskInv(t)'
<1> DEFINE Step ==
         /\ owner[t] = "RESERVED" /\ owner'[t] = "EXECUTING"
         /\ permit'[t] = "HELD" /\ exec[t] = "IDLE" /\ exec'[t] = "PREPARING"
         /\ UNCHANGED <<signal, tree, outcome, active, phase, registry>>
<1>1. ASSUME Typed, AcquireAndSpawn(t) PROVE Step
  BY <1>1 DEF AcquireAndSpawn, try_acquire, BeginExecution, OwnerGoes, failStopVars,
         registryVars, Typed, ServiceTypeOK, ExecutionTypeOK
<1>2. ASSUME Step, TaskInv(t) PROVE TaskInv(t)'
  BY <1>2 DEF TaskInv, ExecutionPlace, OwnerPlace, ShownPlace, Unspawned, Ended, Owns,
         IsFinished, MayHaveProcesses, verify_owner, KeyUntaken, is_fail_stopping
<1> QED BY <1>1, <1>2

LEMMA RollBackPlace ==
    ASSUME NEW t \in Tasks
    PROVE  Typed /\ TaskInv(t) /\ RollBack(t) /\ Sound(registry) /\ now \in Nat => TaskInv(t)'
<1> DEFINE Step ==
         /\ owner'[t] = "ROLLED_BACK"
         /\ \/ owner[t] = "RESERVED"
            \/ owner[t] = "EXECUTING" /\ exec[t] = "DONE" /\ outcome[t] = "REUSABLE"
         /\ UNCHANGED <<signal, exec, tree, outcome, permit, active, phase>>
<1>1. ASSUME Typed, RollBack(t) PROVE Step
  BY <1>1 DEF RollBack, OwnerGoes, ExecutionDone, executionVars, failStopVars,
         capacityVars, Typed, ServiceTypeOK
<1> DEFINE Entry ==
         /\ registry'.snapshot[t] = registry.snapshot[t]
         /\ registry'.requests[KeyOf[t]] \in {t, NoTask}
         /\ registry.snapshot[t] = "RUNNING" => registry'.requests[KeyOf[t]] = t
<1>2. ASSUME Step, TaskInv(t) PROVE ~IsFinished(registry, t)
  BY <1>2 DEF TaskInv, OwnerPlace, IsFinished
<1>3. ASSUME RollBack(t), Sound(registry), now \in Nat, ~IsFinished(registry, t) PROVE Entry
  <2>1. ReleaseFailedOwner(t)
    BY <1>3 DEF RollBack, ReleaseFailedOwner
  <2> QED BY <1>3, <2>1, ReleaseOwn DEF KeyUntaken, verify_owner
<1>4. ASSUME Step, Entry, TaskInv(t) PROVE TaskInv(t)'
  BY <1>4 DEF TaskInv, ExecutionPlace, OwnerPlace, ShownPlace, Unspawned, Ended, Owns,
         IsFinished, MayHaveProcesses, verify_owner, KeyUntaken, is_fail_stopping
<1> QED BY <1>1, <1>2, <1>3, <1>4

LEMMA PublishRollBackPlace ==
    ASSUME NEW t \in Tasks
    PROVE  Typed /\ TaskInv(t) /\ PublishRollBack(t) => TaskInv(t)'
<1> DEFINE Step ==
         /\ owner[t] = "ROLLED_BACK" /\ owner'[t] = "COMPLETING"
         /\ signal'[t] = "FAILED"
         /\ UNCHANGED <<exec, tree, outcome, permit, active, phase, registry>>
<1>1. ASSUME Typed, PublishRollBack(t) PROVE Step
  BY <1>1 DEF PublishRollBack, publish, OwnerGoes, executionVars, failStopVars,
         capacityVars, registryVars, Typed, ServiceTypeOK
<1>2. ASSUME Step, TaskInv(t) PROVE TaskInv(t)'
  BY <1>2 DEF TaskInv, ExecutionPlace, OwnerPlace, ShownPlace, Unspawned, Ended, Owns,
         IsFinished, MayHaveProcesses, verify_owner, KeyUntaken, is_fail_stopping
<1> QED BY <1>1, <1>2

LEMMA PublishRunningSnapshotPlace ==
    ASSUME NEW t \in Tasks
    PROVE  Typed /\ TaskInv(t) /\ PublishRunningSnapshot(t) /\ Sound(registry) /\ now \in Nat => TaskInv(t)'
<1> DEFINE Step ==
         /\ owner[t] = "EXECUTING" /\ owner'[t] = "PUBLISHED"
         /\ UNCHANGED <<signal, exec, tree, outcome, permit, active, phase>>
<1>1. ASSUME Typed, PublishRunningSnapshot(t) PROVE Step
  BY <1>1 DEF PublishRunningSnapshot, OwnerGoes, executionVars, failStopVars,
         capacityVars, Typed, ServiceTypeOK
<1> DEFINE Entry ==
         registry'.snapshot[t] = "RUNNING" /\ registry'.requests[KeyOf[t]] = t
<1>2. ASSUME PublishRunningSnapshot(t), Sound(registry), now \in Nat PROVE Entry
  <2>1. PublishRunning(t)
    BY <1>2 DEF PublishRunningSnapshot, PublishRunning
  <2> QED BY <1>2, <2>1, PublishOwn DEF verify_owner
<1>3. ASSUME Step, Entry, TaskInv(t) PROVE TaskInv(t)'
  BY <1>3 DEF TaskInv, ExecutionPlace, OwnerPlace, ShownPlace, Unspawned, Ended, Owns,
         IsFinished, MayHaveProcesses, verify_owner, KeyUntaken, is_fail_stopping
<1> QED BY <1>1, <1>2, <1>3

LEMMA SignalRunningPlace ==
    ASSUME NEW t \in Tasks
    PROVE  Typed /\ TaskInv(t) /\ SignalRunning(t) => TaskInv(t)'
<1> DEFINE Step ==
         /\ owner[t] = "PUBLISHED" /\ owner'[t] = "RUNNING"
         /\ signal'[t] = "RUNNING"
         /\ UNCHANGED <<exec, tree, outcome, permit, active, phase, registry>>
<1>1. ASSUME Typed, SignalRunning(t) PROVE Step
  BY <1>1 DEF SignalRunning, publish, OwnerGoes, executionVars, failStopVars,
         capacityVars, registryVars, Typed, ServiceTypeOK
<1>2. ASSUME Step, TaskInv(t) PROVE TaskInv(t)'
  BY <1>2 DEF TaskInv, ExecutionPlace, OwnerPlace, ShownPlace, Unspawned, Ended, Owns,
         IsFinished, MayHaveProcesses, verify_owner, KeyUntaken, is_fail_stopping
<1> QED BY <1>1, <1>2

LEMMA StoreFinishedPlace ==
    ASSUME NEW t \in Tasks
    PROVE  Typed /\ TaskInv(t) /\ StoreFinished(t) /\ Sound(registry) /\ now \in Nat => TaskInv(t)'
<1> DEFINE Step ==
         /\ owner[t] \in {"EXECUTING", "RUNNING"} /\ owner'[t] = "STORED"
         /\ exec[t] = "DONE" /\ outcome[t] = "COMPLETED"
         /\ UNCHANGED <<signal, exec, tree, outcome, permit, active, phase>>
<1>1. ASSUME Typed, StoreFinished(t) PROVE Step
  BY <1>1 DEF StoreFinished, OwnerGoes, ExecutionDone, executionVars, failStopVars,
         capacityVars, Typed, ServiceTypeOK
<1> DEFINE Entry ==
         /\ registry'.snapshot[t] \in {"FINISHED", "START_FAILED"}
         /\ registry'.requests[KeyOf[t]] = t
<1>2. ASSUME StoreFinished(t), Sound(registry), now \in Nat PROVE Entry
  <2>1. FinishSnapshot(t)
    BY <1>2 DEF StoreFinished, FinishSnapshot
  <2> QED BY <1>2, <2>1, FinishOwn DEF verify_owner, IsFinished
<1>3. ASSUME Step, Entry, TaskInv(t) PROVE TaskInv(t)'
  BY <1>3 DEF TaskInv, ExecutionPlace, OwnerPlace, ShownPlace, Unspawned, Ended, Owns,
         IsFinished, MayHaveProcesses, verify_owner, KeyUntaken, is_fail_stopping
<1> QED BY <1>1, <1>2, <1>3

LEMMA CompleteActivePlace ==
    ASSUME NEW t \in Tasks
    PROVE  Typed /\ TaskInv(t) /\ CompleteActive(t) => TaskInv(t)'
<1> DEFINE Step ==
         /\ active'[t] = "NONE"
         /\ \/ owner[t] = "STORED" /\ owner'[t] = "RELEASING"
            \/ owner[t] = "COMPLETING" /\ owner'[t] = "RELEASING" /\ permit[t] = "HELD"
            \/ owner[t] = "COMPLETING" /\ owner'[t] = "NOTIFYING" /\ permit[t] = "NONE"
         /\ UNCHANGED <<signal, exec, tree, outcome, permit, phase, registry>>
<1>1. ASSUME Typed, CompleteActive(t) PROVE Step
  BY <1>1 DEF CompleteActive, complete, OwnerGoes, executionVars, capacityVars,
         registryVars, Typed, ServiceTypeOK, FailStopTypeOK
<1>2. ASSUME Step, TaskInv(t) PROVE TaskInv(t)'
  BY <1>2 DEF TaskInv, ExecutionPlace, OwnerPlace, ShownPlace, Unspawned, Ended, Owns,
         IsFinished, MayHaveProcesses, verify_owner, KeyUntaken, is_fail_stopping
<1> QED BY <1>1, <1>2

LEMMA ReleaseCapacityLookPlace ==
    ASSUME NEW t \in Tasks
    PROVE  Typed /\ TaskInv(t) /\ ReleaseCapacityLook(t) => TaskInv(t)'
<1> DEFINE Step ==
         /\ owner[t] = "RELEASING" /\ owner'[t] \in {"DROPPING", "RETAINING"}
         /\ owner'[t] = "RETAINING" => phase = "FAIL_STOPPING"
         /\ UNCHANGED <<signal, exec, tree, outcome, permit, active, phase, registry>>
<1>1. ASSUME Typed, ReleaseCapacityLook(t) PROVE Step
  BY <1>1 DEF ReleaseCapacityLook, OwnerGoes, executionVars, failStopVars, capacityVars,
         registryVars, is_fail_stopping, Typed, ServiceTypeOK
<1>2. ASSUME Step, TaskInv(t) PROVE TaskInv(t)'
  BY <1>2 DEF TaskInv, ExecutionPlace, OwnerPlace, ShownPlace, Unspawned, Ended, Owns,
         IsFinished, MayHaveProcesses, verify_owner, KeyUntaken, is_fail_stopping
<1> QED BY <1>1, <1>2

LEMMA ReleaseCapacityActPlace ==
    ASSUME NEW t \in Tasks
    PROVE  Typed /\ TaskInv(t) /\ ReleaseCapacityAct(t) => TaskInv(t)'
<1> DEFINE Step ==
         /\ owner'[t] = "NOTIFYING"
         /\ \/ owner[t] = "DROPPING" /\ permit'[t] = "RELEASED"
            \/ owner[t] = "RETAINING" /\ permit'[t] = "RETAINED"
         /\ UNCHANGED <<signal, exec, tree, outcome, active, phase, registry>>
<1>1. ASSUME Typed, ReleaseCapacityAct(t) PROVE Step
  BY <1>1 DEF ReleaseCapacityAct, drop_permit, retain_for_fail_stop, OwnerGoes,
         executionVars, failStopVars, registryVars, Typed, ServiceTypeOK
<1>2. ASSUME Step, TaskInv(t) PROVE TaskInv(t)'
  BY <1>2 DEF TaskInv, ExecutionPlace, OwnerPlace, ShownPlace, Unspawned, Ended, Owns,
         IsFinished, MayHaveProcesses, verify_owner, KeyUntaken, is_fail_stopping
<1> QED BY <1>1, <1>2

LEMMA NotifyPlace ==
    ASSUME NEW t \in Tasks
    PROVE  Typed /\ TaskInv(t) /\ Notify(t) => TaskInv(t)'
<1> DEFINE Step ==
         /\ owner[t] = "NOTIFYING" /\ owner'[t] = "DONE"
         /\ \/ signal[t] = "FAILED" /\ signal'[t] = "FAILED"
            \/ signal[t] # "FAILED" /\ signal'[t] = "FINISHED"
         /\ UNCHANGED <<exec, tree, outcome, permit, active, phase, registry>>
<1>1. ASSUME Typed, Notify(t) PROVE Step
  BY <1>1 DEF Notify, publish, OwnerGoes, executionVars, failStopVars, capacityVars,
         registryVars, Typed, ServiceTypeOK
<1>2. ASSUME Step, TaskInv(t) PROVE TaskInv(t)'
  BY <1>2 DEF TaskInv, ExecutionPlace, OwnerPlace, ShownPlace, Unspawned, Ended, Owns,
         IsFinished, MayHaveProcesses, verify_owner, KeyUntaken, is_fail_stopping
<1> QED BY <1>1, <1>2

LEMMA RetainBeforeRunningPlace ==
    ASSUME NEW t \in Tasks
    PROVE  Typed /\ TaskInv(t) /\ RetainBeforeRunning(t) => TaskInv(t)'
<1> DEFINE Step ==
         /\ owner[t] = "EXECUTING" /\ owner'[t] = "FAILING"
         /\ exec[t] = "DONE" /\ outcome[t] \in {"BLOCKED", "UNCERTAIN"}
         /\ permit'[t] = "RETAINED"
         /\ UNCHANGED <<signal, exec, tree, outcome, active, phase, registry>>
<1>1. ASSUME Typed, RetainBeforeRunning(t) PROVE Step
  BY <1>1 DEF RetainBeforeRunning, retain_for_fail_stop, OwnerGoes, ExecutionDone,
         executionVars, failStopVars, registryVars, Typed, ServiceTypeOK
<1>2. ASSUME Step, TaskInv(t) PROVE TaskInv(t)'
  BY <1>2 DEF TaskInv, ExecutionPlace, OwnerPlace, ShownPlace, Unspawned, Ended, Owns,
         IsFinished, MayHaveProcesses, verify_owner, KeyUntaken, is_fail_stopping
<1> QED BY <1>1, <1>2

LEMMA FailBeforeRunningPlace ==
    ASSUME NEW t \in Tasks
    PROVE  Typed /\ TaskInv(t) /\ FailBeforeRunning(t) /\ Sound(registry) /\ now \in Nat => TaskInv(t)'
<1> DEFINE Step ==
         /\ owner[t] = "FAILING" /\ owner'[t] = "FAILED"
         /\ UNCHANGED <<signal, exec, tree, outcome, permit, active, phase>>
<1>1. ASSUME Typed, FailBeforeRunning(t) PROVE Step
  BY <1>1 DEF FailBeforeRunning, OwnerGoes, executionVars, failStopVars, capacityVars,
         Typed, ServiceTypeOK
<1> DEFINE Entry ==
         /\ registry'.snapshot[t] = registry.snapshot[t]
         /\ registry'.requests[KeyOf[t]] \in {t, NoTask}
         /\ registry.snapshot[t] = "RUNNING" => registry'.requests[KeyOf[t]] = t
<1>2. ASSUME Step, TaskInv(t) PROVE ~IsFinished(registry, t)
  BY <1>2 DEF TaskInv, OwnerPlace, IsFinished
<1>3. ASSUME FailBeforeRunning(t), Sound(registry), now \in Nat, ~IsFinished(registry, t) PROVE Entry
  <2>1. ReleaseFailedOwner(t)
    BY <1>3 DEF FailBeforeRunning, ReleaseFailedOwner
  <2> QED BY <1>3, <2>1, ReleaseOwn DEF KeyUntaken, verify_owner
<1>4. ASSUME Step, Entry, TaskInv(t) PROVE TaskInv(t)'
  BY <1>4 DEF TaskInv, ExecutionPlace, OwnerPlace, ShownPlace, Unspawned, Ended, Owns,
         IsFinished, MayHaveProcesses, verify_owner, KeyUntaken, is_fail_stopping
<1> QED BY <1>1, <1>2, <1>3, <1>4

LEMMA PublishFailurePlace ==
    ASSUME NEW t \in Tasks
    PROVE  Typed /\ TaskInv(t) /\ PublishFailure(t) => TaskInv(t)'
<1> DEFINE Step ==
         /\ owner[t] = "FAILED" /\ owner'[t] = "ABANDONING"
         /\ signal'[t] = "FAILED"
         /\ UNCHANGED <<exec, tree, outcome, permit, active, phase, registry>>
<1>1. ASSUME Typed, PublishFailure(t) PROVE Step
  BY <1>1 DEF PublishFailure, publish, OwnerGoes, executionVars, failStopVars,
         capacityVars, registryVars, Typed, ServiceTypeOK
<1>2. ASSUME Step, TaskInv(t) PROVE TaskInv(t)'
  BY <1>2 DEF TaskInv, ExecutionPlace, OwnerPlace, ShownPlace, Unspawned, Ended, Owns,
         IsFinished, MayHaveProcesses, verify_owner, KeyUntaken, is_fail_stopping
<1> QED BY <1>1, <1>2

LEMMA SettleFailurePlace ==
    ASSUME NEW t \in Tasks
    PROVE  Typed /\ TaskInv(t) /\ SettleFailure(t) => TaskInv(t)'
<1> DEFINE Step ==
         /\ owner[t] = "ABANDONING"
         /\ \/ owner'[t] = "DONE" /\ outcome[t] = "BLOCKED"
            \/ owner'[t] = "ORPHANING" /\ outcome[t] = "UNCERTAIN" /\ active'[t] = active[t]
         /\ UNCHANGED <<signal, exec, tree, outcome, permit, phase, registry>>
<1>1. ASSUME Typed, SettleFailure(t) PROVE Step
  BY <1>1 DEF SettleFailure, complete, failStopVars, OwnerGoes, executionVars,
         capacityVars, registryVars, Typed, ServiceTypeOK, FailStopTypeOK
<1>2. ASSUME Step, TaskInv(t) PROVE TaskInv(t)'
  BY <1>2 DEF TaskInv, ExecutionPlace, OwnerPlace, ShownPlace, Unspawned, Ended, Owns,
         IsFinished, MayHaveProcesses, verify_owner, KeyUntaken, is_fail_stopping
<1> QED BY <1>1, <1>2

LEMMA DropActivePlace ==
    ASSUME NEW t \in Tasks
    PROVE  Typed /\ TaskInv(t) /\ DropActive(t) => TaskInv(t)'
<1> DEFINE Step ==
         /\ owner[t] = "ORPHANING" /\ owner'[t] = "DONE"
         /\ phase' = "FAIL_STOPPING"
         /\ UNCHANGED <<signal, exec, tree, outcome, permit, active, registry>>
<1>1. ASSUME Typed, DropActive(t) PROVE Step
  BY <1>1 DEF DropActive, drop_active, activate, OwnerGoes, executionVars, capacityVars,
         registryVars, Typed, ServiceTypeOK
<1>2. ASSUME Step, TaskInv(t) PROVE TaskInv(t)'
  BY <1>2 DEF TaskInv, ExecutionPlace, OwnerPlace, ShownPlace, Unspawned, Ended, Owns,
         IsFinished, MayHaveProcesses, verify_owner, KeyUntaken, is_fail_stopping
<1> QED BY <1>1, <1>2

LEMMA ReportRunningFailurePlace ==
    ASSUME NEW t \in Tasks
    PROVE  Typed /\ TaskInv(t) /\ ReportRunningFailure(t) => TaskInv(t)'
<1> DEFINE Step ==
         /\ owner[t] = "RUNNING" /\ owner'[t] = "RUN_FAILED"
         /\ exec[t] = "DONE" /\ outcome[t] # "COMPLETED"
         /\ phase' = "FAIL_STOPPING"
         /\ outcome[t] \in Outcomes
         /\ UNCHANGED <<signal, exec, tree, outcome, permit, active, registry>>
<1>1. ASSUME Typed, ReportRunningFailure(t) PROVE Step
  BY <1>1 DEF ReportRunningFailure, activate, OwnerGoes, ExecutionDone, executionVars,
         capacityVars, registryVars, Typed, ServiceTypeOK, ExecutionTypeOK
<1>2. ASSUME Step, TaskInv(t) PROVE TaskInv(t)'
  BY <1>2 DEF TaskInv, ExecutionPlace, OwnerPlace, ShownPlace, Unspawned, Ended, Owns,
         IsFinished, MayHaveProcesses, verify_owner, KeyUntaken, is_fail_stopping,
         Outcomes
<1> QED BY <1>1, <1>2

LEMMA FailAfterRunningPlace ==
    ASSUME NEW t \in Tasks
    PROVE  Typed /\ TaskInv(t) /\ FailAfterRunning(t) /\ Sound(registry) /\ now \in Nat => TaskInv(t)'
<1> DEFINE Step ==
         /\ owner[t] = "RUN_FAILED" /\ owner'[t] = "RUN_KEPT"
         /\ signal'[t] = "RUNNING"
         /\ UNCHANGED <<exec, tree, outcome, permit, active, phase>>
<1>1. ASSUME Typed, FailAfterRunning(t) PROVE Step
  BY <1>1 DEF FailAfterRunning, publish, OwnerGoes, executionVars, failStopVars,
         capacityVars, Typed, ServiceTypeOK
<1> DEFINE Entry ==
         /\ registry'.snapshot[t] = registry.snapshot[t]
         /\ registry'.requests[KeyOf[t]] \in {t, NoTask}
         /\ registry.snapshot[t] = "RUNNING" => registry'.requests[KeyOf[t]] = t
<1>2. ASSUME Step, TaskInv(t) PROVE ~IsFinished(registry, t)
  BY <1>2 DEF TaskInv, OwnerPlace, IsFinished
<1>3. ASSUME FailAfterRunning(t), Sound(registry), now \in Nat, ~IsFinished(registry, t) PROVE Entry
  <2>1. ReleaseFailedOwner(t)
    BY <1>3 DEF FailAfterRunning, ReleaseFailedOwner
  <2> QED BY <1>3, <2>1, ReleaseOwn DEF KeyUntaken, verify_owner
<1>4. ASSUME Step, Entry, TaskInv(t) PROVE TaskInv(t)'
  BY <1>4 DEF TaskInv, ExecutionPlace, OwnerPlace, ShownPlace, Unspawned, Ended, Owns,
         IsFinished, MayHaveProcesses, verify_owner, KeyUntaken, is_fail_stopping
<1> QED BY <1>1, <1>2, <1>3, <1>4

LEMMA CompleteRunningFailurePlace ==
    ASSUME NEW t \in Tasks
    PROVE  Typed /\ TaskInv(t) /\ CompleteRunningFailure(t) => TaskInv(t)'
<1> DEFINE Step ==
         /\ owner[t] = "RUN_KEPT" /\ owner'[t] = "RUN_RETAIN"
         /\ outcome[t] = "UNCERTAIN" => active'[t] = active[t]
         /\ UNCHANGED <<signal, exec, tree, outcome, permit, phase, registry>>
<1>1. ASSUME Typed, CompleteRunningFailure(t) PROVE Step
  BY <1>1 DEF CompleteRunningFailure, complete, failStopVars, OwnerGoes, executionVars,
         capacityVars, registryVars, Typed, ServiceTypeOK, FailStopTypeOK
<1>2. ASSUME Step, TaskInv(t) PROVE TaskInv(t)'
  BY <1>2 DEF TaskInv, ExecutionPlace, OwnerPlace, ShownPlace, Unspawned, Ended, Owns,
         IsFinished, MayHaveProcesses, verify_owner, KeyUntaken, is_fail_stopping
<1> QED BY <1>1, <1>2

LEMMA RetainAfterRunningPlace ==
    ASSUME NEW t \in Tasks
    PROVE  Typed /\ TaskInv(t) /\ RetainAfterRunning(t) => TaskInv(t)'
<1> DEFINE Step ==
         /\ owner[t] = "RUN_RETAIN" /\ permit'[t] = "RETAINED"
         /\ \/ owner'[t] = "ORPHANING" /\ outcome[t] = "UNCERTAIN"
            \/ owner'[t] = "DONE" /\ outcome[t] # "UNCERTAIN"
         /\ UNCHANGED <<signal, exec, tree, outcome, active, phase, registry>>
<1>1. ASSUME Typed, RetainAfterRunning(t) PROVE Step
  BY <1>1 DEF RetainAfterRunning, retain_for_fail_stop, OwnerGoes, executionVars,
         failStopVars, registryVars, Typed, ServiceTypeOK
<1>2. ASSUME Step, TaskInv(t) PROVE TaskInv(t)'
  BY <1>2 DEF TaskInv, ExecutionPlace, OwnerPlace, ShownPlace, Unspawned, Ended, Owns,
         IsFinished, MayHaveProcesses, verify_owner, KeyUntaken, is_fail_stopping
<1> QED BY <1>1, <1>2

LEMMA OwnerKeepsPlace ==
    ASSUME NEW t \in Tasks, OwnerStep(t), Sound(registry), now \in Nat, Typed, TaskInv(t)
    PROVE  TaskInv(t)'
BY AcquireAndSpawnPlace, RollBackPlace, PublishRollBackPlace,
   PublishRunningSnapshotPlace, SignalRunningPlace, StoreFinishedPlace,
   CompleteActivePlace, ReleaseCapacityLookPlace, ReleaseCapacityActPlace, NotifyPlace,
   RetainBeforeRunningPlace, FailBeforeRunningPlace, PublishFailurePlace,
   SettleFailurePlace, DropActivePlace, ReportRunningFailurePlace,
   FailAfterRunningPlace, CompleteRunningFailurePlace, RetainAfterRunningPlace DEF
   OwnerStep

-----------------------------------------------------------------------------
(* A step of the execution *)

\* run_task runs only inside its owner, which waits for it.
LEMMA OwnerWaits ==
    ASSUME NEW t \in Tasks, Typed, TaskInv(t), exec[t] \notin {"IDLE", "DONE"}
    PROVE  /\ owner[t] \in {"EXECUTING", "PUBLISHED", "RUNNING"}
           /\ Owns(t) /\ verify_owner(registry, t)
           /\ owner[t] = "EXECUTING" => registry.snapshot[t] = "NONE"
           /\ owner[t] # "EXECUTING" => registry.snapshot[t] = "RUNNING"
BY DEF Typed, ServiceTypeOK, TaskInv, OwnerPlace, Unspawned, Ended

LEMMA ExecutionRuns ==
    ASSUME NEW t \in Tasks, Execute(t)
    PROVE  exec[t] \notin {"IDLE", "DONE"}
BY DEF Execute, ExecutionStep, CleanupRetried, RefuseForFailStop, RejectBeforeJob,
       CreateJob, AbandonForFailStop, AbortPending, GateFailed, CommitStart, ExecFailed,
       AbortCommitted, ExecStarted, LoseBeforeStarted, ObserveExit, ObserveTimeout,
       ObserveCancel, ObserveFailStop, ObserveWaitError, Decide, FinishCleaned,
       FinishUnclassified, FinalizeFailed, FinishLost

LEMMA ExecuteKeepsPlace ==
    ASSUME NEW t \in Tasks, Execute(t), Typed, TaskInv(t)
    PROVE  TaskInv(t)'
<1> DEFINE Goal == ExecutionPlace(t)' /\ active'[t] # "NONE" /\ exec'[t] # "IDLE"
<1> USE DEF ExecutionPlace, is_fail_stopping, Owns, Typed, ExecutionTypeOK, FailStopTypeOK,
            failStopVars
<1>1. exec[t] \notin {"IDLE", "DONE"}
  BY ExecutionRuns
<1>2. /\ owner[t] \in {"EXECUTING", "PUBLISHED", "RUNNING"}
      /\ Owns(t) /\ verify_owner(registry, t)
      /\ owner[t] = "EXECUTING" => registry.snapshot[t] = "NONE"
      /\ owner[t] # "EXECUTING" => registry.snapshot[t] = "RUNNING"
  BY <1>1, OwnerWaits
<1>3. UNCHANGED <<owner, signal, permit, registry>>
  BY DEF Execute, serviceVars, capacityVars, registryVars
<1>4. Goal => TaskInv(t)'
  <2> HAVE Goal
  <2>1. OwnerPlace(t)'
    BY <1>2, <1>3 DEF OwnerPlace, verify_owner
  <2>2. ShownPlace(t)'
    BY <1>2, <1>3 DEF TaskInv, ShownPlace, IsFinished, verify_owner, KeyUntaken
  <2> QED BY <2>1, <2>2 DEF TaskInv
<1>5. ExecutionPlace(t) /\ active[t] # "NONE" /\ outcome[t] = "NONE"
  BY <1>1, <1>2 DEF TaskInv
<1>6. ASSUME NEW state \in {"NONE", "GONE"}, NEW result \in Outcomes \ {"NONE"},
             Stop(t, state, result), UNCHANGED failStopVars,
             result = "COMPLETED" => state = "GONE",
             result = "UNCERTAIN" => state = "GONE",
             result = "BLOCKED" => is_fail_stopping
      PROVE  Goal
  BY <1>5, <1>6 DEF Stop, Outcomes
<1>7. ASSUME CleanupRetried(t) PROVE Goal
  BY <1>5, <1>7 DEF CleanupRetried, activate
<1>8. ASSUME RefuseForFailStop(t) PROVE Goal
  BY <1>6, <1>8 DEF RefuseForFailStop, Outcomes
<1>9. ASSUME RejectBeforeJob(t) PROVE Goal
  BY <1>6, <1>9 DEF RejectBeforeJob, Outcomes
<1>10. ASSUME AbandonForFailStop(t) PROVE Goal
  BY <1>6, <1>10 DEF AbandonForFailStop, Outcomes
<1>11. ASSUME AbortPending(t) \/ AbortCommitted(t) \/ FinishUnclassified(t) PROVE Goal
  <2>1. Stop(t, "GONE", "REUSABLE") /\ UNCHANGED failStopVars
    BY <1>11 DEF AbortPending, AbortCommitted, FinishUnclassified
  <2> QED BY <1>6, <2>1 DEF Outcomes
<1>12. ASSUME ExecFailed(t) \/ FinishCleaned(t) PROVE Goal
  <2>1. Stop(t, "GONE", "COMPLETED") /\ UNCHANGED failStopVars
    BY <1>12 DEF ExecFailed, FinishCleaned
  <2> QED BY <1>6, <2>1 DEF Outcomes
<1>13. ASSUME FinalizeFailed(t) PROVE Goal
  BY <1>6, <1>13 DEF FinalizeFailed, Outcomes
<1>14. ASSUME CreateJob(t) PROVE Goal
  BY <1>5, <1>14 DEF CreateJob
<1>15. ASSUME GateFailed(t) PROVE Goal
  BY <1>5, <1>15 DEF GateFailed, commit_gate_failed
<1>16. ASSUME CommitStart(t) PROVE Goal
  BY <1>5, <1>16 DEF CommitStart, commit_start
<1>17. ASSUME ExecStarted(t) PROVE Goal
  BY <1>5, <1>17 DEF ExecStarted
<1>18. ASSUME LoseBeforeStarted(t) \/ FinishLost(t) PROVE Goal
  BY SMTT(60), <1>5, <1>18 DEF LoseBeforeStarted, FinishLost, Lose, activate, Stop
<1>19. ASSUME \/ ObserveExit(t) \/ ObserveTimeout(t) \/ ObserveCancel(t)
              \/ ObserveFailStop(t) \/ ObserveWaitError(t)
       PROVE  Goal
  <2>1. /\ exec[t] = "STARTED" /\ exec' = [exec EXCEPT ![t] = "STOPPING"]
        /\ UNCHANGED <<tree, outcome, failStopVars>>
    BY <1>19 DEF ObserveExit, ObserveTimeout, ObserveCancel, ObserveFailStop,
                 ObserveWaitError, Decide
  <2> QED BY <1>5, <2>1
<1> QED BY <1>4, <1>7, <1>8, <1>9, <1>10, <1>11, <1>12, <1>13, <1>14, <1>15, <1>16, <1>17,
           <1>18, <1>19 DEF Execute, ExecutionStep

-----------------------------------------------------------------------------
(* A step of the submit call *)

LEMMA AdmitKeepsPlace ==
    ASSUME NEW t \in Tasks, AdmitAndReserve(t), Sound(registry), now \in Nat, Typed, TaskInv(t)
    PROVE  TaskInv(t)'
<1>1. PICK p \in AfterPurge(registry) : CanReserve(p, t) /\ registry' = Reserved(p, t)
  BY DEF AdmitAndReserve
<1>2. Sound(p) /\ EntryKept(registry, p, t)
  BY <1>1, AfterPurgeSound, PurgeKeepsEntry
<1>3. owner[t] = "NONE" /\ registry.snapshot[t] = "NONE"
  BY DEF AdmitAndReserve, OwnerGoes, TaskInv, OwnerPlace
<1>4. registry'.snapshot[t] = "NONE" /\ verify_owner(registry', t)
  BY SMTT(60), <1>1, <1>2, <1>3, OwnEntry DEF EntryKept, IsFinished
<1>5. /\ owner'[t] = "RESERVED" /\ active'[t] = "PENDING"
      /\ UNCHANGED <<exec, tree, outcome, permit, signal, phase>>
  BY DEF AdmitAndReserve, OwnerGoes, register, Typed, ServiceTypeOK, FailStopTypeOK,
         capacityVars, executionVars
<1> QED BY <1>3, <1>4, <1>5 DEF TaskInv, ExecutionPlace, OwnerPlace, ShownPlace, Unspawned,
           IsFinished, is_fail_stopping, MayHaveProcesses, KeyUntaken, verify_owner

-----------------------------------------------------------------------------
(* What the steps of one task do to the entries of the others *)

LEMMA EntriesKept ==
    ASSUME NEW t \in Tasks, NEW u \in Tasks \ {t}, Sound(registry), now \in Nat,
           \/ Lookup \/ UNCHANGED registryVars \/ PublishRunning(t)
           \/ FinishSnapshot(t) \/ ReleaseFailedOwner(t)
    PROVE  /\ EntryKept(registry, registry', u)
           /\ KeyUntaken(registry, u) => KeyUntaken(registry', u)
<1> DEFINE Goal == /\ EntryKept(registry, registry', u)
                   /\ KeyUntaken(registry, u) => KeyUntaken(registry', u)
<1>1. ASSUME NEW p \in AfterPurge(registry)
      PROVE  /\ Sound(p) /\ EntryKept(registry, p, u)
             /\ KeyUntaken(registry, u) => KeyUntaken(p, u)
  BY <1>1, AfterPurgeSound, PurgeKeepsEntry
<1>2. ASSUME UNCHANGED registryVars PROVE Goal
  BY <1>2 DEF registryVars, EntryKept
<1>3. ASSUME Lookup PROVE Goal
  BY <1>1, <1>3 DEF Lookup
<1>4. ASSUME PublishRunning(t) PROVE Goal
  <2>1. PICK p \in AfterPurge(registry) : registry' = WithRunning(p, t)
    BY <1>4 DEF PublishRunning
  <2> QED BY <1>1, <2>1, UpdateKeepsEntry
<1>5. ASSUME FinishSnapshot(t) PROVE Goal
  <2>1. PICK p \in AfterPurge(registry) : registry' = WithFinished(p, t)
    BY <1>5 DEF FinishSnapshot
  <2> QED BY <1>1, <2>1, UpdateKeepsEntry
<1>6. ASSUME ReleaseFailedOwner(t) PROVE Goal
  <2>1. PICK p \in AfterPurge(registry) : verify_owner(p, t) /\ registry' = Released(p, t)
    BY <1>6 DEF ReleaseFailedOwner
  <2> QED BY <1>1, <2>1, UpdateKeepsEntry
<1> QED BY <1>2, <1>3, <1>4, <1>5, <1>6

\* A key is reserved again only when no process of its last task is left.
LEMMA AdmitKeepsEntries ==
    ASSUME NEW t \in Tasks, NEW u \in Tasks \ {t}, AdmitAndReserve(t), Sound(registry),
           now \in Nat, Typed, TaskInv(u)
    PROVE  /\ EntryKept(registry, registry', u)
           /\ MayHaveProcesses(u) => KeyUntaken(registry', u)
<1>1. PICK p \in AfterPurge(registry) : CanReserve(p, t) /\ registry' = Reserved(p, t)
  BY DEF AdmitAndReserve
<1>2. Sound(p) /\ EntryKept(registry, p, u)
  BY <1>1, AfterPurgeSound, PurgeKeepsEntry
<1>3. EntryKept(registry, registry', u)
  BY <1>1, <1>2, UpdateKeepsEntry
<1>4. ASSUME MayHaveProcesses(u) PROVE KeyUntaken(registry', u)
  <2>1. ~is_fail_stopping
    BY DEF AdmitAndReserve, register
  <2>2. exec[u] \notin {"IDLE", "DONE"}
    BY <1>4, <2>1 DEF TaskInv, ExecutionPlace, MayHaveProcesses, Typed, ExecutionTypeOK,
                      Outcomes
  <2>3. verify_owner(registry, u) /\ ~IsFinished(registry, u)
    BY <2>2, OwnerWaits DEF IsFinished
  <2> QED BY <1>3, <2>3 DEF EntryKept, verify_owner, KeyUntaken
<1> QED BY <1>3, <1>4

-----------------------------------------------------------------------------
(* The invariant of the task path *)

\* Processes appear only for the task whose reservation is in the registry.
LEMMA OneTreeKept ==
    ASSUME NEW t \in Tasks, OnlyFor(t), OneTreePerRequest, \A u \in Tasks : TaskInv(u),
           tree'[t] = tree[t] \/ verify_owner(registry, t)
    PROVE  OneTreePerRequest'
<1> SUFFICES ASSUME NEW x \in Tasks, NEW y \in Tasks, KeyOf[x] = KeyOf[y],
                    MayHaveProcesses(x)', MayHaveProcesses(y)', x # y
             PROVE  FALSE
  BY DEF OneTreePerRequest
<1>1. ASSUME NEW u \in Tasks, u # t, MayHaveProcesses(u)'
      PROVE  MayHaveProcesses(u) /\ KeyUntaken(registry, u)
  BY <1>1 DEF OnlyFor, MayHaveProcesses, TaskInv, ShownPlace
<1>2. CASE tree'[t] = tree[t]
  <2>1. MayHaveProcesses(x) /\ MayHaveProcesses(y)
    BY <1>1, <1>2 DEF MayHaveProcesses
  <2> QED BY <2>1 DEF OneTreePerRequest
<1>3. CASE verify_owner(registry, t)
  <2>1. ASSUME NEW u \in Tasks, u # t, MayHaveProcesses(u)', KeyOf[u] = KeyOf[t]
        PROVE  FALSE
    BY <1>1, <1>3, <2>1, TaskAssumption DEF verify_owner, KeyUntaken
  <2>2. CASE x # t /\ y # t
    BY <1>1, <2>2 DEF OneTreePerRequest
  <2> QED BY <2>1, <2>2
<1> QED BY <1>2, <1>3

\* A step that is taken for t, what it does to t being known.
LEMMA StepOfOne ==
    ASSUME NEW t \in Tasks, OnlyFor(t), \A u \in Tasks : TaskInv(u), TaskInv(t)',
           \A u \in Tasks \ {t} : /\ EntryKept(registry, registry', u)
                                  /\ MayHaveProcesses(u) => KeyUntaken(registry', u)
    PROVE  \A u \in Tasks : TaskInv(u)'
<1> SUFFICES ASSUME NEW u \in Tasks \ {t} PROVE TaskInv(u)'
  OBVIOUS
<1> QED BY OthersKept DEF OnlyFor

\* A step that at most purges the registry.
LEMMA StepOfNone ==
    ASSUME Untouched, Sound(registry), \A u \in Tasks : TaskInv(u), OneTreePerRequest
    PROVE  (\A u \in Tasks : TaskInv(u)') /\ OneTreePerRequest'
<1>1. ASSUME NEW u \in Tasks PROVE TaskInv(u)'
  <2>1. /\ EntryKept(registry, registry', u)
        /\ KeyUntaken(registry, u) => KeyUntaken(registry', u)
    <3>1. CASE registry' \in AfterPurge(registry)
      BY <3>1, PurgeKeepsEntry
    <3>2. CASE registry' = registry
      BY <3>2 DEF EntryKept
    <3> QED BY <3>1, <3>2 DEF Untouched
  <2>2. MayHaveProcesses(u) => KeyUntaken(registry', u)
    BY <2>1 DEF TaskInv, ShownPlace
  <2> QED BY <2>1, <2>2, OthersKept DEF Untouched, is_fail_stopping
<1>2. OneTreePerRequest'
  BY DEF Untouched, OneTreePerRequest, MayHaveProcesses
<1> QED BY <1>1, <1>2

LEMMA ServiceInvInit == Init => ServiceInv
<1> SUFFICES ASSUME Init PROVE ServiceInv
  OBVIOUS
<1> USE DEF Init, RegistryInit, InitialRegistry, FailStopInit, CapacityInit, ExecutionInit,
            NothingDone
<1>1. Inv
  BY InvInit DEF Init
<1>2. Typed
  BY DEF Typed, FailStopTypeOK, ExecutionTypeOK, ServiceTypeOK, StartStates, LatchStates,
         Outcomes, Observations, Answers
<1>3. ASSUME NEW t \in Tasks PROVE TaskInv(t) /\ CallPlace(t)
  BY DEF TaskInv, ExecutionPlace, OwnerPlace, ShownPlace, Unspawned, IsFinished,
         MayHaveProcesses, CallPlace
<1>4. OneTreePerRequest
  BY DEF OneTreePerRequest, MayHaveProcesses
<1> QED BY <1>1, <1>2, <1>3, <1>4 DEF ServiceInv

LEMMA ServiceInvNext == ServiceInv /\ [Next]_vars => ServiceInv'
<1> SUFFICES ASSUME ServiceInv, [Next]_vars PROVE ServiceInv'
  OBVIOUS
<1> USE DEF ServiceInv
<1>1. Inv'
  BY ServiceRegistryStep, InvNext
<1>2. Sound(registry) /\ now \in Nat
  BY SMTT(60), RegistryBounds DEF Inv
<1> DEFINE Goal == /\ Typed' /\ OneTreePerRequest'
                   /\ \A u \in Tasks : TaskInv(u)' /\ CallPlace(u)'
<1>3. ASSUME NEW t \in Tasks, CallStep(t) PROVE Goal
  <2>1. Typed' /\ OnlyFor(t) /\ \A c \in Tasks : CallPlace(c)'
    BY <1>2, <1>3, CallTyped, CallFrame
  <2>2. UNCHANGED <<capacityVars, executionVars>>
    BY <1>3 DEF CallStep, ExistingSubmit, RejectUnavailable, AdmitAndReserve,
                AdmitWithoutReserve, WaiterWakes, EffectiveLimits
  <2>4. CASE AdmitAndReserve(t)
    <3>1. TaskInv(t)'
      BY <1>2, <2>4, AdmitKeepsPlace
    <3>2. \A u \in Tasks : TaskInv(u)'
      BY <1>2, <2>1, <2>4, <3>1, AdmitKeepsEntries, StepOfOne
    <3>3. OneTreePerRequest'
      BY <2>1, <2>2, OneTreeKept DEF executionVars
    <3> QED BY <2>1, <3>2, <3>3
  <2>5. CASE ~AdmitAndReserve(t)
    <3>1. UNCHANGED <<owner, signal, failStopVars>>
      BY <1>3, <2>5 DEF CallStep, ExistingSubmit, RejectUnavailable, AdmitWithoutReserve,
                        WaiterWakes, EffectiveLimits
    <3>2. registry' \in AfterPurge(registry) \/ registry' = registry
      BY <1>3, <2>5 DEF CallStep, ExistingSubmit, RejectUnavailable, AdmitWithoutReserve,
                        WaiterWakes, EffectiveLimits, registryVars
    <3>3. Untouched
      BY <2>2, <3>1, <3>2 DEF Untouched, capacityVars, executionVars, failStopVars
    <3> QED BY <1>2, <2>1, <3>3, StepOfNone
  <2> QED BY <2>4, <2>5
<1>4. ASSUME NEW t \in Tasks, OwnerStep(t) PROVE Goal
  <2>1. Typed' /\ OnlyFor(t) /\ \A c \in Tasks : CallPlace(c)'
    BY <1>4, OwnerTyped
  <2>2. TaskInv(t)'
    BY <1>2, <1>4, OwnerKeepsPlace
  <2>3. ASSUME NEW u \in Tasks \ {t}
        PROVE  /\ EntryKept(registry, registry', u)
               /\ MayHaveProcesses(u) => KeyUntaken(registry', u)
    BY <1>2, <1>4, OwnerRegistry, EntriesKept DEF TaskInv, ShownPlace
  <2>4. \A u \in Tasks : TaskInv(u)'
    BY <2>1, <2>2, <2>3, StepOfOne
  <2>5. tree' = tree
    BY <1>4 DEF OwnerStep, AcquireAndSpawn, BeginExecution, RollBack, PublishRollBack,
                PublishRunningSnapshot, SignalRunning, StoreFinished, CompleteActive,
                ReleaseCapacityLook, ReleaseCapacityAct, Notify, RetainBeforeRunning,
                FailBeforeRunning, PublishFailure, SettleFailure, DropActive,
                ReportRunningFailure, FailAfterRunning, CompleteRunningFailure,
                RetainAfterRunning, executionVars
  <2>6. OneTreePerRequest'
    BY <2>1, <2>5, OneTreeKept
  <2> QED BY <2>1, <2>2, <2>4, <2>6
<1>5. ASSUME NEW t \in Tasks, Execute(t) PROVE Goal
  <2>1. FailStopTypeOK' /\ ExecutionTypeOK'
    BY <1>5, ExecutionTyped DEF Execute, Typed
  <2>2. UNCHANGED <<serviceVars, registryVars, capacityVars>>
    BY <1>5 DEF Execute
  <2>3. Typed' /\ \A c \in Tasks : CallPlace(c)'
    BY <2>1, <2>2 DEF Typed, ServiceTypeOK, CallPlace, serviceVars,
                      capacityVars
  <2>4. OnlyFor(t) /\ TaskInv(t)'
    BY <1>5, ExecuteFrame, ExecuteKeepsPlace
  <2>5. ASSUME NEW u \in Tasks \ {t}
        PROVE  /\ EntryKept(registry, registry', u)
               /\ MayHaveProcesses(u) => KeyUntaken(registry', u)
    BY <1>2, <2>2, EntriesKept DEF TaskInv, ShownPlace
  <2>6. \A u \in Tasks : TaskInv(u)'
    BY <2>4, <2>5, StepOfOne
  <2>7. verify_owner(registry, t)
    BY <1>5, ExecutionRuns, OwnerWaits
  <2>8. OneTreePerRequest'
    BY <2>4, <2>7, OneTreeKept
  <2> QED BY <2>3, <2>6, <2>8
<1>6. ASSUME \/ \E t \in Tasks : RequestCancel(t) \/ CancelWaiterWakes(t)
             \/ Clock \/ Quiescent \/ UNCHANGED vars
      PROVE  Goal
  <2>1. Typed' /\ Untouched /\ \A c \in Tasks : CallPlace(c)'
    BY <1>6, CancelTyped
  <2> QED BY <1>2, <2>1, StepOfNone
<1> QED BY <1>1, <1>3, <1>4, <1>5, <1>6 DEF Next

LEMMA ServiceInvariance == Spec => []ServiceInv
BY ServiceInvInit, ServiceInvNext, PTL DEF Spec

-----------------------------------------------------------------------------
(* What follows in every state *)

\* A FINISHED result is visible only for a task whose whole process tree is
\* proved gone: finish_snapshot is reached only by completed runs.
THEOREM FinishedIsClean == Spec => []FinishedMeansClean
<1>1. ServiceInv => FinishedMeansClean
  BY DEF ServiceInv, TaskInv, ExecutionPlace, ShownPlace, FinishedMeansClean
<1> QED BY <1>1, ServiceInvariance, PTL

\* A task that may have processes: either run_task is in its owner, or its tree
\* was lost and the slot and the active entry are kept.
LEMMA TreeIsCovered ==
    ASSUME ServiceInv, NEW t \in Tasks, MayHaveProcesses(t)
    PROVE  permit[t] \in {"HELD", "RETAINED"} /\ active[t] # "NONE"
<1>1. Typed /\ TaskInv(t)
  BY DEF ServiceInv
<1>2. CASE exec[t] \notin {"IDLE", "DONE"}
  BY <1>1, <1>2, OwnerWaits DEF Owns
<1>3. CASE exec[t] \in {"IDLE", "DONE"}
  <2>1. exec[t] = "DONE" /\ outcome[t] = "UNCERTAIN"
    BY <1>1, <1>3 DEF TaskInv, ExecutionPlace, MayHaveProcesses, Typed, ExecutionTypeOK,
                      Outcomes
  <2> QED BY <1>1, <2>1 DEF TaskInv, OwnerPlace, Typed, ServiceTypeOK, Unspawned, Ended, Owns
<1> QED BY <1>2, <1>3

\* release_capacity never gives back the slot of a tree that is not proved gone.
THEOREM SlotCoversEveryTree == Spec => []SlotCoversTree
<1>1. ServiceInv => SlotCoversTree
  BY TreeIsCovered DEF SlotCoversTree
<1> QED BY <1>1, ServiceInvariance, PTL

\* The fail-stop drain waits for the active executions, and every task that may
\* have processes is one of them.
THEOREM ActiveCoversEveryTree == Spec => []ActiveCoversTree
<1>1. ServiceInv => ActiveCoversTree
  BY TreeIsCovered DEF ActiveCoversTree
<1> QED BY <1>1, ServiceInvariance, PTL

\* A lost tree, and a slot retained by an owner that has ended, always come
\* with fail-stop: the daemon never goes on taking work beside them.
THEOREM UncertaintyStops == Spec => []UncertainMeansFailStop
<1>1. ServiceInv => UncertainMeansFailStop
  BY DEF ServiceInv, TaskInv, ExecutionPlace, OwnerPlace, UncertainMeansFailStop
<1> QED BY <1>1, ServiceInvariance, PTL

\* The reservation of an owner that still has a registry operation to do is
\* never taken over or purged: the ownership errors of publish_running,
\* finish_snapshot and release_failed_owner do not happen.
THEOREM OwnersAreVerified == Spec => []OwnerVerified
<1>1. ServiceInv => OwnerVerified
  <2> SUFFICES ASSUME ServiceInv, NEW t \in Tasks, OwnerHoldsReservation(t)
               PROVE  /\ verify_owner(registry, t)
                      /\ owner[t] \in {"RESERVED", "EXECUTING", "FAILING"} =>
                            registry.snapshot[t] = "NONE"
                      /\ owner[t] \in {"PUBLISHED", "RUNNING", "RUN_FAILED"} =>
                            registry.snapshot[t] = "RUNNING"
    BY DEF OwnerVerified
  <2>1. OwnerPlace(t)
    BY DEF ServiceInv, TaskInv
  <2> QED BY <2>1 DEF OwnerPlace, OwnerHoldsReservation
<1> QED BY <1>1, ServiceInvariance, PTL

\* Whoever is told FINISHED finds the result stored or expired, and the slot
\* already released or retained.
THEOREM ToldOnlyAfterRelease == Spec => []ToldAfterRelease
<1>1. ServiceInv => ToldAfterRelease
  BY DEF ServiceInv, TaskInv, ShownPlace, ToldAfterRelease
<1> QED BY <1>1, ServiceInvariance, PTL

\* Two tasks of one clientRequestId never have processes at the same time,
\* however rollbacks, failures, purges and retries interleave.
THEOREM OneTreeForEachRequest == Spec => []OneTreePerRequest
<1>1. ServiceInv => OneTreePerRequest
  BY DEF ServiceInv
<1> QED BY <1>1, ServiceInvariance, PTL

-----------------------------------------------------------------------------
(* What no step does *)

LEMMA OwnerKeepsRetained ==
    ASSUME NEW t \in Tasks, OwnerStep(t), Typed, TaskInv(t), permit[t] = "RETAINED"
    PROVE  permit'[t] = "RETAINED"
<1> USE DEF OwnerGoes, TaskInv, OwnerPlace, Unspawned, Owns
<1>1. ~AcquireAndSpawn(t) /\ ~ReleaseCapacityAct(t)
  BY DEF AcquireAndSpawn, ReleaseCapacityAct
<1>2. ASSUME RetainBeforeRunning(t) \/ RetainAfterRunning(t)
      PROVE  permit'[t] = "RETAINED"
  BY <1>2 DEF RetainBeforeRunning, RetainAfterRunning, retain_for_fail_stop, Typed
<1>3. ASSUME UNCHANGED capacityVars PROVE permit'[t] = "RETAINED"
  BY <1>3 DEF capacityVars
<1> QED BY <1>1, <1>2, <1>3
        DEF OwnerStep, RollBack, PublishRollBack, PublishRunningSnapshot, SignalRunning,
            StoreFinished, CompleteActive, ReleaseCapacityLook, Notify, FailBeforeRunning,
            PublishFailure, SettleFailure, DropActive, ReportRunningFailure,
            FailAfterRunning, CompleteRunningFailure

\* Fail-stop is never left, its first report never replaced, and a slot that was
\* retained for it is never given back.
THEOREM FailStopIsSticky == Spec => FailStopSticky
<1>1. ASSUME ServiceInv, [Next]_vars
      PROVE  [is_fail_stopping =>
                /\ phase' = "FAIL_STOPPING"
                /\ firstReport' = firstReport
                /\ \A t \in Tasks : permit[t] = "RETAINED" => permit'[t] = "RETAINED"]_vars
  <2> SUFFICES ASSUME is_fail_stopping
               PROVE  /\ phase' = "FAIL_STOPPING" /\ firstReport' = firstReport
                      /\ \A t \in Tasks : permit[t] = "RETAINED" => permit'[t] = "RETAINED"
    OBVIOUS
  <2> DEFINE Goal == /\ phase' = "FAIL_STOPPING" /\ firstReport' = firstReport
                     /\ \A t \in Tasks : permit[t] = "RETAINED" => permit'[t] = "RETAINED"
  <2> USE DEF is_fail_stopping, failStopVars, capacityVars
  <2>0. Typed /\ \A t \in Tasks : TaskInv(t) /\ CallPlace(t)
    BY <1>1 DEF ServiceInv
  <2>1. ASSUME NEW t \in Tasks, CallStep(t) PROVE Goal
    BY <2>1 DEF CallStep, ExistingSubmit, RejectUnavailable, AdmitAndReserve, register,
                AdmitWithoutReserve, WaiterWakes, EffectiveLimits
  <2>2. ASSUME NEW t \in Tasks, Execute(t) PROVE Goal
    <3>1. UNCHANGED permit
      BY <2>2 DEF Execute
    <3>2. phase' = "FAIL_STOPPING" /\ firstReport' = firstReport
      BY <2>2 DEF Execute, ExecutionStep, CleanupRetried, RefuseForFailStop,
                  RejectBeforeJob, CreateJob, AbandonForFailStop, AbortPending,
                  GateFailed, commit_gate_failed, CommitStart, commit_start, ExecFailed,
                  AbortCommitted, ExecStarted, LoseBeforeStarted, Lose, activate,
                  ObserveExit, ObserveTimeout, ObserveCancel, ObserveFailStop,
                  ObserveWaitError, FinishCleaned, FinishUnclassified, FinalizeFailed,
                  FinishLost
    <3> QED BY <3>1, <3>2
  <2>3. ASSUME NEW t \in Tasks, OwnerStep(t) PROVE Goal
    <3>1. phase' = "FAIL_STOPPING" /\ firstReport' = firstReport
      BY <2>3 DEF OwnerStep, AcquireAndSpawn, RollBack, PublishRollBack,
                  PublishRunningSnapshot, SignalRunning, StoreFinished, CompleteActive,
                  ReleaseCapacityLook, ReleaseCapacityAct, Notify, RetainBeforeRunning,
                  FailBeforeRunning, PublishFailure, SettleFailure, DropActive,
                  ReportRunningFailure, FailAfterRunning, CompleteRunningFailure,
                  RetainAfterRunning, complete, drop_active, activate
    <3>2. permit[t] = "RETAINED" => permit'[t] = "RETAINED"
      BY <2>0, <2>3, OwnerKeepsRetained
    <3>3. OnlyFor(t)
      BY <2>0, <2>3, OwnerTyped
    <3> QED BY <3>1, <3>2, <3>3 DEF OnlyFor
  <2>4. ASSUME NEW t \in Tasks, RequestCancel(t) \/ CancelWaiterWakes(t) PROVE Goal
    BY <2>4 DEF RequestCancel, CancelWaiterWakes
  <2>5. ASSUME Clock \/ Quiescent \/ UNCHANGED vars PROVE Goal
    BY <2>5 DEF Clock, Quiescent, vars
  <2> QED BY <1>1, <2>1, <2>2, <2>3, <2>4, <2>5 DEF Next
<1> QED BY <1>1, ServiceInvariance, PTL DEF Spec, FailStopSticky

\* RUNNING is published only for an execution that is past its exec gate.
PastGate == {"STARTED", "STOPPING", "DONE"}

StartedPlace(t) ==
    /\ started[t] => exec[t] \in PastGate
    /\ owner[t] \in {"PUBLISHED", "RUNNING"} => exec[t] \in PastGate

LEMMA ExecuteStartedPlace ==
    ASSUME NEW t \in Tasks, Execute(t), Typed, StartedPlace(t)
    PROVE  StartedPlace(t)' /\ \A u \in Tasks \ {t} : started'[u] = started[u]
<1> DEFINE Goal == StartedPlace(t)' /\ \A u \in Tasks \ {t} : started'[u] = started[u]
<1> USE DEF StartedPlace, PastGate, Typed, ExecutionTypeOK
<1>1. owner' = owner
  BY DEF Execute, serviceVars
<1>2. ASSUME \/ RefuseForFailStop(t) \/ RejectBeforeJob(t) \/ AbandonForFailStop(t)
             \/ AbortPending(t) \/ AbortCommitted(t) \/ FinishUnclassified(t)
             \/ FinalizeFailed(t) \/ ExecFailed(t) \/ FinishCleaned(t)
             \/ LoseBeforeStarted(t) \/ FinishLost(t)
      PROVE  Goal
  <2>1. exec' = [exec EXCEPT ![t] = "DONE"] /\ UNCHANGED started
    BY <1>2 DEF RefuseForFailStop, RejectBeforeJob, AbandonForFailStop, AbortPending,
                AbortCommitted, FinishUnclassified, FinalizeFailed, ExecFailed,
                FinishCleaned, LoseBeforeStarted, FinishLost, Lose, Stop
  <2> QED BY <2>1
<1>3. ASSUME CleanupRetried(t) \/ GateFailed(t) PROVE Goal
  <2>1. UNCHANGED <<exec, started>>
    BY <1>3 DEF CleanupRetried, GateFailed
  <2> QED BY <1>1, <2>1
<1>4. ASSUME CreateJob(t) \/ CommitStart(t) PROVE Goal
  <2>1. exec[t] \notin PastGate /\ UNCHANGED started
    BY <1>4 DEF CreateJob, CommitStart
  <2> QED BY <1>1, <2>1
<1>5. ASSUME ExecStarted(t) PROVE Goal
  BY <1>5 DEF ExecStarted
<1>6. ASSUME \/ ObserveExit(t) \/ ObserveTimeout(t) \/ ObserveCancel(t)
             \/ ObserveFailStop(t) \/ ObserveWaitError(t)
      PROVE  Goal
  <2>1. exec' = [exec EXCEPT ![t] = "STOPPING"] /\ UNCHANGED started
    BY <1>6 DEF ObserveExit, ObserveTimeout, ObserveCancel, ObserveFailStop,
                ObserveWaitError, Decide
  <2> QED BY <2>1
<1> QED BY <1>2, <1>3, <1>4, <1>5, <1>6 DEF Execute, ExecutionStep

LEMMA OwnerStartedPlace ==
    ASSUME NEW t \in Tasks, OwnerStep(t), Typed, StartedPlace(t)
    PROVE  StartedPlace(t)' /\ started' = started
<1> USE DEF StartedPlace, PastGate, Typed, ExecutionTypeOK, ServiceTypeOK, OwnerGoes
<1>1. ASSUME AcquireAndSpawn(t) PROVE StartedPlace(t)' /\ started' = started
  BY <1>1 DEF AcquireAndSpawn, BeginExecution
<1>2. ASSUME PublishRunningSnapshot(t) PROVE StartedPlace(t)' /\ started' = started
  BY <1>2 DEF PublishRunningSnapshot, executionVars
<1>3. ASSUME SignalRunning(t) PROVE StartedPlace(t)' /\ started' = started
  BY <1>3 DEF SignalRunning, executionVars
<1>4. ASSUME ~AcquireAndSpawn(t), ~PublishRunningSnapshot(t), ~SignalRunning(t)
      PROVE  StartedPlace(t)' /\ started' = started
  <2>1. owner'[t] \notin {"PUBLISHED", "RUNNING"}
    <3>1. ASSUME \/ RollBack(t) \/ PublishRollBack(t) \/ StoreFinished(t)
                 \/ CompleteActive(t) \/ Notify(t)
          PROVE  owner'[t] \notin {"PUBLISHED", "RUNNING"}
      BY SMTT(60), <3>1 DEF RollBack, PublishRollBack, StoreFinished, CompleteActive, Notify
    <3>2. ASSUME ReleaseCapacityLook(t) \/ ReleaseCapacityAct(t)
          PROVE  owner'[t] \notin {"PUBLISHED", "RUNNING"}
      BY <3>2 DEF ReleaseCapacityLook, ReleaseCapacityAct
    <3>3. ASSUME \/ RetainBeforeRunning(t) \/ FailBeforeRunning(t) \/ PublishFailure(t)
                 \/ SettleFailure(t) \/ DropActive(t)
          PROVE  owner'[t] \notin {"PUBLISHED", "RUNNING"}
      BY SMTT(60), <3>3 DEF RetainBeforeRunning, FailBeforeRunning, PublishFailure,
                         SettleFailure, DropActive
    <3>4. ASSUME \/ ReportRunningFailure(t) \/ FailAfterRunning(t)
                 \/ CompleteRunningFailure(t) \/ RetainAfterRunning(t)
          PROVE  owner'[t] \notin {"PUBLISHED", "RUNNING"}
      BY SMTT(60), <3>4 DEF ReportRunningFailure, FailAfterRunning, CompleteRunningFailure,
                         RetainAfterRunning
    <3> QED BY <1>4, <3>1, <3>2, <3>3, <3>4 DEF OwnerStep
  <2>2. UNCHANGED executionVars
    BY <1>4 DEF OwnerStep, RollBack, PublishRollBack, StoreFinished, CompleteActive,
                ReleaseCapacityLook, ReleaseCapacityAct, Notify, RetainBeforeRunning,
                FailBeforeRunning, PublishFailure, SettleFailure, DropActive,
                ReportRunningFailure, FailAfterRunning, CompleteRunningFailure,
                RetainAfterRunning
  <2> QED BY <2>1, <2>2 DEF executionVars
<1> QED BY <1>1, <1>2, <1>3, <1>4

LEMMA StartedNext ==
    ASSUME ServiceInv, \A t \in Tasks : StartedPlace(t), [Next]_vars
    PROVE  \A t \in Tasks : StartedPlace(t)'
<1>0. Typed /\ \A t \in Tasks : TaskInv(t) /\ CallPlace(t)
  BY DEF ServiceInv
<1>1. ASSUME NEW t \in Tasks, OnlyFor(t), StartedPlace(t)',
             \A u \in Tasks \ {t} : started'[u] = started[u]
      PROVE  \A u \in Tasks : StartedPlace(u)'
  BY <1>1 DEF StartedPlace, OnlyFor
<1>2. ASSUME NEW t \in Tasks, OwnerStep(t) PROVE \A u \in Tasks : StartedPlace(u)'
  BY <1>0, <1>1, <1>2, OwnerTyped, OwnerStartedPlace
<1>3. ASSUME NEW t \in Tasks, Execute(t) PROVE \A u \in Tasks : StartedPlace(u)'
  BY <1>0, <1>1, <1>3, ExecuteFrame, ExecuteStartedPlace
<1>4. ASSUME NEW t \in Tasks, CallStep(t) PROVE \A u \in Tasks : StartedPlace(u)'
  <2>1. UNCHANGED executionVars
    BY <1>4 DEF CallStep, ExistingSubmit, RejectUnavailable, AdmitAndReserve,
                AdmitWithoutReserve, WaiterWakes, EffectiveLimits
  <2>2. owner'[t] = owner[t] \/ owner'[t] = "RESERVED"
    BY <1>0, <1>4 DEF CallStep, ExistingSubmit, RejectUnavailable, AdmitAndReserve,
                      OwnerGoes, AdmitWithoutReserve, WaiterWakes, EffectiveLimits,
                      Typed, ServiceTypeOK
  <2>3. StartedPlace(t)'
    BY <2>1, <2>2 DEF StartedPlace, executionVars
  <2> QED BY <1>0, <1>1, <1>4, <2>1, <2>3, CallFrame DEF executionVars
<1>5. ASSUME \/ \E t \in Tasks : RequestCancel(t) \/ CancelWaiterWakes(t)
             \/ Clock \/ Quiescent \/ UNCHANGED vars
      PROVE  \A u \in Tasks : StartedPlace(u)'
  <2>1. UNCHANGED <<owner, started, exec>>
    BY <1>0, <1>5, CancelTyped DEF Untouched
  <2> QED BY <2>1 DEF StartedPlace
<1> QED BY <1>2, <1>3, <1>4, <1>5 DEF Next

\* commit_start opens no exec gate once fail-stop is active, and opens one only
\* for a task whose owner holds a slot and has not published RUNNING yet.
THEOREM NoStartOnceFailStopping == Spec => NoStartAfterFailStop
<1>1. Init => \A t \in Tasks : StartedPlace(t)
  BY SMTT(60) DEF Init, ExecutionInit, NothingDone, StartedPlace
<1>2. ASSUME ServiceInv, \A t \in Tasks : StartedPlace(t), [Next]_vars
      PROVE  [\A t \in Tasks : tree[t] # "LIVE" /\ tree'[t] = "LIVE" =>
                phase' = "HEALTHY" /\ owner[t] = "EXECUTING" /\ permit[t] = "HELD"]_vars
  <2> SUFFICES ASSUME NEW t \in Tasks, tree[t] # "LIVE", tree'[t] = "LIVE"
               PROVE  phase' = "HEALTHY" /\ owner[t] = "EXECUTING" /\ permit[t] = "HELD"
    OBVIOUS
  <2>0. Typed /\ \A u \in Tasks : TaskInv(u) /\ CallPlace(u)
    BY <1>2 DEF ServiceInv
  <2>1. Execute(t)
    <3>1. ASSUME NEW u \in Tasks, Execute(u) PROVE u = t
      BY <2>0, <3>1, ExecuteFrame DEF OnlyFor
    <3>2. ASSUME NEW u \in Tasks, CallStep(u) \/ OwnerStep(u) PROVE tree' = tree
      BY <3>2 DEF CallStep, ExistingSubmit, RejectUnavailable, AdmitAndReserve,
                  AdmitWithoutReserve, WaiterWakes, EffectiveLimits,
                  OwnerStep, AcquireAndSpawn, BeginExecution, RollBack, PublishRollBack,
                  PublishRunningSnapshot, SignalRunning, StoreFinished, CompleteActive,
                  ReleaseCapacityLook, ReleaseCapacityAct, Notify, RetainBeforeRunning,
                  FailBeforeRunning, PublishFailure, SettleFailure, DropActive,
                  ReportRunningFailure, FailAfterRunning, CompleteRunningFailure,
                  RetainAfterRunning, executionVars
    <3>3. ASSUME \/ \E u \in Tasks : RequestCancel(u) \/ CancelWaiterWakes(u)
                 \/ Clock \/ Quiescent \/ UNCHANGED vars
          PROVE  tree' = tree
      BY <2>0, <3>3, CancelTyped DEF Untouched
    <3> QED BY <1>2, <3>1, <3>2, <3>3 DEF Next
  <2>2. CommitStart(t)
    BY <2>0, <2>1 DEF Execute, ExecutionStep, CleanupRetried, RefuseForFailStop,
                RejectBeforeJob, CreateJob, AbandonForFailStop, AbortPending, GateFailed,
                ExecFailed, AbortCommitted, ExecStarted, LoseBeforeStarted, Lose,
                ObserveExit, ObserveTimeout, ObserveCancel, ObserveFailStop,
                ObserveWaitError, Decide, FinishCleaned, FinishUnclassified,
                FinalizeFailed, FinishLost, Stop, Typed, ExecutionTypeOK
  <2>3. exec[t] = "GATED" /\ ~is_fail_stopping /\ phase' = phase
    BY <2>2 DEF CommitStart, commit_start
  <2>4. owner[t] \in {"EXECUTING", "PUBLISHED", "RUNNING"} /\ permit[t] = "HELD"
    BY <2>0, <2>3, OwnerWaits DEF Owns
  <2>5. owner[t] = "EXECUTING"
    BY <1>2, <2>3, <2>4 DEF StartedPlace, PastGate
  <2> QED BY <2>0, <2>3, <2>4, <2>5 DEF is_fail_stopping, Typed, FailStopTypeOK
<1>3. ServiceInv /\ (\A t \in Tasks : StartedPlace(t)) /\ [Next]_vars =>
         \A t \in Tasks : StartedPlace(t)'
  BY StartedNext
<1> DEFINE Started == \A t \in Tasks : StartedPlace(t)
<1> HIDE DEF Started
<1>4. Init => Started
  BY <1>1 DEF Started
<1>5. ServiceInv /\ Started /\ [Next]_vars => Started'
  BY <1>3 DEF Started
<1>6. ServiceInv /\ Started /\ [Next]_vars =>
         [\A t \in Tasks : tree[t] # "LIVE" /\ tree'[t] = "LIVE" =>
             phase' = "HEALTHY" /\ owner[t] = "EXECUTING" /\ permit[t] = "HELD"]_vars
  BY <1>2 DEF Started
<1> QED BY <1>4, <1>5, <1>6, ServiceInvariance, PTL DEF Spec, NoStartAfterFailStop

-----------------------------------------------------------------------------
(* What a task that was started has left behind *)

StartedTree(t) == started[t] => tree[t] \notin {"NONE", "GATED"}

PromiseInv == ServiceInv /\ \A t \in Tasks : StartedPlace(t) /\ StartedTree(t)

\* The only executions without a tree, or with a gated one, are those that
\* have not reached on_started.
LEMMA ExecuteStartedTree ==
    ASSUME NEW t \in Tasks, Execute(t), Typed, TaskInv(t), StartedPlace(t), StartedTree(t)
    PROVE  StartedTree(t)'
<1> USE DEF StartedTree, Typed, ExecutionTypeOK
<1>1. ASSUME \/ RefuseForFailStop(t) \/ RejectBeforeJob(t) \/ CreateJob(t)
      PROVE  StartedTree(t)'
  <2>1. exec[t] = "PREPARING" /\ UNCHANGED started
    BY <1>1 DEF RefuseForFailStop, RejectBeforeJob, CreateJob, Stop
  <2>2. ~started[t]
    BY <2>1 DEF StartedPlace, PastGate
  <2> QED BY <2>1, <2>2
<1>2. ASSUME NEW state \in {"GONE", "UNKNOWN"}, NEW result, Stop(t, state, result)
      PROVE  StartedTree(t)'
  BY <1>2 DEF Stop
<1>3. ASSUME \/ AbandonForFailStop(t) \/ AbortPending(t) \/ AbortCommitted(t)
             \/ FinishUnclassified(t) \/ FinalizeFailed(t) \/ ExecFailed(t)
             \/ FinishCleaned(t) \/ LoseBeforeStarted(t) \/ FinishLost(t)
      PROVE  StartedTree(t)'
  BY <1>2, <1>3 DEF AbandonForFailStop, AbortPending, AbortCommitted,
     FinishUnclassified, FinalizeFailed, ExecFailed, FinishCleaned, LoseBeforeStarted,
     FinishLost, Lose
<1>4. ASSUME CommitStart(t) \/ ExecStarted(t) PROVE StartedTree(t)'
  BY <1>4 DEF CommitStart, ExecStarted, TaskInv, ExecutionPlace
<1>5. ASSUME \/ ObserveExit(t) \/ ObserveTimeout(t) \/ ObserveCancel(t)
             \/ ObserveFailStop(t) \/ ObserveWaitError(t) \/ CleanupRetried(t)
             \/ GateFailed(t)
      PROVE  StartedTree(t)'
  <2>1. UNCHANGED <<tree, started>>
    BY <1>5 DEF ObserveExit, ObserveTimeout, ObserveCancel, ObserveFailStop,
                ObserveWaitError, Decide, CleanupRetried, GateFailed
  <2> QED BY <2>1
<1> QED BY <1>1, <1>3, <1>4, <1>5 DEF Execute, ExecutionStep

\* Calls, owners, cancels and the clock leave the trees alone.
LEMMA TreesKept ==
    ASSUME NEW t \in Tasks, CallStep(t) \/ OwnerStep(t)
    PROVE  UNCHANGED <<tree, started, outcome>>
<1>1. ASSUME CallStep(t) PROVE UNCHANGED <<tree, started, outcome>>
  BY <1>1 DEF CallStep, ExistingSubmit, RejectUnavailable, AdmitAndReserve,
              AdmitWithoutReserve, WaiterWakes, EffectiveLimits, executionVars
<1>2. ASSUME AcquireAndSpawn(t) PROVE UNCHANGED <<tree, started, outcome>>
  BY <1>2 DEF AcquireAndSpawn, BeginExecution
<1>3. ASSUME \/ RollBack(t) \/ PublishRollBack(t) \/ PublishRunningSnapshot(t)
             \/ SignalRunning(t) \/ StoreFinished(t) \/ CompleteActive(t)
             \/ ReleaseCapacityLook(t) \/ ReleaseCapacityAct(t) \/ Notify(t)
             \/ RetainBeforeRunning(t) \/ FailBeforeRunning(t) \/ PublishFailure(t)
             \/ SettleFailure(t) \/ DropActive(t) \/ ReportRunningFailure(t)
             \/ FailAfterRunning(t) \/ CompleteRunningFailure(t) \/ RetainAfterRunning(t)
      PROVE  UNCHANGED executionVars
  BY <1>3 DEF RollBack, PublishRollBack, PublishRunningSnapshot, SignalRunning,
              StoreFinished, CompleteActive, ReleaseCapacityLook, ReleaseCapacityAct,
              Notify, RetainBeforeRunning, FailBeforeRunning, PublishFailure,
              SettleFailure, DropActive, ReportRunningFailure, FailAfterRunning,
              CompleteRunningFailure, RetainAfterRunning
<1> QED BY <1>1, <1>2, <1>3 DEF OwnerStep, executionVars

LEMMA PromiseInvNext == PromiseInv /\ [Next]_vars => PromiseInv'
<1> SUFFICES ASSUME PromiseInv, [Next]_vars PROVE PromiseInv'
  OBVIOUS
<1>0. ServiceInv /\ Typed /\ \A t \in Tasks : TaskInv(t) /\ CallPlace(t)
  BY DEF PromiseInv, ServiceInv
<1>1. ServiceInv' /\ \A t \in Tasks : StartedPlace(t)'
  BY ServiceInvNext, StartedNext DEF PromiseInv
<1>2. ASSUME UNCHANGED <<tree, started>> PROVE \A t \in Tasks : StartedTree(t)'
  BY <1>2 DEF PromiseInv, StartedTree
<1>3. ASSUME NEW t \in Tasks, Execute(t) PROVE \A u \in Tasks : StartedTree(u)'
  <2>1. StartedTree(t)' /\ \A u \in Tasks \ {t} : started'[u] = started[u]
    BY <1>0, <1>3, ExecuteStartedTree, ExecuteStartedPlace DEF PromiseInv
  <2>2. \A u \in Tasks \ {t} : tree'[u] = tree[u]
    BY <1>0, <1>3, ExecuteFrame DEF OnlyFor
  <2> QED BY <2>1, <2>2 DEF PromiseInv, StartedTree
<1>4. ASSUME \/ \E t \in Tasks : RequestCancel(t) \/ CancelWaiterWakes(t)
             \/ Clock \/ Quiescent \/ UNCHANGED vars
      PROVE  UNCHANGED <<tree, started>>
  BY <1>0, <1>4, CancelTyped DEF Untouched
<1>5. ASSUME NEW t \in Tasks, CallStep(t) \/ OwnerStep(t)
      PROVE  UNCHANGED <<tree, started>>
  BY <1>5, TreesKept
<1>6. \A t \in Tasks : StartedTree(t)'
  BY <1>2, <1>3, <1>4, <1>5 DEF Next
<1> QED BY <1>1, <1>6 DEF PromiseInv

LEMMA PromiseInvariance == Spec => []PromiseInv
<1>1. Init => PromiseInv
  <2> SUFFICES ASSUME Init PROVE PromiseInv
    OBVIOUS
  <2>1. \A t \in Tasks : StartedPlace(t) /\ StartedTree(t)
    BY DEF Init, ExecutionInit, NothingDone, StartedPlace, StartedTree
  <2> QED BY <2>1, ServiceInvInit DEF PromiseInv
<1> QED BY <1>1, PromiseInvNext, PTL DEF Spec

-----------------------------------------------------------------------------
(* Steps of the promise, by what a step does to the tasks *)

Healthy == ~is_fail_stopping

\* Nothing but the end of a retention.
Kept(u) ==
    \/ ShownAs(u)' = ShownAs(u)
    \/ ShownAs(u) = "FINISHED" /\ ShownAs(u)' = "EXPIRED"

WorkKept == \A u \in Tasks : WorkAs(u)' = WorkAs(u)

ShownKept == \A u \in Tasks : ShownAs(u)' = ShownAs(u)

LEMMA PromiseForget ==
    ASSUME \A u \in Tasks : Kept(u), WorkKept, phase' = phase
    PROVE  Promise!PromiseNext
<1>1. Promise!Forget
  BY DEF Promise!Forget, Promise!OthersKept, Kept
<1>2. UNCHANGED <<[t \in Tasks |-> WorkAs(t)], ~is_fail_stopping>>
  BY DEF WorkKept, is_fail_stopping
<1> QED BY <1>1, <1>2 DEF Promise!PromiseNext

LEMMA PromiseShow ==
    ASSUME NEW t \in Tasks, \A u \in Tasks \ {t} : Kept(u), WorkKept, phase' = phase
    PROVE  /\ /\ ShownAs(t) = "ABSENT" /\ ShownAs(t)' = "RUNNING"
              /\ WorkAs(t) \in {"OPEN", "CLEAN", "LOST"}
              => Promise!PromiseNext
           /\ /\ ShownAs(t) \in {"ABSENT", "RUNNING"} /\ ShownAs(t)' = "FINISHED"
              /\ WorkAs(t) = "CLEAN"
              => Promise!PromiseNext
<1>1. Promise!OthersKept(t)
  BY DEF Promise!OthersKept, Kept
<1>2. UNCHANGED <<[u \in Tasks |-> WorkAs(u)], ~is_fail_stopping>>
  BY DEF WorkKept, is_fail_stopping
<1>3. ASSUME ShownAs(t) = "ABSENT", ShownAs(t)' = "RUNNING",
             WorkAs(t) \in {"OPEN", "CLEAN", "LOST"}
      PROVE  Promise!Show(t)
  BY <1>1, <1>3 DEF Promise!Show
<1>4. ASSUME ShownAs(t) \in {"ABSENT", "RUNNING"}, ShownAs(t)' = "FINISHED",
             WorkAs(t) = "CLEAN"
      PROVE  Promise!Finish(t)
  BY <1>1, <1>4 DEF Promise!Finish
<1> QED BY <1>2, <1>3, <1>4 DEF Promise!PromiseNext

LEMMA PromiseHalt ==
    ASSUME ShownKept, WorkKept, phase' = "FAIL_STOPPING"
    PROVE  Promise!PromiseNext
<1>1. Promise!Halt
  BY DEF Promise!Halt, WorkKept, is_fail_stopping
<1>2. UNCHANGED [t \in Tasks |-> ShownAs(t)]
  BY DEF ShownKept
<1> QED BY <1>1, <1>2 DEF Promise!PromiseNext

LEMMA PromiseWork ==
    ASSUME NEW t \in Tasks, NEW to, ShownKept,
           \A u \in Tasks \ {t} : WorkAs(u)' = WorkAs(u), WorkAs(t)' = to
    PROVE  /\ /\ WorkAs(t) = "IDLE" /\ to = "HELD" /\ phase' = phase
              /\ \A u \in Tasks \ {t} : KeyOf[u] = KeyOf[t] =>
                    WorkAs(u) \notin {"HELD", "OPEN", "LOST"}
              => Promise!PromiseNext
           /\ /\ WorkAs(t) = "HELD" /\ to = "OPEN" /\ Healthy /\ phase' = phase
              => Promise!PromiseNext
           /\ /\ WorkAs(t) \in {"HELD", "OPEN"} /\ to = "CLEAN" /\ phase' = phase
              => Promise!PromiseNext
           /\ /\ WorkAs(t) \in {"IDLE", "HELD", "OPEN"} /\ to = "LOST"
              /\ phase' = "FAIL_STOPPING"
              => Promise!PromiseNext
<1> DEFINE work == [u \in Tasks |-> WorkAs(u)]
<1>1. work' = [work EXCEPT ![t] = to]
  OBVIOUS
<1>2. work[t] = WorkAs(t)
  OBVIOUS
<1>3. UNCHANGED [u \in Tasks |-> ShownAs(u)]
  BY DEF ShownKept
<1>4. ASSUME WorkAs(t) = "IDLE", to = "HELD", phase' = phase,
             \A u \in Tasks \ {t} : KeyOf[u] = KeyOf[t] =>
                WorkAs(u) \notin {"HELD", "OPEN", "LOST"}
      PROVE  Promise!Hold(t)
  BY <1>1, <1>2, <1>4 DEF Promise!Hold, Promise!Becomes, Promise!Occupied,
     is_fail_stopping
<1>5. ASSUME WorkAs(t) = "HELD", to = "OPEN", Healthy, phase' = phase
      PROVE  Promise!Open(t)
  BY <1>1, <1>2, <1>5 DEF Promise!Open, Promise!Becomes, Healthy, is_fail_stopping
<1>6. ASSUME WorkAs(t) \in {"HELD", "OPEN"}, to = "CLEAN", phase' = phase
      PROVE  Promise!Clean(t)
  BY <1>1, <1>2, <1>6 DEF Promise!Clean, Promise!Becomes, is_fail_stopping
<1>7. ASSUME WorkAs(t) \in {"IDLE", "HELD", "OPEN"}, to = "LOST", phase' = "FAIL_STOPPING"
      PROVE  Promise!Lose(t)
  BY <1>1, <1>2, <1>7 DEF Promise!Lose, Promise!Becomes, is_fail_stopping
<1> QED BY <1>3, <1>4, <1>5, <1>6, <1>7 DEF Promise!PromiseNext

-----------------------------------------------------------------------------
(* What is shown of a task *)

Attended == {"EXECUTING", "PUBLISHED", "RUNNING"}

LEMMA ShownIs ==
    ASSUME NEW u \in Tasks
    PROVE  /\ registry.snapshot[u] = "RUNNING" => ShownAs(u) = "RUNNING"
           /\ IsFinished(registry, u) => ShownAs(u) = "FINISHED"
           /\ registry.snapshot[u] = "NONE" =>
                 /\ outcome[u] # "COMPLETED" \/ owner[u] \in Attended => ShownAs(u) = "ABSENT"
                 /\ outcome[u] = "COMPLETED" /\ owner[u] \notin Attended =>
                       ShownAs(u) = "EXPIRED"
BY DEF ShownAs, IsFinished, Attended

LEMMA NextShownIs ==
    ASSUME NEW u \in Tasks
    PROVE  /\ registry'.snapshot[u] = "RUNNING" => ShownAs(u)' = "RUNNING"
           /\ IsFinished(registry', u) => ShownAs(u)' = "FINISHED"
           /\ registry'.snapshot[u] = "NONE" =>
                 /\ outcome'[u] # "COMPLETED" \/ owner'[u] \in Attended => ShownAs(u)' = "ABSENT"
                 /\ outcome'[u] = "COMPLETED" /\ owner'[u] \notin Attended =>
                       ShownAs(u)' = "EXPIRED"
BY DEF ShownAs, IsFinished, Attended

\* The same snapshot is shown, unless an unattended task has just completed.
LEMMA SameShown ==
    ASSUME NEW u \in Tasks, Sound(registry), registry'.snapshot[u] = registry.snapshot[u],
           outcome'[u] = outcome[u],
           outcome[u] = "COMPLETED" => (owner'[u] \in Attended <=> owner[u] \in Attended)
    PROVE  ShownAs(u)' = ShownAs(u)
<1>1. registry.snapshot[u] \in {"NONE", "RUNNING"} \/ IsFinished(registry, u)
  BY DEF Sound, RegistryState, Snapshots, IsFinished
<1>2. IsFinished(registry, u) => IsFinished(registry', u)
  BY DEF IsFinished
<1>3. ASSUME registry.snapshot[u] = "NONE" PROVE ShownAs(u)' = ShownAs(u)
  BY <1>3, ShownIs, NextShownIs
<1>4. ASSUME registry.snapshot[u] = "RUNNING" PROVE ShownAs(u)' = ShownAs(u)
  BY <1>4, ShownIs, NextShownIs
<1>5. ASSUME IsFinished(registry, u) PROVE ShownAs(u)' = ShownAs(u)
  <2>1. IsFinished(registry', u)
    BY <1>2, <1>5
  <2>2. ShownAs(u) = "FINISHED" /\ ShownAs(u)' = "FINISHED"
    BY <1>5, <2>1, ShownIs, NextShownIs
  <2> QED BY <2>2
<1> QED BY <1>1, <1>3, <1>4, <1>5

LEMMA EntryShown ==
    ASSUME NEW u \in Tasks, Sound(registry), TaskInv(u),
           EntryKept(registry, registry', u), owner'[u] = owner[u], outcome'[u] = outcome[u]
    PROVE  Kept(u)
<1>1. ASSUME registry'.snapshot[u] = registry.snapshot[u] PROVE Kept(u)
  BY <1>1, SameShown DEF Kept
<1>2. ASSUME IsFinished(registry, u), registry'.snapshot[u] = "NONE" PROVE Kept(u)
  <2>1. outcome[u] = "COMPLETED" /\ owner[u] \notin Attended
    BY <1>2 DEF TaskInv, ShownPlace, OwnerPlace, Attended, IsFinished
  <2> QED BY <1>2, <2>1, ShownIs, NextShownIs DEF Kept
<1> QED BY <1>1, <1>2 DEF EntryKept

-----------------------------------------------------------------------------
(* Submit calls, cancel calls and the clock show nothing new *)

LEMMA SameWork ==
    ASSUME tree' = tree
    PROVE  WorkKept
BY DEF WorkKept, WorkAs

LEMMA FactsOf ==
    ASSUME ServiceInv
    PROVE  /\ Sound(registry) /\ now \in Nat /\ Typed
           /\ \A u \in Tasks : TaskInv(u) /\ CallPlace(u)
<1>1. now \in 0 .. MaxClock
  BY DEF ServiceInv, Inv
<1>2. now \in Nat
  BY SMTT(60), <1>1, RegistryBounds
<1> QED BY <1>2 DEF ServiceInv, Inv

LEMMA PurgeImplements ==
    ASSUME ServiceInv, Untouched
    PROVE  Promise!PromiseNext
<1>1. Sound(registry) /\ \A u \in Tasks : TaskInv(u)
  BY FactsOf
<1>2. ASSUME NEW u \in Tasks PROVE EntryKept(registry, registry', u)
  BY <1>1, PurgeKeepsEntry DEF Untouched, EntryKept
<1>3. ASSUME NEW u \in Tasks PROVE Kept(u)
  BY <1>1, <1>2, EntryShown DEF Untouched
<1>4. WorkKept /\ phase' = phase
  BY SameWork DEF Untouched
<1> QED BY <1>3, <1>4, PromiseForget

LEMMA CallImplements ==
    ASSUME ServiceInv, NEW t \in Tasks, CallStep(t)
    PROVE  Promise!PromiseNext
<1>1. /\ Sound(registry) /\ now \in Nat /\ Typed
      /\ \A u \in Tasks : TaskInv(u)
  BY FactsOf
<1>2. OnlyFor(t) /\ UNCHANGED <<tree, started, outcome>>
  BY <1>1, CallFrame, TreesKept
<1>3. ASSUME AdmitAndReserve(t)
      PROVE  (\A u \in Tasks : Kept(u)) /\ phase' = phase
  <2>1. ASSUME NEW u \in Tasks \ {t} PROVE Kept(u)
    BY <1>1, <1>2, <1>3, <2>1, AdmitKeepsEntries, EntryShown DEF OnlyFor
  <2>2. PICK p \in AfterPurge(registry) : registry' = Reserved(p, t)
    BY <1>3 DEF AdmitAndReserve
  <2>3. Sound(p) /\ EntryKept(registry, p, t) /\ registry'.snapshot[t] = p.snapshot[t]
    BY <1>1, <2>2, AfterPurgeSound, PurgeKeepsEntry, OwnEntry
  <2>4. /\ owner[t] = "NONE" /\ registry.snapshot[t] = "NONE" /\ outcome[t] = "NONE"
        /\ owner'[t] = "RESERVED" /\ phase' = phase
    BY <1>1, <1>3 DEF AdmitAndReserve, OwnerGoes, register, TaskInv, OwnerPlace,
       ExecutionPlace, Unspawned, Typed, ServiceTypeOK
  <2>5. registry'.snapshot[t] = registry.snapshot[t]
    BY <2>3, <2>4 DEF EntryKept, IsFinished
  <2>6. Kept(t)
    BY <1>1, <1>2, <2>4, <2>5, SameShown DEF Kept
  <2> QED BY <2>1, <2>4, <2>6
<1>4. ASSUME \/ ExistingSubmit(t) \/ RejectUnavailable(t) \/ AdmitWithoutReserve(t)
             \/ WaiterWakes(t) \/ EffectiveLimits(t)
      PROVE  (\A u \in Tasks : Kept(u)) /\ phase' = phase
  <2>1. UNCHANGED <<owner, phase>>
    BY <1>4 DEF ExistingSubmit, RejectUnavailable, AdmitWithoutReserve, WaiterWakes,
                EffectiveLimits, failStopVars
  <2>2. registry' \in AfterPurge(registry) \/ registry' = registry
    BY <1>4 DEF ExistingSubmit, RejectUnavailable, AdmitWithoutReserve, WaiterWakes,
                EffectiveLimits, registryVars
  <2>3. ASSUME NEW u \in Tasks PROVE EntryKept(registry, registry', u)
    BY <1>1, <2>2, PurgeKeepsEntry DEF EntryKept
  <2> QED BY <1>1, <1>2, <2>1, <2>3, EntryShown
<1>5. (\A u \in Tasks : Kept(u)) /\ phase' = phase
  BY <1>3, <1>4 DEF CallStep
<1> QED BY <1>2, <1>5, SameWork, PromiseForget

-----------------------------------------------------------------------------
(* The owner shows what its execution has earned *)

\* An owner step that neither publishes nor stores a snapshot shows nothing new.
LEMMA OwnerShowsNothing ==
    ASSUME NEW t \in Tasks, ServiceInv, OwnerStep(t),
           ~PublishRunningSnapshot(t), ~StoreFinished(t)
    PROVE  ShownAs(t)' = ShownAs(t)
<1> DEFINE Quietly ==
         /\ registry'.snapshot[t] = registry.snapshot[t]
         /\ outcome[t] = "COMPLETED" => (owner'[t] \in Attended <=> owner[t] \in Attended)
<1>0. /\ Sound(registry) /\ now \in Nat /\ Typed /\ TaskInv(t)
      /\ UNCHANGED <<tree, started, outcome>>
  BY FactsOf, TreesKept
<1> USE DEF Typed, ServiceTypeOK, Attended
<1>1. ASSUME AcquireAndSpawn(t) PROVE Quietly
  BY <1>0, <1>1 DEF AcquireAndSpawn, OwnerGoes, TaskInv, OwnerPlace, Unspawned,
     ExecutionPlace, registryVars
<1>2. ASSUME RollBack(t) \/ FailBeforeRunning(t) \/ FailAfterRunning(t) PROVE Quietly
  <2>1. ReleaseFailedOwner(t)
    BY <1>2 DEF RollBack, FailBeforeRunning, FailAfterRunning, ReleaseFailedOwner
  <2>2. owner[t] \in {"RESERVED", "EXECUTING", "FAILING", "RUN_FAILED"}
    BY <1>2 DEF RollBack, FailBeforeRunning, FailAfterRunning, OwnerGoes
  <2>3. ~IsFinished(registry, t)
    BY <1>0, <2>2 DEF TaskInv, OwnerPlace, IsFinished
  <2>4. outcome[t] # "COMPLETED"
    BY <1>0, <1>2 DEF RollBack, FailBeforeRunning, FailAfterRunning, OwnerGoes,
       TaskInv, OwnerPlace, Unspawned, Ended, ExecutionPlace
  <2> QED BY <1>0, <2>1, <2>3, <2>4, ReleaseOwn
<1>3. ASSUME \/ PublishRollBack(t) \/ SignalRunning(t) \/ CompleteActive(t)
             \/ ReleaseCapacityLook(t) \/ ReleaseCapacityAct(t) \/ Notify(t)
             \/ PublishFailure(t) \/ SettleFailure(t) \/ DropActive(t)
             \/ CompleteRunningFailure(t) \/ RetainAfterRunning(t)
      PROVE  Quietly
  <2>1. UNCHANGED registryVars
    BY <1>3 DEF PublishRollBack, SignalRunning, CompleteActive, ReleaseCapacityLook,
       ReleaseCapacityAct, Notify, PublishFailure, SettleFailure, DropActive,
       CompleteRunningFailure, RetainAfterRunning
  <2>2. ASSUME SignalRunning(t) PROVE owner[t] \in Attended /\ owner'[t] \in Attended
    BY <1>0, <2>2 DEF SignalRunning, OwnerGoes
  <2>3. ASSUME ~SignalRunning(t)
        PROVE  /\ owner[t] \in {"ROLLED_BACK", "STORED", "COMPLETING", "RELEASING", "DROPPING",
                              "RETAINING", "NOTIFYING", "FAILED", "ABANDONING",
                              "ORPHANING", "RUN_KEPT", "RUN_RETAIN"}
               /\ owner'[t] \in {"COMPLETING", "RELEASING", "NOTIFYING", "DROPPING",
                               "RETAINING", "DONE", "ABANDONING", "ORPHANING", "RUN_RETAIN"}
    BY <1>0, <1>3, <2>3 DEF PublishRollBack, CompleteActive, ReleaseCapacityLook,
       ReleaseCapacityAct, Notify, PublishFailure, SettleFailure, DropActive,
       CompleteRunningFailure, RetainAfterRunning, OwnerGoes
  <2>4. owner'[t] \in Attended <=> owner[t] \in Attended
    BY <2>2, <2>3
  <2> QED BY <2>1, <2>4 DEF registryVars
<1>4. ASSUME RetainBeforeRunning(t) \/ ReportRunningFailure(t) PROVE Quietly
  <2>1. UNCHANGED registryVars /\ outcome[t] # "COMPLETED"
    BY <1>4 DEF RetainBeforeRunning, ReportRunningFailure
  <2> QED BY <2>1 DEF registryVars
<1>5. Quietly
  BY <1>1, <1>2, <1>3, <1>4 DEF OwnerStep
<1> QED BY <1>0, <1>5, SameShown

\* The two owner steps that activate fail-stop leave the registry alone.
LEMMA OwnerPhase ==
    ASSUME NEW t \in Tasks, OwnerStep(t)
    PROVE  \/ phase' = phase
           \/ phase' = "FAIL_STOPPING" /\ UNCHANGED registryVars
<1>1. ASSUME DropActive(t) \/ ReportRunningFailure(t)
      PROVE  phase' = "FAIL_STOPPING" /\ UNCHANGED registryVars
  BY <1>1 DEF DropActive, ReportRunningFailure, drop_active, activate
<1>2. ASSUME \/ AcquireAndSpawn(t) \/ RollBack(t) \/ PublishRollBack(t)
             \/ PublishRunningSnapshot(t) \/ SignalRunning(t) \/ StoreFinished(t)
             \/ ReleaseCapacityLook(t) \/ ReleaseCapacityAct(t) \/ Notify(t)
             \/ RetainBeforeRunning(t) \/ FailBeforeRunning(t) \/ PublishFailure(t)
             \/ FailAfterRunning(t) \/ RetainAfterRunning(t)
      PROVE  UNCHANGED failStopVars
  BY <1>2 DEF AcquireAndSpawn, RollBack, PublishRollBack, PublishRunningSnapshot,
     SignalRunning, StoreFinished, ReleaseCapacityLook, ReleaseCapacityAct, Notify,
     RetainBeforeRunning, FailBeforeRunning, PublishFailure, FailAfterRunning,
     RetainAfterRunning
<1>3. ASSUME CompleteActive(t) \/ SettleFailure(t) \/ CompleteRunningFailure(t)
      PROVE  phase' = phase
  BY <1>3 DEF CompleteActive, SettleFailure, CompleteRunningFailure, complete,
     failStopVars
<1> QED BY <1>1, <1>2, <1>3 DEF OwnerStep, failStopVars

LEMMA OwnerImplements ==
    ASSUME PromiseInv, NEW t \in Tasks, OwnerStep(t)
    PROVE  Promise!PromiseNext
<1>0. /\ ServiceInv /\ Sound(registry) /\ now \in Nat /\ Typed
      /\ \A u \in Tasks : TaskInv(u) /\ CallPlace(u) /\ StartedTree(u)
  BY FactsOf DEF PromiseInv
<1>1. OnlyFor(t) /\ UNCHANGED <<tree, started, outcome>> /\ WorkKept
  BY <1>0, OwnerTyped, TreesKept, SameWork
<1>2. ASSUME NEW u \in Tasks \ {t} PROVE Kept(u)
  <2>1. EntryKept(registry, registry', u)
    BY <1>0, OwnerRegistry, EntriesKept
  <2> QED BY <1>0, <1>1, <2>1, EntryShown DEF OnlyFor
<1>3. ASSUME PublishRunningSnapshot(t) PROVE Promise!PromiseNext
  <2>1. PublishRunning(t) /\ UNCHANGED phase /\ owner[t] = "EXECUTING" /\ started[t]
    BY <1>3 DEF PublishRunningSnapshot, PublishRunning, OwnerGoes, failStopVars
  <2>2. registry'.snapshot[t] = "RUNNING" /\ registry.snapshot[t] = "NONE"
    BY <1>0, <2>1, PublishOwn DEF TaskInv, OwnerPlace
  <2>3. ShownAs(t) = "ABSENT" /\ ShownAs(t)' = "RUNNING"
    BY <2>1, <2>2, ShownIs, NextShownIs DEF Attended
  <2>4. tree[t] \in {"LIVE", "GONE", "UNKNOWN"}
    BY <1>0, <2>1 DEF StartedTree, Typed, ExecutionTypeOK
  <2>5. WorkAs(t) \in {"OPEN", "CLEAN", "LOST"}
    BY <2>4 DEF WorkAs
  <2> QED BY <1>1, <1>2, <2>1, <2>3, <2>5, PromiseShow
<1>4. ASSUME StoreFinished(t) PROVE Promise!PromiseNext
  <2>1. /\ FinishSnapshot(t) /\ UNCHANGED phase /\ outcome[t] = "COMPLETED"
        /\ owner[t] \in {"EXECUTING", "RUNNING"}
    BY <1>4 DEF StoreFinished, FinishSnapshot, OwnerGoes, failStopVars
  <2>2. IsFinished(registry', t) /\ registry.snapshot[t] \in {"NONE", "RUNNING"}
    BY <1>0, <2>1, FinishOwn DEF TaskInv, OwnerPlace
  <2>3. ShownAs(t) \in {"ABSENT", "RUNNING"} /\ ShownAs(t)' = "FINISHED"
    BY <2>1, <2>2, ShownIs, NextShownIs DEF Attended
  <2>4. tree[t] = "GONE"
    BY <1>0, <2>1 DEF TaskInv, ExecutionPlace
  <2>5. WorkAs(t) = "CLEAN"
    BY <2>4 DEF WorkAs
  <2> QED BY <1>1, <1>2, <2>1, <2>3, <2>5, PromiseShow
<1>5. ASSUME ~PublishRunningSnapshot(t), ~StoreFinished(t) PROVE Promise!PromiseNext
  <2>1. ShownAs(t)' = ShownAs(t)
    BY <1>0, <1>5, OwnerShowsNothing
  <2>2. ASSUME phase' = phase PROVE Promise!PromiseNext
    <3>1. \A u \in Tasks : Kept(u)
      BY <1>2, <2>1 DEF Kept
    <3> QED BY <1>1, <2>2, <3>1, PromiseForget
  <2>3. ASSUME phase' = "FAIL_STOPPING", UNCHANGED registryVars PROVE Promise!PromiseNext
    <3>1. ASSUME NEW u \in Tasks \ {t} PROVE ShownAs(u)' = ShownAs(u)
      BY <1>0, <1>1, <2>3, SameShown DEF OnlyFor, registryVars
    <3>2. ShownKept
      BY <2>1, <3>1 DEF ShownKept
    <3> QED BY <1>1, <2>3, <3>2, PromiseHalt
  <2> QED BY <2>2, <2>3, OwnerPhase
<1> QED BY <1>3, <1>4, <1>5

-----------------------------------------------------------------------------
(* The execution does the work *)

LEMMA WorkIs ==
    ASSUME NEW u \in Tasks
    PROVE  /\ tree[u] = "NONE" => WorkAs(u) = "IDLE"
           /\ tree[u] = "GATED" => WorkAs(u) = "HELD"
           /\ tree[u] = "LIVE" => WorkAs(u) = "OPEN"
           /\ tree[u] = "GONE" => WorkAs(u) = "CLEAN"
           /\ tree[u] = "UNKNOWN" => WorkAs(u) = "LOST"
BY DEF WorkAs

LEMMA NextWorkIs ==
    ASSUME NEW u \in Tasks
    PROVE  /\ tree'[u] = "NONE" => WorkAs(u)' = "IDLE"
           /\ tree'[u] = "GATED" => WorkAs(u)' = "HELD"
           /\ tree'[u] = "LIVE" => WorkAs(u)' = "OPEN"
           /\ tree'[u] = "GONE" => WorkAs(u)' = "CLEAN"
           /\ tree'[u] = "UNKNOWN" => WorkAs(u)' = "LOST"
BY DEF WorkAs

\* The owner that waits for the execution shows the same of it to the end.
LEMMA ExecuteShowsNothing ==
    ASSUME ServiceInv, NEW t \in Tasks, Execute(t)
    PROVE  ShownKept
<1>0. /\ Sound(registry) /\ Typed /\ \A u \in Tasks : TaskInv(u)
      /\ OnlyFor(t) /\ UNCHANGED <<owner, registry>>
  BY FactsOf, ExecuteFrame DEF Execute, serviceVars, registryVars
<1>1. ASSUME NEW u \in Tasks \ {t} PROVE ShownAs(u)' = ShownAs(u)
  BY <1>0, SameShown DEF OnlyFor
<1>2. /\ owner[t] \in Attended
      /\ registry.snapshot[t] \in {"NONE", "RUNNING"}
  BY <1>0, ExecutionRuns, OwnerWaits DEF Attended
<1>3. ShownAs(t)' = ShownAs(t)
  BY <1>0, <1>2, ShownIs, NextShownIs
<1> QED BY <1>1, <1>3 DEF ShownKept

LEMMA ExecuteImplements ==
    ASSUME ServiceInv, ServiceInv', NEW t \in Tasks, Execute(t)
    PROVE  [Promise!PromiseNext]_(Promise!promiseVars)
<1>0. /\ Typed /\ TaskInv(t) /\ OnlyFor(t) /\ ShownKept
      /\ tree \in [Tasks -> {"NONE", "GATED", "LIVE", "GONE", "UNKNOWN"}]
  BY FactsOf, ExecuteFrame, ExecuteShowsNothing DEF Typed, ExecutionTypeOK
<1>1. \A u \in Tasks \ {t} : WorkAs(u)' = WorkAs(u)
  BY <1>0 DEF OnlyFor, WorkAs
<1>2. ASSUME WorkAs(t)' = WorkAs(t), phase' = phase
      PROVE  UNCHANGED Promise!promiseVars
  BY <1>0, <1>1, <1>2 DEF Promise!promiseVars, ShownKept, is_fail_stopping
<1>3. ASSUME CleanupRetried(t) PROVE Promise!PromiseNext
  <2>1. WorkKept /\ phase' = "FAIL_STOPPING"
    BY <1>3, SameWork DEF CleanupRetried, activate
  <2> QED BY <1>0, <2>1, PromiseHalt
<1>4. ASSUME CreateJob(t) PROVE Promise!PromiseNext
  <2>1. tree[t] = "NONE" /\ tree'[t] = "GATED" /\ phase' = phase
    BY <1>0, <1>4 DEF CreateJob, TaskInv, ExecutionPlace, failStopVars
  <2>2. ASSUME NEW u \in Tasks \ {t}, KeyOf[u] = KeyOf[t]
        PROVE  WorkAs(u) \notin {"HELD", "OPEN", "LOST"}
    <3>1. tree'[u] = tree[u] /\ tree[u] \in {"NONE", "GATED", "LIVE", "GONE", "UNKNOWN"}
      BY <1>0 DEF OnlyFor
    <3>2. ~MayHaveProcesses(u)'
      BY <2>1, <2>2 DEF ServiceInv, OneTreePerRequest, MayHaveProcesses
    <3>3. tree[u] \in {"NONE", "GONE"}
      BY <3>1, <3>2 DEF MayHaveProcesses
    <3> QED BY <3>3, WorkIs
  <2> QED BY <1>0, <1>1, <2>1, <2>2, WorkIs, NextWorkIs, PromiseWork
<1>5. ASSUME CommitStart(t) PROVE Promise!PromiseNext
  <2>1. tree[t] = "GATED" /\ tree'[t] = "LIVE" /\ phase' = phase /\ Healthy
    BY <1>0, <1>5 DEF CommitStart, commit_start, TaskInv, ExecutionPlace, Healthy
  <2> QED BY <1>0, <1>1, <2>1, WorkIs, NextWorkIs, PromiseWork
<1>6. ASSUME LoseBeforeStarted(t) \/ FinishLost(t) PROVE Promise!PromiseNext
  <2>1. /\ tree[t] \in {"NONE", "GATED", "LIVE"} /\ tree'[t] = "UNKNOWN"
        /\ phase' = "FAIL_STOPPING"
    BY <1>0, <1>6 DEF LoseBeforeStarted, FinishLost, Lose, activate, Stop, TaskInv,
       ExecutionPlace
  <2>2. WorkAs(t) \in {"IDLE", "HELD", "OPEN"} /\ WorkAs(t)' = "LOST"
    BY <2>1, WorkIs, NextWorkIs
  <2> QED BY <1>0, <1>1, <2>1, <2>2, PromiseWork
<1>7. ASSUME \/ AbandonForFailStop(t) \/ AbortPending(t) \/ AbortCommitted(t)
             \/ FinishUnclassified(t) \/ FinalizeFailed(t) \/ ExecFailed(t)
             \/ FinishCleaned(t)
      PROVE  Promise!PromiseNext
  <2>1. tree[t] \in {"GATED", "LIVE"} /\ tree'[t] = "GONE" /\ phase' = phase
    BY <1>0, <1>7 DEF AbandonForFailStop, AbortPending, AbortCommitted,
       FinishUnclassified, FinalizeFailed, ExecFailed, FinishCleaned, Stop, TaskInv,
       ExecutionPlace, failStopVars
  <2>2. WorkAs(t) \in {"HELD", "OPEN"} /\ WorkAs(t)' = "CLEAN"
    BY <2>1, WorkIs, NextWorkIs
  <2> QED BY <1>0, <1>1, <2>1, <2>2, PromiseWork
<1>8. ASSUME RefuseForFailStop(t) \/ RejectBeforeJob(t) PROVE UNCHANGED Promise!promiseVars
  <2>1. tree[t] = "NONE" /\ tree'[t] = "NONE" /\ phase' = phase
    BY <1>0, <1>8 DEF RefuseForFailStop, RejectBeforeJob, Stop, TaskInv, ExecutionPlace,
       failStopVars
  <2> QED BY <1>2, <2>1, WorkIs, NextWorkIs
<1>9. ASSUME \/ GateFailed(t) \/ ExecStarted(t) \/ ObserveExit(t) \/ ObserveTimeout(t)
             \/ ObserveCancel(t) \/ ObserveFailStop(t) \/ ObserveWaitError(t)
      PROVE  UNCHANGED Promise!promiseVars
  <2>1. tree' = tree /\ phase' = phase
    BY <1>9 DEF GateFailed, commit_gate_failed, ExecStarted, ObserveExit,
       ObserveTimeout, ObserveCancel, ObserveFailStop, ObserveWaitError, Decide, failStopVars
  <2> QED BY <1>2, <2>1, SameWork DEF WorkKept
<1> QED BY <1>3, <1>4, <1>5, <1>6, <1>7, <1>8, <1>9 DEF Execute, ExecutionStep

-----------------------------------------------------------------------------
(* The refinement *)

LEMMA StepImplements ==
    ASSUME PromiseInv, PromiseInv', [Next]_vars
    PROVE  [Promise!PromiseNext]_(Promise!promiseVars)
<1>0. ServiceInv /\ ServiceInv' /\ Typed /\ \A c \in Tasks : CallPlace(c)
  BY FactsOf DEF PromiseInv
<1>1. ASSUME \/ \E t \in Tasks : RequestCancel(t) \/ CancelWaiterWakes(t)
             \/ Clock \/ Quiescent \/ UNCHANGED vars
      PROVE  Promise!PromiseNext
  BY <1>0, <1>1, CancelTyped, PurgeImplements
<1>2. ASSUME NEW t \in Tasks, CallStep(t) PROVE Promise!PromiseNext
  BY <1>0, <1>2, CallImplements
<1>3. ASSUME NEW t \in Tasks, OwnerStep(t) PROVE Promise!PromiseNext
  BY <1>3, OwnerImplements
<1>4. ASSUME NEW t \in Tasks, Execute(t)
      PROVE  [Promise!PromiseNext]_(Promise!promiseVars)
  BY <1>0, <1>4, ExecuteImplements
<1> QED BY <1>1, <1>2, <1>3, <1>4 DEF Next

\* Whatever the number of calls, slots and keys, and however submit calls,
\* owners, executions, cancels and purges interleave, the task path of
\* taskcaged keeps what TaskPromise promises: a task is shown RUNNING only
\* after its gate was opened and FINISHED only when its tree is proved gone, a
\* result disappears only by expiry, and no gate opens in fail-stop.
THEOREM TaskPathKeepsPromise == Spec => KeepsPromise
<1>1. Init => Promise!PromiseInit
  BY SMTT(60) DEF Init, RegistryInit, InitialRegistry, FailStopInit, ExecutionInit, NothingDone,
     Promise!PromiseInit, ShownAs, WorkAs, IsFinished, is_fail_stopping
<1>2. PromiseInv /\ PromiseInv' /\ [Next]_vars =>
         [Promise!PromiseNext]_(Promise!promiseVars)
  BY StepImplements
<1> QED BY <1>1, <1>2, PromiseInvariance, PTL DEF Spec, KeepsPromise, Promise!PromiseSpec

-----------------------------------------------------------------------------
(* What a cancel call may tell: the latch decides once, and what was decided *)
(* is what is reported.                                                      *)

\* What is known of the verdict about one task.
Verdict(t) ==
    /\ exec[t] \notin {"STOPPING", "DONE"} => control[t] = "NONE" /\ ~daemon_error[t]
    /\ exec[t] # "DONE" => reason[t] = "NONE"
    /\ reason[t] # "NONE" => tree[t] = "GONE"
    /\ control[t] # "NONE" => latch[t] = control[t]
    /\ exec[t] = "STOPPING" => daemon_error[t] \/ control[t] # "NONE" \/ latch[t] = "CLOSED"
    /\ reason[t] = "CANCELLED" => control[t] = "CANCELLED"
    /\ control[t] = "CANCELLED" /\ reason[t] # "NONE" =>
          reason[t] \in {"CANCELLED", "MEMORY_LIMIT_EXCEEDED"}
    /\ reason[t] = "EXITED" => latch[t] = "CLOSED"
    /\ cancel[t] = "TASK_CANCELLED" => reason[t] = "CANCELLED"

LEMMA VerdictSuffices == (\A t \in Tasks : Verdict(t)) => CancelHonest
  BY DEF Verdict, CancelHonest

\* A step that is not about t leaves its verdict alone.
VerdictKept(t) ==
    /\ exec'[t] = exec[t] /\ tree'[t] = tree[t] /\ latch'[t] = latch[t]
    /\ control'[t] = control[t] /\ daemon_error'[t] = daemon_error[t]
    /\ reason'[t] = reason[t] /\ cancel'[t] = cancel[t]

LEMMA KeptKeeps == ASSUME NEW t, Verdict(t), VerdictKept(t) PROVE Verdict(t)'
  BY DEF Verdict, VerdictKept

\* run_task of u.
LEMMA ExecutionKeepsVerdict ==
    ASSUME ExecutionTypeOK, NEW u \in Tasks, ExecutionStep(u), UNCHANGED cancel,
           NEW t \in Tasks, Verdict(t)
    PROVE  Verdict(t)'
<1>1. CASE t # u
  BY <1>1, KeptKeeps DEF VerdictKept, ExecutionTypeOK, ExecutionStep, CleanupRetried,
      RefuseForFailStop, RejectBeforeJob, CreateJob, AbandonForFailStop, AbortPending, GateFailed,
      CommitStart, ExecFailed, AbortCommitted, ExecStarted, LoseBeforeStarted, ObserveExit,
      ObserveTimeout, ObserveCancel, ObserveFailStop, ObserveWaitError, FinishCleaned,
      FinishUnclassified, FinalizeFailed, FinishLost, Stop, NoVerdict, Lose, Decide
<1>2. CASE t = u
  <2> USE <1>2 DEF Verdict
  <2>1. CASE CleanupRetried(u)
    BY <2>1 DEF CleanupRetried, ExecutionTypeOK
  <2>2. CASE \/ RefuseForFailStop(u) \/ RejectBeforeJob(u) \/ AbandonForFailStop(u)
             \/ AbortPending(u) \/ AbortCommitted(u) \/ LoseBeforeStarted(u)
    BY <2>2 DEF RefuseForFailStop, RejectBeforeJob, AbandonForFailStop, AbortPending,
        AbortCommitted, LoseBeforeStarted, Lose, Stop, NoVerdict, ExecutionTypeOK
  <2>3. CASE CreateJob(u) \/ GateFailed(u) \/ CommitStart(u) \/ ExecStarted(u)
    BY <2>3 DEF CreateJob, GateFailed, CommitStart, ExecStarted, NoVerdict, ExecutionTypeOK
  <2>4. CASE ExecFailed(u)
    BY <2>4 DEF ExecFailed, Stop, classify_termination, ExecutionTypeOK
  <2>5. CASE ObserveExit(u) \/ ObserveTimeout(u) \/ ObserveCancel(u)
    BY SMTT(60), <2>5 DEF ObserveExit, ObserveTimeout, ObserveCancel, Decide, Trigger, FirstOf,
        ExecutionTypeOK, LatchStates
  <2>6. CASE ObserveFailStop(u) \/ ObserveWaitError(u)
    BY SMTT(60), <2>6 DEF ObserveFailStop, ObserveWaitError, Decide, Trigger, ExecutionTypeOK, LatchStates
  <2>7. CASE FinishCleaned(u)
    BY <2>7 DEF FinishCleaned, Stop, classify_termination, ExecutionTypeOK
  <2>8. CASE FinishUnclassified(u) \/ FinalizeFailed(u) \/ FinishLost(u)
    BY <2>8 DEF FinishUnclassified, FinalizeFailed, FinishLost, Lose, Stop, NoVerdict,
        ExecutionTypeOK
  <2> QED BY <2>1, <2>2, <2>3, <2>4, <2>5, <2>6, <2>7, <2>8 DEF ExecutionStep
<1> QED BY <1>1, <1>2

\* The cancel call of u.
LEMMA CancelKeepsVerdict ==
    ASSUME Typed, NEW u \in Tasks, RequestCancel(u) \/ CancelWaiterWakes(u),
           NEW t \in Tasks, Verdict(t)
    PROVE  Verdict(t)'
<1>1. ExecutionTypeOK /\ cancel \in [Tasks -> {"IDLE", "WAITING", "TASK_CANCELLED",
                                              "TASK_ALREADY_FINISHED", "TASK_NOT_FOUND"}]
  BY DEF Typed, ServiceTypeOK
<1>2. CASE RequestCancel(u)
  <2>1. /\ exec' = exec /\ tree' = tree /\ control' = control /\ daemon_error' = daemon_error
        /\ reason' = reason
        /\ latch' = latch \/ latch' = [latch EXCEPT ![u] = FirstOf(latch[u], "CANCELLED")]
        /\ \E answer \in {"WAITING", "TASK_ALREADY_FINISHED", "TASK_NOT_FOUND"} :
              cancel' = [cancel EXCEPT ![u] = answer]
    BY <1>2 DEF RequestCancel
  <2>2. latch'[t] = latch[t] \/ latch[t] = "OPEN"
    BY <1>1, <2>1 DEF FirstOf, ExecutionTypeOK
  <2>3. cancel'[t] = cancel[t] \/ cancel'[t] # "TASK_CANCELLED"
    BY <1>1, <2>1
  <2>4. control[t] # "OPEN"
    BY <1>1 DEF ExecutionTypeOK
  <2> QED BY <2>1, <2>2, <2>3, <2>4 DEF Verdict
<1>3. CASE CancelWaiterWakes(u)
  <2>1. UNCHANGED executionVars
    BY <1>3 DEF CancelWaiterWakes
  <2>2. cancel'[t] = cancel[t] \/ (cancel'[t] = "TASK_CANCELLED" => reason[t] = "CANCELLED")
    BY <1>1, <1>3 DEF CancelWaiterWakes, CancelAnswer
  <2> QED BY <2>1, <2>2 DEF Verdict, executionVars
<1> QED BY <1>2, <1>3

\* Submit calls and owners: only AcquireAndSpawn touches an execution.
LEMMA ServiceKeepsVerdict ==
    ASSUME Typed, NEW u \in Tasks, CallStep(u) \/ OwnerStep(u), NEW t \in Tasks, Verdict(t)
    PROVE  Verdict(t)'
<1>1. CASE CallStep(u)
  <2>1. UNCHANGED executionVars /\ UNCHANGED cancel
    BY <1>1 DEF CallStep, ExistingSubmit, RejectUnavailable, AdmitAndReserve,
        AdmitWithoutReserve, WaiterWakes, EffectiveLimits
  <2> QED BY <2>1, KeptKeeps DEF VerdictKept, executionVars
<1>2. CASE AcquireAndSpawn(u)
  <2>1. exec[u] = "IDLE" /\ exec' = [exec EXCEPT ![u] = "PREPARING"] /\ UNCHANGED cancel
        /\ UNCHANGED <<tree, latch, control, daemon_error, reason>>
    BY <1>2 DEF AcquireAndSpawn, BeginExecution, NoVerdict
  <2>2. ExecutionTypeOK
    BY DEF Typed
  <2>3. exec'[t] = exec[t] \/ (exec[t] = "IDLE" /\ exec'[t] = "PREPARING")
    BY <2>1, <2>2 DEF ExecutionTypeOK
  <2>4. \A s \in {"STOPPING", "DONE"} : exec'[t] = s <=> exec[t] = s
    BY <2>3
  <2> QED BY <2>1, <2>4 DEF Verdict
<1>3. CASE OwnerStep(u) /\ ~AcquireAndSpawn(u)
  <2>1. UNCHANGED executionVars /\ UNCHANGED cancel
    BY <1>3 DEF OwnerStep, RollBack, PublishRollBack, PublishRunningSnapshot, SignalRunning,
        StoreFinished, CompleteActive, ReleaseCapacityLook, ReleaseCapacityAct, Notify,
        RetainBeforeRunning, FailBeforeRunning, PublishFailure, SettleFailure, DropActive,
        ReportRunningFailure, FailAfterRunning, CompleteRunningFailure, RetainAfterRunning
  <2> QED BY <2>1, KeptKeeps DEF VerdictKept, executionVars
<1> QED BY <1>1, <1>2, <1>3

\* A cancel is answered honestly: what the latch decided before the stop is what
\* is reported, an exit is reported only when nothing was decided before it, and
\* TASK_CANCELLED is answered only for a task that was stopped by the cancel.
THEOREM CancelIsHonest == Spec => []CancelHonest
<1> DEFINE Verdicts == \A t \in Tasks : Verdict(t)
<1>1. Init => Verdicts
  BY SMTT(60) DEF Init, ExecutionInit, NothingDone, Verdict
<1>2. Typed /\ Verdicts /\ [Next]_vars => Verdicts'
  <2> SUFFICES ASSUME Typed, Verdicts, [Next]_vars, NEW t \in Tasks PROVE Verdict(t)'
    OBVIOUS
  <2>1. Verdict(t)
    OBVIOUS
  <2>2. ASSUME NEW u \in Tasks, CallStep(u) \/ OwnerStep(u) PROVE Verdict(t)'
    BY <2>1, <2>2, ServiceKeepsVerdict
  <2>3. ASSUME NEW u \in Tasks, Execute(u) PROVE Verdict(t)'
    BY <2>1, <2>3, ExecutionKeepsVerdict DEF Execute, serviceVars, Typed
  <2>4. ASSUME NEW u \in Tasks, RequestCancel(u) \/ CancelWaiterWakes(u) PROVE Verdict(t)'
    BY <2>1, <2>4, CancelKeepsVerdict
  <2>5. ASSUME Clock \/ Quiescent \/ UNCHANGED vars PROVE Verdict(t)'
    <3>1. UNCHANGED executionVars /\ UNCHANGED cancel
      BY <2>5 DEF Clock, Quiescent, vars, serviceVars
    <3> QED BY <2>1, <3>1, KeptKeeps DEF VerdictKept, executionVars
  <2> QED BY <2>2, <2>3, <2>4, <2>5 DEF Next
<1>3. Verdicts => CancelHonest
  BY VerdictSuffices DEF CancelHonest
<1>4. ServiceInv => Typed
  BY DEF ServiceInv
<1> QED BY <1>1, <1>2, <1>3, <1>4, ServiceInvariance, PTL DEF Spec

-----------------------------------------------------------------------------
(* Counting: the slots and the logical tasks *)

INSTANCE FiniteSetTheorems

Occupied == {t \in Tasks : permit[t] \in {"HELD", "RETAINED"}}

Retained == {t \in Tasks : permit[t] = "RETAINED"}

LEMMA SlotsFinite ==
    /\ IsFiniteSet(Occupied) /\ Cardinality(Occupied) \in Nat
    /\ IsFiniteSet(Retained) /\ Cardinality(Retained) \in Nat
<1>1. IsFiniteSet(Occupied) /\ IsFiniteSet(Retained)
  BY TaskAssumption, FS_Subset DEF Occupied, Retained
<1> QED BY <1>1, FS_CardinalityType

LEMMA AcquireCounted ==
    ASSUME NEW t \in Tasks, SlotsCounted, Typed, try_acquire(t), permit[t] = "NONE"
    PROVE  SlotsCounted'
<1>1. Occupied' = Occupied \cup {t} /\ t \notin Occupied /\ Retained' = Retained
  BY DEF try_acquire, Occupied, Retained, Typed
<1>2. Cardinality(Occupied') = Cardinality(Occupied) + 1
  BY <1>1, SlotsFinite, FS_AddElement
<1> QED BY SMTT(60), <1>1, <1>2, SlotsFinite, CapacityAssumption
        DEF SlotsCounted, Occupied, Retained, try_acquire, HasRoom

LEMMA DropCounted ==
    ASSUME NEW t \in Tasks, SlotsCounted, Typed, drop_permit(t), permit[t] = "HELD"
    PROVE  SlotsCounted'
<1>1. Occupied' = Occupied \ {t} /\ t \in Occupied /\ Retained' = Retained
  BY DEF drop_permit, Occupied, Retained, Typed
<1>2. Cardinality(Occupied') = Cardinality(Occupied) - 1
  BY <1>1, SlotsFinite, FS_RemoveElement
<1> QED BY SMTT(60), <1>1, <1>2, SlotsFinite, CapacityAssumption
        DEF SlotsCounted, Occupied, Retained, drop_permit

LEMMA RetainCounted ==
    ASSUME NEW t \in Tasks, SlotsCounted, Typed, retain_for_fail_stop(t), permit[t] = "HELD"
    PROVE  SlotsCounted'
<1>1. Retained' = Retained \cup {t} /\ t \notin Retained /\ Occupied' = Occupied
  BY DEF retain_for_fail_stop, Occupied, Retained, Typed
<1>2. Cardinality(Retained') = Cardinality(Retained) + 1
  BY <1>1, SlotsFinite, FS_AddElement
<1> QED BY <1>1, <1>2 DEF SlotsCounted, Occupied, Retained, retain_for_fail_stop

LEMMA OwnerCounted ==
    ASSUME NEW t \in Tasks, OwnerStep(t), SlotsCounted, Typed, TaskInv(t)
    PROVE  SlotsCounted'
<1> USE DEF OwnerGoes, TaskInv, OwnerPlace, Unspawned, Owns
<1>1. ASSUME AcquireAndSpawn(t) PROVE SlotsCounted'
  BY <1>1, AcquireCounted DEF AcquireAndSpawn
<1>2. ASSUME ReleaseCapacityAct(t) PROVE SlotsCounted'
  <2>1. permit[t] = "HELD"
    BY <1>2 DEF ReleaseCapacityAct
  <2> QED BY <1>2, <2>1, DropCounted, RetainCounted DEF ReleaseCapacityAct
<1>3. ASSUME RetainBeforeRunning(t) PROVE SlotsCounted'
  BY <1>3, RetainCounted DEF RetainBeforeRunning
<1>4. ASSUME RetainAfterRunning(t) PROVE SlotsCounted'
  <2>1. permit[t] = "HELD" /\ retain_for_fail_stop(t)
    BY <1>4 DEF RetainAfterRunning
  <2> QED BY <2>1, RetainCounted
<1>5. ASSUME \/ RollBack(t) \/ PublishRollBack(t) \/ PublishRunningSnapshot(t)
             \/ SignalRunning(t) \/ StoreFinished(t) \/ CompleteActive(t)
             \/ ReleaseCapacityLook(t) \/ Notify(t) \/ FailBeforeRunning(t)
             \/ PublishFailure(t) \/ SettleFailure(t) \/ DropActive(t)
             \/ ReportRunningFailure(t) \/ FailAfterRunning(t)
             \/ CompleteRunningFailure(t)
      PROVE  UNCHANGED capacityVars
  BY <1>5 DEF RollBack, PublishRollBack, PublishRunningSnapshot, SignalRunning,
              StoreFinished, CompleteActive, ReleaseCapacityLook, Notify,
              FailBeforeRunning, PublishFailure, SettleFailure, DropActive,
              ReportRunningFailure, FailAfterRunning, CompleteRunningFailure
<1>6. ASSUME UNCHANGED capacityVars PROVE SlotsCounted'
  BY <1>6 DEF SlotsCounted, capacityVars
<1> QED BY <1>1, <1>2, <1>3, <1>4, <1>5, <1>6 DEF OwnerStep

LEMMA SlotsCountedInit == Init => SlotsCounted
<1> SUFFICES ASSUME Init PROVE SlotsCounted
  OBVIOUS
<1>1. \A t \in Tasks : permit[t] = "NONE"
  BY DEF Init, CapacityInit
<1>2. {t \in Tasks : permit[t] \in {"HELD", "RETAINED"}} = {}
  BY <1>1
<1>3. {t \in Tasks : permit[t] = "RETAINED"} = {}
  BY <1>1
<1>4. in_use = 0 /\ retained_for_fail_stop = 0
  BY DEF Init, CapacityInit
<1>5. 0 <= MaxConcurrent
  BY SMTT(60), CapacityAssumption
<1>6. Cardinality({}) = 0
  BY FS_EmptySet
<1> QED BY <1>2, <1>3, <1>4, <1>5, <1>6 DEF SlotsCounted

\* Only an owner takes, drops or retains a slot.
LEMMA SlotsCountedNext == ServiceInv /\ SlotsCounted /\ [Next]_vars => SlotsCounted'
<1> SUFFICES ASSUME ServiceInv, SlotsCounted, [Next]_vars PROVE SlotsCounted'
  OBVIOUS
<1>1. ASSUME NEW t \in Tasks, OwnerStep(t) PROVE SlotsCounted'
  BY <1>1, OwnerCounted DEF ServiceInv
<1>2. ASSUME NEW t \in Tasks, CallStep(t) PROVE UNCHANGED capacityVars
  BY <1>2 DEF CallStep, ExistingSubmit, RejectUnavailable, AdmitAndReserve,
       AdmitWithoutReserve, WaiterWakes, EffectiveLimits
<1>3. ASSUME NEW t \in Tasks, Execute(t) PROVE UNCHANGED capacityVars
  BY <1>3 DEF Execute
<1>4. ASSUME \/ \E t \in Tasks : RequestCancel(t) \/ CancelWaiterWakes(t)
             \/ Clock \/ Quiescent \/ UNCHANGED vars
      PROVE  UNCHANGED capacityVars
  BY <1>4 DEF RequestCancel, CancelWaiterWakes, Clock, Quiescent, vars
<1>5. ASSUME UNCHANGED capacityVars PROVE SlotsCounted'
  BY <1>5 DEF SlotsCounted, capacityVars
<1> QED BY <1>1, <1>2, <1>3, <1>4, <1>5 DEF Next

\* in_use and retained_for_fail_stop are exactly the slots taken and the slots
\* retained, and in_use never exceeds max_concurrent_tasks.
THEOREM SlotsAreCounted == Spec => []SlotsCounted
BY SlotsCountedInit, SlotsCountedNext, ServiceInvariance, PTL DEF Spec

\* Every variable of the task path keeps its type, and the two slot counters
\* never go below zero.
THEOREM ServiceTypeCorrect == Spec => []TypeOK
<1>1. ServiceInv /\ SlotsCounted => TypeOK
  <2> SUFFICES ASSUME ServiceInv, SlotsCounted PROVE TypeOK
    OBVIOUS
  <2>1. RegistryTypeOK
    BY DEF ServiceInv, Inv, Sound, RegistryTypeOK
  <2>2. in_use \in Nat /\ retained_for_fail_stop \in Nat
    BY SlotsFinite DEF SlotsCounted, Occupied, Retained
  <2> QED BY <2>1, <2>2 DEF ServiceInv, Typed, TypeOK, CapacityTypeOK
<1> QED BY <1>1, ServiceInvariance, SlotsAreCounted, PTL

\* Neither purge_expired nor release_failed_owner adds a reservation.
LEMMA PurgedShrinks ==
    ASSUME NEW r, NEW n
    PROVE  Reservations(Purged(r, n)) \subseteq Reservations(r)
<1> QED BY DEF Reservations, Purged

LEMMA ReleasedShrinks ==
    ASSUME NEW r \in RegistryState, NEW t \in Tasks
    PROVE  Reservations(Released(r, t)) \subseteq Reservations(r)
<1> QED BY SMTT(60) DEF Reservations, Released, RegistryState

LEMMA ReservationsFinite ==
    ASSUME NEW r
    PROVE  IsFiniteSet(Reservations(r)) /\ Cardinality(Reservations(r)) \in Nat
<1>1. Reservations(r) \subseteq Keys
  BY DEF Reservations
<1> QED BY <1>1, RequestAssumption, FS_Subset, FS_CardinalityType

LEMMA BoundedAfter ==
    ASSUME NEW r, NEW p, Reservations(p) \subseteq Reservations(r),
           Cardinality(Reservations(r)) <= MaxTasks
    PROVE  Cardinality(Reservations(p)) <= MaxTasks
<1>1. Cardinality(Reservations(p)) <= Cardinality(Reservations(r))
  BY ReservationsFinite, FS_Subset
<1> QED BY SMTT(60), <1>1, ReservationsFinite, RegistryBounds

\* reserve_submit_with adds one reservation, and only below the limit.
LEMMA ReservedBounded ==
    ASSUME NEW r \in RegistryState, NEW t \in Tasks, CanReserve(r, t)
    PROVE  Cardinality(Reservations(Reserved(r, t))) <= MaxTasks
<1>1. KeyOf[t] \in Keys /\ t # NoTask
  BY RequestAssumption, TaskAssumption
<1>2. Reservations(Reserved(r, t)) = Reservations(r) \cup {KeyOf[t]}
  BY SMTT(60), <1>1 DEF Reservations, Reserved, RegistryState
<1>3. KeyOf[t] \notin Reservations(r)
  BY DEF Reservations, CanReserve, HasExisting
<1>4. Cardinality(Reservations(Reserved(r, t))) = Cardinality(Reservations(r)) + 1
  BY <1>2, <1>3, ReservationsFinite, FS_AddElement
<1>5. ~(Cardinality(Reservations(r)) >= MaxTasks)
  BY DEF CanReserve, IsFull
<1> QED BY SMTT(60), <1>4, <1>5, ReservationsFinite, RegistryBounds

\* The number of logical tasks never exceeds max_tasks, for any limit and any
\* number of concurrent submit calls.
THEOREM RegistryBounded == RegistrySpec => []LogicalTasksBounded
<1>1. RegistryInit => LogicalTasksBounded
  <2>1. RegistryInit => Reservations(registry) = {}
    BY SMTT(60) DEF RegistryInit, InitialRegistry, Reservations
  <2> QED BY SMTT(60), <2>1, FS_EmptySet, RegistryBounds DEF LogicalTasksBounded
<1>2. Inv /\ LogicalTasksBounded /\ [RegistryNext]_registryVars => LogicalTasksBounded'
  <2> SUFFICES ASSUME Inv, LogicalTasksBounded, [RegistryNext]_registryVars
               PROVE  Cardinality(Reservations(registry')) <= MaxTasks
    BY DEF LogicalTasksBounded, Reservations
  <2>1. registry \in RegistryState /\ Sound(registry) /\ now \in Nat
    BY SMTT(60), RegistryBounds DEF Inv, Sound
  <2>2. ASSUME NEW r \in AfterPurge(registry)
        PROVE  r \in RegistryState /\ Cardinality(Reservations(r)) <= MaxTasks
    <3>1. r \in RegistryState
      BY <2>1, AfterPurgeSound DEF Sound
    <3>2. PICK n \in PurgePoints(registry) : r = Purged(registry, n)
      BY DEF AfterPurge
    <3>3. Reservations(r) \subseteq Reservations(registry)
      BY <3>2, PurgedShrinks
    <3> QED BY <3>1, <3>3, BoundedAfter DEF LogicalTasksBounded
  <2>3. ASSUME NEW t \in Tasks, ReserveSubmit(t)
        PROVE  Cardinality(Reservations(registry')) <= MaxTasks
    BY <2>2, <2>3, ReservedBounded DEF ReserveSubmit
  <2>4. ASSUME NEW t \in Tasks, PublishRunning(t)
        PROVE  Cardinality(Reservations(registry')) <= MaxTasks
    <3>1. PICK r \in AfterPurge(registry) : registry' = WithRunning(r, t)
      BY <2>4 DEF PublishRunning
    <3>2. Reservations(registry') = Reservations(r)
      BY SMTT(60), <2>2, <3>1 DEF Reservations, WithRunning, RegistryState
    <3> QED BY <2>2, <3>2
  <2>5. ASSUME NEW t \in Tasks, FinishSnapshot(t)
        PROVE  Cardinality(Reservations(registry')) <= MaxTasks
    <3>1. PICK r \in AfterPurge(registry) : registry' = WithFinished(r, t)
      BY <2>5 DEF FinishSnapshot
    <3>2. Reservations(registry') = Reservations(r)
      BY SMTT(60), <2>2, <3>1 DEF Reservations, WithFinished, RegistryState
    <3> QED BY <2>2, <3>2
  <2>6. ASSUME NEW t \in Tasks, ReleaseFailedOwner(t)
        PROVE  Cardinality(Reservations(registry')) <= MaxTasks
    BY <2>2, <2>6, ReleasedShrinks, BoundedAfter DEF ReleaseFailedOwner
  <2>7. CASE Lookup
    BY <2>2, <2>7 DEF Lookup
  <2>8. CASE Tick \/ UNCHANGED registryVars
    BY <2>8 DEF Tick, registryVars, LogicalTasksBounded
  <2> QED BY <2>3, <2>4, <2>5, <2>6, <2>7, <2>8 DEF RegistryNext
<1> QED BY <1>1, <1>2, Invariance, PTL DEF RegistrySpec
=============================================================================

# taskcaged in TLA+

`taskcaged` runs one external program per task inside its own cgroup, with limits, a
timeout and cancellation, and publishes `FINISHED` only after the whole process tree is
confirmed gone. If that cannot be confirmed the daemon stops starting work and exits
(fail-stop). This directory holds a TLA+ model of the code that has to get this right,
the TLC instances that check it, and TLAPS proofs of the parts that hold for every size.

Every definition is translated from the Rust and Java source. `PROJECT.json` maps each one
to its lines. Names follow the source where TLA+ allows it.

## 1. The system's parts

| part | source (below `daemon/src` unless said otherwise) | state | operations |
|---|---|---|---|
| task registry | `adapters/task_registry.rs` | two indexes, stored snapshots, expiration queue, one signal per reservation | look up, reserve, publish RUNNING, finish, release, purge, request cancel |
| fail-stop | `fail_stop.rs` | phase, first report, active executions with their start state | admit and register, commit start, activate, complete, drop |
| capacity | `capacity.rs` | two counters, one permit per task | acquire, drop, retain |
| submit coordination | `application/task/submit.rs`, `completion.rs` | the position of each submit call and of each owner task | reserve or wait, run, publish, roll back, fail |
| cancellation | `application/task/cancellation.rs`, `lifecycle.rs` | trigger latch, completion cell | request, observe, complete, wait |
| executor | `adapters/linux_executor.rs`, `adapters/task_service.rs` | position in `run_task`, cleanup progress | create, spawn, commit, wait, stop, recover, clean up |
| processes, cgroups, output | `linux-runtime/src/executor`, `linux-runtime/src/cgroup` | child, descendants, cgroup, exec pipe, output readers and tails | clone, exec, kill, reap, remove, collect |
| startup and preflight | `startup.rs`, `linux-runtime/src/preflight.rs`, `linux-runtime/src/cgroup/{manager,recovery}.rs` | lock, socket file, manager and leftover cgroups | lock, move, roll back, recover, bind |
| listeners and shutdown | `bootstrap`, `adapters/inbound` | connections, detached operations, drains | accept, dispatch, signal, drain, release the lock |
| profile runtime | `profile.rs`, `handlers.rs` | pending and accepted requests, tasks, terminals | reserve, accept, release, finalize, prune, query |
| capsules and policy | `application/capsule`, `adapters/outbound/capsule_resolvers`, `profile_mapper.rs`, `core/src/{capsule,policy}`, `resource_budget.rs`, `deployment_policy.rs` | the installed profiles | resolve, validate, bind, merge budgets |
| artifact stores | `adapters/outbound/*artifact*` | files, records, quota | stage, publish, upload, transfer, restore, expire, open |
| packages and bundles | `adapters/outbound/{runtime_package_cache,bundle_catalog}.rs`, `runtime_package_builder.rs`, `capsulefile.rs`, `cli` | cache entries, catalog | build, import, resolve, inspect, install |
| remote protocol | `adapters/inbound/remote_tls` | sessions, recorded answers, input ownership, cached results | authenticate, submit, get, cancel, monitor |
| Java SDK | `java-sdk` | one connection under one lock, handles, transfer progress | submit, await, cancel, upload, download, close |
| metrics, audit, credentials, codecs | the rest | none, or counters | formatting, comparison, parsing |

How they interact. A submit call looks the `clientRequestId` up in the registry. If it is
new it passes fail-stop admission, reserves, takes a slot and spawns an owner task. The
owner runs the executor. The executor commits the start with fail-stop, which opens the
exec gate of the child, and hands a RUNNING snapshot back. The owner publishes it, waits
for the result, stores FINISHED, completes the active entry, releases the slot and wakes
whoever waits. A cancel call reaches the executor through the trigger latch. Any cleanup
that cannot be confirmed activates fail-stop.

A profile request goes through the capsule resolver and the budget rules, then through the
profile runtime's own reservation, then down the same path. Its inputs come from an
artifact store before the task starts, its outputs go to one before FINISHED is stored. A
remote request does this under the dispatcher's lock, with inputs that the remote store
hands over to the task. The SDK repeats requests whose answers it lost.

What makes it hard: the actors interleave at every lock release and every await; each
cleanup or file system operation can fail on its own; a crash leaves files behind that the
next start has to understand; the order store, complete, release, notify is observable; a
request id can be used again as soon as its result has expired. `PROJECT.json` lists these
as hazards, the forty that weigh most, each at its line with the properties that cover it.

## 2. The modules

The task path:

| module | models | notes |
|---|---|---|
| `TaskIds` | task ids | a member of `Tasks` is a submit call and the id it generates |
| `TaskRegistry` | the registry | one record under one mutex; an operation is a function of the record that `purge_expired` leaves |
| `FailStop` | the fail-stop coordinator | an action per critical section |
| `Capacity` | slots | an action per successful atomic update |
| `Termination` | the trigger latch and `classify_termination` | pure operators |
| `Execution` | what `run_task` may do, as its callers see it | the contract of the executor |
| `TaskService` | submit calls, owners and cancel calls over all of the above | the composition; an action is one critical section of one actor |
| `TaskPromise` | what clients are promised | the abstract specification `TaskService` implements |
| `Executor` | `run_task` down to clone, gate, exec pipe, kill, reap and removal | implements `Execution` |
| `OutputCapture` | the two reader threads, their ring buffers and the three ways to collect | bytes are numbered, so a tail is compared with the stream |

In `TaskService` the variable `call` is the position of a submit call, `owner` of the
owner task, `exec` of the execution. `tree` is what the daemon can prove about the
processes of a task. `signal` is the observation that wakes submit waiters, and
`FINISHED` in it also fills the cells of cancel waiters.

In `Executor` the record `job` is the kernel's side (child, descendants, cgroup, readers)
and `clean` the cleanup's local variables. Two fields of `clean` are history and no step
depends on them: `failed`, a cleanup operation of this run failed, and `waitError`,
`waitpid` itself failed on a child that was not RUNNING yet. Each kernel call that can fail
has an action for each outcome. The waits without a deadline have positions of their own:
`COMMITTED` (the exec report is read), `STOP` (`stop_and_reap` after an unreadable report)
and `DROP` (the drop of a `PendingProcess` that two aborts could not reap). `ExecAs` and
`TreeAs` map the executor to `Execution`.

The daemon around it:

| module | models | notes |
|---|---|---|
| `Startup` | lock, stale socket, manager cgroup, recovery, serving and exit of several daemons | every step may be the last one; locks, cgroups and files outlive a daemon as the kernel lets them |
| `Listeners` | both listeners, the select of the main task, drains, the release of the lock | a dispatched operation is an actor of its own, as in the code |
| `RemoteSession` | accept, handshake, authentication deadline, requests and answers of remote connections | the credential check is a verdict |
| `RemoteTasks` | dispatcher and task backend: submissions, recorded answers, readers, monitors, conversion of results | locks held over awaits are variables |
| `ProfileRuntime` | `submitProfile` and `getProfileResult` over the maps `requests` and `tasks` | the raw task path appears as the snapshot it shows |
| `WireContract` | overrides and results on their way between SDK and registry, by the three protocols | encoders and decoders are operators on fields |

Files and packages:

| module | models | notes |
|---|---|---|
| `LocalArtifacts` | staging of inputs, publication and rollback of outputs | the owner may rewrite the source file at any time |
| `RemoteArtifacts` | every operation of the remote store, expiry, crash and `open` | memory and disk are separate variables; a step is one file system call |
| `PackageCache` | import and resolve of runtime packages | what is visible and what is durable are separate |
| `PackageManifest` | the builder, the manifest rules, the layout check, the population of staging | all trees over six paths |
| `BundleCatalog` | import, activation of identities, inspect and list | staging names carry the pid |
| `Budget` | validity and order of budgets, overrides | products in full width |
| `CapsuleProfile` | profiles, the importer's rules and the contract's rules | pure operators |
| `CapsuleCall` | resolver chain, verification, materialization and binding of a call | |
| `CapsulePack` | Capsulefile parser, `capsule build`, `capsule install` | |

The clients: `SdkConnection` is the lock, deadlines and interrupts around one connection,
for each of the three clients. `SdkWorkflow` is the upload, submit, poll and download of a
remote worker that resumes after every failure, against the daemon's idempotency.

The modules whose name starts with `MC` are instances for TLC. Those that end in `Proofs`
hold the theorems of section 4. Definitions whose name ends in `_` and a word, with a
comment that starts with "Faulty", are plausible mistakes. Each is paired in `PROJECT.json`
with the property that detects it.

## 3. The runs

`MCTaskService` and `MCTaskQueue` are instances of the composed task path. The other `MC`
modules hold several components side by side. They share no state, so their product would
only multiply what each does alone: the variable `part`, chosen initially, names the one
that moves, and the rest keep their initial state. A property of such a run is the
conjunction of what the modules state, each for its own part, and fairness is that of the
module whose part moves. "Faults" are failing calls; a crash ends a process and keeps its
files, a power loss also drops what was not made durable.

| run | part | instance | what it shows |
|---|---|---|---|
| `retry` | | 2 submits of one key, cancels, an OOM kill or a process limit reached without a kill, expiry | what clients are told is true; `TaskService` implements `TaskPromise` |
| `side` | | 2 keys, 2 slots, a cancel | fail-stop of one task against the start and the slot of the other |
| `queue` | queue | 3 submits, 2 of one key, 1 slot, registry limit 1 | rollback and re-reservation never give a key two trees |
| | reuse | the same, limit 2, another identity for the key | slot counters |
| `live` | | 2 submits of one key | answers to submits and cancels, return of slots |
| `executor` | executor | one task, any other may fail | `Executor` implements `Execution` and returns |
| | tail | 1 stream of 11 bytes, tail 3, reads of up to 4 | the tail is exactly the last bytes, truncation is told exactly |
| | capture | 2 streams, tail 2, 3 bytes, 1 fault | collection ends, joins its threads, is complete when it says so |
| | registry | 4 tasks, 3 keys, limit 2, retention 1, clock to 4 | indexes and queue consistent, exactly the expired results dropped |
| | results | 2 calls of one id, 1 query | a query is answered |
| `requests` | retries | 2 calls of one id, 1 query | one task per id, terminal before FINISHED, success is true |
| | mixed | 3 calls of one id, one with another payload | maps agree, conflicts are honest |
| | files | 2 submissions of a file that changes, 3 faults or crashes | executions read the declared bytes, outputs are verified |
| | capsule | 16-value numbers, profiles and calls at every rule, 2 submits | the three validators agree, budgets and paths as granted |
| | keys | 2 remote submissions of one id, 1 reader or canceller, evictions | one task per key, an input has one owner, one conversion |
| | frames | 1 session, 3 frames of every kind | answers in order, none left out |
| | slots | 2 sessions, 1 slot, 2 frames | slots accounted for, a late check serves nobody |
| `stores` | cache | 2 imports, 1 reader, 2 files, 2 faults, kills, losses or damages | entries complete, durable once reported |
| | manifest | all trees over 6 paths | what is built is valid and mirrors its source |
| | catalog | 2 imports, 3 bundles, 2 versions, 2 faults or kills | identities resolve, never change, answers are true |
| | power | 2 imports, 1 reader, 1 power loss | importing again repairs, answers name what is installed |
| | pack | 2 lines of each kind, 2 faults or kills | what parses binds, what is installed runs |
| | uploads | 2 artifacts, 2 tokens, 1 fault, 2 crashes | nothing acknowledged is lost, nothing unverified served, exact quota |
| | chunks | 2 bytes in chunks of 1 and 2, 2 faults, 1 crash | only the declared bytes pass; downloads return them |
| `remote` | sessions | 2 clients that may fall silent, 2 slots, 1 check | slots come back, operations outlive their connection |
| | inputs | 2 ids that want one input, 1 fault | the input goes to one task or back, and is released in the end |
| `daemon` | two | 3 daemons, 2 locks, 2 deaths, delegated root | one daemon serves, after recovery; recovery and socket removal spare what a live daemon owns |
| | managed | the same below a manager cgroup | one daemon serves, after recovery |
| | restart | 3 daemons, 1 lock | starts end, a start alone serves, nobody touches the jobs of a serving daemon |
| | alone | 3 local clients, 2 connections | the lock waits for the last cleanup, or for the fail-stop deadline |
| | both | 2 local clients and a remote one | the daemon ends, and reports the fail-stop; the lock waits for the executions of the local clients |
| `clients` | local | 2 threads, 2 faults, a daemon that stalls | no call reads another call's answer, every call returns |
| | remote | the same for the remote client, whose upload holds the lock | the same while the daemon reads |
| | workflow | 2 chunks, 1 edit, 2 lost answers | one task on one version of the file, a complete output, an end |
| | budgets | every set of overrides on 3 ways, 1 lost answer | what was asked for arrives, refusals have a cause |
| | results | every end of a task on 3 ways, 2 lost answers | what the SDK returns is what the registry holds |

`executor_exec` and `profile_lost_wakeup` are expected violations, see section 6.

Bounds of the task path. Two tasks are enough for every race between a task and another task
with its own request, and two submits of one key for every race between an owner and a
retry. The third submit adds a call that finds a conflict, a full registry or no slot.
`MaxClock` and `Retention` are as small as lets a result expire while another one has not
(registry) or between any two steps of a call (retry). `Cancellable` bounds the cancel calls
to one per task: a second cancel only reads the latch the first one wrote. `Retention = 0`
with `MaxClock = 0` in the other instances leaves expiry to those two. The two
calls of `retry` carry the same request and are interchangeable, so it uses symmetry.

Bounds of the rest. Two actors race for one name (key, entry, identity, lock); a third one
comes after them, or holds what they want. `MaxFaults`, `MaxCrashes`, `MaxDeaths` and
`MaxLost` count what may go wrong in one behaviour: one for the fault itself, a second one
where the code repairs the first and the repair can fail. Sizes are one more than the
boundary they reach: a tail of 3 with reads of 4, one slot for two sessions, files of two
chunks. `Max64 = 15` stands for the largest u64, small enough that the products of CPU ratios
pass it.

What the properties that need a word say:

- `CancelHonest`: a client is told TASK_CANCELLED only if its cancel was what stopped the
  task, and then nothing of the task runs any more. A limit reached without a kill
  (`pids_max`) must not outrank the cancel, nor a cancel accepted after fail-stop decided
  the end be read from the latch later. Each has its own mutant.
- `LimitsGoneMeansExpired`: a submit that is told RUNNING or FINISHED and then finds no
  effective limits finds none because the result has expired.
- `CancelAnswered`: an accepted cancel is answered unless the daemon stops. The owner that
  fails after RUNNING wakes no cancel waiter, so it has to report the failure first; a
  mutant leaves the report out.
- `AbandonedIsCollected`: a start given up before its commit has run nothing, and its
  child and readers are collected when `run_task` returns, unless `waitpid` itself failed.
- `FailStopHasCause`: `run_task` raises fail-stop only when one of its own cleanup
  operations failed. An abort that succeeds leaves the daemon accepting work.
- `ExecutorReturns`: `run_task` returns under the fairness below, output collection ends, and
  a profile result that is asked for is answered.
- `RemoteSettles`: the slot of a remote session comes back, an input is released in the end,
  and whoever waits for the dispatcher or for a conversion is served.

Deadlock is checked where the specification says when the system may rest (`Quiescent`,
`Done`). The other runs have `CHECK_DEADLOCK FALSE`: their clients are finite in number, so
the system stops when all have been served.

Fairness. Owners, calls, handlers, connections and servers are tokio tasks: they are polled
again once woken and none waits for a client, so each has weak fairness.

- An execution of `Execution` has weak fairness because `run_task` returns, which the run
  `executor` checks. There, every wait has a deadline but three. `wait_for_exec` reads the exec
  pipe until the child has executed its program or has ended. `stop_and_reap` waits for a
  child it has sent `SIGKILL`, once after an unreadable report and once in the drop of a
  pending child that could not be aborted. `FairExecutorSpec` therefore assumes two things of
  the kernel: a child past its gate finishes `execve` one way or the other, and a killed child
  ends. Without the second `run_task` need not return: a killed child that stays in an
  uninterruptible wait blocks the drop, and the thread that runs it, past every deadline of
  fail-stop. Nothing is assumed of a child at the gate.
- `RemoteTasks`: strong fairness of taking the dispatcher's lock and the conversion lock,
  because tokio's mutex hands the lock to waiters in order.
- `RemoteSession`: timers fire. The session deadline has strong fairness, since its branch is
  ready at every `select!` after it has passed and `select!` picks at random. Nothing is
  assumed of the client.
- `Startup`: straight-line code goes on, and processes that were sent SIGKILL die.
- `Listeners`: servers, main task, dispatched operations and the fail-stop deadline.
- `OutputCapture`: reader threads, the collector and the deadline; nothing of the task.
- `SdkConnection`: threads and timers; nothing of the daemon. `SdkWorkflow` and
  `WireContract`: the daemon serves, tasks end.

Clients are not obliged to call, and cancels, signals, failures, crashes and clock ticks
have no fairness.

## 4. The proofs

All of them hold for every size of the sets and every value of the limits, under the named
assumptions of the modules. Each inductive invariant was first checked by TLC.

`TaskRegistryProofs` proves, for any tasks, keys, limit and retention:

| theorem | statement |
|---|---|
| `RegistryTypeCorrect` | the type invariant |
| `RegistryIsConsistent` | `RegistryConsistent` |
| `RegistryKeepsFinished` | `FinishedKept` |
| `RegistryPurgesAll` | `PurgeComplete` |

The inductive invariant is the type together with `RegistryConsistent`. Neither half is
inductive alone: a purge removes the key stored for the task, which is the right one only
if the two indexes are inverse, and it removes a prefix of the queue, which holds exactly
the expired results only if the queue is in completion order and every completion time is
at most the present. Every operation is a purge followed by one update of the record. So
there is a lemma that purging any prefix keeps a record sound, one lemma for each update,
and the step theorem combines them. The assumptions are those the modules state: finite
sets of tasks and keys, a positive limit, a natural retention.

`TaskServiceProofs` proves, for any submit calls, keys, identities and slots:

| theorem | statement |
|---|---|
| `ServiceRunsRegistry` | `Spec => RegistrySpec`: the registry theorems hold in the task path |
| `ServiceTypeCorrect` | the type invariant |
| `FinishedIsClean` | `FinishedMeansClean` |
| `SlotsAreCounted` | `SlotsCounted` |
| `SlotCoversEveryTree` | `SlotCoversTree` |
| `ActiveCoversEveryTree` | `ActiveCoversTree` |
| `UncertaintyStops` | `UncertainMeansFailStop` |
| `OwnersAreVerified` | `OwnerVerified` |
| `ToldOnlyAfterRelease` | `ToldAfterRelease` |
| `OneTreeForEachRequest` | `OneTreePerRequest` |
| `FailStopIsSticky` | `FailStopSticky` |
| `NoStartOnceFailStopping` | `NoStartAfterFailStop` |
| `CancelIsHonest` | `CancelHonest` |
| `TaskPathKeepsPromise` | `KeepsPromise`: `TaskService` implements `TaskPromise` |
| `RegistryBounded` | `LogicalTasksBounded` |

The inductive invariant `ServiceInv` adds to the registry's invariant a statement about each
task alone, `TaskInv`. It says what the position of the task's owner determines:

- `ExecutionPlace`: the execution's position against its process tree and its outcome;
- `OwnerPlace`: the owner's position against its slot, active entry, execution and reservation;
- `ShownPlace`: what the watch channel and the snapshot show against the owner's position.

The theorems in the table are not inductive by themselves. `FinishedMeansClean`, for
example, needs that an owner about to store the result has a completed execution, which
needs in turn that a completed execution has no tree left.

The argument for a step has three parts. A step belongs to one task and leaves the others'
variables alone (`OnlyFor`, `StepOfOne`, `StepOfNone`). It keeps the place of its own task:
one lemma per owner action, each first reducing the action to what it does to that task.
It keeps the entries of the other tasks in the registry, although it may purge or release
(`EntryKept`, `EntriesKept`). Two conjuncts of `ServiceInv` relate several tasks.
`SlotsCounted` is kept because a step changes the permit of one task and the counters by as
much. `OneTreePerRequest` is kept because no other task can reserve the key of a task that may
have processes.

`CancelIsHonest` rests on an invariant of its own, `Verdict`, which follows a cancel from
the latch through the trigger taken with the decision to the reason of the result. For
`TaskPathKeepsPromise` each action is shown to be one step of `TaskPromise` or none. What a
client sees changes in few actions, and one lemma covers the others. `RegistryBounded`
counts: purges and releases only remove reservations, and a reservation adds exactly one
below the limit. It is stated of the registry alone, and holds in the task path by
`ServiceRunsRegistry`.

`ExecutorProofs` proves, for any other tasks and any sets of cgroup events:

| theorem | statement |
|---|---|
| `ExecutorTypeCorrect` | the type invariant |
| `ResultsAreClean` | `ResultMeansGone` |
| `AbandonedAreCollected` | `AbandonedIsCollected` |
| `FailStopIsCaused` | `FailStopHasCause` |
| `ExecutorImplementsExecution` | `ImplementsExecution` |

What `run_task` may conclude at its end depends on what it recorded on the way, so the
invariant `ExecutorInv` ties the record to the kernel. `KernelSound` says what holds of the
kernel whatever `run_task` does. `RecordTrue` says that what was recorded as done was done,
`FailureRecorded` that whatever keeps a path from a proof was recorded as a failure,
`GateClosed` that a start that may still be given up has not passed its gate, and
`PathFollows` which path belongs to which position. There is one step per action. The
refinement adds `StageKnown`, what is started and committed at each position, and shows for
each action which step of `Execution` it is, or that the contract cannot see it.

`DaemonProofs` is about remote sessions and about startup.

Sessions (any clients, slots, checks and frames): `SlotsAreAccounted`,
`WorkersAreBounded`, `OverdueIsUnserved`, `AnswersAreInOrder`. `SessionInv` counts free slots
against live connections and free permits against running checks, says which connections
wait for a check, and what a session has answered at each of its positions.

Startup (any number of daemons, runtime directories and deaths, both placements):

| theorem | statement |
|---|---|
| `StartupTypeCorrect` | `StartupTypeOK`: locks belong to live daemons, cgroup members are the live ones |
| `OneDaemonServes` | `OneServing` |
| `RecoveredBeforeService` | `ServingMeansRecovered` |
| `RecoveryKillsTheDead` | `RecoverySparesLive` |
| `SocketsOfListenersStay` | `SocketSparesLive` |
| `OneLockKeepsJobs` | `ServingOwnsJobs`, with one runtime directory |

They assume `Layout`: every daemon has a runtime directory, and `None` is no daemon and no
cgroup. `StartInv` has two independent arguments. `LockInv` is about files: whoever is between
`acquire_lock` and the release holds the lock of its directory, so the owner of a socket at
that path that still listens can only be the examiner itself, and what is unlinked is stale.
It says nothing of daemons with other locks. `TreeInv` is about the cgroup tree and does not
mention locks: whoever passed `require_only_current_manager_process` is in the manager cgroup
(`PastInManager`) and alone there (`OnePast`), only such a daemon owns the jobs directory and the
jobs in it (`JobsOwned`), and a jobs directory that a recovery has opened belonged to a daemon
that is dead (`OpenedIsDead`): the opening follows the look at the manager's members, and a
daemon that has a jobs directory stays a member until it ends. Entries behind that descriptor
are a dead daemon's jobs, or none once it has been replaced. `OneLockKeepsJobs` needs both: the
serving daemon holds the only lock, so no recovery is at work that could remove its directory.

`LocalProofs` is about the shutdown of the local server and about its artifact store.

| theorem | assumes | statement |
|---|---|---|
| `LockOutlivesLocal` | `Apart` | `LocalDrained` |
| `DrainIsComplete` | no remote clients | `DrainComplete` |
| `FailStopIsReported` | | `FailStopReported` |
| `FilesTypeCorrect` | `FilesAssumption` | the type invariant of `LocalArtifacts` |
| `SnapshotsAreDeclared` | `FilesAssumption` | `SnapshotDeclared` |
| `ReportedIsClean` | `FilesAssumption` | `TerminalMeansClean` |
| `PublishedIsVerified` | `FilesAssumption` | `PublishedVerified` |

`Apart`: a connection belongs to one listener. `FilesAssumption`: `None` is no result and no
file, and the bound on faults is a number. The shutdown is proved for any clients, any limit
of connections and any executions that cannot be cleaned up. `LocalInv` says that where the
local server has left its accept loop its connections are closed and none of their requests
is under way (`Quiet`); the idle count it reads later is then about executions that only end.
`ReportInv` says in which phases a fail-stop is known and reported. This is all that holds
beside a remote listener, whose operations go on: `LockUntilLastCleanup` fails there (section
6), and `LocalDrained` is what is left of it. Without remote clients `AloneInv` adds that no
fail-stop can come after the idle count. The store is proved for any submissions, any number
of failing calls and crashes at any moment: `Submission` says for each position what of the
copy has been compared, whether the output was verified and what is staged or published.

`PackageCacheProofs` (any imports, readers, files and faults): `CacheTypeCorrect`,
`EntriesAreComplete`, `SuccessIsDurable`, `DamageIsRefused`, `SuccessIsTidy`, `EntriesAreKept`.
Whether an entry survives a power loss is decided by the order of steps before the rename, so
`CacheInv` says for each position of an import what its staging directory holds and what of it
is durable (`StageSound`), and what whoever is past the rename has seen (`Seen`).

`ProfileRuntimeProofs` (any calls, queries, ids and payloads): `ProfileTypeCorrect`,
`SubmitIsIdempotent`, `MapsAreConsistent`, `TerminalComesFirst`, `SuccessIsHonest`,
`ConflictIsHonest`. The maps, the raw registry and the handlers are separate, and
`IdempotentSubmit` alone says nothing of a handler that has read an entry and not yet
answered. `ProfileInv` says for each call what its position, its raw task and its entries tell
about each other (`Place`), what a handler holds and has answered (`Holds`), what its terminal
may be (`Result`) and what a query holds (`Query`). That two live tasks of one id are the same
follows from `Place`: both would be the holder of the id in the raw registry. A conflict keeps
a reason (`Cause`), which no step undoes. A step moves one call; the others are bystanders,
which it may wake and whose expired tasks it may drop (`Bystander`, `Forward`, `Drops`).

`BundleCatalogProofs` (any imports, readers, bundles, versions, pids and faults):

| theorem | also assumes | statement |
|---|---|---|
| `CatalogTypeCorrect` | | the type, and that an import about to rename has something to rename |
| `ReimportAlwaysRestores` | | `ReimportRestores` |
| `AnswersAreInstalled` | | `AnswersInstalled` |
| `MappingsAlwaysResolve` | no power loss | `MappingResolves` |
| `ReportsAreHonest` | no power loss | `ReportHonest` |
| `IdentitiesAreKept` | no power loss | no step changes or removes a mapping |
| `RefusalsHaveCause` | no pid used twice | `RefusedHasCause` |

All of them assume `Constants`: every digest has a version, `None` is neither a digest nor a
verdict, importers and readers are different processes. The two other assumptions are sharp:
`ReportedSurvives` fails at a power loss and `RefusedHasCause` with a pid that comes back
(section 6). The promises about names rest on who may touch a staging name. `CatalogInv` says
that running importers have different pids (`OwnPids`), what each has in its staging
directory and in its mapping file at each position (`ImportPlace`), what a reader has read
(`ReaderPlace`) and that a mapping, present or durable, names a bundle of its version
(`Bears`). A rename without replacement then binds an identity at most once.
`RefusalsHaveCause` adds that importers past their first step never share a pid, dead ones
included (`Unique`), so a leftover is never in the way.

Only model-checked: `LimitsGoneMeansExpired`; all liveness, since fairness and ENABLED are outside what TLAPS proves;
what the fold of the quota in `RemoteArtifacts` and the paths of `PackageManifest` compute,
since that needs induction over data; and the properties of the modules not named here.

## 5. What is not modelled

- Mutex poisoning and panics, except the one of section 6.
- Credentials: the comparison of tokens, the configuration that holds them, and its reload.
  A check gives a verdict at some time.
- JSON text. A frame can be decoded or not (`RemoteSession`); what a decoder accepts is
  modelled where another part depends on it (`WireContract`).
- Metrics, status and audit lines: counters and text that nothing reads back.
- The text forms of names, paths, versions and digests: well formed or not.
- The `openat` walks of the stores: one call that can fail. Symbolic links, owners and modes
  are its reasons to fail.
- Signatures and digests: one verdict, true of the bytes that were read.
- The Docker client of `runtime_oci.rs`, argument parsing and printing of the command line:
  sequential calls of another program with no state of their own.
- `clone3`, namespaces, file descriptors and limit files: they succeed or fail.
- In `RemoteArtifacts` the loss of unsynced pages at a power failure, and a second I/O error
  while the first one is undone. The store keeps its records for a daemon's restart, and its
  rollback is best effort.
- In the SDK option objects and the TLS context.
- The numbers of the cgroup statistics: `StatsFail` only says that they could not be read.
- The branch of `wait_for_exec` for a report that is neither empty nor complete
  (`InvalidExecPayload`): the child writes its four bytes in one write to a pipe, which the
  kernel does not split.
- The drop of a `JobCgroup` that was not removed, which tries once more to kill and remove it
  after the result was already reported as uncertain.

Deadlines appear as choices: a deadline may pass at any time.

`ServingOwnsJobs` is checked for one runtime directory only. Two daemons with different
runtime directories over one delegated root share the jobs directory, and the lock is per
runtime directory; for them the runs show that recovery spares live jobs.

## 6. Findings

The first two are runs that TLC refutes; `PROJECT.json` quotes the line of documentation,
comment or test that says otherwise. The others were refuted in the same way on the instance
named. The property stays in its module, outside the runs.

| property | instance | the code | what is said |
|---|---|---|---|
| `RunningMeansExeced` | run `executor_exec` | an empty exec pipe counts as success; it is also empty when the child dies before `execve` | RUNNING is published after `execve` succeeded |
| `SubmitAnswered` | run `profile_lost_wakeup` | `reserve` registers on the Notify after releasing the mutex, and `notify_waiters` keeps no permit | a repeated request is answered |
| `ToldMeansProfile` | retries | `accept` fills `requests` before `tasks` | only a raw task is a kind mismatch |
| `OpenSucceeds` | uploads | a crash in `transfer_inputs` leaves a record without bytes, and `open` fails | completed artifacts are restored on restart |
| `KeyNamesArtifact` | uploads | `restore_task_inputs` overwrites the key of a newer upload | a key finds its upload |
| `LockUntilLastCleanup` | both | the idle count is read while remote operations may still submit | the lock is held until the last cleanup |
| `RejectedNotPublished` | files (holds with 1 fault) | the removal of a published file ignores its error | a publish failure leaves no output |
| `ConsumedByTask` | keys | ownership tokens depend on the request id only, and a late cleanup has the token of a new task | a refused submission leaves its input usable |
| `BuiltImportable` | manifest | empty directories are built and cannot be imported | what is built goes to the next step |
| `RefusedHasCause` | catalog, with a pid that comes back | staging names repeat when a pid does, leftovers stay | staging names are unique, importing again recovers |
| `ArchiveChecked` | catalog | three allowed files may lack the checksums, which are then expected | "checked" |
| `InspectTolerant` | power | readers fail on a staging file that is renamed away | readers ignore safe staging files |
| `ReportedSurvives` | power | the parent directory of a new name is not fsynced | a reported activation is durable |
| `RetryAnswered` | capsule | the profile is resolved before the id is looked up | a repeated request returns its task |
| `InstalledCallable` | capsule, with a media type that cannot be declared | the importer accepts media types no call can declare | that error code is about the caller's input |
| `PackInstallable` | pack | the parser's names are wider than the importer's | what is built can be installed |
| `FromHonoured` | pack, with packages of two identities | the identity in FROM is compared with nothing | FROM declares the runtime |
| `EveryCallReturns` | remote client, with a daemon that stalls | the remote client bounds reads only | the timeout covers the round trip |
| `HandleRecovered` | workflow, with a task that ends at once | the remote client refuses a recorded `profileResult` | repeating recovers the handle |
| `AbandonedDiscarded` | workflow | nothing removes an upload whose client left | connection loss discards it |
| `RecoverReadable` | results of `clients` | a repetition while running answers RUNNING `profileResult`, which the SDK refuses | the overload with an id is for repeating |
| `RemoteFollowsLocal` | results of `clients`, with an output of no bytes | the remote store refuses an empty output | remote results follow local ones |

`ProfileInv` and the theorems of the profile runtime hold with the two races of this table
present: they are about what is answered, `profile_lost_wakeup` is a call that is not.

## 7. Plan

1. Proofs for `RemoteArtifacts` (`QuotaExact`, `AcknowledgedSurvives`) and `Listeners`.
2. A composition of `ProfileRuntime` with `LocalArtifacts`, and of `RemoteTasks` with
   `RemoteArtifacts`, in place of the summaries each has of the other.
3. Power loss in `RemoteArtifacts`, once the store states what it promises then.

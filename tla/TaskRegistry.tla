---------------------------- MODULE TaskRegistry ----------------------------
(***************************************************************************)
(* The in-memory task registry of taskcaged                                *)
(* (daemon/src/adapters/task_registry.rs).                                 *)
(*                                                                         *)
(* The registry is one Mutex-protected value.  It is modelled as one       *)
(* record, and every operation of the code as a function from the record   *)
(* to the next one, applied to the record purge_expired leaves behind,     *)
(* because every operation locks the state and purges it first.            *)
(*                                                                         *)
(* KeyOf gives a submit call's clientRequestId and IdentityOf the          *)
(* SubmissionIdentity compared when the clientRequestId is reused.         *)
(***************************************************************************)
EXTENDS TaskIds, Naturals, Sequences

CONSTANTS
    Keys,           \* clientRequestIds
    Identities,     \* submission identities
    KeyOf,          \* the clientRequestId of each submit call
    IdentityOf,     \* the submission identity of each submit call
    MaxTasks,       \* TaskRegistrySettings::max_tasks
    Retention,      \* MIN_FINISHED_RETENTION, in clock ticks
    MaxClock,       \* bound on the clock
    NoKey           \* Option::None where a clientRequestId is expected

ASSUME RequestAssumption ==
    /\ KeyOf \in [Tasks -> Keys]
    /\ IdentityOf \in [Tasks -> Identities]
    /\ IsFiniteSet(Keys)

ASSUME RegistryBounds ==
    /\ MaxTasks \in Nat \ {0}
    /\ Retention \in Nat
    /\ MaxClock \in Nat

ASSUME NoKeyAssumption == NoKey \notin Keys

VARIABLES
    registry,       \* RegistryState without its clock
    now             \* the clock, RegistryClock::now

registryVars == <<registry, now>>

(***************************************************************************)
(* A record's snapshot is absent, RUNNING or FINISHED.  START_FAILED is a  *)
(* FINISHED snapshot stored for a task that was never published RUNNING:   *)
(* it is the one kind of record without verified effective limits.         *)
(***************************************************************************)
Snapshots == {"NONE", "RUNNING", "FINISHED", "START_FAILED"}

RegistryState ==
    [requests     : [Keys -> Tasks \cup {NoTask}],
     taskRequests : [Tasks -> Keys \cup {NoKey}],
     snapshot     : [Tasks -> Snapshots],
     finishedAt   : [Tasks -> Nat],
     expirations  : Seq(Tasks)]

InitialRegistry ==
    [requests     |-> [k \in Keys |-> NoTask],
     taskRequests |-> [t \in Tasks |-> NoKey],
     snapshot     |-> [t \in Tasks |-> "NONE"],
     finishedAt   |-> [t \in Tasks |-> 0],
     expirations  |-> <<>>]

IsFinished(r, t) == r.snapshot[t] \in {"FINISHED", "START_FAILED"}

\* Faulty: the limits go with the RUNNING snapshot.
HasLimits_RunningOnly(r, t) == r.snapshot[t] = "RUNNING"

HasLimits(r, t) == r.snapshot[t] \in {"RUNNING", "FINISHED"}

-----------------------------------------------------------------------------
(* purge_expired pops the front of the expiration queue while it is older  *)
(* than the retention, and removes each popped task from all three maps.   *)

Expired(r, t) == now > r.finishedAt[t] + Retention

\* Faulty: one call removes at most one expired result.
PurgePoints_AtMostOne(r) ==
    {n \in 0 .. 1 : n = 1 <=> r.expirations # <<>> /\ Expired(r, Head(r.expirations))}

PurgePoints(r) ==
    {n \in 0 .. Len(r.expirations) :
        /\ \A i \in 1 .. n : Expired(r, r.expirations[i])
        /\ n < Len(r.expirations) => ~Expired(r, r.expirations[n + 1])}

Purged(r, n) ==
    LET gone == {r.expirations[i] : i \in 1 .. n}
    IN  [requests     |-> [k \in Keys |->
                             IF \E t \in gone : r.taskRequests[t] = k
                             THEN NoTask ELSE r.requests[k]],
         taskRequests |-> [t \in Tasks |->
                             IF t \in gone THEN NoKey ELSE r.taskRequests[t]],
         snapshot     |-> [t \in Tasks |->
                             IF t \in gone THEN "NONE" ELSE r.snapshot[t]],
         finishedAt   |-> [t \in Tasks |->
                             IF t \in gone THEN 0 ELSE r.finishedAt[t]],
         expirations  |-> SubSeq(r.expirations, n + 1, Len(r.expirations))]

\* The state an operation finds after lock_state and purge_expired: one record.
AfterPurge(r) == {Purged(r, n) : n \in PurgePoints(r)}

-----------------------------------------------------------------------------
(* reserve_submit_with and existing_submit *)

Reservations(r) == {k \in Keys : r.requests[k] # NoTask}

HasExisting(r, t) == r.requests[KeyOf[t]] # NoTask

SameIdentity(r, t) == IdentityOf[r.requests[KeyOf[t]]] = IdentityOf[t]

IsFull(r) == Cardinality(Reservations(r)) >= MaxTasks

CanReserve(r, t) ==
    /\ ~HasExisting(r, t)
    /\ ~IsFull(r)
    /\ r.taskRequests[t] = NoKey

Reserved(r, t) ==
    [r EXCEPT !.requests[KeyOf[t]] = t,
              !.taskRequests[t] = KeyOf[t]]

-----------------------------------------------------------------------------
(* The operations of SubmitExecutionOwner.  verify_owner compares the task *)
(* id and the reservation's signal; one call makes one reservation, so     *)
(* both comparisons are the comparison of task ids.                        *)

verify_owner(r, t) == r.requests[KeyOf[t]] = t

CanPublishRunning(r, t) == verify_owner(r, t) /\ r.snapshot[t] = "NONE"

WithRunning(r, t) == [r EXCEPT !.snapshot[t] = "RUNNING"]

CanFinish(r, t) == verify_owner(r, t) /\ ~IsFinished(r, t)

WithFinished(r, t) ==
    [r EXCEPT !.snapshot[t] = IF @ = "RUNNING" THEN "FINISHED" ELSE "START_FAILED",
              !.finishedAt[t] = now,
              !.expirations = Append(@, t)]

\* Faulty: only one of the two indexes is cleared.
Released_OneIndex(r, t) ==
    IF r.snapshot[t] # "NONE" THEN r ELSE [r EXCEPT !.requests[KeyOf[t]] = NoTask]

\* Faulty: a stored snapshot is dropped with the reservation.
Released_Always(r, t) ==
    [r EXCEPT !.requests[KeyOf[t]] = NoTask,
              !.taskRequests[t] = NoKey,
              !.snapshot[t] = "NONE"]

\* release_failed_owner keeps a stored snapshot and its reservation.
Released(r, t) ==
    IF r.snapshot[t] # "NONE"
    THEN r
    ELSE [r EXCEPT !.requests[KeyOf[t]] = NoTask,
                   !.taskRequests[t] = NoKey]

-----------------------------------------------------------------------------
(* The registry on its own: any owner may call any operation at any time.  *)

RegistryInit ==
    /\ registry = InitialRegistry
    /\ now = 0

ReserveSubmit(t) ==
    /\ \E r \in AfterPurge(registry) :
          /\ CanReserve(r, t)
          /\ registry' = Reserved(r, t)
    /\ UNCHANGED now

PublishRunning(t) ==
    /\ \E r \in AfterPurge(registry) :
          /\ CanPublishRunning(r, t)
          /\ registry' = WithRunning(r, t)
    /\ UNCHANGED now

FinishSnapshot(t) ==
    /\ \E r \in AfterPurge(registry) :
          /\ CanFinish(r, t)
          /\ registry' = WithFinished(r, t)
    /\ UNCHANGED now

ReleaseFailedOwner(t) ==
    /\ \E r \in AfterPurge(registry) :
          /\ verify_owner(r, t)
          /\ registry' = Released(r, t)
    /\ UNCHANGED now

\* Lookups, and operations that return an error, only purge.
Lookup ==
    /\ registry' \in AfterPurge(registry)
    /\ UNCHANGED now

Tick ==
    /\ now < MaxClock
    /\ now' = now + 1
    /\ UNCHANGED registry

RegistryNext ==
    \/ \E t \in Tasks :
          \/ ReserveSubmit(t)
          \/ PublishRunning(t)
          \/ FinishSnapshot(t)
          \/ ReleaseFailedOwner(t)
    \/ Lookup
    \/ Tick

RegistrySpec == RegistryInit /\ [][RegistryNext]_registryVars

-----------------------------------------------------------------------------
(* Properties *)

\* The type of the registry's state and of its clock.
RegistryTypeOK ==
    /\ registry \in RegistryState
    /\ now \in 0 .. MaxClock

\* requests and task_requests are inverse maps: a clientRequestId and the
\* task id it reserved always find each other, for the whole time from the
\* reservation to the end of the FINISHED retention.
InverseIndexes(r) ==
    /\ \A k \in Keys : r.requests[k] # NoTask =>
          /\ KeyOf[r.requests[k]] = k
          /\ r.taskRequests[r.requests[k]] = k
    /\ \A t \in Tasks : r.taskRequests[t] # NoKey =>
          /\ r.taskRequests[t] = KeyOf[t]
          /\ r.requests[r.taskRequests[t]] = t

\* A stored snapshot always belongs to a live reservation.
SnapshotsReserved(r) ==
    \A t \in Tasks : r.snapshot[t] # "NONE" => r.taskRequests[t] = KeyOf[t]

\* The expiration queue holds each FINISHED task once and nothing else.
QueueHoldsFinished(r) ==
    /\ \A i \in 1 .. Len(r.expirations) : IsFinished(r, r.expirations[i])
    /\ \A i, j \in 1 .. Len(r.expirations) :
          r.expirations[i] = r.expirations[j] => i = j
    /\ \A t \in Tasks : IsFinished(r, t) =>
          \E i \in 1 .. Len(r.expirations) : r.expirations[i] = t

\* The queue is in completion order, which is what lets purge_expired stop at
\* the first entry that has not expired.
QueueOrdered(r) ==
    /\ \A t \in Tasks : r.finishedAt[t] <= now
    /\ \A i, j \in 1 .. Len(r.expirations) : i < j =>
          r.finishedAt[r.expirations[i]] <= r.finishedAt[r.expirations[j]]

\* The indexes, the stored snapshots and the expiration queue of the registry
\* agree with each other after every operation (the debug_asserts of
\* purge_expired and release_failed_owner never fire).
RegistryConsistent ==
    /\ InverseIndexes(registry)
    /\ SnapshotsReserved(registry)
    /\ QueueHoldsFinished(registry)
    /\ QueueOrdered(registry)

\* reserve_submit_with never lets the number of logical tasks, from the
\* reservation to the end of the retention, exceed max_tasks.
LogicalTasksBounded == Cardinality(Reservations(registry)) <= MaxTasks

\* A FINISHED result is never replaced, and is dropped only after the whole
\* retention period has passed.
FinishedKept ==
    [][\A t \in Tasks : IsFinished(registry, t) =>
          \/ registry'.snapshot[t] = registry.snapshot[t]
          \/ now > registry.finishedAt[t] + Retention]_registryVars

\* After any operation no FINISHED result that is past its retention is left:
\* popping a prefix of the queue is enough.
PurgeComplete ==
    [][now' = now =>
         \A t \in Tasks : IsFinished(registry', t) =>
             now <= registry'.finishedAt[t] + Retention]_registryVars
=============================================================================

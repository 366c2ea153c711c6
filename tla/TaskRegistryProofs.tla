------------------------ MODULE TaskRegistryProofs ------------------------
(***************************************************************************)
(* Proofs about the task registry, for any set of tasks and keys, any      *)
(* capacity and any retention.                                             *)
(*                                                                         *)
(* Every operation is purge_expired followed by one update of the record,  *)
(* so there is one lemma for the purge and one for each update, and the    *)
(* invariant theorem only combines them.                                   *)
(***************************************************************************)
EXTENDS TaskRegistry, TLAPS

\* Most leaves are first-order: Zenon is the prover unless a leaf names another.
USE ZenonT(200)

-----------------------------------------------------------------------------
(* The operations on a queue *)

LEMMA QueueParts ==
    ASSUME NEW S, NEW q \in Seq(S)
    PROVE  Len(q) \in Nat /\ \A i \in 1 .. Len(q) : q[i] \in S
BY SMTT(60)

LEMMA QueueTail ==
    ASSUME NEW S, NEW q \in Seq(S), NEW n \in 0 .. Len(q)
    PROVE  /\ SubSeq(q, n + 1, Len(q)) \in Seq(S)
           /\ Len(SubSeq(q, n + 1, Len(q))) = Len(q) - n
           /\ \A i \in 1 .. Len(q) - n : SubSeq(q, n + 1, Len(q))[i] = q[n + i]
BY SMTT(60)

LEMMA QueueAppend ==
    ASSUME NEW S, NEW q \in Seq(S), NEW t \in S
    PROVE  /\ Append(q, t) \in Seq(S)
           /\ Len(Append(q, t)) = Len(q) + 1
           /\ \A i \in 1 .. Len(q) : Append(q, t)[i] = q[i]
           /\ Append(q, t)[Len(q) + 1] = t
BY SMTT(60)

-----------------------------------------------------------------------------
(* The registry record *)

\* What holds of a registry record at any time: its type and the agreement of
\* its indexes, snapshots and expiration queue.
Sound(r) ==
    /\ r \in RegistryState
    /\ InverseIndexes(r)
    /\ SnapshotsReserved(r)
    /\ QueueHoldsFinished(r)
    /\ QueueOrdered(r)

\* A proof about a record always works with the parts of Sound.
USE DEF RegistryState, InverseIndexes, SnapshotsReserved, QueueHoldsFinished,
        QueueOrdered, IsFinished, Snapshots

\* The popped tasks are removed from the three maps and from the queue, so what
\* is left of a sound record is sound.
LEMMA PurgedSound ==
    ASSUME NEW r, Sound(r), NEW n \in 0 .. Len(r.expirations), now \in Nat
    PROVE  Sound(Purged(r, n))
<1> DEFINE q == r.expirations
           gone == {q[i] : i \in 1 .. n}
           p == Purged(r, n)
<1>1. q \in Seq(Tasks) /\ Len(q) \in Nat /\ n \in Nat /\ n <= Len(q)
  <2>1. q \in Seq(Tasks)
    BY DEF Sound
  <2> HIDE DEF q
  <2>2. n \in 0 .. Len(q)
    BY DEF q
  <2> QED BY SMTT(60), <2>1, <2>2
<1>2. \A i \in 1 .. Len(q) : q[i] \in Tasks
  BY <1>1, QueueParts
<1>3. /\ p.expirations \in Seq(Tasks)
      /\ Len(p.expirations) = Len(q) - n
      /\ \A i \in 1 .. Len(q) - n : p.expirations[i] = q[n + i]
  <2>1. p.expirations = SubSeq(q, n + 1, Len(q))
    BY DEF Purged
  <2>2. n \in 0 .. Len(q)
    OBVIOUS
  <2> HIDE DEF q, p
  <2> QED BY <1>1, <2>1, <2>2, QueueTail
<1>4. gone \subseteq Tasks
  BY SMTT(60), <1>1, <1>2
<1>5. /\ p.requests = [k \in Keys |-> IF \E t \in gone : r.taskRequests[t] = k
                                      THEN NoTask ELSE r.requests[k]]
      /\ p.taskRequests = [t \in Tasks |-> IF t \in gone THEN NoKey ELSE r.taskRequests[t]]
      /\ p.snapshot = [t \in Tasks |-> IF t \in gone THEN "NONE" ELSE r.snapshot[t]]
      /\ p.finishedAt = [t \in Tasks |-> IF t \in gone THEN 0 ELSE r.finishedAt[t]]
  BY DEF Purged
<1>6. p \in RegistryState
  BY <1>3, <1>5 DEF Sound, Purged
<1>7. ASSUME NEW i \in 1 .. Len(q), i > n, q[i] \in gone
      PROVE  FALSE
  <2>1. PICK j \in 1 .. n : q[j] = q[i]
    BY <1>7
  <2>2. j \in 1 .. Len(q) /\ j # i
    BY SMTT(60), <1>1, <1>7
  <2>3. \A a, b \in 1 .. Len(q) : q[a] = q[b] => a = b
    BY DEF Sound
  <2> QED BY <2>1, <2>2, <2>3
<1>8. \A t \in gone : r.taskRequests[t] = KeyOf[t] /\ r.requests[KeyOf[t]] = t
  <2> SUFFICES ASSUME NEW t \in gone PROVE r.taskRequests[t] = KeyOf[t] /\ r.requests[KeyOf[t]] = t
    OBVIOUS
  <2>1. PICK i \in 1 .. n : q[i] = t
    OBVIOUS
  <2>2. i \in 1 .. Len(q)
    BY SMTT(60), <1>1
  <2>3. \A j \in 1 .. Len(q) : IsFinished(r, q[j])
    BY DEF Sound
  <2>4. t \in Tasks /\ IsFinished(r, t)
    BY <2>1, <2>2, <2>3, <1>2
  <2>5. KeyOf[t] \in Keys /\ KeyOf[t] # NoKey
    BY <2>4, RequestAssumption, NoKeyAssumption
  <2> QED BY <2>4, <2>5 DEF Sound
<1> HIDE DEF gone, p, q
<1>9. InverseIndexes(p)
  <2>1. ASSUME NEW k \in Keys, p.requests[k] # NoTask
        PROVE  KeyOf[p.requests[k]] = k /\ p.taskRequests[p.requests[k]] = k
    <3>1. p.requests[k] = r.requests[k] /\ ~\E t \in gone : r.taskRequests[t] = k
      BY <1>5, <2>1
    <3>2. r.requests[k] \in Tasks /\ KeyOf[r.requests[k]] = k /\ r.taskRequests[r.requests[k]] = k
      BY SMTT(60), <2>1, <3>1 DEF Sound
    <3> QED BY SMTT(60), <1>5, <3>1, <3>2
  <2>2. ASSUME NEW t \in Tasks, p.taskRequests[t] # NoKey
        PROVE  p.taskRequests[t] = KeyOf[t] /\ p.requests[p.taskRequests[t]] = t
    <3>1. t \notin gone /\ p.taskRequests[t] = r.taskRequests[t]
      BY <1>5, <2>2
    <3>2. r.taskRequests[t] = KeyOf[t] /\ r.requests[KeyOf[t]] = t /\ KeyOf[t] \in Keys
      BY <2>2, <3>1, RequestAssumption DEF Sound
    <3>3. ~\E u \in gone : r.taskRequests[u] = KeyOf[t]
      BY <1>8, <3>1, <3>2
    <3> QED BY SMTT(60), <1>5, <3>1, <3>2, <3>3
  <2> QED BY <2>1, <2>2
<1>10. SnapshotsReserved(p)
  BY SMTT(60), <1>5 DEF Sound
<1>11. QueueHoldsFinished(p)
  <2>1. ASSUME NEW i \in 1 .. Len(p.expirations)
        PROVE  /\ n + i \in 1 .. Len(q)
               /\ p.expirations[i] = q[n + i]
               /\ q[n + i] \in Tasks \ gone
    BY SMTT(60), <1>1, <1>2, <1>3, <1>7
  <2>2. ASSUME NEW i \in 1 .. Len(p.expirations)
        PROVE  IsFinished(p, p.expirations[i])
    <3>1. IsFinished(r, q[n + i])
      BY <2>1 DEF Sound, q
    <3> QED BY SMTT(60), <2>1, <3>1, <1>5
  <2>3. \A i, j \in 1 .. Len(p.expirations) : p.expirations[i] = p.expirations[j] => i = j
    <3> SUFFICES ASSUME NEW i \in 1 .. Len(p.expirations), NEW j \in 1 .. Len(p.expirations),
                        p.expirations[i] = p.expirations[j]
                 PROVE  i = j
      OBVIOUS
    <3>1. q[n + i] = q[n + j] /\ n + i \in 1 .. Len(q) /\ n + j \in 1 .. Len(q)
      BY <2>1
    <3>2. n + i = n + j
      BY <3>1 DEF Sound, q
    <3> QED BY SMTT(60), <3>2, <1>1, <1>3
  <2>4. ASSUME NEW t \in Tasks, IsFinished(p, t)
        PROVE  \E i \in 1 .. Len(p.expirations) : p.expirations[i] = t
    <3>1. t \notin gone /\ IsFinished(r, t)
      BY <1>5, <2>4
    <3>2. PICK j \in 1 .. Len(q) : q[j] = t
      BY <3>1 DEF Sound, q
    <3>3. j > n
      BY SMTT(60), <3>1, <3>2, <1>1 DEF gone
    <3>4. j - n \in 1 .. Len(p.expirations) /\ p.expirations[j - n] = q[n + (j - n)]
      BY SMTT(60), <3>2, <3>3, <1>1, <1>3
    <3> QED BY SMTT(60), <3>2, <3>4, <1>1
  <2> QED BY <2>2, <2>3, <2>4
<1>12. QueueOrdered(p)
  <2>1. \A t \in Tasks : p.finishedAt[t] <= now
    BY SMTT(60), <1>5 DEF Sound
  <2>2. ASSUME NEW i \in 1 .. Len(p.expirations), NEW j \in 1 .. Len(p.expirations), i < j
        PROVE  p.finishedAt[p.expirations[i]] <= p.finishedAt[p.expirations[j]]
    <3>1. /\ n + i \in 1 .. Len(q) /\ n + j \in 1 .. Len(q) /\ n + i < n + j
          /\ p.expirations[i] = q[n + i] /\ p.expirations[j] = q[n + j]
      BY SMTT(60), <1>1, <1>3, <2>2
    <3>2. q[n + i] \in Tasks \ gone /\ q[n + j] \in Tasks \ gone
      BY SMTT(60), <3>1, <1>1, <1>2, <1>3, <1>7, <2>2
    <3>3. r.finishedAt[q[n + i]] <= r.finishedAt[q[n + j]]
      BY <3>1 DEF Sound, q
    <3> QED BY SMTT(60), <3>1, <3>2, <3>3, <1>5
  <2> QED BY <2>1, <2>2
<1> QED BY <1>6, <1>9, <1>10, <1>11, <1>12 DEF Sound, p

\* What purge_expired leaves is sound, and it is a purge of some prefix.
LEMMA AfterPurgeSound ==
    ASSUME NEW r, Sound(r), now \in Nat, NEW p \in AfterPurge(r)
    PROVE  Sound(p)
<1>1. PICK n \in PurgePoints(r) : p = Purged(r, n)
  BY DEF AfterPurge
<1>2. n \in 0 .. Len(r.expirations)
  BY DEF PurgePoints
<1> QED BY <1>1, <1>2, PurgedSound

\* reserve_submit_with adds the same pair to both indexes.
LEMMA ReservedSound ==
    ASSUME NEW r, Sound(r), NEW t \in Tasks, CanReserve(r, t)
    PROVE  Sound(Reserved(r, t))
<1> DEFINE p == Reserved(r, t)
<1>1. /\ p.requests = [r.requests EXCEPT ![KeyOf[t]] = t]
      /\ p.taskRequests = [r.taskRequests EXCEPT ![t] = KeyOf[t]]
      /\ p.snapshot = r.snapshot /\ p.finishedAt = r.finishedAt
      /\ p.expirations = r.expirations
  BY DEF Reserved, Sound
<1>2. p \in RegistryState
  BY RequestAssumption DEF Reserved, Sound
<1>3. KeyOf[t] \in Keys /\ KeyOf[t] # NoKey /\ t # NoTask
  BY RequestAssumption, NoKeyAssumption, TaskAssumption
<1>4. r.requests[KeyOf[t]] = NoTask /\ r.taskRequests[t] = NoKey
  BY DEF CanReserve, HasExisting
<1> HIDE DEF p
<1>5. InverseIndexes(p)
  <2>1. ASSUME NEW k \in Keys, p.requests[k] # NoTask
        PROVE  KeyOf[p.requests[k]] = k /\ p.taskRequests[p.requests[k]] = k
    <3>1. CASE k = KeyOf[t]
      BY SMTT(60), <1>1, <1>3, <3>1 DEF Sound
    <3>2. CASE k # KeyOf[t]
      <4>1. p.requests[k] = r.requests[k] /\ r.requests[k] \in Tasks /\ r.requests[k] # t
        BY SMTT(60), <1>1, <1>3, <2>1, <3>2 DEF Sound
      <4> QED BY SMTT(60), <1>1, <2>1, <4>1 DEF Sound
    <3> QED BY <3>1, <3>2
  <2>2. ASSUME NEW u \in Tasks, p.taskRequests[u] # NoKey
        PROVE  p.taskRequests[u] = KeyOf[u] /\ p.requests[p.taskRequests[u]] = u
    <3>1. CASE u = t
      BY <1>1, <1>3, <3>1 DEF Sound
    <3>2. CASE u # t
      <4>1. /\ p.taskRequests[u] = r.taskRequests[u] /\ r.taskRequests[u] = KeyOf[u]
            /\ r.requests[KeyOf[u]] = u /\ u # NoTask
        BY SMTT(60), <1>1, <2>2, <3>2, TaskAssumption DEF Sound
      <4>2. KeyOf[u] # KeyOf[t]
        BY <1>4, <4>1
      <4> QED BY SMTT(60), <1>1, <4>1, <4>2, RequestAssumption DEF Sound
    <3> QED BY <3>1, <3>2
  <2> QED BY <2>1, <2>2
<1>6. SnapshotsReserved(p)
  BY SMTT(60), <1>1, <1>3, <1>4 DEF Sound
<1>7. QueueHoldsFinished(p) /\ QueueOrdered(p)
  BY SMTT(60), <1>1 DEF Sound
<1> QED BY <1>2, <1>5, <1>6, <1>7 DEF Sound, p

\* publish_running stores a snapshot for an owner that has none.
LEMMA WithRunningSound ==
    ASSUME NEW r, Sound(r), NEW t \in Tasks, CanPublishRunning(r, t)
    PROVE  Sound(WithRunning(r, t))
<1> DEFINE p == WithRunning(r, t)
<1>1. /\ p.snapshot = [r.snapshot EXCEPT ![t] = "RUNNING"]
      /\ p.requests = r.requests /\ p.taskRequests = r.taskRequests
      /\ p.finishedAt = r.finishedAt /\ p.expirations = r.expirations
  BY DEF WithRunning, Sound
<1>2. p \in RegistryState
  BY DEF WithRunning, Sound
<1>3. /\ KeyOf[t] \in Keys /\ r.requests[KeyOf[t]] = t /\ t # NoTask
      /\ r.snapshot[t] = "NONE"
  BY RequestAssumption, TaskAssumption DEF CanPublishRunning, verify_owner
<1>4. r.taskRequests[t] = KeyOf[t]
  BY SMTT(60), <1>3 DEF Sound
<1>5. \A i \in 1 .. Len(r.expirations) : r.expirations[i] # t
  BY <1>3 DEF Sound
<1>6. \A u \in Tasks : IsFinished(p, u) <=> IsFinished(r, u)
  BY SMTT(60), <1>1, <1>3 DEF Sound
<1>7. \A i \in 1 .. Len(r.expirations) : r.expirations[i] \in Tasks
  BY QueueParts DEF Sound
<1> HIDE DEF p
<1>8. InverseIndexes(p) /\ SnapshotsReserved(p)
  BY SMTT(60), <1>1, <1>4 DEF Sound
<1>9. QueueHoldsFinished(p)
  BY SMTT(60), <1>1, <1>6, <1>7 DEF Sound
<1>10. QueueOrdered(p)
  BY <1>1 DEF Sound
<1> QED BY <1>2, <1>8, <1>9, <1>10 DEF Sound, p

\* finish_snapshot queues a task that was not queued, at the latest time so far.
LEMMA WithFinishedSound ==
    ASSUME NEW r, Sound(r), NEW t \in Tasks, CanFinish(r, t), now \in Nat
    PROVE  Sound(WithFinished(r, t))
<1> DEFINE p == WithFinished(r, t)
           q == r.expirations
<1>1. /\ p.snapshot = [r.snapshot EXCEPT ![t] = IF @ = "RUNNING" THEN "FINISHED"
                                                ELSE "START_FAILED"]
      /\ p.finishedAt = [r.finishedAt EXCEPT ![t] = now]
      /\ p.expirations = Append(q, t)
      /\ p.requests = r.requests /\ p.taskRequests = r.taskRequests
  BY DEF WithFinished, Sound
<1>2. q \in Seq(Tasks) /\ Len(q) \in Nat /\ \A i \in 1 .. Len(q) : q[i] \in Tasks
  BY QueueParts DEF Sound
<1>3. /\ Append(q, t) \in Seq(Tasks)
      /\ Len(Append(q, t)) = Len(q) + 1
      /\ \A i \in 1 .. Len(q) : Append(q, t)[i] = q[i]
      /\ Append(q, t)[Len(q) + 1] = t
  <2> HIDE DEF q
  <2> QED BY <1>2, QueueAppend
<1>4. p \in RegistryState
  BY <1>3 DEF WithFinished, Sound
<1>5. /\ KeyOf[t] \in Keys /\ r.requests[KeyOf[t]] = t /\ t # NoTask
      /\ ~IsFinished(r, t)
  BY RequestAssumption, TaskAssumption DEF CanFinish, verify_owner
<1>6. r.taskRequests[t] = KeyOf[t]
  BY SMTT(60), <1>5 DEF Sound
<1>7. \A i \in 1 .. Len(q) : q[i] # t
  BY <1>5 DEF Sound
<1>8. IsFinished(p, t) /\ \A u \in Tasks \ {t} : IsFinished(p, u) <=> IsFinished(r, u)
  BY SMTT(60), <1>1 DEF Sound
<1>9. InverseIndexes(p) /\ SnapshotsReserved(p)
  <2> HIDE DEF p
  <2> QED BY SMTT(60), <1>1, <1>6 DEF Sound
<1> HIDE DEF p, q
<1>10. ASSUME NEW i \in 1 .. Len(p.expirations)
       PROVE  \/ i \in 1 .. Len(q) /\ p.expirations[i] = q[i] /\ q[i] \in Tasks \ {t}
              \/ i = Len(q) + 1 /\ p.expirations[i] = t
  BY SMTT(60), <1>1, <1>2, <1>3, <1>7
<1>11. QueueHoldsFinished(p)
  <2>1. \A i \in 1 .. Len(p.expirations) : IsFinished(p, p.expirations[i])
    BY <1>8, <1>10 DEF Sound, q
  <2>2. \A i, j \in 1 .. Len(p.expirations) : p.expirations[i] = p.expirations[j] => i = j
    <3> SUFFICES ASSUME NEW i \in 1 .. Len(p.expirations),
                        NEW j \in 1 .. Len(p.expirations),
                        p.expirations[i] = p.expirations[j]
                 PROVE  i = j
      OBVIOUS
    <3>1. \A a, b \in 1 .. Len(q) : q[a] = q[b] => a = b
      BY DEF Sound, q
    <3>2. \/ i \in 1 .. Len(q) /\ p.expirations[i] = q[i] /\ q[i] \in Tasks \ {t}
          \/ i = Len(q) + 1 /\ p.expirations[i] = t
      BY <1>10
    <3>3. \/ j \in 1 .. Len(q) /\ p.expirations[j] = q[j] /\ q[j] \in Tasks \ {t}
          \/ j = Len(q) + 1 /\ p.expirations[j] = t
      BY <1>10
    <3> QED BY <3>1, <3>2, <3>3
  <2>3. ASSUME NEW u \in Tasks, IsFinished(p, u)
        PROVE  \E i \in 1 .. Len(p.expirations) : p.expirations[i] = u
    <3>1. CASE u = t
      <4>1. Len(q) + 1 \in 1 .. Len(p.expirations)
        BY SMTT(60), <1>1, <1>2, <1>3
      <4> QED BY <1>1, <1>3, <3>1, <4>1
    <3>2. CASE u # t
      <4>1. PICK i \in 1 .. Len(q) : q[i] = u
        BY <1>8, <2>3, <3>2 DEF Sound, q
      <4>2. i \in 1 .. Len(p.expirations) /\ p.expirations[i] = q[i]
        BY SMTT(60), <1>1, <1>2, <1>3, <4>1
      <4> QED BY <4>1, <4>2
    <3> QED BY <3>1, <3>2
  <2> QED BY <2>1, <2>2, <2>3
<1>12. QueueOrdered(p)
  <2>1. \A u \in Tasks : p.finishedAt[u] <= now
    BY SMTT(60), <1>1 DEF Sound
  <2>2. ASSUME NEW i \in 1 .. Len(p.expirations), NEW j \in 1 .. Len(p.expirations), i < j
        PROVE  p.finishedAt[p.expirations[i]] <= p.finishedAt[p.expirations[j]]
    <3>1. i \in 1 .. Len(q) /\ p.expirations[i] = q[i] /\ q[i] \in Tasks \ {t}
      BY SMTT(60), <1>1, <1>2, <1>3, <1>10, <2>2
    <3>2. CASE j \in 1 .. Len(q) /\ p.expirations[j] = q[j] /\ q[j] \in Tasks \ {t}
      <4>1. r.finishedAt[q[i]] <= r.finishedAt[q[j]]
        BY <2>2, <3>1, <3>2 DEF Sound, q
      <4> QED BY SMTT(60), <1>1, <3>1, <3>2, <4>1 DEF Sound
    <3>3. CASE p.expirations[j] = t
      <4>1. p.finishedAt[t] = now
        BY SMTT(60), <1>1 DEF Sound
      <4> QED BY <2>1, <3>1, <3>3, <4>1
    <3> QED BY <1>10, <3>2, <3>3
  <2> QED BY <2>1, <2>2
<1> QED BY <1>4, <1>9, <1>11, <1>12 DEF Sound, p

\* release_failed_owner removes the pair from both indexes, or nothing.
LEMMA ReleasedSound ==
    ASSUME NEW r, Sound(r), NEW t \in Tasks, verify_owner(r, t)
    PROVE  Sound(Released(r, t))
<1>1. CASE r.snapshot[t] # "NONE"
  BY <1>1 DEF Released
<1>2. CASE r.snapshot[t] = "NONE"
  <2> DEFINE p == Released(r, t)
  <2>1. /\ p.requests = [r.requests EXCEPT ![KeyOf[t]] = NoTask]
        /\ p.taskRequests = [r.taskRequests EXCEPT ![t] = NoKey]
        /\ p.snapshot = r.snapshot /\ p.finishedAt = r.finishedAt
        /\ p.expirations = r.expirations
    BY <1>2 DEF Released, Sound
  <2>2. p \in RegistryState
    BY <1>2 DEF Released, Sound
  <2>3. KeyOf[t] \in Keys /\ KeyOf[t] # NoKey /\ t # NoTask /\ r.requests[KeyOf[t]] = t
    BY RequestAssumption, NoKeyAssumption, TaskAssumption DEF verify_owner
  <2>4. r.taskRequests[t] = KeyOf[t]
    BY SMTT(60), <2>3 DEF Sound
  <2> HIDE DEF p
  <2>5. InverseIndexes(p)
    BY SMTT(60), <2>1, <2>3, <2>4 DEF Sound
  <2>6. SnapshotsReserved(p)
    BY <1>2, <2>1 DEF Sound
  <2>7. QueueHoldsFinished(p) /\ QueueOrdered(p)
    BY SMTT(60), <2>1 DEF Sound
  <2> QED BY <2>2, <2>5, <2>6, <2>7 DEF Sound, p
<1> QED BY <1>1, <1>2

-----------------------------------------------------------------------------
(* The invariant *)

Inv == Sound(registry) /\ now \in 0 .. MaxClock

LEMMA InvInit == RegistryInit => Inv
<1> SUFFICES ASSUME RegistryInit PROVE Inv
  OBVIOUS
<1>1. registry.expirations = <<>> /\ Len(registry.expirations) = 0
  BY DEF RegistryInit, InitialRegistry
<1>2. registry \in RegistryState
  BY SMTT(60) DEF RegistryInit, InitialRegistry
<1>3. InverseIndexes(registry) /\ SnapshotsReserved(registry) /\ QueueHoldsFinished(registry)
  BY SMTT(60), <1>1 DEF RegistryInit, InitialRegistry
<1>4. QueueOrdered(registry)
  BY SMTT(60), <1>1 DEF RegistryInit, InitialRegistry
<1>5. now \in 0 .. MaxClock
  BY SMTT(60), RegistryBounds DEF RegistryInit
<1> QED BY <1>2, <1>3, <1>4, <1>5 DEF Inv, Sound

LEMMA InvNext == Inv /\ [RegistryNext]_registryVars => Inv'
<1> SUFFICES ASSUME Inv, [RegistryNext]_registryVars PROVE Inv'
  OBVIOUS
<1>1. Sound(registry) /\ now \in Nat /\ now \in 0 .. MaxClock
  BY SMTT(60), RegistryBounds DEF Inv
<1>2. ASSUME UNCHANGED now, NEW r, Sound(r), registry' = r
      PROVE  Inv'
  BY <1>1, <1>2 DEF Inv, Sound
<1>3. ASSUME NEW t \in Tasks, ReserveSubmit(t)
      PROVE  Inv'
  <2>1. PICK r \in AfterPurge(registry) : CanReserve(r, t) /\ registry' = Reserved(r, t)
    BY <1>3 DEF ReserveSubmit
  <2>2. Sound(Reserved(r, t))
    BY <1>1, <2>1, AfterPurgeSound, ReservedSound
  <2> QED BY <1>2, <1>3, <2>1, <2>2 DEF ReserveSubmit
<1>4. ASSUME NEW t \in Tasks, PublishRunning(t)
      PROVE  Inv'
  <2>1. PICK r \in AfterPurge(registry) :
           CanPublishRunning(r, t) /\ registry' = WithRunning(r, t)
    BY <1>4 DEF PublishRunning
  <2>2. Sound(WithRunning(r, t))
    BY <1>1, <2>1, AfterPurgeSound, WithRunningSound
  <2> QED BY <1>2, <1>4, <2>1, <2>2 DEF PublishRunning
<1>5. ASSUME NEW t \in Tasks, FinishSnapshot(t)
      PROVE  Inv'
  <2>1. PICK r \in AfterPurge(registry) : CanFinish(r, t) /\ registry' = WithFinished(r, t)
    BY <1>5 DEF FinishSnapshot
  <2>2. Sound(WithFinished(r, t))
    BY <1>1, <2>1, AfterPurgeSound, WithFinishedSound
  <2> QED BY <1>2, <1>5, <2>1, <2>2 DEF FinishSnapshot
<1>6. ASSUME NEW t \in Tasks, ReleaseFailedOwner(t)
      PROVE  Inv'
  <2>1. PICK r \in AfterPurge(registry) : verify_owner(r, t) /\ registry' = Released(r, t)
    BY <1>6 DEF ReleaseFailedOwner
  <2>2. Sound(Released(r, t))
    BY <1>1, <2>1, AfterPurgeSound, ReleasedSound
  <2> QED BY <1>2, <1>6, <2>1, <2>2 DEF ReleaseFailedOwner
<1>7. CASE Lookup
  <2>1. Sound(registry')
    BY <1>1, <1>7, AfterPurgeSound DEF Lookup
  <2> QED BY <1>2, <1>7, <2>1 DEF Lookup
<1>8. CASE Tick
  <2>1. now' \in 0 .. MaxClock /\ registry' = registry /\ now' = now + 1
    BY SMTT(60), <1>1, <1>8, RegistryBounds DEF Tick
  <2>2. QueueOrdered(registry)'
    BY SMTT(60), <1>1, <2>1 DEF Sound
  <2> QED BY <1>1, <2>1, <2>2 DEF Inv, Sound
<1>9. CASE UNCHANGED registryVars
  BY <1>1, <1>2, <1>9 DEF registryVars
<1> QED BY <1>3, <1>4, <1>5, <1>6, <1>7, <1>8, <1>9 DEF RegistryNext

LEMMA Invariance == RegistrySpec => []Inv
<1> QED BY InvInit, InvNext, PTL DEF RegistrySpec

\* The registry's state keeps its type whatever sequence of reserve_submit,
\* publish_running, finish_snapshot, release_failed_owner and lookups is called.
THEOREM RegistryTypeCorrect == RegistrySpec => []RegistryTypeOK
<1>1. Inv => RegistryTypeOK
  BY DEF Inv, Sound, RegistryTypeOK
<1> QED BY <1>1, Invariance, PTL

\* The two indexes, the stored snapshots and the expiration queue agree after
\* every operation, so the debug_asserts of purge_expired and of
\* release_failed_owner never fire.
THEOREM RegistryIsConsistent == RegistrySpec => []RegistryConsistent
<1>1. Inv => RegistryConsistent
  BY DEF Inv, Sound, RegistryConsistent
<1> QED BY <1>1, Invariance, PTL

-----------------------------------------------------------------------------
(* The retention of FINISHED results *)

\* purge_expired drops a FINISHED result only once it has expired, and leaves no
\* expired one behind: the queue is ordered, so a prefix holds them all.
LEMMA PurgeExact ==
    ASSUME NEW r, Sound(r), now \in Nat, NEW p \in AfterPurge(r), NEW t \in Tasks
    PROVE  /\ IsFinished(r, t) => p.snapshot[t] = r.snapshot[t] \/ Expired(r, t)
           /\ IsFinished(p, t) => now <= p.finishedAt[t] + Retention
<1>1. PICK n \in PurgePoints(r) : p = Purged(r, n)
  BY DEF AfterPurge
<1>2. /\ n \in 0 .. Len(r.expirations)
      /\ \A i \in 1 .. n : Expired(r, r.expirations[i])
      /\ n < Len(r.expirations) => ~Expired(r, r.expirations[n + 1])
  BY DEF PurgePoints
<1> DEFINE q == r.expirations
           gone == {q[i] : i \in 1 .. n}
<1>3. /\ p.snapshot[t] = IF t \in gone THEN "NONE" ELSE r.snapshot[t]
      /\ p.finishedAt[t] = IF t \in gone THEN 0 ELSE r.finishedAt[t]
  BY <1>1 DEF Purged
<1>4. Len(q) \in Nat /\ \A i \in 1 .. Len(q) : q[i] \in Tasks
  BY QueueParts DEF Sound
<1>5. t \in gone => Expired(r, t)
  BY <1>2
<1>6. ASSUME IsFinished(p, t)
      PROVE  now <= p.finishedAt[t] + Retention
  <2>1. t \notin gone /\ IsFinished(r, t) /\ p.finishedAt[t] = r.finishedAt[t]
    BY <1>3, <1>6
  <2>2. PICK i \in 1 .. Len(q) : q[i] = t
    BY <2>1 DEF Sound
  <2>3. i \notin 1 .. n
    BY <2>1, <2>2
  <2>4. /\ n + 1 \in 1 .. Len(q) /\ n < Len(q)
        /\ n + 1 < i \/ n + 1 = i
    BY SMTT(60), <1>2, <1>4, <2>2, <2>3
  <2>5. r.finishedAt[q[n + 1]] <= r.finishedAt[t]
    BY SMTT(60), <1>4, <2>2, <2>4 DEF Sound
  <2>6. now <= r.finishedAt[q[n + 1]] + Retention
    BY SMTT(60), <1>2, <1>4, <2>4, RegistryBounds DEF Expired, Sound
  <2>7. r.finishedAt[t] \in Nat /\ r.finishedAt[q[n + 1]] \in Nat
    BY <1>4, <2>4 DEF Sound
  <2> QED BY SMTT(60), <2>1, <2>5, <2>6, <2>7, RegistryBounds
<1> QED BY <1>3, <1>5, <1>6

\* What one operation may do to a FINISHED result, given what the purge left.
LEMMA StepKeepsFinished ==
    ASSUME Inv, RegistryNext, NEW t \in Tasks
    PROVE  /\ IsFinished(registry, t) =>
                 registry'.snapshot[t] = registry.snapshot[t] \/ Expired(registry, t)
           /\ now' = now /\ IsFinished(registry', t) =>
                 now <= registry'.finishedAt[t] + Retention
<1> DEFINE Kept(p) == /\ IsFinished(registry, t) =>
                            p.snapshot[t] = registry.snapshot[t] \/ Expired(registry, t)
                      /\ IsFinished(p, t) => now <= p.finishedAt[t] + Retention
<1>1. Sound(registry) /\ now \in Nat
  BY SMTT(60), RegistryBounds DEF Inv
<1>2. ASSUME NEW p \in AfterPurge(registry)
      PROVE  p \in RegistryState /\ Kept(p)
  <2>1. p \in RegistryState
    BY <1>1, AfterPurgeSound DEF Sound
  <2>2. Kept(p)
    BY <1>1, PurgeExact
  <2> QED BY <2>1, <2>2
<1>3. SUFFICES ASSUME ~Tick PROVE Kept(registry')
  BY SMTT(60), <1>1 DEF Tick
<1>4. ASSUME NEW u \in Tasks, ReserveSubmit(u) PROVE Kept(registry')
  BY <1>2, <1>4 DEF ReserveSubmit, Reserved
<1>5. ASSUME NEW u \in Tasks, PublishRunning(u) PROVE Kept(registry')
  <2>1. PICK p \in AfterPurge(registry) :
           p.snapshot[u] = "NONE" /\ registry' = WithRunning(p, u)
    BY <1>5 DEF PublishRunning, CanPublishRunning
  <2>2. /\ registry'.snapshot[t] = IF t = u THEN "RUNNING" ELSE p.snapshot[t]
        /\ registry'.finishedAt = p.finishedAt
    BY <1>2, <2>1 DEF WithRunning
  <2> QED BY <1>2, <2>1, <2>2
<1>6. ASSUME NEW u \in Tasks, FinishSnapshot(u) PROVE Kept(registry')
  <2>1. PICK p \in AfterPurge(registry) :
           ~IsFinished(p, u) /\ registry' = WithFinished(p, u)
    BY <1>6 DEF FinishSnapshot, CanFinish
  <2>2. CASE t = u
    <3>1. registry'.finishedAt[t] = now
      BY <1>2, <2>1, <2>2 DEF WithFinished
    <3>2. now <= registry'.finishedAt[t] + Retention
      BY SMTT(60), <1>1, <3>1, RegistryBounds
    <3>3. IsFinished(registry, t) => Expired(registry, t)
      BY <1>2, <2>1, <2>2
    <3> QED BY <3>2, <3>3
  <2>3. CASE t # u
    <3>1. registry'.snapshot[t] = p.snapshot[t] /\ registry'.finishedAt[t] = p.finishedAt[t]
      BY <1>2, <2>1, <2>3 DEF WithFinished
    <3> QED BY <1>2, <3>1
  <2> QED BY <2>2, <2>3
<1>7. ASSUME NEW u \in Tasks, ReleaseFailedOwner(u) PROVE Kept(registry')
  BY <1>2, <1>7 DEF ReleaseFailedOwner, Released
<1>8. CASE Lookup
  BY <1>2, <1>8 DEF Lookup
<1> QED BY <1>3, <1>4, <1>5, <1>6, <1>7, <1>8 DEF RegistryNext

\* No operation replaces a FINISHED result, and none drops it before its whole
\* retention has passed, for any retention.
THEOREM RegistryKeepsFinished == RegistrySpec => FinishedKept
<1>1. ASSUME Inv, [RegistryNext]_registryVars
      PROVE  [\A t \in Tasks : IsFinished(registry, t) =>
                 \/ registry'.snapshot[t] = registry.snapshot[t]
                 \/ now > registry.finishedAt[t] + Retention]_registryVars
  <2>1. CASE UNCHANGED registryVars
    BY <2>1 DEF registryVars
  <2>2. CASE RegistryNext
    BY <1>1, <2>2, StepKeepsFinished DEF Expired
  <2> QED BY <1>1, <2>1, <2>2
<1> QED BY <1>1, Invariance, PTL DEF RegistrySpec, FinishedKept

\* Popping a prefix of the expiration queue leaves no expired result behind.
THEOREM RegistryPurgesAll == RegistrySpec => PurgeComplete
<1>1. ASSUME Inv, [RegistryNext]_registryVars
      PROVE  [now' = now =>
                 \A t \in Tasks : IsFinished(registry', t) =>
                    now <= registry'.finishedAt[t] + Retention]_registryVars
  BY <1>1, StepKeepsFinished
<1> QED BY <1>1, Invariance, PTL DEF RegistrySpec, PurgeComplete
=============================================================================

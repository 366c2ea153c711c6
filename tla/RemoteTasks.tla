------------------------------ MODULE RemoteTasks ------------------------------
(***************************************************************************)
(* Profile tasks of one remote principal: the submissions of               *)
(* remote_tls/dispatcher.rs and the backend of remote_tls/task_backend.rs, *)
(* which hands a completed input to the task (transfer_inputs), returns it *)
(* when the submission fails and removes it when the task has ended.       *)
(*                                                                         *)
(* A worker is a request being handled or the completion monitor of a      *)
(* task.  Steps are the critical sections of the mutexes and the awaits    *)
(* between them.  The dispatcher's submissions lock is held over awaits.   *)
(* The local profile path (ProfileRuntime) is seen through the state of    *)
(* the raw task, the store (RemoteArtifacts) through the owner of each     *)
(* input.  The task that a submission starts is named by the submission.   *)
(***************************************************************************)
EXTENDS Naturals, Sequences, FiniteSets, SequencesExt

CONSTANTS
  Calls,        \* submitProfile requests
  Readers,      \* getProfileResult and cancelTask requests
  Keys,         \* clientRequestIds of the principal
  Inputs,       \* completed artifacts
  KeyOf,        \* submission -> key
  InputOf,      \* submission -> artifact; the rest of the payload is equal
  MaxFaults,    \* bound on I/O errors
  None

VARIABLES
  submissions,  \* key -> the submission whose record is stored, or None
  checked,      \* the keys with a record, by last_checked
  lock,         \* who holds the submissions lock
  input,        \* artifact -> "completed", "aborted", "cleaned" or the key of
                \* the ownership token it has been transferred to
  raw,          \* task -> "none", "running", "finished" or "evicted"
  remote_tasks, \* tasks known as remote
  input_owners, \* tasks with an ownership token
  finished,     \* tasks with a cached result
  cacheLock,    \* who holds the lock of `finished`
  published,    \* task -> number of managed outputs made of its output
  pc, on, then, \* worker -> step, task, and what follows a cleanup
  answer,       \* worker -> answer
  failstop, faults

dispatcher == <<submissions, checked, lock>>
backend == <<remote_tasks, input_owners, finished, cacheLock, published>>
worker == <<pc, on, then, answer>>
fault == <<failstop, faults>>
vars == <<submissions, checked, lock, input, raw, remote_tasks, input_owners, finished,
          cacheLock, published, pc, on, then, answer, failstop, faults>>

Submit(c) == <<"submit", c>>
Monitor(t) == <<"monitor", t>>
Read(g) == <<"read", g>>
Submits == {Submit(c) : c \in Calls}
Monitors == {Monitor(t) : t \in Calls}
Reads == {Read(g) : g \in Readers}
Workers == Submits \cup Monitors \cup Reads

\* namespaced_uuid(..., "remote-input-ownership") depends only on the key.
Token(t) == KeyOf[t]
Exists(t) == raw[t] \in {"running", "finished"}
Retained(t) == t \in remote_tasks /\ Exists(t)

Init ==
  /\ submissions = [k \in Keys |-> None]
  /\ checked = <<>>
  /\ lock = None /\ cacheLock = None
  /\ input = [a \in Inputs |-> "completed"]
  /\ raw = [t \in Calls |-> "none"]
  /\ remote_tasks = {} /\ input_owners = {} /\ finished = {}
  /\ published = [t \in Calls |-> 0]
  /\ pc = [w \in Workers |-> IF w \in Monitors THEN "none" ELSE "start"]
  /\ on = [w \in Workers |-> IF w \in Reads THEN None ELSE w[2]]
  /\ then = [w \in Workers |-> None]
  /\ answer = [w \in Workers |-> None]
  /\ failstop = FALSE /\ faults = 0

Goto(w, where) == pc' = [pc EXCEPT ![w] = where]
Done(w, what) == Goto(w, "end") /\ answer' = [answer EXCEPT ![w] = what]
Fault == faults < MaxFaults /\ faults' = faults + 1
activate_cleanup_failure == failstop' = TRUE

--------------------------------------------------------------------------------
(***************************************************************************)
(* Removal of the inputs of a task, in two steps: the owner entry is taken *)
(* under its mutex, then the store removes what the token owns.            *)
(***************************************************************************)
CleanThen(w, next) == Goto(w, "take") /\ then' = [then EXCEPT ![w] = next]

\* cleanup_remote_inputs, and the same two lines in cancel.
TakeOwner(w) ==
  /\ pc[w] = "take"
  /\ input_owners' = input_owners \ {on[w]}
  /\ Goto(w, IF on[w] \in input_owners THEN "clean" ELSE then[w])
  /\ UNCHANGED <<dispatcher, input, raw, remote_tasks, finished, cacheLock, published,
                 on, then, answer, fault>>

\* The records go first; a file that cannot be removed is a fail-stop.
cleanup_task_inputs(w) ==
  /\ pc[w] = "clean"
  /\ input' = [a \in Inputs |-> IF input[a] = Token(on[w]) THEN "cleaned" ELSE input[a]]
  /\ \/ Goto(w, then[w]) /\ UNCHANGED fault
     \/ /\ Fault /\ activate_cleanup_failure
        /\ Goto(w, IF then[w] \in {"cache", "cancelled"} THEN "failed" ELSE then[w])
  /\ UNCHANGED <<dispatcher, raw, backend, on, then, answer>>

\* forget_task: the remote entry, the cached result, then the inputs.
forget_task(w, next) ==
  /\ cacheLock = None
  /\ remote_tasks' = remote_tasks \ {on[w]}
  /\ finished' = finished \ {on[w]}
  /\ CleanThen(w, next)
  /\ UNCHANGED <<input_owners, cacheLock, published>>

--------------------------------------------------------------------------------
(***************************************************************************)
(* RemoteDispatcher::submit                                                *)
(***************************************************************************)
\* The records are checked in the order of last_checked, one per new key.
Locked(c) ==
  /\ LET k == KeyOf[c]
         candidate == IF submissions[k] # None THEN k
                      ELSE IF checked # <<>> THEN Head(checked) ELSE None
     IN IF candidate # None
        THEN /\ on' = [on EXCEPT ![Submit(c)] = submissions[candidate]]
             /\ Goto(Submit(c), "check")
        ELSE Goto(Submit(c), "inspect") /\ UNCHANGED on
  /\ UNCHANGED <<submissions, checked, input, raw, backend, then, answer, fault>>

\* Faulty: the lock does not serialise submissions.
Lock_shared(c) ==
  /\ pc[Submit(c)] = "start"
  /\ lock' = lock
  /\ Locked(c)

Lock(c) ==
  /\ pc[Submit(c)] = "start"
  /\ lock = None /\ lock' = c
  /\ Locked(c)

Refreshed(k) == Append(SelectSeq(checked, LAMBDA x : x # k), k)
Dropped(k) == SelectSeq(checked, LAMBDA x : x # k)

\* is_retained for the record of the same key, or for the oldest one.
is_retained(c) ==
  /\ pc[Submit(c)] = "check"
  /\ LET w == Submit(c)
         t == on[w]
         own == KeyOf[t] = KeyOf[c]
     IN \/ /\ Retained(t)
           /\ checked' = Refreshed(KeyOf[t])
           /\ IF own
              THEN /\ Done(w, IF InputOf[t] = InputOf[c] THEN <<"accepted", t>>
                              ELSE <<"conflict", None>>)
                   /\ lock' = None
              ELSE Goto(w, "inspect") /\ UNCHANGED <<lock, answer>>
           /\ UNCHANGED <<submissions, backend, then>>
        \/ /\ t \notin remote_tasks
           /\ Goto(w, "drop")
           /\ UNCHANGED <<dispatcher, backend, then, answer>>
        \/ /\ t \in remote_tasks /\ ~Exists(t)
           /\ forget_task(w, "drop")
           /\ UNCHANGED <<dispatcher, answer>>
  /\ UNCHANGED <<input, raw, on, fault>>

DropRecord(c) ==
  /\ pc[Submit(c)] = "drop"
  /\ LET k == KeyOf[on[Submit(c)]] IN
     /\ submissions' = [submissions EXCEPT ![k] = None]
     /\ checked' = Dropped(k)
  /\ Goto(Submit(c), "inspect")
  /\ UNCHANGED <<lock, input, raw, backend, on, then, answer, fault>>

--------------------------------------------------------------------------------
(***************************************************************************)
(* LocalProfileRemoteBackend::submit                                       *)
(***************************************************************************)
Refuse(c, what) == Done(Submit(c), <<what, None>>) /\ lock' = None

\* inspect_completed and prevalidate_remote_profile change nothing.
Inspect(c) ==
  /\ pc[Submit(c)] = "inspect"
  /\ on' = [on EXCEPT ![Submit(c)] = c]
  /\ \/ input[InputOf[c]] = "completed" /\ Goto(Submit(c), "transfer") /\ UNCHANGED <<lock, answer>>
     \/ Refuse(c, "refused")
  /\ UNCHANGED <<submissions, checked, input, raw, backend, then, fault>>

Transfer(c) ==
  /\ pc[Submit(c)] = "transfer"
  /\ IF input[InputOf[c]] = "completed"
     THEN /\ input' = [input EXCEPT ![InputOf[c]] = Token(c)]
          /\ Goto(Submit(c), "open")
          /\ UNCHANGED <<lock, answer>>
     ELSE Refuse(c, "refused") /\ UNCHANGED input
  /\ UNCHANGED <<submissions, checked, raw, backend, on, then, fault>>

open_managed_input(c) ==
  /\ pc[Submit(c)] = "open"
  /\ \/ input[InputOf[c]] = Token(c) /\ Goto(Submit(c), "local") /\ UNCHANGED faults
     \/ input[InputOf[c]] # Token(c) /\ Goto(Submit(c), "restore") /\ UNCHANGED faults
     \/ Fault /\ Goto(Submit(c), "restore")
  /\ UNCHANGED <<dispatcher, input, raw, backend, on, then, answer, failstop>>

\* Faulty: an internal error is reported for a task that runs.
handle_submit_remote_profile_lost(c) ==
  /\ pc[Submit(c)] = "local"
  /\ raw' = [raw EXCEPT ![c] = "running"]
  /\ remote_tasks' = remote_tasks \cup {c}
  /\ \/ Goto(Submit(c), "register") \/ Goto(Submit(c), "restore")
  /\ UNCHANGED <<dispatcher, input, input_owners, finished, cacheLock, published,
                 on, then, answer, fault>>

\* Accepted while running, a result at once, or refused (capacity, policy); an
\* internal error keeps the task registered as remote.
handle_submit_remote_profile(c) ==
  /\ pc[Submit(c)] = "local"
  /\ \/ /\ raw' = [raw EXCEPT ![c] = "running"]
        /\ remote_tasks' = remote_tasks \cup {c}
        /\ Goto(Submit(c), "register")
     \/ /\ raw' = [raw EXCEPT ![c] = "finished"]
        /\ remote_tasks' = remote_tasks \cup {c}
        /\ Goto(Submit(c), "result")
     \/ /\ remote_tasks' \in {remote_tasks, remote_tasks \cup {c}}
        /\ Goto(Submit(c), "restore")
        /\ UNCHANGED raw
  /\ UNCHANGED <<dispatcher, input, input_owners, finished, cacheLock, published,
                 on, then, answer, fault>>

\* The owner entry, then the completion monitor.
Register(c) ==
  /\ pc[Submit(c)] = "register"
  /\ input_owners' = input_owners \cup {c}
  /\ pc' = [pc EXCEPT ![Submit(c)] = "record", ![Monitor(c)] = "poll"]
  /\ UNCHANGED <<dispatcher, input, raw, remote_tasks, finished, cacheLock, published,
                 on, then, answer, fault>>

\* A result at once: no monitor, the submission itself converts it.
RegisterResult(c) ==
  /\ pc[Submit(c)] = "result"
  /\ input_owners' = input_owners \cup {c}
  /\ Goto(Submit(c), "convert")
  /\ UNCHANGED <<dispatcher, input, raw, remote_tasks, finished, cacheLock, published,
                 on, then, answer, fault>>

Record(c) ==
  /\ pc[Submit(c)] = "record"
  /\ submissions' = [submissions EXCEPT ![KeyOf[c]] = c]
  /\ checked' = Refreshed(KeyOf[c])
  /\ lock' = None
  /\ Done(Submit(c), <<"accepted", c>>)
  /\ UNCHANGED <<input, raw, backend, on, then, fault>>

\* The result of a submission could not be converted: no record is stored.
NoRecord(c) ==
  /\ pc[Submit(c)] = "failed" /\ cacheLock # Submit(c)
  /\ Refuse(c, "failed")
  /\ UNCHANGED <<submissions, checked, input, raw, backend, on, then, fault>>

\* All inputs of the token go back to the principal.
restore_task_inputs(c) ==
  /\ pc[Submit(c)] = "restore"
  /\ \/ /\ input' = [a \in Inputs |-> IF input[a] = Token(c) THEN "completed" ELSE input[a]]
        /\ UNCHANGED fault
     \/ Fault /\ activate_cleanup_failure /\ UNCHANGED input
  /\ Refuse(c, "refused")
  /\ UNCHANGED <<submissions, checked, raw, backend, on, then>>

--------------------------------------------------------------------------------
(***************************************************************************)
(* get, cancel and spawn_completion_monitor                                *)
(***************************************************************************)
Known == {t \in Calls : \E w \in Submits : answer[w] = <<"accepted", t>>}

get(g) ==
  /\ pc[Read(g)] = "start"
  /\ \E t \in Known :
       /\ on' = [on EXCEPT ![Read(g)] = t]
       /\ \/ /\ t \notin remote_tasks
             /\ Done(Read(g), <<"not_found", t>>)
             /\ UNCHANGED then
          \/ /\ t \in remote_tasks /\ raw[t] = "running"
             /\ Done(Read(g), <<"running", t>>)
             /\ UNCHANGED then
          \/ /\ t \in remote_tasks /\ raw[t] = "finished"
             /\ Goto(Read(g), "convert") /\ UNCHANGED <<then, answer>>
          \/ /\ t \in remote_tasks /\ ~Exists(t)
             /\ Goto(Read(g), "forget") /\ UNCHANGED <<then, answer>>
  /\ UNCHANGED <<dispatcher, input, raw, backend, fault>>

Forget(g) ==
  /\ pc[Read(g)] = "forget"
  /\ forget_task(Read(g), "gone")
  /\ UNCHANGED <<dispatcher, input, raw, on, answer, fault>>

\* A running task is stopped and FINISHED when handle_cancel returns.
cancel(g) ==
  /\ pc[Read(g)] = "start"
  /\ \E t \in Known :
       /\ on' = [on EXCEPT ![Read(g)] = t]
       /\ IF t \in remote_tasks /\ raw[t] = "running"
          THEN /\ raw' = [raw EXCEPT ![t] = "finished"]
               /\ CleanThen(Read(g), "cancelled")
               /\ UNCHANGED answer
          ELSE Done(Read(g), <<"not_cancelled", t>>) /\ UNCHANGED <<raw, then>>
  /\ UNCHANGED <<dispatcher, input, backend, fault>>

\* The answers that follow a cleanup.
ReadAnswer(g) ==
  /\ pc[Read(g)] \in {"cancelled", "gone", "failed"} /\ cacheLock # Read(g)
  /\ Done(Read(g), <<pc[Read(g)], on[Read(g)]>>)
  /\ UNCHANGED <<dispatcher, input, raw, backend, on, then, fault>>

MonitorPoll(t) ==
  /\ pc[Monitor(t)] = "poll" /\ raw[t] # "running"
  /\ IF raw[t] = "finished"
     THEN Goto(Monitor(t), "convert") /\ UNCHANGED then
     ELSE CleanThen(Monitor(t), "end")
  /\ UNCHANGED <<dispatcher, input, raw, backend, on, answer, fault>>

MonitorEnds(t) ==
  /\ pc[Monitor(t)] \in {"failed", "record"} /\ cacheLock # Monitor(t)
  /\ Goto(Monitor(t), "end")
  /\ UNCHANGED <<dispatcher, input, raw, backend, on, then, answer, fault>>

--------------------------------------------------------------------------------
(***************************************************************************)
(* convert_profile_result of a FINISHED result, under the lock of the cache *)
(***************************************************************************)
\* Where a worker goes on with a FINISHED response.
Converted(w) ==
  IF w \in Reads THEN Done(w, <<"finished", on[w]>>) ELSE Goto(w, "record") /\ UNCHANGED answer

\* The outputs are published, or their failure is a fail-stop; then the inputs.
Convert(w) ==
  /\ pc[w] = "convert" /\ cacheLock = None
  /\ \/ /\ on[w] \in finished
        /\ Converted(w)
        /\ UNCHANGED <<cacheLock, published, then, fault>>
     \/ /\ on[w] \notin finished
        /\ cacheLock' = w
        /\ \/ /\ published' = [published EXCEPT ![on[w]] = @ + 1]
              /\ CleanThen(w, "cache") /\ UNCHANGED fault
           \/ /\ Fault /\ activate_cleanup_failure
              /\ CleanThen(w, "failed") /\ UNCHANGED published
        /\ UNCHANGED answer
  /\ UNCHANGED <<dispatcher, input, raw, remote_tasks, input_owners, finished, on>>

Cache(w) ==
  /\ pc[w] = "cache" /\ cacheLock = w
  /\ finished' = finished \cup {on[w]}
  /\ cacheLock' = None
  /\ Converted(w)
  /\ UNCHANGED <<dispatcher, input, raw, remote_tasks, input_owners, published, on, then, fault>>

\* Faulty: an error return of a read keeps the lock of the cache.
Unlock_kept(w) ==
  /\ pc[w] = "failed" /\ cacheLock = w /\ w \in Monitors
  /\ cacheLock' = None
  /\ UNCHANGED <<dispatcher, input, raw, remote_tasks, input_owners, finished, published,
                 worker, fault>>

\* An error return releases the lock of the cache.
Unlock(w) ==
  /\ pc[w] = "failed" /\ cacheLock = w
  /\ cacheLock' = None
  /\ UNCHANGED <<dispatcher, input, raw, remote_tasks, input_owners, finished, published,
                 worker, fault>>

--------------------------------------------------------------------------------
(***************************************************************************)
(* The task ends, the registry evicts it, the principal aborts an input    *)
(***************************************************************************)
Finish(t) ==
  /\ raw[t] = "running"
  /\ raw' = [raw EXCEPT ![t] = "finished"]
  /\ UNCHANGED <<dispatcher, input, backend, worker, fault>>

Evict(t) ==
  /\ raw[t] = "finished"
  /\ raw' = [raw EXCEPT ![t] = "evicted"]
  /\ UNCHANGED <<dispatcher, input, backend, worker, fault>>

abort_upload(a) ==
  /\ input[a] = "completed"
  /\ input' = [input EXCEPT ![a] = "aborted"]
  /\ UNCHANGED <<dispatcher, raw, backend, worker, fault>>

SubmitStep(c) ==
  \/ Lock(c) \/ is_retained(c) \/ DropRecord(c) \/ Inspect(c) \/ Transfer(c)
  \/ open_managed_input(c) \/ handle_submit_remote_profile(c) \/ Register(c)
  \/ RegisterResult(c) \/ Record(c) \/ NoRecord(c) \/ restore_task_inputs(c)
ReadStep(g) == get(g) \/ Forget(g) \/ cancel(g) \/ ReadAnswer(g)
MonitorStep(t) == MonitorPoll(t) \/ MonitorEnds(t)
WorkerStep(w) ==
  TakeOwner(w) \/ cleanup_task_inputs(w) \/ Convert(w) \/ Cache(w) \/ Unlock(w)

Next ==
  \/ \E c \in Calls : SubmitStep(c) \/ MonitorStep(c) \/ Finish(c) \/ Evict(c)
  \/ \E g \in Readers : ReadStep(g)
  \/ \E w \in Workers : WorkerStep(w)
  \/ \E a \in Inputs : abort_upload(a)

Spec == Init /\ [][Next]_vars

\* Threads that are not blocked run on, a lock that is released again and again
\* is obtained (tokio's mutex is fair), and a task ends at its wall time.
FairSpec ==
  /\ Spec
  /\ \A c \in Calls : /\ SF_vars(Lock(c)) /\ WF_vars(SubmitStep(c))
                      /\ WF_vars(MonitorStep(c)) /\ WF_vars(Finish(c))
  /\ \A g \in Readers : WF_vars(Forget(g) \/ ReadAnswer(g))
  /\ \A w \in Workers : SF_vars(Convert(w)) /\ WF_vars(WorkerStep(w))

--------------------------------------------------------------------------------
Holding(c) == pc[Submit(c)] \in {"open", "local", "restore", "register", "result"}

\* Shapes; a record's task has its key; the order lists exactly the records.
TypeOK ==
  /\ \A k \in Keys : submissions[k] = None \/ KeyOf[submissions[k]] = k
  /\ ToSet(checked) = {k \in Keys : submissions[k] # None}
  /\ Len(checked) = Cardinality(ToSet(checked))
  /\ lock = None \/ pc[Submit(lock)] \notin {"start", "end"}
  /\ cacheLock = None \/ pc[cacheLock] \in {"take", "clean", "cache", "failed"}

\* The submissions lock is held over the awaits of a submission, so that a key
\* never has two executions that can be asked for.
OneTaskPerKey ==
  \A t, u \in Calls : KeyOf[t] = KeyOf[u] /\ Retained(t) /\ Retained(u) => t = u

\* A transferred input always has somebody who will return or remove it: the
\* submission that holds it, the owner entry of its task, or a cleanup under way.
InputHasOwner ==
  failstop \/ \A a \in Inputs : input[a] \in Keys =>
    \E c \in Calls : /\ KeyOf[c] = input[a]
                     /\ \/ Holding(c) \/ c \in input_owners
                        \/ \E w \in Workers : pc[w] = "clean" /\ on[w] = c

\* Two readers of a FINISHED result, and the monitor, make one managed output,
\* as long as the registry keeps the task.
OutputOnce == \A t \in Calls : raw[t] # "evicted" => published[t] <= 1

\* An input is removed only for a task that was started with it: a submission
\* that fails before acceptance leaves it reusable.
ConsumedByTask ==
  \A a \in Inputs : input[a] = "cleaned" =>
    \E c \in Calls : InputOf[c] = a /\ (raw[c] # "none" \/ pc[Submit(c)] # "end")

\* A completed input is single-use: at most one task starts with it.
SingleUse ==
  \A t, u \in Calls : InputOf[t] = InputOf[u] /\ raw[t] # "none" /\ raw[u] # "none" => t = u

\* A transferred input is removed or given back in the end, whether or not
\* anybody asks for the result.
InputReleased == \A a \in Inputs : input[a] \in Keys ~> (input[a] \notin Keys \/ failstop)

\* Every request is answered.
Answered == \A c \in Calls : <>(pc[Submit(c)] = "end")
================================================================================

----------------------------- MODULE ProfileRuntime -----------------------------
(***************************************************************************)
(* Protocol v2 profile requests: daemon/src/profile.rs with the handlers   *)
(* submitProfile and getProfileResult of daemon/src/handlers.rs.           *)
(*                                                                         *)
(* The runtime keeps two maps under two mutexes: requests (one entry per   *)
(* clientRequestId, Pending while its owner submits, then Accepted) and    *)
(* tasks.  Every critical section is a step, and so is every await.  The   *)
(* raw task path (TaskService) is seen through what the handlers use of    *)
(* it: the outcome of a submit and the snapshot of a task.                 *)
(*                                                                         *)
(* A call is one submitProfile request.  The task id its handler           *)
(* preallocates is named by the call.                                      *)
(***************************************************************************)
EXTENDS Naturals, FiniteSets

CONSTANTS
  Calls,        \* submitProfile requests, each handled once
  Gets,         \* getProfileResult requests
  RequestIds,   \* clientRequestIds
  IdOf, BodyOf, \* call -> its clientRequestId and its canonical payload
  None

VARIABLES
  requests,   \* LocalProfileRuntime.requests
  tasks,      \* LocalProfileRuntime.tasks: the ids in it
  terminal,   \* ProfileTaskRecord.terminal of each task
  ended,      \* how its process ended: with exit code zero or otherwise
  raw,        \* the raw task: its snapshot, as the registry shows it
  rawIds,     \* the raw registry's clientRequestId index
  pc,         \* where the handler of each call is
  on,         \* the task or the Notify a handler holds
  todo,       \* the ids prune_missing_tasks has still to look at
  obs,        \* the observation the submit of a call returned
  answer,     \* what each call was answered
  getPc, getOn, getAnswer

runtime == <<requests, tasks, terminal>>
core == <<raw, rawIds, ended>>
gets == <<getPc, getOn, getAnswer>>
calls == <<pc, on, todo, obs, answer>>
vars == <<requests, tasks, terminal, ended, raw, rawIds, pc, on, todo, obs, answer,
          getPc, getOn, getAnswer>>

\* None and "raw" are none of the values they stand beside.
ASSUME CallsAssumption ==
  /\ IdOf \in [Calls -> RequestIds]
  /\ None \notin Calls /\ "raw" \notin Calls /\ None # "raw"
  /\ None \notin {"succeeded", "outputFailed", "processFailed", "conflict"}
  /\ \A t \in Calls : None # <<"task", t>>
  /\ \A e \in {"invalid", "conflict", "notFound", "capacity", "failed"} : None # <<e, None>>

Free == [st |-> "free"]
Pending(c) == [st |-> "pending", body |-> BodyOf[c], ready |-> c]
Accepted(c) == [st |-> "accepted", body |-> BodyOf[c], task |-> c]

\* core.snapshot(t) is Some; the states a reader tells apart.
Exists(t) == raw[t] \in {"running", "finalized", "stuck", "finished"}
\* The snapshot says RUNNING until the execution has stored FINISHED; a task
\* whose outputs could not be finalized says so for ever.
ShowsRunning(t) == raw[t] \in {"running", "finalized", "stuck"}

Init ==
  /\ requests = [r \in RequestIds |-> Free]
  /\ tasks = {}
  /\ terminal = [t \in Calls |-> None]
  /\ ended = [t \in Calls |-> None]
  /\ raw = [t \in Calls |-> "none"]
  /\ rawIds = [r \in RequestIds |-> None]
  /\ pc = [c \in Calls |-> "validate"]
  /\ on = [c \in Calls |-> None]
  /\ todo = [c \in Calls |-> {}]
  /\ obs = [c \in Calls |-> None]
  /\ answer = [c \in Calls |-> None]
  /\ getPc = [g \in Gets |-> "idle"]
  /\ getOn = [g \in Gets |-> None]
  /\ getAnswer = [g \in Gets |-> None]

Said(error) == <<error, None>>
Goto(c, where) == pc' = [pc EXCEPT ![c] = where]
Answer(c, a) == Goto(c, "done") /\ answer' = [answer EXCEPT ![c] = a]

\* The envelope, the profile and its input, the deployment policy and the
\* environment, in this order; none of them touches the maps.
Validate(c) ==
  /\ pc[c] = "validate"
  /\ \/ Goto(c, "prune") /\ UNCHANGED answer
     \/ Answer(c, Said("invalid"))
  /\ UNCHANGED <<runtime, core, on, todo, obs, gets>>

(***************************************************************************)
(* prune_missing_tasks: read the ids, then per id look at the raw task and *)
(* discard_task, which removes from tasks and then from requests.  That a  *)
(* raw task is missing is final, so looking and removing are one step.     *)
(***************************************************************************)
PruneList(c) ==
  /\ pc[c] = "prune"
  /\ todo' = [todo EXCEPT ![c] = tasks]
  /\ Goto(c, IF tasks = {} THEN "reserve" ELSE "pruning")
  /\ UNCHANGED <<runtime, core, on, obs, answer, gets>>

PruneOne(c, t) ==
  /\ pc[c] = "pruning" /\ t \in todo[c]
  /\ todo' = [todo EXCEPT ![c] = @ \ {t}]
  /\ IF Exists(t)
     THEN /\ Goto(c, IF todo[c] = {t} THEN "reserve" ELSE "pruning")
          /\ UNCHANGED <<tasks, on>>
     ELSE /\ tasks' = tasks \ {t}
          /\ Goto(c, "pruneRequests")
          /\ on' = [on EXCEPT ![c] = t]
  /\ UNCHANGED <<requests, terminal, core, obs, answer, gets>>

\* The second half of discard_task: every request accepted as t goes.
WithoutTask(t) ==
  [r \in RequestIds |-> IF requests[r].st = "accepted" /\ requests[r].task = t
                        THEN Free ELSE requests[r]]

PruneRequests(c) ==
  /\ pc[c] = "pruneRequests"
  /\ requests' = WithoutTask(on[c])
  /\ on' = [on EXCEPT ![c] = None]
  /\ Goto(c, IF todo[c] = {} THEN "reserve" ELSE "pruning")
  /\ UNCHANGED <<tasks, terminal, core, todo, obs, answer, gets>>

(***************************************************************************)
(* reserve: one turn of its loop under the requests mutex.  A Pending      *)
(* entry of the same payload gives the caller its Notify, which it awaits  *)
(* only after the mutex is released: Listen is that later step.            *)
(***************************************************************************)
\* Faulty: a Pending entry is taken over instead of waited for.
reserve_overtakes(c) ==
  /\ pc[c] = "reserve"
  /\ LET entry == requests[IdOf[c]] IN
     \/ /\ entry.st # "accepted"
        /\ requests' = [requests EXCEPT ![IdOf[c]] = Pending(c)]
        /\ Goto(c, "owner") /\ UNCHANGED <<on, answer>>
     \/ /\ entry.st # "free" /\ entry.body # BodyOf[c]
        /\ Answer(c, Said("conflict")) /\ UNCHANGED <<requests, on>>
     \/ /\ entry.st = "accepted" /\ entry.body = BodyOf[c]
        /\ Goto(c, "existing") /\ on' = [on EXCEPT ![c] = entry.task]
        /\ UNCHANGED <<requests, answer>>
  /\ UNCHANGED <<tasks, terminal, core, todo, obs, gets>>

reserve(c) ==
  /\ pc[c] = "reserve"
  /\ LET entry == requests[IdOf[c]] IN
     \/ /\ entry.st = "free"
        /\ requests' = [requests EXCEPT ![IdOf[c]] = Pending(c)]
        /\ Goto(c, "owner") /\ UNCHANGED <<on, answer>>
     \/ /\ entry.st # "free" /\ entry.body # BodyOf[c]
        /\ Answer(c, Said("conflict")) /\ UNCHANGED <<requests, on>>
     \/ /\ entry.st = "pending" /\ entry.body = BodyOf[c]
        /\ Goto(c, "listen") /\ on' = [on EXCEPT ![c] = entry.ready]
        /\ UNCHANGED <<requests, answer>>
     \/ /\ entry.st = "accepted" /\ entry.body = BodyOf[c]
        /\ Goto(c, "existing") /\ on' = [on EXCEPT ![c] = entry.task]
        /\ UNCHANGED <<requests, answer>>
  /\ UNCHANGED <<tasks, terminal, core, todo, obs, gets>>

\* ready.notified().await registers the waiter; notify_waiters stores no
\* permit, so only a waiter that is registered is woken.
Listen(c) ==
  /\ pc[c] = "listen"
  /\ Goto(c, "waiting")
  /\ UNCHANGED <<runtime, core, on, todo, obs, answer, gets>>

Woken(o) == {c \in Calls : pc[c] = "waiting" /\ on[c] = o}
NotifyWaiters(o, next) ==
  pc' = [c \in Calls |-> IF c = o THEN next
                         ELSE IF c \in Woken(o) THEN "reserve" ELSE pc[c]]

(***************************************************************************)
(* existing_profile_response.                                              *)
(***************************************************************************)
\* Faulty: the retry is answered with the id preallocated for itself.
Existing_ownId(c) ==
  /\ pc[c] = "existing"
  /\ ShowsRunning(on[c]) /\ Answer(c, <<"task", c>>)
  /\ UNCHANGED <<runtime, core, on, todo, obs, gets>>

Existing(c) ==
  /\ pc[c] = "existing"
  /\ LET t == on[c] IN
     \/ ShowsRunning(t) /\ Answer(c, <<"task", t>>) /\ UNCHANGED tasks
     \/ raw[t] = "finished" /\ Goto(c, "terminal") /\ UNCHANGED <<answer, tasks>>
     \/ /\ ~ Exists(t)
        /\ tasks' = tasks \ {t}
        /\ Goto(c, "discardRequests") /\ UNCHANGED answer
  /\ UNCHANGED <<requests, terminal, core, on, todo, obs, gets>>

DiscardRequests(c) ==
  /\ pc[c] = "discardRequests"
  /\ requests' = WithoutTask(on[c])
  /\ Answer(c, Said("notFound"))
  /\ UNCHANGED <<tasks, terminal, core, on, todo, obs, gets>>

\* ProfileTaskRecord::snapshot of a finished task.  wait_for_terminal arms
\* its Notified before it looks, so it is an await of the terminal.
WaitForTerminal(c) ==
  /\ pc[c] = "terminal" /\ terminal[on[c]] # None
  /\ Answer(c, <<"task", on[c]>>)
  /\ UNCHANGED <<runtime, core, on, todo, obs, gets>>

(***************************************************************************)
(* The owner: the raw registry must not know the id, the input is staged,  *)
(* and the raw task path takes over.                                       *)
(***************************************************************************)
Refuse(c, why) == Goto(c, "release") /\ obs' = [obs EXCEPT ![c] = why]

CheckRawId(c) ==
  /\ pc[c] = "owner"
  /\ IF rawIds[IdOf[c]] # None THEN Refuse(c, "conflict")
     ELSE Goto(c, "stage") /\ UNCHANGED obs
  /\ UNCHANGED <<runtime, core, on, todo, answer, gets>>

stage(c) ==
  /\ pc[c] = "stage"
  /\ \/ Goto(c, "submit") /\ UNCHANGED obs
     \/ Refuse(c, "invalid")
  /\ UNCHANGED <<runtime, core, on, todo, answer, gets>>

\* submit_profile_validated: refused by the registry (the id is taken) or for
\* want of capacity, or reserved.
Submit(c) ==
  /\ pc[c] = "submit"
  /\ \/ rawIds[IdOf[c]] # None /\ Refuse(c, "conflict") /\ UNCHANGED core
     \/ rawIds[IdOf[c]] = None /\ Refuse(c, "capacity") /\ UNCHANGED core
     \/ /\ rawIds[IdOf[c]] = None
        /\ rawIds' = [rawIds EXCEPT ![IdOf[c]] = c]
        /\ raw' = [raw EXCEPT ![c] = "starting"]
        /\ Goto(c, "submitted") /\ UNCHANGED <<ended, obs>>
  /\ UNCHANGED <<runtime, on, todo, answer, gets>>

\* The observation of the started task: RUNNING, or a failure that either
\* frees the id or (cleanup uncertain) leaves it taken.
RawRunning(c) ==
  /\ raw[c] = "starting"
  /\ raw' = [raw EXCEPT ![c] = "running"]
  /\ obs' = [obs EXCEPT ![c] = "running"]
  /\ Goto(c, "accept")
  /\ UNCHANGED <<runtime, rawIds, ended, on, todo, answer, gets>>

RawFails(c) ==
  /\ raw[c] = "starting"
  /\ \/ /\ raw' = [raw EXCEPT ![c] = "none"]
        /\ rawIds' = [rawIds EXCEPT ![IdOf[c]] = None]
     \/ /\ raw' = [raw EXCEPT ![c] = "uncertain"]
        /\ UNCHANGED rawIds
  /\ Refuse(c, "failed")
  /\ UNCHANGED <<runtime, ended, on, todo, answer, gets>>

(***************************************************************************)
(* accept: requests, then tasks, then the waiters, in three steps.         *)
(***************************************************************************)
accept(c) ==
  /\ pc[c] = "accept"
  /\ requests' = [requests EXCEPT ![IdOf[c]] = Accepted(c)]
  /\ Goto(c, "acceptTask")
  /\ UNCHANGED <<tasks, terminal, core, on, todo, obs, answer, gets>>

AcceptTask(c) ==
  /\ pc[c] = "acceptTask"
  /\ tasks' = tasks \union {c}
  /\ Goto(c, "acceptNotify")
  /\ UNCHANGED <<requests, terminal, core, on, todo, obs, answer, gets>>

\* The owner is answered with its observation; one that saw the task FINISHED
\* already waits for the terminal.
AcceptNotify(c) ==
  /\ pc[c] = "acceptNotify"
  /\ \/ /\ obs[c] = "running"
        /\ NotifyWaiters(c, "done")
        /\ answer' = [answer EXCEPT ![c] = <<"task", c>>]
        /\ UNCHANGED on
     \/ /\ obs[c] = "finished"
        /\ NotifyWaiters(c, "terminal")
        /\ on' = [on EXCEPT ![c] = c]
        /\ UNCHANGED answer
  /\ UNCHANGED <<runtime, core, todo, obs, gets>>

(***************************************************************************)
(* release: the Pending entry goes, then the waiters are woken.            *)
(***************************************************************************)
release(c) ==
  /\ pc[c] = "release"
  /\ requests' = IF requests[IdOf[c]].st = "pending"
                 THEN [requests EXCEPT ![IdOf[c]] = Free] ELSE requests
  /\ Goto(c, "releaseNotify")
  /\ UNCHANGED <<tasks, terminal, core, on, todo, obs, answer, gets>>

ReleaseNotify(c) ==
  /\ pc[c] = "releaseNotify"
  /\ NotifyWaiters(c, "done")
  /\ answer' = [answer EXCEPT ![c] = Said(obs[c])]
  /\ UNCHANGED <<runtime, core, on, todo, obs, gets>>

(***************************************************************************)
(* The execution of a task: its outputs are finalized (the terminal is set *)
(* and announced) before FINISHED is stored; an artifact error instead     *)
(* leaves the task uncertain.  A task that never ran a program is FINISHED *)
(* without having been RUNNING.  Results expire; ids are then free again.  *)
(***************************************************************************)
Terminal(end, published) ==
  IF end # "zero" THEN "processFailed"
  ELSE IF published THEN "succeeded" ELSE "outputFailed"

finalize(t) ==
  /\ raw[t] = "running"
  /\ \E end \in {"zero", "other"} :
       /\ ended' = [ended EXCEPT ![t] = end]
       /\ \/ \E published \in BOOLEAN :
               /\ terminal' = [terminal EXCEPT ![t] = Terminal(end, published)]
               /\ raw' = [raw EXCEPT ![t] = "finalized"]
          \/ raw' = [raw EXCEPT ![t] = "stuck"] /\ UNCHANGED terminal
  /\ UNCHANGED <<requests, tasks, rawIds, calls, gets>>

StoreFinished(t) ==
  /\ raw[t] = "finalized"
  /\ raw' = [raw EXCEPT ![t] = "finished"]
  /\ UNCHANGED <<runtime, rawIds, ended, calls, gets>>

NeverRan(c) ==
  /\ raw[c] = "starting"
  /\ terminal' = [terminal EXCEPT ![c] = Terminal("other", FALSE)]
  /\ ended' = [ended EXCEPT ![c] = "other"]
  /\ raw' = [raw EXCEPT ![c] = "finished"]
  /\ obs' = [obs EXCEPT ![c] = "finished"]
  /\ Goto(c, "accept")
  /\ UNCHANGED <<requests, tasks, rawIds, on, todo, answer, gets>>

Expire(t) ==
  /\ raw[t] = "finished"
  /\ raw' = [raw EXCEPT ![t] = "expired"]
  /\ rawIds' = [rawIds EXCEPT ![IdOf[t]] = None]
  /\ UNCHANGED <<runtime, ended, calls, gets>>

\* A protocol v1 submitTask takes a clientRequestId of the shared namespace.
RawSubmit(r) ==
  /\ rawIds[r] = None
  /\ rawIds' = [rawIds EXCEPT ![r] = "raw"]
  /\ UNCHANGED <<runtime, raw, ended, calls, gets>>

(***************************************************************************)
(* handle_get_profile_result, for a task id some call was answered with.   *)
(***************************************************************************)
GetGoto(g, where) == getPc' = [getPc EXCEPT ![g] = where]
GetAnswer(g, a) == GetGoto(g, "done") /\ getAnswer' = [getAnswer EXCEPT ![g] = a]

GetTask(g, t) ==
  /\ getPc[g] = "idle"
  /\ \E c \in Calls : answer[c] = <<"task", t>>
  /\ getOn' = [getOn EXCEPT ![g] = t]
  /\ GetGoto(g, IF t \in tasks THEN "snapshot" ELSE "unknown")
  /\ UNCHANGED <<runtime, core, calls, getAnswer>>

GetUnknown(g) ==
  /\ getPc[g] = "unknown"
  /\ GetAnswer(g, IF Exists(getOn[g]) THEN "kindMismatch" ELSE "notFound")
  /\ UNCHANGED <<runtime, core, calls, getOn>>

GetSnapshot(g) ==
  /\ getPc[g] = "snapshot"
  /\ LET t == getOn[g] IN
     \/ ShowsRunning(t) /\ GetAnswer(g, "running") /\ UNCHANGED tasks
     \/ raw[t] = "finished" /\ GetGoto(g, "terminal") /\ UNCHANGED <<tasks, getAnswer>>
     \/ /\ ~ Exists(t)
        /\ tasks' = tasks \ {t}
        /\ GetGoto(g, "discard") /\ UNCHANGED getAnswer
  /\ UNCHANGED <<requests, terminal, core, calls, getOn>>

GetDiscard(g) ==
  /\ getPc[g] = "discard"
  /\ requests' = WithoutTask(getOn[g])
  /\ GetAnswer(g, "notFound")
  /\ UNCHANGED <<tasks, terminal, core, calls, getOn>>

GetTerminal(g) ==
  /\ getPc[g] = "terminal" /\ terminal[getOn[g]] # None
  /\ GetAnswer(g, terminal[getOn[g]])
  /\ UNCHANGED <<runtime, core, calls, getOn>>

--------------------------------------------------------------------------------
Step(c) ==
  \/ Validate(c) \/ PruneList(c) \/ PruneRequests(c) \/ (\E t \in Calls : PruneOne(c, t))
  \/ reserve(c) \/ Listen(c) \/ Existing(c) \/ DiscardRequests(c) \/ WaitForTerminal(c)
  \/ CheckRawId(c) \/ stage(c) \/ Submit(c)
  \/ accept(c) \/ AcceptTask(c) \/ AcceptNotify(c) \/ release(c) \/ ReleaseNotify(c)

Start(c) == RawRunning(c) \/ RawFails(c) \/ NeverRan(c)

GetStep(g) ==
  GetUnknown(g) \/ GetSnapshot(g) \/ GetDiscard(g) \/ GetTerminal(g)

Next ==
  \/ \E c \in Calls : Step(c) \/ Start(c) \/ finalize(c) \/ StoreFinished(c) \/ Expire(c)
  \/ \E r \in RequestIds : RawSubmit(r)
  \/ \E g \in Gets : GetStep(g) \/ \E t \in Calls : GetTask(g, t)

Spec == Init /\ [][Next]_vars

\* Handlers are tasks of a tokio runtime that polls every ready task, and an
\* execution's start is bounded by its own timeouts.
Fairness ==
  /\ \A c \in Calls : WF_vars(Step(c)) /\ WF_vars(Start(c))
  /\ \A g \in Gets : WF_vars(GetStep(g))

FairSpec == Spec /\ Fairness

--------------------------------------------------------------------------------
Retained(t) == raw[t] \in {"running", "finalized", "stuck", "finished"}
IdHolders(r) == {c \in Calls : IdOf[c] = r}

\* Shapes of the maps and of the handlers' state.
TypeOK ==
  /\ requests \in [RequestIds -> {Free} \union {Pending(c) : c \in Calls}
                                 \union {Accepted(c) : c \in Calls}]
  /\ tasks \subseteq Calls
  /\ \A r \in RequestIds : rawIds[r] \in {None, "raw"} \union IdHolders(r)
  /\ \A c \in Calls : (answer[c] # None) = (pc[c] = "done")

\* Idempotency: two calls of one clientRequestId that were both answered with
\* a task name the same task, unless one of the two tasks has expired in the
\* meantime.
IdempotentSubmit ==
  \A c, d \in Calls : \A t, u \in Calls :
    /\ IdOf[c] = IdOf[d]
    /\ answer[c] = <<"task", t>> /\ answer[d] = <<"task", u>>
    /\ t # u
    => raw[t] = "expired" \/ raw[u] = "expired"

\* The two maps agree on every task the registry still has, except while its
\* owner is between the two inserts of accept.
MapsAgree ==
  \A t \in Calls : Retained(t) =>
    /\ t \in tasks => requests[IdOf[t]] = Accepted(t)
    /\ requests[IdOf[t]] = Accepted(t) => t \in tasks \/ pc[t] = "acceptTask"

\* Whoever sees a profile task FINISHED finds its terminal set: the wait for
\* the terminal never sleeps.
TerminalBeforeFinished == \A t \in Calls : raw[t] = "finished" => terminal[t] # None

\* A client that is told its profile succeeded has a process that exited
\* with code zero, and keeps reading the same outcome.
SucceededHonest ==
  \A g \in Gets : getAnswer[g] = "succeeded" =>
    /\ ended[getOn[g]] = "zero"
    /\ terminal[getOn[g]] = "succeeded"

\* A call is refused as a conflict only if its clientRequestId was used for
\* another payload or for a raw command, or if an earlier attempt ended
\* uncertainly: the race of two identical calls never ends in a conflict.
ConflictHonest ==
  \A c \in Calls : answer[c] = Said("conflict") =>
    \/ \E d \in IdHolders(IdOf[c]) :
         BodyOf[d] # BodyOf[c]
         /\ pc[d] \notin {"validate", "prune", "pruning", "pruneRequests", "reserve"}
    \/ rawIds[IdOf[c]] = "raw"
    \/ \E d \in IdHolders(IdOf[c]) : raw[d] \in {"uncertain", "stuck"}

\* A task id that a call was answered with is a profile task to
\* getProfileResult for as long as the registry has it.
ToldMeansProfile == \A g \in Gets : getAnswer[g] # "kindMismatch"

\* Every result query is answered.
GetAnswered == \A g \in Gets : getPc[g] # "idle" ~> getPc[g] = "done"

\* Every submitProfile call is answered, also one that meets an identical
\* call in progress.
SubmitAnswered == \A c \in Calls : <>(pc[c] = "done")
================================================================================

---------------------------- MODULE TaskPromise ----------------------------
(***************************************************************************)
(* What taskcaged promises about a task, without saying how: the snapshot  *)
(* a client can look up, what is known of the task's processes, and        *)
(* whether the daemon still starts work (docs: FINISHED is published only  *)
(* after the whole process tree is confirmed gone; an uncertain cleanup    *)
(* stops the daemon).  TaskService implements this specification.          *)
(***************************************************************************)
EXTENDS TaskIds

CONSTANT KeyOf      \* the clientRequestId of each task

VARIABLES
    shown,          \* ABSENT, RUNNING, FINISHED or EXPIRED
    work,           \* IDLE, HELD at the gate, OPEN, CLEAN or LOST
    healthy         \* new work may start

promiseVars == <<shown, work, healthy>>

PromiseInit ==
    /\ shown = [t \in Tasks |-> "ABSENT"]
    /\ work = [t \in Tasks |-> "IDLE"]
    /\ healthy = TRUE

Occupied(t) == work[t] \in {"HELD", "OPEN", "LOST"}

Becomes(t, from, to) ==
    /\ work[t] \in from
    /\ work' = [work EXCEPT ![t] = to]

\* Processes exist for at most one task of a request, and only in health.
Hold(t) ==
    /\ \A u \in Tasks \ {t} : KeyOf[u] = KeyOf[t] => ~Occupied(u)
    /\ Becomes(t, {"IDLE"}, "HELD")
    /\ UNCHANGED healthy

Open(t) ==
    /\ healthy
    /\ Becomes(t, {"HELD"}, "OPEN")
    /\ UNCHANGED healthy

Clean(t) ==
    /\ Becomes(t, {"HELD", "OPEN"}, "CLEAN")
    /\ healthy' => healthy

Lose(t) ==
    /\ Becomes(t, {"IDLE", "HELD", "OPEN"}, "LOST")
    /\ healthy' = FALSE

\* Fail-stop for any other reason; there is no way back.
Halt ==
    /\ healthy' = FALSE
    /\ UNCHANGED work

\* Results whose retention is over may disappear in any lookup.
OthersKept(t) ==
    /\ DOMAIN shown' = Tasks
    /\ \A u \in Tasks \ {t} :
          \/ shown'[u] = shown[u]
          \/ shown[u] = "FINISHED" /\ shown'[u] = "EXPIRED"

Show(t) ==
    /\ shown[t] = "ABSENT" /\ work[t] \in {"OPEN", "CLEAN", "LOST"}
    /\ shown'[t] = "RUNNING"
    /\ OthersKept(t)

Finish(t) ==
    /\ shown[t] \in {"ABSENT", "RUNNING"} /\ work[t] = "CLEAN"
    /\ shown'[t] = "FINISHED"
    /\ OthersKept(t)

Forget == OthersKept(NoTask)

PromiseNext ==
    \/ /\ \/ \E t \in Tasks : Hold(t) \/ Open(t) \/ Clean(t) \/ Lose(t)
          \/ Halt
       /\ UNCHANGED shown
    \/ /\ \/ \E t \in Tasks : Show(t) \/ Finish(t)
          \/ Forget
       /\ UNCHANGED <<work, healthy>>

PromiseSpec == PromiseInit /\ [][PromiseNext]_promiseVars
=============================================================================

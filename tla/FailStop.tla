------------------------------ MODULE FailStop ------------------------------
(***************************************************************************)
(* FailStopCoordinator (daemon/src/fail_stop.rs): the one-way switch of    *)
(* the daemon from HEALTHY to FAIL_STOPPING, and the executions that are   *)
(* active, both under one lock.  An action here is one critical section.   *)
(* StartState::Committing exists only inside commit_start's critical       *)
(* section, so it is never a state between two actions.                    *)
(***************************************************************************)
EXTENDS TaskIds

VARIABLES
    phase,          \* Phase, without its deadline
    firstReport,    \* the task whose cleanup failure was reported first, or NoTask
    active          \* active executions and their StartState

failStopVars == <<phase, firstReport, active>>

StartStates == {"NONE", "PENDING", "COMMITTED", "FAILED"}

FailStopTypeOK ==
    /\ phase \in {"HEALTHY", "FAIL_STOPPING"}
    /\ firstReport \in Tasks \cup {NoTask}
    /\ active \in [Tasks -> StartStates]

FailStopInit ==
    /\ phase = "HEALTHY"
    /\ firstReport = NoTask
    /\ active = [t \in Tasks |-> "NONE"]

is_fail_stopping == phase = "FAIL_STOPPING"

\* try_admit and FailStopAdmission::register, under one guard.
register(t) ==
    /\ ~is_fail_stopping
    /\ active[t] = "NONE"
    /\ active' = [active EXCEPT ![t] = "PENDING"]
    /\ UNCHANGED <<phase, firstReport>>

\* The first report wins; a later activation changes nothing.
activate(t) ==
    /\ phase' = "FAIL_STOPPING"
    /\ firstReport' = IF is_fail_stopping THEN firstReport ELSE t

\* Faulty: the gate opens without a look at fail-stop.
commit_start_Unguarded(t) ==
    /\ active[t] = "PENDING"
    /\ active' = [active EXCEPT ![t] = "COMMITTED"]
    /\ UNCHANGED <<phase, firstReport>>

commit_start(t) ==
    /\ ~is_fail_stopping
    /\ active[t] = "PENDING"
    /\ active' = [active EXCEPT ![t] = "COMMITTED"]
    /\ UNCHANGED <<phase, firstReport>>

\* commit_start when opening the gate itself fails.
commit_gate_failed(t) ==
    /\ ~is_fail_stopping
    /\ active[t] = "PENDING"
    /\ active' = [active EXCEPT ![t] = "FAILED"]
    /\ UNCHANGED <<phase, firstReport>>

\* ActiveExecution::complete
complete(t) ==
    /\ active[t] # "NONE"
    /\ active' = [active EXCEPT ![t] = "NONE"]
    /\ UNCHANGED <<phase, firstReport>>

\* Drop of an ActiveExecution nobody completed: it stays active for good.
drop_active(t) ==
    /\ activate(t)
    /\ UNCHANGED active
=============================================================================

---------------------------- MODULE Termination ----------------------------
(***************************************************************************)
(* How the end of a run is classified (daemon/src/lifecycle.rs).           *)
(***************************************************************************)

Reasons == {"EXITED", "TIMED_OUT", "CANCELLED", "MEMORY_LIMIT_EXCEEDED",
            "PROCESS_LIMIT_EXCEEDED", "DAEMON_ERROR", "EXECUTION_FAILED"}

LatchStates == {"OPEN", "TIMED_OUT", "CANCELLED", "CLOSED"}

\* Faulty: a limit that was reached without a kill outranks the control trigger.
classify_termination_LimitFirst(events, trigger, daemonError, hasStarted) ==
    IF "memory_oom_kill" \in events THEN "MEMORY_LIMIT_EXCEEDED"
    ELSE IF "pids_max" \in events THEN "PROCESS_LIMIT_EXCEEDED"
    ELSE IF "memory_oom" \in events THEN "MEMORY_LIMIT_EXCEEDED"
    ELSE IF trigger # "NONE" THEN trigger
    ELSE IF daemonError THEN "DAEMON_ERROR"
    ELSE IF ~hasStarted THEN "EXECUTION_FAILED"
    ELSE "EXITED"

\* An OOM kill outranks the control trigger, and the control trigger outranks
\* a limit that was reached without a kill.
classify_termination(events, trigger, daemonError, hasStarted) ==
    IF "memory_oom_kill" \in events THEN "MEMORY_LIMIT_EXCEEDED"
    ELSE IF trigger # "NONE" THEN trigger
    ELSE IF "pids_max" \in events THEN "PROCESS_LIMIT_EXCEEDED"
    ELSE IF "memory_oom" \in events THEN "MEMORY_LIMIT_EXCEEDED"
    ELSE IF daemonError THEN "DAEMON_ERROR"
    ELSE IF ~hasStarted THEN "EXECUTION_FAILED"
    ELSE "EXITED"

\* TerminalTriggerLatch::snapshot of a latch value.
Trigger(first) == IF first \in {"TIMED_OUT", "CANCELLED"} THEN first ELSE "NONE"

\* TerminalTriggerLatch::observe and close_without_control: the first one wins.
FirstOf(first, new) == IF first = "OPEN" THEN new ELSE first
=============================================================================

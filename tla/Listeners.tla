-------------------------------- MODULE Listeners --------------------------------
(***************************************************************************)
(* The listeners of a running daemon and how it stops: the select over the *)
(* local server, the remote server, the credential reload and the signal   *)
(* (daemon/src/bootstrap/listeners.rs), the accept loop, the fail-stop     *)
(* drain and the shutdown drain of the local server                        *)
(* (adapters/inbound/local_uds/server.rs), the accept loop and the         *)
(* sessions of the remote server (adapters/inbound/remote_tls/server.rs),  *)
(* with the executions their requests start.                               *)
(*                                                                         *)
(* A request of a local connection is part of the connection's task and is *)
(* aborted with it; the operation of a remote request is a task of its own *)
(* that nobody aborts.  An execution, once admitted, is a task of its own  *)
(* in both cases (module TaskService) and is either cleaned up or becomes  *)
(* the cause of a fail-stop (modules FailStop, Termination).               *)
(***************************************************************************)
EXTENDS Naturals, FiniteSets

CONSTANTS
  Local,           \* clients of the local socket; a connection and a request each
  Remote,          \* clients of the remote listener, likewise
  MaxConnections,  \* max_concurrent_connections of the local server
  MayFail          \* clients whose execution cannot be cleaned up in time

Clients == Local \union Remote

VARIABLES
  conn,      \* connection: "none", "open" or "closed"
  op,        \* its request: "none", "dispatched", "answered" or "aborted"
  exec,      \* the execution it started: "none", "active", "stuck" or "done"
  failStop,  \* Phase::FailStopping
  late,      \* the fail-stop deadline has passed
  main,      \* serve_local_and_remote: "first", "select", "join" or "exit"
  sent,      \* the value of the shutdown watch channel
  local,     \* the local server: "accept", "fsdrain", "cleanup", "drain",
             \* "idle", "inactive", "unlock" or "done"
  remote,    \* the remote server: "accept" or "done"
  result,    \* results of the local and the remote server, and of the daemon
  lock,      \* the startup lock is held
  socket     \* the socket file exists

ListenersVars == <<conn, op, exec, failStop, late, main, sent, local, remote, result, lock, socket>>
clients == <<conn, op, exec>>
servers == <<main, sent, local, remote, result, lock, socket>>

ListenersInit ==
  /\ conn = [c \in Clients |-> "none"]
  /\ op = [c \in Clients |-> "none"]
  /\ exec = [c \in Clients |-> "none"]
  /\ failStop = FALSE /\ late = FALSE
  /\ main = "first" /\ sent = FALSE
  /\ local = "accept" /\ remote = "accept"
  /\ result = [local |-> "none", remote |-> "none", daemon |-> "none"]
  /\ lock = TRUE /\ socket = TRUE

Open(set) == {c \in set : conn[c] = "open"}

\* TaskCapacity: permits in use.  FailStopCoordinator: active executions.
Active == {c \in Clients : exec[c] \in {"active", "stuck"}}
Running == main # "exit"

\* abort_connections, for a set of connections: the tasks end where they are.
Aborted(set) == [c \in Clients |-> IF c \in set /\ conn[c] = "open" THEN "closed" ELSE conn[c]]
AbortedOps(set) ==
  [c \in Clients |-> IF c \in set \intersect Local /\ op[c] = "dispatched" THEN "aborted" ELSE op[c]]

--------------------------------------------------------------------------------
(***************************************************************************)
(* Connections, requests, executions                                       *)
(***************************************************************************)
\* The select is biased: a fail-stop or a shutdown that is there comes first.
\* A connection over the limit is dropped unread.
accept_connections(c) ==
  /\ Running /\ local = "accept" /\ ~ failStop /\ ~ sent /\ c \in Local /\ conn[c] = "none"
  /\ conn' = [conn EXCEPT ![c] = IF Cardinality(Open(Local)) < MaxConnections
                                 THEN "open" ELSE "closed"]
  /\ UNCHANGED <<op, exec, failStop, late, servers>>

\* The select of the remote server is not biased: it may accept once more.
accept_remote(c) ==
  /\ Running /\ remote = "accept" /\ c \in Remote /\ conn[c] = "none"
  /\ conn' = [conn EXCEPT ![c] = "open"]
  /\ UNCHANGED <<op, exec, failStop, late, servers>>

handle_connection(c) ==
  /\ Running /\ conn[c] = "open" /\ op[c] = "none"
  /\ op' = [op EXCEPT ![c] = "dispatched"]
  /\ UNCHANGED <<conn, exec, failStop, late, servers>>

\* TaskService::submit: admitted unless fail-stopping.
Submit(c) ==
  /\ Running /\ op[c] = "dispatched"
  /\ op' = [op EXCEPT ![c] = "answered"]
  /\ exec' = IF failStop THEN exec ELSE [exec EXCEPT ![c] = "active"]
  /\ UNCHANGED <<conn, failStop, late, servers>>

\* The client leaves, or a session, idle or credential limit of the remote
\* server closes the connection; a remote operation goes on without it.
Disconnect(c) ==
  /\ Running /\ conn[c] = "open"
  /\ conn' = Aborted({c})
  /\ op' = AbortedOps({c})
  /\ UNCHANGED <<exec, failStop, late, servers>>

ExecutionDone(c) ==
  /\ Running /\ exec[c] \in {"active", "stuck"} /\ (exec[c] = "stuck" => ~ late)
  /\ exec' = [exec EXCEPT ![c] = "done"]
  /\ UNCHANGED <<conn, op, failStop, late, servers>>

\* The cleanup is not proved in time: activate, and keep trying.
activate(c) ==
  /\ Running /\ exec[c] = "active" /\ c \in MayFail
  /\ exec' = [exec EXCEPT ![c] = "stuck"]
  /\ failStop' = TRUE
  /\ UNCHANGED <<conn, op, late, servers>>

Deadline ==
  /\ Running /\ failStop /\ ~ late
  /\ late' = TRUE
  /\ UNCHANGED <<clients, failStop, servers>>

--------------------------------------------------------------------------------
(***************************************************************************)
(* The local server                                                        *)
(***************************************************************************)
LocalGoes(where, what) ==
  /\ local' = where
  /\ result' = [result EXCEPT !.local = what]

StopFailStop ==
  /\ Running /\ local = "accept" /\ failStop
  /\ LocalGoes("fsdrain", "failstop")
  /\ UNCHANGED <<clients, failStop, late, main, sent, remote, lock, socket>>

StopNormal ==
  /\ Running /\ local = "accept"
  /\ \/ ~ failStop /\ sent /\ LocalGoes("cleanup", "ok")
     \/ ~ failStop /\ ~ sent /\ LocalGoes("cleanup", "accept")
  /\ conn' = Aborted(Local) /\ op' = AbortedOps(Local)
  /\ UNCHANGED <<exec, failStop, late, main, sent, remote, lock, socket>>

drain_fail_stop_connections ==
  /\ Running /\ local = "fsdrain"
  /\ late \/ (Active = {} /\ Open(Local) = {})
  /\ local' = "cleanup"
  /\ conn' = Aborted(Local) /\ op' = AbortedOps(Local)
  /\ UNCHANGED <<exec, failStop, late, main, sent, remote, result, lock, socket>>

\* BoundSocket::cleanup and combine_server_and_cleanup: an error of the cleanup
\* joins the server's, and the fail-stop error is then no longer recognised.
SocketCleanup ==
  /\ Running /\ local = "cleanup"
  /\ \/ /\ socket' = FALSE
        /\ local' = IF result.local = "failstop" THEN "unlock" ELSE "drain"
        /\ UNCHANGED result
     \/ LocalGoes("drain", "cleanup") /\ UNCHANGED socket
  /\ UNCHANGED <<clients, failStop, late, main, sent, remote, lock>>

\* wait_for_shutdown_drain
DrainFailStop ==
  /\ Running /\ local = "drain" /\ failStop
  /\ local' = "inactive"
  /\ UNCHANGED <<clients, failStop, late, main, sent, remote, result, lock, socket>>

\* Faulty: whoever holds a permit is not waited for.
wait_idle_noWait ==
  /\ Running /\ local = "drain" /\ ~ failStop
  /\ local' = "idle"
  /\ UNCHANGED <<clients, failStop, late, main, sent, remote, result, lock, socket>>

wait_idle ==
  /\ Running /\ local = "drain" /\ ~ failStop /\ Active = {}
  /\ local' = "idle"
  /\ UNCHANGED <<clients, failStop, late, main, sent, remote, result, lock, socket>>

\* Idle: is there a fail-stop deadline after all?
wait_for_shutdown_drain ==
  /\ Running /\ local = "idle"
  /\ local' = IF failStop THEN "inactive" ELSE "unlock"
  /\ UNCHANGED <<clients, failStop, late, main, sent, remote, result, lock, socket>>

wait_until_inactive ==
  /\ Running /\ local = "inactive" /\ (late \/ Active = {})
  /\ LocalGoes("unlock", "failstop")
  /\ UNCHANGED <<clients, failStop, late, main, sent, remote, lock, socket>>

finish_protocol_serve ==
  /\ Running /\ local = "unlock"
  /\ local' = "done" /\ lock' = FALSE
  /\ UNCHANGED <<clients, failStop, late, main, sent, remote, result, socket>>

--------------------------------------------------------------------------------
(***************************************************************************)
(* The remote server, and serve_local_and_remote around both               *)
(***************************************************************************)
\* bind or accept failed, or the shutdown; the connections are aborted either
\* way (a JoinSet aborts when it is dropped), the operations are not.
serve_remote_listener_until ==
  /\ Running /\ remote = "accept"
  /\ \E what \in {"error"} \union (IF sent THEN {"ok"} ELSE {}) :
       result' = [result EXCEPT !.remote = what]
  /\ remote' = "done"
  /\ conn' = Aborted(Remote)
  /\ UNCHANGED <<op, exec, failStop, late, main, sent, local, lock, socket>>

\* The handlers of SIGHUP and SIGTERM are registered at the first poll, ...
Registered ==
  /\ main = "first"
  /\ main' = "select"
  /\ UNCHANGED <<clients, failStop, late, sent, local, remote, result, lock, socket>>

\* ... and if that fails both servers are dropped as they are: the connections
\* are aborted, the lock is released, the socket file stays.
NotRegistered ==
  /\ main = "first"
  /\ main' = "exit" /\ sent' = TRUE /\ lock' = FALSE
  /\ result' = [result EXCEPT !.daemon = "signal"]
  /\ conn' = Aborted(Clients) /\ op' = AbortedOps(Clients)
  /\ UNCHANGED <<exec, failStop, late, local, remote, socket>>

Signal ==
  /\ main = "select"
  /\ main' = "join" /\ sent' = TRUE
  /\ UNCHANGED <<clients, failStop, late, local, remote, result, lock, socket>>


ServerEnded ==
  /\ main = "select" /\ (local = "done" \/ remote = "done")
  /\ main' = "join" /\ sent' = TRUE
  /\ UNCHANGED <<clients, failStop, late, local, remote, result, lock, socket>>

serve_local_and_remote ==
  /\ main = "join" /\ local = "done" /\ remote = "done"
  /\ main' = "exit"
  /\ result' = [result EXCEPT !.daemon = IF result.local # "ok" THEN result.local
                                         ELSE IF result.remote # "ok" THEN "remote" ELSE "ok"]
  /\ UNCHANGED <<clients, failStop, late, sent, local, remote, lock, socket>>

--------------------------------------------------------------------------------
LocalStep ==
  \/ StopFailStop \/ (sent /\ StopNormal) \/ drain_fail_stop_connections \/ SocketCleanup
  \/ DrainFailStop \/ wait_idle \/ wait_for_shutdown_drain \/ wait_until_inactive
  \/ finish_protocol_serve
RemoteStep == sent /\ serve_remote_listener_until
MainStep == Registered \/ ServerEnded \/ serve_local_and_remote
ClientStep(c) ==
  accept_connections(c) \/ accept_remote(c) \/ handle_connection(c) \/ Disconnect(c)
    \/ activate(c)

ListenersNext ==
  \/ LocalStep \/ StopNormal \/ serve_remote_listener_until
  \/ MainStep \/ NotRegistered \/ Signal \/ Deadline
  \/ \E c \in Clients : ClientStep(c) \/ Submit(c) \/ ExecutionDone(c)

ListenersSpec == ListenersInit /\ [][ListenersNext]_ListenersVars

\* The servers and the select are polled, dispatched operations and executions
\* go on, the clock runs.  Clients and signals are not fair.
Fairness ==
  /\ WF_ListenersVars(LocalStep) /\ WF_ListenersVars(RemoteStep)
  /\ WF_ListenersVars(MainStep) /\ WF_ListenersVars(Deadline)
  /\ \A c \in Clients : /\ WF_ListenersVars(Submit(c))
                        /\ WF_ListenersVars(exec[c] = "active" /\ ExecutionDone(c))

ListenersFairSpec == ListenersSpec /\ Fairness

--------------------------------------------------------------------------------
\* Values, and the phase the local server is in determines lock and result.
ListenersTypeOK ==
  /\ conn \in [Clients -> {"none", "open", "closed"}]
  /\ op \in [Clients -> {"none", "dispatched", "answered", "aborted"}]
  /\ exec \in [Clients -> {"none", "active", "stuck", "done"}]
  /\ Running => lock = (local # "done")
  /\ late => failStop
  /\ (result.local = "none") <=> (local = "accept")

\* Without remote clients the lock is only released, and the daemon only ends
\* cleanly, when every execution has been cleaned up; and a fail-stop is never
\* reported as anything else, however the socket cleanup ends.
DrainComplete ==
  Running /\ ~ lock => \/ Active = {} /\ ~ failStop /\ result.local # "failstop"
                       \/ failStop /\ result.local = "failstop" /\ (late \/ Active = {})

\* Also beside a remote server the lock is only released when the executions of
\* the local clients have been cleaned up, or after the fail-stop deadline.
LocalDrained ==
  Running /\ ~ lock => (\A c \in Local : exec[c] \notin {"active", "stuck"}) \/ late

\* A fail-stop the local server has seen is the result of the daemon, whatever
\* the remote server returned.
FailStopReported ==
  main = "exit" /\ result.daemon # "signal" /\ result.local = "failstop"
    => result.daemon = "failstop"

\* After a signal, the end of one server or a fail-stop the daemon ends: both
\* servers stop and every drain is bounded by the executions or the deadline.
Stops == (sent \/ failStop) /\ main # "first" ~> main = "exit"

\* The startup lock is only released after the last cleanup of an execution or
\* the fail-stop drain (the comment in finish_protocol_serve).
LockUntilLastCleanup == ~ lock /\ Running => Active = {} \/ failStop
================================================================================

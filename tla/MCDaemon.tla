-------------------------------- MODULE MCDaemon --------------------------------
(***************************************************************************)
(* Instances of Startup and Listeners for TLC, side by side: three daemons *)
(* that start under two runtime directories over one cgroup root, in a     *)
(* delegated root (Two) or below an existing manager (Managed), or under   *)
(* one runtime directory (Restart); a local server alone (Alone) and beside *)
(* a remote server (Both).  They share no state: part names the one that   *)
(* takes the steps of a behaviour, the others stay as they begin.          *)
(***************************************************************************)
EXTENDS Naturals, FiniteSets, TLC

CONSTANTS d1, d2, d3, r1, r2, a, b, c, r, Systemd, None

VARIABLES
  part,
  pc, lock, socket, seen, member, manager, jobs, dirs, running, killed, list, deaths,
  conn, op, exec, failStop, late, main, sent, local, remote, result, held, file

Daemons == {d1, d2, d3}
Runtimes == {r1, r2}
MaxDeaths == 2
OneRuntime == [d \in Daemons |-> r1]
TwoRuntimes == (d1 :> r1) @@ (d2 :> r2) @@ (d3 :> r1)

Two == INSTANCE Startup WITH RuntimeOf <- TwoRuntimes, Placement <- "DelegatedRoot"
Managed == INSTANCE Startup WITH RuntimeOf <- TwoRuntimes, Placement <- "ExistingManager"
Restart == INSTANCE Startup WITH RuntimeOf <- OneRuntime, Placement <- "DelegatedRoot"

MaxConnections == 2
Alone == INSTANCE Listeners WITH
  Local <- {a, b, c}, Remote <- {}, MayFail <- {a, b}, lock <- held, socket <- file
Both == INSTANCE Listeners WITH
  Local <- {a, b}, Remote <- {r}, MayFail <- {a, r}, lock <- held, socket <- file

startup == <<pc, lock, socket, seen, member, manager, jobs, dirs, running, killed, list, deaths>>
listeners == <<conn, op, exec, failStop, late, main, sent, local, remote, result, held, file>>

Init ==
  \/ part = "two" /\ Two!StartupInit /\ Both!ListenersInit
  \/ part = "managed" /\ Managed!StartupInit /\ Both!ListenersInit
  \/ part = "restart" /\ Restart!StartupInit /\ Both!ListenersInit
  \/ part = "alone" /\ Alone!ListenersInit /\ Two!StartupInit
  \/ part = "both" /\ Both!ListenersInit /\ Two!StartupInit

Next ==
  \/ part = "two" /\ Two!StartupNext /\ UNCHANGED <<part, listeners>>
  \/ part = "managed" /\ Managed!StartupNext /\ UNCHANGED <<part, listeners>>
  \/ part = "restart" /\ Restart!StartupNext /\ UNCHANGED <<part, listeners>>
  \/ part = "alone" /\ Alone!ListenersNext /\ UNCHANGED <<part, startup>>
  \/ part = "both" /\ Both!ListenersNext /\ UNCHANGED <<part, startup>>

\* The fairness of Startup and of Listeners, for the parts with a property
\* that needs it.
Fairness ==
  /\ \A p \in Daemons : WF_startup(part = "restart" /\ Restart!Step(p))
  /\ \A j \in Daemons : WF_startup(part = "restart" /\ j \in killed /\ Restart!PayloadEnds(j))
  /\ WF_listeners(part = "both" /\ Both!LocalStep)
  /\ WF_listeners(part = "both" /\ Both!RemoteStep)
  /\ WF_listeners(part = "both" /\ Both!MainStep)
  /\ WF_listeners(part = "both" /\ Both!Deadline)
  /\ \A q \in {a, b, r} :
       /\ WF_listeners(part = "both" /\ Both!Submit(q))
       /\ WF_listeners(part = "both" /\ exec[q] = "active" /\ Both!ExecutionDone(q))

Spec == Init /\ [][Next]_<<part, startup, listeners>> /\ Fairness

--------------------------------------------------------------------------------
\* One daemon serves below a cgroup root, whatever starts beside it, and only
\* after recovery has removed the job cgroups of every earlier one; with one
\* lock its jobs directory is the one it created (startup.rs, recovery.rs).
StartupSound ==
  /\ part = "two" => Two!StartupTypeOK /\ Two!OneServing /\ Two!ServingMeansRecovered
  /\ part = "managed" => Managed!StartupTypeOK /\ Managed!OneServing /\ Managed!ServingMeansRecovered
  /\ part = "restart" => Restart!StartupTypeOK /\ Restart!ServingOwnsJobs

\* Recovery kills no job of a live daemon, and no startup removes the socket of
\* a daemon that listens (recovery.rs, remove_stale_socket).
StartupSparesLive == Two!RecoverySparesLive /\ Two!SocketSparesLive

\* The startup lock is released after the last cleanup of what local clients
\* started or by a fail-stop drain, beside a remote listener too, and a fail-stop
\* the local server saw is what the daemon reports (finish_protocol_serve,
\* serve_local_and_remote).
ShutdownSound ==
  /\ part = "alone" => Alone!ListenersTypeOK /\ Alone!DrainComplete
  /\ part = "both" => Both!ListenersTypeOK /\ Both!LocalDrained /\ Both!FailStopReported

================================================================================

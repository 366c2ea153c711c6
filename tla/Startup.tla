-------------------------------- MODULE Startup --------------------------------
(***************************************************************************)
(* From exec to the first accept, and back: the startup lock and the stale *)
(* socket (daemon/src/startup.rs), the recovery of the cgroups a dead      *)
(* daemon left (linux-runtime/src/cgroup/recovery.rs), the preflight that  *)
(* moves the daemon into its manager cgroup (preflight.rs, manager.rs),    *)
(* and the socket the server binds (local_uds/server.rs).                  *)
(*                                                                         *)
(* A daemon is one process.  Several may start at once, under one runtime  *)
(* directory (one lock, one socket path) or under two that were given the  *)
(* same cgroup root.  Every system call another process can observe is a   *)
(* step.  A step that fails, by an I/O error, an unexpected entry or the   *)
(* recovery deadline, returns an error through run and ends the process:   *)
(* Die, which also stands for SIGKILL.                                     *)
(***************************************************************************)
EXTENDS Naturals, FiniteSets

CONSTANTS
  Daemons,      \* daemon processes, each started once
  Runtimes,     \* runtime directories: a lock and a socket path each
  RuntimeOf,    \* daemon -> its runtime directory
  Placement,    \* "DelegatedRoot" or "ExistingManager" (systemd put us there)
  MaxDeaths,    \* bound on Die, PreflightFails and Tidy
  Systemd,      \* the creator of an existing manager cgroup
  None

VARIABLES
  pc,        \* where each daemon is
  lock,      \* runtime directory -> holder of the flock
  socket,    \* runtime directory -> owner of the socket file (its inode), or None
  seen,      \* the inodes a daemon has looked at: its socket, manager, jobs
  member,    \* the cgroup each live daemon is in
  manager,   \* the manager cgroup: its inode (named by its creator), or None
  jobs,      \* the jobs cgroup, likewise
  dirs,      \* job cgroups in it; a daemon's job is named by the daemon
  running,   \* job cgroups with live processes
  killed,    \* job cgroups whose cgroup.kill recovery has written
  list,      \* job_entries a recovering daemon has opened
  deaths

startupVars == <<pc, lock, socket, seen, member, manager, jobs, dirs, running, killed,
          list, deaths>>
tree == <<manager, jobs, dirs, running, killed>>
files == <<lock, socket>>

Alive(p) == pc[p] \notin {"new", "dead"}
Start == IF Placement = "DelegatedRoot" THEN "root" ELSE "manager"

\* The daemons cgroup.procs lists.
Procs(group) == {p \in Daemons : member[p] = group}
Listening(p) == pc[p] \in {"serving", "closing"}

StartupInit ==
  /\ pc = [p \in Daemons |-> "new"]
  /\ lock = [r \in Runtimes |-> None]
  /\ socket = [r \in Runtimes |-> None]
  /\ seen = [p \in Daemons |-> [socket |-> None, manager |-> None, jobs |-> None]]
  /\ member = [p \in Daemons |-> None]
  /\ manager = IF Placement = "DelegatedRoot" THEN None ELSE Systemd
  /\ jobs = None
  /\ dirs = {} /\ running = {} /\ killed = {}
  /\ list = [p \in Daemons |-> {}]
  /\ deaths = 0

GoesTo(p, where) == pc' = [pc EXCEPT ![p] = where]
R(p) == RuntimeOf[p]

(***************************************************************************)
(* StartupOwnership::acquire                                               *)
(***************************************************************************)
\* exec, and the opening of the protected runtime directory.
Exec(p) ==
  /\ pc[p] = "new"
  /\ member' = [member EXCEPT ![p] = Start]
  /\ GoesTo(p, "lock")
  /\ UNCHANGED <<files, seen, tree, list, deaths>>

acquire_lock(p) ==
  /\ pc[p] = "lock" /\ lock[R(p)] = None
  /\ lock' = [lock EXCEPT ![R(p)] = p]
  /\ GoesTo(p, "inspect")
  /\ UNCHANGED <<socket, seen, member, tree, list, deaths>>

recover_stale_socket(p) ==
  /\ pc[p] = "inspect"
  /\ seen' = [seen EXCEPT ![p].socket = socket[R(p)]]
  /\ GoesTo(p, IF socket[R(p)] = None THEN "prepare" ELSE "probe")
  /\ UNCHANGED <<files, member, tree, list, deaths>>

\* A connection is refused when nobody listens behind the file; an active
\* socket ends the startup.
probe_socket(p) ==
  /\ pc[p] = "probe" /\ socket[R(p)] # None /\ ~ Listening(socket[R(p)])
  /\ GoesTo(p, "unlink")
  /\ UNCHANGED <<files, seen, member, tree, list, deaths>>

ProbeDisappeared(p) ==
  /\ pc[p] = "probe" /\ socket[R(p)] = None
  /\ GoesTo(p, "prepare")
  /\ UNCHANGED <<files, seen, member, tree, list, deaths>>

\* The file is removed only if it is still the inode that was probed.
UnlinkStale(p) ==
  /\ pc[p] = "unlink" /\ socket[R(p)] = seen[p].socket
  /\ socket' = [socket EXCEPT ![R(p)] = None]
  /\ GoesTo(p, "prepare")
  /\ UNCHANGED <<lock, seen, member, tree, list, deaths>>

\* The processes a recovering daemon accepts in the manager cgroup.
Expected(p) == IF Placement = "DelegatedRoot" THEN {} ELSE {p}

(***************************************************************************)
(* recover_from_environment.  prepare opens root, manager and jobs and     *)
(* refuses a manager that holds another process; then it opens the job     *)
(* entries of the jobs directory it opened.                                *)
(***************************************************************************)
\* Faulty: the processes of the manager are not looked at.
prepare_unguarded(p) ==
  /\ pc[p] = "prepare"
  /\ seen' = [seen EXCEPT ![p].manager = manager, ![p].jobs = jobs]
  /\ GoesTo(p, "jobs")
  /\ UNCHANGED <<files, member, tree, list, deaths>>

prepare(p) ==
  /\ pc[p] = "prepare"
  /\ Procs("manager") = Expected(p)
  /\ seen' = [seen EXCEPT ![p].manager = manager, ![p].jobs = jobs]
  /\ GoesTo(p, "jobs")
  /\ UNCHANGED <<files, member, tree, list, deaths>>

\* The entries behind the descriptor: none once that directory is removed.
Entries(inode) == IF inode # None /\ jobs = inode THEN dirs ELSE {}

OpenJobs(p) ==
  /\ pc[p] = "jobs"
  /\ list' = [list EXCEPT ![p] = Entries(seen[p].jobs)]
  /\ GoesTo(p, "kill")
  /\ UNCHANGED <<files, seen, member, tree, deaths>>

\* A listed entry is still there: control files are opened behind its
\* descriptor, which fails after its removal.
Present(p, j) == j \in Entries(seen[p].jobs)

kill_job(p, j) ==
  /\ pc[p] = "kill" /\ j \in list[p] \ killed /\ Present(p, j)
  /\ killed' = killed \union {j}
  /\ UNCHANGED <<pc, files, seen, member, manager, jobs, dirs, running, list, deaths>>

AllKilled(p) ==
  /\ pc[p] = "kill" /\ list[p] \subseteq killed
  /\ GoesTo(p, "empty")
  /\ UNCHANGED <<files, seen, member, tree, list, deaths>>

\* The loop over the pending jobs ends when each has been seen unpopulated.
job_populated(p) ==
  /\ pc[p] = "empty" /\ list[p] \intersect running = {}
  /\ GoesTo(p, "remove")
  /\ UNCHANGED <<files, seen, member, tree, list, deaths>>

remove_job(p, j) ==
  /\ pc[p] = "remove" /\ j \in list[p] /\ Present(p, j) /\ j \notin running
  /\ dirs' = dirs \ {j}
  /\ killed' = killed \ {j}
  /\ list' = [list EXCEPT ![p] = @ \ {j}]
  /\ UNCHANGED <<pc, files, seen, member, manager, jobs, running, deaths>>

\* finish_structure removes jobs and then, in a delegated root, manager: the
\* name must still lead to the inode prepare has opened, and the kernel removes
\* by name what is empty then.
FinishJobs(p) ==
  /\ pc[p] = "remove" /\ list[p] = {}
  /\ seen[p].jobs # None => jobs = seen[p].jobs /\ dirs = {}
  /\ GoesTo(p, IF seen[p].jobs = None THEN "finish" ELSE "rmjobs")
  /\ UNCHANGED <<files, seen, member, tree, list, deaths>>

RemoveJobs(p) ==
  /\ pc[p] = "rmjobs" /\ jobs # None /\ dirs = {}
  /\ jobs' = None
  /\ GoesTo(p, "finish")
  /\ UNCHANGED <<files, seen, member, manager, dirs, running, killed, list, deaths>>

finish_structure(p) ==
  /\ pc[p] = "finish"
  /\ seen[p].manager # None => manager = seen[p].manager /\ Procs("manager") = Expected(p)
  /\ GoesTo(p, IF seen[p].manager # None /\ Placement = "DelegatedRoot"
             THEN "rmmanager" ELSE "check")
  /\ UNCHANGED <<files, seen, member, tree, list, deaths>>

RemoveManager(p) ==
  /\ pc[p] = "rmmanager" /\ manager # None /\ Procs("manager") = {}
  /\ manager' = None
  /\ GoesTo(p, "check")
  /\ UNCHANGED <<files, seen, member, jobs, dirs, running, killed, list, deaths>>

FinalCheck(p) ==
  /\ pc[p] = "check" /\ jobs = None
  /\ Placement = "DelegatedRoot" => manager = None
  /\ GoesTo(p, IF Placement = "DelegatedRoot" THEN "create" ELSE "verify")
  /\ UNCHANGED <<files, seen, member, tree, list, deaths>>

(***************************************************************************)
(* check_linux after recovery, then CgroupManager::initialize.             *)
(***************************************************************************)
create_manager(p) ==
  /\ pc[p] = "create" /\ manager = None
  /\ manager' = p
  /\ GoesTo(p, "move")
  /\ UNCHANGED <<files, seen, member, jobs, dirs, running, killed, list, deaths>>

MoveToManager(p) ==
  /\ pc[p] = "move"
  /\ IF manager = None
     THEN GoesTo(p, "rollback") /\ UNCHANGED member
     ELSE GoesTo(p, "verify") /\ member' = [member EXCEPT ![p] = "manager"]
  /\ UNCHANGED <<files, seen, tree, list, deaths>>

require_only_current_manager_process(p) ==
  /\ pc[p] = "verify"
  /\ GoesTo(p, IF Procs("manager") = {p} THEN "initialize" ELSE "rollback")
  /\ UNCHANGED <<files, seen, member, tree, list, deaths>>

\* The move, the clone3 probe or the controllers fail.
PreflightFails(p) ==
  /\ pc[p] \in {"move", "verify"} /\ deaths < MaxDeaths
  /\ deaths' = deaths + 1
  /\ GoesTo(p, "rollback")
  /\ UNCHANGED <<files, seen, member, tree, list>>

\* Out of the manager, which is then removed if it was created here; the
\* preflight error ends the process.
rollback_manager(p) ==
  /\ pc[p] = "rollback"
  /\ member' = [member EXCEPT ![p] = Start]
  /\ GoesTo(p, IF Placement = "DelegatedRoot" THEN "rmdir" ELSE "failed")
  /\ UNCHANGED <<files, seen, tree, list, deaths>>

RollbackRemoves(p) ==
  /\ pc[p] = "rmdir"
  /\ manager' = IF Procs("manager") = {} THEN None ELSE manager
  /\ GoesTo(p, "failed")
  /\ UNCHANGED <<files, seen, member, jobs, dirs, running, killed, list, deaths>>

initialize(p) ==
  /\ pc[p] = "initialize" /\ jobs = None
  /\ jobs' = p
  /\ GoesTo(p, "bind")
  /\ UNCHANGED <<files, seen, member, manager, dirs, running, killed, list, deaths>>

(***************************************************************************)
(* Serving and leaving: BoundSocket::bind, jobs, the drain, the cleanup of *)
(* the socket before the lock is dropped, and the end of the process.      *)
(***************************************************************************)
bind(p) ==
  /\ pc[p] = "bind" /\ socket[R(p)] = None
  /\ socket' = [socket EXCEPT ![R(p)] = p]
  /\ GoesTo(p, "listen")
  /\ UNCHANGED <<lock, seen, member, tree, list, deaths>>

listen(p) ==
  /\ pc[p] = "listen"
  /\ GoesTo(p, "serving")
  /\ UNCHANGED <<files, seen, member, tree, list, deaths>>

Working(p) == pc[p] \in {"serving", "closing", "drain", "leaving"} /\ jobs # None

create_job(p) ==
  /\ Working(p) /\ p \notin dirs
  /\ dirs' = dirs \union {p}
  /\ running' = running \union {p}
  /\ UNCHANGED <<pc, files, seen, member, manager, jobs, killed, list, deaths>>

\* Faulty: the directory goes without a look at cgroup.events.
JobDone_early(p) ==
  /\ Working(p) /\ p \in dirs
  /\ dirs' = dirs \ {p}
  /\ UNCHANGED <<pc, files, seen, member, manager, jobs, running, killed, list, deaths>>

JobDone(p) ==
  /\ Working(p) /\ p \in dirs \ running
  /\ dirs' = dirs \ {p}
  /\ UNCHANGED <<pc, files, seen, member, manager, jobs, running, killed, list, deaths>>

ShutdownSignal(p) ==
  /\ pc[p] = "serving"
  /\ GoesTo(p, "closing")
  /\ UNCHANGED <<files, seen, member, tree, list, deaths>>

\* BoundSocket::cleanup: only the inode this process bound.
remove_owned_path(p) ==
  /\ pc[p] = "closing"
  /\ socket' = IF socket[R(p)] = p THEN [socket EXCEPT ![R(p)] = None] ELSE socket
  /\ GoesTo(p, "drain")
  /\ UNCHANGED <<lock, seen, member, tree, list, deaths>>

\* The lock goes when the executions have been drained or the fail-stop deadline
\* has passed; the process goes on until the remote listener has ended, and a
\* remote operation may still start a job.
finish_protocol_serve(p) ==
  /\ pc[p] = "drain"
  /\ lock' = [lock EXCEPT ![R(p)] = None]
  /\ GoesTo(p, "leaving")
  /\ UNCHANGED <<socket, seen, member, tree, list, deaths>>

\* The processes of a job end: by themselves, or because they were killed.
PayloadEnds(j) ==
  /\ j \in running
  /\ running' = running \ {j}
  /\ UNCHANGED <<pc, files, seen, member, manager, jobs, dirs, killed, list, deaths>>

Gone(p) ==
  /\ GoesTo(p, "dead")
  /\ member' = [member EXCEPT ![p] = None]
  /\ lock' = [r \in Runtimes |-> IF lock[r] = p THEN None ELSE lock[r]]

Exit(p) ==
  /\ pc[p] \in {"leaving", "failed"}
  /\ Gone(p)
  /\ UNCHANGED <<socket, seen, tree, list, deaths>>

Die(p) ==
  /\ Alive(p) /\ deaths < MaxDeaths
  /\ deaths' = deaths + 1
  /\ Gone(p)
  /\ UNCHANGED <<socket, seen, tree, list>>

\* An administrator or a cleaner of /run removes the file of a dead daemon.
Tidy(r) ==
  /\ socket[r] # None /\ ~ Alive(socket[r]) /\ deaths < MaxDeaths
  /\ deaths' = deaths + 1
  /\ socket' = [socket EXCEPT ![r] = None]
  /\ UNCHANGED <<pc, lock, seen, member, tree, list>>

\* A check of the startup that does not hold is an error, and the end.
CheckFails(p) ==
  \/ pc[p] = "lock" /\ lock[R(p)] # None
  \/ pc[p] = "probe" /\ socket[R(p)] # None /\ Listening(socket[R(p)])
  \/ pc[p] = "unlink" /\ socket[R(p)] # seen[p].socket
  \/ pc[p] = "prepare" /\ Procs("manager") # Expected(p)
  \/ /\ pc[p] = "finish" /\ seen[p].manager # None
     /\ manager # seen[p].manager \/ Procs("manager") # Expected(p)
  \/ pc[p] \in {"kill", "remove"} /\ \E j \in list[p] : ~ Present(p, j)
  \/ pc[p] = "remove" /\ seen[p].jobs # None /\ (jobs # seen[p].jobs \/ dirs \ list[p] # {})
  \/ pc[p] = "rmjobs" /\ (jobs = None \/ dirs # {})
  \/ pc[p] = "rmmanager" /\ (manager = None \/ Procs("manager") # {})
  \/ pc[p] = "check" /\ (jobs # None \/ (Placement = "DelegatedRoot" /\ manager # None))
  \/ pc[p] = "create" /\ manager # None
  \/ pc[p] = "initialize" /\ jobs # None
  \/ pc[p] = "bind" /\ socket[R(p)] # None

Refuse(p) ==
  /\ CheckFails(p)
  /\ Gone(p)
  /\ UNCHANGED <<socket, seen, tree, list, deaths>>

--------------------------------------------------------------------------------
Step(p) ==
  \/ acquire_lock(p)
  \/ recover_stale_socket(p) \/ probe_socket(p) \/ ProbeDisappeared(p) \/ UnlinkStale(p)
  \/ prepare(p) \/ OpenJobs(p) \/ AllKilled(p) \/ job_populated(p)
  \/ (\E j \in Daemons : kill_job(p, j) \/ remove_job(p, j))
  \/ FinishJobs(p) \/ RemoveJobs(p) \/ finish_structure(p) \/ RemoveManager(p)
  \/ FinalCheck(p)
  \/ create_manager(p) \/ MoveToManager(p) \/ require_only_current_manager_process(p)
  \/ rollback_manager(p) \/ RollbackRemoves(p) \/ initialize(p) \/ bind(p) \/ listen(p)
  \/ remove_owned_path(p) \/ finish_protocol_serve(p) \/ Exit(p) \/ JobDone(p)
  \/ Refuse(p)

StartupNext ==
  \/ \E p \in Daemons : \/ Exec(p) \/ Step(p) \/ create_job(p) \/ ShutdownSignal(p)
                        \/ Die(p) \/ PreflightFails(p)
  \/ \E j \in Daemons : PayloadEnds(j)
  \/ \E r \in Runtimes : Tidy(r)

StartupSpec == StartupInit /\ [][StartupNext]_startupVars

\* Startup is straight-line code, and killed processes die.
Fairness ==
  /\ \A p \in Daemons : WF_startupVars(Step(p))
  /\ \A j \in Daemons : WF_startupVars(j \in killed /\ PayloadEnds(j))

StartupFairSpec == StartupSpec /\ Fairness

--------------------------------------------------------------------------------
Serving(p) == pc[p] \in {"serving", "closing", "drain"}

\* Shapes of the file system, the tree and the processes.
StartupTypeOK ==
  /\ \A r \in Runtimes : lock[r] \in Daemons \union {None}
  /\ \A r \in Runtimes : lock[r] # None => Alive(lock[r]) /\ R(lock[r]) = r
  /\ \A p \in Daemons : member[p] \in {"root", "manager", None}
  /\ \A p \in Daemons : (member[p] # None) = Alive(p)
  /\ running \subseteq dirs
  /\ jobs = None => dirs = {}

\* One delegated root serves one daemon, also when two daemons of different
\* runtime directories, hence different locks, start at the same time.
OneServing == \A p, q \in Daemons : Serving(p) /\ Serving(q) => p = q

\* A daemon that serves found no process of an earlier daemon left alive:
\* recovery has killed and removed every job cgroup before the socket opens.
ServingMeansRecovered == \A p \in Daemons : Serving(p) => dirs \subseteq {p}

\* Under one lock the jobs directory of a serving daemon is the one it created:
\* no other startup removes or replaces it.
ServingOwnsJobs == \A p \in Daemons : Serving(p) => jobs = p

\* Recovery never writes cgroup.kill of a job whose daemon is alive.
RecoverySparesLive ==
  [][\A j \in Daemons : j \in killed' \ killed => ~ Alive(j)]_startupVars

\* A socket file that disappears is removed by its own daemon or belongs to
\* one that does not listen any more: no startup cuts off a live daemon.
SocketSparesLive ==
  [][\A r \in Runtimes : LET owner == socket[r] IN
       owner # None /\ socket'[r] = None => ~ Listening(owner) \/ pc[owner] = "closing"]_startupVars

\* Every startup ends, in service or with an error: whatever a crash has left
\* behind, no start waits for ever.
StartupEnds == \A p \in Daemons : pc[p] = "lock" ~> Serving(p) \/ pc[p] = "dead"

\* What a crash leaves behind never makes later starts impossible: a daemon
\* that starts alone, with nothing failing, serves.
Alone(p) == \A q \in Daemons \ {p} : ~ Alive(q)
StartAloneServes ==
  \A p \in Daemons :
    pc[p] = "lock" /\ Alone(p) /\ deaths = MaxDeaths ~> Serving(p) \/ ~ Alone(p)
================================================================================

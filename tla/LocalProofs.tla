------------------------------ MODULE LocalProofs ------------------------------
(***************************************************************************)
(* Proofs about the local side of the daemon: how its server stops, and    *)
(* the files of its tasks.                                                 *)
(*                                                                         *)
(* The shutdown, for any number of clients.  Where the local server has    *)
(* left the accept loop none of its clients can start anything (Quiet), so *)
(* an idle count it reads afterwards stays true of them.  Without a remote *)
(* listener that is all there is, and no fail-stop can come late.          *)
(*                                                                         *)
(* The artifact store, for any number of submissions, failing calls and    *)
(* crashes.  A submission touches its own directories only, so the         *)
(* invariant is about one: what its position says of the bytes copied,     *)
(* the output verified and the directories left.                           *)
(***************************************************************************)
EXTENDS Listeners, LocalArtifacts, TLAPS

\* Most leaves are first-order: Zenon is the prover unless a leaf names another.
USE ZenonT(200)

--------------------------------------------------------------------------------
(* The shutdown *)

Statuses == {"none", "ok", "accept", "cleanup", "failstop"}

\* The types the proof needs beside ListenersTypeOK.
ServersTyped ==
  /\ local \in {"accept", "fsdrain", "cleanup", "drain", "idle", "inactive", "unlock", "done"}
  /\ main \in {"first", "select", "join", "exit"}
  /\ result \in [local : Statuses, remote : {"none", "ok", "error"},
                 daemon : {"none", "signal", "remote"} \cup Statuses]
  /\ failStop \in BOOLEAN /\ late \in BOOLEAN

\* No local connection is open and none of their requests is under way.
Quiet == \A c \in Local : conn[c] # "open" /\ op[c] # "dispatched"

LocalIdle == \A c \in Local : exec[c] \notin {"active", "stuck"}

\* From the end of the accept loop on no local client starts anything; before
\* the lock is released their executions were seen to have ended, or the
\* deadline has passed.
LocalInv ==
  /\ local \notin {"accept", "fsdrain"} => Quiet
  /\ local = "cleanup" /\ result.local = "failstop" => LocalIdle \/ late
  /\ local \in {"idle", "unlock", "done"} => LocalIdle \/ late

\* What the local server will report, and what it knows of a fail-stop.
ReportInv ==
  /\ local \in {"fsdrain", "inactive"} => failStop
  /\ local = "fsdrain" => result.local = "failstop"
  /\ local = "cleanup" /\ result.local = "failstop" => failStop
  /\ local \in {"drain", "idle", "inactive"} => result.local # "failstop"
  /\ local \in {"unlock", "done"} /\ result.local = "failstop" => failStop

\* Without remote clients nothing can start or fail once the local clients are
\* quiet and idle.
AloneInv ==
  /\ local = "idle" => ~ failStop /\ LocalIdle
  /\ local \in {"unlock", "done"} /\ result.local # "failstop" => ~ failStop /\ LocalIdle

ListenersInv == ListenersTypeOK /\ ServersTyped /\ LocalInv /\ ReportInv

ServersSame == UNCHANGED <<main, sent, local, remote, result, lock, socket>>

\* Every step keeps the types, the lock with its phase, and the results.
LEMMA ListenersTyped ==
  ASSUME ListenersTypeOK, ServersTyped, ListenersNext
  PROVE  ListenersTypeOK' /\ ServersTyped'
<1> USE DEF ListenersTypeOK, ServersTyped, Running, Statuses
<1>1. ASSUME NEW c \in Clients, ClientStep(c) \/ Submit(c) \/ ExecutionDone(c)
      PROVE  ListenersTypeOK' /\ ServersTyped'
  <2>1. ServersSame /\ late' = late /\ failStop' \in BOOLEAN /\ (failStop => failStop')
    BY <1>1 DEF ClientStep, accept_connections, accept_remote, handle_connection, Disconnect,
         activate, Submit, ExecutionDone, servers, ServersSame
  <2>2. conn' \in [Clients -> {"none", "open", "closed"}]
    BY SMTT(60), <1>1 DEF ClientStep, accept_connections, accept_remote, handle_connection, Disconnect,
         activate, Submit, ExecutionDone, Aborted
  <2>3. op' \in [Clients -> {"none", "dispatched", "answered", "aborted"}]
    BY SMTT(60), <1>1 DEF ClientStep, accept_connections, accept_remote, handle_connection, Disconnect,
         activate, Submit, ExecutionDone, AbortedOps
  <2>4. exec' \in [Clients -> {"none", "active", "stuck", "done"}]
    BY <1>1 DEF ClientStep, accept_connections, accept_remote, handle_connection, Disconnect,
         activate, Submit, ExecutionDone
  <2> QED BY SMTT(60), <2>1, <2>2, <2>3, <2>4 DEF ServersSame
<1>2. CASE Deadline
  BY SMTT(60), <1>2 DEF Deadline, clients, servers
<1>3. CASE StopFailStop
  BY <1>3 DEF StopFailStop, LocalGoes, clients
<1>4. CASE StopNormal
  BY <1>4 DEF StopNormal, LocalGoes, Aborted, AbortedOps
<1>5. CASE drain_fail_stop_connections
  BY <1>5 DEF drain_fail_stop_connections, Aborted, AbortedOps
<1>6. CASE SocketCleanup
  BY <1>6 DEF SocketCleanup, LocalGoes, clients
<1>7. CASE DrainFailStop \/ wait_idle \/ wait_for_shutdown_drain
  BY SMTT(60), <1>7 DEF DrainFailStop, wait_idle, wait_for_shutdown_drain, clients
<1>8. CASE wait_until_inactive
  BY <1>8 DEF wait_until_inactive, LocalGoes, clients
<1>9. CASE finish_protocol_serve
  BY <1>9 DEF finish_protocol_serve, clients
<1>10. CASE serve_remote_listener_until
  BY SMTT(60), <1>10 DEF serve_remote_listener_until, Aborted
<1>11. CASE Registered \/ Signal \/ ServerEnded
  BY SMTT(60), <1>11 DEF Registered, Signal, ServerEnded, clients
<1>12. CASE NotRegistered
  BY <1>12 DEF NotRegistered, Aborted, AbortedOps
<1>13. CASE serve_local_and_remote
  BY <1>13 DEF serve_local_and_remote, clients
<1> QED
  BY <1>1, <1>2, <1>3, <1>4, <1>5, <1>6, <1>7, <1>8, <1>9, <1>10, <1>11, <1>12, <1>13
  DEF ListenersNext, LocalStep, MainStep

\* A connection belongs to one listener.
Apart == Local \cap Remote = {}

\* Nothing a client, an execution or the remote server does wakes the local
\* server's clients up again.
LEMMA QuietStays ==
  ASSUME Apart, ListenersTypeOK, ServersTyped, ListenersNext, Quiet, local \notin {"accept", "fsdrain"}
  PROVE  Quiet' /\ (LocalIdle => LocalIdle')
<1> USE DEF ListenersTypeOK, Quiet, LocalIdle, Clients
<1>1. ASSUME NEW c \in Clients, ClientStep(c) \/ Submit(c) \/ ExecutionDone(c)
      PROVE  Quiet' /\ (LocalIdle => LocalIdle')
  <2>1. CASE accept_connections(c) \/ accept_remote(c)
    BY <2>1 DEF accept_connections, accept_remote, Apart
  <2>2. CASE handle_connection(c) \/ Submit(c)
    BY <2>2 DEF handle_connection, Submit
  <2>3. CASE Disconnect(c)
    BY <2>3 DEF Disconnect, Aborted, AbortedOps
  <2>4. CASE activate(c) \/ ExecutionDone(c)
    BY <2>4 DEF activate, ExecutionDone
  <2> QED BY <1>1, <2>1, <2>2, <2>3, <2>4 DEF ClientStep
<1>2. CASE StopFailStop \/ StopNormal \/ drain_fail_stop_connections
  BY <1>2 DEF StopFailStop, StopNormal, drain_fail_stop_connections
<1>3. CASE serve_remote_listener_until \/ NotRegistered
  BY SMTT(60), <1>3 DEF serve_remote_listener_until, NotRegistered, Aborted, AbortedOps
<1>4. CASE UNCHANGED clients
  BY <1>4 DEF clients
<1> QED
  BY <1>1, <1>2, <1>3, <1>4
  DEF ListenersNext, LocalStep, MainStep, SocketCleanup, DrainFailStop, wait_idle,
      wait_for_shutdown_drain, wait_until_inactive, finish_protocol_serve, Registered,
      ServerEnded, serve_local_and_remote, Signal, Deadline

\* Who moves the local server, and when.
LocalMoves ==
  \/ StopFailStop \/ StopNormal \/ drain_fail_stop_connections \/ SocketCleanup
  \/ DrainFailStop \/ wait_idle \/ wait_for_shutdown_drain \/ wait_until_inactive
  \/ finish_protocol_serve

\* The others leave its phase and its result alone, and undo no fail-stop.
LEMMA OthersMove ==
  ASSUME ServersTyped, ListenersNext, ~ LocalMoves
  PROVE  local' = local /\ result'.local = result.local /\ (failStop => failStop') /\ (late => late')
<1> USE DEF ServersTyped
<1>1. ASSUME NEW c \in Clients, ClientStep(c) \/ Submit(c) \/ ExecutionDone(c)
      PROVE  local' = local /\ result' = result /\ (failStop => failStop') /\ (late => late')
  BY <1>1 DEF ClientStep, accept_connections, accept_remote, handle_connection, Disconnect,
       activate, Submit, ExecutionDone, servers
<1>2. CASE Deadline
  BY <1>2 DEF Deadline, servers
<1>3. CASE serve_remote_listener_until \/ NotRegistered \/ serve_local_and_remote
  BY <1>3 DEF serve_remote_listener_until, NotRegistered, serve_local_and_remote
<1>4. CASE Registered \/ Signal \/ ServerEnded
  BY <1>4 DEF Registered, Signal, ServerEnded
<1> QED BY <1>1, <1>2, <1>3, <1>4 DEF ListenersNext, LocalStep, MainStep, LocalMoves

\* The local server ends its clients where it leaves the accept loop.
LEMMA AbortQuiets ==
  ASSUME ListenersTypeOK, conn' = Aborted(Local), op' = AbortedOps(Local)
  PROVE  Quiet'
BY DEF ListenersTypeOK, Quiet, Aborted, AbortedOps, Clients

\* The shutdown keeps the invariant.
LEMMA ListenersInduct ==
  ASSUME Apart, ListenersInv, ListenersNext
  PROVE  ListenersInv'
<1> USE DEF ListenersInv
<1>1. ListenersTypeOK' /\ ServersTyped'
  BY ListenersTyped
<1>2. CASE ~ LocalMoves
  <2>1. local' = local /\ result'.local = result.local /\ (failStop => failStop') /\ (late => late')
    BY <1>2, OthersMove
  <2>2. LocalInv'
    BY <2>1, QuietStays DEF LocalInv
  <2>3. ReportInv'
    BY <2>1 DEF ReportInv
  <2> QED BY <1>1, <2>2, <2>3
<1>3. CASE StopFailStop
  BY <1>1, <1>3 DEF StopFailStop, LocalGoes, LocalInv, ReportInv, ServersTyped
<1>4. CASE StopNormal
  BY <1>1, <1>4, AbortQuiets DEF StopNormal, LocalGoes, LocalInv, ReportInv, ServersTyped
<1>5. CASE drain_fail_stop_connections
  <2>1. Quiet'
    BY <1>5, AbortQuiets DEF drain_fail_stop_connections
  <2>2. LocalIdle' \/ late'
    BY <1>5 DEF drain_fail_stop_connections, LocalIdle, Active, Clients
  <2> QED BY <1>1, <1>5, <2>1, <2>2 DEF drain_fail_stop_connections, LocalInv, ReportInv
<1>6. CASE SocketCleanup
  <2>1. Quiet' /\ (LocalIdle => LocalIdle')
    BY <1>6, QuietStays DEF SocketCleanup, LocalInv
  <2> QED BY <1>1, <1>6, <2>1 DEF SocketCleanup, LocalGoes, LocalInv, ReportInv, ServersTyped
<1>7. CASE DrainFailStop \/ wait_for_shutdown_drain \/ finish_protocol_serve
  <2>1. Quiet' /\ (LocalIdle => LocalIdle')
    BY <1>7, QuietStays DEF DrainFailStop, wait_for_shutdown_drain, finish_protocol_serve, LocalInv
  <2> QED
    BY <1>1, <1>7, <2>1
    DEF DrainFailStop, wait_for_shutdown_drain, finish_protocol_serve, LocalInv, ReportInv
<1>8. CASE wait_idle
  <2>1. Quiet' /\ LocalIdle /\ (LocalIdle => LocalIdle')
    BY <1>8, QuietStays DEF wait_idle, LocalInv, LocalIdle, Active, Clients
  <2> QED BY <1>1, <1>8, <2>1 DEF wait_idle, LocalInv, ReportInv
<1>9. CASE wait_until_inactive
  <2>1. Quiet' /\ (LocalIdle \/ late) /\ (LocalIdle => LocalIdle')
    BY <1>9, QuietStays DEF wait_until_inactive, LocalInv, LocalIdle, Active, Clients
  <2> QED BY <1>1, <1>9, <2>1 DEF wait_until_inactive, LocalGoes, LocalInv, ReportInv, ServersTyped
<1> QED BY <1>2, <1>3, <1>4, <1>5, <1>6, <1>7, <1>8, <1>9 DEF LocalMoves

\* A daemon that begins to serve is in the invariant.
LEMMA ListenersStart == ListenersInit => ListenersInv
<1> SUFFICES ASSUME ListenersInit PROVE ListenersInv
  OBVIOUS
<1>1. ListenersTypeOK
  BY DEF ListenersInit, ListenersTypeOK, Running
<1>2. ServersTyped
  BY DEF ListenersInit, ServersTyped, Statuses
<1> QED BY <1>1, <1>2 DEF ListenersInit, ListenersInv, LocalInv, ReportInv

\* The invariant is about the variables of the daemon only.
LEMMA ListenersStutter == ListenersInv /\ UNCHANGED ListenersVars => ListenersInv'
BY SMTT(60) DEF ListenersVars, ListenersInv, ListenersTypeOK, ServersTyped, LocalInv, ReportInv, Running,
       Quiet, LocalIdle

\* Server phases, lock and results belong together however the daemon stops
\* (serve_local_and_remote, finish_protocol_serve).
THEOREM ListenersInvariance == ASSUME Apart PROVE ListenersSpec => []ListenersInv
<1>1. ListenersInit => ListenersInv
  BY ListenersStart
<1>2. ListenersInv /\ [ListenersNext]_ListenersVars => ListenersInv'
  BY ListenersInduct, ListenersStutter
<1> QED BY <1>1, <1>2, PTL DEF ListenersSpec

\* The startup lock is released only when the executions of the local clients
\* have ended or after the fail-stop deadline, whatever the remote listener and
\* its requests do meanwhile (wait_for_shutdown_drain, finish_protocol_serve).
THEOREM LockOutlivesLocal == ASSUME Apart PROVE ListenersSpec => []LocalDrained
<1>1. ListenersInv => LocalDrained
  BY DEF ListenersInv, ListenersTypeOK, LocalInv, LocalDrained, LocalIdle
<1> QED BY <1>1, ListenersInvariance, PTL

--------------------------------------------------------------------------------
(* The local server alone *)

\* Without remote clients nothing can start or fail once the local clients are
\* quiet and idle.
LEMMA IdleStays ==
  ASSUME Remote = {}, ListenersInv, ListenersNext, Quiet, LocalIdle, ~ failStop,
         local \notin {"accept", "fsdrain"}
  PROVE  ~ failStop' /\ LocalIdle'
<1>1. LocalIdle'
  BY QuietStays DEF ListenersInv, Apart
<1>2. ASSUME NEW c \in Clients, ClientStep(c) \/ Submit(c) \/ ExecutionDone(c)
      PROVE  failStop' = failStop
  <2>1. ~ activate(c)
    BY DEF activate, LocalIdle, Clients
  <2> QED
    BY <1>2, <2>1 DEF ClientStep, accept_connections, accept_remote, handle_connection, Disconnect,
         Submit, ExecutionDone
<1>3. failStop' = failStop
  BY <1>2
  DEF ListenersNext, LocalStep, MainStep, StopFailStop, StopNormal, drain_fail_stop_connections,
      SocketCleanup, DrainFailStop, wait_idle, wait_for_shutdown_drain, wait_until_inactive,
      finish_protocol_serve, Registered, ServerEnded, serve_local_and_remote, Signal, Deadline,
      serve_remote_listener_until, NotRegistered
<1> QED BY <1>1, <1>3

\* The idle count is true until the lock is released.
LEMMA AloneInduct ==
  ASSUME Remote = {}, ListenersInv, AloneInv, ListenersNext
  PROVE  AloneInv'
<1>1. local \in {"idle", "unlock", "done"} => Quiet
  BY DEF ListenersInv, LocalInv
<1>2. CASE ~ LocalMoves
  <2>1. local' = local /\ result'.local = result.local
    BY <1>2, OthersMove DEF ListenersInv
  <2> QED BY <1>1, <2>1, IdleStays DEF AloneInv
<1>3. CASE StopFailStop \/ StopNormal \/ drain_fail_stop_connections \/ DrainFailStop
  BY <1>3 DEF StopFailStop, StopNormal, drain_fail_stop_connections, DrainFailStop, LocalGoes, AloneInv
<1>4. CASE SocketCleanup
  BY <1>4 DEF SocketCleanup, LocalGoes, AloneInv
<1>5. CASE wait_idle
  <2>1. LocalIdle'
    BY <1>5 DEF wait_idle, LocalIdle, Active, Clients, clients
  <2> QED BY <1>5, <2>1 DEF wait_idle, AloneInv
<1>6. CASE wait_for_shutdown_drain \/ finish_protocol_serve
  <2>1. local \in {"idle", "unlock"} /\ result' = result
    BY <1>6 DEF wait_for_shutdown_drain, finish_protocol_serve
  <2>2. local = "idle" \/ result.local # "failstop" => ~ failStop' /\ LocalIdle'
    BY <1>1, <2>1, IdleStays DEF AloneInv
  <2> QED
    BY <1>6, <2>1, <2>2 DEF wait_for_shutdown_drain, finish_protocol_serve, AloneInv
<1>7. CASE wait_until_inactive
  BY <1>7 DEF wait_until_inactive, LocalGoes, AloneInv, ListenersInv, ServersTyped
<1> QED BY <1>2, <1>3, <1>4, <1>5, <1>6, <1>7 DEF LocalMoves

\* Without remote clients the daemon ends its local server cleanly only with every
\* execution cleaned up, and a fail-stop is what the server reports, at whatever
\* moment of the shutdown it is activated (finish_protocol_serve).
THEOREM DrainIsComplete == ASSUME Remote = {} PROVE ListenersSpec => []DrainComplete
<1>1. ListenersInit => ListenersInv /\ AloneInv
  BY ListenersStart DEF ListenersInit, AloneInv
<1>2. ListenersInv /\ AloneInv /\ [ListenersNext]_ListenersVars => (ListenersInv /\ AloneInv)'
  <2>1. Apart
    BY DEF Apart
  <2>2. ListenersInv /\ AloneInv /\ ListenersNext => (ListenersInv /\ AloneInv)'
    BY <2>1, ListenersInduct, AloneInduct
  <2>3. ListenersInv /\ AloneInv /\ UNCHANGED ListenersVars => (ListenersInv /\ AloneInv)'
    BY SMTT(60), ListenersStutter DEF ListenersVars, AloneInv, LocalIdle
  <2> QED BY <2>2, <2>3
<1>3. ListenersInv /\ AloneInv => DrainComplete
  <2> SUFFICES ASSUME ListenersInv, AloneInv, Running, ~ lock PROVE DrainComplete
    BY DEF DrainComplete
  <2>1. local = "done"
    BY DEF ListenersInv, ListenersTypeOK
  <2>2. LocalIdle <=> Active = {}
    BY DEF LocalIdle, Active, Clients
  <2> QED BY <2>1, <2>2 DEF ListenersInv, LocalInv, ReportInv, AloneInv, DrainComplete
<1> QED BY <1>1, <1>2, <1>3, PTL DEF ListenersSpec

\* A fail-stop the local server has seen is the result of the daemon, also beside
\* an error of the remote server (serve_local_and_remote).
THEOREM FailStopIsReported == ListenersSpec => []FailStopReported
<1> DEFINE Inv == ListenersTypeOK /\ ServersTyped /\ FailStopReported
<1>1. ListenersInit => Inv
  BY ListenersStart DEF ListenersInv, ListenersInit, FailStopReported
<1>2. Inv /\ [ListenersNext]_ListenersVars => Inv'
  <2> SUFFICES ASSUME Inv, [ListenersNext]_ListenersVars PROVE Inv'
    OBVIOUS
  <2>1. CASE UNCHANGED ListenersVars
    BY SMTT(60), <2>1 DEF ListenersVars, ListenersTypeOK, ServersTyped, FailStopReported, Running
  <2>2. CASE ListenersNext
    <3>1. CASE serve_local_and_remote
      BY <2>2, <3>1, ListenersTyped DEF serve_local_and_remote, FailStopReported, ServersTyped
    <3>2. CASE NotRegistered
      BY <2>2, <3>2, ListenersTyped DEF NotRegistered, FailStopReported, ServersTyped
    <3>3. CASE ~ serve_local_and_remote /\ ~ NotRegistered
      <4>1. Running /\ main' # "exit"
        BY <2>2, <3>3
        DEF ListenersNext, LocalStep, MainStep, ClientStep, accept_connections, accept_remote,
            handle_connection, Disconnect, activate, Submit, ExecutionDone, StopFailStop,
            StopNormal, drain_fail_stop_connections, SocketCleanup, DrainFailStop, wait_idle,
            wait_for_shutdown_drain, wait_until_inactive, finish_protocol_serve, Registered,
            ServerEnded, Signal, Deadline, serve_remote_listener_until, servers, Running
      <4> QED BY <2>2, <4>1, ListenersTyped DEF FailStopReported
    <3> QED BY <3>1, <3>2, <3>3
  <2> QED BY <2>1, <2>2
<1> QED BY <1>1, <1>2, PTL DEF ListenersSpec

--------------------------------------------------------------------------------
(* The files of the local artifact store *)

Bytes == {"declared", "other"}
Results == {"refused", "published", "rejected", "cleaned", "failstop"}
Staging == {"copy", "mkdir", "move", "rmdir", "undo"}
Places == {"start", "staged", "publish", "abandon", "dest", "rename", "clean", "unpublish",
           "reject", "end", "dead"} \cup Staging

\* None is no result and no file; the bound on the faults is a number.
FilesAssumption == None \notin Results \cup {"file"} /\ MaxFaults \in Nat

FilesTyped ==
  /\ source \in [1..Chunks -> Bytes]
  /\ pre \in [Calls -> Seq(Bytes) \cup {None}]
  /\ staging \in [Calls -> Seq(Bytes) \cup {None}]
  /\ out \in [Calls -> Outputs]
  /\ pub \in [Calls -> {None, "empty", "file"}]
  /\ pc \in [Calls -> Places]
  /\ made \in [Calls -> BOOLEAN]
  /\ res \in [Calls -> Results \cup {None}]
  /\ faults \in 0..MaxFaults

\* What holds of a submission: the bytes in its preflight directory are the
\* declared ones when they have been compared, its output is the verified one
\* from the check to the rollback, nothing is published before.
Submission(c) ==
  /\ pre[c] = None \/ Len(pre[c]) <= Chunks
  /\ (res[c] # None) = (pc[c] = "end")
  /\ staging[c] # None => made[c]
  /\ pc[c] = "copy" => pre[c] \in Seq(Bytes) /\ Len(pre[c]) < Chunks
  /\ pc[c] \in {"mkdir", "move"} => pre[c] = Declared
  /\ pc[c] = "move" => made[c]
  /\ staging[c] \in {None, <<>>, Declared}
  /\ pc[c] \in Staging \cup {"start", "staged"} => pub[c] # "file"
  /\ pc[c] \in {"dest", "rename", "clean", "unpublish"} => out[c] = "good"
  /\ pub[c] = "file" => out[c] = "good"
  /\ res[c] \in {"published", "rejected", "cleaned"} => staging[c] = None

FilesInv == FilesTyped /\ \A c \in Calls : Submission(c)

FileStep(c) ==
  \/ stage_input(c) \/ copy_and_verify_input(c) \/ CreateStaging(c)
  \/ MoveSnapshot(c) \/ RemovePreflight(c) \/ StageFails(c) \/ StageUndo(c)
  \/ Run(c) \/ Check(c) \/ CreateDestination(c) \/ PublishFails(c)
  \/ rename_no_replace(c) \/ PublishCleanup(c) \/ Unpublish(c)
  \/ publish_for_profile(c) \/ cleanup(c)

\* A failing call is counted.
LEMMA FaultCounted ==
  ASSUME FilesAssumption, FilesTyped, Fault \/ NoFault
  PROVE  faults' \in 0..MaxFaults
BY SMTT(60) DEF FilesAssumption, FilesTyped, Fault, NoFault

\* One read of the source, appended to what was copied before.
LEMMA ReadsBytes ==
  ASSUME FilesTyped, NEW c \in Calls, pre[c] \in Seq(Bytes), Len(pre[c]) < Chunks
  PROVE  LET read == Append(pre[c], source[Len(pre[c]) + 1])
         IN read \in Seq(Bytes) /\ Len(read) = Len(pre[c]) + 1 /\ Len(read) <= Chunks
<1>1. Len(pre[c]) \in Nat /\ Len(pre[c]) + 1 \in 1..Chunks
  BY SMTT(60) DEF Chunks
<1>2. source[Len(pre[c]) + 1] \in Bytes
  BY <1>1 DEF FilesTyped
<1> QED BY SMTT(60), <1>1, <1>2

\* A new directory holds no bytes.
LEMMA EmptyIsBytes == <<>> \in Seq(Bytes) /\ Len(<<>>) = 0 /\ Len(<<>>) < Chunks
BY SMTT(60) DEF Chunks

\* Every step of a submission keeps the types.
LEMMA FilesStayTyped ==
  ASSUME FilesAssumption, FilesInv, NEW c \in Calls, FileStep(c)
  PROVE  FilesTyped'
<1> USE DEF FilesInv
<1>0. faults' \in 0..MaxFaults
  <2>1. Fault \/ NoFault
    BY DEF FileStep, stage_input, Opened, OpenFails, copy_and_verify_input, CreateStaging,
         MoveSnapshot, RemovePreflight, StageFails, StageUndo, Run, Check, CreateDestination,
         PublishFails, rename_no_replace, PublishCleanup, Unpublish, publish_for_profile, cleanup
  <2> QED BY <2>1, FaultCounted
<1> USE DEF FilesTyped, Goto, Report, disk, Results, Places, Staging
<1>1. CASE stage_input(c)
  <2>1. pre' \in [Calls -> Seq(Bytes) \cup {None}]
    BY <1>1, EmptyIsBytes DEF stage_input, Opened, OpenFails, Snapshot
  <2>2. pc' \in [Calls -> Places] /\ res' \in [Calls -> Results \cup {None}]
    BY <1>1 DEF stage_input, Opened, OpenFails
  <2> QED BY <1>0, <1>1, <2>1, <2>2 DEF stage_input
<1>2. CASE copy_and_verify_input(c)
  <2>1. pre[c] \in Seq(Bytes) /\ Len(pre[c]) < Chunks
    BY <1>2 DEF copy_and_verify_input, Submission
  <2> QED BY <1>0, <1>2, <2>1, ReadsBytes DEF copy_and_verify_input, Snapshot
<1>3. CASE CreateStaging(c) \/ MoveSnapshot(c)
  <2>1. pre' \in [Calls -> Seq(Bytes) \cup {None}]
    BY <1>3, EmptyIsBytes DEF CreateStaging, MoveSnapshot
  <2>3. staging' \in [Calls -> Seq(Bytes) \cup {None}]
    BY <1>3, EmptyIsBytes DEF CreateStaging, MoveSnapshot
  <2>2. pc' \in [Calls -> Places] /\ made' \in [Calls -> BOOLEAN]
    BY <1>3 DEF CreateStaging, MoveSnapshot
  <2> QED BY <1>0, <1>3, <2>1, <2>2, <2>3 DEF CreateStaging, MoveSnapshot
<1>4. CASE RemovePreflight(c) \/ StageFails(c)
  BY <1>0, <1>4 DEF RemovePreflight, StageFails
<1>5. CASE StageUndo(c)
  BY <1>0, <1>5 DEF StageUndo
<1>6. CASE Run(c)
  BY SMTT(60), <1>0, <1>6 DEF Run
<1>7. CASE Check(c) \/ CreateDestination(c) \/ PublishFails(c)
  BY <1>0, <1>7 DEF Check, CreateDestination, PublishFails
<1>8. CASE rename_no_replace(c) \/ Unpublish(c)
  BY <1>0, <1>8 DEF rename_no_replace, Unpublish
<1>9. CASE PublishCleanup(c)
  BY <1>0, <1>9 DEF PublishCleanup, Removed
<1>10. CASE publish_for_profile(c) \/ cleanup(c)
  BY <1>0, <1>10 DEF publish_for_profile, cleanup, Removed
<1> QED BY <1>1, <1>2, <1>3, <1>4, <1>5, <1>6, <1>7, <1>8, <1>9, <1>10 DEF FileStep

\* A submission touches its own directories only.
LEMMA OthersUntouched ==
  ASSUME FilesTyped, NEW c \in Calls, FileStep(c), NEW d \in Calls \ {c}, Submission(d)
  PROVE  Submission(d)'
<1>1. pc'[d] = pc[d] /\ res'[d] = res[d]
  BY DEF FilesTyped, FileStep, Goto, Report, stage_input, Opened, OpenFails,
       copy_and_verify_input, CreateStaging, MoveSnapshot, RemovePreflight, StageFails, StageUndo,
       Run, Check, CreateDestination, PublishFails, rename_no_replace, PublishCleanup, Unpublish,
       publish_for_profile, cleanup
<1>2. pre'[d] = pre[d] /\ made'[d] = made[d]
  BY DEF FilesTyped, FileStep, Snapshot, disk, stage_input, Opened, OpenFails,
       copy_and_verify_input, CreateStaging, MoveSnapshot, RemovePreflight, StageFails, StageUndo,
       Run, Check, CreateDestination, PublishFails, rename_no_replace, PublishCleanup, Unpublish,
       publish_for_profile, cleanup
<1>3. staging'[d] = staging[d]
  BY DEF FilesTyped, FileStep, Removed, disk, stage_input, copy_and_verify_input, CreateStaging,
       MoveSnapshot, RemovePreflight, StageFails, StageUndo, Run, Check, CreateDestination,
       PublishFails, rename_no_replace, PublishCleanup, Unpublish, publish_for_profile, cleanup
<1>4. out'[d] = out[d] /\ pub'[d] = pub[d]
  BY DEF FilesTyped, FileStep, disk, stage_input, copy_and_verify_input, CreateStaging,
       MoveSnapshot, RemovePreflight, StageFails, StageUndo, Run, Check, CreateDestination,
       PublishFails, rename_no_replace, PublishCleanup, Unpublish, publish_for_profile, cleanup
<1> QED BY <1>1, <1>2, <1>3, <1>4 DEF Submission

\* A step of a submission keeps what its position says.
LEMMA SubmissionSteps ==
  ASSUME FilesAssumption, FilesInv, NEW c \in Calls, FileStep(c)
  PROVE  Submission(c)'
<1>0. FilesTyped /\ Submission(c)
  BY DEF FilesInv
<1> USE <1>0 DEF FilesTyped, Submission, Goto, Report, disk, Staging
<1>1. CASE stage_input(c)
  <2>1. CASE Opened(c)
    <3>1. pre'[c] = <<>> /\ pc'[c] = "copy" /\ UNCHANGED <<staging, out, pub, made, res>>
      BY <1>1, <2>1 DEF stage_input, Opened, Snapshot
    <3>2. pc[c] = "start" /\ Len(pre'[c]) <= Chunks /\ pre'[c] \in Seq(Bytes) /\ Len(pre'[c]) < Chunks
      BY SMTT(60), <1>1, <3>1, EmptyIsBytes DEF stage_input, Chunks
    <3> QED BY <3>1, <3>2
  <2>2. CASE OpenFails(c)
    BY <1>1, <2>2 DEF stage_input, OpenFails, FilesAssumption, Results
  <2> QED BY <1>1, <2>1, <2>2 DEF stage_input
<1>2. CASE copy_and_verify_input(c)
  <2>1. pre[c] \in Seq(Bytes) /\ Len(pre[c]) < Chunks
    BY <1>2 DEF copy_and_verify_input
  <2> QED BY <1>2, <2>1, ReadsBytes DEF copy_and_verify_input, Snapshot
<1>3. CASE CreateStaging(c)
  <2>1. staging'[c] = <<>> /\ made'[c] /\ pc'[c] = "move" /\ UNCHANGED <<pre, out, pub, res>>
    BY <1>3 DEF CreateStaging
  <2> QED BY <1>3, <2>1 DEF CreateStaging, FilesAssumption, Results
<1>4. CASE MoveSnapshot(c)
  <2>1. /\ staging'[c] = Declared /\ pre'[c] = <<>> /\ pc'[c] = "rmdir"
        /\ UNCHANGED <<out, pub, made, res>>
    BY <1>4 DEF MoveSnapshot
  <2>2. Len(pre'[c]) <= Chunks
    BY SMTT(60), <2>1, EmptyIsBytes DEF Chunks
  <2> QED BY <1>4, <2>1, <2>2 DEF MoveSnapshot, FilesAssumption, Results
<1>5. CASE RemovePreflight(c) \/ StageFails(c)
  BY <1>5 DEF RemovePreflight, StageFails
<1>6. CASE StageUndo(c)
  BY <1>6 DEF StageUndo, FilesAssumption, Results
<1>7. CASE Run(c)
  BY <1>7 DEF Run
<1>8. CASE Check(c)
  BY <1>8 DEF Check, require_exact_children, verify_output, Outputs
<1>9. CASE CreateDestination(c) \/ PublishFails(c)
  BY <1>9 DEF CreateDestination, PublishFails
<1>10. CASE rename_no_replace(c) \/ Unpublish(c)
  BY <1>10 DEF rename_no_replace, Unpublish
<1>11. CASE PublishCleanup(c)
  BY <1>11 DEF PublishCleanup, Removed, FilesAssumption, Results
<1>12. CASE publish_for_profile(c) \/ cleanup(c)
  BY <1>12 DEF publish_for_profile, cleanup, Removed, FilesAssumption, Results
<1> QED
  BY <1>1, <1>2, <1>3, <1>4, <1>5, <1>6, <1>7, <1>8, <1>9, <1>10, <1>11, <1>12 DEF FileStep

\* So do the owner of the source file and a crash.
LEMMA FilesInduct ==
  ASSUME FilesAssumption, FilesInv, Next
  PROVE  FilesInv'
<1>1. CASE \E c \in Calls : FileStep(c)
  BY <1>1, FilesStayTyped, SubmissionSteps, OthersUntouched DEF FilesInv
<1>2. CASE Rewrite
  BY <1>2 DEF Rewrite, disk, FilesInv, FilesTyped, Submission, Content, Bytes
<1>3. CASE Crash
  <2>1. FilesTyped'
    BY <1>3, FaultCounted DEF Crash, disk, FilesInv, FilesTyped, Places, Staging
  <2>2. ASSUME NEW c \in Calls PROVE Submission(c)'
    BY <1>3, <2>2 DEF Crash, disk, FilesInv, FilesTyped, Submission, Staging
  <2> QED BY <2>1, <2>2 DEF FilesInv
<1> QED BY <1>1, <1>2, <1>3 DEF Next, FileStep

\* The submissions of the store are in the invariant, whichever calls fail and
\* whenever the daemon crashes.
THEOREM FilesInvariance == ASSUME FilesAssumption PROVE Spec => []FilesInv
<1>1. Init => FilesInv
  <2> SUFFICES ASSUME Init PROVE FilesInv
    OBVIOUS
  <2>1. source \in [1..Chunks -> Bytes]
    BY DEF Init, Declared, Content, Bytes
  <2>2. FilesTyped
    BY SMTT(60), <2>1 DEF FilesAssumption, Init, FilesTyped, Outputs, Places, Results
  <2> QED BY <2>2 DEF Init, FilesInv, Submission, Staging, FilesAssumption, Results
<1>2. FilesInv /\ [Next]_vars => FilesInv'
  <2>1. FilesInv /\ UNCHANGED vars => FilesInv'
    BY SMTT(60) DEF vars, FilesInv, FilesTyped, Submission
  <2> QED BY <2>1, FilesInduct
<1> QED BY <1>1, <1>2, PTL DEF Spec

\* Directories and reports have their shapes, and only what was made is staged.
THEOREM FilesTypeCorrect == ASSUME FilesAssumption PROVE Spec => []TypeOK
<1>1. FilesInv => TypeOK
  BY SMTT(60) DEF FilesInv, FilesTyped, Submission, TypeOK
<1> QED BY <1>1, FilesInvariance, PTL

\* The input an execution reads has the declared digest, however its owner rewrites
\* the source while it is verified and copied (copy_and_verify_input).
THEOREM SnapshotsAreDeclared == ASSUME FilesAssumption PROVE Spec => []SnapshotDeclared
<1>1. FilesInv => SnapshotDeclared
  BY DEF FilesInv, Submission, SnapshotDeclared
<1> QED BY <1>1, FilesInvariance, PTL

\* A result is reported only with the staging directory gone, whichever call of
\* the publication or its rollback failed (publish_for_profile, cleanup).
THEOREM ReportedIsClean == ASSUME FilesAssumption PROVE Spec => []TerminalMeansClean
<1>1. FilesInv => TerminalMeansClean
  BY DEF FilesInv, Submission, TerminalMeansClean
<1> QED BY <1>1, FilesInvariance, PTL

\* An output in the published directory was verified, also after a crash in the
\* middle of a publication (publish_for_profile).
THEOREM PublishedIsVerified == ASSUME FilesAssumption PROVE Spec => []PublishedVerified
<1>1. FilesInv => PublishedVerified
  BY DEF FilesInv, Submission, PublishedVerified
<1> QED BY <1>1, FilesInvariance, PTL
================================================================================

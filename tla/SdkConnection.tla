----------------------------- MODULE SdkConnection -----------------------------
(***************************************************************************)
(* One Java SDK client shared by several threads: the request lock, the    *)
(* one lazily opened connection, the timeouts, interruption and the task   *)
(* handles that poll.  Kind selects the client and the handle:             *)
(*   "task"     DefaultTaskCageClient and TaskHandle (local protocol v1);  *)
(*   "profile"  the same client and ProfileTaskHandle (local protocol v2); *)
(*   "remote"   DefaultRemoteTaskCageClient and RemoteCapsuleTaskHandle.   *)
(*                                                                         *)
(* A thread's calls are about one task.  The bytes of a frame are left     *)
(* out: a frame is a request or a response.  The daemon's end of the       *)
(* connection is the loop of local_uds/server.rs or remote_tls/server.rs:  *)
(* one request at a time, whose operation goes on when the connection is   *)
(* lost.  Authentication is part of opening a remote connection.           *)
(***************************************************************************)
EXTENDS Naturals, Sequences, FiniteSets

CONSTANTS
  Threads,
  Kind,       \* "task", "profile" or "remote"
  Ops,        \* the calls the threads make
  MaxCalls,   \* bound on the calls of a thread
  MaxFaults,  \* bound on lost connections, restarts, stalls and interrupts
  MayStall,   \* whether the daemon may stop reading
  None

VARIABLES
  lock,        \* requestLock: the thread inside the client, or None
  wire,        \* the connection in use: both directions of its stream and
               \* the request the daemon handles; or None
  orphan,      \* a cancel of an abandoned connection may still be handled
  closed,      \* LocalConnectionManager.closed
  known,       \* profileProtocolConfirmed, or the cached remote capabilities
  finished,    \* the handle has seen a terminal snapshot
  task,        \* the daemon's task: "running", "finished", "cancelled", "gone"
  stalled,     \* the daemon does not read
  pc, op, want, attempt, expired, interrupted, result, calls, \* of a thread
  told,        \* threads that have been interrupted
  faults

shared == <<lock, wire, orphan, closed, known, finished, task, stalled, faults, told>>
thread == <<pc, op, want, attempt, expired, interrupted, result, calls>>
vars == <<lock, wire, orphan, closed, known, finished, task, stalled, pc, op, want,
          attempt, expired, interrupted, result, calls, told, faults>>

Local == Kind # "remote"
Requests == {"capabilities", "poll", "cancel", "submit", "begin", "chunk", "complete"}
Fresh == [up |-> TRUE, inbox |-> <<>>, busy |-> None, outbox |-> <<>>]

\* The envelope's requestId: fresh for every exchange that can be outstanding.
RequestId(t) == [by |-> t, call |-> calls[t], attempt |-> attempt[t], type |-> want[t]]

\* A frame that need not fit the socket buffers.
Large(type) == type \in {"chunk", "submit"}
Blocked(t) == wire.up /\ stalled /\ Large(want[t])

\* Timed requests: getTask(id, timeout) and getProfileResult(id, timeout).
Timed(t) == op[t] = "await"

Init ==
  /\ lock = None /\ wire = None /\ orphan = FALSE /\ closed = FALSE /\ known = FALSE
  /\ finished = FALSE /\ task = "running" /\ stalled = FALSE /\ faults = 0 /\ told = {}
  /\ pc = [t \in Threads |-> "idle"]
  /\ op = [t \in Threads |-> None]
  /\ want = [t \in Threads |-> None]
  /\ attempt = [t \in Threads |-> 0]
  /\ expired = [t \in Threads |-> FALSE]
  /\ interrupted = [t \in Threads |-> FALSE]
  /\ result = [t \in Threads |-> None]
  /\ calls = [t \in Threads |-> 0]

--------------------------------------------------------------------------------
(* Ends of a call. *)

Go(t, where) == pc' = [pc EXCEPT ![t] = where]

\* A call returns or throws; the flag of a thread whose wait was cut short is
\* set again (Thread.currentThread().interrupt()).
Return(t, value) ==
  /\ Go(t, "idle")
  /\ result' = [result EXCEPT ![t] = value]
  /\ expired' = [expired EXCEPT ![t] = FALSE]
  /\ attempt' = [attempt EXCEPT ![t] = 0]
  /\ op' = [op EXCEPT ![t] = None]
  /\ want' = [want EXCEPT ![t] = None]

\* The next exchange of a call.
Ask(t, type, n, where) ==
  /\ Go(t, where)
  /\ want' = [want EXCEPT ![t] = type]
  /\ attempt' = [attempt EXCEPT ![t] = n]
  /\ UNCHANGED <<op, expired, result>>

\* The requests the daemon has been sent and has not answered.
Sent == {wire.inbox[i] : i \in 1..Len(wire.inbox)} \cup ({wire.busy} \ {None})

\* closeConnection: what the daemon has been sent may still be handled; of
\* these requests only a cancel changes the task.
closeConnection ==
  /\ wire' = None
  /\ orphan' = (orphan \/ (wire # None /\ \E r \in Sent : r.type = "cancel"))

\* capabilities() of the local client has one more attempt.
Retried(t) == Local /\ want[t] = "capabilities" /\ ~Timed(t) /\ attempt[t] = 0

\* What becomes of a TaskCageConnectionException: await() tells interruption
\* and its own deadline from a lost connection.
Thrown(t) ==
  IF Retried(t)
    THEN Ask(t, "capabilities", 1, "lock")
    ELSE Return(t, CASE Timed(t) /\ interrupted[t] -> "interrupted"
                     [] Timed(t) /\ ~interrupted[t] /\ expired[t] -> "timeout"
                     [] OTHER -> "connection")

\* Faulty Failed: the connection is kept after a failed exchange.
Failed_keep(t) ==
  /\ Thrown(t) /\ lock' = None
  /\ UNCHANGED <<wire, orphan, closed, known, finished, task, stalled, interrupted, calls, told, faults>>

\* An IOException in an exchange: the connection is dropped, the lock freed.
Failed(t) ==
  /\ Thrown(t) /\ closeConnection /\ lock' = None
  /\ UNCHANGED <<closed, known, finished, task, stalled, interrupted, calls, told, faults>>

--------------------------------------------------------------------------------
(* The thread. *)

\* The first exchange of a call: a profile operation of the local client asks
\* for the capabilities first, an upload of the remote one begins.
First(what) ==
  CASE what \in {"get", "await"} -> IF Kind = "profile" /\ ~known THEN "capabilities" ELSE "poll"
    [] what = "upload" -> "begin"
    [] OTHER -> what

Start(t, what) ==
  /\ pc[t] = "idle" /\ calls[t] < MaxCalls
  /\ calls' = [calls EXCEPT ![t] = @ + 1]
  /\ IF what \in {"get", "await"} /\ finished
       THEN /\ Go(t, "idle") /\ result' = [result EXCEPT ![t] = "finished"]
            /\ UNCHANGED <<op, want>>
       ELSE /\ Go(t, IF what = "await" THEN "check" ELSE "lock")
            /\ op' = [op EXCEPT ![t] = what]
            /\ want' = [want EXCEPT ![t] = First(what)]
            /\ result' = [result EXCEPT ![t] = None]
  /\ UNCHANGED <<attempt, expired, interrupted>> /\ UNCHANGED shared

\* The head of the loop of await.
Check(t) ==
  /\ pc[t] = "check"
  /\ IF interrupted[t] \/ expired[t]
       THEN Return(t, IF interrupted[t] THEN "interrupted" ELSE "timeout")
       ELSE Ask(t, First("await"), 0, "lock")
  /\ UNCHANGED <<interrupted, calls>> /\ UNCHANGED shared

\* An InterruptedException clears the flag; the handler sets it again.
Cut(t) == interrupted' = [interrupted EXCEPT ![t] = TRUE]

\* tryLock gives up at the deadline or when interrupted; lock() never does.
LockGivenUp(t) ==
  /\ pc[t] = "lock" /\ Timed(t)
  /\ \/ /\ interrupted[t]
        /\ Return(t, "interrupted") /\ Cut(t)
     \/ /\ expired[t] /\ ~interrupted[t]
        /\ Return(t, "timeout") /\ UNCHANGED interrupted
  /\ UNCHANGED calls /\ UNCHANGED shared

Lock(t) ==
  /\ pc[t] = "lock" /\ lock = None
  /\ lock' = t /\ Go(t, "connect")
  /\ UNCHANGED <<op, want, attempt, expired, interrupted, result, calls>>
  /\ UNCHANGED <<wire, orphan, closed, known, finished, task, stalled, faults, told>>

\* close(): only the local client stays closed.
Close(t) ==
  /\ pc[t] = "connect" /\ want[t] = "close"
  /\ Return(t, "closed") /\ closeConnection /\ lock' = None
  /\ closed' = (closed \/ Local)
  /\ UNCHANGED <<known, finished, task, stalled, interrupted, calls, told, faults>>

\* LocalConnectionManager.isClosed, checked under the lock.
Usable == ~closed

Refused(t) ==
  /\ pc[t] = "connect" /\ want[t] # "close" /\ ~Usable
  /\ Return(t, "illegal state") /\ lock' = None
  /\ UNCHANGED <<wire, orphan, closed, known, finished, task, stalled, interrupted, calls, told, faults>>

\* The cached remote capabilities need no exchange.
Cached(t) ==
  /\ pc[t] = "connect" /\ ~Local /\ want[t] = "capabilities" /\ known
  /\ IF op[t] = "upload"
       THEN Ask(t, "chunk", 0, "connect") /\ UNCHANGED lock
       ELSE Return(t, "capabilities") /\ lock' = None
  /\ UNCHANGED <<wire, orphan, closed, known, finished, task, stalled, interrupted, calls, told, faults>>

\* requireConnection and ensureConnection: connect only without a connection.
\* A timed request whose deadline has passed on the way in fails here; the
\* local client also drops the connection then.
Connect(t) ==
  /\ pc[t] = "connect" /\ want[t] # "close" /\ Usable
  /\ ~(~Local /\ want[t] = "capabilities" /\ known)
  /\ \/ /\ Timed(t) /\ expired[t]
        /\ IF Local THEN Failed(t)
           ELSE Thrown(t) /\ lock' = None /\ UNCHANGED <<wire, orphan, closed, known,
                 finished, task, stalled, interrupted, calls, told, faults>>
     \/ /\ ~(Timed(t) /\ expired[t])
        /\ wire' = IF wire = None THEN Fresh ELSE wire
        /\ Go(t, "write")
        /\ UNCHANGED <<op, want, attempt, expired, interrupted, result, calls>>
        /\ UNCHANGED <<lock, orphan, closed, known, finished, task, stalled, faults, told>>

\* connect, the handshake or the authentication exchange fails or times out.
ConnectFails(t) ==
  /\ pc[t] = "connect" /\ want[t] # "close" /\ Usable /\ wire = None
  /\ ~(~Local /\ want[t] = "capabilities" /\ known)
  /\ faults < MaxFaults /\ faults' = faults + 1
  /\ Thrown(t) /\ lock' = None
  /\ UNCHANGED <<wire, orphan, closed, known, finished, task, stalled, interrupted, calls, told>>

Write(t) ==
  /\ pc[t] = "write" /\ ~Blocked(t)
  /\ IF wire.up
       THEN /\ wire' = [wire EXCEPT !.inbox = Append(@, RequestId(t))]
            /\ Go(t, "read")
            /\ UNCHANGED <<op, want, attempt, expired, interrupted, result, calls>>
            /\ UNCHANGED <<lock, orphan, closed, known, finished, task, stalled, faults, told>>
       ELSE Failed(t)

\* What a decoded answer tells the caller: a cancelled task is a finished one
\* to a poll, a daemon error is an exception of its own.
Outcome(type, body) == IF type = "poll" /\ body = "cancelled" THEN "finished" ELSE body

\* What a call does with the answer to its request.
Deliver(t, body) ==
  LET unlock == lock' = None
      more == UNCHANGED lock IN
  /\ known' = (known \/ (want[t] = "capabilities" /\ Kind # "task"))
  /\ finished' = (finished \/ (want[t] = "poll" /\ Outcome("poll", body) = "finished"))
  /\ CASE want[t] = "capabilities" /\ op[t] \in {"get", "await"} -> Ask(t, "poll", 0, "lock") /\ unlock
       [] want[t] = "capabilities" /\ op[t] = "upload" -> Ask(t, "chunk", 0, "connect") /\ more
       [] want[t] = "begin" -> Ask(t, "capabilities", 0, "connect") /\ more
       [] want[t] = "chunk" -> Ask(t, "complete", 0, "connect") /\ more
       [] want[t] = "poll" /\ op[t] = "await" /\ body = "running" -> Ask(t, "poll", 0, "pause") /\ unlock
       [] OTHER -> Return(t, Outcome(want[t], body)) /\ unlock

\* validateEnvelope and readAndValidate: the requestId is the request's own.
Matches(t, response) == response.id = RequestId(t)

\* The answer is read and matched with the request; a mismatch is a
\* TaskCageProtocolException, which does not drop the connection.
Read(t) ==
  /\ pc[t] = "read" /\ wire # None /\ wire.outbox # <<>>
  /\ LET response == Head(wire.outbox) IN
       IF Matches(t, response)
         THEN Deliver(t, response.body)
         ELSE Return(t, "protocol") /\ lock' = None /\ UNCHANGED <<known, finished>>
  /\ wire' = [wire EXCEPT !.outbox = Tail(@)]
  /\ UNCHANGED <<orphan, closed, task, stalled, interrupted, calls, told, faults>>

\* The daemon has closed its end.
EndOfStream(t) ==
  /\ pc[t] = "read" /\ (wire = None \/ (~wire.up /\ wire.outbox = <<>>))
  /\ Failed(t)

\* Faulty RequestTimeout: only reading is bounded.
RequestTimeout_read(t) ==
  /\ pc[t] = "read"
  /\ Failed(t)

\* requestTimeout, or what is left of the wait, has passed.  Reading is
\* bounded by both clients, writing only by the local one.
RequestTimeout(t) ==
  /\ pc[t] = "read" \/ (pc[t] = "write" /\ Local /\ Blocked(t))
  /\ Failed(t)

\* select() of the local client returns at once in an interrupted thread; the
\* remote client's blocking streams do not notice.
SelectInterrupted(t) ==
  /\ Local /\ interrupted[t]
  /\ \/ pc[t] = "read" /\ wire # None /\ wire.outbox = <<>>
     \/ pc[t] = "write" /\ Blocked(t)
  /\ Failed(t)

\* After a running snapshot: the deadline, then the sleep between polls.
Pause(t) ==
  /\ pc[t] = "pause"
  /\ \/ /\ expired[t] /\ Return(t, "timeout") /\ UNCHANGED interrupted
     \/ /\ ~expired[t] /\ interrupted[t] /\ Return(t, "interrupted") /\ Cut(t)
     \/ /\ ~expired[t] /\ ~interrupted[t] /\ Go(t, "check")
        /\ UNCHANGED <<op, want, attempt, expired, result, interrupted>>
  /\ UNCHANGED calls /\ UNCHANGED shared

\* The deadline of an await passes.
Deadline(t) ==
  /\ Timed(t) /\ ~expired[t]
  /\ expired' = [expired EXCEPT ![t] = TRUE]
  /\ UNCHANGED <<pc, op, want, attempt, interrupted, result, calls>> /\ UNCHANGED shared

Interrupt(t) ==
  /\ pc[t] # "idle" /\ ~interrupted[t]
  /\ faults < MaxFaults /\ faults' = faults + 1
  /\ interrupted' = [interrupted EXCEPT ![t] = TRUE]
  /\ told' = told \cup {t}
  /\ UNCHANGED <<pc, op, want, attempt, expired, result, calls>>
  /\ UNCHANGED <<lock, wire, orphan, closed, known, finished, task, stalled>>

--------------------------------------------------------------------------------
(* The daemon. *)

\* The operation of a request and the body of its answer.
Body(type) ==
  CASE type = "poll" -> IF task = "gone" THEN "refused" ELSE task
    [] type = "cancel" -> IF task = "running" THEN "cancelled" ELSE "refused"
    [] OTHER -> type
TaskAfter(type) == IF type = "cancel" /\ task = "running" THEN "cancelled" ELSE task

daemonOnly == UNCHANGED thread /\ UNCHANGED <<lock, closed, known, finished, told>>

\* The loop of handle_connection and serve_authenticated: one frame at a time.
Take ==
  /\ wire # None /\ wire.up /\ ~stalled
  /\ wire.busy = None /\ wire.inbox # <<>>
  /\ wire' = [wire EXCEPT !.busy = Head(wire.inbox), !.inbox = Tail(@)]
  /\ daemonOnly /\ UNCHANGED <<orphan, task, stalled, faults>>

Answer ==
  /\ wire # None /\ wire.up /\ ~stalled /\ wire.busy # None
  /\ wire' = [wire EXCEPT !.busy = None,
                          !.outbox = Append(@, [id |-> wire.busy, body |-> Body(wire.busy.type)])]
  /\ task' = TaskAfter(wire.busy.type)
  /\ daemonOnly /\ UNCHANGED <<orphan, stalled, faults>>

\* An operation outlives its connection.
Orphan ==
  /\ ~stalled /\ orphan
  /\ orphan' = FALSE /\ task' = TaskAfter("cancel")
  /\ daemonOnly /\ UNCHANGED <<wire, stalled, faults>>

\* The daemon closes the connection: the idle timeout or the end of the
\* session of the remote server, also while an operation runs.
Hangup ==
  /\ ~Local /\ wire # None /\ wire.up /\ ~stalled
  /\ faults < MaxFaults /\ faults' = faults + 1
  /\ wire' = [wire EXCEPT !.up = FALSE, !.inbox = <<>>, !.busy = None]
  /\ orphan' = (orphan \/ (wire.busy # None /\ wire.busy.type = "cancel"))
  /\ daemonOnly /\ UNCHANGED <<task, stalled>>

\* The daemon restarts: connections, operations and tasks are gone.
Restart ==
  /\ faults < MaxFaults /\ faults' = faults + 1
  /\ wire' = IF wire = None THEN None
             ELSE [wire EXCEPT !.up = FALSE, !.inbox = <<>>, !.busy = None]
  /\ orphan' = FALSE /\ task' = "gone" /\ stalled' = FALSE
  /\ daemonOnly

Stall ==
  /\ MayStall /\ ~stalled
  /\ faults < MaxFaults /\ faults' = faults + 1
  /\ stalled' = TRUE
  /\ daemonOnly /\ UNCHANGED <<wire, orphan, task>>

\* The task ends, and is evicted from the registry later.
TaskEnds ==
  /\ task \in {"running", "finished", "cancelled"}
  /\ task' = IF task = "running" THEN "finished" ELSE "gone"
  /\ daemonOnly /\ UNCHANGED <<wire, orphan, stalled, faults>>

--------------------------------------------------------------------------------
Step(t) ==
  \/ Check(t) \/ LockGivenUp(t) \/ Lock(t) \/ Close(t) \/ Refused(t) \/ Cached(t)
  \/ Connect(t) \/ ConnectFails(t) \/ Write(t) \/ Read(t) \/ EndOfStream(t)
  \/ RequestTimeout(t) \/ SelectInterrupted(t) \/ Pause(t)

Next ==
  \/ \E t \in Threads :
       (\E what \in Ops : Start(t, what)) \/ Step(t) \/ Deadline(t) \/ Interrupt(t)
  \/ Take \/ Answer \/ Orphan \/ Hangup \/ Restart \/ Stall \/ TaskEnds

\* Threads run and timers fire; nothing is expected of the daemon.
Spec ==
  /\ Init /\ [][Next]_vars
  /\ \A t \in Threads : WF_vars(Step(t)) /\ WF_vars(Deadline(t))

--------------------------------------------------------------------------------
Results == {None, "running", "finished", "cancelled", "refused", "capabilities", "submit",
            "complete", "closed", "illegal state", "connection", "protocol", "timeout",
            "interrupted"}

\* The state of the client is well formed: a thread holds the lock exactly
\* while it opens the connection, writes or reads (LocalRequestExecutor.request
\* and the locked methods of DefaultRemoteTaskCageClient).
TypeOK ==
  /\ lock \in Threads \cup {None}
  /\ \A t \in Threads :
       /\ pc[t] \in {"idle", "check", "lock", "connect", "write", "read", "pause"}
       /\ pc[t] \in {"connect", "write", "read"} <=> lock = t
       /\ pc[t] \in {"write", "read"} => wire # None
       /\ want[t] \in Requests \cup {"close", None}
       /\ result[t] \in Results
  /\ task \in {"running", "finished", "cancelled", "gone"}

\* Between calls the connection is quiet: no request of an earlier call is on
\* it and no answer is left to be read, whatever timed out, was interrupted or
\* was lost before.  The next call therefore reads the answer to its own
\* request (closeConnection in every IOException path of both clients).
QuietBetweenCalls ==
  lock = None /\ wire # None => wire.inbox = <<>> /\ wire.busy = None /\ wire.outbox = <<>>

\* No call of a client whose daemon keeps to the protocol throws
\* TaskCageProtocolException: threads never read each other's answers.
NoDesync == \A t \in Threads : result[t] # "protocol"

\* A thread that was interrupted during a call still has its interrupt flag
\* after it, on every path out of the lock, the sleep and the I/O ("interrupt
\* status is preserved", TaskHandle and both lockForRequest).
InterruptKept == \A t \in told : interrupted[t]

\* After close() the local client holds no connection, and a request that was
\* waiting for the lock meanwhile does not open one again.
ClosedStaysClosed == closed => wire = None

\* Every call ends, whatever the daemon does: the waits for the lock, for the
\* connection, for the answer and between polls are all bounded.
EveryCallReturns == \A t \in Threads : pc[t] # "idle" ~> pc[t] = "idle"
================================================================================

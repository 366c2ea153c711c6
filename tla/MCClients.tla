------------------------------- MODULE MCClients -------------------------------
(***************************************************************************)
(* The Java SDK, for TLC, side by side: a local client shared by two       *)
(* threads (local), a remote one (remote), the recoverable workflow of a   *)
(* worker (workflow), and what budgets (budgets) and results (results)     *)
(* become on the wire.  part names the one that takes the steps of a       *)
(* behaviour; they share no state.                                         *)
(***************************************************************************)
EXTENDS Naturals, Sequences, FiniteSets, TLC

CONSTANTS t1, t2, None

VARIABLES
  part,
  lock, wire, orphan, closed, capable, finished, task, stalled, pc, op, want, attempt, expired,
  interrupted, result, calls, told, faults,
  file, daemon, late, request, reply, stage, declared, receipt, artifact, offset, partial, dest,
  edits, losses,
  kind, wanted, effective, raw, terminal, recorded, answer, seen, known, lost

connectionVars ==
  <<lock, wire, orphan, closed, capable, finished, task, stalled, pc, op, want, attempt, expired,
    interrupted, result, calls, told, faults>>
workflowVars ==
  <<file, daemon, late, request, reply, stage, declared, receipt, artifact, offset, partial, dest,
    edits, losses>>
wireVars == <<kind, wanted, effective, raw, terminal, recorded, answer, seen, known, lost>>
allVars == <<part, connectionVars, workflowVars, wireVars>>

Local == INSTANCE SdkConnection WITH
  Threads <- {t1, t2}, Kind <- "task", MaxCalls <- 1, MaxFaults <- 2, MayStall <- TRUE,
  Ops <- {"capabilities", "get", "await", "cancel", "submit", "close"}, known <- capable
Remote == INSTANCE SdkConnection WITH
  Threads <- {t1, t2}, Kind <- "remote", MaxCalls <- 1, MaxFaults <- 2, MayStall <- FALSE,
  Ops <- {"await", "cancel", "upload"}, known <- capable

Workflow == INSTANCE SdkWorkflow WITH
  Size <- 2, MaxEdits <- 1, MaxLost <- 2, MayEndAtOnce <- FALSE, MayGiveUp <- TRUE,
  answer <- reply, part <- partial, lost <- losses

--------------------------------------------------------------------------------
\* Each value stands for a field, so that no two fields can be mistaken for one
\* another: 1..6 are within the policy 11..16, 21..26 beyond it.
Number == [cpu |-> 1, memory |-> 2, pids |-> 3, wall |-> 4, stdout |-> 5, stderr |-> 6]
Names == DOMAIN Number
Most == [f \in Names |-> 10 + Number[f]]
Optional == Names \ {"pids"}
Ceiling == [f \in Names |-> IF f = "wall" THEN 14 ELSE 22]

\* Every field alone or with others, within the policy, one of them beyond it.
Small == {[f \in Names |-> IF f \in set THEN Number[f] ELSE None] : set \in SUBSET Names}
AllWanted == Small \cup {[w EXCEPT ![f] = 20 + Number[f]] : w \in Small, f \in Names}
FewWanted == {[f \in Names |-> IF f \in set THEN Number[f] ELSE None] : set \in {Names, Optional}}

\* How a task can end: its process with a status or a signal, or before it ran.
Reasons == {"EXECUTION_FAILED", "CANCELLED", "TIMED_OUT", "MEMORY_LIMIT_EXCEEDED",
            "PROCESS_LIMIT_EXCEEDED", "DAEMON_ERROR"}
Result(reason, exit, signal) ==
  [reason |-> reason, exit |-> exit, signal |-> signal, out |-> [stdout |-> "o", stderr |-> "e"]]
Exited(reason) ==
  {Result(reason, 0, None), Result(reason, 1, None), Result(reason, None, "SIGKILL")}
FewResults == Exited("EXITED") \cup {Result("EXECUTION_FAILED", None, None)}
AllResults ==
  Exited("EXITED") \cup {Result(r, None, None) : r \in Reasons}
    \cup UNION {Exited(r) : r \in Reasons \ {"EXECUTION_FAILED"}}

Published ==
  {[failed |-> None, size |-> 1], [failed |-> "undeclared", size |-> 0], [failed |-> "io", size |-> 0]}

Budgets == INSTANCE WireContract WITH
  Kinds <- {"raw", "profile", "remote"}, Wanted <- AllWanted, Policy <- Most, Allowed <- Optional,
  Deployment <- Ceiling, Results <- FewResults, Publications <- Published, MaxLost <- 1
Endings == INSTANCE WireContract WITH
  Kinds <- {"raw", "profile", "remote"}, Wanted <- FewWanted, Policy <- Most, Allowed <- Optional,
  Deployment <- Ceiling, Results <- AllResults, Publications <- Published, MaxLost <- 2

--------------------------------------------------------------------------------
\* The wire contract has many initial states: while another part moves it stays
\* at one of them.
WireAside ==
  /\ kind = "raw" /\ wanted = [f \in Names |-> Number[f]] /\ effective = None /\ raw = None
  /\ terminal = None /\ recorded = None /\ answer = None /\ seen = [type |-> "nothing"]
  /\ known = FALSE /\ lost = 0

Init ==
  /\ part \in {"local", "remote", "workflow", "budgets", "results"}
  /\ IF part = "remote" THEN Remote!Init ELSE Local!Init
  /\ Workflow!Init
  /\ CASE part = "budgets" -> Budgets!Init
       [] part = "results" -> Endings!Init
       [] OTHER -> WireAside

Next ==
  \/ /\ \/ part = "local" /\ Local!Next
        \/ part = "remote" /\ Remote!Next
     /\ UNCHANGED <<part, workflowVars, wireVars>>
  \/ /\ part = "workflow" /\ Workflow!Next
     /\ UNCHANGED <<part, connectionVars, wireVars>>
  \/ /\ \/ part = "budgets" /\ Budgets!Next
        \/ part = "results" /\ Endings!Next
     /\ UNCHANGED <<part, connectionVars, workflowVars>>

\* A step of one part leaves the state of the others as it is.
OfConnection(A) == A /\ UNCHANGED <<part, workflowVars, wireVars>>
OfWorkflow(A) == part = "workflow" /\ A /\ UNCHANGED <<part, connectionVars, wireVars>>
OfWire(A) == A /\ UNCHANGED <<part, connectionVars, workflowVars>>
Ending(A) == OfWire(part = "results" /\ A)

\* The fairness of the modules, for the part that moves.  part never changes, so
\* in a behaviour only the actions of one part are ever enabled: weak fairness of
\* a disjunction of actions of different parts is weak fairness of each.
Step(t) == OfConnection(\/ part = "local" /\ Local!Step(t)
                        \/ part = "remote" /\ Remote!Step(t))
Deadline(t) == OfConnection(\/ part = "local" /\ Local!Deadline(t)
                            \/ part = "remote" /\ Remote!Deadline(t))
Fairness ==
  /\ WF_allVars(Step(t1) \/ OfWorkflow(Workflow!Worker) \/ Ending(Endings!SubmitNew))
  /\ WF_allVars(Step(t2) \/ OfWorkflow(Workflow!Serve) \/ Ending(Endings!SubmitAgain))
  /\ WF_allVars(Deadline(t1) \/ OfWorkflow(Workflow!ServeLate) \/ Ending(Endings!Finish))
  /\ WF_allVars(Deadline(t2) \/ OfWorkflow(Workflow!TaskEnds) \/ Ending(Endings!Poll))
  /\ WF_allVars(Ending(Endings!Receive))

Spec == Init /\ [][Next]_allVars /\ Fairness

--------------------------------------------------------------------------------
\* Two threads share one connection: between two calls it holds no request and
\* no answer, no thread is given the answer to another, an interrupt is still
\* set when the call is over, and a closed client has no connection
\* (LocalRequestExecutor.request, DefaultRemoteTaskCageClient).
ConnectionSound ==
  /\ part = "local" => /\ Local!TypeOK /\ Local!QuietBetweenCalls /\ Local!NoDesync
                       /\ Local!InterruptKept /\ Local!ClosedStaysClosed
  /\ part = "remote" => /\ Remote!TypeOK /\ Remote!QuietBetweenCalls /\ Remote!NoDesync
                        /\ Remote!InterruptKept

\* A worker that repeats each stage with the same key never has two tasks,
\* runs on exactly the bytes of the upload it holds a receipt of, and never
\* leaves part of an output at the destination (RemoteCapsuleRunner).
WorkflowSound ==
  part = "workflow" => /\ Workflow!TypeOK /\ Workflow!InputExact
                       /\ Workflow!OneTask /\ Workflow!NoPartialOutput

\* The budget a caller asks for is the budget its task runs with and a refusal
\* has a cause; the end of a task is read by the SDK as the registry holds it
\* (wire.rs, LocalProtocolMapper and its remote twin).
WireSound ==
  /\ part = "budgets" => Budgets!TypeOK /\ Budgets!BudgetArrives /\ Budgets!RefusedForCause
  /\ part = "results" => Endings!TypeOK /\ Endings!ResultArrives /\ Endings!ResultReadable

\* EveryCallReturns of SdkConnection, Settles and HandleRecovered of SdkWorkflow,
\* and the answer of WireContract, in two formulas: part never changes, so a
\* leads-to over several parts says of each what its own would.
Owed(t) ==
  \/ pc[t] # "idle"
  \/ /\ part = "workflow"
     /\ IF t = t1 THEN stage \notin Workflow!Terminal ELSE daemon.made > 0 /\ stage = "submit"
  \/ part = "results" /\ seen.type = "handle"
Given(t) ==
  CASE part = "workflow" -> IF t = t1 THEN stage \in Workflow!Terminal ELSE stage = "await"
    [] part = "results" -> seen.type = "finished"
    [] OTHER -> pc[t] = "idle"

\* Every call of the local client returns, also when the daemon restarts or
\* stops reading, and every call of the remote one while the daemon reads: the
\* deadline closes the socket under a blocked reader or writer.  A worker reaches
\* an end whatever answers are lost, and one whose submission made a task gets
\* back to waiting for it; a caller that has its handle learns how its task ended.
ClientsSettle == \A t \in {t1, t2} : Owed(t) ~> Given(t)
================================================================================

-------------------------------- MODULE MCRemote --------------------------------
(***************************************************************************)
(* Instances of RemoteSession and RemoteTasks for TLC, side by side: two   *)
(* connections with one credential check at a time (sessions), two         *)
(* submissions that want the same input (inputs).  They share no state:    *)
(* part names the one that takes the steps of a behaviour, the other stays *)
(* as it begins.                                                           *)
(***************************************************************************)
EXTENDS RemoteSession, TLC

CONSTANTS None, c1, c2, g1, k1, k2, a1

VARIABLES
  part,
  submissions, checked, lock, input, raw, remote_tasks, input_owners, finished,
  cacheLock, published, pc, on, then, answer, failstop, faults

Calls == {c1, c2}
Readers == {g1}
Tasks == INSTANCE RemoteTasks WITH
  Keys <- {k1, k2}, KeyOf <- (c1 :> k1) @@ (c2 :> k2),
  Inputs <- {a1}, InputOf <- [c \in Calls |-> a1], MaxFaults <- 1

tasks == <<submissions, checked, lock, input, raw, remote_tasks, input_owners, finished,
           cacheLock, published, pc, on, then, answer, failstop, faults>>

all == <<part, vars, tasks>>

PartsInit == part \in {"sessions", "inputs"} /\ Init /\ Tasks!Init

PartsNext ==
  \/ part = "sessions" /\ Next /\ UNCHANGED <<part, tasks>>
  \/ part = "inputs" /\ Tasks!Next /\ UNCHANGED <<part, vars>>

\* A step of one part leaves the state of the other as it is.
OfSession(A) == part = "sessions" /\ A /\ UNCHANGED <<part, tasks>>
OfInput(A) == part = "inputs" /\ A /\ UNCHANGED <<part, vars>>

\* The fairness of RemoteSession and of RemoteTasks, each for its own part.  In
\* a behaviour only the actions of one part are ever enabled: fairness of a
\* disjunction of actions of the two is fairness of each.
Fairness ==
  /\ WF_all(OfSession(Joined) \/ OfInput(\E g \in Readers : Tasks!Forget(g) \/ Tasks!ReadAnswer(g)))
  /\ \A c \in Calls :
       /\ WF_all(OfSession(Abort(c)) \/ OfInput(Tasks!SubmitStep(c)))
       /\ WF_all(OfSession(HandshakeFails(c)) \/ OfInput(Tasks!MonitorStep(c)))
       /\ WF_all(OfSession(DeadlinePasses(c)) \/ OfInput(Tasks!Finish(c)))
       /\ WF_all(OfSession(AuthenticationTimeout(c)) \/ OfInput(Tasks!WorkerStep(Tasks!Submit(c))))
       /\ WF_all(OfSession(WorkerDone(c)) \/ OfInput(Tasks!WorkerStep(Tasks!Monitor(c))))
       /\ WF_all(OfSession(Checked(c)))
       /\ WF_all(OfSession(Refused(c)))
       /\ WF_all(OfSession(Reply(c)))
       /\ WF_all(OfSession(Operate(c)))
       /\ WF_all(OfSession(Collect(c)))
       /\ WF_all(OfSession(WriteAnswer(c)))
       /\ SF_all(OfSession(SessionEnds(c)) \/ OfInput(Tasks!Lock(c)))
       /\ \A w \in {Tasks!Submit(c), Tasks!Monitor(c)} : SF_all(OfInput(Tasks!Convert(w)))
  /\ \A w \in Tasks!Reads : /\ WF_all(OfInput(Tasks!WorkerStep(w)))
                             /\ SF_all(OfInput(Tasks!Convert(w)))

PartsSpec == PartsInit /\ [][PartsNext]_all /\ Fairness

--------------------------------------------------------------------------------
\* An input is removed only for a task that was started with it, and at most
\* one task starts with it (the remote dispatcher and backend).
InputsSound == Tasks!TypeOK /\ Tasks!ConsumedByTask /\ Tasks!SingleUse

\* Answered of RemoteTasks and OperationCompletes of RemoteSession in one formula:
\* part never changes, so the leads-to says of each part what its own would.
Owed(c) ==
  \/ part = "sessions" /\ operation[c] = "running"
  \/ part = "inputs" /\ pc[Tasks!Submit(c)] # "end"
Given(c) == IF part = "sessions" THEN operation[c] = "done" ELSE pc[Tasks!Submit(c)] = "end"

\* Every submission is answered, and a transferred input is removed or given
\* back in the end, whether or not anybody asks for the result; an operation that
\* was dispatched is completed also when its connection ends, and the slot of
\* every connection comes back (handle_connection, the remote dispatcher).
RemoteSettles == SlotReturned /\ Tasks!InputReleased /\ \A c \in Calls : Owed(c) ~> Given(c)
================================================================================

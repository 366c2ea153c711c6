----------------------------- MODULE RemoteSession -----------------------------
(* The remote listener and the connections it serves                           *)
(* (daemon/src/adapters/inbound/remote_tls/server.rs): a connection takes a    *)
(* slot, shakes hands, authenticates before a deadline with a worker thread    *)
(* that checks the credential, and then has its requests answered one after    *)
(* another.  Each operation is a task of its own, which the end of the         *)
(* connection does not stop, and neither does it stop a worker.                *)
(* Whether a credential is accepted is left open.                              *)
EXTENDS Naturals, Sequences, FiniteSets

CONSTANTS
  Conns,                           \* the connections clients make
  max_remote_connections,
  MAX_CONCURRENT_AUTHENTICATIONS,
  Kinds,                           \* the frames a client may send in a session
  MaxFrames                        \* bound on the frames of one session

ASSUME LimitsPositive ==
  max_remote_connections \in Nat \ {0} /\ MAX_CONCURRENT_AUTHENTICATIONS \in Nat \ {0}

ASSUME SessionsFinite == IsFiniteSet(Conns) /\ MaxFrames \in Nat

VARIABLES
  listener,              \* "serving", "aborting" after the shutdown, "failed", "stopped"
  permits,               \* free connection slots
  authentication_permits,
  phase,                 \* where handle_connection stands
  late,                  \* connections whose authentication_deadline has passed
  overdue,               \* connections whose worker returned after the deadline
  worker,                \* the blocking credential check
  sent,                  \* frames of the client
  taken,                 \* how many of them were read
  answered,              \* the answers written, in order
  operation              \* the spawned operation
vars == <<listener, permits, authentication_permits, phase, late, overdue, worker,
          sent, taken, answered, operation>>

Active == {c \in Conns : phase[c] \notin {"new", "refused", "closed"}}
AuthenticationLimit ==
  IF max_remote_connections < MAX_CONCURRENT_AUTHENTICATIONS
  THEN max_remote_connections ELSE MAX_CONCURRENT_AUTHENTICATIONS

Init ==
  /\ listener = "serving" /\ permits = max_remote_connections
  /\ authentication_permits = AuthenticationLimit
  /\ phase = [c \in Conns |-> "new"] /\ late = {} /\ overdue = {}
  /\ worker = [c \in Conns |-> "none"]
  /\ sent = [c \in Conns |-> <<>>] /\ taken = [c \in Conns |-> 0]
  /\ answered = [c \in Conns |-> <<>>]
  /\ operation = [c \in Conns |-> "none"]

(******************************************************************************)
(* The listener *)

\* Faulty: the permit is dropped when it has been taken (let _ = permit).
Accept_underscore(c) ==
  /\ listener = "serving" /\ phase[c] = "new"
  /\ phase' = [phase EXCEPT ![c] = IF permits > 0 THEN "handshake" ELSE "refused"]
  /\ UNCHANGED <<listener, permits, authentication_permits, late, overdue, worker, sent, taken, answered, operation>>

\* A connection beyond the limit is dropped without a word.
Accept(c) ==
  /\ listener = "serving" /\ phase[c] = "new"
  /\ \/ /\ permits > 0
        /\ phase' = [phase EXCEPT ![c] = "handshake"] /\ permits' = permits - 1
     \/ /\ permits = 0
        /\ phase' = [phase EXCEPT ![c] = "refused"] /\ UNCHANGED permits
  /\ UNCHANGED <<listener, authentication_permits, late, overdue, worker, sent, taken, answered, operation>>

\* The shutdown aborts the connections and waits for them; an accept error
\* drops them with the JoinSet and returns at once.
Shutdown ==
  /\ listener = "serving"
  /\ listener' \in {"aborting", "failed"}
  /\ UNCHANGED <<permits, authentication_permits, phase, late, overdue, worker, sent, taken, answered, operation>>

Joined ==
  /\ listener = "aborting" /\ Active = {}
  /\ listener' = "stopped"
  /\ UNCHANGED <<permits, authentication_permits, phase, late, overdue, worker, sent, taken, answered, operation>>

\* The end of handle_connection gives its slot back.
Close(c) ==
  /\ phase' = [phase EXCEPT ![c] = "closed"] /\ permits' = permits + 1

Goto(c, next) ==
  /\ phase' = [phase EXCEPT ![c] = next] /\ UNCHANGED permits

\* The abort reaches a connection at its next await.
Abort(c) ==
  /\ listener \in {"aborting", "failed"} /\ c \in Active
  /\ Close(c)
  /\ UNCHANGED <<listener, authentication_permits, late, overdue, worker, sent, taken, answered, operation>>

(******************************************************************************)
(* Before the session *)

Handshake(c) ==
  /\ phase[c] = "handshake" /\ Goto(c, "preauth")
  /\ UNCHANGED <<listener, authentication_permits, late, overdue, worker, sent, taken, answered, operation>>

\* Faulty: a handshake without a timeout waits for the client.
HandshakeFails_untimed(c) == FALSE /\ UNCHANGED vars

\* The handshake fails, takes too long, or agrees on another protocol.
HandshakeFails(c) ==
  /\ phase[c] = "handshake" /\ Close(c)
  /\ UNCHANGED <<listener, authentication_permits, late, overdue, worker, sent, taken, answered, operation>>

DeadlinePasses(c) ==
  /\ phase[c] \in {"preauth", "waiting", "checking", "replying", "refusing"} /\ c \notin late
  /\ late' = late \cup {c}
  /\ UNCHANGED <<listener, permits, authentication_permits, phase, overdue, worker, sent, taken, answered, operation>>

\* The first frame closes the connection when it has no readable envelope, is
\* answered with an error, or asks for authentication.  timeout_at looks at
\* the frame before it looks at the clock.
ReadFirst(c) ==
  /\ phase[c] = "preauth"
  /\ \/ Close(c)
     \/ Goto(c, "refusing")
     \/ Goto(c, "waiting")
  /\ UNCHANGED <<listener, authentication_permits, late, overdue, worker, sent, taken, answered, operation>>

AuthenticationTimeout(c) ==
  /\ phase[c] \in {"preauth", "waiting"} /\ c \in late /\ Close(c)
  /\ UNCHANGED <<listener, authentication_permits, late, overdue, worker, sent, taken, answered, operation>>

StartWorker(c) ==
  /\ phase[c] = "waiting" /\ authentication_permits > 0
  /\ Goto(c, "checking")
  /\ authentication_permits' = authentication_permits - 1
  /\ worker' = [worker EXCEPT ![c] = "running"]
  /\ UNCHANGED <<listener, late, overdue, sent, taken, answered, operation>>

\* The worker owns its permit: it returns it whether or not anybody waits.
WorkerDone(c) ==
  /\ worker[c] = "running"
  /\ worker' \in {[worker EXCEPT ![c] = result] : result \in {"accepts", "rejects"}}
  /\ authentication_permits' = authentication_permits + 1
  /\ overdue' = IF c \in late THEN overdue \cup {c} ELSE overdue
  /\ UNCHANGED <<listener, permits, phase, late, sent, taken, answered, operation>>

\* The clock is read once more when the worker has returned.
Checked(c) ==
  /\ phase[c] = "checking" /\ worker[c] # "running"
  /\ \/ c \in late /\ Close(c)
     \/ c \notin late /\ worker[c] = "rejects" /\ Goto(c, "refusing")
     \/ c \notin late /\ worker[c] = "accepts" /\ Goto(c, "replying")
  /\ UNCHANGED <<listener, authentication_permits, late, overdue, worker, sent, taken, answered, operation>>

\* write_pre_auth_response: whether it is written or not, the connection ends.
Refused(c) ==
  /\ phase[c] = "refusing" /\ Close(c)
  /\ UNCHANGED <<listener, authentication_permits, late, overdue, worker, sent, taken, answered, operation>>

\* The Authenticated response is written, or fails, or takes too long.
Reply(c) ==
  /\ phase[c] = "replying"
  /\ Goto(c, "reading") \/ Close(c)
  /\ UNCHANGED <<listener, authentication_permits, late, overdue, worker, sent, taken, answered, operation>>

(******************************************************************************)
(* The session *)

\* What the listener itself answers; everything else is the handler's.
dispatch_authenticated(kind) ==
  CASE kind = "getCapabilities" -> "capabilities"
    [] kind \in {"submitTask", "foreignProfile"} -> "AUTHORIZATION_DENIED"
    [] kind = "authenticate" -> "INVALID_REQUEST"
    [] OTHER -> "handled"

\* A frame that is JSON with a requestId but no request.
EnvelopeError(kind) ==
  CASE kind = "malformed" -> "INVALID_REQUEST"
    [] kind = "version" -> "UNSUPPORTED_REMOTE_PROTOCOL_VERSION"
    [] OTHER -> "none"

Answer(kind) ==
  IF EnvelopeError(kind) # "none" THEN EnvelopeError(kind) ELSE dispatch_authenticated(kind)

\* A client may send before it has read the previous answer.
Send(c, kind) ==
  /\ phase[c] \in {"reading", "operating", "sending"} /\ Len(sent[c]) < MaxFrames
  /\ sent' = [sent EXCEPT ![c] = Append(@, kind)]
  /\ UNCHANGED <<listener, permits, authentication_permits, phase, late, overdue, worker, taken, answered, operation>>

\* A frame without a requestId ends the session, one that is no request is
\* answered at once, and a request becomes a spawned operation.
Read(c) ==
  /\ phase[c] = "reading" /\ taken[c] < Len(sent[c])
  /\ taken' = [taken EXCEPT ![c] = @ + 1]
  /\ LET kind == sent[c][taken[c] + 1] IN
     \/ kind = "undecodable" /\ Close(c) /\ UNCHANGED operation
     \/ EnvelopeError(kind) # "none" /\ Goto(c, "sending") /\ UNCHANGED operation
     \/ /\ kind # "undecodable" /\ EnvelopeError(kind) = "none" /\ Goto(c, "operating")
        /\ operation' = [operation EXCEPT ![c] = "running"]
  /\ UNCHANGED <<listener, authentication_permits, late, overdue, worker, sent, answered>>

\* The operation ends, whatever became of its connection.
Operate(c) ==
  /\ operation[c] = "running"
  /\ operation' = [operation EXCEPT ![c] = "done"]
  /\ UNCHANGED <<listener, permits, authentication_permits, phase, late, overdue, worker, sent, taken, answered>>

Collect(c) ==
  /\ phase[c] = "operating" /\ operation[c] = "done"
  /\ Goto(c, "sending")
  /\ UNCHANGED <<listener, authentication_permits, late, overdue, worker, sent, taken, answered, operation>>

\* send_with_timeout: the answer is written, or the connection ends.
WriteAnswer(c) ==
  /\ phase[c] = "sending"
  /\ \/ /\ Goto(c, "reading")
        /\ answered' = [answered EXCEPT ![c] = Append(@, Answer(sent[c][taken[c]]))]
     \/ Close(c) /\ UNCHANGED answered
  /\ UNCHANGED <<listener, authentication_permits, late, overdue, worker, sent, taken, operation>>

\* The session expires, is idle for too long, or is given up by either side.
SessionEnds(c) ==
  /\ phase[c] \in {"reading", "operating"} /\ Close(c)
  /\ UNCHANGED <<listener, authentication_permits, late, overdue, worker, sent, taken, answered, operation>>

\* Every client has come and gone, or came too late.
Done ==
  /\ Active = {} /\ \A c \in Conns : worker[c] # "running" /\ operation[c] # "running"
  /\ listener \in {"stopped", "failed"}
  /\ UNCHANGED vars

Next ==
  \/ Shutdown \/ Joined \/ Done
  \/ \E c \in Conns :
       \/ Accept(c) \/ Abort(c) \/ Handshake(c) \/ HandshakeFails(c) \/ DeadlinePasses(c)
       \/ ReadFirst(c) \/ AuthenticationTimeout(c) \/ StartWorker(c) \/ WorkerDone(c)
       \/ Checked(c) \/ Refused(c) \/ Reply(c) \/ Read(c) \/ Operate(c) \/ Collect(c)
       \/ WriteAnswer(c) \/ SessionEnds(c)
       \/ \E kind \in Kinds : Send(c, kind)

Spec == Init /\ [][Next]_vars

\* The clock runs and the runtime polls what is ready; nothing is expected of
\* a client.  After the session deadline its branch is ready at every select.
FairSpec ==
  /\ Spec /\ WF_vars(Joined)
  /\ \A c \in Conns :
       /\ WF_vars(Abort(c)) /\ WF_vars(HandshakeFails(c)) /\ WF_vars(DeadlinePasses(c))
       /\ WF_vars(AuthenticationTimeout(c)) /\ WF_vars(WorkerDone(c)) /\ WF_vars(Checked(c))
       /\ WF_vars(Refused(c)) /\ WF_vars(Reply(c)) /\ WF_vars(Operate(c))
       /\ WF_vars(Collect(c)) /\ WF_vars(WriteAnswer(c)) /\ SF_vars(SessionEnds(c))

(******************************************************************************)
(* Properties *)

\* The variables hold values of their types.
TypeOK ==
  /\ listener \in {"serving", "aborting", "failed", "stopped"}
  /\ permits \in 0..max_remote_connections /\ authentication_permits \in 0..AuthenticationLimit
  /\ phase \in [Conns -> {"new", "refused", "handshake", "preauth", "waiting", "checking",
                          "replying", "refusing", "reading", "operating", "sending", "closed"}]
  /\ late \subseteq Conns /\ overdue \subseteq Conns
  /\ worker \in [Conns -> {"none", "running", "accepts", "rejects"}]
  /\ sent \in [Conns -> Seq(Kinds)] /\ taken \in [Conns -> 0..MaxFrames]
  /\ \A c \in Conns : Len(sent[c]) <= MaxFrames /\ Len(answered[c]) <= taken[c]
  /\ operation \in [Conns -> {"none", "running", "done"}]

\* From the handshake to its end, however it ends, a connection holds exactly
\* one of the max_remote_connections slots, and the listener never serves more
\* (server.rs:79, 102).
SlotsAccounted == permits + Cardinality(Active) = max_remote_connections

\* There are never more credential checks at work than
\* MAX_CONCURRENT_AUTHENTICATIONS, those whose connection was aborted included:
\* the permit lives in the worker (server.rs:244).
WorkersBounded ==
  Cardinality({c \in Conns : worker[c] = "running"}) <= MAX_CONCURRENT_AUTHENTICATIONS

\* A credential check that ended after the authentication deadline begins no
\* session, however long it took and whatever it found (server.rs:249).
OverdueUnserved ==
  \A c \in overdue : phase[c] \notin {"replying", "refusing", "reading", "operating", "sending"}

\* On one connection the answers are those to the frames read, in the order
\* they were sent and none left out, also when the client sends ahead; only the
\* last frame read may be without one (serve_authenticated).
AnswersInOrder ==
  \A c \in Conns :
    /\ \A i \in 1..Len(answered[c]) : answered[c][i] = Answer(sent[c][i])
    /\ Len(answered[c]) >= taken[c] - 1
    /\ phase[c] = "reading" => Len(answered[c]) = taken[c]

\* An operation that was started is carried out: an idle timeout, the end of
\* the session or the shutdown end the wait for it, not the operation
\* (server.rs:389).
OperationCompletes ==
  \A c \in Conns : (operation[c] = "running") ~> (operation[c] = "done")

\* Whatever its client does or omits, an accepted connection ends and gives its
\* slot back (the timeouts of handle_connection, authenticate and
\* serve_authenticated).
SlotReturned == \A c \in Conns : (c \in Active) ~> (c \notin Active)
================================================================================

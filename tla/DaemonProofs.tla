------------------------------ MODULE DaemonProofs ------------------------------
(***************************************************************************)
(* Proofs about who is let in: connections by the remote listener, and     *)
(* daemons by the startup.                                                 *)
(*                                                                         *)
(* The remote listener, for any number of connections, slots, credential   *)
(* checks and frames.  The slots and the permits are counted against the   *)
(* connections that hold them; what a session has answered follows from    *)
(* where it is.  The counting comes last: only it needs the theorems about *)
(* cardinalities.                                                          *)
(*                                                                         *)
(* The startup, for any number of daemons, any runtime directories and     *)
(* both placements in the cgroup tree.  Two independent arguments.  The    *)
(* tree: a daemon goes past the look at the processes of the manager       *)
(* cgroup only when it is alone in it, and stays in it to its end; so at   *)
(* most one daemon is past it, whatever lock it holds, the jobs directory  *)
(* is this daemon's or a dead one's, and what a recovery has opened        *)
(* belongs to a dead one.  The files: the lock is held from its            *)
(* acquisition until the drain has ended, so nobody binds or listens on a  *)
(* path while another daemon examines it.                                  *)
(***************************************************************************)
EXTENDS RemoteSession, Startup, TLAPS

\* Most leaves are first-order: Zenon is the prover unless a leaf names another.
USE ZenonT(200)

--------------------------------------------------------------------------------
(* The sessions of the remote listener *)

Running == {c \in Conns : worker[c] = "running"}

BeforeSession ==
  {"new", "refused", "handshake", "preauth", "waiting", "checking", "replying", "refusing"}

Replies == {"capabilities", "AUTHORIZATION_DENIED", "INVALID_REQUEST", "handled",
            "UNSUPPORTED_REMOTE_PROTOCOL_VERSION"}

\* The types the proof needs.
Typed ==
  /\ listener \in {"serving", "aborting", "failed", "stopped"}
  /\ permits \in Nat /\ authentication_permits \in Nat
  /\ phase \in [Conns -> BeforeSession \cup {"reading", "operating", "sending", "closed"}]
  /\ late \subseteq Conns /\ overdue \subseteq Conns
  /\ worker \in [Conns -> {"none", "running", "accepts", "rejects"}]
  /\ sent \in [Conns -> Seq(Kinds)] /\ taken \in [Conns -> Nat]
  /\ answered \in [Conns -> Seq(Replies)]
  /\ operation \in [Conns -> {"none", "running", "done"}]

PermitsAccounted == authentication_permits + Cardinality(Running) = AuthenticationLimit

\* A worker belongs to a connection that waits for it or was aborted.
WorkerWaitedFor ==
  \A c \in Conns :
    /\ worker[c] = "running" => phase[c] \in {"checking", "closed"}
    /\ c \in overdue => c \in late /\ phase[c] \in {"checking", "closed"}

\* The answers of one session are those to the frames it has read.
Answered(c) ==
  /\ phase[c] \in BeforeSession => taken[c] = 0 /\ Len(answered[c]) = 0
  /\ phase[c] = "reading" => Len(answered[c]) = taken[c]
  /\ phase[c] \in {"operating", "sending"} => taken[c] = Len(answered[c]) + 1
  /\ Len(answered[c]) \in {taken[c], taken[c] - 1}
  /\ taken[c] <= Len(sent[c])
  /\ \A i \in 1..Len(answered[c]) : answered[c][i] = Answer(sent[c][i])

SessionInv ==
  Typed /\ SlotsAccounted /\ PermitsAccounted /\ WorkerWaitedFor /\ \A c \in Conns : Answered(c)

Phases == BeforeSession \cup {"reading", "operating", "sending", "closed"}

\* What one step may do to the connections and their slots.
Move(c) ==
  \/ c \in Active /\ Close(c)
  \/ c \in Active /\ \E next \in Phases \ {"new", "refused", "closed"} : Goto(c, next)
  \/ UNCHANGED <<phase, permits>>

\* Everything a connection does other than being accepted is a move.
ConnStep(c) ==
  \/ Abort(c) \/ Handshake(c) \/ HandshakeFails(c) \/ DeadlinePasses(c)
  \/ ReadFirst(c) \/ AuthenticationTimeout(c) \/ StartWorker(c) \/ WorkerDone(c)
  \/ Checked(c) \/ Refused(c) \/ Reply(c) \/ Read(c) \/ Operate(c) \/ Collect(c)
  \/ WriteAnswer(c) \/ SessionEnds(c) \/ \E kind \in Kinds : Send(c, kind)

LEMMA StepsMove == ASSUME Typed, NEW c \in Conns, ConnStep(c) PROVE Move(c)
<1> USE DEF Move, Active, Phases, BeforeSession
<1>1. CASE Abort(c) \/ HandshakeFails(c) \/ AuthenticationTimeout(c) \/ Refused(c) \/ SessionEnds(c)
  BY <1>1 DEF Abort, HandshakeFails, AuthenticationTimeout, Refused, SessionEnds
<1>2. CASE Handshake(c) \/ StartWorker(c) \/ Collect(c)
  BY <1>2 DEF Handshake, StartWorker, Collect
<1>3. CASE DeadlinePasses(c) \/ WorkerDone(c) \/ Operate(c) \/ \E kind \in Kinds : Send(c, kind)
  BY <1>3 DEF DeadlinePasses, WorkerDone, Operate, Send
<1>4. CASE ReadFirst(c) \/ Checked(c) \/ Reply(c)
  BY <1>4 DEF ReadFirst, Checked, Reply
<1>5. CASE Read(c) \/ WriteAnswer(c)
  BY <1>5 DEF Read, WriteAnswer
<1> QED BY <1>1, <1>2, <1>3, <1>4, <1>5 DEF ConnStep

LEMMA StepsKeepWorkers ==
  ASSUME Typed, WorkerWaitedFor, NEW c \in Conns, ConnStep(c) \/ Accept(c)
  PROVE  WorkerWaitedFor'
<1> USE DEF Typed, WorkerWaitedFor, BeforeSession
<1>1. CASE Accept(c)
  BY <1>1 DEF Accept
<1>2. CASE Abort(c) \/ HandshakeFails(c) \/ AuthenticationTimeout(c) \/ Refused(c) \/ SessionEnds(c)
  BY <1>2 DEF Abort, HandshakeFails, AuthenticationTimeout, Refused, SessionEnds, Close
<1>3. CASE Handshake(c) \/ StartWorker(c) \/ Collect(c)
  BY <1>3 DEF Handshake, StartWorker, Collect, Goto
<1>4. CASE DeadlinePasses(c) \/ WorkerDone(c) \/ Operate(c) \/ \E kind \in Kinds : Send(c, kind)
  BY <1>4 DEF DeadlinePasses, WorkerDone, Operate, Send
<1>5. CASE ReadFirst(c) \/ Checked(c) \/ Reply(c)
  BY <1>5 DEF ReadFirst, Checked, Reply, Goto, Close
<1>6. CASE Read(c) \/ WriteAnswer(c)
  BY <1>6 DEF Read, WriteAnswer, Goto, Close
<1> QED BY <1>1, <1>2, <1>3, <1>4, <1>5, <1>6 DEF ConnStep

--------------------------------------------------------------------------------
(* The answers *)

LEMMA AnswerIsReply == ASSUME NEW kind PROVE Answer(kind) \in Replies
  BY DEF Answer, EnvelopeError, dispatch_authenticated, Replies

LEMMA StepsKeepTypes ==
  ASSUME Typed, NEW c \in Conns, ConnStep(c) \/ Accept(c), permits' \in Nat,
         authentication_permits' \in Nat
  PROVE  Typed'
<1> USE DEF Typed, BeforeSession
<1>1. CASE Accept(c)
  BY <1>1 DEF Accept
<1>2. CASE Abort(c) \/ HandshakeFails(c) \/ AuthenticationTimeout(c) \/ Refused(c) \/ SessionEnds(c)
  BY <1>2 DEF Abort, HandshakeFails, AuthenticationTimeout, Refused, SessionEnds, Close
<1>3. CASE Handshake(c) \/ StartWorker(c) \/ Collect(c)
  BY <1>3 DEF Handshake, StartWorker, Collect, Goto
<1>4. CASE DeadlinePasses(c) \/ WorkerDone(c) \/ Operate(c)
  BY <1>4 DEF DeadlinePasses, WorkerDone, Operate
<1>5. CASE ReadFirst(c) \/ Checked(c) \/ Reply(c)
  BY <1>5 DEF ReadFirst, Checked, Reply, Goto, Close
<1>6. CASE Read(c)
  <2>1. taken' = [taken EXCEPT ![c] = @ + 1]
        /\ UNCHANGED <<listener, late, overdue, worker, sent, answered>>
    BY <1>6 DEF Read
  <2>2. operation' = operation \/ operation' = [operation EXCEPT ![c] = "running"]
    BY <1>6 DEF Read
  <2>3. \E next \in {"operating", "sending", "closed"} : phase' = [phase EXCEPT ![c] = next]
    BY <1>6 DEF Read, Goto, Close
  <2>4. phase' \in [Conns -> BeforeSession \cup {"reading", "operating", "sending", "closed"}]
    BY <2>3
  <2>5. taken' \in [Conns -> Nat]
    BY SMTT(60), <2>1
  <2>6. operation' \in [Conns -> {"none", "running", "done"}]
    BY <2>2
  <2> QED BY <2>1, <2>4, <2>5, <2>6
<1>7. CASE WriteAnswer(c)
  <2> DEFINE reply == Answer(sent[c][taken[c]])
  <2>1. \/ answered' = answered
        \/ answered' = [answered EXCEPT ![c] = Append(answered[c], reply)]
    BY <1>7 DEF WriteAnswer
  <2>2. UNCHANGED <<listener, late, overdue, worker, sent, taken, operation>>
    BY <1>7 DEF WriteAnswer
  <2>3. phase' \in [Conns -> BeforeSession \cup {"reading", "operating", "sending", "closed"}]
    BY <1>7 DEF WriteAnswer, Goto, Close
  <2>4. reply \in Replies
    BY AnswerIsReply
  <2> HIDE DEF reply
  <2>5. Append(answered[c], reply) \in Seq(Replies)
    BY SMTT(60), <2>4
  <2> QED BY <2>1, <2>2, <2>3, <2>5
<1>8. CASE \E kind \in Kinds : Send(c, kind)
  BY SMTT(60), <1>8 DEF Send
<1> QED BY <1>1, <1>2, <1>3, <1>4, <1>5, <1>6, <1>7, <1>8 DEF ConnStep

\* A step of another connection.
LEMMA OthersKeepAnswers ==
  ASSUME Typed, NEW c \in Conns, ConnStep(c) \/ Accept(c), NEW d \in Conns \ {c}, Answered(d)
  PROVE  Answered(d)'
<1>1. /\ phase'[d] = phase[d] /\ taken'[d] = taken[d]
      /\ sent'[d] = sent[d] /\ answered'[d] = answered[d]
  <2> USE DEF Typed
  <2>1. CASE Accept(c)
    BY <2>1 DEF Accept
  <2>2. CASE Abort(c) \/ HandshakeFails(c) \/ AuthenticationTimeout(c) \/ Refused(c) \/ SessionEnds(c)
    BY <2>2 DEF Abort, HandshakeFails, AuthenticationTimeout, Refused, SessionEnds, Close
  <2>3. CASE Handshake(c) \/ StartWorker(c) \/ Collect(c)
    BY <2>3 DEF Handshake, StartWorker, Collect, Goto
  <2>4. CASE DeadlinePasses(c) \/ WorkerDone(c) \/ Operate(c) \/ \E kind \in Kinds : Send(c, kind)
    BY <2>4 DEF DeadlinePasses, WorkerDone, Operate, Send
  <2>5. CASE ReadFirst(c) \/ Checked(c) \/ Reply(c)
    BY <2>5 DEF ReadFirst, Checked, Reply, Goto, Close
  <2>6. CASE Read(c) \/ WriteAnswer(c)
    BY <2>6 DEF Read, WriteAnswer, Goto, Close
  <2> QED BY <2>1, <2>2, <2>3, <2>4, <2>5, <2>6 DEF ConnStep
<1> QED BY <1>1 DEF Answered

\* A step of the connection itself.
LEMMA OwnStepKeepsAnswers ==
  ASSUME Typed, NEW c \in Conns, ConnStep(c) \/ Accept(c), Answered(c)
  PROVE  Answered(c)'
<1>1. CASE \/ Accept(c) \/ Handshake(c) \/ StartWorker(c) \/ ReadFirst(c) \/ Checked(c)
           \/ HandshakeFails(c) \/ AuthenticationTimeout(c) \/ Refused(c)
  <2>1. phase'[c] \in BeforeSession \cup {"closed"} /\ phase[c] \in BeforeSession
    BY <1>1 DEF Typed, BeforeSession, Accept, Handshake, StartWorker, ReadFirst, Checked,
        HandshakeFails, AuthenticationTimeout, Refused, Goto, Close
  <2>2. UNCHANGED <<sent, taken, answered>>
    BY <1>1 DEF Accept, Handshake, StartWorker, ReadFirst, Checked, HandshakeFails,
        AuthenticationTimeout, Refused
  <2> QED BY <2>1, <2>2 DEF Answered, BeforeSession
<1>2. CASE DeadlinePasses(c) \/ WorkerDone(c) \/ Operate(c)
  BY <1>2 DEF DeadlinePasses, WorkerDone, Operate, Answered
<1>3. CASE Abort(c) \/ SessionEnds(c) \/ Reply(c) \/ Collect(c)
  BY <1>3 DEF Abort, SessionEnds, Reply, Collect, Goto, Close, Answered, Typed, BeforeSession
<1>4. CASE \E kind \in Kinds : Send(c, kind)
  <2>1. PICK kind \in Kinds : sent'[c] = Append(sent[c], kind)
    BY <1>4 DEF Send, Typed
  <2>2. UNCHANGED <<phase, taken, answered>>
    BY <1>4 DEF Send
  <2>3. sent[c] \in Seq(Kinds) /\ answered[c] \in Seq(Replies) /\ taken[c] \in Nat
    BY DEF Typed
  <2>4. Len(sent'[c]) = Len(sent[c]) + 1 /\ \A i \in 1..Len(sent[c]) : sent'[c][i] = sent[c][i]
    BY SMTT(60), <2>1, <2>3
  <2>5. \A i \in 1..Len(answered[c]) : i \in 1..Len(sent[c])
    BY SMTT(60), <2>3 DEF Answered
  <2>6. \A i \in 1..Len(answered'[c]) : answered'[c][i] = Answer(sent'[c][i])
    BY <2>2, <2>4, <2>5 DEF Answered
  <2>7. taken'[c] <= Len(sent'[c])
    BY SMTT(60), <2>2, <2>3, <2>4 DEF Answered
  <2> QED BY <2>2, <2>6, <2>7 DEF Answered
<1>5. CASE Read(c)
  <2>1. /\ phase[c] = "reading" /\ taken'[c] = taken[c] + 1 /\ taken[c] < Len(sent[c])
        /\ phase'[c] \in {"operating", "sending", "closed"}
    BY <1>5 DEF Read, Goto, Close, Typed
  <2>2. UNCHANGED <<sent, answered>>
    BY <1>5 DEF Read
  <2>3. taken[c] \in Nat /\ sent[c] \in Seq(Kinds) /\ answered[c] \in Seq(Replies)
    BY DEF Typed
  <2> QED BY SMTT(60), <2>1, <2>2, <2>3 DEF Answered, BeforeSession
<1>6. CASE WriteAnswer(c)
  <2>3. taken[c] \in Nat /\ sent[c] \in Seq(Kinds) /\ answered[c] \in Seq(Replies)
    BY DEF Typed
  <2>4. UNCHANGED <<sent, taken>> /\ phase[c] = "sending"
    BY <1>6 DEF WriteAnswer
  <2>5. \/ phase'[c] = "closed" /\ answered'[c] = answered[c]
        \/ phase'[c] = "reading" /\ answered'[c] = Append(answered[c], Answer(sent[c][taken[c]]))
    BY <1>6 DEF WriteAnswer, Goto, Close, Typed
  <2>6. CASE phase'[c] = "closed" /\ answered'[c] = answered[c]
    BY <2>3, <2>4, <2>6 DEF Answered, BeforeSession
  <2>7. CASE phase'[c] = "reading" /\ answered'[c] = Append(answered[c], Answer(sent[c][taken[c]]))
    <3> DEFINE reply == Answer(sent[c][taken[c]])
    <3>1. reply \in Replies
      BY AnswerIsReply
    <3> HIDE DEF reply
    <3>2. /\ Len(answered'[c]) = Len(answered[c]) + 1
          /\ \A i \in 1..Len(answered[c]) : answered'[c][i] = answered[c][i]
          /\ answered'[c][Len(answered[c]) + 1] = reply
      BY SMTT(60), <2>3, <2>7, <3>1 DEF reply
    <3>3. taken[c] = Len(answered[c]) + 1 /\ Len(answered[c]) \in Nat
      BY SMTT(60), <2>3, <2>4 DEF Answered
    <3>4. ASSUME NEW i \in 1..Len(answered'[c]) PROVE answered'[c][i] = Answer(sent'[c][i])
      <4>1. CASE i \in 1..Len(answered[c])
        BY <2>4, <3>2, <4>1 DEF Answered
      <4>2. CASE i = Len(answered[c]) + 1
        BY <2>4, <3>2, <3>3, <4>2 DEF reply
      <4> QED BY SMTT(60), <3>2, <3>3, <4>1, <4>2
    <3>5. Len(answered'[c]) = taken'[c] /\ taken'[c] <= Len(sent'[c]) /\ taken'[c] \in Nat
      BY <2>3, <2>4, <3>2, <3>3 DEF Answered
    <3>6. Len(answered'[c]) \in {taken'[c], taken'[c] - 1}
      BY <3>5
    <3>7. phase'[c] \notin BeforeSession \cup {"operating", "sending"}
      BY <2>7 DEF BeforeSession
    <3> QED BY <3>4, <3>5, <3>6, <3>7 DEF Answered
  <2> QED BY <2>5, <2>6, <2>7
<1> QED BY <1>1, <1>2, <1>3, <1>4, <1>5, <1>6 DEF ConnStep

--------------------------------------------------------------------------------
(* The startup *)

\* A runtime directory for each daemon; None names no daemon and no cgroup.
Layout ==
  /\ RuntimeOf \in [Daemons -> Runtimes]
  /\ None \notin Daemons /\ None \notin {"root", "manager"}

\* From the lock to the look at the manager's processes, and the ways out.
Early == {"inspect", "probe", "unlink", "prepare", "jobs", "kill", "empty", "remove", "rmjobs",
          "finish", "rmmanager", "check", "create", "move", "verify", "rollback", "rmdir", "failed"}
\* With a jobs directory of its own.
Owner == {"bind", "listen", "serving", "closing", "drain", "leaving"}
Past == Owner \union {"initialize"}
Stages == Early \union Past \union {"new", "lock", "dead"}
Holder == (Early \union Past) \ {"leaving"}

Types ==
  /\ pc \in [Daemons -> Stages]
  /\ lock \in [Runtimes -> Daemons \union {None}]
  /\ socket \in [Runtimes -> Daemons \union {None}]
  /\ member \in [Daemons -> {"root", "manager", None}]
  /\ seen \in [Daemons -> [socket : Daemons \union {None}, jobs : Daemons \union {None},
                           manager : Daemons \union {None, Systemd}]]
  /\ jobs \in Daemons \union {None}
  /\ manager \in Daemons \union {None, Systemd}
  /\ dirs \subseteq Daemons /\ running \subseteq dirs

MemberIffAlive == \A p \in Daemons : (member[p] # None) = (pc[p] \notin {"new", "dead"})

PastInManager == \A p \in Daemons : pc[p] \in Past => member[p] = "manager"
OnePast == \A p, q \in Daemons : pc[p] \in Past /\ pc[q] \in Past => p = q
JobsOwned ==
  /\ \A p \in Daemons : pc[p] \in Owner => jobs \in {p, None} /\ dirs \subseteq {p}
  /\ jobs # None => pc[jobs] \in Owner \union {"dead"}
  /\ \A j \in dirs : pc[j] \in Owner \union {"dead"}
  /\ jobs = None => dirs = {}
OpenedIsDead == \A p \in Daemons : seen[p].jobs # None => pc[seen[p].jobs] = "dead"

TreeInv == PastInManager /\ OnePast /\ JobsOwned /\ OpenedIsDead

LockInv ==
  /\ \A p \in Daemons : pc[p] \in Holder => lock[R(p)] = p
  /\ \A r \in Runtimes : lock[r] # None => pc[lock[r]] \in Holder /\ R(lock[r]) = r
  /\ \A r \in Runtimes : socket[r] # None => R(socket[r]) = r

StartInv == Types /\ MemberIffAlive /\ TreeInv /\ LockInv

--------------------------------------------------------------------------------
(* What a step changes *)

\* p goes from one stage to another, every other daemon stays.
Moves(p) ==
  /\ pc' \in [Daemons -> Stages]
  /\ \A q \in Daemons : q # p => pc'[q] = pc[q] /\ member'[q] = member[q]

SameSeen == \A q \in Daemons : seen'[q].jobs = seen[q].jobs
Shrinks == dirs' \subseteq dirs /\ jobs' \in {jobs, None} /\ (jobs' = None => dirs' = {})

LEMMA GotoMoves ==
  ASSUME Types, NEW p \in Daemons, NEW s \in Stages, GoesTo(p, s), UNCHANGED member
  PROVE  Moves(p) /\ pc'[p] = s
BY DEF Types, GoesTo, Moves

LEMMA GotoMember ==
  ASSUME Types, NEW p \in Daemons, NEW s \in Stages, GoesTo(p, s), NEW m \in {"root", "manager", None},
         member' = [member EXCEPT ![p] = m]
  PROVE  /\ Moves(p) /\ pc'[p] = s /\ member'[p] = m
         /\ member' \in [Daemons -> {"root", "manager", None}]
BY DEF Types, GoesTo, Moves

LEMMA SameTreeShrinks == ASSUME TreeInv, jobs' = jobs, dirs' = dirs PROVE Shrinks
BY DEF TreeInv, JobsOwned, Shrinks

\* A step that adds nothing to the tree and neither enters the stages past the
\* look at the manager nor brings a daemon back from them.
LEMMA TreeMove ==
  ASSUME Types, TreeInv, NEW p \in Daemons, Moves(p), Shrinks, SameSeen,
         pc[p] # "dead",
         pc'[p] \in Past => pc[p] \in Past /\ member'[p] = member[p],
         pc'[p] \in Owner => pc[p] \in Owner,
         pc[p] \in Owner => pc'[p] \in Owner \union {"dead"}
  PROVE  TreeInv'
<1>1. \A q \in Daemons : pc'[q] \in Past => pc[q] \in Past /\ member'[q] = member[q]
  BY DEF Moves
<1>2. \A q \in Daemons : pc'[q] \in Owner => pc[q] \in Owner
  BY DEF Moves
<1>3. \A q \in Daemons : pc[q] \in Owner \union {"dead"} => pc'[q] \in Owner \union {"dead"}
  BY DEF Moves
<1>4. \A q \in Daemons : pc[q] = "dead" => pc'[q] = "dead"
  BY DEF Moves
<1>5. PastInManager'
  BY <1>1 DEF TreeInv, PastInManager
<1>6. OnePast'
  BY <1>1 DEF TreeInv, OnePast
<1>7. JobsOwned'
  <2>1. jobs # None => jobs \in Daemons
    BY DEF Types
  <2>2. \A j \in dirs : j \in Daemons
    BY DEF Types
  <2>3. dirs' \subseteq dirs /\ jobs' \in {jobs, None} /\ (jobs' = None => dirs' = {})
    BY DEF Shrinks
  <2>4. \A q \in Daemons : pc'[q] \in Owner => jobs' \in {q, None} /\ dirs' \subseteq {q}
    BY <1>2, <2>3 DEF TreeInv, JobsOwned
  <2>5. jobs' # None => pc'[jobs'] \in Owner \union {"dead"}
    BY <1>3, <2>1, <2>3 DEF TreeInv, JobsOwned
  <2>6. \A j \in dirs' : pc'[j] \in Owner \union {"dead"}
    BY <1>3, <2>2, <2>3 DEF TreeInv, JobsOwned
  <2>7. jobs' = None => dirs' = {}
    BY <2>3
  <2> QED BY <2>4, <2>5, <2>6, <2>7 DEF JobsOwned
<1>8. OpenedIsDead'
  <2> SUFFICES ASSUME NEW q \in Daemons, seen'[q].jobs # None PROVE pc'[seen'[q].jobs] = "dead"
    BY DEF OpenedIsDead
  <2>1. seen'[q].jobs = seen[q].jobs
    BY DEF SameSeen
  <2>2. seen[q].jobs \in Daemons
    BY <2>1 DEF Types
  <2>3. pc[seen[q].jobs] = "dead"
    BY <2>1 DEF TreeInv, OpenedIsDead
  <2> QED BY <2>1, <2>2, <2>3, <1>4
<1> QED BY <1>5, <1>6, <1>7, <1>8 DEF TreeInv

\* A step that leaves the lock alone and neither takes nor gives a lock away,
\* and after which the sockets lie where their daemons bind.
LEMMA LockMove ==
  ASSUME Types, LockInv, NEW p \in Daemons, Moves(p), UNCHANGED lock,
         pc'[p] \in Holder <=> pc[p] \in Holder,
         \A r \in Runtimes : socket'[r] # None => R(socket'[r]) = r
  PROVE  LockInv'
<1>1. \A q \in Daemons : pc'[q] \in Holder <=> pc[q] \in Holder
  BY DEF Moves
<1>2. \A r \in Runtimes : lock[r] # None => lock[r] \in Daemons
  BY DEF Types
<1>3. \A q \in Daemons : pc'[q] \in Holder => lock'[R(q)] = q
  BY <1>1 DEF LockInv
<1>4. \A r \in Runtimes : lock'[r] # None => pc'[lock'[r]] \in Holder /\ R(lock'[r]) = r
  BY <1>1, <1>2 DEF LockInv
<1>5. \A q : R(q)' = R(q)
  BY DEF R
<1> QED BY <1>3, <1>4, <1>5 DEF LockInv

LEMMA SocketsStay ==
  ASSUME LockInv, UNCHANGED socket
  PROVE  \A r \in Runtimes : socket'[r] # None => R(socket'[r]) = r
BY DEF LockInv

\* A live daemon has a cgroup before and after.
LEMMA MemberMove ==
  ASSUME MemberIffAlive, NEW p \in Daemons, Moves(p),
         (member'[p] # None) = (pc'[p] \notin {"new", "dead"})
  PROVE  MemberIffAlive'
BY DEF MemberIffAlive, Moves

--------------------------------------------------------------------------------
(* The actions *)

\* A step of recovery or preflight that shows outside only in member, manager,
\* killed and what the daemon has seen.
Walk(p) ==
  /\ Moves(p) /\ pc[p] \in Early /\ pc'[p] \in Early
  /\ member' \in [Daemons -> {"root", "manager", None}] /\ member'[p] # None
  /\ seen' \in [Daemons -> [socket : Daemons \union {None}, jobs : Daemons \union {None},
                            manager : Daemons \union {None, Systemd}]]
  /\ SameSeen
  /\ manager' \in Daemons \union {None, Systemd}
  /\ UNCHANGED <<lock, socket, jobs, dirs, running>>

LEMMA WalkKeeps == ASSUME StartInv, NEW p \in Daemons, Walk(p) PROVE StartInv'
<1>1. Types'
  BY DEF StartInv, Types, Walk, Moves
<1>2. pc[p] # "dead" /\ pc'[p] \notin {"new", "dead"} /\ pc'[p] \notin Past /\ pc[p] \notin Owner
      /\ pc'[p] \notin Owner /\ pc'[p] \in Holder /\ pc[p] \in Holder
  BY SMTT(60) DEF Walk, Early, Past, Owner, Holder
<1>3. TreeInv'
  BY <1>2, TreeMove, SameTreeShrinks DEF StartInv, Walk
<1>4. LockInv'
  BY <1>2, LockMove, SocketsStay DEF StartInv, Walk
<1>5. MemberIffAlive'
  BY <1>2, MemberMove DEF StartInv, Walk
<1> QED BY <1>1, <1>3, <1>4, <1>5 DEF StartInv

LEMMA StagesListed ==
  /\ \A s \in Early : s \in Stages
  /\ \A s \in Owner : s \in Stages /\ s \in Past
  /\ {"new", "lock", "dead", "initialize"} \subseteq Stages
BY DEF Stages, Past

\* A step that only goes on to another stage of recovery or preflight.
LEMMA PlainWalk ==
  ASSUME StartInv, NEW p \in Daemons, pc[p] \in Early, NEW s \in Early, GoesTo(p, s),
         UNCHANGED <<lock, socket, member, jobs, dirs, running>>,
         manager' \in Daemons \union {None, Systemd}, UNCHANGED seen
  PROVE  Walk(p)
<1>1. Moves(p) /\ pc'[p] = s
  BY GotoMoves, StagesListed DEF StartInv
<1>2. member'[p] # None
  BY DEF StartInv, MemberIffAlive, Early
<1> QED BY <1>1, <1>2 DEF Walk, StartInv, Types, SameSeen

LEMMA Walks ==
  ASSUME StartInv, NEW p \in Daemons,
         \/ probe_socket(p) \/ ProbeDisappeared(p) \/ OpenJobs(p) \/ AllKilled(p)
         \/ job_populated(p) \/ FinishJobs(p) \/ finish_structure(p) \/ RemoveManager(p)
         \/ FinalCheck(p) \/ create_manager(p) \/ PreflightFails(p) \/ RollbackRemoves(p)
  PROVE  Walk(p)
<1>1. pc[p] \in Early
  BY DEF Early, probe_socket, ProbeDisappeared, OpenJobs, AllKilled, job_populated, FinishJobs,
     finish_structure, RemoveManager, FinalCheck, create_manager, PreflightFails, RollbackRemoves
<1>2. UNCHANGED <<lock, socket, member, jobs, dirs, running, seen>>
  BY DEF probe_socket, ProbeDisappeared, OpenJobs, AllKilled, job_populated, FinishJobs,
     finish_structure, RemoveManager, FinalCheck, create_manager, PreflightFails, RollbackRemoves,
     tree, files
<1>3. manager' \in Daemons \union {None, Systemd}
  <2>1. manager' \in {manager, None, p}
    BY DEF probe_socket, ProbeDisappeared, OpenJobs, AllKilled, job_populated, FinishJobs,
       finish_structure, RemoveManager, FinalCheck, create_manager, PreflightFails, RollbackRemoves,
       tree, files
  <2> QED BY <2>1 DEF StartInv, Types
<1>4. \E s \in Early : GoesTo(p, s)
  <2>1. CASE probe_socket(p) \/ ProbeDisappeared(p) \/ OpenJobs(p) \/ AllKilled(p)
             \/ job_populated(p) \/ RemoveManager(p) \/ create_manager(p)
    BY <2>1 DEF Early, probe_socket, ProbeDisappeared, OpenJobs, AllKilled, job_populated,
       RemoveManager, create_manager
  <2>2. CASE PreflightFails(p) \/ RollbackRemoves(p)
    BY <2>2 DEF Early, PreflightFails, RollbackRemoves
  <2>3. CASE FinishJobs(p) \/ finish_structure(p) \/ FinalCheck(p)
    BY <2>3 DEF Early, FinishJobs, finish_structure, FinalCheck
  <2> QED BY <2>1, <2>2, <2>3
<1> QED BY <1>1, <1>2, <1>3, <1>4, PlainWalk

LEMMA ExaminingWalks == ASSUME Layout, StartInv, NEW p \in Daemons, recover_stale_socket(p) PROVE Walk(p)
<1>1. PICK s \in {"prepare", "probe"} : GoesTo(p, s)
  BY DEF recover_stale_socket
<1>2. Moves(p) /\ pc'[p] = s
  BY <1>1, GotoMoves, StagesListed DEF StartInv, recover_stale_socket, Early
<1>3. member'[p] # None
  BY DEF StartInv, MemberIffAlive, recover_stale_socket
<1>4. socket[R(p)] \in Daemons \union {None}
  BY DEF Layout, StartInv, Types, R
<1>5. /\ seen' \in [Daemons -> [socket : Daemons \union {None}, jobs : Daemons \union {None},
                               manager : Daemons \union {None, Systemd}]]
      /\ SameSeen
  BY <1>4 DEF StartInv, Types, recover_stale_socket, SameSeen
<1>6. UNCHANGED <<lock, socket, member, jobs, dirs, running, manager>> /\ pc[p] = "inspect"
  BY DEF recover_stale_socket, files, tree
<1> QED BY <1>1, <1>2, <1>3, <1>5, <1>6 DEF Walk, StartInv, Types, Early

LEMMA MemberWalk ==
  ASSUME Layout, StartInv, NEW p \in Daemons, pc[p] \in Early, NEW s \in Early, GoesTo(p, s),
         NEW m \in {"root", "manager"}, member' = [member EXCEPT ![p] = m],
         UNCHANGED <<lock, socket, jobs, dirs, running, manager, seen>>
  PROVE  Walk(p)
<1>1. /\ Moves(p) /\ pc'[p] = s /\ member'[p] = m
      /\ member' \in [Daemons -> {"root", "manager", None}]
  BY GotoMember, StagesListed DEF StartInv
<1>2. m # None
  BY DEF Layout
<1> QED BY <1>1, <1>2 DEF Walk, StartInv, Types, SameSeen

LEMMA MovingWalks ==
  ASSUME Layout, StartInv, NEW p \in Daemons, MoveToManager(p) \/ rollback_manager(p)
  PROVE  Walk(p)
<1>1. UNCHANGED <<lock, socket, jobs, dirs, running, manager, seen>> /\ pc[p] \in Early
  BY DEF MoveToManager, rollback_manager, files, tree, Early
<1>2. CASE MoveToManager(p) /\ manager = None
  BY <1>1, <1>2, PlainWalk DEF MoveToManager, Early, StartInv, Types
<1>3. CASE MoveToManager(p) /\ manager # None
  BY <1>1, <1>3, MemberWalk DEF MoveToManager, Early
<1>4. CASE rollback_manager(p)
  <2>1. \E s \in Early : GoesTo(p, s)
    BY <1>4 DEF rollback_manager, Early
  <2>2. Start \in {"root", "manager"}
    BY DEF Start
  <2> QED BY <1>1, <1>4, <2>1, <2>2, MemberWalk DEF rollback_manager
<1> QED BY <1>2, <1>3, <1>4

LEMMA KillWalks == ASSUME StartInv, NEW p \in Daemons, NEW j \in Daemons, kill_job(p, j) PROVE Walk(p)
<1>1. UNCHANGED <<pc, lock, socket, jobs, dirs, running, manager, seen, member>> /\ pc[p] = "kill"
  BY DEF kill_job, files
<1>2. member[p] # None
  BY <1>1 DEF StartInv, MemberIffAlive
<1> QED BY <1>1, <1>2 DEF Walk, StartInv, Types, SameSeen, Early, Moves

LEMMA ExecKeeps == ASSUME Layout, StartInv, NEW p \in Daemons, Exec(p) PROVE StartInv'
<1>1. Start \in {"root", "manager"} /\ Start # None
  BY DEF Start, Layout
<1>2. /\ Moves(p) /\ pc'[p] = "lock" /\ member'[p] = Start
      /\ member' \in [Daemons -> {"root", "manager", None}]
  BY <1>1, GotoMember, StagesListed DEF StartInv, Exec
<1>3. UNCHANGED <<lock, socket, seen, manager, jobs, dirs, running>> /\ pc[p] = "new"
  BY DEF Exec, files, tree
<1>4. Types'
  BY <1>2, <1>3 DEF StartInv, Types, Moves
<1>5. TreeInv'
  <2>1. SameSeen /\ Shrinks
    BY <1>3, SameTreeShrinks DEF SameSeen, StartInv
  <2>2. pc'[p] \notin Past /\ pc'[p] \notin Owner /\ pc[p] \notin Owner
    BY <1>2, <1>3 DEF Past, Owner
  <2> QED BY <1>2, <1>3, <2>1, <2>2, TreeMove DEF StartInv
<1>6. LockInv'
  <2>1. pc'[p] \notin Holder /\ pc[p] \notin Holder
    BY <1>2, <1>3 DEF Holder, Early, Past, Owner
  <2> QED BY <1>2, <1>3, <2>1, LockMove, SocketsStay DEF StartInv
<1>7. MemberIffAlive'
  BY <1>1, <1>2, MemberMove DEF StartInv
<1> QED BY <1>4, <1>5, <1>6, <1>7 DEF StartInv

\* The lock is nobody's, so taking it takes it from nobody.
LEMMA LockKeeps == ASSUME Layout, StartInv, NEW p \in Daemons, acquire_lock(p) PROVE StartInv'
<1>1. UNCHANGED <<socket, member, seen, manager, jobs, dirs, running>> /\ pc[p] = "lock"
  BY DEF acquire_lock, tree
<1>2. Moves(p) /\ pc'[p] = "inspect"
  BY GotoMoves, StagesListed, <1>1 DEF StartInv, acquire_lock, Early
<1>3. R(p) \in Runtimes /\ lock[R(p)] = None
  BY DEF Layout, R, acquire_lock
<1>4. /\ lock' \in [Runtimes -> Daemons \union {None}]
      /\ lock'[R(p)] = p /\ \A r \in Runtimes : r # R(p) => lock'[r] = lock[r]
  BY <1>3 DEF acquire_lock, StartInv, Types
<1>5. Types'
  BY <1>1, <1>2, <1>4 DEF StartInv, Types, Moves
<1>6. TreeInv'
  <2>1. SameSeen /\ Shrinks
    BY <1>1, SameTreeShrinks DEF SameSeen, StartInv
  <2>2. pc'[p] \notin Past /\ pc'[p] \notin Owner /\ pc[p] \notin Owner
    BY <1>1, <1>2 DEF Past, Owner
  <2> QED BY <1>1, <1>2, <2>1, <2>2, TreeMove DEF StartInv
<1>7. LockInv'
  <2>1. pc'[p] \in Holder
    BY <1>2 DEF Holder, Early
  <2>2. \A q \in Daemons : q # p => pc'[q] = pc[q]
    BY <1>2 DEF Moves
  <2>3. ASSUME NEW q \in Daemons, pc'[q] \in Holder PROVE lock'[R(q)] = q
    <3>1. CASE q = p
      BY <3>1, <1>4
    <3>2. CASE q # p
      <4>1. lock[R(q)] = q /\ q # None
        BY <2>2, <2>3, <3>2 DEF StartInv, LockInv, Layout
      <4>2. R(q) \in Runtimes
        BY DEF Layout, R
      <4> QED BY <4>1, <4>2, <1>3, <1>4
    <3> QED BY <3>1, <3>2
  <2>4. ASSUME NEW r \in Runtimes, lock'[r] # None PROVE pc'[lock'[r]] \in Holder /\ R(lock'[r]) = r
    <3>1. CASE r = R(p)
      BY <3>1, <1>4, <2>1
    <3>2. CASE r # R(p)
      <4>1. lock'[r] = lock[r] /\ lock[r] # None
        BY <1>4, <2>4, <3>2
      <4>2. pc[lock[r]] \in Holder /\ R(lock[r]) = r
        BY <4>1 DEF StartInv, LockInv
      <4>3. lock[r] \in Daemons
        BY <4>1 DEF StartInv, Types
      <4>4. lock[r] # p
        BY <3>2, <4>2
      <4> QED BY <4>1, <4>2, <4>3, <4>4, <2>2
    <3> QED BY <3>1, <3>2
  <2>5. \A r \in Runtimes : socket'[r] # None => R(socket'[r]) = r
    BY <1>1, SocketsStay DEF StartInv
  <2> QED BY <2>3, <2>4, <2>5 DEF LockInv, R
<1>8. MemberIffAlive'
  <2>1. (member'[p] # None) = (pc'[p] \notin {"new", "dead"})
    <3>1. member'[p] # None /\ pc'[p] \notin {"new", "dead"}
      BY <1>1, <1>2 DEF StartInv, MemberIffAlive
    <3> QED BY <3>1
  <2> QED BY <1>2, <2>1, MemberMove DEF StartInv
<1> QED BY <1>5, <1>6, <1>7, <1>8 DEF StartInv

\* A step that only removes or binds a socket, or goes on serving.
LEMMA ServeKeeps ==
  ASSUME StartInv, NEW p \in Daemons, Moves(p),
         UNCHANGED <<lock, member, seen, manager, jobs, dirs, running>>,
         \/ pc[p] \in Early /\ pc'[p] \in Early
         \/ pc[p] \in Owner \ {"leaving"} /\ pc'[p] \in Owner \ {"leaving"},
         socket' \in [Runtimes -> Daemons \union {None}],
         \A r \in Runtimes : socket'[r] # None => R(socket'[r]) = r
  PROVE  StartInv'
<1>1. Types'
  BY DEF StartInv, Types, Moves
<1>2. /\ pc[p] \in Holder /\ pc'[p] \in Holder
      /\ pc[p] \notin {"new", "dead"} /\ pc'[p] \notin {"new", "dead"}
  BY SMTT(60) DEF Holder, Early, Past, Owner
<1>3. /\ pc'[p] \in Past => pc[p] \in Past /\ member'[p] = member[p]
      /\ pc'[p] \in Owner => pc[p] \in Owner
      /\ pc[p] \in Owner => pc'[p] \in Owner \union {"dead"}
  BY DEF Early, Past, Owner
<1>4. SameSeen /\ Shrinks
  BY SameTreeShrinks DEF SameSeen, StartInv
<1>5. TreeInv'
  BY <1>2, <1>3, <1>4, TreeMove DEF StartInv
<1>6. LockInv'
  BY <1>2, LockMove DEF StartInv
<1>7. member'[p] # None
  BY <1>2 DEF StartInv, MemberIffAlive
<1>8. MemberIffAlive'
  BY <1>2, <1>7, MemberMove DEF StartInv
<1> QED BY <1>1, <1>5, <1>6, <1>8 DEF StartInv

\* One socket path changes: its file is gone, or belongs to a daemon that binds
\* there.
LEMMA SocketUpdate ==
  ASSUME StartInv, NEW r \in Runtimes, NEW o \in Daemons \union {None}, o # None => R(o) = r,
         socket' = [socket EXCEPT ![r] = o]
  PROVE  /\ socket' \in [Runtimes -> Daemons \union {None}]
         /\ \A x \in Runtimes : socket'[x] # None => R(socket'[x]) = x
<1>1. /\ socket' \in [Runtimes -> Daemons \union {None}] /\ socket'[r] = o
      /\ \A x \in Runtimes : x # r => socket'[x] = socket[x]
  BY DEF StartInv, Types
<1> QED BY <1>1 DEF StartInv, LockInv

LEMMA SocketStepsKeep ==
  ASSUME Layout, StartInv, NEW p \in Daemons,
         UnlinkStale(p) \/ bind(p) \/ listen(p) \/ ShutdownSignal(p) \/ remove_owned_path(p)
  PROVE  StartInv'
<1>1. UNCHANGED <<lock, member, seen, manager, jobs, dirs, running>>
  BY DEF UnlinkStale, bind, listen, ShutdownSignal, remove_owned_path, tree, files
<1>2. R(p) \in Runtimes
  BY DEF Layout, R
<1>3. \/ UNCHANGED socket \/ socket' = [socket EXCEPT ![R(p)] = None]
      \/ socket' = [socket EXCEPT ![R(p)] = p]
  BY DEF UnlinkStale, bind, listen, ShutdownSignal, remove_owned_path, files
<1>4. /\ socket' \in [Runtimes -> Daemons \union {None}]
      /\ \A x \in Runtimes : socket'[x] # None => R(socket'[x]) = x
  <2>1. CASE UNCHANGED socket
    BY <2>1, SocketsStay DEF StartInv, Types
  <2>2. CASE socket' = [socket EXCEPT ![R(p)] = None]
    BY <2>2, <1>2, SocketUpdate
  <2>3. CASE socket' = [socket EXCEPT ![R(p)] = p]
    BY <2>3, <1>2, SocketUpdate
  <2> QED BY <1>3, <2>1, <2>2, <2>3
<1>5. CASE UnlinkStale(p)
  <2>1. Moves(p) /\ pc[p] = "unlink" /\ pc'[p] = "prepare"
    BY <1>1, <1>5, GotoMoves, StagesListed DEF UnlinkStale, StartInv, Early
  <2> QED BY <1>1, <1>4, <2>1, ServeKeeps DEF Early
<1>6. CASE bind(p)
  <2>1. Moves(p) /\ pc[p] = "bind" /\ pc'[p] = "listen"
    BY <1>1, <1>6, GotoMoves, StagesListed DEF bind, StartInv, Owner
  <2>2. pc[p] \in Owner \ {"leaving"} /\ pc'[p] \in Owner \ {"leaving"}
    BY <2>1 DEF Owner
  <2> QED BY <1>1, <1>4, <2>1, <2>2, ServeKeeps
<1>7. CASE listen(p)
  <2>1. Moves(p) /\ pc[p] = "listen" /\ pc'[p] = "serving"
    BY <1>1, <1>7, GotoMoves, StagesListed DEF listen, StartInv, Owner
  <2>2. pc[p] \in Owner \ {"leaving"} /\ pc'[p] \in Owner \ {"leaving"}
    BY <2>1 DEF Owner
  <2> QED BY <1>1, <1>4, <2>1, <2>2, ServeKeeps
<1>8. CASE ShutdownSignal(p)
  <2>1. Moves(p) /\ pc[p] = "serving" /\ pc'[p] = "closing"
    BY <1>1, <1>8, GotoMoves, StagesListed DEF ShutdownSignal, StartInv, Owner
  <2>2. pc[p] \in Owner \ {"leaving"} /\ pc'[p] \in Owner \ {"leaving"}
    BY <2>1 DEF Owner
  <2> QED BY <1>1, <1>4, <2>1, <2>2, ServeKeeps
<1>9. CASE remove_owned_path(p)
  <2>1. Moves(p) /\ pc[p] = "closing" /\ pc'[p] = "drain"
    BY <1>1, <1>9, GotoMoves, StagesListed DEF remove_owned_path, StartInv, Owner
  <2>2. pc[p] \in Owner \ {"leaving"} /\ pc'[p] \in Owner \ {"leaving"}
    BY <2>1 DEF Owner
  <2> QED BY <1>1, <1>4, <2>1, <2>2, ServeKeeps
<1> QED BY <1>5, <1>6, <1>7, <1>8, <1>9

\* What prepare opens belongs to a dead daemon: the owner of the jobs directory,
\* were it alive, would be in the manager cgroup.
LEMMA PrepareKeeps == ASSUME Layout, StartInv, NEW p \in Daemons, prepare(p) PROVE StartInv'
<1>1. UNCHANGED <<lock, socket, member, manager, jobs, dirs, running>> /\ pc[p] = "prepare"
  BY DEF prepare, files, tree
<1>2. Moves(p) /\ pc'[p] = "jobs"
  BY <1>1, GotoMoves, StagesListed DEF StartInv, prepare, Early
<1>3. /\ seen' \in [Daemons -> [socket : Daemons \union {None}, jobs : Daemons \union {None},
                               manager : Daemons \union {None, Systemd}]]
      /\ seen'[p].jobs = jobs
      /\ \A q \in Daemons : q # p => seen'[q].jobs = seen[q].jobs
  <2> DEFINE m == [seen EXCEPT ![p].manager = manager]
  <2>2. m \in [Daemons -> [socket : Daemons \union {None}, jobs : Daemons \union {None},
                          manager : Daemons \union {None, Systemd}]]
        /\ \A q \in Daemons : m[q].jobs = seen[q].jobs
    BY DEF StartInv, Types
  <2>3. seen' = [m EXCEPT ![p].jobs = jobs]
    BY DEF prepare
  <2>4. jobs \in Daemons \union {None}
    BY DEF StartInv, Types
  <2> HIDE DEF m
  <2>5. /\ seen' \in [Daemons -> [socket : Daemons \union {None}, jobs : Daemons \union {None},
                                 manager : Daemons \union {None, Systemd}]]
        /\ seen'[p].jobs = jobs
        /\ \A q \in Daemons : q # p => seen'[q].jobs = m[q].jobs
    BY <2>2, <2>3, <2>4
  <2> QED BY <2>2, <2>5
<1>4. Types'
  BY <1>1, <1>2, <1>3 DEF StartInv, Types, Moves
<1>5. ASSUME jobs # None PROVE pc[jobs] = "dead"
  <2>1. jobs \in Daemons /\ pc[jobs] \in Owner \union {"dead"}
    BY <1>5 DEF StartInv, Types, TreeInv, JobsOwned
  <2>2. SUFFICES ASSUME pc[jobs] \in Owner PROVE FALSE
    BY <2>1
  <2>3. member[jobs] = "manager"
    BY <2>1, <2>2, StagesListed DEF StartInv, TreeInv, PastInManager
  <2>4. jobs \in Expected(p)
    BY <2>1, <2>3 DEF prepare, Procs
  <2>5. jobs = p
    BY <2>4 DEF Expected
  <2> QED BY <1>1, <2>2, <2>5 DEF Owner
<1>6. \A q \in Daemons : pc[q] = "dead" => pc'[q] = "dead"
  BY <1>1, <1>2 DEF Moves
<1>7. OpenedIsDead'
  <2> SUFFICES ASSUME NEW q \in Daemons, seen'[q].jobs # None PROVE pc'[seen'[q].jobs] = "dead"
    BY DEF OpenedIsDead
  <2>1. CASE q = p
    BY <2>1, <1>3, <1>5, <1>6 DEF StartInv, Types
  <2>2. CASE q # p
    <3>1. seen'[q].jobs = seen[q].jobs
      BY <2>2, <1>3
    <3>2. seen[q].jobs \in Daemons
      BY <3>1 DEF StartInv, Types
    <3> QED BY <3>1, <3>2, <1>6 DEF StartInv, TreeInv, OpenedIsDead
  <2> QED BY <2>1, <2>2
<1>8. PastInManager' /\ OnePast' /\ JobsOwned'
  <2>1. pc[p] \notin Past /\ pc'[p] \notin Past /\ pc[p] # "dead"
    BY <1>1, <1>2 DEF Past, Owner
  <2>2. \A q \in Daemons : pc'[q] \in Past => pc[q] \in Past /\ pc'[q] = pc[q] /\ member'[q] = member[q]
    BY <1>2, <2>1 DEF Moves
  <2>3. \A q \in Daemons : pc[q] \in Owner \union {"dead"} => pc'[q] \in Owner \union {"dead"}
    BY <1>2, <2>1 DEF Moves, Past
  <2>4. PastInManager' /\ OnePast'
    BY <2>2 DEF StartInv, TreeInv, PastInManager, OnePast
  <2>5. \A q \in Daemons : pc'[q] \in Owner => pc[q] \in Owner
    BY <2>2 DEF Past
  <2>6. JobsOwned'
    BY <1>1, <2>3, <2>5 DEF StartInv, Types, TreeInv, JobsOwned
  <2> QED BY <2>4, <2>6
<1>9. TreeInv'
  BY <1>7, <1>8 DEF TreeInv
<1>10. pc'[p] \in Holder /\ pc[p] \in Holder
  BY <1>1, <1>2 DEF Holder, Early
<1>11. LockInv'
  BY <1>1, <1>2, <1>10, LockMove, SocketsStay DEF StartInv
<1>12. member'[p] # None /\ pc'[p] \notin {"new", "dead"}
  BY <1>1, <1>2 DEF StartInv, MemberIffAlive
<1>13. MemberIffAlive'
  BY <1>2, <1>12, MemberMove DEF StartInv
<1> QED BY <1>4, <1>9, <1>11, <1>13 DEF StartInv

\* Recovery removes job cgroups and the jobs directory of dead daemons; a daemon
\* removes the cgroup of its own job.
LEMMA RemovalKeeps ==
  ASSUME StartInv, NEW p \in Daemons,
         RemoveJobs(p) \/ (\E j \in Daemons : remove_job(p, j)) \/ JobDone(p)
  PROVE  StartInv'
<1>1. UNCHANGED <<lock, socket, member, seen, manager, running>>
  BY DEF RemoveJobs, remove_job, JobDone, files
<1>2. Moves(p)
  <2>1. CASE RemoveJobs(p)
    BY <1>1, <2>1, GotoMoves, StagesListed DEF RemoveJobs, StartInv, Early
  <2>2. CASE UNCHANGED pc
    BY <1>1, <2>2 DEF Moves, StartInv, Types
  <2> QED BY <2>1, <2>2 DEF remove_job, JobDone
<1>3. \/ pc[p] \in Early /\ pc'[p] \in Early
      \/ pc[p] \in Owner /\ pc'[p] = pc[p]
  <2>1. CASE RemoveJobs(p)
    <3>1. pc[p] = "rmjobs" /\ pc'[p] = "finish"
      BY <1>1, <2>1, GotoMoves, StagesListed DEF RemoveJobs, StartInv, Early
    <3> QED BY <3>1 DEF Early
  <2>2. CASE \E j \in Daemons : remove_job(p, j)
    BY <2>2 DEF remove_job, Early
  <2>3. CASE JobDone(p)
    BY <2>3 DEF JobDone, Working, Owner
  <2> QED BY <2>1, <2>2, <2>3
<1>4. Shrinks /\ running' \subseteq dirs'
  <2>1. CASE RemoveJobs(p)
    BY <1>1, <2>1 DEF RemoveJobs, Shrinks, StartInv, Types
  <2>2. CASE \E j \in Daemons : remove_job(p, j)
    <3>1. PICK j \in Daemons : remove_job(p, j)
      BY <2>2
    <3>2. jobs' = jobs /\ dirs' = dirs \ {j} /\ j \notin running
      BY <3>1 DEF remove_job
    <3> QED BY <1>1, <3>2 DEF Shrinks, StartInv, Types, TreeInv, JobsOwned
  <2>3. CASE JobDone(p)
    <3>1. jobs' = jobs /\ dirs' = dirs \ {p} /\ p \notin running
      BY <2>3 DEF JobDone
    <3> QED BY <1>1, <3>1 DEF Shrinks, StartInv, Types, TreeInv, JobsOwned
  <2> QED BY <2>1, <2>2, <2>3
<1>5. Types'
  BY <1>1, <1>2, <1>4 DEF StartInv, Types, Moves, Shrinks
<1>6. /\ pc[p] \in Holder <=> pc'[p] \in Holder
      /\ pc[p] \notin {"new", "dead"} /\ pc'[p] \notin {"new", "dead"}
  BY SMTT(60), <1>3 DEF Holder, Early, Past, Owner
<1>7. /\ pc'[p] \in Past => pc[p] \in Past /\ member'[p] = member[p]
      /\ pc'[p] \in Owner => pc[p] \in Owner
      /\ pc[p] \in Owner => pc'[p] \in Owner \union {"dead"}
  BY <1>1, <1>3 DEF Early, Past, Owner
<1>8. TreeInv'
  BY <1>1, <1>2, <1>4, <1>6, <1>7, TreeMove DEF StartInv, SameSeen
<1>9. LockInv'
  BY <1>1, <1>2, <1>6, LockMove, SocketsStay DEF StartInv
<1>10. member'[p] # None
  BY <1>1, <1>6 DEF StartInv, MemberIffAlive
<1>11. MemberIffAlive'
  BY <1>2, <1>6, <1>10, MemberMove DEF StartInv
<1> QED BY <1>5, <1>8, <1>9, <1>11 DEF StartInv

\* Alone in the manager cgroup, a daemon is the only one past this look: any
\* other that is past it is in the manager cgroup, too.
LEMMA VerifyKeeps ==
  ASSUME StartInv, NEW p \in Daemons, require_only_current_manager_process(p)
  PROVE  StartInv'
<1>1. UNCHANGED <<lock, socket, member, seen, manager, jobs, dirs, running>> /\ pc[p] = "verify"
  BY DEF require_only_current_manager_process, files, tree
<1>2. CASE Procs("manager") # {p}
  BY <1>1, <1>2, PlainWalk, WalkKeeps
     DEF require_only_current_manager_process, Early, StartInv, Types
<1>3. CASE Procs("manager") = {p}
  <2>1. Moves(p) /\ pc'[p] = "initialize"
    BY <1>1, <1>3, GotoMoves, StagesListed DEF require_only_current_manager_process, StartInv
  <2>2. member[p] = "manager" /\ \A q \in Daemons : member[q] = "manager" => q = p
    BY <1>3 DEF Procs
  <2>3. \A q \in Daemons : q # p => pc'[q] = pc[q] /\ pc[q] \notin Past
    BY <2>1, <2>2 DEF Moves, StartInv, TreeInv, PastInManager
  <2>4. pc'[p] \notin Owner /\ pc[p] \notin Owner
    BY <1>1, <2>1 DEF Owner
  <2>5. PastInManager' /\ OnePast'
    BY <1>1, <2>2, <2>3 DEF PastInManager, OnePast
  <2>6. \A q \in Daemons : pc'[q] \notin Owner
    BY <2>3, <2>4 DEF Past
  <2>7. \A q \in Daemons : pc[q] \notin Owner
    BY <2>3, <2>4 DEF Past
  <2>8. \A q \in Daemons : pc[q] = "dead" => pc'[q] = "dead"
    BY <1>1, <2>3
  <2>9. JobsOwned'
    BY <1>1, <2>6, <2>7, <2>8 DEF StartInv, Types, TreeInv, JobsOwned
  <2>10. OpenedIsDead'
    <3> SUFFICES ASSUME NEW q \in Daemons, seen[q].jobs # None PROVE pc'[seen[q].jobs] = "dead"
      BY <1>1 DEF OpenedIsDead
    <3>1. seen[q].jobs \in Daemons
      BY DEF StartInv, Types
    <3> QED BY <3>1, <2>8 DEF StartInv, TreeInv, OpenedIsDead
  <2>11. pc'[p] \in Holder /\ pc[p] \in Holder
    BY <1>1, <2>1 DEF Holder, Early, Past
  <2>12. LockInv'
    BY <1>1, <2>1, <2>11, LockMove, SocketsStay DEF StartInv
  <2>13. member'[p] # None /\ pc'[p] \notin {"new", "dead"}
    BY <1>1, <2>1 DEF StartInv, MemberIffAlive
  <2>14. MemberIffAlive'
    BY <2>1, <2>13, MemberMove DEF StartInv
  <2>15. Types'
    BY <1>1, <2>1 DEF StartInv, Types, Moves
  <2> QED BY <2>5, <2>9, <2>10, <2>12, <2>14, <2>15 DEF StartInv, TreeInv
<1> QED BY <1>2, <1>3

\* The jobs directory is created where there was none, so it is empty.
LEMMA InitializeKeeps == ASSUME StartInv, NEW p \in Daemons, initialize(p) PROVE StartInv'
<1>1. /\ UNCHANGED <<lock, socket, member, seen, manager, dirs, running>>
      /\ pc[p] = "initialize" /\ jobs = None /\ jobs' = p
  BY DEF initialize, files
<1>2. Moves(p) /\ pc'[p] = "bind"
  BY <1>1, GotoMoves, StagesListed DEF initialize, StartInv, Owner
<1>3. dirs = {}
  BY <1>1 DEF StartInv, TreeInv, JobsOwned
<1>4. pc[p] \in Past /\ pc'[p] \in Past /\ pc'[p] \in Owner
  BY <1>1, <1>2 DEF Past, Owner
<1>5. \A q \in Daemons : q # p => pc'[q] = pc[q] /\ pc[q] \notin Past
  BY <1>2, <1>4 DEF Moves, StartInv, TreeInv, OnePast
<1>6. PastInManager' /\ OnePast'
  BY <1>1, <1>4, <1>5 DEF StartInv, TreeInv, PastInManager, OnePast
<1>7. \A q \in Daemons : pc'[q] \in Owner => q = p
  BY <1>5 DEF Past
<1>8. JobsOwned'
  BY <1>1, <1>3, <1>4, <1>7 DEF JobsOwned
<1>9. \A q \in Daemons : pc[q] = "dead" => pc'[q] = "dead"
  BY <1>1, <1>5
<1>10. OpenedIsDead'
  <2> SUFFICES ASSUME NEW q \in Daemons, seen[q].jobs # None PROVE pc'[seen[q].jobs] = "dead"
    BY <1>1 DEF OpenedIsDead
  <2>1. seen[q].jobs \in Daemons
    BY DEF StartInv, Types
  <2> QED BY <2>1, <1>9 DEF StartInv, TreeInv, OpenedIsDead
<1>11. pc'[p] \in Holder /\ pc[p] \in Holder
  BY <1>1, <1>2 DEF Holder, Past, Owner
<1>12. LockInv'
  BY <1>1, <1>2, <1>11, LockMove, SocketsStay DEF StartInv
<1>13. member'[p] # None /\ pc'[p] \notin {"new", "dead"}
  BY <1>1, <1>2 DEF StartInv, MemberIffAlive
<1>14. MemberIffAlive'
  BY <1>2, <1>13, MemberMove DEF StartInv
<1>15. Types'
  BY <1>1, <1>2 DEF StartInv, Types, Moves
<1> QED BY <1>6, <1>8, <1>10, <1>12, <1>14, <1>15 DEF StartInv, TreeInv

\* A job cgroup is created by the one daemon past the look.
LEMMA CreateKeeps == ASSUME StartInv, NEW p \in Daemons, create_job(p) PROVE StartInv'
<1>1. /\ UNCHANGED <<pc, lock, socket, member, seen, manager, jobs>>
      /\ pc[p] \in Owner /\ jobs # None
      /\ dirs' = dirs \union {p} /\ running' = running \union {p}
  BY DEF create_job, files, Working, Owner
<1>2. \A q \in Daemons : pc[q] \in Owner => q = p
  BY <1>1, StagesListed DEF StartInv, TreeInv, OnePast
<1>3. dirs' \subseteq {p}
  BY <1>1 DEF StartInv, TreeInv, JobsOwned
<1>4. JobsOwned'
  BY <1>1, <1>2, <1>3 DEF StartInv, TreeInv, JobsOwned
<1>5. Types'
  BY <1>1, <1>3 DEF StartInv, Types
<1> QED BY <1>1, <1>4, <1>5
        DEF StartInv, TreeInv, PastInManager, OnePast, OpenedIsDead, LockInv, MemberIffAlive, R

LEMMA PayloadKeeps == ASSUME StartInv, NEW j \in Daemons, PayloadEnds(j) PROVE StartInv'
<1>1. /\ UNCHANGED <<pc, lock, socket, member, seen, manager, jobs, dirs>>
      /\ running' \subseteq running
  BY DEF PayloadEnds, files
<1> QED BY <1>1 DEF StartInv, Types, TreeInv, PastInManager, OnePast, JobsOwned, OpenedIsDead,
        LockInv, MemberIffAlive, R

LEMMA TidyKeeps == ASSUME StartInv, NEW r \in Runtimes, Tidy(r) PROVE StartInv'
<1>1. /\ UNCHANGED <<pc, lock, member, seen, manager, jobs, dirs, running>>
      /\ socket' = [socket EXCEPT ![r] = None]
  BY DEF Tidy, tree
<1>2. /\ socket' \in [Runtimes -> Daemons \union {None}]
      /\ \A x \in Runtimes : socket'[x] # None => R(socket'[x]) = x
  BY <1>1, SocketUpdate
<1> QED BY <1>1, <1>2 DEF StartInv, Types, TreeInv, PastInManager, OnePast, JobsOwned,
        OpenedIsDead, LockInv, MemberIffAlive, R

\* The locks one daemon gives back are its own, and it is left with none.
LEMMA ReleaseKeeps ==
  ASSUME Layout, StartInv, NEW p \in Daemons, Moves(p), pc'[p] \notin Holder,
         lock' \in [Runtimes -> Daemons \union {None}], UNCHANGED socket,
         \A r \in Runtimes : lock'[r] \in {lock[r], None} /\ lock'[r] # p,
         \A r \in Runtimes : lock[r] # p => lock'[r] = lock[r]
  PROVE  LockInv'
<1>1. \A q \in Daemons : q # p => pc'[q] = pc[q]
  BY DEF Moves
<1>2. ASSUME NEW q \in Daemons, pc'[q] \in Holder PROVE lock'[R(q)] = q
  <2>1. q # p
    BY <1>2
  <2>2. lock[R(q)] = q
    BY <1>1, <1>2, <2>1 DEF StartInv, LockInv
  <2>3. R(q) \in Runtimes
    BY DEF Layout, R
  <2> QED BY <2>1, <2>2, <2>3
<1>3. ASSUME NEW r \in Runtimes, lock'[r] # None PROVE pc'[lock'[r]] \in Holder /\ R(lock'[r]) = r
  <2>1. lock'[r] = lock[r] /\ lock[r] # p
    BY <1>3
  <2>2. lock[r] \in Daemons
    BY <1>3, <2>1 DEF StartInv, Types
  <2> QED BY <1>1, <1>3, <2>1, <2>2 DEF StartInv, LockInv
<1>4. \A r \in Runtimes : socket'[r] # None => R(socket'[r]) = r
  BY SocketsStay DEF StartInv
<1> QED BY <1>2, <1>3, <1>4 DEF LockInv, R

\* The lock goes after the drain; the daemon stays in its cgroup.
LEMMA DrainKeeps == ASSUME Layout, StartInv, NEW p \in Daemons, finish_protocol_serve(p) PROVE StartInv'
<1>1. /\ UNCHANGED <<socket, member, seen, manager, jobs, dirs, running>> /\ pc[p] = "drain"
      /\ lock' = [lock EXCEPT ![R(p)] = None]
  BY DEF finish_protocol_serve, tree
<1>2. Moves(p) /\ pc'[p] = "leaving"
  BY <1>1, GotoMoves, StagesListed DEF finish_protocol_serve, StartInv, Owner
<1>3. R(p) \in Runtimes
  BY DEF Layout, R
<1>4. /\ lock' \in [Runtimes -> Daemons \union {None}]
      /\ lock'[R(p)] = None /\ \A r \in Runtimes : r # R(p) => lock'[r] = lock[r]
  BY <1>1, <1>3 DEF StartInv, Types
<1>5. \A r \in Runtimes : lock[r] = p <=> r = R(p)
  <2>1. pc[p] \in Holder /\ p # None
    BY <1>1 DEF Holder, Past, Owner, Layout
  <2> QED BY <2>1 DEF StartInv, LockInv
<1>6. LockInv'
  <2>1. pc'[p] \notin Holder
    BY <1>2 DEF Holder
  <2>2. p # None
    BY DEF Layout
  <2> QED BY <1>1, <1>2, <1>4, <1>5, <2>1, <2>2, ReleaseKeeps
<1>7. pc[p] \in Owner /\ pc'[p] \in Owner
  BY <1>1, <1>2 DEF Owner
<1>8. TreeInv'
  <2>1. SameSeen /\ Shrinks
    BY <1>1, SameTreeShrinks DEF SameSeen, StartInv
  <2>2. pc[p] # "dead" /\ pc[p] \in Past /\ member'[p] = member[p]
    BY <1>1, <1>7, StagesListed
  <2> QED BY <1>2, <1>7, <2>1, <2>2, TreeMove DEF StartInv
<1>9. member'[p] # None /\ pc'[p] \notin {"new", "dead"}
  BY <1>1, <1>2 DEF StartInv, MemberIffAlive
<1>10. MemberIffAlive'
  BY <1>2, <1>9, MemberMove DEF StartInv
<1>11. Types'
  BY <1>1, <1>2, <1>4 DEF StartInv, Types, Moves
<1> QED BY <1>6, <1>8, <1>10, <1>11 DEF StartInv

\* The end of a process, by itself, by an error or by a signal.
LEMMA GoneKeeps ==
  ASSUME Layout, StartInv, NEW p \in Daemons, pc[p] \notin {"new", "dead"}, Gone(p),
         UNCHANGED <<socket, seen, manager, jobs, dirs, running>>
  PROVE  StartInv'
<1>1. /\ Moves(p) /\ pc'[p] = "dead" /\ member'[p] = None
      /\ member' \in [Daemons -> {"root", "manager", None}]
  BY GotoMember, StagesListed DEF Gone, StartInv
<1>2. /\ lock' \in [Runtimes -> Daemons \union {None}]
      /\ \A r \in Runtimes : lock'[r] = IF lock[r] = p THEN None ELSE lock[r]
  BY DEF Gone, StartInv, Types
<1>3. LockInv'
  <2>1. pc'[p] \notin Holder
    BY <1>1 DEF Holder, Early, Past, Owner
  <2>2. p # None
    BY DEF Layout
  <2>3. /\ \A r \in Runtimes : lock'[r] \in {lock[r], None} /\ lock'[r] # p
        /\ \A r \in Runtimes : lock[r] # p => lock'[r] = lock[r]
    BY <1>2, <2>2
  <2> QED BY <1>1, <1>2, <2>1, <2>3, ReleaseKeeps
<1>4. TreeInv'
  <2>1. SameSeen /\ Shrinks
    BY SameTreeShrinks DEF SameSeen, StartInv
  <2>2. pc'[p] \notin Past /\ pc'[p] \notin Owner
    BY <1>1 DEF Past, Owner
  <2> QED BY <1>1, <2>1, <2>2, TreeMove DEF StartInv
<1>5. MemberIffAlive'
  BY <1>1, MemberMove DEF StartInv
<1>6. Types'
  BY <1>1, <1>2 DEF StartInv, Types, Moves
<1> QED BY <1>3, <1>4, <1>5, <1>6 DEF StartInv

LEMMA EndsKeep ==
  ASSUME Layout, StartInv, NEW p \in Daemons, Exit(p) \/ Die(p) \/ Refuse(p)
  PROVE  StartInv'
<1>1. Gone(p) /\ UNCHANGED <<socket, seen, manager, jobs, dirs, running>>
  BY DEF Exit, Die, Refuse, tree
<1>2. pc[p] \notin {"new", "dead"}
  <2>1. CASE Exit(p) \/ Die(p)
    BY <2>1 DEF Exit, Die, Alive
  <2>2. CASE Refuse(p)
    BY <2>2 DEF Refuse, CheckFails
  <2> QED BY <2>1, <2>2
<1> QED BY <1>1, <1>2, GoneKeeps

LEMMA StartInit == ASSUME Layout PROVE StartupInit => StartInv
<1> SUFFICES ASSUME StartupInit PROVE StartInv
  OBVIOUS
<1>1. \A p \in Daemons : pc[p] = "new" /\ member[p] = None /\ seen[p].jobs = None
  BY DEF StartupInit
<1>2. \A p \in Daemons : pc[p] \notin Past /\ pc[p] \notin Owner /\ pc[p] \notin Holder
  BY <1>1 DEF Past, Owner, Holder, Early
<1>3. \A r \in Runtimes : lock[r] = None /\ socket[r] = None
  BY DEF StartupInit
<1>4. Types
  BY DEF StartupInit, Types, Stages
<1>5. MemberIffAlive /\ OpenedIsDead /\ PastInManager /\ OnePast
  BY <1>1, <1>2 DEF MemberIffAlive, OpenedIsDead, PastInManager, OnePast
<1>6. JobsOwned
  BY <1>2 DEF JobsOwned, StartupInit
<1>7. LockInv
  BY <1>2, <1>3 DEF LockInv
<1> QED BY <1>4, <1>5, <1>6, <1>7 DEF StartInv, TreeInv

LEMMA StartNext == ASSUME Layout PROVE StartInv /\ [StartupNext]_startupVars => StartInv'
<1> SUFFICES ASSUME StartInv, [StartupNext]_startupVars PROVE StartInv'
  OBVIOUS
<1>1. ASSUME NEW p \in Daemons, Exec(p) \/ Step(p) \/ create_job(p) \/ ShutdownSignal(p) \/ Die(p)
             \/ PreflightFails(p)
      PROVE  StartInv'
  <2>1. CASE \/ probe_socket(p) \/ ProbeDisappeared(p) \/ OpenJobs(p) \/ AllKilled(p)
             \/ job_populated(p) \/ FinishJobs(p) \/ finish_structure(p) \/ RemoveManager(p)
             \/ FinalCheck(p) \/ create_manager(p) \/ PreflightFails(p) \/ RollbackRemoves(p)
    BY <2>1, Walks, WalkKeeps
  <2>2. CASE recover_stale_socket(p) \/ MoveToManager(p) \/ rollback_manager(p)
    BY <2>2, ExaminingWalks, MovingWalks, WalkKeeps
  <2>3. CASE \E j \in Daemons : kill_job(p, j)
    BY <2>3, KillWalks, WalkKeeps
  <2>4. CASE Exec(p) \/ acquire_lock(p) \/ prepare(p)
    BY <2>4, ExecKeeps, LockKeeps, PrepareKeeps
  <2>5. CASE UnlinkStale(p) \/ bind(p) \/ listen(p) \/ ShutdownSignal(p) \/ remove_owned_path(p)
    BY <2>5, SocketStepsKeep
  <2>6. CASE RemoveJobs(p) \/ (\E j \in Daemons : remove_job(p, j)) \/ JobDone(p)
    BY <2>6, RemovalKeeps
  <2>7. CASE require_only_current_manager_process(p) \/ initialize(p) \/ create_job(p)
    BY <2>7, VerifyKeeps, InitializeKeeps, CreateKeeps
  <2>8. CASE finish_protocol_serve(p) \/ Exit(p) \/ Die(p) \/ Refuse(p)
    BY <2>8, DrainKeeps, EndsKeep
  <2> QED BY <1>1, <2>1, <2>2, <2>3, <2>4, <2>5, <2>6, <2>7, <2>8 DEF Step
<1>2. CASE \E j \in Daemons : PayloadEnds(j)
  BY <1>2, PayloadKeeps
<1>3. CASE \E r \in Runtimes : Tidy(r)
  BY <1>3, TidyKeeps
<1>4. CASE UNCHANGED startupVars
  BY <1>4 DEF startupVars, StartInv, Types, TreeInv, PastInManager, OnePast, JobsOwned,
     OpenedIsDead, LockInv, MemberIffAlive, R
<1> QED BY <1>1, <1>2, <1>3, <1>4 DEF StartupNext

--------------------------------------------------------------------------------
(* The theorems *)

\* The two arguments hold in every state, however daemons start, serve, stop and
\* die beside each other.
THEOREM StartupInvariant == ASSUME Layout PROVE StartupSpec => []StartInv
BY StartInit, StartNext, PTL DEF StartupSpec

\* A lock is held by a live daemon of its runtime directory, a cgroup's members
\* are the live daemons, and job cgroups lie below a jobs directory.
THEOREM StartupTypeCorrect == ASSUME Layout PROVE StartupSpec => []StartupTypeOK
<1>1. StartInv => StartupTypeOK
  <2> SUFFICES ASSUME StartInv PROVE StartupTypeOK
    OBVIOUS
  <2>1. \A r \in Runtimes : lock[r] \in Daemons \union {None}
    BY DEF StartInv, Types
  <2>2. \A s \in Holder : s \notin {"new", "dead"}
    BY DEF Holder, Early, Past, Owner
  <2>3. \A r \in Runtimes : lock[r] # None => Alive(lock[r]) /\ R(lock[r]) = r
    BY <2>2 DEF StartInv, LockInv, Alive
  <2>4. \A p \in Daemons : member[p] \in {"root", "manager", None}
    BY DEF StartInv, Types
  <2>5. \A p \in Daemons : (member[p] # None) = Alive(p)
    BY DEF StartInv, MemberIffAlive, Alive
  <2>6. running \subseteq dirs /\ (jobs = None => dirs = {})
    BY DEF StartInv, Types, TreeInv, JobsOwned
  <2> QED BY <2>1, <2>3, <2>4, <2>5, <2>6 DEF StartupTypeOK
<1> QED BY <1>1, StartupInvariant, PTL

\* At most one daemon serves below a cgroup root, also when several with
\* different runtime directories, hence different locks, were given it.
THEOREM OneDaemonServes == ASSUME Layout PROVE StartupSpec => []OneServing
<1>1. StartInv => OneServing
  <2>1. \A p \in Daemons : Serving(p) => pc[p] \in Past
    BY DEF Serving, Past, Owner
  <2> QED BY <2>1 DEF StartInv, TreeInv, OnePast, OneServing
<1> QED BY <1>1, StartupInvariant, PTL

\* A daemon serves only where no job cgroup of another daemon is left.
THEOREM RecoveredBeforeService == ASSUME Layout PROVE StartupSpec => []ServingMeansRecovered
<1>1. StartInv => ServingMeansRecovered
  <2>1. \A p \in Daemons : Serving(p) => pc[p] \in Owner
    BY DEF Serving, Owner
  <2> QED BY <2>1 DEF StartInv, TreeInv, JobsOwned, ServingMeansRecovered
<1> QED BY <1>1, StartupInvariant, PTL

\* Recovery kills no job of a daemon that is alive, whatever starts beside it:
\* the jobs directory it has opened was a dead daemon's.
THEOREM RecoveryKillsTheDead == ASSUME Layout PROVE StartupSpec => RecoverySparesLive
<1>1. StartInv /\ [StartupNext]_startupVars => [\A j \in Daemons : j \in killed' \ killed => ~ Alive(j)]_startupVars
  <2> SUFFICES ASSUME StartInv, StartupNext, NEW j \in Daemons, j \in killed', j \notin killed
               PROVE  ~ Alive(j)
    BY DEF startupVars
  <2>1. ASSUME NEW p \in Daemons, kill_job(p, j) PROVE ~ Alive(j)
    <3>1. jobs # None /\ jobs = seen[p].jobs /\ j \in dirs
      BY <2>1 DEF kill_job, Present, Entries
    <3>2. pc[jobs] = "dead"
      BY <3>1 DEF StartInv, TreeInv, OpenedIsDead
    <3>3. pc[j] \in Owner => jobs = j
      BY <3>1 DEF StartInv, TreeInv, JobsOwned
    <3>4. pc[j] \in Owner \union {"dead"}
      BY <3>1 DEF StartInv, TreeInv, JobsOwned
    <3>5. "dead" \notin Owner
      BY DEF Owner
    <3> QED BY <3>2, <3>3, <3>4, <3>5 DEF Alive
  <2>2. \E p \in Daemons : kill_job(p, j)
    <3>1. ASSUME NEW p \in Daemons, Exec(p) \/ create_job(p) \/ ShutdownSignal(p) \/ Die(p) \/ PreflightFails(p)
          PROVE  FALSE
      BY <3>1 DEF Exec, create_job, ShutdownSignal, Die, PreflightFails, tree
    <3>2. ASSUME NEW p \in Daemons, Step(p), \A i \in Daemons : ~ kill_job(p, i) PROVE FALSE
      <4>1. CASE \/ acquire_lock(p) \/ recover_stale_socket(p) \/ probe_socket(p) \/ ProbeDisappeared(p)
                 \/ UnlinkStale(p) \/ prepare(p) \/ OpenJobs(p) \/ AllKilled(p) \/ job_populated(p)
        BY <4>1 DEF acquire_lock, recover_stale_socket, probe_socket, ProbeDisappeared,
           UnlinkStale, prepare, OpenJobs, AllKilled, job_populated, tree
      <4>2. CASE \E i \in Daemons : remove_job(p, i)
        BY <4>2 DEF remove_job
      <4>3. CASE \/ FinishJobs(p) \/ RemoveJobs(p) \/ finish_structure(p) \/ RemoveManager(p)
                 \/ FinalCheck(p) \/ create_manager(p) \/ MoveToManager(p)
                 \/ require_only_current_manager_process(p)
        BY <4>3 DEF FinishJobs, RemoveJobs, finish_structure, RemoveManager, FinalCheck,
           create_manager, MoveToManager, require_only_current_manager_process, tree
      <4>4. CASE \/ rollback_manager(p) \/ RollbackRemoves(p) \/ initialize(p) \/ bind(p) \/ listen(p)
                 \/ remove_owned_path(p) \/ finish_protocol_serve(p) \/ Exit(p) \/ JobDone(p) \/ Refuse(p)
        BY <4>4 DEF rollback_manager, RollbackRemoves, initialize, bind, listen,
           remove_owned_path, finish_protocol_serve, Exit, JobDone, Refuse, tree
      <4> QED BY <3>2, <4>1, <4>2, <4>3, <4>4 DEF Step
    <3>3. ASSUME (\E i \in Daemons : PayloadEnds(i)) \/ (\E r \in Runtimes : Tidy(r)) PROVE FALSE
      BY <3>3 DEF PayloadEnds, Tidy, tree
    <3>4. PICK p \in Daemons, i \in Daemons : kill_job(p, i)
      BY <3>1, <3>2, <3>3 DEF StartupNext
    <3>5. i = j
      BY <3>4 DEF kill_job
    <3> QED BY <3>4, <3>5
  <2> QED BY <2>1, <2>2
<1> QED BY <1>1, StartupInvariant, PTL DEF StartupSpec, RecoverySparesLive

\* No step of any process removes the socket file of a daemon that listens, but
\* its own cleanup: whoever examines a path holds its lock, and so does whoever
\* listens there.
THEOREM SocketsOfListenersStay == ASSUME Layout PROVE StartupSpec => SocketSparesLive
<1> DEFINE Spared(r) == socket[r] # None /\ socket'[r] = None
                          => ~ Listening(socket[r]) \/ pc[socket[r]] = "closing"
<1>1. ASSUME StartInv, StartupNext, NEW r \in Runtimes PROVE Spared(r)
  <2> SUFFICES ASSUME socket[r] # None, socket'[r] = None, Listening(socket[r])
               PROVE  pc[socket[r]] = "closing"
    OBVIOUS
  <2>1. socket[r] \in Daemons /\ R(socket[r]) = r /\ socket[r] # None
    BY SMTT(60), <1>1 DEF StartInv, Types, LockInv
  <2>2. pc[socket[r]] \in {"serving", "closing"} /\ pc[socket[r]] \in Holder
    BY DEF Listening, Holder, Past, Owner
  <2>3. lock[r] = socket[r]
    BY <1>1, <2>1, <2>2 DEF StartInv, LockInv
  <2>4. \A q \in Daemons : R(q) \in Runtimes
    BY DEF Layout, R
  <2>5. ASSUME NEW p \in Daemons, UnlinkStale(p) PROVE FALSE
    <3>1. pc[p] = "unlink" /\ socket' = [socket EXCEPT ![R(p)] = None]
      BY <2>5 DEF UnlinkStale
    <3>2. r = R(p)
      BY <1>1, <2>1, <2>4, <3>1 DEF StartInv, Types
    <3>3. lock[R(p)] = p
      BY <1>1, <3>1 DEF StartInv, LockInv, Holder, Early
    <3> QED BY <2>2, <2>3, <3>1, <3>2, <3>3
  <2>6. ASSUME NEW p \in Daemons, bind(p) PROVE FALSE
    <3>1. p # None /\ socket[R(p)] = None /\ socket' = [socket EXCEPT ![R(p)] = p]
      BY <2>6 DEF bind, Layout
    <3> QED BY <1>1, <2>1, <2>4, <3>1 DEF StartInv, Types
  <2>7. ASSUME NEW p \in Daemons, remove_owned_path(p) PROVE pc[socket[r]] = "closing"
    <3>1. pc[p] = "closing" /\ socket[R(p)] = p /\ socket' = [socket EXCEPT ![R(p)] = None]
      BY <2>1, <2>7 DEF remove_owned_path
    <3>2. r = R(p)
      BY <1>1, <2>1, <2>4, <3>1 DEF StartInv, Types
    <3> QED BY <3>1, <3>2
  <2>8. ASSUME NEW x \in Runtimes, Tidy(x) PROVE FALSE
    <3>1. ~ Alive(socket[x]) /\ socket' = [socket EXCEPT ![x] = None]
      BY <2>8 DEF Tidy
    <3>2. r = x
      BY <1>1, <2>1, <3>1 DEF StartInv, Types
    <3> QED BY <2>2, <3>1, <3>2 DEF Alive
  <2>9. socket' # socket
    BY <2>1
  <2>10. ASSUME NEW p \in Daemons, Exec(p) \/ create_job(p) \/ ShutdownSignal(p) \/ Die(p) \/ PreflightFails(p)
         PROVE  FALSE
    BY <2>9, <2>10 DEF Exec, create_job, ShutdownSignal, Die, PreflightFails, files
  <2>11. ASSUME NEW p \in Daemons, Step(p) PROVE UnlinkStale(p) \/ bind(p) \/ remove_owned_path(p)
    <3>1. CASE \/ acquire_lock(p) \/ recover_stale_socket(p) \/ probe_socket(p) \/ ProbeDisappeared(p)
               \/ prepare(p) \/ OpenJobs(p) \/ AllKilled(p) \/ job_populated(p)
      BY <2>9, <3>1 DEF acquire_lock, recover_stale_socket, probe_socket, ProbeDisappeared,
         prepare, OpenJobs, AllKilled, job_populated, files
    <3>2. CASE \E i \in Daemons : kill_job(p, i) \/ remove_job(p, i)
      BY <2>9, <3>2 DEF kill_job, remove_job, files
    <3>3. CASE \/ FinishJobs(p) \/ RemoveJobs(p) \/ finish_structure(p) \/ RemoveManager(p)
               \/ FinalCheck(p) \/ create_manager(p) \/ MoveToManager(p)
               \/ require_only_current_manager_process(p)
      BY <2>9, <3>3 DEF FinishJobs, RemoveJobs, finish_structure, RemoveManager, FinalCheck,
         create_manager, MoveToManager, require_only_current_manager_process, files
    <3>4. CASE \/ rollback_manager(p) \/ RollbackRemoves(p) \/ initialize(p) \/ listen(p)
               \/ finish_protocol_serve(p) \/ Exit(p) \/ JobDone(p) \/ Refuse(p)
      BY <2>9, <3>4 DEF rollback_manager, RollbackRemoves, initialize, listen,
         finish_protocol_serve, Exit, JobDone, Refuse, files
    <3> QED BY <2>11, <3>1, <3>2, <3>3, <3>4 DEF Step
  <2>12. ~ \E i \in Daemons : PayloadEnds(i)
    BY <2>9 DEF PayloadEnds, files
  <2> QED BY <1>1, <2>5, <2>6, <2>7, <2>8, <2>10, <2>11, <2>12 DEF StartupNext
<1>2. StartInv /\ [StartupNext]_startupVars
        => [\A r \in Runtimes : LET owner == socket[r] IN
              owner # None /\ socket'[r] = None => ~ Listening(owner) \/ pc[owner] = "closing"]_startupVars
  BY <1>1 DEF startupVars
<1> QED BY <1>2, StartupInvariant, PTL DEF StartupSpec, SocketSparesLive

--------------------------------------------------------------------------------
(* Under one lock *)

\* All daemons have the same runtime directory.
OneRuntime == \A p, q \in Daemons : RuntimeOf[p] = RuntimeOf[q]

Covered == Owner \ {"leaving"}
OwnJobs == \A p \in Daemons : pc[p] \in Covered => jobs = p

\* The jobs directory is removed by a recovery and created by initialize only.
LEMMA JobsChange ==
  ASSUME StartupNext, jobs' # jobs
  PROVE  \E p \in Daemons : RemoveJobs(p) \/ initialize(p)
<1>1. ASSUME NEW p \in Daemons, Exec(p) \/ create_job(p) \/ ShutdownSignal(p) \/ Die(p) \/ PreflightFails(p)
      PROVE  FALSE
  BY <1>1 DEF Exec, create_job, ShutdownSignal, Die, PreflightFails, tree
<1>2. ASSUME NEW p \in Daemons, Step(p) PROVE RemoveJobs(p) \/ initialize(p)
  <2>1. CASE \/ acquire_lock(p) \/ recover_stale_socket(p) \/ probe_socket(p) \/ ProbeDisappeared(p)
             \/ UnlinkStale(p) \/ prepare(p) \/ OpenJobs(p) \/ AllKilled(p) \/ job_populated(p)
    BY <2>1 DEF acquire_lock, recover_stale_socket, probe_socket, ProbeDisappeared,
       UnlinkStale, prepare, OpenJobs, AllKilled, job_populated, tree
  <2>2. CASE \E i \in Daemons : kill_job(p, i) \/ remove_job(p, i)
    BY <2>2 DEF kill_job, remove_job
  <2>3. CASE \/ FinishJobs(p) \/ finish_structure(p) \/ RemoveManager(p)
             \/ FinalCheck(p) \/ create_manager(p) \/ MoveToManager(p)
             \/ require_only_current_manager_process(p)
    BY <2>3 DEF FinishJobs, finish_structure, RemoveManager, FinalCheck,
       create_manager, MoveToManager, require_only_current_manager_process, tree
  <2>4. CASE \/ rollback_manager(p) \/ RollbackRemoves(p) \/ bind(p) \/ listen(p)
             \/ remove_owned_path(p) \/ finish_protocol_serve(p) \/ Exit(p) \/ JobDone(p) \/ Refuse(p)
    BY <2>4 DEF rollback_manager, RollbackRemoves, bind, listen,
       remove_owned_path, finish_protocol_serve, Exit, JobDone, Refuse, tree
  <2> QED BY <1>2, <2>1, <2>2, <2>3, <2>4 DEF Step
<1>3. ASSUME (\E i \in Daemons : PayloadEnds(i)) \/ (\E r \in Runtimes : Tidy(r)) PROVE FALSE
  BY <1>3 DEF PayloadEnds, Tidy, tree
<1> QED BY <1>1, <1>2, <1>3 DEF StartupNext

LEMMA EntersCovered ==
  ASSUME StartInv, StartupNext, NEW p \in Daemons, pc'[p] \in Covered, pc[p] \notin Covered
  PROVE  jobs' = p
<1>1. pc[p] \notin {"bind", "listen", "serving", "closing", "drain"} /\ pc'[p] # pc[p]
      /\ pc'[p] \in {"bind", "listen", "serving", "closing", "drain"}
  BY DEF Covered, Owner
<1>2. \A q \in Daemons : \A s : GoesTo(q, s) => q = p /\ s \in {"bind", "listen", "serving", "closing", "drain"}
  BY <1>1 DEF StartInv, Types, GoesTo
<1>2b. \A q \in Daemons : \A s : s \notin {"bind", "listen", "serving", "closing", "drain"} => ~ GoesTo(q, s)
  BY <1>2
<1>2a. \A q \in Daemons :
         /\ ~ GoesTo(q, "lock") /\ ~ GoesTo(q, "inspect") /\ ~ GoesTo(q, "probe") /\ ~ GoesTo(q, "unlink")
         /\ ~ GoesTo(q, "prepare") /\ ~ GoesTo(q, "jobs") /\ ~ GoesTo(q, "kill") /\ ~ GoesTo(q, "empty")
         /\ ~ GoesTo(q, "remove") /\ ~ GoesTo(q, "rmjobs") /\ ~ GoesTo(q, "finish") /\ ~ GoesTo(q, "rmmanager")
         /\ ~ GoesTo(q, "check") /\ ~ GoesTo(q, "create") /\ ~ GoesTo(q, "move") /\ ~ GoesTo(q, "verify")
         /\ ~ GoesTo(q, "rollback") /\ ~ GoesTo(q, "rmdir") /\ ~ GoesTo(q, "failed") /\ ~ GoesTo(q, "initialize")
         /\ ~ GoesTo(q, "leaving") /\ ~ GoesTo(q, "dead")
  BY <1>2b
<1>3. pc' # pc
  BY <1>1
<1>4. ASSUME NEW q \in Daemons, Exec(q) \/ create_job(q) \/ ShutdownSignal(q) \/ Die(q) \/ PreflightFails(q)
      PROVE  FALSE
  BY <1>1, <1>2, <1>2a, <1>3, <1>4 DEF Exec, create_job, ShutdownSignal, Die, Gone, PreflightFails
<1>5. ASSUME NEW q \in Daemons, Step(q) PROVE initialize(q)
  <2>1. CASE \/ acquire_lock(q) \/ probe_socket(q) \/ ProbeDisappeared(q)
             \/ UnlinkStale(q) \/ prepare(q) \/ OpenJobs(q) \/ AllKilled(q) \/ job_populated(q)
    BY <1>2a, <2>1 DEF acquire_lock, probe_socket, ProbeDisappeared,
       UnlinkStale, prepare, OpenJobs, AllKilled, job_populated
  <2>2. CASE \E i \in Daemons : kill_job(q, i) \/ remove_job(q, i)
    BY <1>3, <2>2 DEF kill_job, remove_job
  <2>3. CASE \/ recover_stale_socket(q) \/ FinishJobs(q) \/ finish_structure(q) \/ FinalCheck(q)
             \/ MoveToManager(q) \/ require_only_current_manager_process(q) \/ rollback_manager(q)
    BY <1>2a, <2>3 DEF recover_stale_socket, FinishJobs, finish_structure, FinalCheck,
       MoveToManager, require_only_current_manager_process, rollback_manager
  <2>4. CASE \/ RemoveJobs(q) \/ RemoveManager(q) \/ create_manager(q) \/ RollbackRemoves(q)
             \/ finish_protocol_serve(q) \/ Exit(q) \/ Refuse(q)
    BY <1>2a, <2>4 DEF RemoveJobs, RemoveManager, create_manager, RollbackRemoves,
       finish_protocol_serve, Exit, Refuse, Gone
  <2>5. CASE bind(q) \/ listen(q) \/ remove_owned_path(q) \/ JobDone(q)
    BY <1>1, <1>2, <1>3, <2>5 DEF bind, listen, remove_owned_path, JobDone
  <2> QED BY <1>5, <2>1, <2>2, <2>3, <2>4, <2>5 DEF Step
<1>6. ASSUME (\E i \in Daemons : PayloadEnds(i)) \/ (\E r \in Runtimes : Tidy(r)) PROVE FALSE
  BY <1>3, <1>6 DEF PayloadEnds, Tidy
<1>7. PICK q \in Daemons : initialize(q)
  BY <1>4, <1>5, <1>6 DEF StartupNext
<1> QED BY <1>2, <1>7 DEF initialize

\* With one runtime directory, and so one lock, the jobs directory of a serving
\* daemon is its own: no recovery runs beside it that could remove it.
THEOREM OneLockKeepsJobs == ASSUME Layout, OneRuntime PROVE StartupSpec => []ServingOwnsJobs
<1>1. StartupInit => OwnJobs
  BY DEF StartupInit, OwnJobs, Covered, Owner
<1>2. StartInv /\ OwnJobs /\ [StartupNext]_startupVars => OwnJobs'
  <2> SUFFICES ASSUME StartInv, OwnJobs, [StartupNext]_startupVars, NEW p \in Daemons, pc'[p] \in Covered
               PROVE  jobs' = p
    BY DEF OwnJobs
  <2>1. CASE UNCHANGED startupVars
    BY <2>1 DEF startupVars, OwnJobs
  <2>2. CASE StartupNext /\ pc[p] \notin Covered
    BY <2>2, EntersCovered
  <2>3. CASE StartupNext /\ pc[p] \in Covered
    <3>1. jobs = p
      BY <2>3 DEF OwnJobs
    <3>2. SUFFICES ASSUME jobs' # jobs PROVE FALSE
      BY <3>1
    <3>3. PICK q \in Daemons : RemoveJobs(q) \/ initialize(q)
      BY <2>3, <3>2, JobsChange
    <3>4. pc[q] \in {"rmjobs", "initialize"}
      BY <3>3 DEF RemoveJobs, initialize
    <3>5. pc[q] \in Holder /\ pc[p] \in Holder /\ pc[p] \notin {"rmjobs", "initialize"}
      BY <2>3, <3>4 DEF Covered, Holder, Early, Past, Owner
    <3>6. R(p) = R(q)
      BY DEF OneRuntime, R
    <3>7. p = q
      BY <3>5, <3>6 DEF StartInv, LockInv
    <3> QED BY <3>4, <3>5, <3>7
  <2> QED BY <2>1, <2>2, <2>3
<1>3. OwnJobs => ServingOwnsJobs
  <2>1. \A p \in Daemons : Serving(p) => pc[p] \in Covered
    BY DEF Serving, Covered, Owner
  <2> QED BY <2>1 DEF OwnJobs, ServingOwnsJobs
<1> QED BY <1>1, <1>2, <1>3, StartupInvariant, PTL DEF StartupSpec

--------------------------------------------------------------------------------
(* The slots of the sessions *)

INSTANCE FiniteSetTheorems

LEMMA ActiveFinite == IsFiniteSet(Active) /\ Cardinality(Active) \in Nat
<1>1. IsFiniteSet(Active)
  BY SessionsFinite, FS_Subset DEF Active
<1> QED BY <1>1, FS_CardinalityType

LEMMA RunningFinite == IsFiniteSet(Running) /\ Cardinality(Running) \in Nat
<1>1. IsFiniteSet(Running)
  BY SessionsFinite, FS_Subset DEF Running
<1> QED BY <1>1, FS_CardinalityType

\* Leaving: handle_connection of c ends.
LEMMA CloseKeepsSlots ==
  ASSUME Typed, SlotsAccounted, NEW c \in Active, Close(c)
  PROVE  SlotsAccounted' /\ permits' \in Nat
<1>1. Active' = Active \ {c}
  BY DEF Active, Close, Typed
<1>2. Cardinality(Active') = Cardinality(Active) - 1
  BY <1>1, ActiveFinite, FS_RemoveElement
<1> QED BY SMTT(60), <1>2, ActiveFinite, LimitsPositive DEF SlotsAccounted, Close, Typed

\* Moving on within the connection.
LEMMA GotoKeepsSlots ==
  ASSUME Typed, SlotsAccounted, NEW c \in Active, NEW next,
         next \notin {"new", "refused", "closed"},
         Goto(c, next)
  PROVE  SlotsAccounted' /\ permits' \in Nat
<1>1. Active' = Active
  BY DEF Active, Goto, Typed
<1> QED BY <1>1 DEF SlotsAccounted, Goto, Typed

LEMMA AcceptKeepsSlots ==
  ASSUME Typed, SlotsAccounted, NEW c \in Conns, Accept(c)
  PROVE  SlotsAccounted' /\ permits' \in Nat
<1>1. CASE permits > 0
  <2>1. Active' = Active \cup {c} /\ c \notin Active
    BY SMTT(60), <1>1 DEF Active, Accept, Typed
  <2>2. Cardinality(Active') = Cardinality(Active) + 1
    BY <2>1, ActiveFinite, FS_AddElement
  <2>3. permits' = permits - 1
    BY SMTT(60), <1>1 DEF Accept, Typed
  <2> QED BY SMTT(60), <1>1, <2>2, <2>3, ActiveFinite, LimitsPositive DEF SlotsAccounted, Typed
<1>2. CASE permits = 0
  <2>1. Active' = Active
    BY SMTT(60), <1>2 DEF Active, Accept, Typed
  <2> QED BY SMTT(60), <1>2, <2>1 DEF SlotsAccounted, Accept, Typed
<1> QED BY SMTT(60), <1>1, <1>2 DEF Typed

LEMMA MoveKeepsSlots ==
  ASSUME Typed, SlotsAccounted, NEW c \in Conns, Move(c)
  PROVE  SlotsAccounted' /\ permits' \in Nat
<1>1. CASE c \in Active /\ Close(c)
  BY <1>1, CloseKeepsSlots
<1>2. CASE c \in Active /\ \E next \in Phases \ {"new", "refused", "closed"} : Goto(c, next)
  BY <1>2, GotoKeepsSlots
<1>3. CASE UNCHANGED <<phase, permits>>
  BY <1>3 DEF SlotsAccounted, Active, Typed
<1> QED BY <1>1, <1>2, <1>3 DEF Move

--------------------------------------------------------------------------------
(* The credential checks *)

LEMMA WorkersKeepPermits ==
  ASSUME Typed, PermitsAccounted, WorkerWaitedFor, NEW c \in Conns, ConnStep(c) \/ Accept(c)
  PROVE  PermitsAccounted' /\ authentication_permits' \in Nat
<1>l. AuthenticationLimit \in Nat
  BY LimitsPositive DEF AuthenticationLimit
<1>1. CASE StartWorker(c)
  <2>1. Running' = Running \cup {c} /\ c \notin Running
    BY <1>1 DEF Running, StartWorker, WorkerWaitedFor, Typed
  <2>2. Cardinality(Running') = Cardinality(Running) + 1
    BY <2>1, RunningFinite, FS_AddElement
  <2> QED BY SMTT(60), <1>1, <1>l, <2>2, RunningFinite DEF PermitsAccounted, StartWorker, Typed, AuthenticationLimit
<1>2. CASE WorkerDone(c)
  <2>1. Running' = Running \ {c} /\ c \in Running
    BY <1>2 DEF Running, WorkerDone, Typed
  <2>2. Cardinality(Running') = Cardinality(Running) - 1
    BY <2>1, RunningFinite, FS_RemoveElement
  <2> QED BY SMTT(60), <1>2, <1>l, <2>2, RunningFinite DEF PermitsAccounted, WorkerDone, Typed, AuthenticationLimit
<1>3. CASE (ConnStep(c) /\ ~StartWorker(c) /\ ~WorkerDone(c)) \/ Accept(c)
  <2>1. UNCHANGED <<worker, authentication_permits>>
    BY <1>3 DEF ConnStep, Accept, Abort, Handshake, HandshakeFails, DeadlinePasses, ReadFirst,
        AuthenticationTimeout, Checked, Refused, Reply, Read, Operate, Collect, WriteAnswer,
        SessionEnds, Send
  <2> QED BY <2>1 DEF PermitsAccounted, Running, Typed, AuthenticationLimit
<1> QED BY <1>1, <1>2, <1>3

--------------------------------------------------------------------------------
(* The theorems about the sessions *)

\* The counts and the answers fit where every connection is, whatever clients,
\* clock, workers and shutdown do.
THEOREM SessionInvariant == Spec => []SessionInv
<1>1. Init => SessionInv
  <2> SUFFICES ASSUME Init PROVE SessionInv
    OBVIOUS
  <2>1. Active = {} /\ Running = {}
    BY DEF Init, Active, Running
  <2>2. Cardinality({}) = 0
    BY FS_EmptySet
  <2>3. Typed
    BY SMTT(60), LimitsPositive DEF Init, Typed, BeforeSession, AuthenticationLimit
  <2>4. SlotsAccounted /\ PermitsAccounted
    BY SMTT(60), <2>1, <2>2, LimitsPositive DEF Init, SlotsAccounted, PermitsAccounted, AuthenticationLimit
  <2>5. WorkerWaitedFor /\ \A c \in Conns : Answered(c)
    BY SMTT(60) DEF Init, WorkerWaitedFor, Answered, BeforeSession
  <2> QED BY <2>3, <2>4, <2>5 DEF SessionInv
<1>2. SessionInv /\ [Next]_vars => SessionInv'
  <2> SUFFICES ASSUME SessionInv, [Next]_vars PROVE SessionInv'
    OBVIOUS
  <2>1. ASSUME NEW c \in Conns, ConnStep(c) \/ Accept(c) PROVE SessionInv'
    <3>1. SlotsAccounted' /\ permits' \in Nat
      BY <2>1, StepsMove, MoveKeepsSlots, AcceptKeepsSlots DEF SessionInv
    <3>2. PermitsAccounted' /\ authentication_permits' \in Nat
      BY <2>1, WorkersKeepPermits DEF SessionInv
    <3>3. Typed' /\ WorkerWaitedFor'
      BY <2>1, <3>1, <3>2, StepsKeepTypes, StepsKeepWorkers DEF SessionInv
    <3>4. ASSUME NEW d \in Conns PROVE Answered(d)'
      <4>1. CASE d = c
        BY <2>1, <4>1, OwnStepKeepsAnswers DEF SessionInv
      <4>2. CASE d # c
        BY <2>1, <4>2, OthersKeepAnswers DEF SessionInv
      <4> QED BY <4>1, <4>2
    <3> QED BY <3>1, <3>2, <3>3, <3>4 DEF SessionInv
  <2>2. CASE Shutdown \/ Joined \/ Done \/ UNCHANGED vars
    <3>1. UNCHANGED <<permits, authentication_permits, phase, late, overdue, worker, sent, taken,
                      answered, operation>>
      BY <2>2 DEF Shutdown, Joined, Done, vars
    <3>2. listener' \in {"serving", "aborting", "failed", "stopped"}
      BY <2>2 DEF Shutdown, Joined, Done, vars, SessionInv, Typed
    <3> QED BY <3>1, <3>2 DEF SessionInv, Typed, SlotsAccounted, Active, PermitsAccounted, Running,
            WorkerWaitedFor, Answered, AuthenticationLimit
  <2> QED BY <2>1, <2>2 DEF Next, ConnStep
<1> QED BY <1>1, <1>2, PTL DEF Spec

\* Every connection that is served holds one slot, and every slot is given back.
THEOREM SlotsAreAccounted == Spec => []SlotsAccounted
<1>1. SessionInv => SlotsAccounted
  BY DEF SessionInv
<1> QED BY <1>1, SessionInvariant, PTL

\* The number of credential checks at work is bounded, aborted connections
\* included.
THEOREM WorkersAreBounded == Spec => []WorkersBounded
<1>1. SessionInv => WorkersBounded
  BY SMTT(60), RunningFinite, LimitsPositive
  DEF SessionInv, Typed, PermitsAccounted, WorkersBounded, AuthenticationLimit, Running
<1> QED BY <1>1, SessionInvariant, PTL

\* A credential check that came too late begins no session.
THEOREM OverdueIsUnserved == Spec => []OverdueUnserved
<1>1. SessionInv => OverdueUnserved
  BY DEF SessionInv, Typed, WorkerWaitedFor, OverdueUnserved
<1> QED BY <1>1, SessionInvariant, PTL

\* Whatever frames a client sends, and however far ahead, their answers come in
\* order and none is left out.
THEOREM AnswersAreInOrder == Spec => []AnswersInOrder
<1>1. SessionInv => AnswersInOrder
  BY SMTT(60) DEF SessionInv, Typed, Answered, AnswersInOrder
<1> QED BY <1>1, SessionInvariant, PTL
================================================================================

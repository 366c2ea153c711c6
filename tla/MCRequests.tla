------------------------------- MODULE MCRequests -------------------------------
(***************************************************************************)
(* The requests of clients, for TLC, side by side: submitProfile retried   *)
(* while results are read (retries) and mixed with another payload         *)
(* (mixed), the files of a local call (files), the resolution of a capsule *)
(* call (capsule), remote submissions with one key (keys), a remote        *)
(* session with frames of every kind (frames) and two sessions that share  *)
(* one slot (slots).  They share no state here: part names the one that    *)
(* takes the steps of a behaviour, the others stay as they begin.          *)
(***************************************************************************)
EXTENDS ProfileRuntime, Sequences, TLC

CONSTANTS a1, a2, b1, g1, r1, x1, x2

VARIABLES
  part,
  source, pre, staged, out, pub, at, made, res, faults,
  profile, damaged, call, phase, prepared, task, response, submits,
  submissions, checked, lock, input, execution, remote_tasks, input_owners, finished,
  cacheLock, published, step, target, then, reply, failstop, errors,
  listener, permits, authentication_permits, stand, late, overdue, worker, sent, taken,
  answered, operation

fileVars == <<source, pre, staged, out, pub, at, made, res, faults>>
callVars == <<profile, damaged, call, phase, prepared, task, response, submits>>
keyVars == <<submissions, checked, lock, input, execution, remote_tasks, input_owners, finished,
             cacheLock, published, step, target, then, reply, failstop, errors>>
sessionVars == <<listener, permits, authentication_permits, stand, late, overdue, worker, sent,
                 taken, answered, operation>>

--------------------------------------------------------------------------------
\* a1 and a2 are one request sent twice; b1 has their id and another payload.
TwoIds == [c \in {a1, a2} |-> r1]
TwoBodies == [c \in {a1, a2} |-> "x"]
Mixed == INSTANCE ProfileRuntime WITH
  Calls <- {a1, a2, b1}, Gets <- {}, IdOf <- [c \in {a1, a2, b1} |-> r1],
  BodyOf <- TwoBodies @@ (b1 :> "y")

LocalFiles == INSTANCE LocalArtifacts WITH
  Calls <- {a1, a2}, MaxFaults <- 3, pc <- at, staging <- staged

Keyed == INSTANCE RemoteTasks WITH
  Calls <- {a1, a2}, Readers <- {g1}, Keys <- {r1}, KeyOf <- TwoIds,
  Inputs <- {x1, x2}, InputOf <- (a1 :> x1) @@ (a2 :> x2), MaxFaults <- 0,
  raw <- execution, pc <- step, on <- target, answer <- reply, faults <- errors

Frames == INSTANCE RemoteSession WITH
  Conns <- {a1}, MaxFrames <- 3, max_remote_connections <- 1,
  MAX_CONCURRENT_AUTHENTICATIONS <- 4, phase <- stand,
  Kinds <- {"getCapabilities", "submitTask", "foreignProfile", "authenticate", "submitProfile",
            "malformed", "version", "undecodable"}
Slots == INSTANCE RemoteSession WITH
  Conns <- {a1, a2}, Kinds <- {"submitProfile"}, MaxFrames <- 2,
  max_remote_connections <- 1, MAX_CONCURRENT_AUTHENTICATIONS <- 1, phase <- stand

--------------------------------------------------------------------------------
\* Capsules at and beyond each rule of the importer, and calls at and beyond each
\* rule on inputs and overrides.
In(name, kind, values, lo, hi) ==
  [name |-> name, kind |-> kind, required |-> TRUE, values |-> values, lo |-> lo, hi |-> hi]
Source == In("source", "LOCAL_INPUT", None, None, None)
Rates(values) == In("rate", "INT64", values, None, None)
InputSets ==
  {<<Source>>, <<Rates(<<3>>)>>, <<Source, Source>>, <<Source, [Source EXCEPT !.name = "flag"]>>,
   <<Source, Rates(<<3, 5, 7, 9>>)>>, <<Source, Rates(<<5, 3, 9>>)>>, <<Rates(<<3, 5>>), Source>>,
   <<Source, Rates(<<3, 3>>)>>, <<Source, In("rate", "INT64", None, 3, 5)>>,
   <<Source, In("rate", "INT64", None, 5, 3)>>, <<Source, In("rate", "INT64", <<3>>, 3, 5)>>,
   <<Source, In("flag", "BOOLEAN", None, None, None)>>,
   <<Source, In("label", "STRING", None, None, None)>>,
   <<Source, In("Rate", "INT64", None, 3, 5)>>,
   <<Source, [Rates(<<3>>) EXCEPT !.required = FALSE]>>}

Arg(arg, slot, kind) == [arg |-> arg, slot |-> slot, kind |-> kind]
Path == Arg("path", "source", None)
Out == Arg("output", "out", None)
Templates ==
  {<<>>, <<Path, Out>>, <<Out, Arg("literal", "-r", None), Arg("value", "rate", "INT64"), Path>>,
   <<Path, Arg("value", "label", "STRING"), Out>>, <<Path, Arg("value", "rate", "STRING")>>,
   <<Arg("path", "rate", None)>>, <<Arg("output", "source", None)>>, <<Path, Path, Out, Out, Out>>}

Limits(quota, memory, tail) ==
  [quota |-> quota, period |-> 4, memory |-> memory, pids |-> 4, wall |-> 4,
   stdout |-> tail, stderr |-> tail]
Capsules ==
  [name : {"file-copy", "other"}, identity : {TRUE}, package : {TRUE}, inputs : InputSets,
   argv : Templates, output : {[name |-> "out", valid |-> TRUE, declarable |-> TRUE]},
   overrides : {<<>>, <<"cpu", "memory">>, <<"cpu", "cpu">>},
   policy : {Limits(3, 5, 2), Limits(8, 9, 2), Limits(3, 5, 4)}]

Given(name, kind, v) == [name |-> name, kind |-> kind, v |-> v]
Src(v) == Given("source", "LOCAL_INPUT", v)
Num(name, v) == Given(name, "INT64", v)
FileCopy(label, priority) ==
  <<Src("ok"), Given("label", "STRING", label), Given("retain_metadata", "BOOLEAN", TRUE),
    Num("priority", priority)>>
GivenSets ==
  {<<Src("ok")>>, <<Src("badpath")>>, <<Src("baddigest")>>, <<>>, <<Src("ok"), Src("ok")>>,
   <<Src("ok"), Given("flag", "BOOLEAN", TRUE)>>, <<Src("ok"), Given("label", "STRING", "")>>,
   <<Src("ok"), Given("label", "STRING", "a")>>, <<Src("ok"), Given("rate", "STRING", "3")>>,
   <<Src("ok"), Num("Rate", 3)>>, FileCopy("a", 100), FileCopy("a", 101), FileCopy("", 0)}
     \cup {<<Src("ok"), Num("rate", v)>> : v \in {3, 4, 5, 9}}
     \cup {<<Src("badpath"), Num("rate", 4)>>, <<Num("rate", 4), Src("badpath")>>}
Overrides ==
  {None, [f \in {} |-> 0], [quota |-> 1, period |-> 2], [quota |-> 4, period |-> 4],
   [memory |-> 5], [memory |-> 0], [pids |-> 2], [stdout |-> 4, stderr |-> 4]}

Capsule == INSTANCE CapsuleCall WITH
  Profiles <- Capsules,
  Calls <-
    [name : {"file-copy", "other"}, wellformed : {TRUE}, inputs : GivenSets, override : {None}]
      \cup [name : {"file-copy", "other"}, wellformed : {TRUE},
            inputs : {<<Src("ok")>>, FileCopy("a", 0)}, override : Overrides]
      \cup [name : {"ffmpeg"}, wellformed : BOOLEAN, override : {None},
            inputs : {<<Src("ok"), Num("sample_rate_hz", r), Num("channels", 2)>> : r \in {8000, 9000}}],
  Default <- Limits(2, 4, 2), Deployment <- Limits(6, 8, 3), MaxSubmits <- 2,
  Max64 <- 15, MaxTail <- 4, MaxTotal <- 6, MaxInputs <- 2, MaxValues <- 4, MaxArgv <- 4,
  SlotNames <- {"source", "rate", "flag", "out", "label", "retain_metadata", "priority",
                "sample_rate_hz", "channels"},
  answer <- response

--------------------------------------------------------------------------------
PartsInit ==
  /\ part \in {"retries", "mixed", "files", "capsule", "keys", "frames", "slots"}
  /\ IF part = "mixed" THEN Mixed!Init ELSE Init
  /\ LocalFiles!Init /\ Capsule!Init /\ Keyed!Init
  /\ IF part = "slots" THEN Slots!Init ELSE Frames!Init

PartsNext ==
  \/ /\ \/ part = "retries" /\ Next
        \/ part = "mixed" /\ Mixed!Next
     /\ UNCHANGED <<part, fileVars, callVars, keyVars, sessionVars>>
  \/ /\ part = "files" /\ LocalFiles!Next
     /\ UNCHANGED <<part, vars, callVars, keyVars, sessionVars>>
  \/ /\ part = "capsule" /\ Capsule!Next
     /\ UNCHANGED <<part, vars, fileVars, keyVars, sessionVars>>
  \/ /\ part = "keys" /\ Keyed!Next
     /\ UNCHANGED <<part, vars, fileVars, callVars, sessionVars>>
  \/ /\ \/ part = "frames" /\ Frames!Next
        \/ part = "slots" /\ Slots!Next
     /\ UNCHANGED <<part, vars, fileVars, callVars, keyVars>>

PartsSpec ==
  PartsInit /\ [][PartsNext]_<<part, vars, fileVars, callVars, keyVars, sessionVars>>

--------------------------------------------------------------------------------
\* Two identical calls and one with another payload never get two tasks, only
\* the latter is refused as a conflict, and the two maps agree; a client is told
\* of success only by a terminal that was set before FINISHED
\* (LocalProfileRuntime).
ProfileSound ==
  /\ part = "mixed" => Mixed!IdempotentSubmit /\ Mixed!ConflictHonest /\ Mixed!MapsAgree
  /\ part = "retries" => TypeOK /\ IdempotentSubmit /\ TerminalBeforeFinished /\ SucceededHonest

\* However the source is rewritten and whatever calls fail, an execution reads
\* the declared bytes, an output that was not verified is never published, and a
\* result is reported only when the staging directory is gone
\* (artifact_filesystem.rs).
FilesSound ==
  part = "files" => /\ LocalFiles!TypeOK /\ LocalFiles!SnapshotDeclared
                    /\ LocalFiles!TerminalMeansClean /\ LocalFiles!PublishedVerified

\* An undamaged capsule is available to every call, what runs stays within the
\* deployment maximum and the capsule's policy, and its command line has the
\* staged paths at the places of the template.  A call gets past its inputs
\* exactly when they are well formed, and an installed capsule is never served by
\* the built-in profile of its name (registry.rs, resolve_resources,
\* bind_arguments).
CapsuleSound ==
  /\ [](part = "capsule" => /\ Capsule!TypeOK /\ Capsule!ContractsAgree
                            /\ Capsule!BudgetGranted /\ Capsule!PathsStaged)
  /\ Capsule!InputsExact /\ Capsule!NoFallback

\* Two submissions with one key never have two executions that can be asked
\* for, a transferred input always has somebody who will return or remove it, and
\* a result makes one managed output (the remote dispatcher and backend).  The
\* answers of a session are those to its frames, in order, also when the client
\* sends ahead, and two sessions account for their one slot
\* (serve_authenticated, server.rs:79).
RemoteSound ==
  /\ part = "keys" => /\ Keyed!TypeOK /\ Keyed!OneTaskPerKey
                      /\ Keyed!InputHasOwner /\ Keyed!OutputOnce
  /\ part = "frames" => Frames!TypeOK /\ Frames!AnswersInOrder
  /\ part = "slots" => Slots!AnswersInOrder /\ Slots!SlotsAccounted /\ Slots!OverdueUnserved
================================================================================

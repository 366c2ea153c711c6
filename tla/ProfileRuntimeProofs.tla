-------------------------- MODULE ProfileRuntimeProofs --------------------------
(***************************************************************************)
(* Proofs about profile requests, for any calls, queries, clientRequestIds *)
(* and payloads.                                                           *)
(*                                                                         *)
(* The maps and the raw registry are separate, so the invariant says for   *)
(* each call what its handler's position, its raw task and its entries in  *)
(* the maps tell about each other.  A step moves one call; the others are  *)
(* bystanders, which a step may wake and whose expired tasks it may drop.  *)
(***************************************************************************)
EXTENDS ProfileRuntime, TLAPS

\* Most leaves are first-order: Zenon is the prover unless a leaf names another.
USE ZenonT(200)

\* The positions of a handler before it owns its clientRequestId, while it
\* does, and after.
Early == {"validate", "prune", "pruning", "pruneRequests", "reserve", "listen", "waiting"}
Owning == {"owner", "stage", "submit", "submitted", "accept", "release"}
Late == {"acceptTask", "acceptNotify", "releaseNotify", "existing", "discardRequests",
         "terminal", "done"}

RawStates == {"none", "starting", "running", "finalized", "stuck", "finished", "uncertain",
              "expired"}
Running == {"running", "finalized", "stuck", "finished"}
\* The tasks that were RUNNING or FINISHED once.
Begun == Running \cup {"expired"}
\* The tasks that hold their clientRequestId in the raw registry.
Holding == Running \cup {"starting", "uncertain"}

Terminals == {"succeeded", "outputFailed", "processFailed"}
Errors == {"invalid", "conflict", "notFound", "capacity", "failed"}
Answers == {<<"task", t>> : t \in Calls} \cup {Said(e) : e \in Errors}
Entries == {Free} \cup {Pending(c) : c \in Calls} \cup {Accepted(c) : c \in Calls}

Shape ==
  /\ requests \in [RequestIds -> Entries]
  /\ \A r \in RequestIds, c \in Calls :
       requests[r] \in {Pending(c), Accepted(c)} => IdOf[c] = r
  /\ tasks \in SUBSET Calls
  /\ terminal \in [Calls -> Terminals \cup {None}]
  /\ ended \in [Calls -> {"zero", "other", None}]
  /\ raw \in [Calls -> RawStates]
  /\ rawIds \in [RequestIds -> Calls \cup {None, "raw"}]
  /\ \A r \in RequestIds, c \in Calls : rawIds[r] = c => IdOf[c] = r
  /\ pc \in [Calls -> Early \cup Owning \cup Late]
  /\ on \in [Calls -> Calls \cup {None}]
  /\ todo \in [Calls -> SUBSET Calls]
  /\ obs \in [Calls -> Errors \cup {None, "running", "finished"}]
  /\ answer \in [Calls -> Answers \cup {None}]
  /\ getPc \in [Gets -> {"idle", "unknown", "snapshot", "discard", "terminal", "done"}]
  /\ getOn \in [Gets -> Calls \cup {None}]
  /\ getAnswer \in [Gets -> Terminals \cup {None, "running", "kindMismatch", "notFound"}]

\* What stays a reason for a conflict.
Cause(c) ==
  \/ \E d \in Calls : IdOf[d] = IdOf[c] /\ BodyOf[d] # BodyOf[c] /\ pc[d] \notin Early
  \/ rawIds[IdOf[c]] = "raw"
  \/ \E d \in Calls : IdOf[d] = IdOf[c] /\ raw[d] \in {"uncertain", "stuck"}

\* Position, raw task and entries of a call.
Place(c) ==
  /\ pc[c] \in Early \cup {"owner", "stage", "submit"} => raw[c] = "none"
  /\ (pc[c] = "submitted") = (raw[c] = "starting")
  /\ pc[c] \in {"accept", "acceptTask", "acceptNotify"} => raw[c] \in Begun
  /\ pc[c] \in {"release", "releaseNotify"} => raw[c] \in {"none", "uncertain"} /\ obs[c] \in Errors
  /\ (pc[c] \in Owning) = (requests[IdOf[c]] = Pending(c))
  /\ requests[IdOf[c]] = Accepted(c) => raw[c] \in Begun /\ pc[c] \notin Early
  /\ raw[c] \in Running =>
       \/ pc[c] = "accept"
       \/ requests[IdOf[c]] = Accepted(c) /\ (c \in tasks \/ pc[c] = "acceptTask")
  /\ c \in tasks => raw[c] \in Begun /\ pc[c] \notin Early \cup Owning
  /\ (raw[c] \in Holding) = (rawIds[IdOf[c]] = c)

\* What a handler holds and what it answered.
Holds(c) ==
  /\ pc[c] \in {"existing", "terminal"} =>
       on[c] \in Calls /\ IdOf[on[c]] = IdOf[c] /\ raw[on[c]] \in Begun
  /\ pc[c] \in {"pruneRequests", "discardRequests"} => on[c] \in Calls /\ raw[on[c]] = "expired"
  /\ \A t \in todo[c] : raw[t] \in Begun
  /\ (answer[c] # None) = (pc[c] = "done")
  /\ \A t \in Calls : answer[c] = <<"task", t>> => IdOf[t] = IdOf[c] /\ raw[t] \in Begun
  /\ \/ pc[c] \in {"release", "releaseNotify"} /\ obs[c] = "conflict"
     \/ answer[c] = Said("conflict")
     => Cause(c)

\* The terminal of a task.
Result(c) ==
  /\ raw[c] \in {"finalized", "finished"} => terminal[c] # None
  /\ raw[c] \in {"none", "starting", "running", "uncertain"} => terminal[c] = None
  /\ terminal[c] = "succeeded" => ended[c] = "zero"

Query(g) ==
  /\ getPc[g] # "idle" => getOn[g] \in Calls /\ raw[getOn[g]] \in Begun
  /\ getPc[g] = "discard" => raw[getOn[g]] = "expired"
  /\ getAnswer[g] # None => getPc[g] = "done"
  /\ getAnswer[g] = "succeeded" => terminal[getOn[g]] = "succeeded"

ProfileInv ==
  /\ Shape
  /\ \A c \in Calls : Place(c) /\ Holds(c) /\ Result(c)
  /\ \A g \in Gets : Query(g)
--------------------------------------------------------------------------------
(* Entries, bystanders, queries *)

LEMMA EntryFacts ==
  /\ \A c \in Calls : Pending(c) # Free /\ Accepted(c) # Free
  /\ \A c, d \in Calls : /\ Pending(c) # Accepted(d)
                         /\ Pending(c) = Pending(d) => c = d
                         /\ Accepted(c) = Accepted(d) => c = d
  /\ Free.st = "free"
  /\ \A c \in Calls : /\ Pending(c).st = "pending" /\ Pending(c).ready = c
                      /\ Pending(c).body = BodyOf[c]
                      /\ Accepted(c).st = "accepted" /\ Accepted(c).task = c
                      /\ Accepted(c).body = BodyOf[c]
<1>1. Free.st = "free"
  BY DEF Free
<1>2. ASSUME NEW c \in Calls
      PROVE  /\ Pending(c).st = "pending" /\ Pending(c).ready = c
             /\ Pending(c).body = BodyOf[c]
             /\ Accepted(c).st = "accepted" /\ Accepted(c).task = c
             /\ Accepted(c).body = BodyOf[c]
  BY DEF Pending, Accepted
<1> QED BY SMTT(60), <1>1, <1>2

LEMMA AnswerFacts ==
  /\ \A t \in Calls : <<"task", t>> # None /\ <<"task", t>> # Said("conflict")
  /\ \A t, u \in Calls : <<"task", t>> = <<"task", u>> => t = u
  /\ \A e \in Errors : Said(e) # None /\ (Said(e) = Said("conflict") => e = "conflict")
  /\ \A e \in Errors, t \in Calls : Said(e) # <<"task", t>>
BY CallsAssumption DEF Said, Errors

\* What a step does to the calls it does not move.
Bystander(d) ==
  /\ pc'[d] = pc[d] \/ (pc[d] = "waiting" /\ pc'[d] = "reserve")
  /\ on'[d] = on[d] /\ todo'[d] = todo[d] /\ obs'[d] = obs[d] /\ answer'[d] = answer[d]
  /\ raw'[d] = raw[d] /\ terminal'[d] = terminal[d] /\ ended'[d] = ended[d]
  /\ (requests'[IdOf[d]] = Pending(d)) = (requests[IdOf[d]] = Pending(d))
  /\ requests'[IdOf[d]] = Accepted(d) => requests[IdOf[d]] = Accepted(d)
  /\ requests[IdOf[d]] = Accepted(d) /\ raw[d] \in Running => requests'[IdOf[d]] = Accepted(d)
  /\ d \in tasks' => d \in tasks
  /\ d \in tasks /\ raw[d] \in Running => d \in tasks'
  /\ (rawIds'[IdOf[d]] = d) = (rawIds[IdOf[d]] = d)

\* What no step undoes.
Forward ==
  /\ \A t \in Calls :
       /\ raw[t] \in Begun => raw'[t] \in Begun
       /\ raw[t] = "expired" => raw'[t] = "expired"
       /\ raw[t] \in {"uncertain", "stuck"} => raw'[t] = raw[t]
       /\ pc[t] \notin Early => pc'[t] \notin Early
       /\ terminal[t] = "succeeded" => terminal'[t] = "succeeded"
  /\ \A r \in RequestIds : rawIds[r] = "raw" => rawIds'[r] = "raw"

LEMMA CauseStays ==
  ASSUME NEW c \in Calls, Forward, Cause(c)
  PROVE  Cause(c)'
<1>1. IdOf[c] \in RequestIds
  BY CallsAssumption
<1>2. CASE \E d \in Calls : IdOf[d] = IdOf[c] /\ BodyOf[d] # BodyOf[c] /\ pc[d] \notin Early
  BY <1>2 DEF Forward, Cause
<1>3. CASE rawIds[IdOf[c]] = "raw"
  BY <1>1, <1>3 DEF Forward, Cause
<1>4. CASE \E d \in Calls : IdOf[d] = IdOf[c] /\ raw[d] \in {"uncertain", "stuck"}
  BY <1>4 DEF Forward, Cause
<1> QED BY <1>2, <1>3, <1>4 DEF Cause

LEMMA BystanderKept ==
  ASSUME NEW d \in Calls, Shape, Place(d), Holds(d), Result(d), Bystander(d), Forward
  PROVE  Place(d)' /\ Holds(d)' /\ Result(d)'
<1>1. Place(d)'
  BY SMTT(60) DEF Place, Bystander, Early, Owning
<1>2. Result(d)'
  BY DEF Result, Bystander
<1>3. Holds(d)'
  <2>1. ASSUME NEW t \in Calls, raw[t] \in Begun PROVE raw'[t] \in Begun
    BY <2>1 DEF Forward
  <2>2. \A t \in todo[d] : t \in Calls
    BY DEF Shape
  <2>3. \/ pc[d] \in {"release", "releaseNotify"} /\ obs[d] = "conflict"
        \/ answer[d] = Said("conflict")
        => Cause(d)'
    BY CauseStays DEF Holds
  <2>4. pc'[d] = pc[d] \/ (pc[d] = "waiting" /\ pc'[d] = "reserve")
    BY DEF Bystander
  <2>5. on'[d] = on[d] /\ todo'[d] = todo[d] /\ obs'[d] = obs[d] /\ answer'[d] = answer[d]
    BY DEF Bystander
  <2>6. \A t \in Calls : raw[t] = "expired" => raw'[t] = "expired"
    BY DEF Forward
  <2> QED BY <2>1, <2>2, <2>3, <2>4, <2>5, <2>6 DEF Holds
<1> QED BY <1>1, <1>2, <1>3

LEMMA QueryKept ==
  ASSUME NEW g \in Gets, Query(g), Forward,
         getPc'[g] = getPc[g], getOn'[g] = getOn[g], getAnswer'[g] = getAnswer[g]
  PROVE  Query(g)'
<1>1. ASSUME getOn[g] \in Calls, raw[getOn[g]] \in Begun PROVE raw'[getOn[g]] \in Begun
  BY <1>1 DEF Forward
<1>2. getOn[g] \in Calls /\ raw[getOn[g]] = "expired" => raw'[getOn[g]] = "expired"
  BY DEF Forward
<1>3. getOn[g] \in Calls /\ terminal[getOn[g]] = "succeeded" => terminal'[getOn[g]] = "succeeded"
  BY DEF Forward
<1> QED BY <1>1, <1>2, <1>3, CallsAssumption DEF Query

\* A step that moves one call.
LEMMA StepKeeps ==
  ASSUME ProfileInv, NEW c \in Calls, Shape', Forward, UNCHANGED gets,
         \A d \in Calls : d # c => Bystander(d),
         Place(c)', Holds(c)', Result(c)'
  PROVE  ProfileInv'
<1>1. \A d \in Calls : Place(d)' /\ Holds(d)' /\ Result(d)'
  BY BystanderKept DEF ProfileInv
<1>2. \A g \in Gets : Query(g)'
  BY QueryKept DEF ProfileInv, gets
<1> QED BY <1>1, <1>2 DEF ProfileInv

--------------------------------------------------------------------------------
(* Steps of the handlers that leave the raw tasks alone *)

\* The maps stay, or one of them forgets a task that has expired.
Drops ==
  \/ UNCHANGED <<requests, tasks>>
  \/ \E t \in Calls :
       /\ raw[t] = "expired"
       /\ \/ tasks' = tasks \ {t} /\ UNCHANGED requests
          \/ requests' = WithoutTask(t) /\ UNCHANGED tasks

LEMMA DropsFacts ==
  ASSUME Shape, Drops
  PROVE  /\ requests' \in [RequestIds -> Entries] /\ tasks' \in SUBSET Calls
         /\ \A r \in RequestIds, c \in Calls :
              requests'[r] \in {Pending(c), Accepted(c)} => requests[r] = requests'[r]
         /\ \A r \in RequestIds, c \in Calls : requests[r] = Pending(c) => requests'[r] = Pending(c)
         /\ \A c \in Calls : raw[c] # "expired" => (c \in tasks' <=> c \in tasks)
         /\ \A c \in tasks' : c \in tasks
         /\ \A r \in RequestIds, c \in Calls :
              requests[r] = Accepted(c) /\ raw[c] # "expired" => requests'[r] = Accepted(c)
<1>0. requests \in [RequestIds -> Entries] /\ tasks \in SUBSET Calls
  BY DEF Shape
<1>1. CASE UNCHANGED <<requests, tasks>>
  BY <1>0, <1>1
<1>2. CASE \E t \in Calls : raw[t] = "expired" /\ tasks' = tasks \ {t} /\ UNCHANGED requests
  BY <1>0, <1>2
<1>3. ASSUME NEW t \in Calls, raw[t] = "expired", requests' = WithoutTask(t), UNCHANGED tasks
      PROVE  /\ requests' \in [RequestIds -> Entries] /\ tasks' \in SUBSET Calls
             /\ \A r \in RequestIds, c \in Calls :
                  requests'[r] \in {Pending(c), Accepted(c)} => requests[r] = requests'[r]
             /\ \A r \in RequestIds, c \in Calls : requests[r] = Pending(c) => requests'[r] = Pending(c)
             /\ \A r \in RequestIds, c \in Calls :
                  requests[r] = Accepted(c) /\ raw[c] # "expired" => requests'[r] = Accepted(c)
  <2>1. /\ requests' = [r \in RequestIds |-> requests'[r]]
        /\ \A r \in RequestIds : requests'[r] = requests[r] \/ requests'[r] = Free
        /\ \A r \in RequestIds :
             requests'[r] # requests[r] => requests[r].st = "accepted" /\ requests[r].task = t
    BY <1>3 DEF WithoutTask
  <2>2. requests' \in [RequestIds -> Entries]
    <3>1. \A r \in RequestIds : requests'[r] \in Entries
      BY <1>0, <2>1 DEF Entries
    <3> QED BY <2>1, <3>1
  <2>3. tasks' \in SUBSET Calls
    BY <1>0, <1>3
  <2> QED BY SMTT(60), <1>3, <2>1, <2>2, <2>3, EntryFacts
<1> QED BY <1>1, <1>2, <1>3 DEF Drops

\* A step of one handler that does no more.
Quiet(c) ==
  /\ pc' = [pc EXCEPT ![c] = pc'[c]] /\ pc'[c] \in Early \cup Owning \cup Late
  /\ pc[c] \notin Early => pc'[c] \notin Early
  /\ on' = [on EXCEPT ![c] = on'[c]] /\ on'[c] \in Calls \cup {None}
  /\ todo' = [todo EXCEPT ![c] = todo'[c]] /\ todo'[c] \in SUBSET Calls
  /\ obs' = [obs EXCEPT ![c] = obs'[c]] /\ obs'[c] \in Errors \cup {None, "running", "finished"}
  /\ answer' = [answer EXCEPT ![c] = answer'[c]] /\ answer'[c] \in Answers \cup {None}
  /\ Drops
  /\ UNCHANGED <<terminal, raw, rawIds, ended, gets>>

\* What its own call has to show.
QuietPlace(c) ==
  /\ (pc'[c] \in Owning) = (pc[c] \in Owning)
  /\ pc'[c] \in Early \cup {"owner", "stage", "submit"} => raw[c] = "none"
  /\ (pc'[c] = "submitted") = (pc[c] = "submitted")
  /\ (pc'[c] = "accept") = (pc[c] = "accept")
  /\ pc'[c] \notin {"acceptTask", "acceptNotify"} /\ pc[c] # "acceptTask"
  /\ pc'[c] \in {"release", "releaseNotify"} => raw[c] = "none" /\ obs'[c] \in Errors

LEMMA QuietForward ==
  ASSUME Shape, NEW c \in Calls, Quiet(c)
  PROVE  Forward
<1>1. \A t \in Calls : pc[t] \notin Early => pc'[t] \notin Early
  BY SMTT(60) DEF Shape, Quiet
<1> QED BY <1>1 DEF Quiet, Forward

\* What the handler holds and answers then.
QuietHolds(c) ==
  /\ pc'[c] \in {"existing", "terminal"} =>
       on'[c] \in Calls /\ IdOf[on'[c]] = IdOf[c] /\ raw[on'[c]] \in Begun
  /\ pc'[c] \in {"pruneRequests", "discardRequests"} => on'[c] \in Calls /\ raw[on'[c]] = "expired"
  /\ \A t \in todo'[c] : raw[t] \in Begun
  /\ \/ pc'[c] # "done" /\ pc[c] # "done" /\ answer'[c] = answer[c]
     \/ /\ pc'[c] = "done"
        /\ \/ \E t \in Calls : answer'[c] = <<"task", t>> /\ IdOf[t] = IdOf[c] /\ raw[t] \in Begun
           \/ \E e \in Errors : answer'[c] = Said(e) /\ (e = "conflict" => Cause(c))
  /\ pc'[c] \in {"release", "releaseNotify"} /\ obs'[c] = "conflict" => Cause(c)

LEMMA HeldAfter ==
  ASSUME NEW c \in Calls, Holds(c), QuietHolds(c), Forward, todo'[c] \in SUBSET Calls
  PROVE  Holds(c)'
<1>0. \A t \in Calls : /\ raw[t] \in Begun => raw'[t] \in Begun
                       /\ raw[t] = "expired" => raw'[t] = "expired"
  BY DEF Forward
<1>1. Cause(c) => Cause(c)'
  BY CauseStays
<1>2. /\ pc'[c] \in {"existing", "terminal"} =>
           on'[c] \in Calls /\ IdOf[on'[c]] = IdOf[c] /\ raw'[on'[c]] \in Begun
      /\ pc'[c] \in {"pruneRequests", "discardRequests"} => on'[c] \in Calls /\ raw'[on'[c]] = "expired"
      /\ \A t \in todo'[c] : raw'[t] \in Begun
      /\ pc'[c] \in {"release", "releaseNotify"} /\ obs'[c] = "conflict" => Cause(c)'
  <2>1. \A t \in todo'[c] : raw'[t] \in Begun
    BY <1>0 DEF QuietHolds
  <2>2. pc'[c] \in {"release", "releaseNotify"} /\ obs'[c] = "conflict" => Cause(c)'
    BY <1>1 DEF QuietHolds
  <2> QED BY <1>0, <2>1, <2>2 DEF QuietHolds
<1>3. CASE pc'[c] # "done" /\ pc[c] # "done" /\ answer'[c] = answer[c]
  <2>1. answer[c] = None
    BY <1>3 DEF Holds
  <2>2. \A t \in Calls : None # <<"task", t>>
    BY CallsAssumption
  <2>3. None # Said("conflict")
    BY AnswerFacts DEF Errors
  <2>4. (answer'[c] # None) = (pc'[c] = "done")
    BY <1>3, <2>1
  <2> QED BY <1>2, <1>3, <2>1, <2>2, <2>3, <2>4 DEF Holds
<1>4. ASSUME pc'[c] = "done", NEW t \in Calls, answer'[c] = <<"task", t>>,
             IdOf[t] = IdOf[c], raw[t] \in Begun
      PROVE  Holds(c)'
  <2> DEFINE told == answer'[c]
  <2>1. told # None /\ told # Said("conflict")
    BY <1>4, AnswerFacts
  <2>2. \A u \in Calls : told = <<"task", u>> => IdOf[u] = IdOf[c] /\ raw'[u] \in Begun
    <3>1. \A u \in Calls : told = <<"task", u>> => u = t
      BY <1>4, AnswerFacts
    <3> QED BY <1>0, <1>4, <3>1
  <2>3. (told # None) = (pc'[c] = "done")
    BY <1>4, <2>1
  <2> QED BY <1>2, <2>1, <2>2, <2>3 DEF Holds
<1>5. ASSUME pc'[c] = "done", NEW e \in Errors, answer'[c] = Said(e), e = "conflict" => Cause(c)
      PROVE  Holds(c)'
  <2> DEFINE told == answer'[c]
  <2>1. told # None /\ (told = Said("conflict") => Cause(c)')
    BY <1>1, <1>5, AnswerFacts
  <2>2. \A u \in Calls : told # <<"task", u>>
    BY <1>5, AnswerFacts
  <2>3. (told # None) = (pc'[c] = "done")
    BY <1>5, <2>1
  <2> QED BY <1>2, <2>1, <2>2, <2>3 DEF Holds
<1> QED BY <1>3, <1>4, <1>5 DEF QuietHolds

LEMMA QuietKeeps ==
  ASSUME ProfileInv, NEW c \in Calls, Quiet(c), QuietPlace(c), QuietHolds(c)
  PROVE  ProfileInv'
<1>0. Shape /\ Place(c) /\ Result(c)
  BY DEF ProfileInv
<1>1. /\ requests' \in [RequestIds -> Entries] /\ tasks' \in SUBSET Calls
      /\ \A r \in RequestIds, d \in Calls :
           requests'[r] \in {Pending(d), Accepted(d)} => requests[r] = requests'[r]
      /\ \A r \in RequestIds, d \in Calls : requests[r] = Pending(d) => requests'[r] = Pending(d)
      /\ \A d \in Calls : raw[d] # "expired" => (d \in tasks' <=> d \in tasks)
      /\ \A d \in tasks' : d \in tasks
      /\ \A r \in RequestIds, d \in Calls :
           requests[r] = Accepted(d) /\ raw[d] # "expired" => requests'[r] = Accepted(d)
  BY <1>0, DropsFacts DEF Quiet
<1>2. Shape'
  <2>1. \A r \in RequestIds, d \in Calls :
           requests'[r] \in {Pending(d), Accepted(d)} => IdOf[d] = r
    BY <1>0, <1>1 DEF Shape
  <2>2. /\ pc' \in [Calls -> Early \cup Owning \cup Late]
        /\ on' \in [Calls -> Calls \cup {None}]
    BY SMTT(60), <1>0 DEF Shape, Quiet
  <2>3. todo' \in [Calls -> SUBSET Calls]
    BY <1>0 DEF Shape, Quiet
  <2>4. obs' \in [Calls -> Errors \cup {None, "running", "finished"}]
    BY <1>0 DEF Shape, Quiet
  <2>5. answer' \in [Calls -> Answers \cup {None}]
    BY <1>0 DEF Shape, Quiet
  <2>6. /\ terminal' \in [Calls -> Terminals \cup {None}]
        /\ ended' \in [Calls -> {"zero", "other", None}]
        /\ raw' \in [Calls -> RawStates]
        /\ rawIds' \in [RequestIds -> Calls \cup {None, "raw"}]
        /\ \A r \in RequestIds, d \in Calls : rawIds'[r] = d => IdOf[d] = r
        /\ getPc' \in [Gets -> {"idle", "unknown", "snapshot", "discard", "terminal", "done"}]
        /\ getOn' \in [Gets -> Calls \cup {None}]
        /\ getAnswer' \in [Gets -> Terminals \cup {None, "running", "kindMismatch", "notFound"}]
    BY <1>0 DEF Shape, Quiet, gets
  <2> QED BY <1>1, <2>1, <2>2, <2>3, <2>4, <2>5, <2>6 DEF Shape
<1>3. ASSUME NEW d \in Calls, d # c
      PROVE  Bystander(d)
  <2>1. pc'[d] = pc[d] /\ on'[d] = on[d] /\ obs'[d] = obs[d]
    BY SMTT(60), <1>0, <1>3 DEF Shape, Quiet
  <2>2. todo'[d] = todo[d] /\ answer'[d] = answer[d]
    BY SMTT(60), <1>0, <1>3 DEF Shape, Quiet
  <2>3. IdOf[d] \in RequestIds
    BY CallsAssumption
  <2>4. raw[d] \in Running => raw[d] # "expired"
    BY DEF Running
  <2>5. requests'[IdOf[d]] = Pending(d) <=> requests[IdOf[d]] = Pending(d)
    BY <1>1, <2>3
  <2>6. requests'[IdOf[d]] = Accepted(d) => requests[IdOf[d]] = Accepted(d)
    BY <1>1, <2>3
  <2> QED BY <1>1, <2>1, <2>2, <2>3, <2>4, <2>5, <2>6 DEF Bystander, Quiet
<1>4. Forward /\ Holds(c)'
  <2>1. Forward
    BY <1>0, QuietForward
  <2> QED BY <2>1, HeldAfter DEF ProfileInv, Quiet
<1>5. Place(c)'
  <2>1. IdOf[c] \in RequestIds
    BY CallsAssumption
  <2>2. requests'[IdOf[c]] = Pending(c) <=> requests[IdOf[c]] = Pending(c)
    BY <1>1, <2>1
  <2>3. requests'[IdOf[c]] = Accepted(c) => requests[IdOf[c]] = Accepted(c)
    BY <1>1, <2>1
  <2>4. raw[c] \in Running /\ requests[IdOf[c]] = Accepted(c) => requests'[IdOf[c]] = Accepted(c)
    BY <1>1, <2>1 DEF Running
  <2>5. raw[c] \in Running => (c \in tasks' <=> c \in tasks)
    BY <1>1 DEF Running
  <2>6. c \in tasks' => c \in tasks
    BY <1>1
  <2>7. UNCHANGED <<raw, rawIds>>
    BY DEF Quiet
  <2>8. pc[c] \notin Early => pc'[c] \notin Early
    BY DEF Quiet
  <2> QED BY <1>0, <2>2, <2>3, <2>4, <2>5, <2>6, <2>7, <2>8 DEF Place, QuietPlace, Early, Owning
<1>6. Result(c)'
  BY <1>0 DEF Result, Quiet
<1>7. UNCHANGED gets
  BY DEF Quiet
<1> QED BY <1>2, <1>3, <1>4, <1>5, <1>6, <1>7, StepKeeps

\* Values of the call a step moves, and of the variables it leaves alone.
LEMMA OwnValues ==
  ASSUME Shape, NEW c \in Calls
  PROVE  /\ pc = [pc EXCEPT ![c] = pc[c]] /\ pc[c] \in Early \cup Owning \cup Late
         /\ on = [on EXCEPT ![c] = on[c]] /\ on[c] \in Calls \cup {None}
         /\ todo = [todo EXCEPT ![c] = todo[c]] /\ todo[c] \in SUBSET Calls
         /\ obs = [obs EXCEPT ![c] = obs[c]] /\ obs[c] \in Errors \cup {None, "running", "finished"}
         /\ answer = [answer EXCEPT ![c] = answer[c]] /\ answer[c] \in Answers \cup {None}
         /\ \A v : pc' = [pc EXCEPT ![c] = v] => pc'[c] = v
         /\ \A v : on' = [on EXCEPT ![c] = v] => on'[c] = v
         /\ \A v : todo' = [todo EXCEPT ![c] = v] => todo'[c] = v
         /\ \A v : obs' = [obs EXCEPT ![c] = v] => obs'[c] = v
         /\ \A v : answer' = [answer EXCEPT ![c] = v] => answer'[c] = v
<1>1. /\ pc = [pc EXCEPT ![c] = pc[c]] /\ pc[c] \in Early \cup Owning \cup Late
      /\ on = [on EXCEPT ![c] = on[c]] /\ on[c] \in Calls \cup {None}
  BY DEF Shape
<1>2. todo = [todo EXCEPT ![c] = todo[c]] /\ todo[c] \in SUBSET Calls
  BY DEF Shape
<1>3. obs = [obs EXCEPT ![c] = obs[c]] /\ obs[c] \in Errors \cup {None, "running", "finished"}
  BY DEF Shape
<1>4. answer = [answer EXCEPT ![c] = answer[c]] /\ answer[c] \in Answers \cup {None}
  BY DEF Shape
<1>5. /\ \A v : pc' = [pc EXCEPT ![c] = v] => pc'[c] = v
      /\ \A v : on' = [on EXCEPT ![c] = v] => on'[c] = v
      /\ \A v : todo' = [todo EXCEPT ![c] = v] => todo'[c] = v
      /\ \A v : obs' = [obs EXCEPT ![c] = v] => obs'[c] = v
      /\ \A v : answer' = [answer EXCEPT ![c] = v] => answer'[c] = v
  BY SMTT(60) DEF Shape
<1> QED BY <1>1, <1>2, <1>3, <1>4, <1>5

\* The answers a step may give.
LEMMA AnswerTypes ==
  /\ \A t \in Calls : <<"task", t>> \in Answers
  /\ \A e \in Errors : Said(e) \in Answers
BY DEF Answers

LEMMA HandlerKeeps ==
  ASSUME ProfileInv, NEW c \in Calls,
         \/ Validate(c) \/ PruneList(c) \/ PruneRequests(c) \/ Listen(c) \/ Existing(c)
         \/ DiscardRequests(c) \/ WaitForTerminal(c) \/ stage(c)
  PROVE  ProfileInv'
<1>1. Shape /\ Place(c) /\ Holds(c)
  BY DEF ProfileInv
<1>2. \A t \in tasks : t \in Calls /\ raw[t] \in Begun
  BY <1>1 DEF ProfileInv, Place, Shape
<1>3. \A t \in Calls : raw[t] \in Begun => Exists(t) \/ raw[t] = "expired"
  BY DEF Begun, Running, Exists
<1>4. tasks \in SUBSET Calls
  BY <1>1 DEF Shape
<1> USE DEF Goto, Answer, Refuse, runtime, core, gets
<1>a1. CASE Validate(c)
  <2>1. Quiet(c)
    BY SMTT(60), <1>1, <1>2, <1>3, <1>a1, OwnValues, AnswerTypes, CallsAssumption
       DEF Validate, Quiet, Drops, Holds, Early, Owning, Late, Errors
  <2>2. QuietPlace(c)
    BY SMTT(60), <1>1, <1>a1, OwnValues DEF Validate, QuietPlace, Place, Early, Owning, Errors
  <2>3. QuietHolds(c)
    <3>1. /\ UNCHANGED <<raw, todo>> /\ pc[c] = "validate"
          /\ \/ pc'[c] = "prune" /\ answer' = answer
             \/ pc'[c] = "done" /\ answer'[c] = Said("invalid")
      BY <1>1, <1>a1, OwnValues DEF Validate
    <3>2. \A t \in todo[c] : raw[t] \in Begun
      BY <1>1 DEF Holds
    <3> QED BY <3>1, <3>2 DEF QuietHolds, Errors
  <2> QED BY <2>1, <2>2, <2>3, QuietKeeps
<1>a2. CASE PruneList(c)
  <2>1. Quiet(c)
    BY <1>1, <1>2, <1>3, <1>4, <1>a2, OwnValues, AnswerTypes, CallsAssumption
       DEF PruneList, Quiet, Drops, Holds, Early, Owning, Late, Errors
  <2>2. QuietPlace(c)
    BY SMTT(60), <1>1, <1>a2, OwnValues DEF PruneList, QuietPlace, Place, Early, Owning, Errors
  <2>3. QuietHolds(c)
    BY SMTT(60), <1>1, <1>2, <1>3, <1>a2, OwnValues DEF PruneList, Holds, QuietHolds, Errors
  <2> QED BY <2>1, <2>2, <2>3, QuietKeeps
<1>a3. CASE PruneRequests(c)
  <2>1. Quiet(c)
    BY <1>1, <1>2, <1>3, <1>a3, OwnValues, AnswerTypes, CallsAssumption
       DEF PruneRequests, Quiet, Drops, Holds, Early, Owning, Late, Errors
  <2>2. QuietPlace(c)
    BY SMTT(60), <1>1, <1>a3, OwnValues DEF PruneRequests, QuietPlace, Place, Early, Owning, Errors
  <2>3. QuietHolds(c)
    BY <1>1, <1>2, <1>3, <1>a3, OwnValues DEF PruneRequests, Holds, QuietHolds, Errors
  <2> QED BY <2>1, <2>2, <2>3, QuietKeeps
<1>a4. CASE Listen(c)
  <2>1. Quiet(c)
    BY <1>1, <1>2, <1>3, <1>a4, OwnValues, AnswerTypes, CallsAssumption
       DEF Listen, Quiet, Drops, Holds, Early, Owning, Late, Errors
  <2>2. QuietPlace(c)
    BY SMTT(60), <1>1, <1>a4, OwnValues DEF Listen, QuietPlace, Place, Early, Owning, Errors
  <2>3. QuietHolds(c)
    BY <1>1, <1>2, <1>3, <1>a4, OwnValues DEF Listen, Holds, QuietHolds, Errors
  <2> QED BY <2>1, <2>2, <2>3, QuietKeeps
<1>a5. CASE Existing(c)
  <2>1. Quiet(c)
    BY SMTT(60), <1>1, <1>2, <1>3, <1>a5, OwnValues, AnswerTypes, CallsAssumption
       DEF Existing, Quiet, Drops, Holds, Early, Owning, Late, Errors
  <2>2. QuietPlace(c)
    BY SMTT(60), <1>1, <1>a5, OwnValues DEF Existing, QuietPlace, Place, Early, Owning, Errors
  <2>3. QuietHolds(c)
    <3>1. /\ UNCHANGED <<raw, on, todo, obs>> /\ pc[c] = "existing"
          /\ \/ pc'[c] = "done" /\ answer'[c] = <<"task", on[c]>>
             \/ pc'[c] \in {"terminal", "discardRequests"} /\ answer' = answer
          /\ pc'[c] = "discardRequests" => ~ Exists(on[c])
      BY <1>1, <1>a5, OwnValues DEF Existing
    <3>2. on[c] \in Calls /\ IdOf[on[c]] = IdOf[c] /\ raw[on[c]] \in Begun
      BY <1>1, <3>1 DEF Holds
    <3>3. \A t \in todo[c] : raw[t] \in Begun
      BY <1>1 DEF Holds
    <3>4. pc'[c] = "discardRequests" => raw[on[c]] = "expired"
      BY <1>3, <3>1, <3>2
    <3> QED BY <3>1, <3>2, <3>3, <3>4 DEF QuietHolds
  <2> QED BY <2>1, <2>2, <2>3, QuietKeeps
<1>a6. CASE DiscardRequests(c)
  <2>1. Quiet(c)
    BY <1>1, <1>2, <1>3, <1>a6, OwnValues, AnswerTypes, CallsAssumption
       DEF DiscardRequests, Quiet, Drops, Holds, Early, Owning, Late, Errors
  <2>2. QuietPlace(c)
    BY SMTT(60), <1>1, <1>a6, OwnValues DEF DiscardRequests, QuietPlace, Place, Early, Owning, Errors
  <2>3. QuietHolds(c)
    BY <1>1, <1>2, <1>3, <1>a6, OwnValues DEF DiscardRequests, Holds, QuietHolds, Errors
  <2> QED BY <2>1, <2>2, <2>3, QuietKeeps
<1>a7. CASE WaitForTerminal(c)
  <2>0. on[c] \in Calls /\ <<"task", on[c]>> \in Answers
    BY <1>1, <1>a7, AnswerTypes DEF WaitForTerminal, Holds
  <2>1. Quiet(c)
    BY <1>1, <1>2, <1>3, <2>0, <1>a7, OwnValues, AnswerTypes, CallsAssumption
       DEF WaitForTerminal, Quiet, Drops, Holds, Early, Owning, Late, Errors
  <2>2. QuietPlace(c)
    BY SMTT(60), <1>1, <1>a7, OwnValues DEF WaitForTerminal, QuietPlace, Place, Early, Owning, Errors
  <2>3. QuietHolds(c)
    BY <1>1, <1>2, <1>3, <1>a7, OwnValues DEF WaitForTerminal, Holds, QuietHolds, Errors
  <2> QED BY <2>1, <2>2, <2>3, QuietKeeps
<1>a8. CASE stage(c)
  <2>1. Quiet(c)
    BY SMTT(60), <1>1, <1>2, <1>3, <1>a8, OwnValues, AnswerTypes, CallsAssumption
       DEF stage, Quiet, Drops, Holds, Early, Owning, Late, Errors
  <2>2. QuietPlace(c)
    <3>1. pc[c] = "stage" /\ raw[c] = "none"
      BY <1>1, <1>a8 DEF stage, Place
    <3>2. pc'[c] = "submit" \/ (pc'[c] = "release" /\ obs'[c] \in Errors)
      BY <1>1, <1>a8, OwnValues DEF stage, Errors
    <3> QED BY SMTT(60), <3>1, <3>2 DEF QuietPlace, Early, Owning
  <2>3. QuietHolds(c)
    BY SMTT(60), <1>1, <1>2, <1>3, <1>a8, OwnValues DEF stage, Holds, QuietHolds, Errors
  <2> QED BY <2>1, <2>2, <2>3, QuietKeeps
<1> QED BY <1>a1, <1>a2, <1>a3, <1>a4, <1>a5, <1>a6, <1>a7, <1>a8

LEMMA OwnerMeetsCause ==
  ASSUME ProfileInv, NEW c \in Calls, pc[c] \in {"owner", "submit"}, rawIds[IdOf[c]] # None
  PROVE  Cause(c)
<1>1. Shape /\ Place(c)
  BY DEF ProfileInv
<1>2. IdOf[c] \in RequestIds
  BY CallsAssumption
<1>3. CASE rawIds[IdOf[c]] = "raw"
  BY <1>3 DEF Cause
<1>4. CASE rawIds[IdOf[c]] \in Calls
  <2> DEFINE d == rawIds[IdOf[c]]
  <2>1. d \in Calls /\ IdOf[d] = IdOf[c]
    BY <1>1, <1>2, <1>4 DEF Shape
  <2>2. Place(d)
    BY <2>1 DEF ProfileInv
  <2>3. raw[d] \in Holding
    BY <2>1, <2>2 DEF Place
  <2>4. requests[IdOf[c]] = Pending(c) /\ raw[c] = "none"
    BY <1>1 DEF Place, Owning
  <2>5. d # c
    BY <2>3, <2>4 DEF Holding, Running
  <2>6. pc[d] \notin Owning /\ requests[IdOf[d]] # Accepted(d)
    BY SMTT(60), <2>1, <2>2, <2>4, <2>5, EntryFacts DEF Place
  <2>7. raw[d] \notin Running /\ raw[d] # "starting"
    BY <2>2, <2>6 DEF Place, Owning
  <2>8. raw[d] = "uncertain"
    BY <2>3, <2>7 DEF Holding
  <2> QED BY <2>1, <2>8 DEF Cause
<1>5. rawIds[IdOf[c]] \in Calls \cup {None, "raw"}
  BY <1>1, <1>2 DEF Shape
<1> QED BY <1>3, <1>4, <1>5

LEMMA PruneOneKeeps ==
  ASSUME ProfileInv, NEW c \in Calls, NEW t \in Calls, PruneOne(c, t)
  PROVE  ProfileInv'
<1>1. Shape /\ Place(c) /\ Holds(c)
  BY DEF ProfileInv
<1>2. /\ pc[c] = "pruning" /\ t \in todo[c] /\ todo' = [todo EXCEPT ![c] = todo[c] \ {t}]
      /\ UNCHANGED <<requests, terminal, raw, rawIds, ended, obs, answer, gets>>
  BY DEF PruneOne, core
<1>3. \/ /\ pc' = [pc EXCEPT ![c] = "reserve"] \/ pc' = [pc EXCEPT ![c] = "pruning"]
         /\ UNCHANGED <<tasks, on>>
      \/ /\ raw[t] = "expired" /\ tasks' = tasks \ {t} /\ on' = [on EXCEPT ![c] = t]
         /\ pc' = [pc EXCEPT ![c] = "pruneRequests"]
  <2>1. raw[t] \in Begun
    BY <1>1, <1>2 DEF Holds
  <2> QED BY <2>1 DEF PruneOne, Goto, Exists, Begun, Running
<1>4. todo'[c] = todo[c] \ {t} /\ todo[c] \in SUBSET Calls
  BY <1>1, <1>2, OwnValues
<1>5. Quiet(c)
  <2>1. todo' = [todo EXCEPT ![c] = todo'[c]] /\ todo'[c] \in SUBSET Calls
    BY <1>2, <1>4
  <2>2. Drops
    BY <1>2, <1>3 DEF Drops
  <2> QED BY <1>1, <1>2, <1>3, <2>1, <2>2, OwnValues DEF Quiet, Early
<1>6. QuietPlace(c)
  BY SMTT(60), <1>1, <1>2, <1>3, OwnValues DEF QuietPlace, Place, Early, Owning
<1>7. QuietHolds(c)
  <2>1. \A u \in todo'[c] : raw[u] \in Begun
    BY <1>1, <1>4 DEF Holds
  <2>2. /\ pc[c] # "done" /\ answer'[c] = answer[c]
        /\ \/ pc'[c] \in {"reserve", "pruning"}
           \/ pc'[c] = "pruneRequests" /\ on'[c] = t /\ raw[t] = "expired"
    BY <1>1, <1>2, <1>3, OwnValues
  <2> QED BY <2>1, <2>2 DEF QuietHolds
<1> QED BY <1>5, <1>6, <1>7, QuietKeeps

LEMMA RefusalKeeps ==
  ASSUME ProfileInv, NEW c \in Calls,
         \/ CheckRawId(c)
         \/ pc[c] = "submit" /\ UNCHANGED core /\ UNCHANGED <<runtime, on, todo, answer, gets>> /\
            (Refuse(c, "capacity") \/ (rawIds[IdOf[c]] # None /\ Refuse(c, "conflict")))
  PROVE  ProfileInv'
<1>1. Shape /\ Place(c) /\ Holds(c)
  BY DEF ProfileInv
<1>2. /\ pc[c] \in {"owner", "submit"}
      /\ UNCHANGED <<requests, tasks, terminal, raw, rawIds, ended, on, todo, answer, gets>>
      /\ \/ pc' = [pc EXCEPT ![c] = "stage"] /\ UNCHANGED obs /\ pc[c] = "owner"
         \/ /\ pc' = [pc EXCEPT ![c] = "release"]
            /\ \E why \in {"conflict", "capacity"} :
                 /\ obs' = [obs EXCEPT ![c] = why]
                 /\ why = "conflict" => rawIds[IdOf[c]] # None
  BY DEF CheckRawId, Refuse, Goto, core, runtime
<1>3. rawIds[IdOf[c]] # None => Cause(c)
  BY <1>2, OwnerMeetsCause
<1>4. Quiet(c)
  BY <1>1, <1>2, OwnValues DEF Quiet, Drops, Early, Owning, Errors
<1>5. raw[c] = "none"
  BY <1>1, <1>2 DEF Place
<1>6. pc'[c] = "stage" \/ (pc'[c] = "release" /\ obs'[c] \in Errors)
  BY <1>1, <1>2, OwnValues DEF Errors
<1>7. QuietPlace(c)
  BY SMTT(60), <1>2, <1>5, <1>6 DEF QuietPlace, Early, Owning
<1>8. QuietHolds(c)
  BY SMTT(60), <1>1, <1>2, <1>3, OwnValues DEF QuietHolds, Holds
<1> QED BY <1>4, <1>7, <1>8, QuietKeeps

\* What reserve finds when the entry is not free.
LEMMA MeetKeeps ==
  ASSUME ProfileInv, NEW c \in Calls, reserve(c), requests[IdOf[c]] # Free
  PROVE  ProfileInv'
<1>1. Shape /\ Place(c) /\ Holds(c)
  BY DEF ProfileInv
<1>2. IdOf[c] \in RequestIds
  BY CallsAssumption
<1>3. PICK d \in Calls : requests[IdOf[c]] \in {Pending(d), Accepted(d)}
  BY SMTT(60), <1>1, <1>2 DEF Shape, Entries
<1>4. IdOf[d] = IdOf[c] /\ Place(d)
  BY <1>1, <1>2, <1>3 DEF Shape, ProfileInv
<1>5. pc[d] \notin Early
  BY <1>3, <1>4 DEF Place, Early, Owning
<1>6. /\ pc[c] = "reserve"
      /\ UNCHANGED <<requests, tasks, terminal, raw, rawIds, ended, todo, obs, gets>>
      /\ \/ /\ BodyOf[d] # BodyOf[c] /\ UNCHANGED on
            /\ pc' = [pc EXCEPT ![c] = "done"] /\ answer' = [answer EXCEPT ![c] = Said("conflict")]
         \/ /\ pc' = [pc EXCEPT ![c] = "listen"] /\ on' = [on EXCEPT ![c] = d] /\ UNCHANGED answer
         \/ /\ requests[IdOf[c]] = Accepted(d)
            /\ pc' = [pc EXCEPT ![c] = "existing"] /\ on' = [on EXCEPT ![c] = d] /\ UNCHANGED answer
  BY SMTT(60), <1>3, EntryFacts DEF reserve, Goto, Answer, core
<1>7. BodyOf[d] # BodyOf[c] => Cause(c)
  BY <1>4, <1>5 DEF Cause
<1>8. requests[IdOf[c]] = Accepted(d) => raw[d] \in Begun
  BY <1>4 DEF Place
<1>9. Quiet(c)
  BY <1>1, <1>6, OwnValues, AnswerTypes DEF Quiet, Drops, Early, Owning, Late, Errors
<1>10. QuietPlace(c)
  BY SMTT(60), <1>1, <1>6, OwnValues DEF QuietPlace, Place, Early, Owning
<1>11. QuietHolds(c)
  <2>1. \A u \in todo'[c] : raw[u] \in Begun
    BY <1>1, <1>6 DEF Holds
  <2>2. /\ pc[c] # "done"
        /\ \/ pc'[c] = "listen" /\ answer'[c] = answer[c]
           \/ /\ pc'[c] = "existing" /\ answer'[c] = answer[c]
              /\ on'[c] = d /\ IdOf[d] = IdOf[c] /\ raw[d] \in Begun
           \/ pc'[c] = "done" /\ answer'[c] = Said("conflict") /\ Cause(c)
    BY <1>1, <1>4, <1>6, <1>7, <1>8, OwnValues
  <2> QED BY <2>1, <2>2 DEF QuietHolds, Errors
<1> QED BY <1>9, <1>10, <1>11, QuietKeeps

-------------------------------------------------------------------------------
(* Steps of an owner and of its raw task *)

\* What belongs to one call changes, and waiters may be woken.
Local(c) ==
  /\ pc' \in [Calls -> Early \cup Owning \cup Late]
  /\ \A d \in Calls : d # c => pc'[d] = pc[d] \/ (pc[d] = "waiting" /\ pc'[d] = "reserve")
  /\ UNCHANGED todo
  /\ on' = [on EXCEPT ![c] = on'[c]] /\ on'[c] \in Calls \cup {None}
  /\ obs' = [obs EXCEPT ![c] = obs'[c]] /\ obs'[c] \in Errors \cup {None, "running", "finished"}
  /\ answer' = [answer EXCEPT ![c] = answer'[c]] /\ answer'[c] \in Answers \cup {None}
  /\ raw' = [raw EXCEPT ![c] = raw'[c]] /\ raw'[c] \in RawStates
  /\ terminal' = [terminal EXCEPT ![c] = terminal'[c]] /\ terminal'[c] \in Terminals \cup {None}
  /\ ended' = [ended EXCEPT ![c] = ended'[c]] /\ ended'[c] \in {"zero", "other", None}

\* Of the maps, only its own entries, and none that another call holds.
Shared(c) ==
  /\ requests' = [requests EXCEPT ![IdOf[c]] = requests'[IdOf[c]]]
  /\ \/ requests'[IdOf[c]] = requests[IdOf[c]]
     \/ /\ requests[IdOf[c]] \in {Free, Pending(c)}
        /\ requests'[IdOf[c]] \in {Free, Pending(c), Accepted(c)}
  /\ tasks' \in {tasks, tasks \cup {c}}
  /\ rawIds' = [rawIds EXCEPT ![IdOf[c]] = rawIds'[IdOf[c]]]
  /\ \/ rawIds'[IdOf[c]] = rawIds[IdOf[c]]
     \/ rawIds[IdOf[c]] \in {None, c} /\ rawIds'[IdOf[c]] \in {None, c}
  /\ UNCHANGED gets

\* What the step may not undo.
OwnForward(c) ==
  /\ raw[c] \in Begun => raw'[c] \in Begun
  /\ raw[c] = "expired" => raw'[c] = "expired"
  /\ raw[c] \in {"uncertain", "stuck"} => raw'[c] = raw[c]
  /\ pc[c] \notin Early => pc'[c] \notin Early
  /\ terminal[c] = "succeeded" => terminal'[c] = "succeeded"

LEMMA OwnerStepKeeps ==
  ASSUME ProfileInv, NEW c \in Calls, Local(c), Shared(c), OwnForward(c),
         Place(c)', QuietHolds(c), Result(c)'
  PROVE  ProfileInv'
<1>0. Shape /\ Holds(c)
  BY DEF ProfileInv
<1>1. IdOf \in [Calls -> RequestIds] /\ IdOf[c] \in RequestIds /\ None \notin Calls /\ "raw" \notin Calls
  BY CallsAssumption
<1>2. ASSUME NEW r \in RequestIds
      PROVE  requests'[r] = IF r = IdOf[c] THEN requests'[IdOf[c]] ELSE requests[r]
  BY SMTT(60), <1>0, <1>1 DEF Shape, Shared
<1>3. ASSUME NEW r \in RequestIds
      PROVE  rawIds'[r] = IF r = IdOf[c] THEN rawIds'[IdOf[c]] ELSE rawIds[r]
  BY SMTT(60), <1>0, <1>1 DEF Shape, Shared
<1>4. Shape'
  <2>1. requests' \in [RequestIds -> Entries]
    <3>1. requests'[IdOf[c]] \in Entries
      BY SMTT(60), <1>0, <1>1 DEF Shape, Shared, Entries
    <3> QED BY SMTT(60), <1>0, <3>1 DEF Shape, Shared
  <2>2. \A r \in RequestIds, d \in Calls :
           requests'[r] \in {Pending(d), Accepted(d)} => IdOf[d] = r
    <3> SUFFICES ASSUME NEW r \in RequestIds, NEW d \in Calls,
                        requests'[r] \in {Pending(d), Accepted(d)}
                 PROVE  IdOf[d] = r
      OBVIOUS
    <3>1. CASE requests'[r] = requests[r]
      BY <1>0, <3>1 DEF Shape
    <3>2. CASE r = IdOf[c] /\ requests'[r] \in {Free, Pending(c), Accepted(c)}
      BY SMTT(60), <3>2, EntryFacts
    <3> QED BY <1>2, <3>1, <3>2 DEF Shared
  <2>3. tasks' \in SUBSET Calls
    BY SMTT(60), <1>0 DEF Shape, Shared
  <2>4. rawIds' \in [RequestIds -> Calls \cup {None, "raw"}]
    <3>1. rawIds'[IdOf[c]] \in Calls \cup {None, "raw"}
      BY SMTT(60), <1>0, <1>1 DEF Shape, Shared
    <3> QED BY <1>0, <3>1 DEF Shape, Shared
  <2>5. \A r \in RequestIds, d \in Calls : rawIds'[r] = d => IdOf[d] = r
    <3> SUFFICES ASSUME NEW r \in RequestIds, NEW d \in Calls, rawIds'[r] = d
                 PROVE  IdOf[d] = r
      OBVIOUS
    <3>1. CASE rawIds'[r] = rawIds[r]
      BY <1>0, <3>1 DEF Shape
    <3>2. CASE r = IdOf[c] /\ rawIds'[r] \in {None, c}
      BY <1>1, <3>2
    <3> QED BY <1>3, <3>1, <3>2 DEF Shared
  <2>6. on' \in [Calls -> Calls \cup {None}] /\ obs' \in [Calls -> Errors \cup {None, "running", "finished"}]
    BY SMTT(60), <1>0 DEF Shape, Local
  <2>7. answer' \in [Calls -> Answers \cup {None}] /\ raw' \in [Calls -> RawStates]
    BY SMTT(60), <1>0 DEF Shape, Local
  <2>8. terminal' \in [Calls -> Terminals \cup {None}] /\ ended' \in [Calls -> {"zero", "other", None}]
    BY SMTT(60), <1>0 DEF Shape, Local
  <2>9. /\ todo' \in [Calls -> SUBSET Calls] /\ pc' \in [Calls -> Early \cup Owning \cup Late]
        /\ getPc' \in [Gets -> {"idle", "unknown", "snapshot", "discard", "terminal", "done"}]
        /\ getOn' \in [Gets -> Calls \cup {None}]
        /\ getAnswer' \in [Gets -> Terminals \cup {None, "running", "kindMismatch", "notFound"}]
    BY <1>0 DEF Shape, Local, Shared, gets
  <2> QED BY <2>1, <2>2, <2>3, <2>4, <2>5, <2>6, <2>7, <2>8, <2>9 DEF Shape
<1>5. ASSUME NEW d \in Calls, d # c
      PROVE  Bystander(d)
  <2>1. IdOf[d] \in RequestIds
    BY <1>1
  <2>2. on'[d] = on[d] /\ obs'[d] = obs[d] /\ answer'[d] = answer[d]
    BY SMTT(60), <1>0, <1>5 DEF Shape, Local
  <2>3. raw'[d] = raw[d] /\ terminal'[d] = terminal[d] /\ ended'[d] = ended[d]
    BY SMTT(60), <1>0, <1>5 DEF Shape, Local
  <2>4. /\ pc'[d] = pc[d] \/ (pc[d] = "waiting" /\ pc'[d] = "reserve")
        /\ todo'[d] = todo[d]
    BY <1>5 DEF Local
  <2>5. requests'[IdOf[d]] = requests[IdOf[d]] \/
        (requests[IdOf[d]] \in {Free, Pending(c)} /\ requests'[IdOf[d]] \in {Free, Pending(c), Accepted(c)})
    BY <1>2, <2>1 DEF Shared
  <2>6. /\ (requests'[IdOf[d]] = Pending(d)) = (requests[IdOf[d]] = Pending(d))
        /\ (requests'[IdOf[d]] = Accepted(d)) = (requests[IdOf[d]] = Accepted(d))
    BY SMTT(60), <1>5, <2>5, EntryFacts
  <2>7. rawIds'[IdOf[d]] = rawIds[IdOf[d]] \/
        (rawIds[IdOf[d]] \in {None, c} /\ rawIds'[IdOf[d]] \in {None, c})
    BY <1>3, <2>1 DEF Shared
  <2>8. (rawIds'[IdOf[d]] = d) = (rawIds[IdOf[d]] = d)
    BY <1>1, <1>5, <2>7
  <2>9. d \in tasks' <=> d \in tasks
    BY <1>5 DEF Shared
  <2> QED BY <2>2, <2>3, <2>4, <2>6, <2>8, <2>9 DEF Bystander
<1>6. Forward
  <2>1. ASSUME NEW r \in RequestIds, rawIds[r] = "raw" PROVE rawIds'[r] = "raw"
    BY <1>1, <1>3, <2>1, CallsAssumption DEF Shared
  <2>2. ASSUME NEW t \in Calls
        PROVE  /\ raw[t] \in Begun => raw'[t] \in Begun
               /\ raw[t] = "expired" => raw'[t] = "expired"
               /\ raw[t] \in {"uncertain", "stuck"} => raw'[t] = raw[t]
               /\ pc[t] \notin Early => pc'[t] \notin Early
               /\ terminal[t] = "succeeded" => terminal'[t] = "succeeded"
    <3>1. CASE t = c
      BY <3>1 DEF OwnForward
    <3>2. CASE t # c
      BY <1>5, <3>2 DEF Bystander, Early
    <3> QED BY <3>1, <3>2
  <2> QED BY <2>1, <2>2 DEF Forward
<1>7. Holds(c)'
  <2>1. todo'[c] \in SUBSET Calls
    BY <1>0, OwnValues DEF Local
  <2> QED BY <1>0, <1>6, <2>1, HeldAfter
<1>8. UNCHANGED gets
  BY DEF Shared
<1> QED BY <1>4, <1>5, <1>6, <1>7, <1>8, StepKeeps

\* Values of its task and of its entries.
LEMMA OwnEntries ==
  ASSUME Shape, NEW c \in Calls
  PROVE  /\ raw = [raw EXCEPT ![c] = raw[c]] /\ raw[c] \in RawStates
         /\ terminal = [terminal EXCEPT ![c] = terminal[c]] /\ terminal[c] \in Terminals \cup {None}
         /\ ended = [ended EXCEPT ![c] = ended[c]] /\ ended[c] \in {"zero", "other", None}
         /\ requests = [requests EXCEPT ![IdOf[c]] = requests[IdOf[c]]]
         /\ rawIds = [rawIds EXCEPT ![IdOf[c]] = rawIds[IdOf[c]]]
         /\ \A v : raw' = [raw EXCEPT ![c] = v] => raw'[c] = v
         /\ \A v : terminal' = [terminal EXCEPT ![c] = v] => terminal'[c] = v
         /\ \A v : ended' = [ended EXCEPT ![c] = v] => ended'[c] = v
         /\ \A v : requests' = [requests EXCEPT ![IdOf[c]] = v] => requests'[IdOf[c]] = v
         /\ \A v : rawIds' = [rawIds EXCEPT ![IdOf[c]] = v] => rawIds'[IdOf[c]] = v
<1>1. IdOf[c] \in RequestIds
  BY CallsAssumption
<1>2. raw = [raw EXCEPT ![c] = raw[c]] /\ raw[c] \in RawStates
  BY DEF Shape
<1>3. /\ terminal = [terminal EXCEPT ![c] = terminal[c]] /\ terminal[c] \in Terminals \cup {None}
      /\ ended = [ended EXCEPT ![c] = ended[c]] /\ ended[c] \in {"zero", "other", None}
  BY DEF Shape
<1>4. /\ requests = [requests EXCEPT ![IdOf[c]] = requests[IdOf[c]]]
      /\ rawIds = [rawIds EXCEPT ![IdOf[c]] = rawIds[IdOf[c]]]
  BY <1>1 DEF Shape
<1>5. /\ \A v : raw' = [raw EXCEPT ![c] = v] => raw'[c] = v
      /\ \A v : terminal' = [terminal EXCEPT ![c] = v] => terminal'[c] = v
      /\ \A v : ended' = [ended EXCEPT ![c] = v] => ended'[c] = v
  BY SMTT(60) DEF Shape
<1>6. /\ \A v : requests' = [requests EXCEPT ![IdOf[c]] = v] => requests'[IdOf[c]] = v
      /\ \A v : rawIds' = [rawIds EXCEPT ![IdOf[c]] = v] => rawIds'[IdOf[c]] = v
  BY SMTT(60), <1>1 DEF Shape
<1> QED BY <1>2, <1>3, <1>4, <1>5, <1>6

LEMMA OwnMove ==
  ASSUME Shape, NEW c \in Calls, NEW v \in Early \cup Owning \cup Late,
         pc' = [pc EXCEPT ![c] = v] \/ NotifyWaiters(c, v)
  PROVE  /\ pc' \in [Calls -> Early \cup Owning \cup Late]
         /\ \A d \in Calls : d # c => pc'[d] = pc[d] \/ (pc[d] = "waiting" /\ pc'[d] = "reserve")
         /\ pc'[c] = v
<1>1. CASE pc' = [pc EXCEPT ![c] = v]
  BY SMTT(60), <1>1 DEF Shape
<1>2. CASE NotifyWaiters(c, v)
  <2>1. pc' = [d \in Calls |-> pc'[d]]
    BY <1>2 DEF NotifyWaiters
  <2>2. \A d \in Calls : d # c => pc'[d] = pc[d] \/ (pc[d] = "waiting" /\ pc'[d] = "reserve")
    BY <1>2 DEF NotifyWaiters, Woken
  <2>3. pc'[c] = v
    BY <1>2 DEF NotifyWaiters
  <2>4. \A d \in Calls : pc'[d] \in Early \cup Owning \cup Late
    BY SMTT(60), <2>2, <2>3 DEF Shape, Early
  <2> QED BY <2>1, <2>2, <2>3, <2>4
<1> QED BY <1>1, <1>2

\* A handler that does not move still holds what it held.
LEMMA HoldsStill ==
  ASSUME Shape, NEW c \in Calls, Holds(c), pc' = pc, on'[c] = on[c], todo'[c] = todo[c],
         obs'[c] = obs[c], answer'[c] = answer[c]
  PROVE  QuietHolds(c)
<1>1. answer[c] \in Answers \cup {None}
  BY DEF Shape
<1>2. /\ pc'[c] \in {"existing", "terminal"} =>
           on'[c] \in Calls /\ IdOf[on'[c]] = IdOf[c] /\ raw[on'[c]] \in Begun
      /\ pc'[c] \in {"pruneRequests", "discardRequests"} => on'[c] \in Calls /\ raw[on'[c]] = "expired"
      /\ \A t \in todo'[c] : raw[t] \in Begun
      /\ pc'[c] \in {"release", "releaseNotify"} /\ obs'[c] = "conflict" => Cause(c)
  BY DEF Holds
<1>3. CASE pc[c] = "done"
  <2>1. answer[c] # None
    BY <1>3 DEF Holds
  <2>2. \/ \E t \in Calls : answer[c] = <<"task", t>>
        \/ \E e \in Errors : answer[c] = Said(e)
    BY <1>1, <2>1 DEF Answers
  <2>3. ASSUME NEW t \in Calls, answer[c] = <<"task", t>>
        PROVE  IdOf[t] = IdOf[c] /\ raw[t] \in Begun
    BY <2>3 DEF Holds
  <2>4. answer[c] = Said("conflict") => Cause(c)
    BY DEF Holds
  <2> QED BY <1>2, <1>3, <2>2, <2>3, <2>4 DEF QuietHolds
<1>4. CASE pc[c] # "done"
  BY <1>2, <1>4 DEF QuietHolds
<1> QED BY <1>3, <1>4

\* One lemma step per action.
LEMMA OwnerActionKeeps ==
  ASSUME ProfileInv, NEW c \in Calls,
         \/ reserve(c) /\ requests[IdOf[c]] = Free
         \/ Submit(c) /\ pc' = [pc EXCEPT ![c] = "submitted"]
         \/ RawRunning(c) \/ RawFails(c) \/ NeverRan(c)
         \/ accept(c) \/ AcceptTask(c) \/ AcceptNotify(c) \/ release(c) \/ ReleaseNotify(c)
         \/ finalize(c) \/ StoreFinished(c) \/ Expire(c)
  PROVE  ProfileInv'
<1>1. Shape /\ Place(c) /\ Holds(c) /\ Result(c)
  BY DEF ProfileInv
<1>2. Free # Pending(c) /\ Free # Accepted(c) /\ Pending(c) # Accepted(c)
  BY EntryFacts
<1>3. c # None /\ None \notin Terminals
  BY CallsAssumption DEF Terminals
<1>4. /\ raw \in [Calls -> RawStates] /\ terminal \in [Calls -> Terminals \cup {None}]
      /\ ended \in [Calls -> {"zero", "other", None}] /\ requests \in [RequestIds -> Entries]
      /\ rawIds \in [RequestIds -> Calls \cup {None, "raw"}] /\ IdOf[c] \in RequestIds
      /\ obs \in [Calls -> Errors \cup {None, "running", "finished"}]
      /\ pc \in [Calls -> Early \cup Owning \cup Late]
  BY SMTT(60), <1>1, CallsAssumption DEF Shape
<1>5. Free.st = "free" /\ Pending(c).st = "pending"
  BY EntryFacts
<1>6. pc[c] = "release" => requests[IdOf[c]] = Pending(c)
  BY <1>1 DEF Place, Owning
<1> USE DEF Goto, Refuse, runtime, core, gets, calls
<1>a1. CASE reserve(c) /\ requests[IdOf[c]] = Free
  <2>1. /\ pc' \in [Calls -> Early \cup Owning \cup Late]
        /\ \A d \in Calls : d # c => pc'[d] = pc[d] \/ (pc[d] = "waiting" /\ pc'[d] = "reserve")
        /\ pc'[c] = "owner"
    <3>1. "owner" \in Early \cup Owning \cup Late
      BY DEF Owning, Late
    <3>2. pc' = [pc EXCEPT ![c] = "owner"] \/ NotifyWaiters(c, "owner")
      BY EntryFacts, <1>2, <1>a1 DEF reserve
    <3> QED BY <1>1, <3>1, <3>2, OwnMove
  <2>0. /\ raw'[c] = raw[c] /\ terminal'[c] = terminal[c] /\ ended'[c] = ended[c]
        /\ requests'[IdOf[c]] = Pending(c) /\ rawIds'[IdOf[c]] = rawIds[IdOf[c]]
        /\ tasks' = tasks /\ obs'[c] = obs[c]
    BY <1>2, <1>4, <1>5, <1>6, <2>1, <1>a1 DEF reserve
  <2>2. Local(c)
    <3>1. /\ UNCHANGED todo
          /\ on' = [on EXCEPT ![c] = on'[c]] /\ on'[c] \in Calls \cup {None}
          /\ obs' = [obs EXCEPT ![c] = obs'[c]] /\ obs'[c] \in Errors \cup {None, "running", "finished"}
      BY <1>1, <1>2, <1>a1, EntryFacts, OwnValues DEF reserve, Errors
    <3>2. answer' = [answer EXCEPT ![c] = answer'[c]] /\ answer'[c] \in Answers \cup {None}
      BY SMTT(60), <1>1, <1>2, <1>a1, EntryFacts, OwnValues, AnswerTypes DEF reserve, Place
    <3>3. raw' = [raw EXCEPT ![c] = raw'[c]] /\ raw'[c] \in RawStates
      BY <1>1, <1>2, <2>0, <1>a1, EntryFacts, OwnEntries DEF reserve, RawStates
    <3>4. /\ terminal' = [terminal EXCEPT ![c] = terminal'[c]] /\ terminal'[c] \in Terminals \cup {None}
          /\ ended' = [ended EXCEPT ![c] = ended'[c]] /\ ended'[c] \in {"zero", "other", None}
      BY <1>1, <1>2, <2>0, <1>a1, EntryFacts, OwnEntries DEF reserve, Terminals
    <3> QED BY <2>1, <3>1, <3>2, <3>3, <3>4 DEF Local
  <2>3. Shared(c)
    BY SMTT(60), <1>1, <1>2, <1>3, <1>a1, EntryFacts, OwnEntries DEF reserve, Shared, Place, Owning, Holding, Running
  <2>9. pc[c] = "reserve"
    BY <1>a1 DEF reserve
  <2>4. OwnForward(c)
    BY <1>1, <1>2, <1>3, <2>0, <2>1, <2>9 DEF OwnForward, Early, Begun, Running, Place, Result, Terminals
  <2>5. Place(c)'
    <3>1. /\ pc'[c] \in Early \cup {"owner", "stage", "submit"} => raw'[c] = "none"
          /\ (pc'[c] = "submitted") = (raw'[c] = "starting")
          /\ pc'[c] \in {"accept", "acceptTask", "acceptNotify"} => raw'[c] \in Begun
          /\ pc'[c] \in {"release", "releaseNotify"} => raw'[c] \in {"none", "uncertain"} /\ obs'[c] \in Errors
      BY <1>1, <2>0, <2>1, <2>9 DEF Place, Early, Begun, Running, Errors
    <3>2. (pc'[c] \in Owning) = (requests'[IdOf[c]] = Pending(c))
      BY <1>1, <1>2, <2>0, <2>1, <2>9 DEF Place, Early, Owning, Begun, Running
    <3>5. requests'[IdOf[c]] = Accepted(c) => raw'[c] \in Begun /\ pc'[c] \notin Early
      BY <1>1, <1>2, <2>0, <2>1, <2>9 DEF Place, Early, Owning, Begun, Running
    <3>3. /\ raw'[c] \in Running =>
               \/ pc'[c] = "accept"
               \/ requests'[IdOf[c]] = Accepted(c) /\ (c \in tasks' \/ pc'[c] = "acceptTask")
          /\ c \in tasks' => raw'[c] \in Begun /\ pc'[c] \notin Early \cup Owning
      BY <1>1, <1>2, <2>0, <2>1, <2>9 DEF Place, Early, Owning, Begun, Running
    <3>4. (raw'[c] \in Holding) = (rawIds'[IdOf[c]] = c)
      BY <1>1, <1>3, <2>0, <2>1, <2>9 DEF Place, Holding, Running, Early
    <3> QED BY <3>1, <3>2, <3>3, <3>4, <3>5 DEF Place
  <2>6. QuietHolds(c)
    BY <1>1, <1>2, <2>1, <1>a1, EntryFacts, OwnValues DEF reserve, QuietHolds, Holds, Place, Errors, Owning, Early
  <2>7. Result(c)'
    BY <1>1, <1>2, <1>3, <2>0, <2>9 DEF Result, Terminals, Place
  <2> QED BY <2>2, <2>3, <2>4, <2>5, <2>6, <2>7, OwnerStepKeeps
<1>a2. CASE Submit(c) /\ pc' = [pc EXCEPT ![c] = "submitted"]
  <2>1. /\ pc' \in [Calls -> Early \cup Owning \cup Late]
        /\ \A d \in Calls : d # c => pc'[d] = pc[d] \/ (pc[d] = "waiting" /\ pc'[d] = "reserve")
        /\ pc'[c] = "submitted"
    <3>1. "submitted" \in Early \cup Owning \cup Late
      BY DEF Owning, Late
    <3>2. pc' = [pc EXCEPT ![c] = "submitted"] \/ NotifyWaiters(c, "submitted")
      BY <1>2, <1>a2 DEF Submit
    <3> QED BY <1>1, <3>1, <3>2, OwnMove
  <2>0. /\ raw'[c] = "starting" /\ terminal'[c] = terminal[c] /\ ended'[c] = ended[c]
        /\ requests'[IdOf[c]] = requests[IdOf[c]] /\ rawIds'[IdOf[c]] = c
        /\ tasks' = tasks /\ obs'[c] = obs[c]
    BY <1>2, <1>4, <1>5, <1>6, <2>1, <1>a2 DEF Submit
  <2>2. Local(c)
    <3>1. /\ UNCHANGED todo
          /\ on' = [on EXCEPT ![c] = on'[c]] /\ on'[c] \in Calls \cup {None}
          /\ obs' = [obs EXCEPT ![c] = obs'[c]] /\ obs'[c] \in Errors \cup {None, "running", "finished"}
      BY <1>1, <1>2, <1>a2, OwnValues DEF Submit, Errors
    <3>2. answer' = [answer EXCEPT ![c] = answer'[c]] /\ answer'[c] \in Answers \cup {None}
      BY <1>1, <1>2, <1>a2, OwnValues, AnswerTypes DEF Submit, Place
    <3>3. raw' = [raw EXCEPT ![c] = raw'[c]] /\ raw'[c] \in RawStates
      BY <1>1, <1>2, <2>0, <1>a2, OwnEntries DEF Submit, RawStates
    <3>4. /\ terminal' = [terminal EXCEPT ![c] = terminal'[c]] /\ terminal'[c] \in Terminals \cup {None}
          /\ ended' = [ended EXCEPT ![c] = ended'[c]] /\ ended'[c] \in {"zero", "other", None}
      BY <1>1, <1>2, <2>0, <1>a2, OwnEntries DEF Submit, Terminals
    <3> QED BY <2>1, <3>1, <3>2, <3>3, <3>4 DEF Local
  <2>3. Shared(c)
    BY SMTT(60), <1>1, <1>2, <1>3, <1>a2, OwnEntries DEF Submit, Shared, Place, Owning, Holding, Running
  <2>9. pc[c] = "submit"
    BY <1>a2 DEF Submit
  <2>4. OwnForward(c)
    BY <1>1, <1>2, <1>3, <2>0, <2>1, <2>9 DEF OwnForward, Early, Begun, Running, Place, Result, Terminals
  <2>5. Place(c)'
    <3>1. /\ pc'[c] \in Early \cup {"owner", "stage", "submit"} => raw'[c] = "none"
          /\ (pc'[c] = "submitted") = (raw'[c] = "starting")
          /\ pc'[c] \in {"accept", "acceptTask", "acceptNotify"} => raw'[c] \in Begun
          /\ pc'[c] \in {"release", "releaseNotify"} => raw'[c] \in {"none", "uncertain"} /\ obs'[c] \in Errors
      BY <1>1, <2>0, <2>1, <2>9 DEF Place, Early, Begun, Running, Errors
    <3>2. (pc'[c] \in Owning) = (requests'[IdOf[c]] = Pending(c))
      BY <1>1, <1>2, <2>0, <2>1, <2>9 DEF Place, Early, Owning, Begun, Running
    <3>5. requests'[IdOf[c]] = Accepted(c) => raw'[c] \in Begun /\ pc'[c] \notin Early
      BY <1>1, <1>2, <2>0, <2>1, <2>9 DEF Place, Early, Owning, Begun, Running
    <3>3. /\ raw'[c] \in Running =>
               \/ pc'[c] = "accept"
               \/ requests'[IdOf[c]] = Accepted(c) /\ (c \in tasks' \/ pc'[c] = "acceptTask")
          /\ c \in tasks' => raw'[c] \in Begun /\ pc'[c] \notin Early \cup Owning
      BY <1>1, <1>2, <2>0, <2>1, <2>9 DEF Place, Early, Owning, Begun, Running
    <3>4. (raw'[c] \in Holding) = (rawIds'[IdOf[c]] = c)
      BY <1>1, <1>3, <2>0, <2>1, <2>9 DEF Place, Holding, Running, Early
    <3> QED BY <3>1, <3>2, <3>3, <3>4, <3>5 DEF Place
  <2>6. QuietHolds(c)
    BY <1>1, <1>2, <2>1, <1>a2, OwnValues DEF Submit, QuietHolds, Holds, Place, Errors, Owning, Early
  <2>7. Result(c)'
    BY <1>1, <1>2, <1>3, <2>0, <2>9 DEF Result, Terminals, Place
  <2> QED BY <2>2, <2>3, <2>4, <2>5, <2>6, <2>7, OwnerStepKeeps
<1>a3. CASE RawRunning(c)
  <2>1. /\ pc' \in [Calls -> Early \cup Owning \cup Late]
        /\ \A d \in Calls : d # c => pc'[d] = pc[d] \/ (pc[d] = "waiting" /\ pc'[d] = "reserve")
        /\ pc'[c] = "accept"
    <3>1. "accept" \in Early \cup Owning \cup Late
      BY DEF Owning, Late
    <3>2. pc' = [pc EXCEPT ![c] = "accept"] \/ NotifyWaiters(c, "accept")
      BY <1>2, <1>a3 DEF RawRunning
    <3> QED BY <1>1, <3>1, <3>2, OwnMove
  <2>0. /\ raw'[c] = "running" /\ terminal'[c] = terminal[c] /\ ended'[c] = ended[c]
        /\ requests'[IdOf[c]] = requests[IdOf[c]] /\ rawIds'[IdOf[c]] = rawIds[IdOf[c]]
        /\ tasks' = tasks /\ obs'[c] = "running"
    BY <1>2, <1>4, <1>5, <1>6, <2>1, <1>a3 DEF RawRunning
  <2>2. Local(c)
    <3>1. /\ UNCHANGED todo
          /\ on' = [on EXCEPT ![c] = on'[c]] /\ on'[c] \in Calls \cup {None}
          /\ obs' = [obs EXCEPT ![c] = obs'[c]] /\ obs'[c] \in Errors \cup {None, "running", "finished"}
      BY <1>1, <1>2, <1>a3, OwnValues DEF RawRunning, Errors
    <3>2. answer' = [answer EXCEPT ![c] = answer'[c]] /\ answer'[c] \in Answers \cup {None}
      BY <1>1, <1>2, <1>a3, OwnValues, AnswerTypes DEF RawRunning, Place
    <3>3. raw' = [raw EXCEPT ![c] = raw'[c]] /\ raw'[c] \in RawStates
      BY <1>1, <1>2, <2>0, <1>a3, OwnEntries DEF RawRunning, RawStates
    <3>4. /\ terminal' = [terminal EXCEPT ![c] = terminal'[c]] /\ terminal'[c] \in Terminals \cup {None}
          /\ ended' = [ended EXCEPT ![c] = ended'[c]] /\ ended'[c] \in {"zero", "other", None}
      BY <1>1, <1>2, <2>0, <1>a3, OwnEntries DEF RawRunning, Terminals
    <3> QED BY <2>1, <3>1, <3>2, <3>3, <3>4 DEF Local
  <2>3. Shared(c)
    BY <1>1, <1>2, <1>3, <1>a3, OwnEntries DEF RawRunning, Shared, Place, Owning, Holding, Running
  <2>9. raw[c] = "starting"
    BY <1>a3 DEF RawRunning
  <2>4. OwnForward(c)
    BY <1>1, <1>2, <1>3, <2>0, <2>1, <2>9 DEF OwnForward, Early, Begun, Running, Place, Result, Terminals
  <2>5. Place(c)'
    <3>1. /\ pc'[c] \in Early \cup {"owner", "stage", "submit"} => raw'[c] = "none"
          /\ (pc'[c] = "submitted") = (raw'[c] = "starting")
          /\ pc'[c] \in {"accept", "acceptTask", "acceptNotify"} => raw'[c] \in Begun
          /\ pc'[c] \in {"release", "releaseNotify"} => raw'[c] \in {"none", "uncertain"} /\ obs'[c] \in Errors
      BY <1>1, <2>0, <2>1, <2>9 DEF Place, Early, Begun, Running, Errors
    <3>2. (pc'[c] \in Owning) = (requests'[IdOf[c]] = Pending(c))
      BY <1>1, <1>2, <2>0, <2>1, <2>9 DEF Place, Early, Owning, Begun, Running
    <3>5. requests'[IdOf[c]] = Accepted(c) => raw'[c] \in Begun /\ pc'[c] \notin Early
      BY <1>1, <1>2, <2>0, <2>1, <2>9 DEF Place, Early, Owning, Begun, Running
    <3>3. /\ raw'[c] \in Running =>
               \/ pc'[c] = "accept"
               \/ requests'[IdOf[c]] = Accepted(c) /\ (c \in tasks' \/ pc'[c] = "acceptTask")
          /\ c \in tasks' => raw'[c] \in Begun /\ pc'[c] \notin Early \cup Owning
      BY <1>1, <1>2, <2>0, <2>1, <2>9 DEF Place, Early, Owning, Begun, Running
    <3>4. (raw'[c] \in Holding) = (rawIds'[IdOf[c]] = c)
      BY <1>1, <1>3, <2>0, <2>1, <2>9 DEF Place, Holding, Running, Early
    <3> QED BY <3>1, <3>2, <3>3, <3>4, <3>5 DEF Place
  <2>6. QuietHolds(c)
    BY <1>1, <1>2, <2>1, <1>a3, OwnValues DEF RawRunning, QuietHolds, Holds, Place, Errors, Owning, Early
  <2>7. Result(c)'
    BY <1>1, <1>2, <1>3, <2>0, <2>9 DEF Result, Terminals, Place
  <2> QED BY <2>2, <2>3, <2>4, <2>5, <2>6, <2>7, OwnerStepKeeps
<1>a4. CASE RawFails(c)
  <2>1. /\ pc' \in [Calls -> Early \cup Owning \cup Late]
        /\ \A d \in Calls : d # c => pc'[d] = pc[d] \/ (pc[d] = "waiting" /\ pc'[d] = "reserve")
        /\ pc'[c] = "release"
    <3>1. "release" \in Early \cup Owning \cup Late
      BY DEF Owning, Late
    <3>2. pc' = [pc EXCEPT ![c] = "release"] \/ NotifyWaiters(c, "release")
      BY <1>2, <1>a4 DEF RawFails
    <3> QED BY <1>1, <3>1, <3>2, OwnMove
  <2>0. /\ \/ raw'[c] = "none" /\ rawIds'[IdOf[c]] = None
           \/ raw'[c] = "uncertain" /\ rawIds'[IdOf[c]] = rawIds[IdOf[c]]
        /\ terminal'[c] = terminal[c] /\ ended'[c] = ended[c]
        /\ requests'[IdOf[c]] = requests[IdOf[c]] /\ tasks' = tasks /\ obs'[c] = "failed"
    BY <1>2, <1>4, <1>5, <1>6, <2>1, <1>a4 DEF RawFails
  <2>2. Local(c)
    <3>1. /\ UNCHANGED todo
          /\ on' = [on EXCEPT ![c] = on'[c]] /\ on'[c] \in Calls \cup {None}
          /\ obs' = [obs EXCEPT ![c] = obs'[c]] /\ obs'[c] \in Errors \cup {None, "running", "finished"}
      BY <1>1, <1>2, <1>a4, OwnValues DEF RawFails, Errors
    <3>2. answer' = [answer EXCEPT ![c] = answer'[c]] /\ answer'[c] \in Answers \cup {None}
      BY <1>1, <1>2, <1>a4, OwnValues, AnswerTypes DEF RawFails, Place
    <3>3. raw' = [raw EXCEPT ![c] = raw'[c]] /\ raw'[c] \in RawStates
      BY <1>1, <1>2, <2>0, <1>a4, OwnEntries DEF RawFails, RawStates
    <3>4. /\ terminal' = [terminal EXCEPT ![c] = terminal'[c]] /\ terminal'[c] \in Terminals \cup {None}
          /\ ended' = [ended EXCEPT ![c] = ended'[c]] /\ ended'[c] \in {"zero", "other", None}
      BY <1>1, <1>2, <2>0, <1>a4, OwnEntries DEF RawFails, Terminals
    <3> QED BY <2>1, <3>1, <3>2, <3>3, <3>4 DEF Local
  <2>3. Shared(c)
    BY SMTT(60), <1>1, <1>2, <1>3, <1>a4, OwnEntries DEF RawFails, Shared, Place, Owning, Holding, Running
  <2>9. raw[c] = "starting"
    BY <1>a4 DEF RawFails
  <2>4. OwnForward(c)
    BY <1>1, <1>2, <1>3, <2>0, <2>1, <2>9 DEF OwnForward, Early, Begun, Running, Place, Result, Terminals
  <2>5. Place(c)'
    <3>1. /\ pc'[c] \in Early \cup {"owner", "stage", "submit"} => raw'[c] = "none"
          /\ (pc'[c] = "submitted") = (raw'[c] = "starting")
          /\ pc'[c] \in {"accept", "acceptTask", "acceptNotify"} => raw'[c] \in Begun
          /\ pc'[c] \in {"release", "releaseNotify"} => raw'[c] \in {"none", "uncertain"} /\ obs'[c] \in Errors
      BY <1>1, <2>0, <2>1, <2>9 DEF Place, Early, Begun, Running, Errors
    <3>2. (pc'[c] \in Owning) = (requests'[IdOf[c]] = Pending(c))
      BY <1>1, <1>2, <2>0, <2>1, <2>9 DEF Place, Early, Owning, Begun, Running
    <3>5. requests'[IdOf[c]] = Accepted(c) => raw'[c] \in Begun /\ pc'[c] \notin Early
      BY <1>1, <1>2, <2>0, <2>1, <2>9 DEF Place, Early, Owning, Begun, Running
    <3>3. /\ raw'[c] \in Running =>
               \/ pc'[c] = "accept"
               \/ requests'[IdOf[c]] = Accepted(c) /\ (c \in tasks' \/ pc'[c] = "acceptTask")
          /\ c \in tasks' => raw'[c] \in Begun /\ pc'[c] \notin Early \cup Owning
      BY <1>1, <1>2, <2>0, <2>1, <2>9 DEF Place, Early, Owning, Begun, Running
    <3>4. (raw'[c] \in Holding) = (rawIds'[IdOf[c]] = c)
      <4>1. raw[c] \in Holding
        BY <2>9 DEF Holding
      <4>2. (raw[c] \in Holding) = (rawIds[IdOf[c]] = c)
        BY <1>1, <1>3 DEF Place
      <4>3. CASE raw'[c] = "none" /\ rawIds'[IdOf[c]] = None
        <5>1. ~ (raw'[c] \in Holding)
          BY <4>3 DEF Holding, Running
        <5>2. ~ (rawIds'[IdOf[c]] = c)
          BY <4>3, CallsAssumption
        <5> QED BY SMTT(60), <5>1, <5>2
      <4>4. CASE raw'[c] = "uncertain" /\ rawIds'[IdOf[c]] = rawIds[IdOf[c]]
        <5>1. raw'[c] \in Holding
          BY <4>4 DEF Holding
        <5>2. rawIds[IdOf[c]] = c
          BY <4>1, <4>2
        <5> QED BY <4>4, <5>1, <5>2
      <4> QED BY <2>0, <4>3, <4>4
    <3> QED BY <3>1, <3>2, <3>3, <3>4, <3>5 DEF Place
  <2>6. QuietHolds(c)
    BY <1>1, <1>2, <2>1, <1>a4, OwnValues DEF RawFails, QuietHolds, Holds, Place, Errors, Owning, Early
  <2>7. Result(c)'
    BY <1>1, <1>2, <1>3, <2>0, <2>9 DEF Result, Terminals, Place
  <2> QED BY <2>2, <2>3, <2>4, <2>5, <2>6, <2>7, OwnerStepKeeps
<1>a5. CASE NeverRan(c)
  <2>1. /\ pc' \in [Calls -> Early \cup Owning \cup Late]
        /\ \A d \in Calls : d # c => pc'[d] = pc[d] \/ (pc[d] = "waiting" /\ pc'[d] = "reserve")
        /\ pc'[c] = "accept"
    <3>1. "accept" \in Early \cup Owning \cup Late
      BY SMTT(60) DEF Owning, Late
    <3>2. pc' = [pc EXCEPT ![c] = "accept"] \/ NotifyWaiters(c, "accept")
      BY <1>2, <1>a5 DEF NeverRan
    <3> QED BY <1>1, <3>1, <3>2, OwnMove
  <2>0. /\ raw'[c] = "finished" /\ terminal'[c] = "processFailed" /\ ended'[c] = "other"
        /\ requests'[IdOf[c]] = requests[IdOf[c]] /\ rawIds'[IdOf[c]] = rawIds[IdOf[c]]
        /\ tasks' = tasks /\ obs'[c] = "finished"
    BY <1>2, <1>4, <1>5, <1>6, <2>1, <1>a5 DEF NeverRan, Terminal
  <2>2. Local(c)
    <3>1. /\ UNCHANGED todo
          /\ on' = [on EXCEPT ![c] = on'[c]] /\ on'[c] \in Calls \cup {None}
          /\ obs' = [obs EXCEPT ![c] = obs'[c]] /\ obs'[c] \in Errors \cup {None, "running", "finished"}
      BY <1>1, <1>2, <1>a5, OwnValues DEF NeverRan, Errors
    <3>2. answer' = [answer EXCEPT ![c] = answer'[c]] /\ answer'[c] \in Answers \cup {None}
      BY <1>1, <1>2, <1>a5, OwnValues, AnswerTypes DEF NeverRan, Place
    <3>3. raw' = [raw EXCEPT ![c] = raw'[c]] /\ raw'[c] \in RawStates
      BY <1>1, <1>2, <2>0, <1>a5, OwnEntries DEF NeverRan, RawStates
    <3>4. /\ terminal' = [terminal EXCEPT ![c] = terminal'[c]] /\ terminal'[c] \in Terminals \cup {None}
          /\ ended' = [ended EXCEPT ![c] = ended'[c]] /\ ended'[c] \in {"zero", "other", None}
      BY <1>1, <1>2, <2>0, <1>a5, OwnEntries DEF NeverRan, Terminals
    <3> QED BY <2>1, <3>1, <3>2, <3>3, <3>4 DEF Local
  <2>3. Shared(c)
    BY <1>1, <1>2, <1>3, <1>a5, OwnEntries DEF NeverRan, Shared, Place, Owning, Holding, Running
  <2>9. raw[c] = "starting"
    BY <1>a5 DEF NeverRan
  <2>4. OwnForward(c)
    BY <1>1, <1>2, <1>3, <2>0, <2>1, <2>9 DEF OwnForward, Early, Begun, Running, Place, Result, Terminals
  <2>5. Place(c)'
    <3>1. /\ pc'[c] \in Early \cup {"owner", "stage", "submit"} => raw'[c] = "none"
          /\ (pc'[c] = "submitted") = (raw'[c] = "starting")
          /\ pc'[c] \in {"accept", "acceptTask", "acceptNotify"} => raw'[c] \in Begun
          /\ pc'[c] \in {"release", "releaseNotify"} => raw'[c] \in {"none", "uncertain"} /\ obs'[c] \in Errors
      BY <1>1, <2>0, <2>1, <2>9 DEF Place, Early, Begun, Running, Errors
    <3>2. (pc'[c] \in Owning) = (requests'[IdOf[c]] = Pending(c))
      BY <1>1, <1>2, <2>0, <2>1, <2>9 DEF Place, Early, Owning, Begun, Running
    <3>5. requests'[IdOf[c]] = Accepted(c) => raw'[c] \in Begun /\ pc'[c] \notin Early
      BY <1>1, <1>2, <2>0, <2>1, <2>9 DEF Place, Early, Owning, Begun, Running
    <3>3. /\ raw'[c] \in Running =>
               \/ pc'[c] = "accept"
               \/ requests'[IdOf[c]] = Accepted(c) /\ (c \in tasks' \/ pc'[c] = "acceptTask")
          /\ c \in tasks' => raw'[c] \in Begun /\ pc'[c] \notin Early \cup Owning
      BY <1>1, <1>2, <2>0, <2>1, <2>9 DEF Place, Early, Owning, Begun, Running
    <3>4. (raw'[c] \in Holding) = (rawIds'[IdOf[c]] = c)
      BY <1>1, <1>3, <2>0, <2>1, <2>9 DEF Place, Holding, Running, Early
    <3> QED BY <3>1, <3>2, <3>3, <3>4, <3>5 DEF Place
  <2>6. QuietHolds(c)
    BY <1>1, <1>2, <2>1, <1>a5, OwnValues DEF NeverRan, QuietHolds, Holds, Place, Errors, Owning, Early
  <2>7. Result(c)'
    BY <1>1, <1>2, <1>3, <2>0, <2>9 DEF Result, Terminals, Place
  <2> QED BY <2>2, <2>3, <2>4, <2>5, <2>6, <2>7, OwnerStepKeeps
<1>a6. CASE accept(c)
  <2>1. /\ pc' \in [Calls -> Early \cup Owning \cup Late]
        /\ \A d \in Calls : d # c => pc'[d] = pc[d] \/ (pc[d] = "waiting" /\ pc'[d] = "reserve")
        /\ pc'[c] = "acceptTask"
    <3>1. "acceptTask" \in Early \cup Owning \cup Late
      BY DEF Owning, Late
    <3>2. pc' = [pc EXCEPT ![c] = "acceptTask"] \/ NotifyWaiters(c, "acceptTask")
      BY <1>2, <1>a6 DEF accept
    <3> QED BY <1>1, <3>1, <3>2, OwnMove
  <2>0. /\ raw'[c] = raw[c] /\ terminal'[c] = terminal[c] /\ ended'[c] = ended[c]
        /\ requests'[IdOf[c]] = Accepted(c) /\ rawIds'[IdOf[c]] = rawIds[IdOf[c]]
        /\ tasks' = tasks /\ obs'[c] = obs[c]
    BY <1>2, <1>4, <1>5, <1>6, <2>1, <1>a6 DEF accept
  <2>2. Local(c)
    <3>1. /\ UNCHANGED todo
          /\ on' = [on EXCEPT ![c] = on'[c]] /\ on'[c] \in Calls \cup {None}
          /\ obs' = [obs EXCEPT ![c] = obs'[c]] /\ obs'[c] \in Errors \cup {None, "running", "finished"}
      BY <1>1, <1>2, <1>a6, OwnValues DEF accept, Errors
    <3>2. answer' = [answer EXCEPT ![c] = answer'[c]] /\ answer'[c] \in Answers \cup {None}
      BY <1>1, <1>2, <1>a6, OwnValues, AnswerTypes DEF accept, Place
    <3>3. raw' = [raw EXCEPT ![c] = raw'[c]] /\ raw'[c] \in RawStates
      BY <1>1, <1>2, <2>0, <1>a6, OwnEntries DEF accept, RawStates
    <3>4. /\ terminal' = [terminal EXCEPT ![c] = terminal'[c]] /\ terminal'[c] \in Terminals \cup {None}
          /\ ended' = [ended EXCEPT ![c] = ended'[c]] /\ ended'[c] \in {"zero", "other", None}
      BY <1>1, <1>2, <2>0, <1>a6, OwnEntries DEF accept, Terminals
    <3> QED BY <2>1, <3>1, <3>2, <3>3, <3>4 DEF Local
  <2>3. Shared(c)
    BY <1>1, <1>2, <1>3, <1>a6, OwnEntries DEF accept, Shared, Place, Owning, Holding, Running
  <2>9. pc[c] = "accept"
    BY <1>a6 DEF accept
  <2>4. OwnForward(c)
    BY <1>1, <1>2, <1>3, <2>0, <2>1, <2>9 DEF OwnForward, Early, Begun, Running, Place, Result, Terminals
  <2>5. Place(c)'
    <3>1. /\ pc'[c] \in Early \cup {"owner", "stage", "submit"} => raw'[c] = "none"
          /\ (pc'[c] = "submitted") = (raw'[c] = "starting")
          /\ pc'[c] \in {"accept", "acceptTask", "acceptNotify"} => raw'[c] \in Begun
          /\ pc'[c] \in {"release", "releaseNotify"} => raw'[c] \in {"none", "uncertain"} /\ obs'[c] \in Errors
      BY <1>1, <2>0, <2>1, <2>9 DEF Place, Early, Begun, Running, Errors
    <3>2. (pc'[c] \in Owning) = (requests'[IdOf[c]] = Pending(c))
      <4>1. pc'[c] \notin Owning
        BY <2>1 DEF Owning
      <4>2. requests'[IdOf[c]] # Pending(c)
        BY <1>1, <1>2, <2>0, <2>9 DEF Place, Owning
      <4> QED BY SMTT(60), <4>1, <4>2
    <3>5. requests'[IdOf[c]] = Accepted(c) => raw'[c] \in Begun /\ pc'[c] \notin Early
      BY <1>1, <1>2, <2>0, <2>1, <2>9 DEF Place, Early, Owning, Begun, Running
    <3>3. /\ raw'[c] \in Running =>
               \/ pc'[c] = "accept"
               \/ requests'[IdOf[c]] = Accepted(c) /\ (c \in tasks' \/ pc'[c] = "acceptTask")
          /\ c \in tasks' => raw'[c] \in Begun /\ pc'[c] \notin Early \cup Owning
      BY <1>1, <1>2, <2>0, <2>1, <2>9 DEF Place, Early, Owning, Begun, Running
    <3>4. (raw'[c] \in Holding) = (rawIds'[IdOf[c]] = c)
      BY <1>1, <1>3, <2>0, <2>1, <2>9 DEF Place, Holding, Running, Early
    <3> QED BY <3>1, <3>2, <3>3, <3>4, <3>5 DEF Place
  <2>6. QuietHolds(c)
    BY <1>1, <1>2, <2>1, <1>a6, OwnValues DEF accept, QuietHolds, Holds, Place, Errors, Owning, Early
  <2>7. Result(c)'
    BY <1>1, <1>2, <1>3, <2>0, <2>9 DEF Result, Terminals, Place
  <2> QED BY <2>2, <2>3, <2>4, <2>5, <2>6, <2>7, OwnerStepKeeps
<1>a7. CASE AcceptTask(c)
  <2>1. /\ pc' \in [Calls -> Early \cup Owning \cup Late]
        /\ \A d \in Calls : d # c => pc'[d] = pc[d] \/ (pc[d] = "waiting" /\ pc'[d] = "reserve")
        /\ pc'[c] = "acceptNotify"
    <3>1. "acceptNotify" \in Early \cup Owning \cup Late
      BY DEF Owning, Late
    <3>2. pc' = [pc EXCEPT ![c] = "acceptNotify"] \/ NotifyWaiters(c, "acceptNotify")
      BY <1>2, <1>a7 DEF AcceptTask
    <3> QED BY <1>1, <3>1, <3>2, OwnMove
  <2>0. /\ raw'[c] = raw[c] /\ terminal'[c] = terminal[c] /\ ended'[c] = ended[c]
        /\ requests'[IdOf[c]] = requests[IdOf[c]] /\ rawIds'[IdOf[c]] = rawIds[IdOf[c]]
        /\ tasks' = tasks \cup {c} /\ obs'[c] = obs[c]
    BY <1>2, <1>4, <1>5, <1>6, <2>1, <1>a7 DEF AcceptTask
  <2>2. Local(c)
    <3>1. /\ UNCHANGED todo
          /\ on' = [on EXCEPT ![c] = on'[c]] /\ on'[c] \in Calls \cup {None}
          /\ obs' = [obs EXCEPT ![c] = obs'[c]] /\ obs'[c] \in Errors \cup {None, "running", "finished"}
      BY <1>1, <1>2, <1>a7, OwnValues DEF AcceptTask, Errors
    <3>2. answer' = [answer EXCEPT ![c] = answer'[c]] /\ answer'[c] \in Answers \cup {None}
      BY <1>1, <1>2, <1>a7, OwnValues, AnswerTypes DEF AcceptTask, Place
    <3>3. raw' = [raw EXCEPT ![c] = raw'[c]] /\ raw'[c] \in RawStates
      BY <1>1, <1>2, <2>0, <1>a7, OwnEntries DEF AcceptTask, RawStates
    <3>4. /\ terminal' = [terminal EXCEPT ![c] = terminal'[c]] /\ terminal'[c] \in Terminals \cup {None}
          /\ ended' = [ended EXCEPT ![c] = ended'[c]] /\ ended'[c] \in {"zero", "other", None}
      BY <1>1, <1>2, <2>0, <1>a7, OwnEntries DEF AcceptTask, Terminals
    <3> QED BY <2>1, <3>1, <3>2, <3>3, <3>4 DEF Local
  <2>3. Shared(c)
    BY <1>1, <1>2, <1>3, <1>a7, OwnEntries DEF AcceptTask, Shared, Place, Owning, Holding, Running
  <2>9. pc[c] = "acceptTask"
    BY <1>a7 DEF AcceptTask
  <2>4. OwnForward(c)
    BY <1>1, <1>2, <1>3, <2>0, <2>1, <2>9 DEF OwnForward, Early, Begun, Running, Place, Result, Terminals
  <2>5. Place(c)'
    <3>1. /\ pc'[c] \in Early \cup {"owner", "stage", "submit"} => raw'[c] = "none"
          /\ (pc'[c] = "submitted") = (raw'[c] = "starting")
          /\ pc'[c] \in {"accept", "acceptTask", "acceptNotify"} => raw'[c] \in Begun
          /\ pc'[c] \in {"release", "releaseNotify"} => raw'[c] \in {"none", "uncertain"} /\ obs'[c] \in Errors
      BY <1>1, <2>0, <2>1, <2>9 DEF Place, Early, Begun, Running, Errors
    <3>2. (pc'[c] \in Owning) = (requests'[IdOf[c]] = Pending(c))
      <4>1. pc'[c] \notin Owning
        BY <2>1 DEF Owning
      <4>2. requests'[IdOf[c]] # Pending(c)
        BY <1>1, <1>2, <2>0, <2>9 DEF Place, Owning
      <4> QED BY SMTT(60), <4>1, <4>2
    <3>5. requests'[IdOf[c]] = Accepted(c) => raw'[c] \in Begun /\ pc'[c] \notin Early
      BY <1>1, <1>2, <2>0, <2>1, <2>9 DEF Place, Early, Owning, Begun, Running
    <3>3. /\ raw'[c] \in Running =>
               \/ pc'[c] = "accept"
               \/ requests'[IdOf[c]] = Accepted(c) /\ (c \in tasks' \/ pc'[c] = "acceptTask")
          /\ c \in tasks' => raw'[c] \in Begun /\ pc'[c] \notin Early \cup Owning
      BY <1>1, <1>2, <2>0, <2>1, <2>9 DEF Place, Early, Owning, Begun, Running
    <3>4. (raw'[c] \in Holding) = (rawIds'[IdOf[c]] = c)
      BY <1>1, <1>3, <2>0, <2>1, <2>9 DEF Place, Holding, Running, Early
    <3> QED BY <3>1, <3>2, <3>3, <3>4, <3>5 DEF Place
  <2>6. QuietHolds(c)
    BY <1>1, <1>2, <2>1, <1>a7, OwnValues DEF AcceptTask, QuietHolds, Holds, Place, Errors, Owning, Early
  <2>7. Result(c)'
    BY <1>1, <1>2, <1>3, <2>0, <2>9 DEF Result, Terminals, Place
  <2> QED BY <2>2, <2>3, <2>4, <2>5, <2>6, <2>7, OwnerStepKeeps
<1>a8. CASE AcceptNotify(c)
  <2>1. /\ pc' \in [Calls -> Early \cup Owning \cup Late]
        /\ \A d \in Calls : d # c => pc'[d] = pc[d] \/ (pc[d] = "waiting" /\ pc'[d] = "reserve")
        /\ pc'[c] \in {"done", "terminal"}
        /\ pc'[c] = "done" => answer' = [answer EXCEPT ![c] = <<"task", c>>] /\ UNCHANGED on
        /\ pc'[c] = "terminal" => on' = [on EXCEPT ![c] = c] /\ UNCHANGED answer
    <3>1. "done" \in Early \cup Owning \cup Late /\ "terminal" \in Early \cup Owning \cup Late
      BY DEF Late
    <3>2. CASE NotifyWaiters(c, "done") /\ answer' = [answer EXCEPT ![c] = <<"task", c>>] /\ UNCHANGED on
      <4>1. /\ pc' \in [Calls -> Early \cup Owning \cup Late]
            /\ \A d \in Calls : d # c => pc'[d] = pc[d] \/ (pc[d] = "waiting" /\ pc'[d] = "reserve")
            /\ pc'[c] = "done"
        BY <1>1, <3>1, <3>2, OwnMove
      <4> QED BY <3>2, <4>1
    <3>3. CASE NotifyWaiters(c, "terminal") /\ on' = [on EXCEPT ![c] = c] /\ UNCHANGED answer
      <4>1. /\ pc' \in [Calls -> Early \cup Owning \cup Late]
            /\ \A d \in Calls : d # c => pc'[d] = pc[d] \/ (pc[d] = "waiting" /\ pc'[d] = "reserve")
            /\ pc'[c] = "terminal"
        BY <1>1, <3>1, <3>3, OwnMove
      <4> QED BY <3>3, <4>1
    <3> QED BY <3>2, <3>3, <1>a8 DEF AcceptNotify
  <2>0. /\ raw'[c] = raw[c] /\ terminal'[c] = terminal[c] /\ ended'[c] = ended[c]
        /\ requests'[IdOf[c]] = requests[IdOf[c]] /\ rawIds'[IdOf[c]] = rawIds[IdOf[c]]
        /\ tasks' = tasks /\ obs'[c] = obs[c]
    BY <1>2, <1>4, <1>5, <1>6, <2>1, <1>a8 DEF AcceptNotify
  <2>8. pc[c] = "acceptNotify" /\ todo' = todo
    BY <1>a8 DEF AcceptNotify
  <2>2. Local(c)
    <3>1. /\ UNCHANGED todo
          /\ on' = [on EXCEPT ![c] = on'[c]] /\ on'[c] \in Calls \cup {None}
          /\ obs' = [obs EXCEPT ![c] = obs'[c]] /\ obs'[c] \in Errors \cup {None, "running", "finished"}
      BY <1>1, <1>2, <1>a8, OwnValues DEF AcceptNotify, Errors
    <3>2. answer' = [answer EXCEPT ![c] = answer'[c]] /\ answer'[c] \in Answers \cup {None}
      BY <1>1, <1>2, <1>a8, OwnValues, AnswerTypes DEF AcceptNotify, Place
    <3>3. raw' = [raw EXCEPT ![c] = raw'[c]] /\ raw'[c] \in RawStates
      BY <1>1, <1>2, <2>0, <1>a8, OwnEntries DEF AcceptNotify, RawStates
    <3>4. /\ terminal' = [terminal EXCEPT ![c] = terminal'[c]] /\ terminal'[c] \in Terminals \cup {None}
          /\ ended' = [ended EXCEPT ![c] = ended'[c]] /\ ended'[c] \in {"zero", "other", None}
      BY <1>1, <1>2, <2>0, <1>a8, OwnEntries DEF AcceptNotify, Terminals
    <3> QED BY <2>1, <3>1, <3>2, <3>3, <3>4 DEF Local
  <2>3. Shared(c)
    BY <1>1, <1>2, <1>3, <1>a8, OwnEntries DEF AcceptNotify, Shared, Place, Owning, Holding, Running
  <2>9. pc[c] = "acceptNotify"
    BY <1>a8 DEF AcceptNotify
  <2>4. OwnForward(c)
    BY <1>1, <1>2, <1>3, <2>0, <2>1, <2>9 DEF OwnForward, Early, Begun, Running, Place, Result, Terminals
  <2>5. Place(c)'
    <3>1. /\ pc'[c] \in Early \cup {"owner", "stage", "submit"} => raw'[c] = "none"
          /\ (pc'[c] = "submitted") = (raw'[c] = "starting")
          /\ pc'[c] \in {"accept", "acceptTask", "acceptNotify"} => raw'[c] \in Begun
          /\ pc'[c] \in {"release", "releaseNotify"} => raw'[c] \in {"none", "uncertain"} /\ obs'[c] \in Errors
      BY <1>1, <2>0, <2>1, <2>9 DEF Place, Early, Begun, Running, Errors
    <3>2. (pc'[c] \in Owning) = (requests'[IdOf[c]] = Pending(c))
      <4>1. pc'[c] \notin Owning
        BY <2>1 DEF Owning
      <4>2. requests'[IdOf[c]] # Pending(c)
        BY <1>1, <1>2, <2>0, <2>9 DEF Place, Owning
      <4> QED BY SMTT(60), <4>1, <4>2
    <3>5. requests'[IdOf[c]] = Accepted(c) => raw'[c] \in Begun /\ pc'[c] \notin Early
      BY <1>1, <1>2, <2>0, <2>1, <2>9 DEF Place, Early, Owning, Begun, Running
    <3>3. /\ raw'[c] \in Running =>
               \/ pc'[c] = "accept"
               \/ requests'[IdOf[c]] = Accepted(c) /\ (c \in tasks' \/ pc'[c] = "acceptTask")
          /\ c \in tasks' => raw'[c] \in Begun /\ pc'[c] \notin Early \cup Owning
      BY <1>1, <1>2, <2>0, <2>1, <2>9 DEF Place, Early, Owning, Begun, Running
    <3>4. (raw'[c] \in Holding) = (rawIds'[IdOf[c]] = c)
      BY <1>1, <1>3, <2>0, <2>1, <2>9 DEF Place, Holding, Running, Early
    <3> QED BY <3>1, <3>2, <3>3, <3>4, <3>5 DEF Place
  <2>6. QuietHolds(c)
    <3>1. raw[c] \in Begun /\ pc[c] # "done"
      BY <1>1, <2>8 DEF Place
    <3>2. todo'[c] = todo[c] /\ \A t \in todo[c] : raw[t] \in Begun
      BY <1>1, <2>8 DEF Holds
    <3>3. CASE pc'[c] = "done"
      <4>1. answer'[c] = <<"task", c>>
        BY <1>1, <2>1, <3>3, OwnValues
      <4> QED BY <3>1, <3>2, <3>3, <4>1 DEF QuietHolds
    <3>4. CASE pc'[c] = "terminal"
      <4>1. on'[c] = c /\ answer'[c] = answer[c]
        BY <1>1, <2>1, <3>4, OwnValues
      <4> QED BY <3>1, <3>2, <3>4, <4>1 DEF QuietHolds
    <3> QED BY <2>1, <3>3, <3>4
  <2>7. Result(c)'
    BY <1>1, <1>2, <1>3, <2>0, <2>9 DEF Result, Terminals, Place
  <2> QED BY <2>2, <2>3, <2>4, <2>5, <2>6, <2>7, OwnerStepKeeps
<1>a9. CASE release(c)
  <2>1. /\ pc' \in [Calls -> Early \cup Owning \cup Late]
        /\ \A d \in Calls : d # c => pc'[d] = pc[d] \/ (pc[d] = "waiting" /\ pc'[d] = "reserve")
        /\ pc'[c] = "releaseNotify"
    <3>1. "releaseNotify" \in Early \cup Owning \cup Late
      BY DEF Owning, Late
    <3>2. pc' = [pc EXCEPT ![c] = "releaseNotify"] \/ NotifyWaiters(c, "releaseNotify")
      BY <1>2, <1>a9 DEF release
    <3> QED BY <1>1, <3>1, <3>2, OwnMove
  <2>0. /\ raw'[c] = raw[c] /\ terminal'[c] = terminal[c] /\ ended'[c] = ended[c]
        /\ requests'[IdOf[c]] = Free /\ rawIds'[IdOf[c]] = rawIds[IdOf[c]]
        /\ tasks' = tasks /\ obs'[c] = obs[c]
    BY <1>2, <1>4, <1>5, <1>6, <2>1, <1>a9 DEF release
  <2>2. Local(c)
    <3>1. /\ UNCHANGED todo
          /\ on' = [on EXCEPT ![c] = on'[c]] /\ on'[c] \in Calls \cup {None}
          /\ obs' = [obs EXCEPT ![c] = obs'[c]] /\ obs'[c] \in Errors \cup {None, "running", "finished"}
      BY <1>1, <1>2, <1>a9, OwnValues DEF release, Errors
    <3>2. answer' = [answer EXCEPT ![c] = answer'[c]] /\ answer'[c] \in Answers \cup {None}
      BY <1>1, <1>2, <1>a9, OwnValues, AnswerTypes DEF release, Place
    <3>3. raw' = [raw EXCEPT ![c] = raw'[c]] /\ raw'[c] \in RawStates
      BY <1>1, <1>2, <2>0, <1>a9, OwnEntries DEF release, RawStates
    <3>4. /\ terminal' = [terminal EXCEPT ![c] = terminal'[c]] /\ terminal'[c] \in Terminals \cup {None}
          /\ ended' = [ended EXCEPT ![c] = ended'[c]] /\ ended'[c] \in {"zero", "other", None}
      BY <1>1, <1>2, <2>0, <1>a9, OwnEntries DEF release, Terminals
    <3> QED BY <2>1, <3>1, <3>2, <3>3, <3>4 DEF Local
  <2>3. Shared(c)
    BY <1>1, <1>2, <1>3, <1>a9, OwnEntries DEF release, Shared, Place, Owning, Holding, Running
  <2>9. pc[c] = "release"
    BY <1>a9 DEF release
  <2>4. OwnForward(c)
    BY <1>1, <1>2, <1>3, <2>0, <2>1, <2>9 DEF OwnForward, Early, Begun, Running, Place, Result, Terminals
  <2>5. Place(c)'
    <3>1. /\ pc'[c] \in Early \cup {"owner", "stage", "submit"} => raw'[c] = "none"
          /\ (pc'[c] = "submitted") = (raw'[c] = "starting")
          /\ pc'[c] \in {"accept", "acceptTask", "acceptNotify"} => raw'[c] \in Begun
          /\ pc'[c] \in {"release", "releaseNotify"} => raw'[c] \in {"none", "uncertain"} /\ obs'[c] \in Errors
      BY <1>1, <2>0, <2>1, <2>9 DEF Place, Early, Begun, Running, Errors
    <3>2. (pc'[c] \in Owning) = (requests'[IdOf[c]] = Pending(c))
      <4>1. pc'[c] \notin Owning
        BY <2>1 DEF Owning
      <4>2. requests'[IdOf[c]] # Pending(c)
        BY <1>1, <1>2, <2>0, <2>9 DEF Place, Owning
      <4> QED BY SMTT(60), <4>1, <4>2
    <3>5. requests'[IdOf[c]] = Accepted(c) => raw'[c] \in Begun /\ pc'[c] \notin Early
      BY <1>1, <1>2, <2>0, <2>1, <2>9 DEF Place, Early, Owning, Begun, Running
    <3>3. /\ raw'[c] \in Running =>
               \/ pc'[c] = "accept"
               \/ requests'[IdOf[c]] = Accepted(c) /\ (c \in tasks' \/ pc'[c] = "acceptTask")
          /\ c \in tasks' => raw'[c] \in Begun /\ pc'[c] \notin Early \cup Owning
      BY <1>1, <1>2, <2>0, <2>1, <2>9 DEF Place, Early, Owning, Begun, Running
    <3>4. (raw'[c] \in Holding) = (rawIds'[IdOf[c]] = c)
      BY <1>1, <1>3, <2>0, <2>1, <2>9 DEF Place, Holding, Running, Early
    <3> QED BY <3>1, <3>2, <3>3, <3>4, <3>5 DEF Place
  <2>6. QuietHolds(c)
    BY <1>1, <1>2, <2>1, <1>a9, OwnValues DEF release, QuietHolds, Holds, Place, Errors, Owning, Early
  <2>7. Result(c)'
    BY <1>1, <1>2, <1>3, <2>0, <2>9 DEF Result, Terminals, Place
  <2> QED BY <2>2, <2>3, <2>4, <2>5, <2>6, <2>7, OwnerStepKeeps
<1>a10. CASE ReleaseNotify(c)
  <2>1. /\ pc' \in [Calls -> Early \cup Owning \cup Late]
        /\ \A d \in Calls : d # c => pc'[d] = pc[d] \/ (pc[d] = "waiting" /\ pc'[d] = "reserve")
        /\ pc'[c] = "done"
    <3>1. "done" \in Early \cup Owning \cup Late
      BY DEF Owning, Late
    <3>2. pc' = [pc EXCEPT ![c] = "done"] \/ NotifyWaiters(c, "done")
      BY <1>2, <1>a10 DEF ReleaseNotify
    <3> QED BY <1>1, <3>1, <3>2, OwnMove
  <2>0. /\ raw'[c] = raw[c] /\ terminal'[c] = terminal[c] /\ ended'[c] = ended[c]
        /\ requests'[IdOf[c]] = requests[IdOf[c]] /\ rawIds'[IdOf[c]] = rawIds[IdOf[c]]
        /\ tasks' = tasks /\ obs'[c] = obs[c]
    BY <1>2, <1>4, <1>5, <1>6, <2>1, <1>a10 DEF ReleaseNotify
  <2>2. Local(c)
    <3>1. /\ UNCHANGED todo
          /\ on' = [on EXCEPT ![c] = on'[c]] /\ on'[c] \in Calls \cup {None}
          /\ obs' = [obs EXCEPT ![c] = obs'[c]] /\ obs'[c] \in Errors \cup {None, "running", "finished"}
      BY <1>1, <1>2, <1>a10, OwnValues DEF ReleaseNotify, Errors
    <3>2. answer' = [answer EXCEPT ![c] = answer'[c]] /\ answer'[c] \in Answers \cup {None}
      BY <1>1, <1>2, <1>a10, OwnValues, AnswerTypes DEF ReleaseNotify, Place
    <3>3. raw' = [raw EXCEPT ![c] = raw'[c]] /\ raw'[c] \in RawStates
      BY <1>1, <1>2, <2>0, <1>a10, OwnEntries DEF ReleaseNotify, RawStates
    <3>4. /\ terminal' = [terminal EXCEPT ![c] = terminal'[c]] /\ terminal'[c] \in Terminals \cup {None}
          /\ ended' = [ended EXCEPT ![c] = ended'[c]] /\ ended'[c] \in {"zero", "other", None}
      BY <1>1, <1>2, <2>0, <1>a10, OwnEntries DEF ReleaseNotify, Terminals
    <3> QED BY <2>1, <3>1, <3>2, <3>3, <3>4 DEF Local
  <2>3. Shared(c)
    BY <1>1, <1>2, <1>3, <1>a10, OwnEntries DEF ReleaseNotify, Shared, Place, Owning, Holding, Running
  <2>9. pc[c] = "releaseNotify"
    BY <1>a10 DEF ReleaseNotify
  <2>4. OwnForward(c)
    BY <1>1, <1>2, <1>3, <2>0, <2>1, <2>9 DEF OwnForward, Early, Begun, Running, Place, Result, Terminals
  <2>5. Place(c)'
    <3>1. /\ pc'[c] \in Early \cup {"owner", "stage", "submit"} => raw'[c] = "none"
          /\ (pc'[c] = "submitted") = (raw'[c] = "starting")
          /\ pc'[c] \in {"accept", "acceptTask", "acceptNotify"} => raw'[c] \in Begun
          /\ pc'[c] \in {"release", "releaseNotify"} => raw'[c] \in {"none", "uncertain"} /\ obs'[c] \in Errors
      BY <1>1, <2>0, <2>1, <2>9 DEF Place, Early, Begun, Running, Errors
    <3>2. (pc'[c] \in Owning) = (requests'[IdOf[c]] = Pending(c))
      <4>1. pc'[c] \notin Owning
        BY <2>1 DEF Owning
      <4>2. requests'[IdOf[c]] # Pending(c)
        <5>1. (pc[c] \in Owning) = (requests[IdOf[c]] = Pending(c))
          BY <1>1 DEF Place
        <5>2. pc[c] \notin Owning
          BY <2>9 DEF Owning
        <5> QED BY <5>1, <5>2, <2>0
      <4> QED BY SMTT(60), <4>1, <4>2
    <3>5. requests'[IdOf[c]] = Accepted(c) => raw'[c] \in Begun /\ pc'[c] \notin Early
      BY <1>1, <1>2, <2>0, <2>1, <2>9 DEF Place, Early, Owning, Begun, Running
    <3>3. /\ raw'[c] \in Running =>
               \/ pc'[c] = "accept"
               \/ requests'[IdOf[c]] = Accepted(c) /\ (c \in tasks' \/ pc'[c] = "acceptTask")
          /\ c \in tasks' => raw'[c] \in Begun /\ pc'[c] \notin Early \cup Owning
      BY <1>1, <1>2, <2>0, <2>1, <2>9 DEF Place, Early, Owning, Begun, Running
    <3>4. (raw'[c] \in Holding) = (rawIds'[IdOf[c]] = c)
      BY <1>1, <1>3, <2>0, <2>1, <2>9 DEF Place, Holding, Running, Early
    <3> QED BY <3>1, <3>2, <3>3, <3>4, <3>5 DEF Place
  <2>6. QuietHolds(c)
    BY <1>1, <1>2, <2>1, <1>a10, OwnValues DEF ReleaseNotify, QuietHolds, Holds, Place, Errors, Owning, Early
  <2>7. Result(c)'
    BY <1>1, <1>2, <1>3, <2>0, <2>9 DEF Result, Terminals, Place
  <2> QED BY <2>2, <2>3, <2>4, <2>5, <2>6, <2>7, OwnerStepKeeps
<1>a11. CASE finalize(c)
  <2>1. /\ pc' \in [Calls -> Early \cup Owning \cup Late] /\ pc' = pc
        /\ \A d \in Calls : d # c => pc'[d] = pc[d] \/ (pc[d] = "waiting" /\ pc'[d] = "reserve")
    BY <1>1, <1>a11 DEF Shape, finalize
  <2>0. /\ ended'[c] \in {"zero", "other"}
        /\ \/ /\ raw'[c] = "finalized" /\ terminal'[c] \in Terminals
              /\ terminal'[c] = "succeeded" => ended'[c] = "zero"
           \/ raw'[c] = "stuck" /\ terminal'[c] = terminal[c]
        /\ requests'[IdOf[c]] = requests[IdOf[c]] /\ rawIds'[IdOf[c]] = rawIds[IdOf[c]]
        /\ tasks' = tasks /\ obs'[c] = obs[c]
    BY <1>2, <1>4, <1>5, <1>6, <2>1, <1>a11 DEF finalize, Terminal, Terminals
  <2>8. on'[c] = on[c] /\ todo'[c] = todo[c] /\ obs'[c] = obs[c] /\ answer'[c] = answer[c]
    BY <1>a11 DEF finalize
  <2>2. Local(c)
    <3>1. /\ UNCHANGED todo
          /\ on' = [on EXCEPT ![c] = on'[c]] /\ on'[c] \in Calls \cup {None}
          /\ obs' = [obs EXCEPT ![c] = obs'[c]] /\ obs'[c] \in Errors \cup {None, "running", "finished"}
      BY <1>1, <1>2, <1>a11, OwnValues DEF finalize, Errors
    <3>2. answer' = [answer EXCEPT ![c] = answer'[c]] /\ answer'[c] \in Answers \cup {None}
      BY <1>1, <1>2, <1>a11, OwnValues, AnswerTypes DEF finalize, Place
    <3>3. raw' = [raw EXCEPT ![c] = raw'[c]] /\ raw'[c] \in RawStates
      BY <1>1, <1>2, <2>0, <1>a11, OwnEntries DEF finalize, RawStates
    <3>4. /\ terminal' = [terminal EXCEPT ![c] = terminal'[c]] /\ terminal'[c] \in Terminals \cup {None}
          /\ ended' = [ended EXCEPT ![c] = ended'[c]] /\ ended'[c] \in {"zero", "other", None}
      BY <1>1, <1>2, <2>0, <1>a11, OwnEntries DEF finalize, Terminals
    <3> QED BY <2>1, <3>1, <3>2, <3>3, <3>4 DEF Local
  <2>3. Shared(c)
    BY <1>1, <1>2, <1>3, <1>a11, OwnEntries DEF finalize, Shared, Place, Owning, Holding, Running
  <2>9. raw[c] = "running"
    BY <1>a11 DEF finalize
  <2>4. OwnForward(c)
    BY <1>1, <1>2, <1>3, <2>0, <2>1, <2>9 DEF OwnForward, Early, Begun, Running, Place, Result, Terminals
  <2>5. Place(c)'
    <3>1. /\ pc'[c] \in Early \cup {"owner", "stage", "submit"} => raw'[c] = "none"
          /\ (pc'[c] = "submitted") = (raw'[c] = "starting")
          /\ pc'[c] \in {"accept", "acceptTask", "acceptNotify"} => raw'[c] \in Begun
          /\ pc'[c] \in {"release", "releaseNotify"} => raw'[c] \in {"none", "uncertain"} /\ obs'[c] \in Errors
      BY <1>1, <2>0, <2>1, <2>9 DEF Place, Early, Begun, Running, Errors
    <3>2. (pc'[c] \in Owning) = (requests'[IdOf[c]] = Pending(c))
      BY <1>1, <1>2, <2>0, <2>1, <2>9 DEF Place, Early, Owning, Begun, Running
    <3>5. requests'[IdOf[c]] = Accepted(c) => raw'[c] \in Begun /\ pc'[c] \notin Early
      BY <1>1, <1>2, <2>0, <2>1, <2>9 DEF Place, Early, Owning, Begun, Running
    <3>3. /\ raw'[c] \in Running =>
               \/ pc'[c] = "accept"
               \/ requests'[IdOf[c]] = Accepted(c) /\ (c \in tasks' \/ pc'[c] = "acceptTask")
          /\ c \in tasks' => raw'[c] \in Begun /\ pc'[c] \notin Early \cup Owning
      BY <1>1, <1>2, <2>0, <2>1, <2>9 DEF Place, Early, Owning, Begun, Running
    <3>4. (raw'[c] \in Holding) = (rawIds'[IdOf[c]] = c)
      BY <1>1, <1>3, <2>0, <2>1, <2>9 DEF Place, Holding, Running, Early
    <3> QED BY <3>1, <3>2, <3>3, <3>4, <3>5 DEF Place
  <2>6. QuietHolds(c)
    BY <1>1, <2>1, <2>8, HoldsStill
  <2>7. Result(c)'
    BY <1>1, <1>2, <1>3, <2>0, <2>9 DEF Result, Terminals, Place
  <2> QED BY <2>2, <2>3, <2>4, <2>5, <2>6, <2>7, OwnerStepKeeps
<1>a12. CASE StoreFinished(c)
  <2>1. /\ pc' \in [Calls -> Early \cup Owning \cup Late] /\ pc' = pc
        /\ \A d \in Calls : d # c => pc'[d] = pc[d] \/ (pc[d] = "waiting" /\ pc'[d] = "reserve")
    BY <1>1, <1>a12 DEF Shape, StoreFinished
  <2>0. /\ raw'[c] = "finished" /\ terminal'[c] = terminal[c] /\ ended'[c] = ended[c]
        /\ requests'[IdOf[c]] = requests[IdOf[c]] /\ rawIds'[IdOf[c]] = rawIds[IdOf[c]]
        /\ tasks' = tasks /\ obs'[c] = obs[c]
    BY <1>2, <1>4, <1>5, <1>6, <2>1, <1>a12 DEF StoreFinished
  <2>8. on'[c] = on[c] /\ todo'[c] = todo[c] /\ obs'[c] = obs[c] /\ answer'[c] = answer[c]
    BY <1>a12 DEF StoreFinished
  <2>2. Local(c)
    <3>1. /\ UNCHANGED todo
          /\ on' = [on EXCEPT ![c] = on'[c]] /\ on'[c] \in Calls \cup {None}
          /\ obs' = [obs EXCEPT ![c] = obs'[c]] /\ obs'[c] \in Errors \cup {None, "running", "finished"}
      BY <1>1, <1>2, <1>a12, OwnValues DEF StoreFinished, Errors
    <3>2. answer' = [answer EXCEPT ![c] = answer'[c]] /\ answer'[c] \in Answers \cup {None}
      BY <1>1, <1>2, <1>a12, OwnValues, AnswerTypes DEF StoreFinished, Place
    <3>3. raw' = [raw EXCEPT ![c] = raw'[c]] /\ raw'[c] \in RawStates
      BY <1>1, <1>2, <2>0, <1>a12, OwnEntries DEF StoreFinished, RawStates
    <3>4. /\ terminal' = [terminal EXCEPT ![c] = terminal'[c]] /\ terminal'[c] \in Terminals \cup {None}
          /\ ended' = [ended EXCEPT ![c] = ended'[c]] /\ ended'[c] \in {"zero", "other", None}
      BY <1>1, <1>2, <2>0, <1>a12, OwnEntries DEF StoreFinished, Terminals
    <3> QED BY <2>1, <3>1, <3>2, <3>3, <3>4 DEF Local
  <2>3. Shared(c)
    BY <1>1, <1>2, <1>3, <1>a12, OwnEntries DEF StoreFinished, Shared, Place, Owning, Holding, Running
  <2>9. raw[c] = "finalized"
    BY <1>a12 DEF StoreFinished
  <2>4. OwnForward(c)
    BY <1>1, <1>2, <1>3, <2>0, <2>1, <2>9 DEF OwnForward, Early, Begun, Running, Place, Result, Terminals
  <2>5. Place(c)'
    <3>1. /\ pc'[c] \in Early \cup {"owner", "stage", "submit"} => raw'[c] = "none"
          /\ (pc'[c] = "submitted") = (raw'[c] = "starting")
          /\ pc'[c] \in {"accept", "acceptTask", "acceptNotify"} => raw'[c] \in Begun
          /\ pc'[c] \in {"release", "releaseNotify"} => raw'[c] \in {"none", "uncertain"} /\ obs'[c] \in Errors
      BY <1>1, <2>0, <2>1, <2>9 DEF Place, Early, Begun, Running, Errors
    <3>2. (pc'[c] \in Owning) = (requests'[IdOf[c]] = Pending(c))
      BY <1>1, <1>2, <2>0, <2>1, <2>9 DEF Place, Early, Owning, Begun, Running
    <3>5. requests'[IdOf[c]] = Accepted(c) => raw'[c] \in Begun /\ pc'[c] \notin Early
      BY <1>1, <1>2, <2>0, <2>1, <2>9 DEF Place, Early, Owning, Begun, Running
    <3>3. /\ raw'[c] \in Running =>
               \/ pc'[c] = "accept"
               \/ requests'[IdOf[c]] = Accepted(c) /\ (c \in tasks' \/ pc'[c] = "acceptTask")
          /\ c \in tasks' => raw'[c] \in Begun /\ pc'[c] \notin Early \cup Owning
      BY <1>1, <1>2, <2>0, <2>1, <2>9 DEF Place, Early, Owning, Begun, Running
    <3>4. (raw'[c] \in Holding) = (rawIds'[IdOf[c]] = c)
      BY <1>1, <1>3, <2>0, <2>1, <2>9 DEF Place, Holding, Running, Early
    <3> QED BY <3>1, <3>2, <3>3, <3>4, <3>5 DEF Place
  <2>6. QuietHolds(c)
    BY <1>1, <2>1, <2>8, HoldsStill
  <2>7. Result(c)'
    BY <1>1, <1>2, <1>3, <2>0, <2>9 DEF Result, Terminals, Place
  <2> QED BY <2>2, <2>3, <2>4, <2>5, <2>6, <2>7, OwnerStepKeeps
<1>a13. CASE Expire(c)
  <2>1. /\ pc' \in [Calls -> Early \cup Owning \cup Late] /\ pc' = pc
        /\ \A d \in Calls : d # c => pc'[d] = pc[d] \/ (pc[d] = "waiting" /\ pc'[d] = "reserve")
    BY <1>1, <1>a13 DEF Shape, Expire
  <2>0. /\ raw'[c] = "expired" /\ terminal'[c] = terminal[c] /\ ended'[c] = ended[c]
        /\ requests'[IdOf[c]] = requests[IdOf[c]] /\ rawIds'[IdOf[c]] = None
        /\ tasks' = tasks /\ obs'[c] = obs[c]
    BY <1>2, <1>4, <1>5, <1>6, <2>1, <1>a13 DEF Expire
  <2>8. on'[c] = on[c] /\ todo'[c] = todo[c] /\ obs'[c] = obs[c] /\ answer'[c] = answer[c]
    BY <1>a13 DEF Expire
  <2>2. Local(c)
    <3>1. /\ UNCHANGED todo
          /\ on' = [on EXCEPT ![c] = on'[c]] /\ on'[c] \in Calls \cup {None}
          /\ obs' = [obs EXCEPT ![c] = obs'[c]] /\ obs'[c] \in Errors \cup {None, "running", "finished"}
      BY <1>1, <1>2, <1>a13, OwnValues DEF Expire, Errors
    <3>2. answer' = [answer EXCEPT ![c] = answer'[c]] /\ answer'[c] \in Answers \cup {None}
      BY <1>1, <1>2, <1>a13, OwnValues, AnswerTypes DEF Expire, Place
    <3>3. raw' = [raw EXCEPT ![c] = raw'[c]] /\ raw'[c] \in RawStates
      BY <1>1, <1>2, <2>0, <1>a13, OwnEntries DEF Expire, RawStates
    <3>4. /\ terminal' = [terminal EXCEPT ![c] = terminal'[c]] /\ terminal'[c] \in Terminals \cup {None}
          /\ ended' = [ended EXCEPT ![c] = ended'[c]] /\ ended'[c] \in {"zero", "other", None}
      BY <1>1, <1>2, <2>0, <1>a13, OwnEntries DEF Expire, Terminals
    <3> QED BY <2>1, <3>1, <3>2, <3>3, <3>4 DEF Local
  <2>3. Shared(c)
    BY <1>1, <1>2, <1>3, <1>a13, OwnEntries DEF Expire, Shared, Place, Owning, Holding, Running
  <2>9. raw[c] = "finished"
    BY <1>a13 DEF Expire
  <2>4. OwnForward(c)
    BY <1>1, <1>2, <1>3, <2>0, <2>1, <2>9 DEF OwnForward, Early, Begun, Running, Place, Result, Terminals
  <2>5. Place(c)'
    <3>1. /\ pc'[c] \in Early \cup {"owner", "stage", "submit"} => raw'[c] = "none"
          /\ (pc'[c] = "submitted") = (raw'[c] = "starting")
          /\ pc'[c] \in {"accept", "acceptTask", "acceptNotify"} => raw'[c] \in Begun
          /\ pc'[c] \in {"release", "releaseNotify"} => raw'[c] \in {"none", "uncertain"} /\ obs'[c] \in Errors
      BY <1>1, <2>0, <2>1, <2>9 DEF Place, Early, Begun, Running, Errors
    <3>2. (pc'[c] \in Owning) = (requests'[IdOf[c]] = Pending(c))
      BY <1>1, <1>2, <2>0, <2>1, <2>9 DEF Place, Early, Owning, Begun, Running
    <3>5. requests'[IdOf[c]] = Accepted(c) => raw'[c] \in Begun /\ pc'[c] \notin Early
      BY <1>1, <1>2, <2>0, <2>1, <2>9 DEF Place, Early, Owning, Begun, Running
    <3>3. /\ raw'[c] \in Running =>
               \/ pc'[c] = "accept"
               \/ requests'[IdOf[c]] = Accepted(c) /\ (c \in tasks' \/ pc'[c] = "acceptTask")
          /\ c \in tasks' => raw'[c] \in Begun /\ pc'[c] \notin Early \cup Owning
      BY <1>1, <1>2, <2>0, <2>1, <2>9 DEF Place, Early, Owning, Begun, Running
    <3>4. (raw'[c] \in Holding) = (rawIds'[IdOf[c]] = c)
      <4>1. ~ (raw'[c] \in Holding)
        BY <2>0 DEF Holding, Running
      <4>2. ~ (rawIds'[IdOf[c]] = c)
        BY <2>0, CallsAssumption
      <4> QED BY SMTT(60), <4>1, <4>2
    <3> QED BY <3>1, <3>2, <3>3, <3>4, <3>5 DEF Place
  <2>6. QuietHolds(c)
    BY <1>1, <2>1, <2>8, HoldsStill
  <2>7. Result(c)'
    BY <1>1, <1>2, <1>3, <2>0, <2>9 DEF Result, Terminals, Place
  <2> QED BY <2>2, <2>3, <2>4, <2>5, <2>6, <2>7, OwnerStepKeeps
<1> QED BY <1>a1, <1>a2, <1>a3, <1>a4, <1>a5, <1>a6, <1>a7, <1>a8, <1>a9, <1>a10, <1>a11, <1>a12, <1>a13

--------------------------------------------------------------------------------
(* Steps beside the calls *)

\* No call moves: a raw command may take a free clientRequestId, and an expired
\* task may be dropped.
Aside ==
  /\ Drops
  /\ UNCHANGED <<terminal, ended, raw, calls>>
  /\ rawIds' \in [RequestIds -> Calls \cup {None, "raw"}]
  /\ \A r \in RequestIds : rawIds'[r] = rawIds[r] \/ (rawIds[r] = None /\ rawIds'[r] = "raw")
  /\ getPc' \in [Gets -> {"idle", "unknown", "snapshot", "discard", "terminal", "done"}]
  /\ getOn' \in [Gets -> Calls \cup {None}]
  /\ getAnswer' \in [Gets -> Terminals \cup {None, "running", "kindMismatch", "notFound"}]

LEMMA AsideKeeps ==
  ASSUME ProfileInv, Aside,
         \A g \in Gets : \/ Query(g)'
                         \/ getPc'[g] = getPc[g] /\ getOn'[g] = getOn[g] /\ getAnswer'[g] = getAnswer[g]
  PROVE  ProfileInv'
<1>0. Shape
  BY DEF ProfileInv
<1>1. IdOf \in [Calls -> RequestIds] /\ None \notin Calls /\ "raw" \notin Calls /\ None # "raw"
  BY CallsAssumption
<1>2. Forward
  <2>1. \A r \in RequestIds : rawIds[r] = "raw" => rawIds'[r] = "raw"
    BY <1>1 DEF Aside
  <2> QED BY <2>1 DEF Forward, Aside, calls
<1>3. Shape'
  <2>1. \A r \in RequestIds, c \in Calls : rawIds'[r] = c => IdOf[c] = r
    BY SMTT(60), <1>0, <1>1 DEF Aside, Shape
  <2>2. /\ requests' \in [RequestIds -> Entries] /\ tasks' \in SUBSET Calls
        /\ \A r \in RequestIds, c \in Calls :
             requests'[r] \in {Pending(c), Accepted(c)} => requests[r] = requests'[r]
    BY <1>0, DropsFacts DEF Aside
  <2>3. \A r \in RequestIds, c \in Calls : requests'[r] \in {Pending(c), Accepted(c)} => IdOf[c] = r
    BY <1>0, <2>2 DEF Shape
  <2> QED BY <1>0, <2>1, <2>2, <2>3 DEF Shape, Aside, calls
<1>4. ASSUME NEW d \in Calls PROVE Bystander(d)
  <2>0. IdOf[d] \in RequestIds /\ d # None /\ d # "raw"
    BY <1>1
  <2>1. /\ (requests'[IdOf[d]] = Pending(d)) = (requests[IdOf[d]] = Pending(d))
        /\ requests'[IdOf[d]] = Accepted(d) => requests[IdOf[d]] = Accepted(d)
        /\ requests[IdOf[d]] = Accepted(d) /\ raw[d] \in Running => requests'[IdOf[d]] = Accepted(d)
        /\ d \in tasks' => d \in tasks
        /\ d \in tasks /\ raw[d] \in Running => d \in tasks'
    <3>1. Drops
      BY DEF Aside
    <3> QED BY <1>0, <2>0, <3>1, DropsFacts DEF Running
  <2>2. (rawIds'[IdOf[d]] = d) = (rawIds[IdOf[d]] = d)
    BY <2>0 DEF Aside
  <2> QED BY <2>1, <2>2 DEF Bystander, Aside, calls
<1>5. \A d \in Calls : Place(d)' /\ Holds(d)' /\ Result(d)'
  BY <1>0, <1>2, <1>4, BystanderKept DEF ProfileInv
<1>6. \A g \in Gets : Query(g)'
  BY <1>2, QueryKept DEF ProfileInv
<1> QED BY <1>3, <1>5, <1>6 DEF ProfileInv

LEMMA RawSubmitKeeps ==
  ASSUME ProfileInv, NEW r \in RequestIds, RawSubmit(r)
  PROVE  ProfileInv'
<1>0. Shape
  BY DEF ProfileInv
<1>1. rawIds \in [RequestIds -> Calls \cup {None, "raw"}]
  BY <1>0 DEF Shape
<1>2. /\ rawIds' \in [RequestIds -> Calls \cup {None, "raw"}]
      /\ \A i \in RequestIds : rawIds'[i] = rawIds[i] \/ (rawIds[i] = None /\ rawIds'[i] = "raw")
  BY <1>1 DEF RawSubmit
<1>3. UNCHANGED <<requests, tasks, terminal, ended, raw, calls, gets>>
  BY DEF RawSubmit, runtime
<1>4. Aside
  BY <1>0, <1>2, <1>3 DEF Aside, Drops, Shape, gets
<1> QED BY <1>3, <1>4, AsideKeeps DEF gets

LEMMA GetKeeps ==
  ASSUME ProfileInv, NEW g \in Gets, GetStep(g) \/ \E t \in Calls : GetTask(g, t)
  PROVE  ProfileInv'
<1>0. Shape /\ Query(g)
  BY DEF ProfileInv
<1>1. /\ getPc \in [Gets -> {"idle", "unknown", "snapshot", "discard", "terminal", "done"}]
      /\ getOn \in [Gets -> Calls \cup {None}]
      /\ getAnswer \in [Gets -> Terminals \cup {None, "running", "kindMismatch", "notFound"}]
      /\ terminal \in [Calls -> Terminals \cup {None}] /\ raw \in [Calls -> RawStates]
      /\ rawIds \in [RequestIds -> Calls \cup {None, "raw"}]
  BY <1>0 DEF Shape
<1>2. None # "succeeded" /\ None \notin Terminals
  BY CallsAssumption DEF Terminals
<1> USE DEF GetGoto, GetAnswer
<1>3. SUFFICES /\ UNCHANGED <<terminal, core, calls>>
               /\ Drops
               /\ getPc' \in [Gets -> {"idle", "unknown", "snapshot", "discard", "terminal", "done"}]
               /\ getOn' \in [Gets -> Calls \cup {None}]
               /\ getAnswer' \in [Gets -> Terminals \cup {None, "running", "kindMismatch", "notFound"}]
               /\ \A h \in Gets \ {g} :
                    getPc'[h] = getPc[h] /\ getOn'[h] = getOn[h] /\ getAnswer'[h] = getAnswer[h]
               /\ Query(g)'
  <2>1. Aside
    BY <1>1, <1>3 DEF Aside, core
  <2> QED BY <1>3, <2>1, AsideKeeps
<1>4. ASSUME NEW t \in Calls, GetTask(g, t)
      PROVE  /\ UNCHANGED <<terminal, core, calls>>
             /\ Drops
             /\ getPc' \in [Gets -> {"idle", "unknown", "snapshot", "discard", "terminal", "done"}]
             /\ getOn' \in [Gets -> Calls \cup {None}]
             /\ getAnswer' = getAnswer
             /\ \A h \in Gets \ {g} : getPc'[h] = getPc[h] /\ getOn'[h] = getOn[h]
             /\ Query(g)'
  <2>1. raw[t] \in Begun
    <3>1. PICK c \in Calls : answer[c] = <<"task", t>>
      BY <1>4 DEF GetTask
    <3>2. Holds(c)
      BY DEF ProfileInv
    <3> QED BY <3>1, <3>2 DEF Holds
  <2>2. UNCHANGED <<terminal, core, calls>> /\ Drops /\ getAnswer' = getAnswer
    BY <1>4 DEF GetTask, runtime, Drops
  <2>3. /\ getPc[g] = "idle" /\ getOn' = [getOn EXCEPT ![g] = t]
        /\ getPc' = [getPc EXCEPT ![g] = getPc'[g]] /\ getPc'[g] \in {"snapshot", "unknown"}
    BY <1>1, <1>4 DEF GetTask
  <2>4. getAnswer[g] = None
    BY <1>0, <2>3 DEF Query
  <2>5. /\ getPc' \in [Gets -> {"idle", "unknown", "snapshot", "discard", "terminal", "done"}]
        /\ getOn' \in [Gets -> Calls \cup {None}] /\ getOn'[g] = t
        /\ \A h \in Gets \ {g} : getPc'[h] = getPc[h] /\ getOn'[h] = getOn[h]
    BY <1>1, <2>3
  <2>6. raw' = raw
    BY <2>2 DEF core
  <2>7. Query(g)'
    BY <1>2, <2>1, <2>2, <2>3, <2>4, <2>5, <2>6 DEF Query
  <2> QED BY <2>2, <2>5, <2>7
<1>5. ASSUME GetStep(g)
      PROVE  /\ UNCHANGED <<terminal, core, calls, getOn>>
             /\ Drops
             /\ getPc' \in [Gets -> {"idle", "unknown", "snapshot", "discard", "terminal", "done"}]
             /\ getAnswer' \in [Gets -> Terminals \cup {None, "running", "kindMismatch", "notFound"}]
             /\ \A h \in Gets \ {g} : getPc'[h] = getPc[h] /\ getAnswer'[h] = getAnswer[h]
             /\ Query(g)'
  <2>1. getPc[g] \in {"unknown", "snapshot", "discard", "terminal"}
    BY <1>5 DEF GetStep, GetUnknown, GetSnapshot, GetDiscard, GetTerminal
  <2>2. getOn[g] \in Calls /\ raw[getOn[g]] \in Begun /\ getAnswer[g] = None
    BY <1>0, <2>1 DEF Query
  <2>3. UNCHANGED <<terminal, core, calls, getOn>>
    BY <1>5 DEF GetStep, GetUnknown, GetSnapshot, GetDiscard, GetTerminal, runtime
  <2>4. Drops
    <3>1. CASE GetUnknown(g) \/ GetTerminal(g)
      BY <3>1 DEF GetUnknown, GetTerminal, runtime, Drops
    <3>2. CASE GetSnapshot(g)
      BY <2>2, <3>2 DEF GetSnapshot, Exists, Drops, Begun, Running
    <3>3. CASE GetDiscard(g)
      BY <1>0, <2>2, <3>3 DEF GetDiscard, Drops, Query
    <3> QED BY <1>5, <3>1, <3>2, <3>3 DEF GetStep
  <2>5. /\ getPc' = [getPc EXCEPT ![g] = getPc'[g]]
        /\ getAnswer' = [getAnswer EXCEPT ![g] = getAnswer'[g]]
        /\ \/ getPc'[g] = "done" /\ getAnswer'[g] \in {"running", "kindMismatch", "notFound"}
           \/ getPc'[g] = "done" /\ getAnswer'[g] \in Terminals /\ getAnswer'[g] = terminal[getOn[g]]
           \/ getPc'[g] = "terminal" /\ getAnswer'[g] = None
           \/ getPc'[g] = "discard" /\ getAnswer'[g] = None /\ raw[getOn[g]] = "expired"
    <3>1. CASE GetUnknown(g)
      BY <1>1, <3>1 DEF GetUnknown
    <3>2. CASE GetTerminal(g)
      BY <1>1, <2>2, <3>2 DEF GetTerminal
    <3>3. CASE GetSnapshot(g)
      BY <1>1, <2>2, <3>3 DEF GetSnapshot, Exists, Begun, Running
    <3>4. CASE GetDiscard(g)
      BY <1>1, <3>4 DEF GetDiscard
    <3> QED BY <1>5, <3>1, <3>2, <3>3, <3>4 DEF GetStep
  <2>6. /\ getPc' \in [Gets -> {"idle", "unknown", "snapshot", "discard", "terminal", "done"}]
        /\ getAnswer' \in [Gets -> Terminals \cup {None, "running", "kindMismatch", "notFound"}]
        /\ \A h \in Gets \ {g} : getPc'[h] = getPc[h] /\ getAnswer'[h] = getAnswer[h]
    BY SMTT(60), <1>1, <2>5
  <2>7. raw' = raw /\ terminal' = terminal /\ getOn' = getOn
    BY <2>3 DEF core
  <2>8. Query(g)'
    BY <1>2, <2>2, <2>5, <2>7 DEF Query
  <2> QED BY <2>3, <2>4, <2>6, <2>8
<1> QED BY <1>1, <1>4, <1>5

--------------------------------------------------------------------------------
(* The invariant, and what follows from it *)

LEMMA ProfileInit == Init => ProfileInv
<1> SUFFICES ASSUME Init PROVE ProfileInv
  BY SMTT(60)
<1>0. None \notin Calls /\ None # "succeeded" /\ IdOf \in [Calls -> RequestIds] /\ "raw" \notin Calls
      /\ None # "raw"
  BY CallsAssumption
<1>1. Shape
  <2>1. requests \in [RequestIds -> Entries]
    BY DEF Init, Entries
  <2>2. \A r \in RequestIds, c \in Calls : requests[r] \in {Pending(c), Accepted(c)} => IdOf[c] = r
    BY EntryFacts DEF Init
  <2>3. /\ answer \in [Calls -> Answers \cup {None}] /\ todo \in [Calls -> SUBSET Calls]
        /\ obs \in [Calls -> Errors \cup {None, "running", "finished"}]
    BY DEF Init
  <2> QED BY <1>0, <2>1, <2>2, <2>3 DEF Init, Shape, Early, RawStates
<1>2. ASSUME NEW c \in Calls PROVE Place(c) /\ Holds(c) /\ Result(c)
  <2>0. /\ pc[c] = "validate" /\ raw[c] = "none" /\ requests[IdOf[c]] = Free /\ rawIds[IdOf[c]] = None
        /\ tasks = {} /\ todo[c] = {} /\ answer[c] = None /\ terminal[c] = None
    BY <1>0 DEF Init
  <2>1. Place(c)
    BY SMTT(60), <1>0, <2>0, EntryFacts DEF Place, Early, Owning, Running, Holding
  <2>2. Holds(c)
    <3>1. None # Said("conflict") /\ \A t \in Calls : None # <<"task", t>>
      BY AnswerFacts DEF Errors
    <3> QED BY <2>0, <3>1 DEF Holds
  <2>3. Result(c)
    BY <1>0, <2>0 DEF Result
  <2> QED BY <2>1, <2>2, <2>3
<1>3. ASSUME NEW g \in Gets PROVE Query(g)
  BY <1>0 DEF Init, Query
<1> QED BY <1>1, <1>2, <1>3 DEF ProfileInv

LEMMA ProfileNext == ProfileInv /\ [Next]_vars => ProfileInv'
<1> SUFFICES ASSUME ProfileInv, [Next]_vars PROVE ProfileInv'
  BY SMTT(60)
<1>1. ASSUME NEW c \in Calls, Step(c) PROVE ProfileInv'
  <2>1. CASE reserve(c)
    BY <2>1, MeetKeeps, OwnerActionKeeps
  <2>2. CASE Submit(c)
    BY <2>2, RefusalKeeps, OwnerActionKeeps DEF Submit, Goto
  <2> QED BY <1>1, <2>1, <2>2, HandlerKeeps, PruneOneKeeps, RefusalKeeps, OwnerActionKeeps DEF Step
<1>2. ASSUME NEW c \in Calls, Start(c) \/ finalize(c) \/ StoreFinished(c) \/ Expire(c)
      PROVE  ProfileInv'
  BY <1>2, OwnerActionKeeps DEF Start
<1>3. CASE UNCHANGED vars
  <2>1. Aside
    BY <1>3 DEF vars, calls, Aside, Drops, ProfileInv, Shape
  <2> QED BY <1>3, <2>1, AsideKeeps DEF vars
<1> QED BY <1>1, <1>2, <1>3, RawSubmitKeeps, GetKeeps DEF Next

\* What a handler's position, its raw task and its entries in requests, tasks
\* and the raw registry tell about each other holds throughout, for any calls,
\* queries and clientRequestIds.
THEOREM ProfileInvariant == Spec => []ProfileInv
BY PTL, ProfileInit, ProfileNext DEF Spec

\* The maps, the raw index and the answers keep their shapes.
THEOREM ProfileTypeCorrect == Spec => []TypeOK
<1>1. ASSUME ProfileInv PROVE TypeOK
  <2>1. Shape /\ \A c \in Calls : Holds(c)
    BY <1>1 DEF ProfileInv
  <2>2. \A r \in RequestIds : rawIds[r] \in {None, "raw"} \union IdHolders(r)
    BY <2>1 DEF Shape, IdHolders
  <2> QED BY <2>1, <2>2 DEF TypeOK, Shape, Entries, Holds
<1> QED BY PTL, <1>1, ProfileInvariant

\* Two calls of one clientRequestId that were answered with different tasks
\* were answered before and after one of the tasks expired (submitProfile).
THEOREM SubmitIsIdempotent == Spec => []IdempotentSubmit
<1>1. ASSUME ProfileInv PROVE IdempotentSubmit
  <2> SUFFICES ASSUME NEW c \in Calls, NEW d \in Calls, NEW t \in Calls, NEW u \in Calls,
                      IdOf[c] = IdOf[d], answer[c] = <<"task", t>>, answer[d] = <<"task", u>>,
                      raw[t] # "expired", raw[u] # "expired"
               PROVE  t = u
    BY DEF IdempotentSubmit
  <2>1. /\ IdOf[t] = IdOf[c] /\ raw[t] \in Begun
        /\ IdOf[u] = IdOf[d] /\ raw[u] \in Begun
    <3>1. Holds(c) /\ Holds(d)
      BY <1>1 DEF ProfileInv
    <3> QED BY <3>1 DEF Holds
  <2>2. raw[t] \in Holding /\ raw[u] \in Holding
    BY <2>1 DEF Begun, Holding
  <2>3. Place(t) /\ Place(u)
    BY <1>1 DEF ProfileInv
  <2> QED BY SMTT(60), <2>1, <2>2, <2>3 DEF Place
<1> QED BY PTL, <1>1, ProfileInvariant

\* The two maps agree on every task the registry still has, except between the
\* two inserts of accept.
THEOREM MapsAreConsistent == Spec => []MapsAgree
<1>1. ASSUME ProfileInv PROVE MapsAgree
  <2>1. ASSUME NEW t \in Calls, Retained(t)
        PROVE  /\ t \in tasks => requests[IdOf[t]] = Accepted(t)
               /\ requests[IdOf[t]] = Accepted(t) => t \in tasks \/ pc[t] = "acceptTask"
    <3>1. Place(t)
      BY <1>1 DEF ProfileInv
    <3>2. raw[t] \in Running
      BY <2>1 DEF Retained, Running
    <3>3. requests[IdOf[t]] = Accepted(t) => pc[t] # "accept"
      BY <3>1, EntryFacts DEF Place, Owning
    <3> QED BY <3>1, <3>2, <3>3 DEF Place, Owning
  <2> QED BY <2>1 DEF MapsAgree
<1> QED BY PTL, <1>1, ProfileInvariant

\* Whoever sees a profile task FINISHED finds its terminal set, so the wait in
\* ProfileTaskRecord::snapshot never sleeps.
THEOREM TerminalComesFirst == Spec => []TerminalBeforeFinished
<1>1. ASSUME ProfileInv PROVE TerminalBeforeFinished
  BY <1>1 DEF ProfileInv, Result, TerminalBeforeFinished
<1> QED BY PTL, <1>1, ProfileInvariant

\* getProfileResult reports success only of a process that exited with zero.
THEOREM SuccessIsHonest == Spec => []SucceededHonest
<1>1. ASSUME ProfileInv PROVE SucceededHonest
  <2>1. ASSUME NEW g \in Gets, getAnswer[g] = "succeeded"
        PROVE  ended[getOn[g]] = "zero" /\ terminal[getOn[g]] = "succeeded"
    <3>1. Query(g)
      BY <1>1 DEF ProfileInv
    <3>2. getOn[g] \in Calls /\ terminal[getOn[g]] = "succeeded"
      BY <2>1, <3>1, CallsAssumption DEF Query
    <3>3. Result(getOn[g])
      BY <1>1, <3>2 DEF ProfileInv
    <3> QED BY <3>2, <3>3 DEF Result
  <2> QED BY <2>1 DEF SucceededHonest
<1> QED BY PTL, <1>1, ProfileInvariant

\* A call is refused as a conflict only over another payload, a raw command or
\* an attempt that ended uncertainly (reserve, and submit by its owner).
THEOREM ConflictIsHonest == Spec => []ConflictHonest
<1>1. ASSUME ProfileInv PROVE ConflictHonest
  <2>1. ASSUME NEW c \in Calls, answer[c] = Said("conflict") PROVE Cause(c)
    <3>1. Holds(c)
      BY <1>1 DEF ProfileInv
    <3> QED BY <2>1, <3>1 DEF Holds
  <2>2. \A d : pc[d] \notin Early =>
          pc[d] \notin {"validate", "prune", "pruning", "pruneRequests", "reserve"}
    BY DEF Early
  <2> QED BY <2>1, <2>2 DEF ConflictHonest, Cause, IdHolders
<1> QED BY PTL, <1>1, ProfileInvariant
================================================================================

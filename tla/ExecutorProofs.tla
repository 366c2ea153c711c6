--------------------------- MODULE ExecutorProofs ---------------------------
(***************************************************************************)
(* Proofs about run_task, for any set of tasks and of cgroup events.       *)
(*                                                                         *)
(* What run_task may conclude at its end depends on what it recorded on    *)
(* the way, so the invariant ties the record (clean) to the truth in the   *)
(* kernel (job), for each path and position of run_task.                   *)
(***************************************************************************)
EXTENDS Executor, TLAPS

\* Most leaves are first-order: Zenon is the prover unless a leaf names another.
USE ZenonT(200)

\* The two records of ExecutorTypeOK.
JobType == [cgroup  : {"ABSENT", "PRESENT", "REMOVED"},
            child   : {"NONE", "GATED", "RELEASED", "EXECED", "FAILED", "DEAD", "REAPED"},
            forks   : BOOLEAN,
            killed  : BOOLEAN,
            execed  : BOOLEAN,
            readers : {"NONE", "OPEN", "JOINED"}]

CleanType == [path : Paths, attempt : 1 .. 2, killSent : BOOLEAN, reaped : BOOLEAN,
              aborted : BOOLEAN, uncertain : BOOLEAN, finish : {"NONE", "OK", "ERR"},
              failed : BOOLEAN, waitError : BOOLEAN]

\* The kernel's side: nothing lives outside a cgroup, and a cgroup that could
\* be removed was empty.
KernelSound ==
    /\ job.child = "NONE" => ~job.forks /\ ~job.execed /\ job.readers # "OPEN"
    /\ job.cgroup = "ABSENT" => job.child = "NONE"
    /\ job.cgroup = "REMOVED" => ~Populated

\* Both ends of the child: reaped, and its readers gone.
ChildGone == job.child = "REAPED" /\ job.readers = "JOINED"

\* What run_task recorded as done was done.
RecordTrue ==
    /\ clean.reaped => job.child = "REAPED"
    /\ clean.aborted => ChildGone
    /\ clean.finish = "OK" => job.cgroup = "REMOVED"
    /\ clean.path = "FAIL_STOP" => job.child = "NONE" /\ phase = "FAIL_STOPPING"
    /\ clean.path = "FAILURE" => clean.uncertain \/ job.child = "NONE" \/ ChildGone
    /\ clean.path = "EXEC_FAILED" => ChildGone

\* A start that may still be given up, or was, has passed no gate.
GateClosed ==
    pc = "SPAWNED" \/ clean.path = "PENDING" =>
        job.child \in {"GATED", "FAILED", "DEAD", "REAPED"} /\ ~job.execed

\* Whatever keeps run_task from proving that the job is gone was recorded.
FailureRecorded ==
    /\ clean.uncertain => clean.failed
    /\ clean.finish = "ERR" => clean.failed
    /\ clean.path = "RECOVERY" => clean.failed
    /\ clean.path = "PENDING" /\ pc # "ABORT" => clean.aborted \/ clean.failed
    /\ clean.path = "STARTED" /\ pc \notin {"KILL", "REAP"} => clean.reaped
    /\ pc = "DROP" => ~clean.aborted
    /\ pc \in {"FINISHED", "DROP", "REAP_LAST", "OUTPUT"} => clean.finish # "NONE"

\* Which path run_task is on follows from where it is.
PathFollows ==
    /\ pc \in {"START", "JOB", "SPAWNED", "COMMITTED", "STOP", "STARTED"} =>
          clean.path = "NONE" /\ clean.attempt = 1
    /\ pc = "START" => job.cgroup = "ABSENT"
    /\ pc = "JOB" => job.cgroup = "PRESENT" /\ job.child = "NONE"
    /\ pc \notin {"START", "DONE"} => job.cgroup # "ABSENT"
    /\ pc \in {"ABORT", "ABORT_AGAIN", "DROP"} => clean.path = "PENDING"
    /\ pc \in {"KILL", "REAP"} => clean.path = "STARTED"
    /\ pc \in {"R_KILL", "R_REAP", "R_AGAIN", "R_REAP_AGAIN"} => clean.path = "RECOVERY"
    /\ clean.finish # "NONE" => pc \in {"FINISHED", "DROP", "REAP_LAST", "OUTPUT", "DONE"}
    /\ pc \in {"REAP_LAST", "OUTPUT"} => clean.path \in {"STARTED", "RECOVERY"}
    /\ outcome # "NONE" => pc = "DONE"

ExecutorInv ==
    /\ ExecutorTypeOK
    /\ KernelSound
    /\ RecordTrue
    /\ PathFollows
    /\ GateClosed
    /\ FailureRecorded
    /\ ResultMeansGone
    /\ AbandonedIsCollected
    /\ FailStopHasCause

-----------------------------------------------------------------------------
(* The updates of the two records *)

LEMMA JobUpdates ==
    ASSUME NEW j \in JobType
    PROVE  /\ \A v \in {"RELEASED", "EXECED", "FAILED", "DEAD", "REAPED"} :
                 [j EXCEPT !.child = v] \in JobType
           /\ \A v \in {"ABSENT", "PRESENT", "REMOVED"} : [j EXCEPT !.cgroup = v] \in JobType
           /\ \A v \in BOOLEAN : [j EXCEPT !.forks = v] \in JobType
           /\ [j EXCEPT !.killed = TRUE] \in JobType
           /\ [j EXCEPT !.readers = "JOINED"] \in JobType
           /\ [j EXCEPT !.child = "EXECED", !.execed = TRUE] \in JobType
           /\ [j EXCEPT !.child = "GATED", !.readers = "OPEN"] \in JobType
           /\ [j EXCEPT !.child = "REAPED", !.readers = "JOINED"] \in JobType
  BY DEF JobType

LEMMA CleanUpdates ==
    ASSUME NEW c \in CleanType
    PROVE  /\ \A v \in Paths : [c EXCEPT !.path = v] \in CleanType
           /\ \A v \in BOOLEAN : [c EXCEPT !.killSent = v] \in CleanType
           /\ \A v \in BOOLEAN : [c EXCEPT !.aborted = v] \in CleanType
           /\ [c EXCEPT !.reaped = TRUE] \in CleanType
           /\ [c EXCEPT !.finish = "OK"] \in CleanType
           /\ [c EXCEPT !.failed = TRUE] \in CleanType
           /\ [c EXCEPT !.waitError = TRUE] \in CleanType
           /\ [c EXCEPT !.failed = TRUE, !.waitError = TRUE] \in CleanType
           /\ [c EXCEPT !.finish = "ERR", !.failed = TRUE] \in CleanType
           /\ [c EXCEPT !.attempt = 2, !.failed = TRUE] \in CleanType
           /\ [c EXCEPT !.path = "RECOVERY", !.failed = TRUE] \in CleanType
           /\ [c EXCEPT !.path = "FAILURE", !.uncertain = TRUE, !.failed = TRUE,
                        !.waitError = TRUE] \in CleanType
           /\ \A v \in BOOLEAN :
                 [c EXCEPT !.path = "STARTED", !.killSent = v, !.reaped = TRUE] \in CleanType
<1>1. 2 \in 1 .. 2
  BY SMTT(60)
<1> QED BY <1>1 DEF CleanType, Paths

-----------------------------------------------------------------------------
(* What the actions with several outcomes do to the two records *)

LEMMA AbortFailsRecords ==
    ASSUME clean \in CleanType, AbortFails
    PROVE  /\ clean'.path = clean.path /\ clean'.attempt = clean.attempt
           /\ clean'.reaped = clean.reaped /\ clean'.aborted = clean.aborted
           /\ clean'.uncertain = clean.uncertain /\ clean'.finish = clean.finish
           /\ clean'.failed = TRUE
<1>1. CASE clean' = [clean EXCEPT !.failed = TRUE]
  BY SMTT(60), <1>1 DEF CleanType
<1>2. CASE clean' = [clean EXCEPT !.failed = TRUE, !.waitError = TRUE]
  BY SMTT(60), <1>2 DEF CleanType
<1> QED BY <1>1, <1>2 DEF AbortFails

LEMMA RecoversRecords ==
    ASSUME clean \in CleanType, Recovers
    PROVE  /\ clean'.path = "RECOVERY" /\ clean'.attempt = clean.attempt
           /\ clean'.reaped = clean.reaped /\ clean'.aborted = clean.aborted
           /\ clean'.uncertain = clean.uncertain /\ clean'.finish = clean.finish
           /\ clean'.failed = TRUE
  BY SMTT(60) DEF CleanType, Recovers

LEMMA ControlledKillRecords ==
    ASSUME clean \in CleanType, ControlledKill
    PROVE  /\ clean'.attempt = clean.attempt /\ clean'.reaped = clean.reaped
           /\ clean'.aborted = clean.aborted /\ clean'.uncertain = clean.uncertain
           /\ clean'.finish = clean.finish
           /\ \/ clean'.path = clean.path /\ pc' = "REAP" /\ clean'.failed = clean.failed
              \/ clean'.path = "RECOVERY" /\ pc' = "R_KILL" /\ clean'.failed = TRUE
<1>1. CASE clean' = [clean EXCEPT !.killSent = TRUE] /\ pc' = "REAP"
  BY SMTT(60), <1>1 DEF CleanType
<1>2. CASE Recovers /\ pc' = "R_KILL"
  BY <1>2, RecoversRecords
<1> QED BY <1>1, <1>2 DEF ControlledKill, Goto

LEMMA ControlledReapRecords ==
    ASSUME clean \in CleanType, job \in JobType, ControlledReap
    PROVE  /\ clean'.attempt = clean.attempt
           /\ clean'.aborted = clean.aborted /\ clean'.uncertain = clean.uncertain
           /\ clean'.finish = clean.finish
           /\ \/ /\ clean'.path = clean.path /\ pc' = "FINISH" /\ clean'.failed = clean.failed
                 /\ clean'.reaped = TRUE /\ job.child = "DEAD" /\ job'.child = "REAPED"
              \/ /\ clean'.path = "RECOVERY" /\ pc' = "R_KILL" /\ clean'.failed = TRUE
                 /\ clean'.reaped = clean.reaped /\ job'.child = job.child
<1>1. CASE clean' = [clean EXCEPT !.reaped = TRUE] /\ pc' = "FINISH" /\ job.child = "DEAD"
           /\ job' = Reaped
  <2>1. job'.child = "REAPED"
    BY SMTT(60), <1>1 DEF JobType, Reaped
  <2>2. /\ clean'.attempt = clean.attempt /\ clean'.path = clean.path
        /\ clean'.aborted = clean.aborted /\ clean'.uncertain = clean.uncertain
        /\ clean'.finish = clean.finish /\ clean'.failed = clean.failed /\ clean'.reaped = TRUE
    BY SMTT(60), <1>1 DEF CleanType
  <2> QED BY <1>1, <2>1, <2>2
<1>2. CASE Recovers /\ pc' = "R_KILL" /\ UNCHANGED job
  BY <1>2, RecoversRecords
<1> QED BY <1>1, <1>2 DEF ControlledReap, Goto

LEMMA FinishFailsRecords ==
    ASSUME clean \in CleanType, FinishFails
    PROVE  /\ clean'.path = clean.path /\ clean'.reaped = clean.reaped
           /\ clean'.aborted = clean.aborted /\ clean'.uncertain = clean.uncertain
           /\ clean'.failed = TRUE
           /\ \/ clean'.finish = clean.finish /\ pc' = "FINISH"
              \/ clean'.finish = "ERR" /\ pc' = "FINISHED"
<1>1. CASE clean' = [clean EXCEPT !.attempt = 2, !.failed = TRUE] /\ pc' = "FINISH"
  BY SMTT(60), <1>1 DEF CleanType
<1>2. CASE clean' = [clean EXCEPT !.finish = "ERR", !.failed = TRUE] /\ pc' = "FINISHED"
  BY SMTT(60), <1>2 DEF CleanType
<1> QED BY <1>1, <1>2 DEF FinishFails, Goto

LEMMA OutputKeepsPath ==
    ASSUME clean \in CleanType, OutputOk \/ OutputFails
    PROVE  clean'.path = clean.path
<1>1. CASE clean' = [clean EXCEPT !.failed = TRUE]
  BY SMTT(60), <1>1 DEF CleanType
<1> QED BY <1>1 DEF OutputOk, OutputFails

LEMMA DropKeepsCgroup ==
    ASSUME job \in JobType, DropReaps \/ DropWaitFails
    PROVE  job'.cgroup = job.cgroup
<1>1. CASE job' = ReapedAndJoined
  BY SMTT(60), <1>1 DEF JobType, ReapedAndJoined
<1>2. CASE job' = OnlyJoined
  BY SMTT(60), <1>2 DEF JobType, OnlyJoined
<1> QED BY <1>1, <1>2 DEF DropReaps, DropWaitFails

-----------------------------------------------------------------------------
(* One lemma per phase of run_task, one step per action *)

LEMMA EnvironmentKeeps ==
    ASSUME ExecutorInv,
           ChildExecs \/ ChildExecFails \/ ChildDies \/ ChildForks \/ ForksExit \/
           CancelAccepted \/ OtherFails
    PROVE  ExecutorInv'
<1>0. ExecutorTypeOK
  BY SMTT(60) DEF ExecutorInv
<1>t. job \in JobType /\ clean \in CleanType
  BY <1>0 DEF ExecutorTypeOK, JobType, CleanType
<1> USE DEF ExecutorTypeOK, FailStopTypeOK, StartStates, LatchStates, Paths, KernelSound,
            ChildGone, RecordTrue, PathFollows, GateClosed, FailureRecorded, Populated, Alive,
            failStopVars, verdictVars, Goto
<1>1. CASE ChildExecs
  <2>1. job' \in JobType /\ clean' \in CleanType
    BY <1>t, <1>1, JobUpdates, CleanUpdates DEF ChildExecs, KernelMoves
  <2>2. ExecutorTypeOK'
    BY SMTT(60), <1>0, <2>1, <1>1, JobAssumption DEF JobType, CleanType, ChildExecs, KernelMoves
  <2>3. (KernelSound /\ RecordTrue /\ PathFollows /\ GateClosed /\ FailureRecorded)'
    BY SMTT(60), <1>0, <1>1 DEF ExecutorInv, ChildExecs, KernelMoves
  <2>4. (ResultMeansGone /\ AbandonedIsCollected /\ FailStopHasCause)'
    BY SMTT(60), <1>0, <1>1, JobAssumption DEF ExecutorInv, ResultMeansGone,
      AbandonedIsCollected, FailStopHasCause, ChildExecs, KernelMoves
  <2> QED BY <2>2, <2>3, <2>4 DEF ExecutorInv
<1>2. CASE ChildExecFails
  <2>1. job' \in JobType /\ clean' \in CleanType
    BY <1>t, <1>2, JobUpdates, CleanUpdates DEF ChildExecFails, KernelMoves
  <2>2. ExecutorTypeOK'
    BY SMTT(60), <1>0, <2>1, <1>2, JobAssumption DEF JobType, CleanType, ChildExecFails,
      KernelMoves
  <2>3. (KernelSound /\ RecordTrue /\ PathFollows /\ GateClosed /\ FailureRecorded)'
    BY SMTT(60), <1>0, <1>2 DEF ExecutorInv, ChildExecFails, KernelMoves
  <2>4. (ResultMeansGone /\ AbandonedIsCollected /\ FailStopHasCause)'
    BY SMTT(60), <1>0, <1>2, JobAssumption DEF ExecutorInv, ResultMeansGone,
      AbandonedIsCollected, FailStopHasCause, ChildExecFails, KernelMoves
  <2> QED BY <2>2, <2>3, <2>4 DEF ExecutorInv
<1>3. CASE ChildDies
  <2>1. job' \in JobType /\ clean' \in CleanType
    BY <1>t, <1>3, JobUpdates, CleanUpdates DEF ChildDies, KernelMoves
  <2>2. ExecutorTypeOK'
    BY SMTT(60), <1>0, <2>1, <1>3, JobAssumption DEF JobType, CleanType, ChildDies, KernelMoves
  <2>3. (KernelSound /\ RecordTrue /\ PathFollows /\ GateClosed /\ FailureRecorded)'
    BY SMTT(60), <1>0, <1>3 DEF ExecutorInv, ChildDies, KernelMoves
  <2>4. (ResultMeansGone /\ AbandonedIsCollected /\ FailStopHasCause)'
    BY SMTT(60), <1>0, <1>3, JobAssumption DEF ExecutorInv, ResultMeansGone,
      AbandonedIsCollected, FailStopHasCause, ChildDies, KernelMoves
  <2> QED BY <2>2, <2>3, <2>4 DEF ExecutorInv
<1>4. CASE ChildForks
  <2>1. job' \in JobType /\ clean' \in CleanType
    BY <1>t, <1>4, JobUpdates, CleanUpdates DEF ChildForks, KernelMoves
  <2>2. ExecutorTypeOK'
    BY SMTT(60), <1>0, <2>1, <1>4, JobAssumption DEF JobType, CleanType, ChildForks, KernelMoves
  <2>3. (KernelSound /\ RecordTrue /\ PathFollows /\ GateClosed /\ FailureRecorded)'
    BY SMTT(60), <1>0, <1>4 DEF ExecutorInv, ChildForks, KernelMoves
  <2>4. (ResultMeansGone /\ AbandonedIsCollected /\ FailStopHasCause)'
    BY SMTT(60), <1>0, <1>4, JobAssumption DEF ExecutorInv, ResultMeansGone,
      AbandonedIsCollected, FailStopHasCause, ChildForks, KernelMoves
  <2> QED BY <2>2, <2>3, <2>4 DEF ExecutorInv
<1>5. CASE ForksExit
  <2>1. job' \in JobType /\ clean' \in CleanType
    BY <1>t, <1>5, JobUpdates, CleanUpdates DEF ForksExit, KernelMoves
  <2>2. ExecutorTypeOK'
    BY SMTT(60), <1>0, <2>1, <1>5, JobAssumption DEF JobType, CleanType, ForksExit, KernelMoves
  <2>3. (KernelSound /\ RecordTrue /\ PathFollows /\ GateClosed /\ FailureRecorded)'
    BY SMTT(60), <1>0, <1>5 DEF ExecutorInv, ForksExit, KernelMoves
  <2>4. (ResultMeansGone /\ AbandonedIsCollected /\ FailStopHasCause)'
    BY SMTT(60), <1>0, <1>5, JobAssumption DEF ExecutorInv, ResultMeansGone,
      AbandonedIsCollected, FailStopHasCause, ForksExit, KernelMoves
  <2> QED BY <2>2, <2>3, <2>4 DEF ExecutorInv
<1>6. CASE CancelAccepted
  <2>1. job' \in JobType /\ clean' \in CleanType
    BY <1>t, <1>6, JobUpdates, CleanUpdates DEF CancelAccepted
  <2>2. ExecutorTypeOK'
    BY SMTT(60), <1>0, <2>1, <1>6, JobAssumption DEF JobType, CleanType, CancelAccepted
  <2>3. (KernelSound /\ RecordTrue /\ PathFollows /\ GateClosed /\ FailureRecorded)'
    BY SMTT(60), <1>0, <1>6 DEF ExecutorInv, CancelAccepted
  <2>4. (ResultMeansGone /\ AbandonedIsCollected /\ FailStopHasCause)'
    BY SMTT(60), <1>0, <1>6, JobAssumption DEF ExecutorInv, ResultMeansGone,
      AbandonedIsCollected, FailStopHasCause, CancelAccepted
  <2> QED BY <2>2, <2>3, <2>4 DEF ExecutorInv
<1>7. CASE OtherFails
  <2>1. job' \in JobType /\ clean' \in CleanType
    BY <1>t, <1>7, JobUpdates, CleanUpdates DEF OtherFails
  <2>2. ExecutorTypeOK'
    BY SMTT(60), <1>0, <2>1, <1>7, JobAssumption DEF JobType, CleanType, OtherFails, activate,
      is_fail_stopping
  <2>3. (KernelSound /\ RecordTrue /\ PathFollows /\ GateClosed /\ FailureRecorded)'
    BY SMTT(60), <1>0, <1>7 DEF ExecutorInv, OtherFails, activate, is_fail_stopping
  <2>4. (ResultMeansGone /\ AbandonedIsCollected /\ FailStopHasCause)'
    BY SMTT(60), <1>0, <1>7, JobAssumption DEF ExecutorInv, ResultMeansGone,
      AbandonedIsCollected, FailStopHasCause, OtherFails, activate, is_fail_stopping
  <2> QED BY <2>2, <2>3, <2>4 DEF ExecutorInv
<1> QED BY <1>1, <1>2, <1>3, <1>4, <1>5, <1>6, <1>7

LEMMA BeforeGateKeeps ==
    ASSUME ExecutorInv,
           RefuseStart \/ RejectCommand \/ CreateJobUncertain \/ CreateJob \/
           FailStopAfterCreate \/ SpawnFails \/ Spawn \/ AbortSpawned \/ GateFails \/
           CommitStart \/ AbortOk \/ AbortFails
    PROVE  ExecutorInv'
<1>0. ExecutorTypeOK
  BY SMTT(60) DEF ExecutorInv
<1>t. job \in JobType /\ clean \in CleanType
  BY <1>0 DEF ExecutorTypeOK, JobType, CleanType
<1> USE DEF ExecutorTypeOK, FailStopTypeOK, StartStates, LatchStates, Paths, KernelSound,
            ChildGone, RecordTrue, PathFollows, GateClosed, FailureRecorded, Populated, Alive,
            failStopVars, verdictVars, Goto
<1>1. CASE RefuseStart
  <2>1. job' \in JobType /\ clean' \in CleanType
    BY <1>t, <1>1, JobUpdates, CleanUpdates DEF RefuseStart, ReturnFailure
  <2>2. ExecutorTypeOK'
    BY SMTT(60), <1>0, <2>1, <1>1, JobAssumption DEF JobType, CleanType, RefuseStart,
      ReturnFailure, Return, activate, is_fail_stopping
  <2>3. (KernelSound /\ RecordTrue /\ PathFollows /\ GateClosed /\ FailureRecorded)'
    BY SMTT(60), <1>0, <1>1 DEF ExecutorInv, RefuseStart, ReturnFailure, Return, activate,
      is_fail_stopping
  <2>4. (ResultMeansGone /\ AbandonedIsCollected /\ FailStopHasCause)'
    BY SMTT(60), <1>0, <1>1, JobAssumption DEF ExecutorInv, ResultMeansGone,
      AbandonedIsCollected, FailStopHasCause, RefuseStart, ReturnFailure, Return,
      activate, is_fail_stopping
  <2> QED BY <2>2, <2>3, <2>4 DEF ExecutorInv
<1>2. CASE RejectCommand
  <2>1. job' \in JobType /\ clean' \in CleanType
    BY <1>t, <1>2, JobUpdates, CleanUpdates DEF RejectCommand, ReturnFailure
  <2>2. ExecutorTypeOK'
    BY SMTT(60), <1>0, <2>1, <1>2, JobAssumption DEF JobType, CleanType, RejectCommand,
      ReturnFailure, Return, activate, is_fail_stopping
  <2>3. (KernelSound /\ RecordTrue /\ PathFollows /\ GateClosed /\ FailureRecorded)'
    BY SMTT(60), <1>0, <1>2 DEF ExecutorInv, RejectCommand, ReturnFailure, Return, activate,
      is_fail_stopping
  <2>4. (ResultMeansGone /\ AbandonedIsCollected /\ FailStopHasCause)'
    BY SMTT(60), <1>0, <1>2, JobAssumption DEF ExecutorInv, ResultMeansGone,
      AbandonedIsCollected, FailStopHasCause, RejectCommand, ReturnFailure, Return,
      activate, is_fail_stopping
  <2> QED BY <2>2, <2>3, <2>4 DEF ExecutorInv
<1>3. CASE CreateJobUncertain
  <2>1. job' \in JobType /\ clean' \in CleanType
    BY <1>t, <1>3, JobUpdates, CleanUpdates DEF CreateJobUncertain
  <2>2. ExecutorTypeOK'
    BY SMTT(60), <1>0, <2>1, <1>3, JobAssumption DEF JobType, CleanType, CreateJobUncertain,
      Return, activate, is_fail_stopping
  <2>3. (KernelSound /\ RecordTrue /\ PathFollows /\ GateClosed /\ FailureRecorded)'
    BY SMTT(60), <1>0, <1>3 DEF ExecutorInv, CreateJobUncertain, Return, activate,
      is_fail_stopping
  <2>4. (ResultMeansGone /\ AbandonedIsCollected /\ FailStopHasCause)'
    BY SMTT(60), <1>0, <1>3, JobAssumption DEF ExecutorInv, ResultMeansGone,
      AbandonedIsCollected, FailStopHasCause, CreateJobUncertain, Return, activate,
      is_fail_stopping
  <2> QED BY <2>2, <2>3, <2>4 DEF ExecutorInv
<1>4. CASE CreateJob
  <2>1. job' \in JobType /\ clean' \in CleanType
    BY <1>t, <1>4, JobUpdates, CleanUpdates DEF CreateJob
  <2>2. ExecutorTypeOK'
    BY SMTT(60), <1>0, <2>1, <1>4, JobAssumption DEF JobType, CleanType, CreateJob, Silent
  <2>3. (KernelSound /\ RecordTrue /\ PathFollows /\ GateClosed /\ FailureRecorded)'
    BY SMTT(60), <1>0, <1>4 DEF ExecutorInv, CreateJob, Silent
  <2>4. (ResultMeansGone /\ AbandonedIsCollected /\ FailStopHasCause)'
    BY SMTT(60), <1>0, <1>4, JobAssumption DEF ExecutorInv, ResultMeansGone,
      AbandonedIsCollected, FailStopHasCause, CreateJob, Silent
  <2> QED BY <2>2, <2>3, <2>4 DEF ExecutorInv
<1>5. CASE FailStopAfterCreate
  <2>1. job' \in JobType /\ clean' \in CleanType
    BY <1>t, <1>5, JobUpdates, CleanUpdates DEF FailStopAfterCreate, CleanUp
  <2>2. ExecutorTypeOK'
    BY SMTT(60), <1>0, <2>1, <1>5, JobAssumption DEF JobType, CleanType, FailStopAfterCreate,
      CleanUp, Silent, is_fail_stopping
  <2>3. (KernelSound /\ RecordTrue /\ PathFollows /\ GateClosed /\ FailureRecorded)'
    BY SMTT(60), <1>0, <1>5 DEF ExecutorInv, FailStopAfterCreate, CleanUp, Silent,
      is_fail_stopping
  <2>4. (ResultMeansGone /\ AbandonedIsCollected /\ FailStopHasCause)'
    BY SMTT(60), <1>0, <1>5, JobAssumption DEF ExecutorInv, ResultMeansGone,
      AbandonedIsCollected, FailStopHasCause, FailStopAfterCreate, CleanUp, Silent,
      is_fail_stopping
  <2> QED BY <2>2, <2>3, <2>4 DEF ExecutorInv
<1>6. CASE SpawnFails
  <2>1. job' \in JobType /\ clean' \in CleanType
    BY <1>t, <1>6, JobUpdates, CleanUpdates DEF SpawnFails, CleanUp
  <2>2. ExecutorTypeOK'
    BY SMTT(60), <1>0, <2>1, <1>6, JobAssumption DEF JobType, CleanType, SpawnFails, CleanUp,
      Silent
  <2>3. (KernelSound /\ RecordTrue /\ PathFollows /\ GateClosed /\ FailureRecorded)'
    BY SMTT(60), <1>0, <1>6 DEF ExecutorInv, SpawnFails, CleanUp, Silent
  <2>4. (ResultMeansGone /\ AbandonedIsCollected /\ FailStopHasCause)'
    BY SMTT(60), <1>0, <1>6, JobAssumption DEF ExecutorInv, ResultMeansGone,
      AbandonedIsCollected, FailStopHasCause, SpawnFails, CleanUp, Silent
  <2> QED BY <2>2, <2>3, <2>4 DEF ExecutorInv
<1>7. CASE Spawn
  <2>1. job' \in JobType /\ clean' \in CleanType
    BY <1>t, <1>7, JobUpdates, CleanUpdates DEF Spawn
  <2>2. ExecutorTypeOK'
    BY SMTT(60), <1>0, <2>1, <1>7, JobAssumption DEF JobType, CleanType, Spawn, Silent
  <2>3. (KernelSound /\ RecordTrue /\ PathFollows /\ GateClosed /\ FailureRecorded)'
    BY SMTT(60), <1>0, <1>7 DEF ExecutorInv, Spawn, Silent
  <2>4. (ResultMeansGone /\ AbandonedIsCollected /\ FailStopHasCause)'
    BY SMTT(60), <1>0, <1>7, JobAssumption DEF ExecutorInv, ResultMeansGone,
      AbandonedIsCollected, FailStopHasCause, Spawn, Silent
  <2> QED BY <2>2, <2>3, <2>4 DEF ExecutorInv
<1>8. CASE AbortSpawned
  <2>1. job' \in JobType /\ clean' \in CleanType
    BY <1>t, <1>8, JobUpdates, CleanUpdates DEF AbortSpawned, CleanUp
  <2>2. ExecutorTypeOK'
    BY SMTT(60), <1>0, <2>1, <1>8, JobAssumption DEF JobType, CleanType, AbortSpawned, CleanUp,
      Silent
  <2>3. (KernelSound /\ RecordTrue /\ PathFollows /\ GateClosed /\ FailureRecorded)'
    BY SMTT(60), <1>0, <1>8 DEF ExecutorInv, AbortSpawned, CleanUp, Silent
  <2>4. (ResultMeansGone /\ AbandonedIsCollected /\ FailStopHasCause)'
    BY SMTT(60), <1>0, <1>8, JobAssumption DEF ExecutorInv, ResultMeansGone,
      AbandonedIsCollected, FailStopHasCause, AbortSpawned, CleanUp, Silent
  <2> QED BY <2>2, <2>3, <2>4 DEF ExecutorInv
<1>9. CASE GateFails
  <2>1. job' \in JobType /\ clean' \in CleanType
    BY <1>t, <1>9, JobUpdates, CleanUpdates DEF GateFails, CleanUp
  <2>2. ExecutorTypeOK'
    BY SMTT(60), <1>0, <2>1, <1>9, JobAssumption DEF JobType, CleanType, GateFails, CleanUp,
      is_fail_stopping, commit_gate_failed
  <2>3. (KernelSound /\ RecordTrue /\ PathFollows /\ GateClosed /\ FailureRecorded)'
    BY SMTT(60), <1>0, <1>9 DEF ExecutorInv, GateFails, CleanUp, is_fail_stopping,
      commit_gate_failed
  <2>4. (ResultMeansGone /\ AbandonedIsCollected /\ FailStopHasCause)'
    BY SMTT(60), <1>0, <1>9, JobAssumption DEF ExecutorInv, ResultMeansGone,
      AbandonedIsCollected, FailStopHasCause, GateFails, CleanUp, is_fail_stopping,
      commit_gate_failed
  <2> QED BY <2>2, <2>3, <2>4 DEF ExecutorInv
<1>10. CASE CommitStart
  <2>1. job' \in JobType /\ clean' \in CleanType
    BY <1>t, <1>10, JobUpdates, CleanUpdates DEF CommitStart
  <2>2. ExecutorTypeOK'
    BY SMTT(60), <1>0, <2>1, <1>10, JobAssumption DEF JobType, CleanType, CommitStart,
      is_fail_stopping, commit_start
  <2>3. (KernelSound /\ RecordTrue /\ PathFollows /\ GateClosed /\ FailureRecorded)'
    BY SMTT(60), <1>0, <1>10 DEF ExecutorInv, CommitStart, is_fail_stopping, commit_start
  <2>4. (ResultMeansGone /\ AbandonedIsCollected /\ FailStopHasCause)'
    BY SMTT(60), <1>0, <1>10, JobAssumption DEF ExecutorInv, ResultMeansGone,
      AbandonedIsCollected, FailStopHasCause, CommitStart, is_fail_stopping,
      commit_start
  <2> QED BY <2>2, <2>3, <2>4 DEF ExecutorInv
<1>11. CASE AbortOk
  <2>1. job' \in JobType /\ clean' \in CleanType
    BY <1>t, <1>11, JobUpdates, CleanUpdates DEF AbortOk, ReapedAndJoined
  <2>2. ExecutorTypeOK'
    BY SMTT(60), <1>0, <2>1, <1>11, JobAssumption DEF JobType, CleanType, AbortOk,
      ReapedAndJoined, Silent
  <2>3. (KernelSound /\ RecordTrue /\ PathFollows /\ GateClosed /\ FailureRecorded)'
    BY SMTT(60), <1>0, <1>11 DEF ExecutorInv, AbortOk, ReapedAndJoined, Silent
  <2>4. (ResultMeansGone /\ AbandonedIsCollected /\ FailStopHasCause)'
    BY SMTT(60), <1>0, <1>11, JobAssumption DEF ExecutorInv, ResultMeansGone,
      AbandonedIsCollected, FailStopHasCause, AbortOk, ReapedAndJoined, Silent
  <2> QED BY <2>2, <2>3, <2>4 DEF ExecutorInv
<1>12. CASE AbortFails
  <2>1. job' \in JobType /\ clean' \in CleanType
    BY <1>t, <1>12, JobUpdates, CleanUpdates DEF AbortFails, OnlyJoined
  <2>2. ExecutorTypeOK'
    BY SMTT(60), <1>0, <2>1, <1>12, JobAssumption DEF JobType, CleanType, AbortFails,
      OnlyJoined, activate, is_fail_stopping
  <2>a. /\ job'.child = job.child /\ job'.cgroup = job.cgroup /\ job'.forks = job.forks
        /\ job'.execed = job.execed
        /\ job'.readers \in {job.readers, "JOINED"}
    BY SMTT(60), <1>t, <1>12 DEF JobType, CleanType, AbortFails, OnlyJoined
  <2>b. /\ clean'.path = clean.path /\ clean'.attempt = clean.attempt /\ clean'.reaped = clean.reaped
        /\ clean'.aborted = clean.aborted /\ clean'.uncertain = clean.uncertain
        /\ clean'.finish = clean.finish /\ clean'.failed = TRUE
    BY <1>t, <1>12, AbortFailsRecords
  <2>c. /\ clean.path = "PENDING" /\ pc' \in {"ABORT_AGAIN", "FINISH"}
        /\ clean.finish = "NONE" /\ outcome = "NONE" /\ UNCHANGED outcome
        /\ job.cgroup # "ABSENT"
    BY SMTT(60), <1>0, <1>12 DEF ExecutorInv, AbortFails
  <2>3. (KernelSound /\ RecordTrue /\ PathFollows /\ GateClosed /\ FailureRecorded)'
    BY SMTT(60), <1>0, <2>a, <2>b, <2>c DEF ExecutorInv
  <2>4. (ResultMeansGone /\ AbandonedIsCollected /\ FailStopHasCause)'
    BY SMTT(60), <1>0, <2>a, <2>b, <2>c, JobAssumption
    DEF ExecutorInv, ResultMeansGone, AbandonedIsCollected, FailStopHasCause
  <2> QED BY <2>2, <2>3, <2>4 DEF ExecutorInv
<1> QED BY <1>1, <1>2, <1>3, <1>4, <1>5, <1>6, <1>7, <1>8, <1>9, <1>10, <1>11, <1>12

LEMMA StartedKeeps ==
    ASSUME ExecutorInv,
           ExecReported \/ ExecFailureReported \/ ExecPipeFails \/ StopReaps \/
           ExecWaitFails \/
           Cancelled \/ FailStopObserved \/ TimedOut \/ Exited \/ WaitFails \/
           ControlledKill \/ ControlledReap
    PROVE  ExecutorInv'
<1>0. ExecutorTypeOK
  BY SMTT(60) DEF ExecutorInv
<1>t. job \in JobType /\ clean \in CleanType
  BY <1>0 DEF ExecutorTypeOK, JobType, CleanType
<1> USE DEF ExecutorTypeOK, FailStopTypeOK, StartStates, LatchStates, Paths, KernelSound,
            ChildGone, RecordTrue, PathFollows, GateClosed, FailureRecorded, Populated, Alive,
            failStopVars, verdictVars, Goto
<1>1. CASE ExecReported
  <2>1. job' \in JobType /\ clean' \in CleanType
    BY <1>t, <1>1, JobUpdates, CleanUpdates DEF ExecReported
  <2>2. ExecutorTypeOK'
    BY SMTT(60), <1>0, <2>1, <1>1, JobAssumption DEF JobType, CleanType, ExecReported
  <2>3. (KernelSound /\ RecordTrue /\ PathFollows /\ GateClosed /\ FailureRecorded)'
    BY SMTT(60), <1>0, <1>1 DEF ExecutorInv, ExecReported
  <2>4. (ResultMeansGone /\ AbandonedIsCollected /\ FailStopHasCause)'
    BY SMTT(60), <1>0, <1>1, JobAssumption DEF ExecutorInv, ResultMeansGone,
      AbandonedIsCollected, FailStopHasCause, ExecReported
  <2> QED BY <2>2, <2>3, <2>4 DEF ExecutorInv
<1>2. CASE ExecFailureReported
  <2>1. job' \in JobType /\ clean' \in CleanType
    BY <1>t, <1>2, JobUpdates, CleanUpdates DEF ExecFailureReported, CleanUp,
      ReapedAndJoined
  <2>2. ExecutorTypeOK'
    BY SMTT(60), <1>0, <2>1, <1>2, JobAssumption DEF JobType, CleanType,
      ExecFailureReported, CleanUp, ReapedAndJoined, Silent
  <2>3. (KernelSound /\ RecordTrue /\ PathFollows /\ GateClosed /\ FailureRecorded)'
    BY SMTT(60), <1>0, <1>2 DEF ExecutorInv, ExecFailureReported, CleanUp, ReapedAndJoined,
      Silent
  <2>4. (ResultMeansGone /\ AbandonedIsCollected /\ FailStopHasCause)'
    BY SMTT(60), <1>0, <1>2, JobAssumption DEF ExecutorInv, ResultMeansGone,
      AbandonedIsCollected, FailStopHasCause, ExecFailureReported, CleanUp, ReapedAndJoined,
      Silent
  <2> QED BY <2>2, <2>3, <2>4 DEF ExecutorInv
<1>3. CASE ExecPipeFails
  <2>1. job' \in JobType /\ clean' \in CleanType
    BY <1>t, <1>3, JobUpdates, CleanUpdates DEF ExecPipeFails
  <2>2. ExecutorTypeOK'
    BY SMTT(60), <1>0, <2>1, <1>3, JobAssumption DEF JobType, CleanType, ExecPipeFails,
      Silent
  <2>3. (KernelSound /\ RecordTrue /\ PathFollows /\ GateClosed /\ FailureRecorded)'
    BY SMTT(60), <1>0, <1>3 DEF ExecutorInv, ExecPipeFails, Silent
  <2>4. (ResultMeansGone /\ AbandonedIsCollected /\ FailStopHasCause)'
    BY SMTT(60), <1>0, <1>3, JobAssumption DEF ExecutorInv, ResultMeansGone,
      AbandonedIsCollected, FailStopHasCause, ExecPipeFails, Silent
  <2> QED BY <2>2, <2>3, <2>4 DEF ExecutorInv
<1>4. CASE ExecWaitFails
  <2>1. job' \in JobType /\ clean' \in CleanType
    BY <1>t, <1>4, JobUpdates, CleanUpdates DEF ExecWaitFails, OnlyJoined
  <2>2. ExecutorTypeOK'
    BY SMTT(60), <1>0, <2>1, <1>4, JobAssumption DEF JobType, CleanType, ExecWaitFails,
      OnlyJoined, Silent
  <2>3. (KernelSound /\ RecordTrue /\ PathFollows /\ GateClosed /\ FailureRecorded)'
    BY SMTT(60), <1>0, <1>4 DEF ExecutorInv, ExecWaitFails, OnlyJoined, Silent
  <2>4. (ResultMeansGone /\ AbandonedIsCollected /\ FailStopHasCause)'
    BY SMTT(60), <1>0, <1>4, JobAssumption DEF ExecutorInv, ResultMeansGone,
      AbandonedIsCollected, FailStopHasCause, ExecWaitFails, OnlyJoined, Silent
  <2> QED BY <2>2, <2>3, <2>4 DEF ExecutorInv
<1>5. CASE Cancelled
  <2>1. job' \in JobType /\ clean' \in CleanType
    BY <1>t, <1>5, JobUpdates, CleanUpdates DEF Cancelled
  <2>2. ExecutorTypeOK'
    BY <1>0, <2>1, <1>5, JobAssumption DEF JobType, CleanType, Cancelled, Decide,
      Trigger
  <2>3. (KernelSound /\ RecordTrue /\ PathFollows /\ GateClosed /\ FailureRecorded)'
    BY SMTT(60), <1>0, <1>5 DEF ExecutorInv, Cancelled, Decide, Trigger
  <2>4. (ResultMeansGone /\ AbandonedIsCollected /\ FailStopHasCause)'
    BY SMTT(60), <1>0, <1>5, JobAssumption DEF ExecutorInv, ResultMeansGone,
      AbandonedIsCollected, FailStopHasCause, Cancelled, Decide, Trigger
  <2> QED BY <2>2, <2>3, <2>4 DEF ExecutorInv
<1>6. CASE FailStopObserved
  <2>1. job' \in JobType /\ clean' \in CleanType
    BY <1>t, <1>6, JobUpdates, CleanUpdates DEF FailStopObserved
  <2>2. ExecutorTypeOK'
    BY SMTT(60), <1>0, <2>1, <1>6, JobAssumption DEF JobType, CleanType, FailStopObserved, Decide,
      Trigger
  <2>3. (KernelSound /\ RecordTrue /\ PathFollows /\ GateClosed /\ FailureRecorded)'
    BY SMTT(60), <1>0, <1>6 DEF ExecutorInv, FailStopObserved, Decide, Trigger
  <2>4. (ResultMeansGone /\ AbandonedIsCollected /\ FailStopHasCause)'
    BY SMTT(60), <1>0, <1>6, JobAssumption DEF ExecutorInv, ResultMeansGone,
      AbandonedIsCollected, FailStopHasCause, FailStopObserved, Decide, Trigger
  <2> QED BY <2>2, <2>3, <2>4 DEF ExecutorInv
<1>7. CASE TimedOut
  <2>1. job' \in JobType /\ clean' \in CleanType
    BY <1>t, <1>7, JobUpdates, CleanUpdates DEF TimedOut
  <2>2. ExecutorTypeOK'
    BY <1>0, <2>1, <1>7, JobAssumption DEF JobType, CleanType, TimedOut, Decide,
      Trigger, FirstOf
  <2>3. (KernelSound /\ RecordTrue /\ PathFollows /\ GateClosed /\ FailureRecorded)'
    BY SMTT(60), <1>0, <1>7 DEF ExecutorInv, TimedOut, Decide, Trigger, FirstOf
  <2>4. (ResultMeansGone /\ AbandonedIsCollected /\ FailStopHasCause)'
    BY SMTT(60), <1>0, <1>7, JobAssumption DEF ExecutorInv, ResultMeansGone,
      AbandonedIsCollected, FailStopHasCause, TimedOut, Decide, Trigger, FirstOf
  <2> QED BY <2>2, <2>3, <2>4 DEF ExecutorInv
<1>8. CASE Exited
  <2>1. job' \in JobType /\ clean' \in CleanType
    <3>1. PICK b \in BOOLEAN :
             /\ job' = IF b THEN [Killed EXCEPT !.child = "REAPED"] ELSE Reaped
             /\ clean' = [clean EXCEPT !.path = "STARTED", !.killSent = b, !.reaped = TRUE]
      BY <1>8 DEF Exited
    <3> QED BY <1>t, <3>1, JobUpdates, CleanUpdates DEF Killed, Reaped
  <2>2. ExecutorTypeOK'
    BY <1>0, <2>1, <1>8, JobAssumption DEF JobType, CleanType, Exited, Reaped, Killed,
      Decide, Trigger, FirstOf
  <2>3. (KernelSound /\ RecordTrue /\ PathFollows /\ GateClosed /\ FailureRecorded)'
    BY SMTT(60), <1>0, <1>8 DEF ExecutorInv, Exited, Reaped, Killed, Decide, Trigger, FirstOf
  <2>4. (ResultMeansGone /\ AbandonedIsCollected /\ FailStopHasCause)'
    BY SMTT(60), <1>0, <1>8, JobAssumption DEF ExecutorInv, ResultMeansGone,
      AbandonedIsCollected, FailStopHasCause, Exited, Reaped, Killed, Decide, Trigger,
      FirstOf
  <2> QED BY <2>2, <2>3, <2>4 DEF ExecutorInv
<1>9. CASE WaitFails
  <2>1. job' \in JobType /\ clean' \in CleanType
    BY <1>t, <1>9, JobUpdates, CleanUpdates DEF WaitFails, Recovers
  <2>2. ExecutorTypeOK'
    BY SMTT(60), <1>0, <2>1, <1>9, JobAssumption DEF JobType, CleanType, WaitFails,
      Recovers, Decide, Trigger
  <2>3. (KernelSound /\ RecordTrue /\ PathFollows /\ GateClosed /\ FailureRecorded)'
    BY SMTT(60), <1>0, <1>9 DEF ExecutorInv, WaitFails, Recovers, Decide, Trigger
  <2>4. (ResultMeansGone /\ AbandonedIsCollected /\ FailStopHasCause)'
    BY SMTT(60), <1>0, <1>9, JobAssumption DEF ExecutorInv, ResultMeansGone,
      AbandonedIsCollected, FailStopHasCause, WaitFails, Recovers, Decide, Trigger
  <2> QED BY <2>2, <2>3, <2>4 DEF ExecutorInv
<1>10. CASE ControlledKill
  <2>1. job' \in JobType /\ clean' \in CleanType
    BY <1>t, <1>10, JobUpdates, CleanUpdates DEF ControlledKill, Recovers, Killed
  <2>2. ExecutorTypeOK'
    BY SMTT(60), <1>0, <2>1, <1>10, JobAssumption DEF JobType, CleanType, ControlledKill,
      Recovers, Killed, Silent
  <2>a. /\ job'.child = job.child /\ job'.cgroup = job.cgroup /\ job'.forks = job.forks
        /\ job'.execed = job.execed
        /\ job'.readers = job.readers
    BY SMTT(60), <1>t, <1>10 DEF JobType, CleanType, ControlledKill, Killed
  <2>b. /\ clean'.attempt = clean.attempt /\ clean'.reaped = clean.reaped
        /\ clean'.aborted = clean.aborted /\ clean'.uncertain = clean.uncertain
        /\ clean'.finish = clean.finish
        /\ \/ clean'.path = clean.path /\ pc' = "REAP" /\ clean'.failed = clean.failed
           \/ clean'.path = "RECOVERY" /\ pc' = "R_KILL" /\ clean'.failed = TRUE
    BY <1>t, <1>10, ControlledKillRecords
  <2>c. /\ clean.path = "STARTED" /\ clean.finish = "NONE" /\ outcome = "NONE"
        /\ job.cgroup # "ABSENT" /\ UNCHANGED <<phase, firstReport, outcome>>
    BY SMTT(60), <1>0, <1>10 DEF ExecutorInv, ControlledKill, Silent
  <2>3. (KernelSound /\ RecordTrue /\ PathFollows /\ GateClosed /\ FailureRecorded)'
    BY SMTT(60), <1>0, <2>a, <2>b, <2>c DEF ExecutorInv
  <2>4. (ResultMeansGone /\ AbandonedIsCollected /\ FailStopHasCause)'
    BY SMTT(60), <1>0, <2>a, <2>b, <2>c, JobAssumption
    DEF ExecutorInv, ResultMeansGone, AbandonedIsCollected, FailStopHasCause
  <2> QED BY <2>2, <2>3, <2>4 DEF ExecutorInv
<1>11. CASE ControlledReap
  <2>1. job' \in JobType /\ clean' \in CleanType
    BY <1>t, <1>11, JobUpdates, CleanUpdates DEF ControlledReap, Recovers, Reaped
  <2>2. ExecutorTypeOK'
    BY SMTT(60), <1>0, <2>1, <1>11, JobAssumption DEF JobType, CleanType, ControlledReap,
      Recovers, Reaped, Silent
  <2>a. /\ job'.cgroup = job.cgroup /\ job'.forks = job.forks /\ job'.execed = job.execed
        /\ job'.readers = job.readers
    BY SMTT(60), <1>t, <1>11 DEF JobType, CleanType, ControlledReap, Reaped
  <2>b. /\ clean'.attempt = clean.attempt
        /\ clean'.aborted = clean.aborted /\ clean'.uncertain = clean.uncertain
        /\ clean'.finish = clean.finish
        /\ \/ /\ clean'.path = clean.path /\ pc' = "FINISH" /\ clean'.failed = clean.failed
              /\ clean'.reaped = TRUE /\ job.child = "DEAD" /\ job'.child = "REAPED"
           \/ /\ clean'.path = "RECOVERY" /\ pc' = "R_KILL" /\ clean'.failed = TRUE
              /\ clean'.reaped = clean.reaped /\ job'.child = job.child
    BY <1>t, <1>11, ControlledReapRecords
  <2>c. /\ clean.path = "STARTED" /\ clean.finish = "NONE" /\ outcome = "NONE"
        /\ job.cgroup # "ABSENT" /\ UNCHANGED <<phase, firstReport, outcome>>
    BY SMTT(60), <1>0, <1>11 DEF ExecutorInv, ControlledReap, Silent
  <2>3. (KernelSound /\ RecordTrue /\ PathFollows /\ GateClosed /\ FailureRecorded)'
    BY SMTT(60), <1>0, <2>a, <2>b, <2>c DEF ExecutorInv
  <2>4. (ResultMeansGone /\ AbandonedIsCollected /\ FailStopHasCause)'
    BY SMTT(60), <1>0, <2>a, <2>b, <2>c, JobAssumption
    DEF ExecutorInv, ResultMeansGone, AbandonedIsCollected, FailStopHasCause
  <2> QED BY <2>2, <2>3, <2>4 DEF ExecutorInv
<1>12. CASE StopReaps
  <2>1. job' \in JobType /\ clean' \in CleanType
    BY <1>t, <1>12, JobUpdates, CleanUpdates DEF StopReaps, CleanUp, ReapedAndJoined
  <2>2. ExecutorTypeOK'
    BY SMTT(60), <1>0, <2>1, <1>12, JobAssumption DEF JobType, CleanType, StopReaps, Zombie,
      CleanUp, ReapedAndJoined, Silent
  <2>3. (KernelSound /\ RecordTrue /\ PathFollows /\ GateClosed /\ FailureRecorded)'
    BY SMTT(60), <1>0, <1>12 DEF ExecutorInv, StopReaps, Zombie, CleanUp, ReapedAndJoined,
      Silent
  <2>4. (ResultMeansGone /\ AbandonedIsCollected /\ FailStopHasCause)'
    BY SMTT(60), <1>0, <1>12, JobAssumption DEF ExecutorInv, ResultMeansGone,
      AbandonedIsCollected, FailStopHasCause, StopReaps, Zombie, CleanUp, ReapedAndJoined,
      Silent
  <2> QED BY <2>2, <2>3, <2>4 DEF ExecutorInv
<1> QED BY <1>1, <1>2, <1>3, <1>4, <1>5, <1>6, <1>7, <1>8, <1>9, <1>10, <1>11, <1>12

LEMMA CleanupKeeps ==
    ASSUME ExecutorInv,
           RecoverKill \/ RecoverReap \/ RecoverAgain \/ RecoverReapAgain \/
           FinishBegins \/ WaitEmpty \/ RemoveOk \/ StatsFail \/ FinishFails
    PROVE  ExecutorInv'
<1>0. ExecutorTypeOK
  BY SMTT(60) DEF ExecutorInv
<1>t. job \in JobType /\ clean \in CleanType
  BY <1>0 DEF ExecutorTypeOK, JobType, CleanType
<1> USE DEF ExecutorTypeOK, FailStopTypeOK, StartStates, LatchStates, Paths, KernelSound,
            ChildGone, RecordTrue, PathFollows, GateClosed, FailureRecorded, Populated, Alive,
            failStopVars, verdictVars, Goto
<1>1. CASE RecoverKill
  <2>1. job' \in JobType /\ clean' \in CleanType
    BY <1>t, <1>1, JobUpdates, CleanUpdates DEF RecoverKill, Killed, KillAttempt
  <2>2. ExecutorTypeOK'
    BY SMTT(60), <1>0, <2>1, <1>1, JobAssumption DEF JobType, CleanType, RecoverKill, Killed,
      KillAttempt, Silent
  <2>3. (KernelSound /\ RecordTrue /\ PathFollows /\ GateClosed /\ FailureRecorded)'
    BY SMTT(60), <1>0, <1>1 DEF ExecutorInv, RecoverKill, Killed, KillAttempt, Silent
  <2>4. (ResultMeansGone /\ AbandonedIsCollected /\ FailStopHasCause)'
    BY SMTT(60), <1>0, <1>1, JobAssumption DEF ExecutorInv, ResultMeansGone,
      AbandonedIsCollected, FailStopHasCause, RecoverKill, Killed, KillAttempt, Silent
  <2> QED BY <2>2, <2>3, <2>4 DEF ExecutorInv
<1>2. CASE RecoverReap
  <2>1. job' \in JobType /\ clean' \in CleanType
    BY <1>t, <1>2, JobUpdates, CleanUpdates DEF RecoverReap, Reaped, ReapAttempt
  <2>2. ExecutorTypeOK'
    BY SMTT(60), <1>0, <2>1, <1>2, JobAssumption DEF JobType, CleanType, RecoverReap, Reaped,
      ReapAttempt, Silent
  <2>3. (KernelSound /\ RecordTrue /\ PathFollows /\ GateClosed /\ FailureRecorded)'
    BY SMTT(60), <1>0, <1>2 DEF ExecutorInv, RecoverReap, Reaped, ReapAttempt, Silent
  <2>4. (ResultMeansGone /\ AbandonedIsCollected /\ FailStopHasCause)'
    BY SMTT(60), <1>0, <1>2, JobAssumption DEF ExecutorInv, ResultMeansGone,
      AbandonedIsCollected, FailStopHasCause, RecoverReap, Reaped, ReapAttempt, Silent
  <2> QED BY <2>2, <2>3, <2>4 DEF ExecutorInv
<1>3. CASE RecoverAgain
  <2>1. job' \in JobType /\ clean' \in CleanType
    BY <1>t, <1>3, JobUpdates, CleanUpdates DEF RecoverAgain, Killed, KillAttempt
  <2>2. ExecutorTypeOK'
    BY SMTT(60), <1>0, <2>1, <1>3, JobAssumption DEF JobType, CleanType, RecoverAgain, Killed,
      KillAttempt, activate, is_fail_stopping
  <2>3. (KernelSound /\ RecordTrue /\ PathFollows /\ GateClosed /\ FailureRecorded)'
    BY SMTT(60), <1>0, <1>3 DEF ExecutorInv, RecoverAgain, Killed, KillAttempt, activate,
      is_fail_stopping
  <2>4. (ResultMeansGone /\ AbandonedIsCollected /\ FailStopHasCause)'
    BY SMTT(60), <1>0, <1>3, JobAssumption DEF ExecutorInv, ResultMeansGone,
      AbandonedIsCollected, FailStopHasCause, RecoverAgain, Killed, KillAttempt,
      activate, is_fail_stopping
  <2> QED BY <2>2, <2>3, <2>4 DEF ExecutorInv
<1>4. CASE RecoverReapAgain
  <2>1. job' \in JobType /\ clean' \in CleanType
    BY <1>t, <1>4, JobUpdates, CleanUpdates DEF RecoverReapAgain, Reaped,
      ReapAttempt
  <2>2. ExecutorTypeOK'
    BY SMTT(60), <1>0, <2>1, <1>4, JobAssumption DEF JobType, CleanType, RecoverReapAgain, Reaped,
      ReapAttempt, Silent
  <2>3. (KernelSound /\ RecordTrue /\ PathFollows /\ GateClosed /\ FailureRecorded)'
    BY SMTT(60), <1>0, <1>4 DEF ExecutorInv, RecoverReapAgain, Reaped, ReapAttempt, Silent
  <2>4. (ResultMeansGone /\ AbandonedIsCollected /\ FailStopHasCause)'
    BY SMTT(60), <1>0, <1>4, JobAssumption DEF ExecutorInv, ResultMeansGone,
      AbandonedIsCollected, FailStopHasCause, RecoverReapAgain, Reaped, ReapAttempt,
      Silent
  <2> QED BY <2>2, <2>3, <2>4 DEF ExecutorInv
<1>5. CASE FinishBegins
  <2>1. job' \in JobType /\ clean' \in CleanType
    BY <1>t, <1>5, JobUpdates, CleanUpdates DEF FinishBegins, Killed
  <2>2. ExecutorTypeOK'
    BY SMTT(60), <1>0, <2>1, <1>5, JobAssumption DEF JobType, CleanType, FinishBegins, Killed,
      Silent
  <2>3. (KernelSound /\ RecordTrue /\ PathFollows /\ GateClosed /\ FailureRecorded)'
    BY SMTT(60), <1>0, <1>5 DEF ExecutorInv, FinishBegins, Killed, Silent
  <2>4. (ResultMeansGone /\ AbandonedIsCollected /\ FailStopHasCause)'
    BY SMTT(60), <1>0, <1>5, JobAssumption DEF ExecutorInv, ResultMeansGone,
      AbandonedIsCollected, FailStopHasCause, FinishBegins, Killed, Silent
  <2> QED BY <2>2, <2>3, <2>4 DEF ExecutorInv
<1>6. CASE WaitEmpty
  <2>1. job' \in JobType /\ clean' \in CleanType
    BY <1>t, <1>6, JobUpdates, CleanUpdates DEF WaitEmpty
  <2>2. ExecutorTypeOK'
    BY SMTT(60), <1>0, <2>1, <1>6, JobAssumption DEF JobType, CleanType, WaitEmpty, Silent
  <2>3. (KernelSound /\ RecordTrue /\ PathFollows /\ GateClosed /\ FailureRecorded)'
    BY SMTT(60), <1>0, <1>6 DEF ExecutorInv, WaitEmpty, Silent
  <2>4. (ResultMeansGone /\ AbandonedIsCollected /\ FailStopHasCause)'
    BY SMTT(60), <1>0, <1>6, JobAssumption DEF ExecutorInv, ResultMeansGone,
      AbandonedIsCollected, FailStopHasCause, WaitEmpty, Silent
  <2> QED BY <2>2, <2>3, <2>4 DEF ExecutorInv
<1>7. CASE RemoveOk
  <2>1. job' \in JobType /\ clean' \in CleanType
    BY <1>t, <1>7, JobUpdates, CleanUpdates DEF RemoveOk
  <2>2. ExecutorTypeOK'
    BY SMTT(60), <1>0, <2>1, <1>7, JobAssumption DEF JobType, CleanType, RemoveOk, Silent
  <2>3. (KernelSound /\ RecordTrue /\ PathFollows /\ GateClosed /\ FailureRecorded)'
    BY SMTT(60), <1>0, <1>7 DEF ExecutorInv, RemoveOk, Silent
  <2>4. (ResultMeansGone /\ AbandonedIsCollected /\ FailStopHasCause)'
    BY SMTT(60), <1>0, <1>7, JobAssumption DEF ExecutorInv, ResultMeansGone,
      AbandonedIsCollected, FailStopHasCause, RemoveOk, Silent
  <2> QED BY <2>2, <2>3, <2>4 DEF ExecutorInv
<1>8. CASE StatsFail
  <2>1. job' \in JobType /\ clean' \in CleanType
    BY <1>t, <1>8, JobUpdates, CleanUpdates DEF StatsFail
  <2>2. ExecutorTypeOK'
    BY SMTT(60), <1>0, <2>1, <1>8, JobAssumption DEF JobType, CleanType, StatsFail, activate,
      is_fail_stopping
  <2>3. (KernelSound /\ RecordTrue /\ PathFollows /\ GateClosed /\ FailureRecorded)'
    BY SMTT(60), <1>0, <1>8 DEF ExecutorInv, StatsFail, activate, is_fail_stopping
  <2>4. (ResultMeansGone /\ AbandonedIsCollected /\ FailStopHasCause)'
    BY SMTT(60), <1>0, <1>8, JobAssumption DEF ExecutorInv, ResultMeansGone,
      AbandonedIsCollected, FailStopHasCause, StatsFail, activate, is_fail_stopping
  <2> QED BY <2>2, <2>3, <2>4 DEF ExecutorInv
<1>9. CASE FinishFails
  <2>1. job' \in JobType /\ clean' \in CleanType
    BY <1>t, <1>9, JobUpdates, CleanUpdates DEF FinishFails
  <2>2. ExecutorTypeOK'
    BY SMTT(60), <1>0, <2>1, <1>9, JobAssumption DEF JobType, CleanType, FinishFails,
      activate, is_fail_stopping
  <2>a. job' = job
    BY SMTT(60), <1>t, <1>9 DEF JobType, CleanType, FinishFails
  <2>b. /\ clean'.path = clean.path /\ clean'.reaped = clean.reaped
        /\ clean'.aborted = clean.aborted /\ clean'.uncertain = clean.uncertain
        /\ clean'.failed = TRUE
        /\ \/ clean'.finish = clean.finish /\ pc' = "FINISH"
           \/ clean'.finish = "ERR" /\ pc' = "FINISHED"
    BY <1>t, <1>9, FinishFailsRecords
  <2>c. /\ pc \in {"FINISH", "EMPTY", "REMOVE"} /\ clean.finish = "NONE" /\ outcome = "NONE"
        /\ job.cgroup # "ABSENT" /\ UNCHANGED outcome
        /\ phase = "FAIL_STOPPING" => phase' = "FAIL_STOPPING"
    BY SMTT(60), <1>0, <1>9 DEF ExecutorInv, FinishFails, activate, is_fail_stopping
  <2>3. (KernelSound /\ RecordTrue /\ PathFollows /\ GateClosed /\ FailureRecorded)'
    BY SMTT(60), <1>0, <2>a, <2>b, <2>c DEF ExecutorInv
  <2>4. (ResultMeansGone /\ AbandonedIsCollected /\ FailStopHasCause)'
    BY SMTT(60), <1>0, <2>a, <2>b, <2>c, JobAssumption
    DEF ExecutorInv, ResultMeansGone, AbandonedIsCollected, FailStopHasCause
  <2> QED BY <2>2, <2>3, <2>4 DEF ExecutorInv
<1> QED BY <1>1, <1>2, <1>3, <1>4, <1>5, <1>6, <1>7, <1>8, <1>9

LEMMA EndKeeps ==
    ASSUME ExecutorInv,
           EndUnstarted \/ DropPending \/ DropReaps \/ DropWaitFails \/ EndStarted \/
           ReapLast \/ OutputOk \/ OutputFails
    PROVE  ExecutorInv'
<1>0. ExecutorTypeOK
  BY SMTT(60) DEF ExecutorInv
<1>t. job \in JobType /\ clean \in CleanType
  BY <1>0 DEF ExecutorTypeOK, JobType, CleanType
<1> USE DEF ExecutorTypeOK, FailStopTypeOK, StartStates, LatchStates, Paths, KernelSound,
            ChildGone, RecordTrue, PathFollows, GateClosed, FailureRecorded, Populated, Alive,
            failStopVars, verdictVars, Goto
<1>1. CASE EndUnstarted
  <2>1. job' \in JobType /\ clean' \in CleanType
    BY <1>t, <1>1, JobUpdates, CleanUpdates DEF EndUnstarted
  <2>2. ExecutorTypeOK'
    BY SMTT(60), <1>0, <2>1, <1>1, JobAssumption DEF JobType, CleanType, EndUnstarted, Return,
      PathResult, FinishOk, activate, is_fail_stopping
  <2>3. (KernelSound /\ RecordTrue /\ PathFollows /\ GateClosed /\ FailureRecorded)'
    BY SMTT(60), <1>0, <1>1 DEF ExecutorInv, EndUnstarted, Return, PathResult, FinishOk, activate,
      is_fail_stopping
  <2>4. (ResultMeansGone /\ AbandonedIsCollected /\ FailStopHasCause)'
    <3>1. PathResult \in {"COMPLETED", "REUSABLE", "BLOCKED"} =>
             /\ ~Populated /\ job.cgroup = "REMOVED"
             /\ job.child \in {"NONE", "REAPED"} /\ job.readers # "OPEN"
      BY SMTT(60), <1>0, <1>1 DEF ExecutorInv, EndUnstarted, PathResult, FinishOk
    <3>2. /\ PathResult = "BLOCKED" => phase = "FAIL_STOPPING"
          /\ PathResult = "UNCERTAIN" => clean.failed
      BY SMTT(60), <1>0, <1>1 DEF ExecutorInv, EndUnstarted, PathResult, FinishOk
    <3>3. outcome' = PathResult /\ job' = job /\ clean' = clean /\ active' = active
      BY <1>1 DEF EndUnstarted, Return
    <3>4. firstReport' = firstReport \/ clean.failed
      BY SMTT(60), <1>1, <3>2, <3>3 DEF EndUnstarted, Return, activate, is_fail_stopping
    <3>5. outcome = "NONE" /\ (clean.path = "PENDING" => ChildGone)
      BY <1>0, <1>1 DEF ExecutorInv, EndUnstarted
    <3> QED BY SMTT(60), <1>0, <3>1, <3>3, <3>4, <3>5, JobAssumption
          DEF ExecutorInv, ResultMeansGone, AbandonedIsCollected, FailStopHasCause
  <2> QED BY <2>2, <2>3, <2>4 DEF ExecutorInv
<1>2. CASE EndStarted
  <2>1. job' \in JobType /\ clean' \in CleanType
    BY <1>t, <1>2, JobUpdates, CleanUpdates DEF EndStarted
  <2>2. ExecutorTypeOK'
    BY SMTT(60), <1>0, <2>1, <1>2, JobAssumption DEF JobType, CleanType, EndStarted, FinishOk,
      Silent
  <2>3. (KernelSound /\ RecordTrue /\ PathFollows /\ GateClosed /\ FailureRecorded)'
    BY SMTT(60), <1>0, <1>2 DEF ExecutorInv, EndStarted, FinishOk, Silent
  <2>4. (ResultMeansGone /\ AbandonedIsCollected /\ FailStopHasCause)'
    BY SMTT(60), <1>0, <1>2, JobAssumption DEF ExecutorInv, ResultMeansGone,
      AbandonedIsCollected, FailStopHasCause, EndStarted, FinishOk, Silent
  <2> QED BY <2>2, <2>3, <2>4 DEF ExecutorInv
<1>3. CASE ReapLast
  <2>1. job' \in JobType /\ clean' \in CleanType
    BY <1>t, <1>3, JobUpdates, CleanUpdates DEF ReapLast, Reaped, ReapAttempt
  <2>2. ExecutorTypeOK'
    BY SMTT(60), <1>0, <2>1, <1>3, JobAssumption DEF JobType, CleanType, ReapLast, Reaped,
      ReapAttempt, Silent
  <2>3. (KernelSound /\ RecordTrue /\ PathFollows /\ GateClosed /\ FailureRecorded)'
    BY SMTT(60), <1>0, <1>3 DEF ExecutorInv, ReapLast, Reaped, ReapAttempt, Silent
  <2>4. (ResultMeansGone /\ AbandonedIsCollected /\ FailStopHasCause)'
    BY SMTT(60), <1>0, <1>3, JobAssumption DEF ExecutorInv, ResultMeansGone,
      AbandonedIsCollected, FailStopHasCause, ReapLast, Reaped, ReapAttempt, Silent
  <2> QED BY <2>2, <2>3, <2>4 DEF ExecutorInv
<1>4. CASE OutputOk
  <2>1. job' \in JobType /\ clean' \in CleanType
    BY <1>t, <1>4, JobUpdates, CleanUpdates DEF OutputOk, OnlyJoined
  <2>2. ExecutorTypeOK'
    BY SMTT(60), <1>0, <2>1, <1>4, JobAssumption DEF JobType, CleanType, OutputOk, OnlyJoined,
      Return, FinishOk, CleanupProved, activate, is_fail_stopping
  <2>3. (KernelSound /\ RecordTrue /\ PathFollows /\ GateClosed /\ FailureRecorded)'
    BY SMTT(60), <1>0, <1>4 DEF ExecutorInv, OutputOk, OnlyJoined, Return, FinishOk,
      CleanupProved, activate, is_fail_stopping
  <2>a. /\ job'.child = job.child /\ job'.cgroup = job.cgroup /\ job'.forks = job.forks
        /\ job'.execed = job.execed
        /\ job'.readers = "JOINED"
    BY SMTT(60), <1>t, <1>4 DEF JobType, OutputOk, OnlyJoined
  <2>b. /\ clean'.path = clean.path /\ pc = "OUTPUT"
        /\ clean.path # "PENDING" /\ (clean.failed => clean'.failed)
    BY SMTT(60), <1>t, <1>0, <1>4 DEF ExecutorInv, CleanType, OutputOk
  <2>c. PICK result \in (IF CleanupProved THEN {"COMPLETED", "REUSABLE"} ELSE {"UNCERTAIN"}) :
           Return(result)
    BY <1>4 DEF OutputOk
  <2>d. result \in {"COMPLETED", "REUSABLE"} =>
           ~Populated /\ job.cgroup = "REMOVED" /\ job.child = "REAPED"
    BY SMTT(60), <1>0, <2>c DEF ExecutorInv, CleanupProved, FinishOk
  <2>e. result = "UNCERTAIN" => clean.failed
    BY SMTT(60), <1>0, <1>t, <2>b, <2>c
    DEF ExecutorInv, CleanType, CleanupProved, FinishOk
  <2>f. outcome' = result /\ (firstReport' = firstReport \/ result = "UNCERTAIN")
    BY SMTT(60), <2>c DEF Return, activate, is_fail_stopping
  <2>g. result \in {"COMPLETED", "REUSABLE", "UNCERTAIN"}
    BY <2>c
  <2>4. (ResultMeansGone /\ AbandonedIsCollected /\ FailStopHasCause)'
    BY SMTT(60), <1>0, <2>a, <2>b, <2>d, <2>e, <2>f, <2>g
    DEF ExecutorInv, ResultMeansGone, AbandonedIsCollected, FailStopHasCause
  <2> QED BY <2>2, <2>3, <2>4 DEF ExecutorInv
<1>5. CASE OutputFails
  <2>1. job' \in JobType /\ clean' \in CleanType
    BY <1>t, <1>5, JobUpdates, CleanUpdates DEF OutputFails, OnlyJoined
  <2>2. ExecutorTypeOK'
    BY SMTT(60), <1>0, <2>1, <1>5, JobAssumption DEF JobType, CleanType, OutputFails, OnlyJoined,
      Return, FinishOk, CleanupProved, activate, is_fail_stopping
  <2>3. (KernelSound /\ RecordTrue /\ PathFollows /\ GateClosed /\ FailureRecorded)'
    BY SMTT(60), <1>0, <1>5 DEF ExecutorInv, OutputFails, OnlyJoined, Return, FinishOk,
      CleanupProved, activate, is_fail_stopping
  <2>a. /\ job'.child = job.child /\ job'.cgroup = job.cgroup /\ job'.forks = job.forks
        /\ job'.execed = job.execed
        /\ job'.readers = "JOINED"
    BY SMTT(60), <1>t, <1>5 DEF JobType, OutputFails, OnlyJoined
  <2>b. /\ clean'.path = clean.path /\ pc = "OUTPUT"
        /\ clean.path # "PENDING" /\ (clean.failed => clean'.failed)
    BY SMTT(60), <1>t, <1>0, <1>5 DEF ExecutorInv, CleanType, OutputFails
  <2>c. outcome' = "UNCERTAIN" /\ clean'.failed
    BY SMTT(60), <1>t, <1>5 DEF CleanType, OutputFails, Return
  <2>4. (ResultMeansGone /\ AbandonedIsCollected /\ FailStopHasCause)'
    BY <2>a, <2>b, <2>c DEF ResultMeansGone, AbandonedIsCollected, FailStopHasCause
  <2> QED BY <2>2, <2>3, <2>4 DEF ExecutorInv
<1>6. CASE DropPending
  <2>1. job' \in JobType /\ clean' \in CleanType
    BY <1>t, <1>6, JobUpdates, CleanUpdates DEF DropPending
  <2>2. ExecutorTypeOK'
    BY SMTT(60), <1>0, <2>1, <1>6, JobAssumption DEF JobType, CleanType, DropPending, Silent
  <2>3. (KernelSound /\ RecordTrue /\ PathFollows /\ GateClosed /\ FailureRecorded)'
    BY SMTT(60), <1>0, <1>6 DEF ExecutorInv, DropPending, Silent
  <2>4. (ResultMeansGone /\ AbandonedIsCollected /\ FailStopHasCause)'
    BY SMTT(60), <1>0, <1>6, JobAssumption DEF ExecutorInv, ResultMeansGone,
      AbandonedIsCollected, FailStopHasCause, DropPending, Silent
  <2> QED BY <2>2, <2>3, <2>4 DEF ExecutorInv
<1>7. CASE DropReaps
  <2>1. job' \in JobType /\ clean' \in CleanType
    BY <1>t, <1>7, JobUpdates, CleanUpdates DEF DropReaps, ReapedAndJoined
  <2>2. ExecutorTypeOK'
    BY SMTT(60), <1>0, <2>1, <1>7, JobAssumption DEF JobType, CleanType, DropReaps, Zombie,
      ReapedAndJoined, Return, activate, is_fail_stopping
  <2>3. (KernelSound /\ RecordTrue /\ PathFollows /\ GateClosed /\ FailureRecorded)'
    BY SMTT(60), <1>0, <1>7 DEF ExecutorInv, DropReaps, Zombie, ReapedAndJoined, Return,
      activate, is_fail_stopping
  <2>4. (ResultMeansGone /\ AbandonedIsCollected /\ FailStopHasCause)'
    BY SMTT(60), <1>0, <1>7, JobAssumption DEF ExecutorInv, ResultMeansGone,
      AbandonedIsCollected, FailStopHasCause, DropReaps, Zombie, ReapedAndJoined, Return,
      activate, is_fail_stopping
  <2> QED BY <2>2, <2>3, <2>4 DEF ExecutorInv
<1>8. CASE DropWaitFails
  <2>1. job' \in JobType /\ clean' \in CleanType
    BY <1>t, <1>8, JobUpdates, CleanUpdates DEF DropWaitFails, OnlyJoined
  <2>2. ExecutorTypeOK'
    BY SMTT(60), <1>0, <2>1, <1>8, JobAssumption DEF JobType, CleanType, DropWaitFails,
      OnlyJoined, Return, activate, is_fail_stopping
  <2>3. (KernelSound /\ RecordTrue /\ PathFollows /\ GateClosed /\ FailureRecorded)'
    BY SMTT(60), <1>0, <1>8 DEF ExecutorInv, DropWaitFails, OnlyJoined, Return, activate,
      is_fail_stopping
  <2>4. (ResultMeansGone /\ AbandonedIsCollected /\ FailStopHasCause)'
    BY SMTT(60), <1>0, <1>8, JobAssumption DEF ExecutorInv, ResultMeansGone,
      AbandonedIsCollected, FailStopHasCause, DropWaitFails, OnlyJoined, Return, activate,
      is_fail_stopping
  <2> QED BY <2>2, <2>3, <2>4 DEF ExecutorInv
<1> QED BY <1>1, <1>2, <1>3, <1>4, <1>5, <1>6, <1>7, <1>8

-----------------------------------------------------------------------------
(* The theorems *)

\* The record of run_task stays true of the kernel, whatever fails and whenever
\* the kernel, a cancel or another task's fail-stop interferes.
THEOREM ExecutorInvariant == ExecutorSpec => []ExecutorInv
<1>1. ExecutorInit => ExecutorInv
  <2> SUFFICES ASSUME ExecutorInit PROVE ExecutorInv
    BY SMTT(60)
  <2>1. ExecutorTypeOK
    <3>1. 1 \in 1 .. 2
      BY SMTT(60)
    <3> QED BY <3>1, TaskAssumption, JobAssumption
          DEF ExecutorInit, ExecutorTypeOK, FailStopTypeOK, StartStates, LatchStates, Paths
  <2>2. KernelSound /\ RecordTrue /\ PathFollows /\ GateClosed /\ FailureRecorded
    BY SMTT(60) DEF ExecutorInit, KernelSound, RecordTrue, PathFollows, GateClosed,
       FailureRecorded, ChildGone, Populated, Alive
  <2>3. ResultMeansGone /\ AbandonedIsCollected /\ FailStopHasCause
    BY SMTT(60), TaskAssumption, JobAssumption
    DEF ExecutorInit, ResultMeansGone, AbandonedIsCollected, FailStopHasCause
  <2> QED BY <2>1, <2>2, <2>3 DEF ExecutorInv
<1>2. ExecutorInv /\ [ExecutorNext]_executorVars => ExecutorInv'
  <2> SUFFICES ASSUME ExecutorInv, [ExecutorNext]_executorVars PROVE ExecutorInv'
    BY SMTT(60)
  <2>1. CASE RunTask
    BY <2>1, BeforeGateKeeps, StartedKeeps, CleanupKeeps, EndKeeps DEF RunTask
  <2>2. CASE Environment
    BY <2>2, EnvironmentKeeps DEF Environment
  <2>3. CASE Returned \/ UNCHANGED executorVars
    BY SMTT(60), <2>3
    DEF Returned, executorVars, failStopVars, verdictVars, ExecutorInv, ExecutorTypeOK,
        FailStopTypeOK, KernelSound, RecordTrue, ChildGone, PathFollows, GateClosed,
        FailureRecorded, ResultMeansGone, AbandonedIsCollected, FailStopHasCause, Populated
  <2> QED BY <2>1, <2>2, <2>3 DEF ExecutorNext
<1> QED BY <1>1, <1>2, PTL DEF ExecutorSpec

\* The executor's variables keep their types.
THEOREM ExecutorTypeCorrect == ExecutorSpec => []ExecutorTypeOK
<1>1. ExecutorInv => ExecutorTypeOK
  BY DEF ExecutorInv
<1> QED BY <1>1, ExecutorInvariant, PTL

\* Whatever result run_task returns other than an uncertain one, the process
\* tree, the cgroup and the readers are gone: the capacity may be reused.
THEOREM ResultsAreClean == ExecutorSpec => []ResultMeansGone
<1>1. ExecutorInv => ResultMeansGone
  BY DEF ExecutorInv
<1> QED BY <1>1, ExecutorInvariant, PTL

\* A start that was given up before its commit ran nothing, and by the time
\* run_task returns its child and its readers were collected, unless waitpid
\* itself failed.
THEOREM AbandonedAreCollected == ExecutorSpec => []AbandonedIsCollected
<1>1. ExecutorInv => AbandonedIsCollected
  BY DEF ExecutorInv
<1> QED BY <1>1, ExecutorInvariant, PTL

\* run_task raises fail-stop only after one of its own cleanup operations failed.
THEOREM FailStopIsCaused == ExecutorSpec => []FailStopHasCause
<1>1. ExecutorInv => FailStopHasCause
  BY DEF ExecutorInv
<1> QED BY <1>1, ExecutorInvariant, PTL

-----------------------------------------------------------------------------
(* Refinement: run_task implements the execution the service relies on *)

\* What is started, committed and stopped at each position of run_task.
StageKnown ==
    /\ pc \in {"START", "JOB", "SPAWNED", "ABORT", "ABORT_AGAIN"} =>
          ~started /\ active[Job] # "COMMITTED"
    /\ pc \in {"COMMITTED", "STOP"} => ~started /\ active[Job] = "COMMITTED"
    /\ pc \in {"STARTED", "KILL", "REAP", "R_KILL", "R_REAP", "R_AGAIN", "R_REAP_AGAIN",
               "REAP_LAST", "OUTPUT"} => started
    /\ started => active[Job] = "COMMITTED"
    /\ clean.path \in {"FAIL_STOP", "PENDING"} => ~started /\ active[Job] # "COMMITTED"
    /\ clean.path = "FAILURE" => ~started
    /\ clean.path = "EXEC_FAILED" => ~started /\ active[Job] = "COMMITTED"
    /\ clean.path \in {"STARTED", "RECOVERY"} => started
    /\ daemon_error => is_fail_stopping \/ pc \in {"R_KILL", "R_REAP", "R_AGAIN"}

RefinementInv == ExecutorInv /\ StageKnown

LEMMA StageInit == ExecutorInit => StageKnown
  BY SMTT(60), JobAssumption DEF ExecutorInit, StageKnown

LEMMA EnvironmentKeepsStage ==
    ASSUME ExecutorInv, StageKnown, Environment \/ Returned \/ UNCHANGED executorVars
    PROVE  StageKnown'
<1> USE DEF StageKnown, failStopVars, verdictVars, is_fail_stopping
<1>1. CASE ChildExecs \/ ChildExecFails \/ ChildDies \/ ChildForks \/ ForksExit
  BY SMTT(60), <1>1 DEF ChildExecs, ChildExecFails, ChildDies, ChildForks, ForksExit, KernelMoves
<1>2. CASE CancelAccepted
  BY SMTT(60), <1>2 DEF CancelAccepted
<1>3. CASE OtherFails
  BY SMTT(60), <1>3 DEF OtherFails, activate
<1>4. CASE Returned \/ UNCHANGED executorVars
  BY SMTT(60), <1>4 DEF Returned, executorVars
<1> QED BY <1>1, <1>2, <1>3, <1>4 DEF Environment

LEMMA RunTaskKeepsStage ==
    ASSUME ExecutorInv, StageKnown, RunTask
    PROVE  StageKnown'
<1>0. /\ clean \in CleanType
      /\ pc \in {"START", "JOB", "SPAWNED", "COMMITTED", "STOP", "STARTED", "ABORT",
               "ABORT_AGAIN", "KILL", "REAP", "R_KILL", "R_REAP", "R_AGAIN", "R_REAP_AGAIN",
               "FINISH", "EMPTY", "REMOVE", "FINISHED", "DROP", "REAP_LAST", "OUTPUT", "DONE"}
      /\ active \in [Tasks -> StartStates]
      /\ PathFollows
  BY DEF ExecutorInv, ExecutorTypeOK, FailStopTypeOK, CleanType
<1>j. job \in JobType
  BY DEF ExecutorInv, ExecutorTypeOK, JobType
<1> USE <1>0, JobAssumption DEF StageKnown, CleanType, Paths, failStopVars, verdictVars,
    is_fail_stopping, Goto, Silent, PathFollows
<1>1. CASE RefuseStart \/ RejectCommand
  BY SMTT(60), <1>1 DEF RefuseStart, RejectCommand, ReturnFailure, Return, activate
<1>2. CASE CreateJobUncertain
  BY SMTT(60), <1>2 DEF CreateJobUncertain, Return, activate
<1>3. CASE CreateJob \/ Spawn
  BY SMTT(60), <1>3 DEF CreateJob, Spawn
<1>4. CASE FailStopAfterCreate \/ SpawnFails \/ AbortSpawned
  BY SMTT(60), <1>4 DEF FailStopAfterCreate, SpawnFails, AbortSpawned, CleanUp
<1>5. CASE GateFails
  BY SMTT(60), <1>5 DEF GateFails, CleanUp, commit_gate_failed
<1>6. CASE CommitStart
  BY SMTT(60), <1>6 DEF CommitStart, commit_start
<1>7. CASE AbortOk
  BY SMTT(60), <1>7 DEF AbortOk
<1>8. CASE AbortFails
  <2>1. clean'.path = clean.path
    BY <1>8, AbortFailsRecords
  <2>2. /\ pc' \in {"ABORT_AGAIN", "FINISH"} /\ UNCHANGED <<started, active, daemon_error>>
        /\ pc \in {"ABORT", "ABORT_AGAIN"} /\ (is_fail_stopping => is_fail_stopping')
    BY SMTT(60), <1>8 DEF AbortFails, activate
  <2> QED BY SMTT(60), <2>1, <2>2
<1>9. CASE ExecReported
  BY SMTT(60), <1>9 DEF ExecReported
<1>10. CASE ExecFailureReported \/ ExecPipeFails \/ StopReaps
  BY SMTT(60), <1>10 DEF ExecFailureReported, ExecPipeFails, StopReaps, CleanUp
<1>11. CASE ExecWaitFails
  BY SMTT(60), <1>11 DEF ExecWaitFails
<1>12. CASE Cancelled \/ FailStopObserved \/ TimedOut
  BY SMTT(60), <1>12 DEF Cancelled, FailStopObserved, TimedOut, Decide
<1>13. CASE Exited
  BY SMTT(60), <1>13 DEF Exited, Decide
<1>14. CASE WaitFails
  BY SMTT(60), <1>14 DEF WaitFails, Recovers, Decide
<1>15. CASE ControlledKill \/ ControlledReap
  <2>1. clean'.path \in {clean.path, "RECOVERY"}
    BY <1>15, <1>j, ControlledKillRecords, ControlledReapRecords
  <2>2. /\ pc' \in {"REAP", "FINISH", "R_KILL"} /\ pc \in {"KILL", "REAP"}
        /\ UNCHANGED <<started, active, daemon_error, phase>>
    BY SMTT(60), <1>15 DEF ControlledKill, ControlledReap
  <2> QED BY SMTT(60), <2>1, <2>2
<1>16. CASE RecoverKill
  BY SMTT(60), <1>16 DEF RecoverKill, KillAttempt
<1>17. CASE RecoverReap \/ RecoverReapAgain \/ ReapLast
  BY SMTT(60), <1>17 DEF RecoverReap, RecoverReapAgain, ReapLast, ReapAttempt
<1>18. CASE RecoverAgain
  BY SMTT(60), <1>18 DEF RecoverAgain, KillAttempt, activate
<1>19. CASE FinishBegins \/ WaitEmpty
  BY SMTT(60), <1>19 DEF FinishBegins, WaitEmpty
<1>20. CASE RemoveOk
  BY SMTT(60), <1>20 DEF RemoveOk
<1>21. CASE StatsFail
  BY SMTT(60), <1>21 DEF StatsFail, activate
<1>22. CASE FinishFails
  <2>1. clean'.path = clean.path
    BY <1>22, FinishFailsRecords
  <2>2. /\ pc' \in {"FINISH", "FINISHED"} /\ pc \in {"FINISH", "EMPTY", "REMOVE"}
        /\ UNCHANGED <<started, active>>
        /\ is_fail_stopping => is_fail_stopping'
        /\ daemon_error' => daemon_error \/ is_fail_stopping'
    BY SMTT(60), <1>22 DEF FinishFails, activate
  <2> QED BY SMTT(60), <2>1, <2>2
<1>23. CASE EndUnstarted
  BY SMTT(60), <1>23 DEF EndUnstarted, Return, activate
<1>24. CASE EndStarted
  BY SMTT(60), <1>24 DEF EndStarted
<1>25. CASE OutputOk \/ OutputFails
  <2>1. clean'.path = clean.path
    BY <1>25, OutputKeepsPath
  <2>2. /\ pc' = "DONE" /\ pc = "OUTPUT" /\ UNCHANGED <<started, active, daemon_error>>
        /\ is_fail_stopping => is_fail_stopping'
    <3>1. pc = "OUTPUT" /\ \E result \in {"COMPLETED", "REUSABLE", "UNCERTAIN"} : Return(result)
      BY <1>25 DEF OutputOk, OutputFails
    <3> QED BY SMTT(60), <3>1 DEF Return, activate
  <2> QED BY SMTT(60), <2>1, <2>2
<1>26. CASE DropPending
  BY SMTT(60), <1>26 DEF DropPending
<1>27. CASE DropReaps \/ DropWaitFails
  BY SMTT(60), <1>27 DEF DropReaps, DropWaitFails, Return, activate
<1> QED BY <1>1, <1>2, <1>3, <1>4, <1>5, <1>6, <1>7, <1>8, <1>9, <1>10, <1>11, <1>12,
      <1>13, <1>14, <1>15, <1>16, <1>17, <1>18, <1>19, <1>20, <1>21, <1>22, <1>23, <1>24,
      <1>25, <1>26, <1>27 DEF RunTask

-----------------------------------------------------------------------------
(* What the contract sees of a step: one lemma per action of Execution *)

\* A step the contract cannot see.
Unseen == ExecAs' = ExecAs /\ TreeAs' = TreeAs /\ UNCHANGED <<failStopVars, verdictVars>>

LEMMA UnseenStutters == Unseen => UNCHANGED Contract!runTaskVars
  BY DEF Unseen, Contract!runTaskVars, Contract!executionVars, failStopVars,
     verdictVars, ForJob, Contract!failStopVars

Quiet == UNCHANGED failStopVars

NoVerdict == UNCHANGED <<latch, control, daemon_error, reason>>

\* The end of run_task as Execution's Stop.
Stopped(state, result) ==
    ExecAs' = "DONE" /\ TreeAs' = state /\ outcome' = result /\ UNCHANGED started

LEMMA SeenStop ==
    ASSUME NEW state, NEW result, Stopped(state, result)
    PROVE  Contract!Stop(Job, state, result)
  BY JobAssumption DEF Stopped, Contract!Stop, ForJob

LEMMA SeenNoVerdict == NoVerdict => Contract!NoVerdict
  BY DEF NoVerdict, Contract!NoVerdict, ForJob

\* The end of a job that is not lost, with no reason recorded.
LEMMA SeenEnd ==
    ASSUME NEW state, NEW result, Stopped(state, result), Quiet, NoVerdict
    PROVE  /\ ExecAs = "PREPARING" /\ is_fail_stopping /\ state = "NONE" /\ result = "BLOCKED"
              => Contract!RefuseForFailStop(Job)
           /\ ExecAs = "PREPARING" /\ state = "NONE" /\ result = "REUSABLE"
              => Contract!RejectBeforeJob(Job)
           /\ ExecAs = "GATED" /\ is_fail_stopping /\ state = "GONE" /\ result = "BLOCKED"
              => Contract!AbandonForFailStop(Job)
           /\ ExecAs = "GATED" /\ state = "GONE" /\ result = "REUSABLE"
              => Contract!AbortPending(Job)
           /\ ExecAs = "COMMITTED" /\ state = "GONE" /\ result = "REUSABLE"
              => Contract!AbortCommitted(Job)
           /\ /\ ExecAs = "STOPPING" /\ (daemon_error => is_fail_stopping)
              /\ state = "GONE" /\ result = "REUSABLE"
              => Contract!FinishUnclassified(Job)
<1>1. Contract!Stop(Job, state, result) /\ Contract!NoVerdict
  BY SeenStop, SeenNoVerdict
<1>2. ForJob(ExecAs, "IDLE")[Job] = ExecAs /\ ForJob(daemon_error, FALSE)[Job] = daemon_error
  BY JobAssumption DEF ForJob
<1> QED BY <1>1, <1>2 DEF Quiet, Contract!RefuseForFailStop, Contract!RejectBeforeJob,
      Contract!AbandonForFailStop, Contract!AbortPending, Contract!AbortCommitted,
      Contract!FinishUnclassified, failStopVars, is_fail_stopping,
      Contract!failStopVars, Contract!is_fail_stopping

LEMMA SeenLoss ==
    ASSUME Stopped("UNKNOWN", "UNCERTAIN"), activate(Job), UNCHANGED active, NoVerdict
    PROVE  /\ ExecAs \in {"PREPARING", "GATED", "COMMITTED"} => Contract!LoseBeforeStarted(Job)
           /\ ExecAs = "STOPPING" => Contract!FinishLost(Job)
<1>1. Contract!Stop(Job, "UNKNOWN", "UNCERTAIN") /\ Contract!NoVerdict
  BY SeenStop, SeenNoVerdict
<1>2. ForJob(ExecAs, "IDLE")[Job] = ExecAs
  BY JobAssumption DEF ForJob
<1>3. Contract!Lose(Job)
  BY <1>1 DEF Contract!Lose, activate, is_fail_stopping, Contract!activate,
     Contract!is_fail_stopping
<1> QED BY <1>2, <1>3 DEF Contract!LoseBeforeStarted, Contract!FinishLost

LEMMA SeenCompletion ==
    ASSUME Stopped("GONE", "COMPLETED"), Quiet, UNCHANGED <<latch, control, daemon_error>>,
           NEW events \in EventSets
    PROVE  /\ /\ ExecAs = "COMMITTED"
              /\ reason' = classify_termination(events, "NONE", FALSE, FALSE)
              => Contract!ExecFailed(Job)
           /\ /\ ExecAs = "STOPPING" /\ (daemon_error => is_fail_stopping)
              /\ reason' = classify_termination(events, control, daemon_error, TRUE)
              => Contract!FinishCleaned(Job)
<1>1. Contract!Stop(Job, "GONE", "COMPLETED")
  BY SeenStop
<1>2. /\ ForJob(ExecAs, "IDLE")[Job] = ExecAs
      /\ ForJob(daemon_error, FALSE)[Job] = daemon_error
      /\ ForJob(control, "NONE")[Job] = control
  BY JobAssumption DEF ForJob
<1>3. UNCHANGED <<ForJob(latch, "OPEN"), ForJob(control, "NONE"), ForJob(daemon_error, FALSE)>>
  BY DEF ForJob
<1>4. ForJob(reason, "NONE")' = [ForJob(reason, "NONE") EXCEPT ![Job] = reason']
  BY JobAssumption DEF ForJob
<1>5. Contract!failStopVars = failStopVars /\ Contract!failStopVars' = failStopVars'
  BY DEF failStopVars, Contract!failStopVars
<1>6. UNCHANGED Contract!failStopVars
  BY <1>5 DEF Quiet
<1>7. ASSUME ExecAs = "COMMITTED",
             reason' = classify_termination(events, "NONE", FALSE, FALSE)
      PROVE  Contract!ExecFailed(Job)
  BY <1>7, <1>1, <1>2, <1>3, <1>4, <1>6 DEF Contract!ExecFailed,
     classify_termination, Contract!classify_termination
<1>8. ASSUME ExecAs = "STOPPING", daemon_error => is_fail_stopping,
             reason' = classify_termination(events, control, daemon_error, TRUE)
      PROVE  Contract!FinishCleaned(Job)
  BY <1>8, <1>1, <1>2, <1>3, <1>4, <1>6 DEF Contract!FinishCleaned,
     classify_termination, Contract!classify_termination, is_fail_stopping,
     Contract!is_fail_stopping
<1> QED BY <1>7, <1>8

LEMMA SeenProgress ==
    ASSUME NoVerdict, UNCHANGED outcome
    PROVE  /\ /\ ExecAs = "PREPARING" /\ ExecAs' = "GATED" /\ TreeAs' = "GATED"
              /\ UNCHANGED started /\ Quiet
              => Contract!CreateJob(Job)
           /\ /\ ExecAs = "GATED" /\ ExecAs' = "GATED" /\ UNCHANGED started
              /\ TreeAs' = TreeAs /\ commit_gate_failed(Job)
              => Contract!GateFailed(Job)
           /\ /\ ExecAs = "GATED" /\ ExecAs' = "COMMITTED" /\ UNCHANGED started
              /\ TreeAs' = "LIVE" /\ commit_start(Job)
              => Contract!CommitStart(Job)
           /\ /\ ExecAs = "COMMITTED" /\ ExecAs' = "STARTED" /\ started' = TRUE
              /\ TreeAs' = TreeAs /\ Quiet
              => Contract!ExecStarted(Job)
<1>1. Contract!NoVerdict /\ UNCHANGED ForJob(outcome, "NONE")
  BY SeenNoVerdict DEF ForJob
<1>2. ForJob(ExecAs, "IDLE")[Job] = ExecAs
  BY JobAssumption DEF ForJob
<1> USE JobAssumption, <1>1, <1>2 DEF ForJob, Quiet, failStopVars, Contract!failStopVars
<1>3. ASSUME ExecAs = "PREPARING", ExecAs' = "GATED", TreeAs' = "GATED",
             UNCHANGED started, Quiet
      PROVE  Contract!CreateJob(Job)
  BY <1>3 DEF Contract!CreateJob
<1>4. ASSUME ExecAs = "GATED", ExecAs' = "GATED", UNCHANGED started, TreeAs' = TreeAs,
             commit_gate_failed(Job)
      PROVE  Contract!GateFailed(Job)
  BY <1>4 DEF Contract!GateFailed, commit_gate_failed, Contract!commit_gate_failed,
     is_fail_stopping, Contract!is_fail_stopping
<1>5. ASSUME ExecAs = "GATED", ExecAs' = "COMMITTED", UNCHANGED started, TreeAs' = "LIVE",
             commit_start(Job)
      PROVE  Contract!CommitStart(Job)
  BY <1>5 DEF Contract!CommitStart, commit_start, Contract!commit_start,
     is_fail_stopping, Contract!is_fail_stopping
<1>6. ASSUME ExecAs = "COMMITTED", ExecAs' = "STARTED", started' = TRUE, TreeAs' = TreeAs,
             Quiet
      PROVE  Contract!ExecStarted(Job)
  BY <1>6 DEF Contract!ExecStarted
<1> QED BY <1>3, <1>4, <1>5, <1>6

LEMMA SeenRetry ==
    ASSUME ExecAs \in {"GATED", "COMMITTED", "STOPPING"}, ExecAs' = ExecAs, TreeAs' = TreeAs,
           activate(Job), daemon_error \in BOOLEAN,
           daemon_error' = (daemon_error \/ ExecAs = "STOPPING"),
           UNCHANGED <<active, started, latch, control, outcome, reason>>
    PROVE  Contract!CleanupRetried(Job)
<1>1. ForJob(ExecAs, "IDLE")[Job] = ExecAs /\ ForJob(daemon_error, FALSE)[Job] = daemon_error
  BY JobAssumption DEF ForJob
<1>2. Contract!activate(Job)
  BY DEF activate, is_fail_stopping, Contract!activate, Contract!is_fail_stopping
<1>3. ForJob(daemon_error, FALSE)' =
        [ForJob(daemon_error, FALSE) EXCEPT ![Job] = daemon_error \/ ExecAs = "STOPPING"]
  BY JobAssumption DEF ForJob
<1>4. UNCHANGED <<ForJob(ExecAs, "IDLE"), ForJob(TreeAs, "NONE"), ForJob(started, FALSE),
                  ForJob(latch, "OPEN"), ForJob(control, "NONE"), ForJob(outcome, "NONE"),
                  ForJob(reason, "NONE"), active>>
  BY DEF ForJob
<1> QED BY <1>1, <1>2, <1>3, <1>4 DEF Contract!CleanupRetried

LEMMA SeenDecision ==
    ASSUME NEW first, NEW error, ExecAs = "STARTED", ExecAs' = "STOPPING", TreeAs' = TreeAs,
           latch' = first, control' = Trigger(first), daemon_error' = error,
           Quiet, UNCHANGED <<started, outcome, reason>>
    PROVE  /\ first = FirstOf(latch, "CLOSED") /\ error = FALSE => Contract!ObserveExit(Job)
           /\ first = FirstOf(latch, "TIMED_OUT") /\ error = FALSE => Contract!ObserveTimeout(Job)
           /\ latch = "CANCELLED" /\ first = latch /\ error = FALSE => Contract!ObserveCancel(Job)
           /\ is_fail_stopping /\ first = latch /\ error = TRUE => Contract!ObserveFailStop(Job)
           /\ first = latch /\ error = TRUE => Contract!ObserveWaitError(Job)
<1>1. Contract!Decide(Job, first, error)
  BY JobAssumption DEF Contract!Decide, ForJob, Trigger, Contract!Trigger
<1>2. ForJob(latch, "OPEN")[Job] = latch
  BY JobAssumption DEF ForJob
<1>3. UNCHANGED Contract!failStopVars
  BY DEF Quiet, failStopVars, Contract!failStopVars
<1> QED BY <1>1, <1>2, <1>3 DEF Contract!ObserveExit, Contract!ObserveTimeout,
      Contract!ObserveCancel, Contract!ObserveFailStop, Contract!ObserveWaitError,
      FirstOf, Contract!FirstOf, is_fail_stopping, Contract!is_fail_stopping

\* Any of these steps is a step of the contract.
LEMMA SeenIsNext ==
    ASSUME \/ Contract!RefuseForFailStop(Job) \/ Contract!RejectBeforeJob(Job)
           \/ Contract!AbandonForFailStop(Job) \/ Contract!AbortPending(Job)
           \/ Contract!AbortCommitted(Job) \/ Contract!FinishUnclassified(Job)
           \/ Contract!LoseBeforeStarted(Job) \/ Contract!FinishLost(Job)
           \/ Contract!ExecFailed(Job) \/ Contract!FinishCleaned(Job)
           \/ Contract!CreateJob(Job) \/ Contract!GateFailed(Job)
           \/ Contract!CommitStart(Job) \/ Contract!ExecStarted(Job)
           \/ Contract!CleanupRetried(Job) \/ Contract!ObserveExit(Job)
           \/ Contract!ObserveTimeout(Job) \/ Contract!ObserveCancel(Job)
           \/ Contract!ObserveFailStop(Job) \/ Contract!ObserveWaitError(Job)
    PROVE  Contract!RunTaskNext(Job)
  BY DEF Contract!ExecutionStep, Contract!RunTaskNext

-----------------------------------------------------------------------------
(* Every step of run_task, of the kernel and of the other tasks *)

Implements == [Contract!RunTaskNext(Job)]_(Contract!runTaskVars)

LEMMA UnseenImplements == Unseen => Implements
  BY UnseenStutters DEF Implements

LEMMA EnvironmentImplements ==
    ASSUME RefinementInv, Environment \/ Returned \/ UNCHANGED executorVars
    PROVE  Implements
<1>0. pc \in {"START", "JOB", "SPAWNED", "COMMITTED", "STOP", "STARTED", "ABORT",
               "ABORT_AGAIN", "KILL", "REAP", "R_KILL", "R_REAP", "R_AGAIN", "R_REAP_AGAIN",
               "FINISH", "EMPTY", "REMOVE", "FINISHED", "DROP", "REAP_LAST", "OUTPUT", "DONE"}
      /\ job \in JobType
  BY DEF RefinementInv, ExecutorInv, ExecutorTypeOK, JobType
<1>1. CASE ChildExecs \/ ChildExecFails \/ ChildDies \/ ChildForks \/ ForksExit
  <2>1. UNCHANGED <<pc, outcome, started, active, failStopVars, verdictVars>>
    BY SMTT(60), <1>1 DEF ChildExecs, ChildExecFails, ChildDies, ChildForks, ForksExit, KernelMoves,
       failStopVars, verdictVars
  <2>2. job'.cgroup = job.cgroup
    BY <1>0, <1>1 DEF ChildExecs, ChildExecFails, ChildDies, ChildForks, ForksExit,
       KernelMoves, JobType
  <2>3. Unseen
    BY <2>1, <2>2 DEF Unseen, ExecAs, TreeAs
  <2> QED BY <2>3, UnseenImplements
<1>2. CASE CancelAccepted
  <2>1. UNCHANGED <<pc, job, outcome, started, control, daemon_error, reason, active,
                    failStopVars>> /\ started = TRUE /\ latch = "OPEN" /\ latch' = "CANCELLED"
    BY <1>2 DEF CancelAccepted, failStopVars, RefinementInv, ExecutorInv, ExecutorTypeOK
  <2>2. ExecAs' = ExecAs /\ TreeAs' = TreeAs
    BY <2>1 DEF ExecAs, TreeAs
  <2>3. Contract!AcceptCancel(Job)
    BY <2>1, <2>2, JobAssumption DEF Contract!AcceptCancel, ForJob, FirstOf,
       Contract!FirstOf, failStopVars, Contract!failStopVars
  <2> QED BY <2>3 DEF Implements, Contract!RunTaskNext
<1>3. CASE OtherFails
  <2>1. UNCHANGED <<pc, job, started, latch, control, daemon_error, outcome, reason, active>>
    BY <1>3 DEF OtherFails, verdictVars
  <2>2. ExecAs' = ExecAs /\ TreeAs' = TreeAs
    BY <2>1 DEF ExecAs, TreeAs
  <2>3. Contract!AnotherFails(Job)
    BY <1>3, <2>1, <2>2 DEF OtherFails, activate, is_fail_stopping,
       Contract!AnotherFails, Contract!activate, Contract!is_fail_stopping, ForJob,
       Contract!executionVars
  <2> QED BY <2>3 DEF Implements, Contract!RunTaskNext
<1>4. CASE Returned \/ UNCHANGED executorVars
  <2>1. UNCHANGED <<pc, job, started, outcome, active, failStopVars, verdictVars>>
    BY <1>4 DEF Returned, executorVars, failStopVars, verdictVars
  <2>2. Unseen
    BY <2>1 DEF Unseen, ExecAs, TreeAs
  <2> QED BY <2>2, UnseenImplements
<1> QED BY <1>1, <1>2, <1>3, <1>4 DEF Environment

\* The positions at which run_task has decided how it ends.
Cleaning == {"JOB", "SPAWNED", "STOP", "ABORT", "ABORT_AGAIN", "KILL", "REAP", "R_KILL",
             "R_REAP", "R_AGAIN", "R_REAP_AGAIN", "FINISH", "EMPTY", "REMOVE", "FINISHED",
             "DROP", "REAP_LAST", "OUTPUT"}

LEMMA ViewIs ==
    /\ pc = "START" => ExecAs = "PREPARING" /\ TreeAs = "NONE"
    /\ pc \in {"COMMITTED", "STARTED", "DONE"} => ExecAs = pc
    /\ pc \in Cleaning /\ started => ExecAs = "STOPPING"
    /\ pc \in Cleaning /\ ~started =>
          ExecAs = IF active[Job] = "COMMITTED" THEN "COMMITTED" ELSE "GATED"
    /\ pc \in Cleaning \cup {"COMMITTED", "STARTED"} =>
          TreeAs = IF active[Job] = "COMMITTED" THEN "LIVE" ELSE "GATED"
    /\ pc = "DONE" /\ outcome = "UNCERTAIN" => TreeAs = "UNKNOWN"
    /\ pc = "DONE" /\ outcome # "UNCERTAIN" =>
          TreeAs = IF job.cgroup = "ABSENT" THEN "NONE" ELSE "GONE"
<1>1. pc = "START" => ExecAs = "PREPARING"
  BY SMTT(60) DEF ExecAs, Cleaning
<1>2. pc \in {"COMMITTED", "STARTED", "DONE"} => ExecAs = pc
  BY SMTT(60) DEF ExecAs, Cleaning
<1>3. pc \in Cleaning /\ started => ExecAs = "STOPPING"
  BY SMTT(60) DEF ExecAs, Cleaning
<1>4. pc \in Cleaning /\ ~started =>
          ExecAs = IF active[Job] = "COMMITTED" THEN "COMMITTED" ELSE "GATED"
  BY SMTT(60) DEF ExecAs, Cleaning
<1>5. pc = "START" => TreeAs = "NONE"
  BY SMTT(60) DEF TreeAs, Cleaning
<1>6. pc \in Cleaning \cup {"COMMITTED", "STARTED"} =>
          TreeAs = IF active[Job] = "COMMITTED" THEN "LIVE" ELSE "GATED"
  BY SMTT(60) DEF TreeAs, Cleaning
<1>7. pc = "DONE" /\ outcome = "UNCERTAIN" => TreeAs = "UNKNOWN"
  BY SMTT(60) DEF TreeAs, Cleaning
<1>8. pc = "DONE" /\ outcome # "UNCERTAIN" =>
          TreeAs = IF job.cgroup = "ABSENT" THEN "NONE" ELSE "GONE"
  BY SMTT(60) DEF TreeAs, Cleaning
<1> QED BY <1>1, <1>2, <1>3, <1>4, <1>5, <1>6, <1>7, <1>8

\* The same of the next state.
LEMMA NextViewIs ==
    /\ pc' \in {"COMMITTED", "STARTED", "DONE"} => ExecAs' = pc'
    /\ pc' \in Cleaning /\ started' => ExecAs' = "STOPPING"
    /\ pc' \in Cleaning /\ ~started' =>
          ExecAs' = IF active'[Job] = "COMMITTED" THEN "COMMITTED" ELSE "GATED"
    /\ pc' \in Cleaning \cup {"COMMITTED", "STARTED"} =>
          TreeAs' = IF active'[Job] = "COMMITTED" THEN "LIVE" ELSE "GATED"
    /\ pc' = "DONE" /\ outcome' = "UNCERTAIN" => TreeAs' = "UNKNOWN"
    /\ pc' = "DONE" /\ outcome' # "UNCERTAIN" =>
          TreeAs' = IF job'.cgroup = "ABSENT" THEN "NONE" ELSE "GONE"
<1>1. pc' \in {"COMMITTED", "STARTED", "DONE"} => ExecAs' = pc'
  BY SMTT(60) DEF ExecAs, Cleaning
<1>2. pc' \in Cleaning /\ started' => ExecAs' = "STOPPING"
  BY SMTT(60) DEF ExecAs, Cleaning
<1>3. pc' \in Cleaning /\ ~started' =>
          ExecAs' = IF active'[Job] = "COMMITTED" THEN "COMMITTED" ELSE "GATED"
  BY SMTT(60) DEF ExecAs, Cleaning
<1>4. pc' \in Cleaning \cup {"COMMITTED", "STARTED"} =>
          TreeAs' = IF active'[Job] = "COMMITTED" THEN "LIVE" ELSE "GATED"
  BY SMTT(60) DEF TreeAs, Cleaning
<1>5. pc' = "DONE" /\ outcome' = "UNCERTAIN" => TreeAs' = "UNKNOWN"
  BY SMTT(60) DEF TreeAs, Cleaning
<1>6. pc' = "DONE" /\ outcome' # "UNCERTAIN" =>
          TreeAs' = IF job'.cgroup = "ABSENT" THEN "NONE" ELSE "GONE"
  BY SMTT(60) DEF TreeAs, Cleaning
<1> QED BY <1>1, <1>2, <1>3, <1>4, <1>5, <1>6

\* A step from one of these positions to another that touches nothing but the
\* record of the cleanup and the kernel is not seen.
LEMMA CleaningUnseen ==
    ASSUME pc \in Cleaning, pc' \in Cleaning, Silent
    PROVE  Implements
<1>1. UNCHANGED <<started, active>>
  BY DEF Silent, failStopVars, verdictVars
<1>2. ExecAs' = ExecAs /\ TreeAs' = TreeAs
  BY SMTT(60), <1>1, ViewIs, NextViewIs
<1> QED BY <1>2, UnseenImplements DEF Unseen, Silent

LEMMA BeforeGateImplements ==
    ASSUME RefinementInv,
           RefuseStart \/ RejectCommand \/ CreateJobUncertain \/ CreateJob \/
           FailStopAfterCreate \/ SpawnFails \/ Spawn \/ AbortSpawned \/ GateFails \/
           CommitStart \/ AbortOk \/ AbortFails
    PROVE  Implements
<1>0. /\ phase \in {"HEALTHY", "FAIL_STOPPING"}
      /\ job \in JobType
      /\ active \in [Tasks -> StartStates]
      /\ daemon_error \in BOOLEAN
      /\ PathFollows /\ StageKnown
  BY DEF RefinementInv, ExecutorInv, ExecutorTypeOK, FailStopTypeOK, JobType
<1>a. ASSUME Contract!RunTaskNext(Job)
      PROVE  Implements
  BY <1>a DEF Implements
<1>1. CASE RefuseStart
  <2>1. /\ pc = "START" /\ pc' = "DONE" /\ outcome' = "BLOCKED" /\ job' = job
        /\ job.cgroup = "ABSENT" /\ is_fail_stopping
        /\ Quiet /\ NoVerdict /\ UNCHANGED started
    BY SMTT(60), <1>0, <1>1 DEF RefuseStart, ReturnFailure, Return, activate, is_fail_stopping, Goto,
       PathFollows, Quiet, NoVerdict, failStopVars
  <2>2. ExecAs = "PREPARING" /\ Stopped("NONE", "BLOCKED")
    BY SMTT(60), <2>1, ViewIs, NextViewIs DEF Stopped
  <2> QED BY <2>1, <2>2, <1>a, SeenEnd, SeenIsNext
<1>2. CASE RejectCommand
  <2>1. /\ pc = "START" /\ pc' = "DONE" /\ outcome' = "REUSABLE" /\ job' = job
        /\ job.cgroup = "ABSENT"
        /\ Quiet /\ NoVerdict /\ UNCHANGED started
    BY SMTT(60), <1>0, <1>2 DEF RejectCommand, ReturnFailure, Return, Goto, PathFollows, Quiet,
       NoVerdict, failStopVars
  <2>2. ExecAs = "PREPARING" /\ Stopped("NONE", "REUSABLE")
    BY SMTT(60), <2>1, ViewIs, NextViewIs DEF Stopped
  <2> QED BY <2>1, <2>2, <1>a, SeenEnd, SeenIsNext
<1>3. CASE CreateJobUncertain
  <2>1. /\ pc = "START" /\ pc' = "DONE" /\ outcome' = "UNCERTAIN"
        /\ activate(Job) /\ NoVerdict /\ UNCHANGED <<started, active>>
    BY SMTT(60), <1>3 DEF CreateJobUncertain, Return, Goto, NoVerdict
  <2>2. ExecAs = "PREPARING" /\ Stopped("UNKNOWN", "UNCERTAIN")
    BY SMTT(60), <2>1, ViewIs, NextViewIs DEF Stopped
  <2> QED BY <2>1, <2>2, <1>a, SeenLoss, SeenIsNext
<1>4. CASE CreateJob
  <2>1. /\ pc = "START" /\ pc' = "JOB" /\ ~started /\ active[Job] # "COMMITTED"
        /\ Quiet /\ NoVerdict /\ UNCHANGED <<started, active, outcome>>
    BY SMTT(60), <1>0, <1>4 DEF CreateJob, Silent, Goto, StageKnown, Quiet, NoVerdict, failStopVars,
       verdictVars
  <2>2. ExecAs = "PREPARING" /\ ExecAs' = "GATED" /\ TreeAs' = "GATED"
    BY SMTT(60), <2>1, ViewIs, NextViewIs DEF Cleaning
  <2> QED BY <2>1, <2>2, <1>a, SeenProgress, SeenIsNext
<1>5. CASE FailStopAfterCreate \/ SpawnFails \/ Spawn \/ AbortSpawned \/ AbortOk
  <2>1. pc \in Cleaning /\ pc' \in Cleaning /\ Silent
    BY SMTT(60), <1>5 DEF FailStopAfterCreate, SpawnFails, Spawn, AbortSpawned, AbortOk, CleanUp, Goto,
       Cleaning
  <2> QED BY <2>1, CleaningUnseen
<1>6. CASE GateFails
  <2>1. /\ pc = "SPAWNED" /\ pc' = "ABORT" /\ ~started /\ active[Job] # "COMMITTED"
        /\ active'[Job] # "COMMITTED" /\ commit_gate_failed(Job)
        /\ NoVerdict /\ UNCHANGED <<started, outcome>>
    BY SMTT(60), <1>0, <1>6, JobAssumption DEF GateFails, CleanUp, Goto, StageKnown, NoVerdict,
       verdictVars, commit_gate_failed
  <2>2. ExecAs = "GATED" /\ ExecAs' = "GATED" /\ TreeAs' = TreeAs
    BY SMTT(60), <2>1, ViewIs, NextViewIs DEF Cleaning
  <2> QED BY <2>1, <2>2, <1>a, SeenProgress, SeenIsNext
<1>7. CASE CommitStart
  <2>1. /\ pc = "SPAWNED" /\ pc' = "COMMITTED" /\ ~started /\ active[Job] # "COMMITTED"
        /\ active'[Job] = "COMMITTED" /\ commit_start(Job)
        /\ NoVerdict /\ UNCHANGED <<started, outcome>>
    BY SMTT(60), <1>0, <1>7, JobAssumption DEF CommitStart, Goto, StageKnown, NoVerdict,
       verdictVars, commit_start
  <2>2. ExecAs = "GATED" /\ ExecAs' = "COMMITTED" /\ TreeAs' = "LIVE"
    BY SMTT(60), <2>1, ViewIs, NextViewIs DEF Cleaning
  <2> QED BY <2>1, <2>2, <1>a, SeenProgress, SeenIsNext
<1>8. CASE AbortFails
  <2>1. CASE pc = "ABORT"
    <3>1. /\ pc' = "ABORT_AGAIN" /\ ~started /\ active[Job] # "COMMITTED" /\ activate(Job)
          /\ UNCHANGED <<active, started, latch, control, daemon_error, outcome, reason>>
      BY SMTT(60), <1>0, <1>8, <2>1 DEF AbortFails, Goto, StageKnown, verdictVars
    <3>2. ExecAs = "GATED" /\ ExecAs' = ExecAs /\ TreeAs' = TreeAs
      BY SMTT(60), <2>1, <3>1, ViewIs, NextViewIs DEF Cleaning
    <3>3. daemon_error' = (daemon_error \/ ExecAs = "STOPPING")
      BY <1>0, <3>1, <3>2
    <3> QED BY <1>0, <3>1, <3>2, <3>3, <1>a, SeenRetry, SeenIsNext
  <2>2. CASE pc = "ABORT_AGAIN"
    <3>1. pc \in Cleaning /\ pc' \in Cleaning /\ Silent
      BY SMTT(60), <1>8, <2>2 DEF AbortFails, Goto, Cleaning, Silent, failStopVars
    <3> QED BY <3>1, CleaningUnseen
  <2> QED BY <1>8, <2>1, <2>2 DEF AbortFails
<1> QED BY <1>1, <1>2, <1>3, <1>4, <1>5, <1>6, <1>7, <1>8

LEMMA StartedImplements ==
    ASSUME RefinementInv,
           ExecReported \/ ExecFailureReported \/ ExecPipeFails \/ StopReaps \/
           ExecWaitFails \/ Cancelled \/ FailStopObserved \/ TimedOut \/ Exited \/ WaitFails \/
           ControlledKill \/ ControlledReap
    PROVE  Implements
<1>0. StageKnown
  BY DEF RefinementInv
<1>a. ASSUME Contract!RunTaskNext(Job)
      PROVE  Implements
  BY <1>a DEF Implements
<1>1. CASE ExecReported
  <2>1. /\ pc = "COMMITTED" /\ pc' = "STARTED" /\ started' = TRUE
        /\ Quiet /\ NoVerdict /\ UNCHANGED <<active, outcome>>
    BY SMTT(60), <1>0, <1>1 DEF ExecReported, Goto, Quiet, NoVerdict, failStopVars
  <2>2. ExecAs = "COMMITTED" /\ ExecAs' = "STARTED" /\ TreeAs' = TreeAs
    BY SMTT(60), <2>1, ViewIs, NextViewIs
  <2> QED BY <2>1, <2>2, <1>a, SeenProgress, SeenIsNext
<1>2. CASE ExecFailureReported \/ ExecPipeFails \/ StopReaps \/ ExecWaitFails
  <2>1. /\ pc \in {"COMMITTED", "STOP"} /\ pc' \in {"STOP", "FINISH"}
        /\ ~started /\ active[Job] = "COMMITTED"
        /\ Silent /\ UNCHANGED <<active, started>>
    BY SMTT(60), <1>0, <1>2 DEF ExecFailureReported, ExecPipeFails, StopReaps, ExecWaitFails,
       CleanUp, Goto, Silent, StageKnown, failStopVars, verdictVars
  <2>2. ExecAs' = ExecAs /\ TreeAs' = TreeAs
    BY SMTT(60), <2>1, ViewIs, NextViewIs DEF Cleaning
  <2> QED BY <2>1, <2>2, UnseenImplements DEF Unseen, Silent
<1>b. ASSUME NEW first, NEW error, NEW next \in Cleaning, Decide(first, error, next)
      PROVE  /\ ExecAs = "STARTED" /\ ExecAs' = "STOPPING" /\ TreeAs' = TreeAs
             /\ latch' = first /\ control' = Trigger(first) /\ daemon_error' = error
             /\ Quiet /\ UNCHANGED <<started, outcome, reason>>
  <2>1. /\ pc = "STARTED" /\ pc' \in Cleaning /\ started /\ started'
        /\ latch' = first /\ control' = Trigger(first) /\ daemon_error' = error
        /\ Quiet /\ UNCHANGED <<started, outcome, reason, active>>
    BY <1>0, <1>b DEF Decide, Goto, StageKnown, Quiet, failStopVars
  <2>2. ExecAs = "STARTED" /\ ExecAs' = "STOPPING" /\ TreeAs' = TreeAs
    BY SMTT(60), <2>1, ViewIs, NextViewIs
  <2> QED BY <2>1, <2>2
<1>c. {"KILL", "FINISH", "R_KILL"} \subseteq Cleaning
  BY SMTT(60) DEF Cleaning
<1>3. CASE Cancelled
  <2>1. Decide(latch, FALSE, "KILL") /\ latch = "CANCELLED"
    BY <1>3 DEF Cancelled
  <2>2. /\ ExecAs = "STARTED" /\ ExecAs' = "STOPPING" /\ TreeAs' = TreeAs
        /\ latch' = latch /\ control' = Trigger(latch) /\ daemon_error' = FALSE
        /\ Quiet /\ UNCHANGED <<started, outcome, reason>>
    BY <2>1, <1>b, <1>c
  <2>3. Contract!ObserveCancel(Job)
    BY <2>1, <2>2, SeenDecision
  <2> QED BY <2>3, <1>a, SeenIsNext
<1>4. CASE FailStopObserved
  <2>1. Decide(latch, TRUE, "KILL") /\ is_fail_stopping
    BY <1>4 DEF FailStopObserved
  <2>2. /\ ExecAs = "STARTED" /\ ExecAs' = "STOPPING" /\ TreeAs' = TreeAs
        /\ latch' = latch /\ control' = Trigger(latch) /\ daemon_error' = TRUE
        /\ Quiet /\ UNCHANGED <<started, outcome, reason>>
    BY <2>1, <1>b, <1>c
  <2>3. Contract!ObserveFailStop(Job)
    BY <2>1, <2>2, SeenDecision
  <2> QED BY <2>3, <1>a, SeenIsNext
<1>5. CASE TimedOut
  <2>1. Decide(FirstOf(latch, "TIMED_OUT"), FALSE, "KILL")
    BY <1>5 DEF TimedOut
  <2>2. /\ ExecAs = "STARTED" /\ ExecAs' = "STOPPING" /\ TreeAs' = TreeAs
        /\ latch' = FirstOf(latch, "TIMED_OUT") /\ control' = Trigger(FirstOf(latch, "TIMED_OUT")) /\ daemon_error' = FALSE
        /\ Quiet /\ UNCHANGED <<started, outcome, reason>>
    BY <2>1, <1>b, <1>c
  <2>3. Contract!ObserveTimeout(Job)
    BY <2>1, <2>2, SeenDecision
  <2> QED BY <2>3, <1>a, SeenIsNext
<1>6. CASE Exited
  <2>1. Decide(FirstOf(latch, "CLOSED"), FALSE, "FINISH")
    BY <1>6 DEF Exited
  <2>2. /\ ExecAs = "STARTED" /\ ExecAs' = "STOPPING" /\ TreeAs' = TreeAs
        /\ latch' = FirstOf(latch, "CLOSED") /\ control' = Trigger(FirstOf(latch, "CLOSED")) /\ daemon_error' = FALSE
        /\ Quiet /\ UNCHANGED <<started, outcome, reason>>
    BY <2>1, <1>b, <1>c
  <2>3. Contract!ObserveExit(Job)
    BY <2>1, <2>2, SeenDecision
  <2> QED BY <2>3, <1>a, SeenIsNext
<1>7. CASE WaitFails
  <2>1. Decide(latch, TRUE, "R_KILL")
    BY <1>7 DEF WaitFails
  <2>2. /\ ExecAs = "STARTED" /\ ExecAs' = "STOPPING" /\ TreeAs' = TreeAs
        /\ latch' = latch /\ control' = Trigger(latch) /\ daemon_error' = TRUE
        /\ Quiet /\ UNCHANGED <<started, outcome, reason>>
    BY <2>1, <1>b, <1>c
  <2>3. Contract!ObserveWaitError(Job)
    BY <2>1, <2>2, SeenDecision
  <2> QED BY <2>3, <1>a, SeenIsNext
<1>8. CASE ControlledKill \/ ControlledReap
  <2>1. pc \in Cleaning /\ pc' \in Cleaning /\ Silent
    BY SMTT(60), <1>8 DEF ControlledKill, ControlledReap, Goto, Cleaning
  <2> QED BY <2>1, CleaningUnseen
<1> QED BY <1>1, <1>2, <1>3, <1>4, <1>5, <1>6, <1>7, <1>8

LEMMA CleanupImplements ==
    ASSUME RefinementInv,
           RecoverKill \/ RecoverReap \/ RecoverAgain \/ RecoverReapAgain \/ FinishBegins \/
           WaitEmpty \/ RemoveOk \/ StatsFail \/ FinishFails \/ DropPending \/ EndStarted \/
           ReapLast
    PROVE  Implements
<1>0. daemon_error \in BOOLEAN /\ started \in BOOLEAN /\ StageKnown
  BY DEF RefinementInv, ExecutorInv, ExecutorTypeOK
<1>a. ASSUME Contract!RunTaskNext(Job)
      PROVE  Implements
  BY <1>a DEF Implements
<1>1. CASE RecoverKill \/ RecoverReap \/ RecoverReapAgain \/ FinishBegins \/ WaitEmpty \/
           RemoveOk \/ DropPending \/ EndStarted \/ ReapLast
  <2>1. pc \in Cleaning /\ pc' \in Cleaning /\ Silent
    BY SMTT(60), <1>1 DEF RecoverKill, RecoverReap, RecoverReapAgain, FinishBegins, WaitEmpty, RemoveOk,
       DropPending, EndStarted, ReapLast, Goto, Cleaning
  <2> QED BY <2>1, CleaningUnseen
\* A cleanup attempt that is repeated, from and to a position of the cleanup.
<1>b. ASSUME pc \in Cleaning, pc' \in Cleaning, activate(Job),
             daemon_error' = (daemon_error \/ started),
             UNCHANGED <<active, started, latch, control, outcome, reason>>
      PROVE  Implements
  <2>1. ExecAs' = ExecAs /\ TreeAs' = TreeAs
    BY SMTT(60), <1>b, ViewIs, NextViewIs
  <2>2. ExecAs \in {"GATED", "COMMITTED", "STOPPING"} /\ (ExecAs = "STOPPING" <=> started)
    BY SMTT(60), <1>0, <1>b, ViewIs
  <2>3. daemon_error' = (daemon_error \/ ExecAs = "STOPPING")
    BY <1>0, <1>b, <2>2
  <2> QED BY <1>0, <1>b, <2>1, <2>2, <2>3, <1>a, SeenRetry, SeenIsNext
<1>2. CASE RecoverAgain
  <2>1. /\ pc \in Cleaning /\ pc' \in Cleaning /\ activate(Job)
        /\ UNCHANGED <<active, started, latch, control, outcome, reason>>
    BY SMTT(60), <1>2 DEF RecoverAgain, Goto, Cleaning
  <2>2. daemon_error' = TRUE /\ started = TRUE
    BY <1>0, <1>2 DEF RecoverAgain, StageKnown
  <2>3. daemon_error' = (daemon_error \/ started)
    BY <2>2
  <2> QED BY <2>1, <2>3, <1>b
<1>3. CASE StatsFail
  <2>1. /\ pc \in Cleaning /\ pc' \in Cleaning
        /\ UNCHANGED <<active, started, latch, control, outcome, reason>>
    BY SMTT(60), <1>3 DEF StatsFail, Goto, Cleaning
  <2>2. CASE clean.attempt = 1 /\ clean.path # "FAIL_STOP"
    <3>1. activate(Job) /\ daemon_error' = (daemon_error \/ started)
      BY <1>3, <2>2 DEF StatsFail
    <3> QED BY <2>1, <3>1, <1>b
  <2>3. CASE ~(clean.attempt = 1 /\ clean.path # "FAIL_STOP")
    <3>1. UNCHANGED <<phase, firstReport, daemon_error>>
      BY <1>3, <2>3 DEF StatsFail
    <3>2. Silent
      BY <2>1, <3>1 DEF Silent, failStopVars, verdictVars
    <3> QED BY <2>1, <3>2, CleaningUnseen
  <2> QED BY <2>2, <2>3
<1>4. CASE FinishFails
  <2>1. /\ pc \in Cleaning /\ pc' \in Cleaning
        /\ UNCHANGED <<active, started, latch, control, outcome, reason>>
        /\ \/ activate(Job) /\ daemon_error' = (daemon_error \/ started)
           \/ UNCHANGED <<phase, firstReport, daemon_error>>
    BY SMTT(60), <1>4 DEF FinishFails, Goto, Cleaning
  <2>2. CASE UNCHANGED <<phase, firstReport, daemon_error>>
    <3>1. Silent
      BY <2>1, <2>2 DEF Silent, failStopVars, verdictVars
    <3> QED BY <2>1, <3>1, CleaningUnseen
  <2> QED BY <2>1, <2>2, <1>b
<1> QED BY <1>1, <1>2, <1>3, <1>4

LEMMA EndImplements ==
    ASSUME RefinementInv, EndUnstarted \/ DropReaps \/ DropWaitFails \/
                          OutputOk \/ OutputFails
    PROVE  Implements
<1>0. /\ clean \in CleanType /\ job \in JobType
      /\ phase \in {"HEALTHY", "FAIL_STOPPING"}
      /\ PathFollows /\ RecordTrue /\ StageKnown
  BY DEF RefinementInv, ExecutorInv, ExecutorTypeOK, FailStopTypeOK, JobType, CleanType
<1>a. ASSUME Contract!RunTaskNext(Job)
      PROVE  Implements
  BY <1>a DEF Implements
\* The view of the state before and after, for any result.
<1>b. ASSUME pc \in {"FINISHED", "DROP", "OUTPUT"}, NEW result, Return(result),
             job'.cgroup = job.cgroup
      PROVE  /\ ExecAs \in {"GATED", "COMMITTED", "STOPPING"}
             /\ started => ExecAs = "STOPPING"
             /\ ~started => ExecAs \in {"GATED", "COMMITTED"}
             /\ ~started /\ active[Job] = "COMMITTED" => ExecAs = "COMMITTED"
             /\ ~started /\ active[Job] # "COMMITTED" => ExecAs = "GATED"
             /\ result = "UNCERTAIN" => Stopped("UNKNOWN", "UNCERTAIN") /\ activate(Job)
             /\ result # "UNCERTAIN" => Stopped("GONE", result)
             /\ result \notin {"BLOCKED", "UNCERTAIN"} => Quiet
             /\ UNCHANGED <<active, latch, control, daemon_error>>
  <2>1. /\ pc \in Cleaning /\ pc' = "DONE" /\ outcome' = result
        /\ UNCHANGED <<active, started, latch, control, daemon_error>>
        /\ job'.cgroup # "ABSENT"
    BY SMTT(60), <1>0, <1>b DEF Return, Goto, Cleaning, PathFollows
  <2>2. /\ result = "UNCERTAIN" => activate(Job)
        /\ result \notin {"BLOCKED", "UNCERTAIN"} => Quiet
    BY SMTT(60), <1>b DEF Return, Quiet, failStopVars
  <2>3. /\ result = "UNCERTAIN" => Stopped("UNKNOWN", "UNCERTAIN")
        /\ result # "UNCERTAIN" => Stopped("GONE", result)
    BY SMTT(60), <2>1, NextViewIs DEF Stopped
  <2>4. /\ ExecAs \in {"GATED", "COMMITTED", "STOPPING"}
        /\ started => ExecAs = "STOPPING"
        /\ ~started => ExecAs \in {"GATED", "COMMITTED"}
        /\ ~started /\ active[Job] = "COMMITTED" => ExecAs = "COMMITTED"
        /\ ~started /\ active[Job] # "COMMITTED" => ExecAs = "GATED"
    BY SMTT(60), <2>1, ViewIs
  <2> QED BY <2>1, <2>2, <2>3, <2>4
<1>1. CASE EndUnstarted
  <2>1. /\ pc = "FINISHED" /\ Return(PathResult) /\ job' = job
        /\ clean.path \in {"FAIL_STOP", "FAILURE", "PENDING", "EXEC_FAILED"}
    BY <1>1 DEF EndUnstarted
  <2>2. /\ PathResult \in {"UNCERTAIN", "BLOCKED", "REUSABLE", "COMPLETED"}
        /\ PathResult = "BLOCKED" => clean.path = "FAIL_STOP"
        /\ PathResult = "COMPLETED" => clean.path = "EXEC_FAILED"
    BY SMTT(60), <1>0, <2>1 DEF PathResult, FinishOk, CleanType
  <2>3. ~started
    BY <1>0, <2>1 DEF StageKnown
  <2>4. CASE PathResult = "UNCERTAIN"
    <3>1. NoVerdict
      BY SMTT(60), <1>1, <2>4 DEF EndUnstarted, Return, NoVerdict
    <3>2. /\ Stopped("UNKNOWN", "UNCERTAIN") /\ activate(Job) /\ UNCHANGED active
          /\ ExecAs \in {"GATED", "COMMITTED"}
      BY SMTT(60), <1>b, <2>1, <2>3, <2>4
    <3> QED BY <3>1, <3>2, <1>a, SeenLoss, SeenIsNext
  <2>5. CASE PathResult = "BLOCKED"
    <3>1. is_fail_stopping /\ active[Job] # "COMMITTED"
      BY SMTT(60), <1>0, <2>2, <2>5 DEF RecordTrue, StageKnown, is_fail_stopping
    <3>2. NoVerdict /\ Quiet
      BY SMTT(60), <1>1, <2>5, <3>1 DEF EndUnstarted, Return, NoVerdict, Quiet, failStopVars, activate,
         is_fail_stopping
    <3>3. Stopped("GONE", "BLOCKED") /\ ExecAs = "GATED"
      BY SMTT(60), <1>b, <2>1, <2>3, <2>5, <3>1
    <3> QED BY <3>1, <3>2, <3>3, <1>a, SeenEnd, SeenIsNext
  <2>6. CASE PathResult = "REUSABLE"
    <3>1. NoVerdict
      BY SMTT(60), <1>1, <2>6 DEF EndUnstarted, Return, NoVerdict
    <3>2. Stopped("GONE", "REUSABLE") /\ Quiet /\ ExecAs \in {"GATED", "COMMITTED"}
      BY SMTT(60), <1>b, <2>1, <2>3, <2>6
    <3> QED BY <3>1, <3>2, <1>a, SeenEnd, SeenIsNext
  <2>7. CASE PathResult = "COMPLETED"
    <3>1. active[Job] = "COMMITTED"
      BY <1>0, <2>2, <2>7 DEF StageKnown
    <3>2. PICK events \in EventSets :
             reason' = classify_termination(events, "NONE", FALSE, FALSE)
      BY <1>1, <2>7 DEF EndUnstarted
    <3>3. /\ Stopped("GONE", "COMPLETED") /\ Quiet /\ ExecAs = "COMMITTED"
          /\ UNCHANGED <<latch, control, daemon_error>>
      BY SMTT(60), <1>b, <2>1, <2>3, <2>7, <3>1
    <3>4. Contract!ExecFailed(Job)
      BY <3>2, <3>3, SeenCompletion
    <3> QED BY <3>4, <1>a, SeenIsNext
  <2> QED BY <2>2, <2>4, <2>5, <2>6, <2>7
<1>c. ASSUME pc = "OUTPUT"
      PROVE  started /\ (daemon_error => is_fail_stopping)
  BY SMTT(60), <1>0, <1>c DEF StageKnown
<1>2. CASE OutputOk
  <2>1. pc = "OUTPUT" /\ job'.cgroup = job.cgroup
    BY SMTT(60), <1>0, <1>2 DEF OutputOk, OnlyJoined, JobType
  <2>2. PICK result \in {"COMPLETED", "REUSABLE", "UNCERTAIN"} :
           /\ Return(result)
           /\ IF result = "COMPLETED"
              THEN \E events \in EventSets :
                      reason' = classify_termination(events, control, daemon_error, TRUE)
              ELSE UNCHANGED reason
    BY <1>2 DEF OutputOk
  <2>3. CASE result = "COMPLETED"
    <3>1. PICK events \in EventSets :
             reason' = classify_termination(events, control, daemon_error, TRUE)
      BY <2>2, <2>3
    <3>2. /\ Stopped("GONE", "COMPLETED") /\ Quiet /\ ExecAs = "STOPPING"
          /\ UNCHANGED <<latch, control, daemon_error>>
      BY SMTT(60), <1>b, <1>c, <2>1, <2>2, <2>3
    <3>3. Contract!FinishCleaned(Job)
      BY <2>1, <1>c, <3>1, <3>2, SeenCompletion
    <3> QED BY <3>3, <1>a, SeenIsNext
  <2>4. CASE result = "REUSABLE"
    <3>1. NoVerdict
      BY SMTT(60), <2>2, <2>4 DEF Return, NoVerdict
    <3>2. Stopped("GONE", "REUSABLE") /\ Quiet /\ ExecAs = "STOPPING"
      BY SMTT(60), <1>b, <1>c, <2>1, <2>2, <2>4
    <3> QED BY <2>1, <1>c, <3>1, <3>2, <1>a, SeenEnd, SeenIsNext
  <2>5. CASE result = "UNCERTAIN"
    <3>1. NoVerdict
      BY SMTT(60), <2>2, <2>5 DEF Return, NoVerdict
    <3>2. /\ Stopped("UNKNOWN", "UNCERTAIN") /\ activate(Job) /\ UNCHANGED active
          /\ ExecAs = "STOPPING"
      BY SMTT(60), <1>b, <1>c, <2>1, <2>2, <2>5
    <3> QED BY <3>1, <3>2, <1>a, SeenLoss, SeenIsNext
  <2> QED BY <2>3, <2>4, <2>5
<1>3. CASE OutputFails
  <2>1. pc = "OUTPUT" /\ Return("UNCERTAIN") /\ job'.cgroup = job.cgroup /\ NoVerdict
    BY SMTT(60), <1>0, <1>3 DEF OutputFails, OnlyJoined, Return, NoVerdict, JobType
  <2>2. /\ Stopped("UNKNOWN", "UNCERTAIN") /\ activate(Job) /\ UNCHANGED active
        /\ ExecAs = "STOPPING"
    BY SMTT(60), <1>b, <1>c, <2>1
  <2> QED BY <2>1, <2>2, <1>a, SeenLoss, SeenIsNext
<1>4. CASE DropReaps \/ DropWaitFails
  <2>1. pc = "DROP" /\ Return("UNCERTAIN") /\ job'.cgroup = job.cgroup /\ NoVerdict
    <3>1. pc = "DROP" /\ Return("UNCERTAIN") /\ UNCHANGED reason
      BY <1>4 DEF DropReaps, DropWaitFails
    <3>2. job'.cgroup = job.cgroup
      BY <1>0, <1>4, DropKeepsCgroup
    <3>3. NoVerdict
      BY SMTT(60), <3>1 DEF Return, NoVerdict
    <3> QED BY <3>1, <3>2, <3>3
  <2>2. ~started
    BY <1>0, <2>1 DEF PathFollows, StageKnown
  <2>3. /\ Stopped("UNKNOWN", "UNCERTAIN") /\ activate(Job) /\ UNCHANGED active
        /\ ExecAs \in {"GATED", "COMMITTED"}
    BY SMTT(60), <1>b, <2>1, <2>2
  <2> QED BY <2>1, <2>3, <1>a, SeenLoss, SeenIsNext
<1> QED BY <1>1, <1>2, <1>3, <1>4

LEMMA StartImplements == ExecutorInit => Contract!RunTaskInit(Job)
<1> SUFFICES ASSUME ExecutorInit PROVE Contract!RunTaskInit(Job)
  OBVIOUS
<1>1. ExecAs = "PREPARING" /\ TreeAs = "NONE"
  BY SMTT(60), ViewIs DEF ExecutorInit
<1> QED BY <1>1, JobAssumption DEF ExecutorInit, Contract!RunTaskInit,
      Contract!NothingDone, ForJob

LEMMA StepImplements == RefinementInv /\ [ExecutorNext]_executorVars => Implements
  BY EnvironmentImplements, BeforeGateImplements, StartedImplements,
     CleanupImplements, EndImplements DEF ExecutorNext, RunTask

LEMMA RefinementInvariant == ExecutorSpec => []RefinementInv
<1>1. ExecutorInit => StageKnown
  BY SMTT(60), StageInit
<1>2. ExecutorInv /\ StageKnown /\ [ExecutorNext]_executorVars => StageKnown'
  BY EnvironmentKeepsStage, RunTaskKeepsStage DEF ExecutorNext
<1>3. RefinementInv <=> ExecutorInv /\ StageKnown
  BY DEF RefinementInv
<1> QED BY <1>1, <1>2, <1>3, ExecutorInvariant, PTL DEF ExecutorSpec

\* run_task, down to the kernel operations it performs, the failures of each and
\* the deadlines it waits under, is an execution as the service sees one: it
\* starts as run_task of Execution does, and each of its steps is one of
\* Execution's or changes nothing the service can see.  What is proved about the
\* service therefore holds of a daemon that runs this executor.
THEOREM ExecutorImplementsExecution == ExecutorSpec => ImplementsExecution
<1>1. ExecutorInit => Contract!RunTaskInit(Job)
  BY SMTT(60), StartImplements
<1>2. RefinementInv /\ [ExecutorNext]_executorVars
         => [Contract!RunTaskNext(Job)]_(Contract!runTaskVars)
  BY StepImplements DEF Implements
<1> QED BY <1>1, <1>2, RefinementInvariant, PTL DEF ExecutorSpec, ImplementsExecution
=============================================================================

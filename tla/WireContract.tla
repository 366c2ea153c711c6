------------------------------- MODULE WireContract -------------------------------
(***************************************************************************)
(* What a caller asks for and what it is told, through every conversion on *)
(* the way: the SDK's encoders, the wire, the daemon's mappers             *)
(* (local_uds/mapper.rs, remote_tls/mapper.rs), the profile record, the    *)
(* remote result conversion and the SDK's decoders.  One request, over one *)
(* of three ways: a raw command ("raw"), a profile on the local socket     *)
(* ("profile") and a profile over TLS ("remote").  A JSON object is a      *)
(* function whose domain is the keys that are present.                     *)
(***************************************************************************)
EXTENDS Naturals, TLC

CONSTANTS
  Kinds,       \* the ways a request may take
  Wanted,      \* what a caller may ask for: [Fields -> values and None]
  Policy,      \* the profile's resource policy, default and maximum
  Allowed,     \* the fields the profile allows to override
  Deployment,  \* the daemon's maximum
  Results,     \* how a task may end, values of complete
  Publications,\* the size of a published output, or why publishing failed: [failed, size]
  MaxLost,     \* answers that are lost
  None         \* an absent value, null on the wire

VARIABLES
  kind,        \* the way this request takes
  wanted,      \* the budget or the overrides of the caller
  effective,   \* the budget the task runs with
  raw,         \* the finished task of the registry
  terminal,    \* ProfileTaskRecord::terminal
  recorded,    \* the answer the remote dispatcher keeps for a repetition
  answer,      \* an answer under way, and what it answers
  seen,        \* what the SDK last returned to its caller
  known,       \* the caller has the id of its task
  lost

vars == <<kind, wanted, effective, raw, terminal, recorded, answer, seen, known, lost>>

Groups == [limits |-> {"cpu", "memory", "pids", "wall"}, output |-> {"stdout", "stderr"}]
Fields == Groups["limits"] \cup Groups["output"]
GroupOf(f) == CHOOSE g \in DOMAIN Groups : f \in Groups[g]
Present(o, S) == {f \in S : o[f] # None}

----------------------------------------------------------------------------
(* Requests *)

\* A group without a field is left out.
encodeResourceOverrides(o) ==
  [g \in {h \in DOMAIN Groups : Present(o, Groups[h]) # {}} |->
     [f \in Present(o, Groups[g]) |-> o[f]]]

\* profilePayload and submitProfile: nothing to override, no key.
profilePayload(o) ==
  IF Present(o, Fields) = {} THEN None ELSE encodeResourceOverrides(o)

profile_resource_overrides(w) ==
  LET present(f) == GroupOf(f) \in DOMAIN w /\ f \in DOMAIN w[GroupOf(f)]
  IN [f \in Fields |-> IF present(f) THEN w[GroupOf(f)][f] ELSE None]

\* The remote wire into the domain's overrides.
domain_overrides(w) ==
  LET present(f) == GroupOf(f) \in DOMAIN w /\ f \in DOMAIN w[GroupOf(f)]
  IN [f \in Fields |-> IF present(f) THEN w[GroupOf(f)][f] ELSE None]

\* Faulty: the CPU is forgotten in the test for a group of limits.
local_overrides_cpu(d) ==
  [g \in {h \in DOMAIN Groups : Present(d, Groups[h] \ {"cpu"}) # {}} |->
     [f \in Present(d, Groups[g]) |-> d[f]]]

\* And back into the wire form of the local protocol.
local_overrides(d) ==
  [g \in {h \in DOMAIN Groups : Present(d, Groups[h]) # {}} |->
     [f \in Present(d, Groups[g]) |-> d[f]]]

\* The local request a remote one is turned into.
local_profile_payload(w) == IF w = None THEN None ELSE local_overrides(domain_overrides(w))

Granted(b) == [code |-> None, budget |-> b]
Refused(code) == [code |-> code, budget |-> None]

\* resolve_resources on the call the local mapper makes of the payload, then
\* the deployment policy.
Resolve(w) ==
  LET d == profile_resource_overrides(w)
      b == IF w = None THEN Policy
           ELSE [f \in Fields |-> IF d[f] = None THEN Policy[f] ELSE d[f]]
  IN IF w # None /\ Present(d, Fields) = {} THEN Refused("INVALID_PROFILE_INPUT")
     ELSE IF w # None /\ (~(Present(d, Fields) \subseteq Allowed) \/ \E f \in Fields : b[f] > Policy[f])
       THEN Refused("LIMIT_EXCEEDS_POLICY")
     ELSE IF \E f \in Fields : b[f] > Deployment[f] THEN Refused("LIMIT_EXCEEDS_POLICY")
     ELSE Granted(b)

\* A raw command brings its whole budget.
submitTaskPayload(o) == [g \in DOMAIN Groups |-> [f \in Groups[g] |-> o[f]]]
resource_budget(w) == [f \in Fields |-> w[GroupOf(f)][f]]

\* The deployment policy on the budget of a raw command.
RawBudget(w) ==
  LET b == resource_budget(w)
  IN IF \E f \in Fields : b[f] > Deployment[f] THEN Refused("LIMIT_EXCEEDS_POLICY") ELSE Granted(b)

Admission ==
  CASE kind = "raw" -> RawBudget(submitTaskPayload(wanted))
    [] kind = "profile" -> Resolve(profilePayload(wanted))
    [] OTHER -> Resolve(local_profile_payload(profilePayload(wanted)))

----------------------------------------------------------------------------
(* Results *)

\* SingleTaskLifecycle::complete: a process that never started has neither an
\* exit code nor a signal, one that ended has exactly one of them.
complete(reason, process, out) ==
  [reason |-> reason, exit |-> IF process = None THEN None ELSE process.exit,
   signal |-> IF process = None THEN None ELSE process.signal, out |-> out]

process_failure_code(reason) == IF reason = "EXITED" THEN "PROCESS_EXITED_NONZERO" ELSE reason

output_failure_code(failed) ==
  IF failed = "undeclared" THEN "OUTPUT_CONTRACT_VIOLATION" ELSE "OUTPUT_PUBLISH_FAILED"

\* ProfileTaskRecord::finalize
finalize(r, publication) ==
  IF r.reason # "EXITED" \/ r.exit # 0
    THEN [outcome |-> "FAILED", code |-> process_failure_code(r.reason)]
  ELSE IF publication.failed = None THEN [outcome |-> "SUCCEEDED", size |-> publication.size]
  ELSE [outcome |-> "FAILED", code |-> output_failure_code(publication.failed)]

\* The parts of a finished task on the local wire: an absent exit code or
\* signal is null.
LocalParts(r) == [reason |-> r.reason, exit |-> r.exit, signal |-> r.signal, out |-> r.out]

Running == [state |-> "RUNNING"]

\* task_snapshot
task_snapshot(r) == IF r = None THEN Running ELSE [state |-> "FINISHED"] @@ LocalParts(r)

published_wire(size) == [kind |-> "LOCAL_FILE", size |-> size]

\* failure is skipped on the wire when there is none.
finished_profile_payload(r, t) ==
  task_snapshot(r)
    @@ [outcome |-> t.outcome,
        artifacts |-> IF t.outcome = "SUCCEEDED"
                        THEN [output |-> published_wire(t.size)] ELSE <<>>]
    @@ IF t.outcome = "FAILED" THEN [failure |-> t.code] ELSE <<>>

\* ProfileTaskRecord::snapshot
snapshot(r, t) == IF r = None THEN Running ELSE finished_profile_payload(r, t)

Error(code) == [type |-> "error", code |-> code]
ProfileResult(payload) == [type |-> "profileResult", payload |-> payload]

\* publish_output_file: the descriptor of an empty output is not accepted.
publish_output_file(artifact) ==
  IF artifact.size = 0 THEN None ELSE [kind |-> "MANAGED_OUTPUT", size |-> artifact.size]

\* The parts of a finished task on the remote wire.
RemoteParts(payload) ==
  [reason |-> payload.reason, exit |-> payload.exit, signal |-> payload.signal, out |-> payload.out]

\* The remote answer made of a local one.
convert_profile_result(payload) ==
  IF payload.state = "RUNNING" THEN ProfileResult(payload)
  ELSE LET managed == [s \in DOMAIN payload.artifacts |-> publish_output_file(payload.artifacts[s])]
       IN IF \E s \in DOMAIN managed : managed[s] = None THEN Error("INTERNAL_ERROR")
          ELSE ProfileResult(RemoteParts(payload) @@ [artifacts |-> managed] @@ payload)

\* taskAccepted carries the limits that were read back from the cgroup,
\* profileAccepted the whole budget.
TaskAccepted(b) == [type |-> "taskAccepted", limits |-> [f \in Groups["limits"] |-> b[f]]]
ProfileAccepted(b) ==
  [type |-> "profileAccepted", limits |-> [f \in Groups["limits"] |-> b[f]],
   output |-> [f \in Groups["output"] |-> b[f]]]

\* The remote answer made of profileAccepted.
accepted(m) ==
  [type |-> "profileAccepted", limits |-> [f \in Groups["limits"] |-> m.limits[f]],
   output |-> [f \in Groups["output"] |-> m.output[f]]]

Accepted(b) ==
  CASE kind = "raw" -> TaskAccepted(b)
    [] kind = "profile" -> ProfileAccepted(b)
    [] OTHER -> accepted(ProfileAccepted(b))

\* getTask and getProfileResult of a task of this kind.
ResultAnswer(r, t) ==
  CASE kind = "raw" -> [type |-> "task", payload |-> task_snapshot(r)]
    [] kind = "profile" -> ProfileResult(snapshot(r, t))
    [] OTHER -> convert_profile_result(snapshot(r, t))

----------------------------------------------------------------------------
(* The decoders of the SDK *)

Unreadable == [type |-> "unreadable"]
TerminationReason == {"EXITED", "EXECUTION_FAILED", "CANCELLED", "TIMED_OUT", "MEMORY_LIMIT_EXCEEDED",
                      "PROCESS_LIMIT_EXCEEDED", "DAEMON_ERROR"}

decodeExecutionResult(payload) ==
  [reason |-> payload.reason, exit |-> payload.exit, signal |-> payload.signal, out |-> payload.out]

\* The checks of the decoders and of the constructors of the two snapshots.
decodePublishedArtifacts(artifacts) == \A s \in DOMAIN artifacts : artifacts[s].kind = "LOCAL_FILE"

FinishedProfileTaskSnapshot(payload) ==
  IF payload.outcome = "SUCCEEDED"
    THEN /\ "failure" \notin DOMAIN payload
         /\ \E s \in DOMAIN payload.artifacts : DOMAIN payload.artifacts = {s}
         /\ payload.reason = "EXITED" /\ payload.exit = 0
    ELSE "failure" \in DOMAIN payload /\ DOMAIN payload.artifacts = {}

decodeManagedOutputArtifact(artifact) == artifact.kind = "MANAGED_OUTPUT"

FinishedRemoteProfileTaskSnapshot(payload) ==
  IF payload.outcome = "SUCCEEDED"
    THEN /\ "failure" \notin DOMAIN payload
         /\ \E s \in DOMAIN payload.artifacts : DOMAIN payload.artifacts = {s}
         /\ payload.reason = "EXITED" /\ payload.exit = 0
    ELSE "failure" \in DOMAIN payload /\ DOMAIN payload.artifacts = {}

Readable(payload) ==
  /\ payload.reason \in TerminationReason
  /\ IF kind = "remote"
       THEN /\ \A s \in DOMAIN payload.artifacts : decodeManagedOutputArtifact(payload.artifacts[s])
            /\ FinishedRemoteProfileTaskSnapshot(payload)
       ELSE /\ decodePublishedArtifacts(payload.artifacts)
            /\ FinishedProfileTaskSnapshot(payload)

decodeProfileResult(payload) ==
  IF payload.state = "RUNNING" THEN [type |-> "running"]
  ELSE IF ~Readable(payload) THEN Unreadable
  ELSE [type |-> "finished", result |-> decodeExecutionResult(payload), outcome |-> payload.outcome,
        failure |-> IF payload.outcome = "FAILED" THEN payload.failure ELSE None,
        size |-> IF payload.outcome = "FAILED" THEN None
                 ELSE payload.artifacts[CHOOSE s \in DOMAIN payload.artifacts : TRUE].size]

decodeTask(payload) ==
  IF payload.state = "RUNNING" THEN [type |-> "running"]
  ELSE IF payload.reason \notin TerminationReason THEN Unreadable
  ELSE [type |-> "finished", result |-> decodeExecutionResult(payload)]

\* The SDK of a raw command takes the tails from its own request.
decodeAccepted(m) ==
  [type |-> "handle", budget |-> m.limits @@ [f \in Groups["output"] |-> wanted[f]]]

decodeEffectiveResources(m) == m.limits @@ m.output
decodeProfileAccepted(m) == [type |-> "handle", budget |-> decodeEffectiveResources(m)]

\* A submission on the local socket is answered by a handle or by the end.
decodeProfileSubmission(m) ==
  IF m.type = "profileAccepted" THEN decodeProfileAccepted(m)
  ELSE IF m.type = "profileResult" /\ decodeProfileResult(m.payload).type = "finished"
    THEN decodeProfileResult(m.payload)
  ELSE Unreadable

\* The remote client takes a handle only.
decodeRemoteAccepted(m) ==
  IF m.type = "profileAccepted" THEN decodeProfileAccepted(m) ELSE Unreadable

\* decodeSubmission
decodeSubmission(m) ==
  IF m.type = "taskAccepted" THEN decodeAccepted(m)
  ELSE IF m.type = "task" /\ decodeTask(m.payload).type = "finished" THEN decodeTask(m.payload)
  ELSE Unreadable

Decoded(asked, m) ==
  CASE m.type = "error" -> m
    [] kind = "raw" -> IF asked = "result" THEN decodeTask(m.payload) ELSE decodeSubmission(m)
    [] asked = "result" -> decodeProfileResult(m.payload)
    [] kind = "profile" -> decodeProfileSubmission(m)
    [] OTHER -> decodeRemoteAccepted(m)

----------------------------------------------------------------------------
(* The conversation *)

Init ==
  /\ kind \in Kinds
  /\ wanted \in {w \in Wanted : kind = "raw" => Present(w, Fields) = Fields}
  /\ effective = None /\ raw = None /\ terminal = None /\ recorded = None
  /\ answer = None /\ seen = [type |-> "nothing"]
  /\ known = FALSE /\ lost = 0

Terminal(r, publication) == IF kind = "raw" THEN None ELSE finalize(r, publication)
NeverStarted(r) == r.exit = None /\ r.signal = None

Answered(asked, m) == answer' = [asked |-> asked, message |-> m]

\* The first submission: the task is refused, runs, or ends before it started.
SubmitNew ==
  /\ answer = None /\ effective = None /\ seen.type # "error"
  /\ \/ /\ Admission.code # None
        /\ Answered("submit", Error(Admission.code))
        /\ UNCHANGED <<effective, raw, terminal, recorded>>
     \/ /\ Admission.code = None
        /\ effective' = Admission.budget
        /\ UNCHANGED <<raw, terminal>>
        /\ Answered("submit", Accepted(Admission.budget))
        /\ recorded' = IF kind = "remote" THEN Accepted(Admission.budget) ELSE None
     \/ /\ Admission.code = None
        /\ effective' = Admission.budget
        /\ \E r \in {x \in Results : NeverStarted(x)}, p \in Publications :
             /\ raw' = r /\ terminal' = Terminal(r, p)
             /\ Answered("submit", ResultAnswer(r, Terminal(r, p)))
             /\ recorded' = IF kind = "remote" THEN ResultAnswer(r, Terminal(r, p)) ELSE None
  /\ UNCHANGED <<kind, wanted, seen, known, lost>>

\* The same request again, after an answer that was lost or not understood.
SubmitAgain ==
  /\ answer = None /\ effective # None /\ ~known
  /\ Answered("repeat",
       CASE kind = "raw" -> IF raw = None THEN Accepted(effective) ELSE ResultAnswer(raw, terminal)
         [] kind = "profile" -> ResultAnswer(raw, terminal)
         [] OTHER -> recorded)
  /\ UNCHANGED <<kind, wanted, effective, raw, terminal, recorded, seen, known, lost>>

\* The task ends, its output is published or not.
Finish ==
  /\ effective # None /\ raw = None
  /\ \E r \in {x \in Results : ~NeverStarted(x)}, p \in Publications :
       /\ raw' = r /\ terminal' = Terminal(r, p)
  /\ UNCHANGED <<kind, wanted, effective, recorded, answer, seen, known, lost>>

\* getTask or getProfileResult
Poll ==
  /\ answer = None /\ known /\ seen.type # "finished"
  /\ Answered("result", ResultAnswer(raw, terminal))
  /\ UNCHANGED <<kind, wanted, effective, raw, terminal, recorded, seen, known, lost>>

Receive ==
  /\ answer # None
  /\ seen' = Decoded(answer.asked, answer.message)
  /\ known' = (known \/ seen'.type \in {"handle", "running", "finished"})
  /\ answer' = None
  /\ UNCHANGED <<kind, wanted, effective, raw, terminal, recorded, lost>>

\* The connection is gone before the answer arrives.
Lose ==
  /\ answer # None /\ lost < MaxLost
  /\ answer' = None /\ lost' = lost + 1
  /\ UNCHANGED <<kind, wanted, effective, raw, terminal, recorded, seen, known>>

Done == seen.type \in {"finished", "error"} /\ UNCHANGED vars

Next == SubmitNew \/ SubmitAgain \/ Finish \/ Poll \/ Receive \/ Lose \/ Done

Spec == Init /\ [][Next]_vars /\ WF_vars(SubmitNew) /\ WF_vars(SubmitAgain) /\ WF_vars(Finish)
             /\ WF_vars(Poll) /\ WF_vars(Receive)

----------------------------------------------------------------------------
(* Properties *)

\* Once a task exists it has a whole budget, and a profile that ended has an
\* outcome (budget of ProfileTaskRecord, terminal of finalize).
TypeOK ==
  /\ effective # None => DOMAIN effective = Fields /\ \A f \in Fields : effective[f] \in Nat
  /\ raw \in Results \cup {None}
  /\ (terminal # None) <=> (raw # None /\ kind # "raw")
  /\ seen.type \in {"nothing", "handle", "running", "finished", "error", "unreadable"}
  /\ known \in BOOLEAN /\ lost \in 0..MaxLost

\* A task runs with the values its caller asked for, field by field, and with
\* the profile's policy elsewhere; the budget the SDK hands out is the one the
\* task runs with, whichever way the request took.
BudgetArrives ==
  /\ effective # None =>
       \A f \in Fields : effective[f] = IF wanted[f] = None THEN Policy[f] ELSE wanted[f]
  /\ seen.type = "handle" => seen.budget = effective

\* A task never runs with more than it may have, and a submission is refused
\* only when it asked for a field or a value it may not have
\* (resolve_resources, validate_override_allowlist, DeploymentPolicy).
RefusedForCause ==
  LET over(f) == wanted[f] # None
                 /\ (wanted[f] > Deployment[f] \/ (kind # "raw" /\ (f \notin Allowed \/ wanted[f] > Policy[f])))
  IN /\ effective # None => \A f \in Fields : ~over(f)
     /\ seen.type = "error" /\ ~known => \E f \in Fields : over(f)

\* What the SDK returns as the end of a task is what the registry holds, part
\* by part; a profile is a success exactly when its process exited with zero
\* and its output was published, and says otherwise what went wrong.
ResultArrives ==
  seen.type = "finished" =>
    /\ seen.result = raw
    /\ kind # "raw" =>
         /\ seen.outcome = terminal.outcome
         /\ IF seen.outcome = "SUCCEEDED"
              THEN raw.reason = "EXITED" /\ raw.exit = 0 /\ seen.size = terminal.size
              ELSE seen.failure = terminal.code

\* The SDK understands every answer to a query, and on the local socket the
\* first answer to a submission (the checks of FinishedProfileTaskSnapshot and
\* its remote twin never meet a result the daemon produces).
ResultReadable ==
  answer # None /\ (answer.asked = "result" \/ (answer.asked = "submit" /\ kind # "remote"))
    => Decoded(answer.asked, answer.message) # Unreadable

\* java-sdk/README.md:200-202: after a lost answer the submission is repeated
\* with the same clientRequestId; the SDK must understand the answer.
RecoverReadable ==
  answer # None /\ answer.asked = "repeat" => Decoded(answer.asked, answer.message) # Unreadable

\* docs/remote-protocol-v1.md:396: the remote result means what the local one
\* does, so that a task that succeeded is not answered with an error.
RemoteFollowsLocal == seen.type = "error" => ~known
=================================================================================

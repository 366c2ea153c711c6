------------------------------- MODULE CapsuleCall -------------------------------
(***************************************************************************)
(* A profile call from submission to execution plan: the chain of resolvers*)
(* (application/capsule/registry.rs, adapters/outbound/capsule_resolvers), *)
(* the verification of the call against the compiled capsule (contract.rs),*)
(* the deployment policy and the handler around them (handlers.rs).        *)
(* The cache may be damaged between any two steps, and the caller may send *)
(* its request again.                                                      *)
(*                                                                         *)
(* A call is [name, wellformed, inputs, override]: name is the profile it  *)
(* asks for, inputs a sequence of [name, kind, v], override a record of    *)
(* budget fields or None.                                                  *)
(***************************************************************************)
EXTENDS CapsuleProfile, FiniteSets

CONSTANTS
  Profiles,   \* what may be imported
  Calls,
  Default,    \* budget of the built-in profile
  Deployment, \* deployment maximum
  MaxSubmits  \* bound on submissions of the request

VARIABLES
  profile,    \* the bundle in the catalog, or None
  damaged,    \* what of the cache is damaged: "bundle", "package", or the
              \* package of the built-in "ffmpeg"
  call,       \* the request, or None before it is first sent
  phase,      \* idle, or prepared when the call has been resolved
  prepared,   \* [source, args, budget], or None
  task,       \* the plan of the accepted task, or None
  answer,     \* the last answer
  submits

vars == <<profile, damaged, call, phase, prepared, task, answer, submits>>

Init ==
  /\ profile = None /\ damaged = {} /\ call = None /\ phase = "idle" /\ prepared = None
  /\ task = None /\ answer = None /\ submits = 0

--------------------------------------------------------------------------------
(***************************************************************************)
(* verify_profile_call                                                     *)
(***************************************************************************)
\* ResolvedExecutionPlan, before its paths are known.
Plan(source, args, budget) == [source |-> source, args |-> args, budget |-> budget]

FirstOf(c, name) ==
  c.inputs[CHOOSE i \in DOMAIN c.inputs :
             /\ c.inputs[i].name = name
             /\ \A j \in DOMAIN c.inputs : c.inputs[j].name = name => i <= j]

\* collect_inputs, validate_exact_input_set
ExactInputs(p, c) ==
  Distinct(NamesOf(c.inputs)) /\ Range(NamesOf(c.inputs)) = Range(NamesOf(p.inputs))

\* What validate_input_values says of one input.
InputVerdict(i, given) ==
  CASE given.kind # i.kind -> "INVALID_PROFILE_INPUT"
    [] i.kind = "LOCAL_INPUT" /\ given.v = "badpath" -> "INVALID_ARTIFACT_PATH"
    [] i.kind = "LOCAL_INPUT" /\ given.v = "baddigest" -> "INVALID_PROFILE_INPUT"
    [] i.kind = "INT64" /\ ~allows(i, given.v) -> "INVALID_PROFILE_INPUT"
    [] i.kind = "STRING" /\ given.v = "" -> "INVALID_PROFILE_INPUT"
    [] OTHER -> "ok"

\* The first input that is turned down decides.
validate_input_values(p, c) ==
  LET verdict(i) == InputVerdict(p.inputs[i], FirstOf(c, p.inputs[i].name))
      bad == {i \in DOMAIN p.inputs : verdict(i) # "ok"}
  IN IF bad = {} THEN "ok" ELSE verdict(CHOOSE i \in bad : \A j \in bad : i <= j)

\* bind_arguments re-checks what the importer has checked
\* (argument_kind_matches_declaration).
Bindable(p) ==
  LET declared(kinds, slot) == \E i \in DOMAIN p.inputs : p.inputs[i].name = slot /\ p.inputs[i].kind \in kinds
  IN \A i \in DOMAIN p.argv :
       LET a == p.argv[i]
       IN CASE a.arg = "literal" -> a.slot # ""
            [] a.arg = "path" -> declared({"LOCAL_INPUT"}, a.slot)
            [] a.arg = "value" -> declared({a.kind}, a.slot)
            [] a.arg = "output" -> a.slot = p.output.name

\* Faulty: a path argument takes the path of the caller.
bind_arguments_caller(p, c) ==
  [i \in DOMAIN p.argv |->
     CASE p.argv[i].arg = "literal" -> <<"literal", p.argv[i].slot>>
       [] p.argv[i].arg = "output" -> <<"output", p.argv[i].slot>>
       [] OTHER -> <<"literal", FirstOf(c, p.argv[i].slot).v>>]

bind_arguments(p, c) ==
  [i \in DOMAIN p.argv |->
     CASE p.argv[i].arg = "literal" -> <<"literal", p.argv[i].slot>>
       [] p.argv[i].arg = "path" -> <<"input", p.argv[i].slot>>
       [] p.argv[i].arg = "output" -> <<"output", p.argv[i].slot>>
       [] p.argv[i].arg = "value" -> <<"literal", FirstOf(c, p.argv[i].slot).v>>]

\* The overridable fields that an override has.
FieldsOf(override) == {f \in Overridable : Parts(f) \subseteq DOMAIN override}

\* resolve_resources, validate_override_allowlist
resolve_resources(p, override) ==
  CASE override = None -> [code |-> "ok", budget |-> p.policy]
    [] OTHER ->
       LET requested == Overridden(p.policy, override)
       IN CASE DOMAIN override = {} \/ ~try_new(requested) ->
                 [code |-> "INVALID_PROFILE_INPUT", budget |-> None]
            [] \/ ~(FieldsOf(override) \subseteq Range(p.overrides))
               \/ ~validate_within_maximum(requested, p.policy) ->
                 [code |-> "LIMIT_EXCEEDS_POLICY", budget |-> None]
            [] OTHER -> [code |-> "ok", budget |-> requested]

\* verify_profile_call: an answer code, and when it is "ok" what was bound.
verify_profile_call(p, c) ==
  LET resources == resolve_resources(p, c.override)
      code == CASE ~validate_compiled_structure(p) -> "ENVIRONMENT_UNAVAILABLE"
                [] ~ExactInputs(p, c) -> "INVALID_PROFILE_INPUT"
                [] validate_input_values(p, c) # "ok" -> validate_input_values(p, c)
                [] ~Bindable(p) -> "ENVIRONMENT_UNAVAILABLE"
                [] OTHER -> resources.code
  IN [code |-> code,
      plan |-> IF code = "ok"
               THEN Plan("bundle", bind_arguments(p, c), resources.budget)
               ELSE None]

--------------------------------------------------------------------------------
(***************************************************************************)
(* The resolvers                                                           *)
(***************************************************************************)
NotFound == [code |-> "NOT_FOUND", plan |-> None]
Refused(code) == [code |-> code, plan |-> None]

\* InstalledCapsuleResolver::resolve
InstalledResolve(c) ==
  CASE profile = None -> NotFound
    [] profile.name # c.name -> NotFound
    [] "bundle" \in damaged \/ ~Compiles(profile) -> Refused("ENVIRONMENT_UNAVAILABLE")
    [] verify_profile_call(profile, c).code = "ok" /\ "package" \in damaged ->
         Refused("ENVIRONMENT_UNAVAILABLE")
    [] verify_profile_call(profile, c).code = "ok" /\ ~profile.output.declarable ->
         Refused("INVALID_PROFILE_INPUT")
    [] OTHER -> verify_profile_call(profile, c)

\* What the built-in profiles take, in the order in which they look at it.
BuiltinSlots(name) ==
  LET slot(n, kind, values) == [name |-> n, kind |-> kind, values |-> values]
  IN IF name = "file-copy"
     THEN <<slot("source", "LOCAL_INPUT", {}), slot("label", "STRING", {}),
            slot("retain_metadata", "BOOLEAN", {}), slot("priority", "INT64", 0..100)>>
     ELSE <<slot("source", "LOCAL_INPUT", {}),
            slot("sample_rate_hz", "INT64", {8000, 16000, 22050, 44100, 48000}),
            slot("channels", "INT64", {1, 2})>>

\* FileCopyResolver::resolve, validate_ffmpeg_call, parse_source: as many inputs
\* as there are slots, and for each slot the first input of that name.
BuiltinVerdict(c) ==
  LET slots == BuiltinSlots(c.name)
      verdict(i) ==
        CASE slots[i].name \notin Range(NamesOf(c.inputs)) -> "INVALID_PROFILE_INPUT"
          [] OTHER ->
             LET given == FirstOf(c, slots[i].name)
             IN CASE given.kind # slots[i].kind -> "INVALID_PROFILE_INPUT"
                  [] given.kind = "LOCAL_INPUT" /\ given.v = "badpath" -> "INVALID_ARTIFACT_PATH"
                  [] given.kind = "LOCAL_INPUT" /\ given.v = "baddigest" -> "INVALID_PROFILE_INPUT"
                  [] given.kind = "STRING" /\ given.v = "" -> "INVALID_PROFILE_INPUT"
                  [] given.kind = "INT64" /\ given.v \notin slots[i].values -> "INVALID_PROFILE_INPUT"
                  [] OTHER -> "ok"
      bad == {i \in DOMAIN slots : verdict(i) # "ok"}
  IN CASE Len(c.inputs) # Len(slots) -> "INVALID_PROFILE_INPUT"
       [] bad = {} -> "ok"
       [] OTHER -> verdict(CHOOSE i \in bad : \A j \in bad : i <= j)

\* resolve_budget has no maximum of its own.
resolve_budget(override) ==
  CASE override = None -> Default
    [] DOMAIN override = {} \/ ~try_new(Overridden(Default, override)) -> None
    [] OTHER -> Overridden(Default, override)

BuiltinResolve(c) ==
  CASE c.name \notin {"file-copy", "ffmpeg"} -> NotFound
    [] BuiltinVerdict(c) # "ok" -> Refused(BuiltinVerdict(c))
    [] resolve_budget(c.override) = None -> Refused("INVALID_PROFILE_INPUT")
    [] c.name = "ffmpeg" /\ "ffmpeg" \in damaged -> Refused("ENVIRONMENT_UNAVAILABLE")
    [] OTHER -> [code |-> "ok",
                 plan |-> Plan("builtin", << <<"input", "source">>, <<"output", "result">> >>,
                               resolve_budget(c.override))]

validate_profile_identity(c) == c.wellformed
validate_slot_name(name) == name \in SlotNames

\* ProfileRegistry::resolve: the first resolver that knows the name answers.
resolve(c) ==
  CASE ~validate_profile_identity(c) -> Refused("INVALID_PROFILE_INPUT")
    [] \E name \in Range(NamesOf(c.inputs)) : ~validate_slot_name(name) -> Refused("INVALID_PROFILE_INPUT")
    [] InstalledResolve(c) # NotFound -> InstalledResolve(c)
    [] BuiltinResolve(c) # NotFound -> BuiltinResolve(c)
    [] OTHER -> Refused("PROFILE_NOT_FOUND")

\* DeploymentResourcePolicy::validate
WithinDeployment(budget) == validate_within_maximum(budget, Deployment)

\* into_plan: paths are those of the staging area.
into_plan(plan) ==
  [plan EXCEPT !.args = [i \in DOMAIN plan.args |->
     IF plan.args[i][1] = "literal" THEN plan.args[i] ELSE <<"staged", plan.args[i][1]>>]]

\* materialize_invocation (profile_mapper.rs) binds the same template to
\* paths given slot by slot; the sets of slots must be the declared ones.
materialize_invocation(p, args, inputs, outputs) ==
  IF \/ DOMAIN inputs # {p.inputs[i].name : i \in LocalInputs(p.inputs)}
     \/ DOMAIN outputs # {p.output.name}
  THEN None
  ELSE [i \in DOMAIN args |->
          CASE args[i][1] = "literal" -> args[i]
            [] args[i][1] = "input" -> inputs[args[i][2]]
            [] args[i][1] = "output" -> outputs[args[i][2]]]

--------------------------------------------------------------------------------
(***************************************************************************)
(* The handler                                                             *)
(***************************************************************************)
Import ==
  /\ profile = None
  /\ \E p \in Profiles : validate_bundle(p) /\ profile' = p
  /\ UNCHANGED <<damaged, call, phase, prepared, task, answer, submits>>

Damage ==
  /\ \E what \in (IF profile = None THEN {"ffmpeg"} ELSE {"ffmpeg", "bundle", "package"}) \ damaged : damaged' = damaged \cup {what}
  /\ UNCHANGED <<profile, call, phase, prepared, task, answer, submits>>

Answer(what) == answer' = what /\ phase' = "idle" /\ prepared' = None

\* runtime.validate, then the deployment policy.
Validate(c) ==
  LET verdict == resolve(c)
  IN CASE verdict.code # "ok" -> Answer(verdict.code)
       [] ~WithinDeployment(verdict.plan.budget) -> Answer("LIMIT_EXCEEDS_POLICY")
       [] OTHER -> phase' = "prepared" /\ prepared' = verdict.plan /\ UNCHANGED answer

Submit ==
  /\ phase = "idle" /\ submits < MaxSubmits
  /\ call' \in IF call = None THEN Calls ELSE {call}
  /\ submits' = submits + 1
  /\ Validate(call')
  /\ UNCHANGED <<profile, damaged, task>>

\* reserve finds the task of an earlier submission, or the input is staged and
\* the task accepted; staging may fail.
Stage ==
  /\ phase = "prepared"
  /\ \/ task # None /\ Answer("accepted") /\ UNCHANGED task
     \/ task = None /\ task' = into_plan(prepared) /\ Answer("accepted")
     \/ task = None /\ Answer("STAGING_FAILED") /\ UNCHANGED task
  /\ UNCHANGED <<profile, damaged, call, submits>>

Next == Import \/ Damage \/ Submit \/ Stage

Spec == Init /\ [][Next]_vars

--------------------------------------------------------------------------------
(***************************************************************************)
(* Properties                                                              *)
(***************************************************************************)
\* Plans and answers have their types, and what is prepared
\* sets every limit.
TypeOK ==
  /\ phase \in {"idle", "prepared"} /\ (phase = "prepared") = (prepared # None)
  /\ \A plan \in {prepared, task} \ {None} :
       plan.budget \in Budgets /\ \A f \in DOMAIN plan.budget : plan.budget[f] > 0

\* The three sets of rules agree: a capsule that the importer accepted and that
\* nothing has damaged is never unavailable, whatever the call
\* (validate_bundle against CapsuleInput::try_from, validate_compiled_structure
\* and bind_arguments).
ContractsAgree == answer = "ENVIRONMENT_UNAVAILABLE" => damaged # {}

\* The reference for a call's inputs: each declared input once, of its kind,
\* with a value the manifest lists or a value in its range.
WellFormed(p, c) ==
  /\ Len(c.inputs) = Len(p.inputs)
  /\ \A i \in DOMAIN p.inputs : \E j \in DOMAIN c.inputs :
       LET d == p.inputs[i] g == c.inputs[j]
       IN /\ g.name = d.name /\ g.kind = d.kind
          /\ d.kind = "LOCAL_INPUT" => g.v = "ok"
          /\ d.kind = "STRING" => g.v # ""
          /\ d.kind = "INT64" => g.v \in IF d.values # None THEN Range(d.values) ELSE d.lo..d.hi

\* A call of an installed capsule gets past its inputs exactly when they are
\* well formed: no listed value is refused and no other one accepted
\* (validate_exact_input_set, validate_input_values, binary_search over values
\* whose order the importer has checked).
InputsExact ==
  [][(/\ submits' # submits /\ damaged = {} /\ profile # None /\ profile.name = call'.name
      /\ profile.output.declarable /\ call'.wellformed /\ call'.override = None) =>
       (phase' = "prepared" \/ answer' = "LIMIT_EXCEEDS_POLICY") = WellFormed(profile, call')]_vars

\* A sound call of an installed and undamaged capsule is never turned down for
\* its inputs: INVALID_PROFILE_INPUT is an answer about the request
\* (DeclaredOutputArtifact::new after validate_bundle).
InstalledCallable ==
  [][(/\ submits' # submits /\ damaged = {} /\ profile # None /\ profile.name = call'.name
      /\ call'.wellformed /\ call'.override = None /\ WellFormed(profile, call')) =>
       (phase' = "idle" => answer' = "LIMIT_EXCEEDS_POLICY")]_vars

\* What runs stays within the deployment maximum, and a capsule's call stays
\* within its policy and departs from it only in fields the capsule allows
\* (resolve_resources, DeploymentResourcePolicy::validate).
BudgetGranted ==
  \A plan \in {prepared, task} \ {None} :
    /\ validate_within_maximum(plan.budget, Deployment)
    /\ plan.source = "bundle" =>
         /\ plan.budget.quota * profile.policy.period <= profile.policy.quota * plan.budget.period
         /\ \A f \in Overridable \ Range(profile.overrides) : \A part \in Parts(f) :
              plan.budget[part] = profile.policy[part]

\* An identity that is installed is never served by the built-in profile of the
\* same name, however damaged it is (CapsuleResolver: fail closed).
NoFallback ==
  [][(prepared' # prepared /\ prepared' # None /\ profile # None)
       => (profile.name = call'.name => prepared'.source = "bundle")]_vars

\* Paths in the command line are those of the staging area, at the places of the
\* template, and the caller's path is nowhere; profile_mapper's materialization
\* gives the same command line (bind_arguments, into_plan).
PathsStaged ==
  task # None /\ task.source = "bundle" =>
    /\ Len(task.args) = Len(profile.argv)
    /\ \A i \in DOMAIN task.args :
         (task.args[i][1] = "staged") = (profile.argv[i].arg \in {"path", "output"})
    /\ task.args = materialize_invocation(profile, bind_arguments(profile, call),
         [n \in {profile.inputs[i].name : i \in LocalInputs(profile.inputs)} |-> <<"staged", "input">>],
         [n \in {profile.output.name} |-> <<"staged", "output">>])

\* Sending an accepted request again answers with its task.
RetryAnswered == task # None /\ phase = "idle" => answer = "accepted"

================================================================================

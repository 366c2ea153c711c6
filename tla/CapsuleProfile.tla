----------------------------- MODULE CapsuleProfile -----------------------------
(***************************************************************************)
(* Profiles and the rules on them, which the code states three times: when *)
(* a bundle is imported or inspected (bundle_catalog.rs), when it is       *)
(* compiled to a capsule (capsule.rs) and when a call is verified against  *)
(* the compiled capsule (application/capsule/contract.rs).                 *)
(*                                                                         *)
(* A profile is [identity, package, inputs, output, argv, overrides,       *)
(* policy]; an input is [name, kind, required, values, lo, hi]; an argument*)
(* is [arg, slot, kind].  identity and package say whether the name and    *)
(* version, and the package id, are well formed; output is [name, valid,   *)
(* declarable], where valid is the importer's view of its file name and    *)
(* media type and declarable that of DeclaredOutputArtifact::new.          *)
(***************************************************************************)
EXTENDS Budget, Integers, Sequences

CONSTANTS
  SlotNames,   \* names of the form [a-z][a-z0-9_-]*
  MaxInputs, MaxValues, MaxArgv,  \* 32, 64 and 128 in the code
  None

Range(s) == {s[i] : i \in DOMAIN s}
Distinct(s) == \A i, j \in DOMAIN s : s[i] = s[j] => i = j
StrictlyAscending(s) == \A i \in DOMAIN s \ {1} : s[i - 1] < s[i]
Kinds == {"LOCAL_INPUT", "STRING", "INT64", "BOOLEAN"}
NamesOf(inputs) == [i \in DOMAIN inputs |-> inputs[i].name]
LocalInputs(inputs) == {i \in DOMAIN inputs : inputs[i].kind = "LOCAL_INPUT"}

--------------------------------------------------------------------------------
(***************************************************************************)
(* bundle_catalog.rs                                                       *)
(***************************************************************************)
validate_identity(p) == p.identity
validate_slot(name) == name \in SlotNames
validate_relative_filename(output) == output.valid

validate_input_schema(i) ==
  IF i.kind # "INT64"
  THEN i.values = None /\ i.lo = None /\ i.hi = None
  ELSE \/ /\ i.values # None /\ i.lo = None /\ i.hi = None
          /\ Len(i.values) \in 1..MaxValues
          /\ StrictlyAscending(i.values)
       \/ i.values = None /\ i.lo # None /\ i.hi # None /\ i.lo <= i.hi

require_input_kind(inputs, slot, kind) ==
  \E i \in DOMAIN inputs : inputs[i].name = slot /\ inputs[i].kind = kind

validate_argv(a, p) ==
  CASE a.arg = "literal" -> a.slot # ""
    [] a.arg = "path" -> require_input_kind(p.inputs, a.slot, "LOCAL_INPUT")
    [] a.arg = "value" -> require_input_kind(p.inputs, a.slot, a.kind)
    [] a.arg = "output" -> a.slot = p.output.name

validate_bundle(p) ==
  /\ validate_identity(p) /\ p.package
  /\ Len(p.inputs) \in 1..MaxInputs
  /\ \A i \in DOMAIN p.inputs :
       /\ validate_slot(p.inputs[i].name) /\ p.inputs[i].required
       /\ p.inputs[i].kind \in Kinds /\ validate_input_schema(p.inputs[i])
  /\ Distinct(NamesOf(p.inputs))
  /\ \E i \in DOMAIN p.inputs : LocalInputs(p.inputs) = {i}
  /\ validate_slot(p.output.name) /\ validate_relative_filename(p.output)
  /\ Len(p.argv) \in 1..MaxArgv
  /\ \A i \in DOMAIN p.argv : validate_argv(p.argv[i], p)
  /\ Range(p.overrides) \subseteq Overridable /\ Distinct(p.overrides)
  /\ try_new(p.policy)

--------------------------------------------------------------------------------
(***************************************************************************)
(* capsule.rs                                                              *)
(***************************************************************************)
\* CapsuleInput::try_from
CompiledInput(i) ==
  /\ i.required /\ i.kind \in Kinds
  /\ IF i.kind # "INT64"
     THEN i.values = None /\ i.lo = None /\ i.hi = None
     ELSE \/ /\ i.values # None /\ i.lo = None /\ i.hi = None
             /\ Len(i.values) \in 1..MaxValues /\ StrictlyAscending(i.values)
          \/ i.values = None /\ i.lo # None /\ i.hi # None /\ i.lo <= i.hi

\* from_verified_inspection
Compiles(p) ==
  /\ \A i \in DOMAIN p.inputs : CompiledInput(p.inputs[i])
  /\ Range(p.overrides) \subseteq Overridable /\ Distinct(p.overrides)
  /\ p.identity

\* slice::binary_search: the half that may hold the value is kept.
binary_search(values, v) ==
  LET find[base \in 0..Len(values), size \in 0..Len(values)] ==
        IF size <= 1 THEN values[base + 1] = v
        ELSE LET half == size \div 2
                 mid == base + half
             IN find[IF values[mid + 1] > v THEN base ELSE mid, size - half]
  IN Len(values) > 0 /\ find[0, Len(values)]

\* CapsuleInt64Constraint::allows
allows(i, v) == IF i.values # None THEN binary_search(i.values, v) ELSE v \in i.lo..i.hi

--------------------------------------------------------------------------------
(***************************************************************************)
(* application/capsule/contract.rs                                         *)
(***************************************************************************)
validate_compiled_structure(p) ==
  /\ Len(p.inputs) \in 1..MaxInputs
  /\ \A i \in DOMAIN p.inputs : p.inputs[i].required /\ p.inputs[i].name \in SlotNames
  /\ Distinct(NamesOf(p.inputs))
  /\ \E i \in DOMAIN p.inputs : LocalInputs(p.inputs) = {i}
  /\ p.output.name \in SlotNames
  /\ Len(p.argv) \in 1..MaxArgv
  /\ Range(p.overrides) \subseteq Overridable /\ Distinct(p.overrides)

================================================================================

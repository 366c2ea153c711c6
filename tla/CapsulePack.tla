------------------------------- MODULE CapsulePack -------------------------------
(***************************************************************************)
(* From a Capsulefile to an installed capsule: the parser, which takes one *)
(* directive after another (capsulefile.rs), the builder (capsule_pack.rs, *)
(* cli/capsule_build.rs) and the installer (cli/capsule.rs), which imports *)
(* the Runtime Package and then the bundle of a Pack.  Any file system call*)
(* may fail and the installer may be killed, MaxFaults times in all; a     *)
(* build or an install that ended can be run again.                        *)
(*                                                                         *)
(* A Runtime Package is [id, plain, arch, tree]: plain says whether its id *)
(* keeps to the bundle's alphabet, tree is "ok", "rootless" or, with files *)
(* beside the manifest and rootfs, "extra".                                *)
(***************************************************************************)
EXTENDS CapsuleProfile, FiniteSets

CONSTANTS
  Froms,        \* FROM: [scheme, id]
  InputLines,   \* INPUT and OPTION: inputs of a profile
  Outputs, Commands, Limits, Allows,
  Identities,   \* CAPSULE: whether name and version are well formed
  Packages,     \* what --runtime-package may name
  Period,       \* 100000 in the code
  MaxLines, MaxFaults,
  Partial       \* a Pack file that was not finished

VARIABLES
  file,      \* what the directives read so far have set
  pc,        \* where the running command is
  source,    \* the Runtime Package of the build, or None
  out,       \* the Pack file: None, Partial or [profile, from, package]
  staged,    \* number of staging directories, each with a name of its own
  kills,     \* installers killed so far
  packages,  \* ids of the packages in the cache
  catalog,   \* the bundle in the catalog, or None
  ended,     \* how the last command ended
  faults

vars == <<file, pc, source, out, staged, kills, packages, catalog, ended, faults>>

Once == {"from", "runtime", "capsule", "output", "command", "limit", "allow"}
EmptyFile == [d \in Once \cup {"inputs"} |-> IF d = "inputs" THEN <<>> ELSE None]

Init ==
  /\ file = EmptyFile /\ pc = "parse" /\ source = None /\ out = None
  /\ staged = 0 /\ kills = 0 /\ packages = {} /\ catalog = None /\ ended = None /\ faults = 0

--------------------------------------------------------------------------------
(***************************************************************************)
(* capsulefile.rs                                                          *)
(***************************************************************************)
\* A command that ends leaves what it has made.
End(how) == pc' = "idle" /\ ended' = how
Refuse == End("refused") /\ file' = EmptyFile

\* require_once, then the value of the directive.
Directive(d, value) ==
  IF file[d] # None THEN Refuse
  ELSE file' = [file EXCEPT ![d] = value] /\ UNCHANGED <<pc, ended>>

parse_limits(l) ==
  [quota |-> (l.cpu * Period) % (Max64 + 1), period |-> Period, memory |-> l.memory,
   pids |-> l.pids, wall |-> l.wall, stdout |-> MaxTail, stderr |-> MaxTail]

parse_int_option(i) == Len(i.values) > 0 /\ StrictlyAscending(i.values)

InputLine(i) ==
  IF \/ i.kind = "INT64" /\ ~parse_int_option(i)
     \/ i.name \in Range(NamesOf(file.inputs))
  THEN Refuse
  ELSE file' = [file EXCEPT !.inputs = Append(@, i)] /\ UNCHANGED <<pc, ended>>

\* One line of the file, for each directive.
ReadLine ==
  /\ pc = "parse"
  /\ \/ \E f \in Froms : Directive("from", f)
     \/ Directive("runtime", TRUE)
     \/ \E valid \in Identities : Directive("capsule", valid)
     \/ Len(file.inputs) < MaxLines /\ \E i \in InputLines : InputLine(i)
     \/ \E o \in Outputs : Directive("output", o)
     \/ \E c \in Commands : Directive("command", c)
     \/ \E l \in Limits : IF l.cpu = 0 \/ l.pids = 0 THEN Refuse ELSE Directive("limit", parse_limits(l))
     \/ \E a \in Allows : IF Distinct(a) THEN Directive("allow", a) ELSE Refuse
  /\ UNCHANGED <<kills, source, out, staged, packages, catalog, faults>>

KindOf(inputs, slot) == inputs[CHOOSE i \in DOMAIN inputs : inputs[i].name = slot].kind

\* A token of COMMAND; the output's name comes before those of the inputs.
materialize_argv(token, inputs, output) ==
  CASE token.t = "literal" -> [arg |-> "literal", slot |-> token.name, kind |-> None]
    [] token.name = output.name -> [arg |-> "output", slot |-> token.name, kind |-> None]
    [] KindOf(inputs, token.name) = "LOCAL_INPUT" ->
         [arg |-> "path", slot |-> token.name, kind |-> None]
    [] OTHER -> [arg |-> "value", slot |-> token.name, kind |-> "INT64"]

\* No shell token, and every placeholder names an input or the output.
Tokens(f) ==
  \A i \in DOMAIN f.command :
    /\ f.command[i].t # "shell"
    /\ f.command[i].t = "slot" =>
         f.command[i].name \in Range(NamesOf(f.inputs)) \cup {f.output.name}

ProfileOf(f) ==
  [identity |-> f.capsule, package |-> TRUE, inputs |-> f.inputs, output |-> f.output,
   argv |-> [i \in DOMAIN f.command |-> materialize_argv(f.command[i], f.inputs, f.output)],
   overrides |-> IF f.allow = None THEN <<>> ELSE f.allow, policy |-> f.limit]

\* The end of the file.
parse ==
  /\ pc = "parse"
  /\ IF /\ \A d \in Once \ {"runtime", "allow"} : file[d] # None
        /\ file.from.scheme = "oci" => file.runtime # None
        /\ Tokens(file)
     THEN pc' = "parsed" /\ UNCHANGED <<file, ended>>
     ELSE Refuse
  /\ UNCHANGED <<kills, source, out, staged, packages, catalog, faults>>

--------------------------------------------------------------------------------
(***************************************************************************)
(* capsule_build.rs and capsule_pack.rs                                    *)
(***************************************************************************)
\* execute: a package directory is given exactly when FROM names a runtime;
\* an image is turned into a package of the declared id.
execute ==
  /\ pc = "parsed"
  /\ \E given \in Packages \cup {None} :
       CASE given # None /\ file.from.scheme = "runtime" ->
              source' = given /\ pc' = "package" /\ UNCHANGED ended
         [] given = None /\ file.from.scheme = "oci" ->
              /\ pc' = "package" /\ UNCHANGED ended
              /\ source' \in {p \in Packages : p.id = file.from.id /\ p.tree = "ok"}
         [] OTHER -> End("refused") /\ UNCHANGED source
  /\ UNCHANGED <<kills, file, out, staged, packages, catalog, faults>>

\* build up to the creation of the file, which must be new.
CreateOutput ==
  /\ pc = "package"
  /\ \E platform \in {"amd64", "arm64"} :
       IF platform # source.arch \/ source.tree = "rootless" \/ out # None
       THEN End("refused") /\ UNCHANGED out
       ELSE pc' = "write" /\ out' = Partial /\ UNCHANGED ended
  /\ UNCHANGED <<kills, file, source, staged, packages, catalog, faults>>

WritePack ==
  /\ pc = "write"
  /\ out' = [profile |-> [ProfileOf(file) EXCEPT !.package = source.plain],
             from |-> file.from, package |-> source]
  /\ End("built")
  /\ UNCHANGED <<kills, file, source, staged, packages, catalog, faults>>

--------------------------------------------------------------------------------
(***************************************************************************)
(* cli/capsule.rs                                                          *)
(***************************************************************************)
\* A new command: build with the same file, or install of the Pack.
Build ==
  /\ pc = "idle" /\ file # EmptyFile /\ ended \in {"failed", "killed"}
  /\ pc' = "parsed"
  /\ UNCHANGED <<kills, file, source, out, staged, packages, catalog, ended, faults>>

create_staging ==
  /\ pc = "idle" /\ out # None
  /\ staged' = staged + 1 /\ pc' = "extract"
  /\ UNCHANGED <<kills, file, source, out, packages, catalog, ended, faults>>

\* extract_pack: only the archive, the manifest and what is under rootfs.
extract_pack ==
  /\ pc = "extract"
  /\ IF out = Partial \/ out.package.tree = "extra"
     THEN End("refused") /\ staged' = staged - 1
     ELSE pc' = "package_in" /\ UNCHANGED <<ended, staged>>
  /\ UNCHANGED <<kills, file, source, out, packages, catalog, faults>>


ImportPackage ==
  /\ pc = "package_in"
  /\ packages' = packages \cup {out.package.id} /\ pc' = "bundle_in"
  /\ UNCHANGED <<kills, file, source, out, staged, catalog, ended, faults>>

\* import_unsigned, and the staging directory is dropped.
ImportBundle ==
  /\ pc = "bundle_in"
  /\ staged' = staged - 1
  /\ IF ~validate_bundle(out.profile)
     THEN End("refused") /\ UNCHANGED catalog
     ELSE catalog' = out /\ End("installed")
  /\ UNCHANGED <<kills, file, source, out, packages, faults>>

\* A call fails: the installer drops its staging directory, the builder leaves
\* the file it was writing.
Fails ==
  /\ pc \in {"package", "write", "extract", "package_in", "bundle_in"} /\ faults < MaxFaults
  /\ faults' = faults + 1 /\ End("failed")
  /\ staged' = IF pc \in {"package", "write"} THEN staged ELSE staged - 1
  /\ UNCHANGED <<kills, file, source, out, packages, catalog>>

Kill ==
  /\ pc \in {"write", "extract", "package_in", "bundle_in"} /\ faults < MaxFaults
  /\ faults' = faults + 1 /\ End("killed")
  /\ kills' = IF pc = "write" THEN kills ELSE kills + 1
  /\ UNCHANGED <<file, source, out, staged, packages, catalog>>

Next ==
  \/ ReadLine \/ parse \/ execute \/ CreateOutput \/ WritePack
  \/ Build \/ create_staging \/ extract_pack \/ ImportPackage \/ ImportBundle \/ Fails \/ Kill

Spec == Init /\ [][Next]_vars

--------------------------------------------------------------------------------
(***************************************************************************)
(* Properties                                                              *)
(***************************************************************************)
\* What the parser accepts binds: each argument names a declared slot of the
\* kind the importer asks for, and the override list is one the importer takes
\* (materialize_argv, parse_allowed_overrides against validate_argv,
\* validate_bundle).
ParsedBinds ==
  pc \in {"parsed", "package", "write"} =>
    LET p == ProfileOf(file)
    IN /\ \A i \in DOMAIN p.argv : validate_argv(p.argv[i], p)
       /\ Range(p.overrides) \subseteq Overridable /\ Distinct(p.overrides)
       /\ Compiles([p EXCEPT !.identity = TRUE])

\* An installed capsule compiles, and its Runtime Package is in the cache,
\* whatever failed or was killed on the way (install).
InstalledRuns ==
  catalog # None => catalog.package.id \in packages /\ Compiles(catalog.profile)

\* Between commands only the staging directories of killed installers are left
\* (PackStaging::extract and its Drop).
StagingTidy == pc = "idle" => staged = kills

\* A finished Pack can be installed: the first install of it on a cache without
\* its identity, in which no call failed, is not refused.
PackInstallable ==
  (pc = "idle" /\ ended = "refused" /\ out \notin {None, Partial} /\ packages # {} /\ faults = 0)
    => catalog # None

\* The Pack holds the runtime that FROM names.
FromHonoured == out \notin {None, Partial} => out.package.id = out.from.id

================================================================================

----------------------------- MODULE PackageManifest -----------------------------
(***************************************************************************)
(* The Runtime Package from its author to the cache: `runtime build`       *)
(* (daemon/src/runtime_package_builder.rs) copies a root directory and     *)
(* writes a manifest, or the author writes one by hand; import checks the  *)
(* manifest (runtime_package/manifest.rs), the host and the exact set of   *)
(* files, and recreates the tree (runtime_package_cache.rs).  A path is a  *)
(* sequence of names, a name a sequence of bytes: what is sorted, and how, *)
(* is what these properties are about.                                     *)
(***************************************************************************)
EXTENDS Naturals, Sequences, FiniteSets, SequencesExt

CONSTANTS
  Paths,      \* the paths files may have
  Configs,    \* what is built: entrypoint, library path (or None) and SBOM
  Versions,   \* versions of glibc: sequences of numbers
  None

Slash == 2    \* the byte between two names; a byte may be smaller

\* A package as it lies in a directory: files, those of them that are
\* executable, and directories without a file in them.
Trees == {t \in [files : SUBSET Paths, execs : SUBSET Paths, empty : SUBSET Paths] :
            /\ t.execs \subseteq t.files
            /\ t.files \cap t.empty = {}
            /\ \A p \in t.files, q \in t.files \cup t.empty : ~IsStrictPrefix(p, q)
            /\ \A p \in t.empty, q \in t.files \cup t.empty : ~IsStrictPrefix(p, q)}

VARIABLES
  tree,      \* the package's root directory
  config,    \* the entrypoint, the library path and the SBOM it is built with
  manifest,  \* the files of the manifest: a sequence of [path, exec], or None
  todo,      \* what populate_staging has yet to create, in order
  staging,   \* the paths it has created
  host,      \* glibc of the host and the minimum the manifest asks for
  phase

vars == <<tree, config, manifest, todo, staging, host, phase>>

\* Byte order of two sequences, as of [u8] and Vec<u32>.
Before(s, t) ==
  \/ IsStrictPrefix(s, t)
  \/ \E i \in 1..Len(s) \cap 1..Len(t) :
       s[i] < t[i] /\ SubSeq(s, 1, i - 1) = SubSeq(t, 1, i - 1)

Join(path) ==
  FoldLeft(LAMBDA acc, name : IF acc = <<>> THEN name ELSE acc \o <<Slash>> \o name, <<>>, path)

\* Names are compared one after the other: the order of a walk that sorts the
\* entries of every directory.
NamesBefore(p, q) ==
  \/ IsStrictPrefix(p, q)
  \/ \E i \in DOMAIN p \cap DOMAIN q :
       Before(p[i], q[i]) /\ SubSeq(p, 1, i - 1) = SubSeq(q, 1, i - 1)

Parents(path) == Prefixes(path) \ {<<>>, path}

Init ==
  /\ tree \in Trees
  /\ config \in Configs
  /\ manifest = None /\ todo = <<>> /\ staging = {} /\ host = None
  /\ phase = "source"

--------------------------------------------------------------------------------
(***************************************************************************)
(* The manifest                                                            *)
(***************************************************************************)
Listed(m) == {m[i].path : i \in DOMAIN m}

\* Sorted by the bytes of the path, without duplicates, and no file is the
\* parent of another.
ValidFiles(m) ==
  /\ m # <<>>
  /\ \A i \in 1..(Len(m) - 1) : Before(Join(m[i].path), Join(m[i + 1].path))
  /\ \A p \in Listed(m), q \in Listed(m) : ~IsStrictPrefix(p, q)

validate_manifest(m, c) ==
  /\ ValidFiles(m)
  /\ \E i \in DOMAIN m : m[i].path = c.entry /\ m[i].exec
  /\ c.lib # None => \E p \in Listed(m) : IsStrictPrefix(c.lib, p)
  /\ c.sbom \in Listed(m)

--------------------------------------------------------------------------------
(***************************************************************************)
(* runtime build                                                           *)
(***************************************************************************)
\* The files in the order of the walk.
copy_tree ==
  LET seq == SetToSortSeq(tree.files, NamesBefore)
  IN [i \in DOMAIN seq |-> [path |-> seq[i], exec |-> seq[i] \in tree.execs]]

\* Faulty: the order of the walk is taken for the order of the paths.
SortedFiles_walk == copy_tree

SortedFiles == SortSeq(copy_tree, LAMBDA a, b : Before(Join(a.path), Join(b.path)))

\* A directory without files is copied; the manifest does not name it.  On an
\* error the output is removed.
build ==
  /\ phase = "source"
  /\ LET m == SortedFiles
     IN IF validate_manifest(m, config)
        THEN manifest' = m /\ phase' = "built"
        ELSE phase' = "refused" /\ UNCHANGED manifest
  /\ UNCHANGED <<tree, config, todo, staging, host>>

\* The author writes a manifest instead, of the files in some order.
Author ==
  /\ phase = "source" /\ Cardinality(tree.files) < 4
  /\ \E seq \in SetToSeqs(tree.files) :
       manifest' = [i \in DOMAIN seq |-> [path |-> seq[i], exec |-> seq[i] \in tree.execs]]
  /\ phase' = "built"
  /\ UNCHANGED <<tree, config, todo, staging, host>>

--------------------------------------------------------------------------------
(***************************************************************************)
(* import                                                                  *)
(***************************************************************************)
\* Missing components count as zero.
compare_component_versions(actual, minimum) ==
  LET width == IF Len(actual) > Len(minimum) THEN Len(actual) ELSE Len(minimum)
      pad(v) == [i \in 1..width |-> IF i <= Len(v) THEN v[i] ELSE 0]
  IN IF Before(pad(actual), pad(minimum)) THEN "less" ELSE "other"

declared_directories(m) == UNION {Parents(p) : p \in Listed(m)}

\* What walk_rootfs finds is what the manifest declares.
require_exact_rootfs(m) ==
  /\ tree.files = Listed(m)
  /\ UNION {Parents(p) : p \in tree.files \cup tree.empty} \cup tree.empty
       = declared_directories(m)

\* The directories of a BTreeSet of strings, then the files.
CreationOrder(m) ==
  SetToSortSeq(declared_directories(m), LAMBDA p, q : Before(Join(p), Join(q)))
    \o [i \in DOMAIN m |-> m[i].path]

SourcePackage ==
  /\ phase = "built"
  /\ IF validate_manifest(manifest, config) /\ require_exact_rootfs(manifest)
     THEN phase' = "compatible"
     ELSE phase' = "rejected"
  /\ UNCHANGED <<tree, config, manifest, todo, staging, host>>

check_host_compatibility ==
  /\ phase = "compatible"
  /\ \E actual \in Versions, minimum \in Versions :
       /\ host' = <<actual, minimum>>
       /\ IF compare_component_versions(actual, minimum) = "less"
          THEN phase' = "incompatible" /\ UNCHANGED todo
          ELSE phase' = "populate" /\ todo' = CreationOrder(manifest)
  /\ UNCHANGED <<tree, config, manifest, staging>>

\* mkdir, or open with create_new: the parent must exist and the name must not.
populate_staging ==
  /\ phase = "populate"
  /\ IF todo = <<>>
     THEN phase' = "imported" /\ UNCHANGED <<todo, staging>>
     ELSE LET p == Head(todo)
          IN IF Parents(p) \subseteq staging /\ p \notin staging
             THEN staging' = staging \cup {p} /\ todo' = Tail(todo) /\ UNCHANGED phase
             ELSE phase' = "failed" /\ UNCHANGED <<todo, staging>>
  /\ UNCHANGED <<tree, config, manifest, host>>

Next == build \/ Author \/ SourcePackage \/ check_host_compatibility \/ populate_staging

Spec == Init /\ [][Next]_vars

--------------------------------------------------------------------------------
(***************************************************************************)
(* Properties                                                              *)
(***************************************************************************)
Phases == {"source", "refused", "built", "rejected", "compatible", "incompatible", "populate",
           "imported", "failed"}

\* Every variable has its type, nothing is created that is not declared, and a
\* build that was refused leaves no manifest.
TypeOK ==
  /\ tree \in Trees
  /\ manifest # None => Listed(manifest) \subseteq Paths
  /\ phase \in Phases
  /\ manifest = None <=> phase \in {"source", "refused"}
  /\ staging \subseteq Paths \cup UNION {Parents(p) : p \in Paths}

\* What makes a package buildable, without the order of its manifest.
Buildable ==
  /\ config.entry \in tree.execs
  /\ config.sbom \in tree.files
  /\ config.lib # None => \E p \in tree.files : IsStrictPrefix(config.lib, p)

\* `runtime build` refuses no tree for the order of its files: the walk yields
\* "a/b" before "a-", the bytes of the path are the other way round, and the
\* manifest must follow the bytes (copy_tree and the sort after it).
BuildComplete == phase = "refused" => ~Buildable

\* A manifest that passed its checks can be unpacked: populate_staging meets a
\* missing parent or a name that exists in no case, although it creates the
\* directories in the order of their bytes (declared_directories, the check
\* that no file is the parent of another).
PopulateSucceeds == phase # "failed"

\* An imported package is the tree of its source (require_exact_rootfs).
ImportMirrors ==
  phase = "imported" =>
    staging = tree.files \cup UNION {Parents(p) : p \in tree.files} /\ tree.empty = {}

Value(v) == 100 * v[1] + 10 * v[2] + (IF Len(v) = 3 THEN v[3] ELSE 0)

\* The host is refused exactly when its version is the smaller number
\* (compare_component_versions, versions of two and of three components).
HostOrdered ==
  host # None => (phase = "incompatible" <=> Value(host[1]) < Value(host[2]))

\* What `runtime build` made is accepted by the import on a suitable host.
BuiltImportable == phase = "rejected" /\ Buildable => manifest # SortedFiles

================================================================================

-------------------------------- MODULE MCStores --------------------------------
(***************************************************************************)
(* What the daemon and its tools keep on disk, for TLC, side by side: the  *)
(* package cache (cache), the manifest of a package (manifest), the bundle *)
(* catalog with kills (catalog) and with power losses and readers (power), *)
(* the way of a Capsulefile into both (pack), and the remote artifact      *)
(* store with several uploads (uploads) and with longer ones (chunks).     *)
(* They share no state here: part names the one that takes the steps of a  *)
(* behaviour, the others stay as they begin.                               *)
(***************************************************************************)
EXTENDS PackageCache, Sequences, TLC

CONSTANTS
  c1, c2, r1, f1, f2,                   \* cache, catalog, power
  d1, d2, d3, v1, v2, p1, p2,           \* catalog, power
  i1, i2, t1, t2, w1, k1, k2, x, y,     \* uploads, chunks
  Partial                               \* pack

VARIABLES
  part,
  tree, config, manifest, todo, staging, host, phase,
  entries, stages, identity, mapping, idstages, durable, pid, digest, outcome, at, told,
  want, seen, inspected, used, old, hit, failed,
  file, step, source, out, staged, kills, packages, catalog, ended, errors,
  up, mem, upload_keys, quotas, files, records, op, pub, token, expired, fresh, lost,
  crashes, promised, got, taken, transferCut

cacheVars == vars
manifestVars == <<tree, config, manifest, todo, staging, host, phase>>
catalogVars == <<entries, stages, identity, mapping, idstages, durable, pid, digest, outcome,
                 at, told, want, seen, inspected, used, old, hit, failed>>
packVars == <<file, step, source, out, staged, kills, packages, catalog, ended, errors>>
artifactVars == <<up, mem, upload_keys, quotas, files, records, op, pub, token, expired, fresh,
                  lost, crashes, promised, got, taken, transferCut>>

--------------------------------------------------------------------------------
\* Names "a", "a-" and "b", whose first two sort one way as names and the other
\* way in front of a slash.
a == <<3>>
adash == <<3, 1>>
b == <<4>>
SmallPaths == {<<a>>, <<a, b>>, <<a, a, b>>, <<adash>>, <<adash, b>>, <<b>>}
Manifest == INSTANCE PackageManifest WITH
  Paths <- SmallPaths,
  Configs <- [entry : SmallPaths, lib : {None, <<a>>}, sbom : {<<b>>, <<a, b>>}],
  Versions <- {<<2, 3>>, <<2, 3, 0>>, <<2, 3, 1>>, <<2, 4>>, <<1, 9, 9>>}

\* Two bundles of one identity and one of another version.
Digests == {d1, d2, d3}
Versions == {v1, v2}
VersionOf == (d1 :> v1) @@ (d2 :> v1) @@ (d3 :> v2)
Catalog == INSTANCE BundleCatalog WITH
  Imports <- {c1, c2}, Readers <- {}, Pids <- {p1, p2}, MaxFaults <- 2,
  ReusePids <- FALSE, PowerFails <- FALSE,
  pc <- at, res <- told, got <- inspected, faults <- failed
Power == INSTANCE BundleCatalog WITH
  Imports <- {c1, c2}, Readers <- {r1}, Pids <- {p1, p2}, MaxFaults <- 1,
  ReusePids <- FALSE, PowerFails <- TRUE,
  pc <- at, res <- told, got <- inspected, faults <- failed

\* Capsulefiles within and outside the importer's rules.
Artifact(name) ==
  [name |-> name, kind |-> "LOCAL_INPUT", required |-> TRUE, values |-> None, lo |-> None, hi |-> None]
Option(name, values) ==
  [name |-> name, kind |-> "INT64", required |-> TRUE, values |-> values, lo |-> None, hi |-> None]
Output(name) == [name |-> name, valid |-> TRUE, declarable |-> TRUE]
Token(t, name) == [t |-> t, name |-> name]
Limit(cpu) == [cpu |-> cpu, memory |-> 1, pids |-> 1, wall |-> 1]
Package(arch, content) == [id |-> "a", plain |-> TRUE, arch |-> arch, tree |-> content]
Pack == INSTANCE CapsulePack WITH
  Froms <- [scheme : {"runtime", "oci"}, id : {"a"}],
  InputLines <- {Artifact("source"), Option("rate", <<1, 2>>), Option("rate", <<2, 1>>)},
  Outputs <- {Output("out"), Output("source")},
  Commands <- {<<Token("slot", "source"), Token("slot", "out")>>,
               <<Token("literal", "-r"), Token("slot", "rate"), Token("slot", "source")>>,
               <<Token("shell", "|")>>},
  Limits <- {Limit(0), Limit(1)}, Allows <- {<<"cpu">>, <<"memory", "memory">>},
  Identities <- {TRUE, FALSE},
  Packages <- {Package("amd64", "ok"), Package("amd64", "extra"), Package("arm64", "rootless"),
               [Package("arm64", "ok") EXCEPT !.plain = FALSE]},
  Max64 <- 15, MaxTail <- 2, MaxTotal <- 4, SlotNames <- {"source", "rate", "out"},
  MaxInputs <- 2, MaxValues <- 2, MaxArgv <- 3, Period <- 4, MaxLines <- 2, MaxFaults <- 2,
  pc <- step, faults <- errors

Uploads == INSTANCE RemoteArtifacts WITH
  Ids <- {i1, i2}, Keys <- {<<w1, k1>>, <<w1, k2>>}, Tokens <- {t1, t2},
  Contents <- {<<x>>}, Byte <- {x}, MaxSize <- 1, MaxChunk <- 1,
  MaxCount <- 2, MaxBytes <- 2, MaxFaults <- 1, MaxCrashes <- 2, faults <- lost
Chunks == INSTANCE RemoteArtifacts WITH
  Ids <- {i1, i2}, Keys <- {<<w1, k1>>}, Tokens <- {t1},
  Contents <- {<<x, y>>}, Byte <- {x, y}, MaxSize <- 2, MaxChunk <- 2,
  MaxCount <- 2, MaxBytes <- 2, MaxFaults <- 2, MaxCrashes <- 1, faults <- lost

--------------------------------------------------------------------------------
\* A part that does not move stays in one of its initial states.
PartsInit ==
  /\ part \in {"cache", "manifest", "catalog", "power", "pack", "uploads", "chunks"}
  /\ Init /\ Pack!Init
  /\ IF part = "power" THEN Power!Init ELSE Catalog!Init
  /\ IF part = "chunks" THEN Chunks!Init ELSE Uploads!Init
  /\ Manifest!Init
  /\ part # "manifest" => /\ tree = [files |-> {<<b>>}, execs |-> {<<b>>}, empty |-> {}]
                          /\ config = [entry |-> <<b>>, lib |-> None, sbom |-> <<b>>]

PartsNext ==
  \/ /\ part = "cache" /\ Next
     /\ UNCHANGED <<part, manifestVars, catalogVars, packVars, artifactVars>>
  \/ /\ part = "manifest" /\ Manifest!Next
     /\ UNCHANGED <<part, cacheVars, catalogVars, packVars, artifactVars>>
  \/ /\ \/ part = "catalog" /\ Catalog!Next
        \/ part = "power" /\ Power!Next
     /\ UNCHANGED <<part, cacheVars, manifestVars, packVars, artifactVars>>
  \/ /\ part = "pack" /\ Pack!Next
     /\ UNCHANGED <<part, cacheVars, manifestVars, catalogVars, artifactVars>>
  \/ /\ \/ part = "uploads" /\ Uploads!Next
        \/ part = "chunks" /\ Chunks!Next
     /\ UNCHANGED <<part, cacheVars, manifestVars, catalogVars, packVars>>

PartsSpec ==
  PartsInit /\ [][PartsNext]_<<part, cacheVars, manifestVars, catalogVars, packVars, artifactVars>>

--------------------------------------------------------------------------------
\* `runtime build` refuses no tree for the order of its files, a manifest that
\* passed its checks can be unpacked, the imported package is the tree of its
\* source, and the host is compared as a version number (package/manifest.rs,
\* populate_staging, compare_component_versions).
ManifestSound ==
  part = "manifest" =>
    /\ Manifest!TypeOK /\ Manifest!BuildComplete /\ Manifest!PopulateSucceeds
    /\ Manifest!ImportMirrors /\ Manifest!HostOrdered

\* Through kills and failing calls an identity is bound only to a bundle that is
\* there and bears its version, what an import reports is so, and no import is
\* turned away because of another; after a power loss a new import restores what
\* it reports and readers answer only what is installed (bundle_catalog.rs).
CatalogSound ==
  /\ [](part = "catalog" => /\ Catalog!TypeOK /\ Catalog!MappingResolves
                            /\ Catalog!ReportHonest /\ Catalog!RefusedHasCause)
  /\ [](part = "power" => Power!TypeOK /\ Power!ReimportRestores /\ Power!AnswersInstalled)
  /\ [][part = "catalog" => Catalog!KeepsIdentities]_<<part, mapping>>


\* Through I/O errors and restarts the remote artifact store counts quota
\* exactly, has the declared bytes on disk, keeps what it acknowledged, gives an
\* input to one submission only and leaves no orphan; a download in chunks
\* yields the output (remote_artifact_filesystem.rs).
ArtifactsSound ==
  /\ part = "uploads" =>
       /\ Uploads!TypeOK /\ Uploads!QuotaExact /\ Uploads!VerifiedBytes
       /\ Uploads!AcknowledgedSurvives /\ Uploads!SingleUse /\ Uploads!NoOrphans
       /\ Uploads!HeldInputsPresent /\ Uploads!FailedOpenHasCause
  /\ part = "chunks" =>
       Chunks!TypeOK /\ Chunks!QuotaExact /\ Chunks!VerifiedBytes /\ Chunks!DownloadExact
================================================================================

------------------------------ MODULE BundleCatalog ------------------------------
(***************************************************************************)
(* BundleCatalog (daemon/src/adapters/outbound/bundle_catalog.rs): import  *)
(* verifies an archive, puts the bundle under the name of its digest and   *)
(* then binds its identity, name@version, to that digest with a mapping    *)
(* file; inspect follows the mapping.  Imports run in processes of their   *)
(* own, side by side with readers; any call may fail, a process may be     *)
(* killed (and its pid be used again) and the machine may lose power.      *)
(* All bundles here have one name.                                         *)
(***************************************************************************)
EXTENDS Naturals, FiniteSets

CONSTANTS
  Imports,    \* runs of import, each in a process of its own
  Readers,    \* calls of inspect
  Digests, Versions,
  VersionOf,  \* digest -> the version in the bundle's manifest
  Pids,
  MaxFaults,  \* bound on failing calls, kills and power losses
  ReusePids,  \* whether the pid of a process that has ended comes back
  PowerFails, \* whether the machine may lose power
  None

VARIABLES
  entries,   \* digests whose directory is visible under bundles/sha256
  stages,    \* staging directories there: <<pid, digest>>
  identity,  \* whether the directory of the name exists
  mapping,   \* version -> digest, or None
  idstages,  \* staging files beside the mappings: pids
  durable,   \* what survives a power loss: [entries, identity, mapping]
  pid, digest, outcome, pc, res,  \* of an import, and of a reader
  want,      \* reader -> the versions it has still to inspect
  seen,      \* reader -> the staging names it listed
  got,       \* reader -> the bundles it has inspected
  used,      \* pids that have been given out
  old,       \* history: imports and readers that ended before the last power loss
  hit,       \* history: imports a call of which has failed
  faults

vars == <<entries, stages, identity, mapping, idstages, durable, pid, digest, outcome, pc, res,
          want, seen, got, used, old, hit, faults>>
disk == <<entries, stages, identity, mapping, idstages, durable>>
procs == <<pid, digest, outcome>>
readers == <<want, seen, got>>

Init ==
  /\ entries = {} /\ stages = {} /\ identity = FALSE /\ idstages = {}
  /\ mapping = [v \in Versions |-> None]
  /\ durable = [entries |-> {}, identity |-> FALSE, mapping |-> mapping]
  /\ pid = [c \in Imports |-> None]
  /\ digest = [a \in Imports \cup Readers |-> None]
  /\ outcome = [c \in Imports |-> None]
  /\ pc = [a \in Imports \cup Readers |-> "start"]
  /\ res = [a \in Imports \cup Readers |-> None]
  /\ want = [r \in Readers |-> {}] /\ seen = want /\ got = want
  /\ used = {} /\ old = {} /\ hit = {} /\ faults = 0

NoFault == UNCHANGED <<hit, faults>>
Fault(c) == faults < MaxFaults /\ faults' = faults + 1 /\ hit' = hit \cup {c}
Goto(a, where) == pc' = [pc EXCEPT ![a] = where]
Report(a, what) == res' = [res EXCEPT ![a] = what] /\ Goto(a, "end")
Stage(c) == <<pid[c], digest[c]>>
Version(c) == VersionOf[digest[c]]
Live == {c \in Imports : pc[c] \notin {"start", "end"}}

--------------------------------------------------------------------------------
(***************************************************************************)
(* import_with_policy                                                      *)
(***************************************************************************)
\* A process starts; BundleCatalog::open fsyncs the directories that are there.
open(c) ==
  /\ pc[c] = "start"
  /\ \E p \in Pids \ {pid[d] : d \in Live}, d \in Digests :
       /\ p \in used => ReusePids
       /\ pid' = [pid EXCEPT ![c] = p]
       /\ digest' = [digest EXCEPT ![c] = d]
       /\ used' = used \cup {p}
  /\ durable' = [durable EXCEPT !.entries = entries, !.identity = identity]
  /\ Goto(c, "read")
  /\ NoFault
  /\ UNCHANGED <<entries, stages, identity, mapping, idstages, outcome, res, readers, old>>

ArchiveFiles == {"bundle.json", "profile.json", "checksums.txt", "signature.sig"}

\* The number of entries is checked, and the names are taken to be there.
ArchiveVerdict(names, unsigned) ==
  CASE Cardinality(names) \notin (IF unsigned THEN {3, 4} ELSE {4}) -> "refused"
    [] ~({"bundle.json", "profile.json", "checksums.txt"} \subseteq names) -> "panic"
    [] OTHER -> "ok"

\* VerifiedArchive::read; checksums, signature, manifests and the Runtime
\* Package may each turn the import down.
ReadArchive(c) ==
  /\ pc[c] = "read"
  /\ \E names \in SUBSET ArchiveFiles, unsigned \in BOOLEAN :
       \/ ArchiveVerdict(names, unsigned) = "ok" /\ Goto(c, "stage") /\ UNCHANGED res
       \/ ArchiveVerdict(names, unsigned) = "panic" /\ Report(c, "panic")
       \/ ArchiveVerdict(names, unsigned) \in {"ok", "refused"} /\ Report(c, "invalid")
  /\ NoFault
  /\ UNCHANGED <<disk, procs, readers, used, old>>

\* Faulty: the identity is activated while the bundle is still staged.
create_staging_late(c) ==
  /\ pc[c] = "stage"
  /\ stages' = stages \cup {Stage(c)}
  /\ outcome' = [outcome EXCEPT ![c] = "imported"]
  /\ Goto(c, "identity")
  /\ NoFault
  /\ UNCHANGED <<entries, identity, mapping, idstages, durable, pid, digest, res, readers, used, old>>

\* mkdir of .staging-<pid>-0-<digest>, then both files and the seal.
create_staging(c) ==
  /\ pc[c] = "stage"
  /\ IF Stage(c) \in stages
     THEN Report(c, "refused") /\ UNCHANGED stages
     ELSE stages' = stages \cup {Stage(c)} /\ Goto(c, "rename") /\ UNCHANGED res
  /\ NoFault
  /\ UNCHANGED <<entries, identity, mapping, idstages, durable, procs, readers, used, old>>

RenameBundle(c) ==
  /\ pc[c] = "rename"
  /\ IF digest[c] \in entries
     THEN Goto(c, "inspect") /\ UNCHANGED <<entries, stages>>
     ELSE /\ entries' = entries \cup {digest[c]}
          /\ stages' = stages \ {Stage(c)}
          /\ Goto(c, "sync")
  /\ NoFault
  /\ UNCHANGED <<identity, mapping, idstages, durable, procs, res, readers, used, old>>

SyncBundles(c) ==
  /\ pc[c] = "sync"
  /\ durable' = [durable EXCEPT !.entries = entries]
  /\ outcome' = [outcome EXCEPT ![c] = "imported"]
  /\ Goto(c, "identity")
  /\ NoFault
  /\ UNCHANGED <<entries, stages, identity, mapping, idstages, pid, digest, res, readers, used, old>>

\* inspect_by_digest of what is there, then the staging directory goes.
InspectExisting(c) ==
  /\ pc[c] = "inspect"
  /\ stages' = stages \ {Stage(c)}
  /\ outcome' = [outcome EXCEPT ![c] = "present"]
  /\ Goto(c, "identity")
  /\ NoFault
  /\ UNCHANGED <<entries, identity, mapping, idstages, durable, pid, digest, res, readers, used, old>>

--------------------------------------------------------------------------------
(***************************************************************************)
(* activate_identity_with_hook                                             *)
(***************************************************************************)
\* ensure_child, then write_readonly of .staging-<pid>-1.  When the name is
\* taken the file is removed and the import fails.
WriteIdentity(c) ==
  /\ pc[c] = "identity"
  /\ identity' = TRUE
  /\ IF pid[c] \in idstages
     THEN idstages' = idstages \ {pid[c]} /\ Report(c, "refused")
     ELSE idstages' = idstages \cup {pid[c]} /\ Goto(c, "idrename") /\ UNCHANGED res
  /\ NoFault
  /\ UNCHANGED <<entries, stages, mapping, durable, procs, readers, used, old>>

RenameIdentity(c) ==
  /\ pc[c] = "idrename"
  /\ IF mapping[Version(c)] = None
     THEN /\ mapping' = [mapping EXCEPT ![Version(c)] = digest[c]]
          /\ idstages' = idstages \ {pid[c]}
          /\ Goto(c, "idsync")
     ELSE Goto(c, "idcheck") /\ UNCHANGED <<mapping, idstages>>
  /\ NoFault
  /\ UNCHANGED <<entries, stages, identity, durable, procs, res, readers, used, old>>

CheckIdentity(c) ==
  /\ pc[c] = "idcheck"
  /\ idstages' = idstages \ {pid[c]}
  /\ IF mapping[Version(c)] = digest[c]
     THEN Goto(c, "idsync") /\ UNCHANGED res
     ELSE Report(c, "conflict")
  /\ NoFault
  /\ UNCHANGED <<entries, stages, identity, mapping, durable, procs, readers, used, old>>

SyncIdentity(c) ==
  /\ pc[c] = "idsync"
  /\ durable' = [durable EXCEPT !.mapping = mapping]
  /\ Report(c, outcome[c])
  /\ NoFault
  /\ UNCHANGED <<entries, stages, identity, mapping, idstages, procs, readers, used, old>>

\* A call fails, and what is staged is removed, unless that fails too.
ImportFails(c) ==
  /\ c \in Live /\ Fault(c)
  /\ \/ /\ stages' = stages \ (IF pc[c] \in {"rename", "inspect"} THEN {Stage(c)} ELSE {})
        /\ idstages' = idstages \ (IF pc[c] \in {"idrename", "idcheck"} THEN {pid[c]} ELSE {})
     \/ UNCHANGED <<stages, idstages>>
  /\ Report(c, "refused")
  /\ UNCHANGED <<entries, identity, mapping, durable, procs, readers, used, old>>

Kill(c) ==
  /\ c \in Live /\ Fault(c)
  /\ Goto(c, "end")
  /\ UNCHANGED <<disk, procs, res, readers, used, old>>

PowerLoss ==
  /\ PowerFails /\ faults < MaxFaults /\ faults' = faults + 1 /\ hit' = hit \cup Live
  /\ pc' = [a \in DOMAIN pc |-> IF pc[a] = "start" THEN "start" ELSE "end"]
  /\ old' = {a \in DOMAIN pc : pc[a] # "start"}
  /\ \E e \in SUBSET (entries \ durable.entries) : entries' = durable.entries \cup e
  /\ identity' \in {durable.identity, identity}
  /\ \E kept \in SUBSET Versions :
       mapping' = [v \in Versions |-> IF ~identity' THEN None
                                      ELSE IF v \in kept THEN mapping[v]
                                      ELSE durable.mapping[v]]
  /\ durable' = [entries |-> entries', identity |-> identity', mapping |-> mapping']
  /\ UNCHANGED <<stages, idstages, procs, res, readers, used>>

--------------------------------------------------------------------------------
(***************************************************************************)
(* inspect and list: a reader inspects the versions of want, one by one.   *)
(***************************************************************************)
StartInspect(r) ==
  /\ pc[r] = "start"
  /\ \E v \in Versions : want' = [want EXCEPT ![r] = {v}]
  /\ Goto(r, "mapping")
  /\ NoFault
  /\ UNCHANGED <<disk, procs, res, seen, got, used, old>>

\* list enumerates the mappings and, among them, the staging files.
list(r) ==
  /\ pc[r] = "start"
  /\ want' = [want EXCEPT ![r] = {v \in Versions : mapping[v] # None}]
  /\ seen' = [seen EXCEPT ![r] = idstages]
  /\ Goto(r, "listed")
  /\ NoFault
  /\ UNCHANGED <<disk, procs, res, got, used, old>>

ReadMapping(r) ==
  /\ pc[r] = "mapping" /\ want[r] # {}
  /\ \E v \in want[r] :
       /\ digest' = [digest EXCEPT ![r] = mapping[v]]
       /\ IF mapping[v] = None
          THEN Report(r, "notfound")
          ELSE Goto(r, "enumerate") /\ UNCHANGED res
  /\ NoFault
  /\ UNCHANGED <<disk, pid, outcome, readers, used, old>>

\* validate_identity_staging_entries lists the directory ...
EnumerateStaging(r) ==
  /\ pc[r] = "enumerate"
  /\ seen' = [seen EXCEPT ![r] = idstages]
  /\ Goto(r, "metadata")
  /\ NoFault
  /\ UNCHANGED <<disk, procs, res, want, got, used, old>>

\* ... and looks at every staging file it listed; one that is gone is an error.
CheckStaging(r) ==
  /\ pc[r] \in {"listed", "metadata"}
  /\ IF seen[r] \subseteq idstages
     THEN Goto(r, IF pc[r] = "listed" THEN "mapping" ELSE "bundle") /\ UNCHANGED res
     ELSE Report(r, "refused")
  /\ NoFault
  /\ UNCHANGED <<disk, procs, readers, used, old>>

inspect_by_digest(r) ==
  /\ pc[r] = "bundle"
  /\ IF digest[r] \in entries /\ Version(r) \in want[r]
     THEN /\ want' = [want EXCEPT ![r] = @ \ {Version(r)}]
          /\ got' = [got EXCEPT ![r] = @ \cup {digest[r]}]
          /\ Goto(r, "mapping") /\ UNCHANGED res
     ELSE Report(r, "corrupt") /\ UNCHANGED <<want, got>>
  /\ NoFault
  /\ UNCHANGED <<disk, procs, seen, used, old>>

Answer(r) ==
  /\ pc[r] = "mapping" /\ want[r] = {}
  /\ Report(r, "ok")
  /\ NoFault
  /\ UNCHANGED <<disk, procs, readers, used, old>>

Import(c) ==
  \/ open(c) \/ ReadArchive(c) \/ create_staging(c) \/ RenameBundle(c) \/ SyncBundles(c)
  \/ InspectExisting(c) \/ WriteIdentity(c) \/ RenameIdentity(c) \/ CheckIdentity(c)
  \/ SyncIdentity(c) \/ ImportFails(c) \/ Kill(c)

inspect(r) ==
  \/ StartInspect(r) \/ list(r) \/ ReadMapping(r) \/ EnumerateStaging(r) \/ CheckStaging(r)
  \/ inspect_by_digest(r) \/ Answer(r)

Next == (\E c \in Imports : Import(c)) \/ (\E r \in Readers : inspect(r)) \/ PowerLoss

Spec == Init /\ [][Next]_vars

--------------------------------------------------------------------------------
(***************************************************************************)
(* Properties                                                              *)
(***************************************************************************)
Success == {"imported", "present"}

\* Every variable has its type, and a process at the rename has something to
\* rename.
TypeOK ==
  /\ entries \subseteq Digests /\ stages \subseteq Pids \X Digests /\ idstages \subseteq Pids
  /\ mapping \in [Versions -> Digests \cup {None}]
  /\ res \in [Imports \cup Readers -> Success \cup
                {None, "refused", "invalid", "panic", "conflict", "notfound", "ok", "corrupt"}]
  /\ \A c \in Imports :
       /\ pc[c] \in {"rename", "inspect"} => Stage(c) \in stages
       /\ pc[c] \in {"idrename", "idcheck"} => pid[c] \in idstages

\* An identity is bound only to a bundle that is there and bears its version:
\* the bundle is activated before its mapping, and kills and failing calls
\* between the two leave at most a bundle without a mapping
\* (import_with_policy, activate_identity_with_hook).
MappingResolves ==
  \A v \in Versions : mapping[v] # None => mapping[v] \in entries /\ VersionOf[mapping[v]] = v

\* A mapping is never replaced (rename_no_replace).
KeepsIdentities == \A v \in Versions : mapping[v] # None => mapping'[v] = mapping[v]

\* Whoever is told IMPORTED or ALREADY_PRESENT finds its identity bound to its
\* own digest, and whoever is told of a conflict finds it bound to another.
ReportHonest ==
  \A c \in Imports :
    /\ res[c] \in Success => mapping[Version(c)] = digest[c]
    /\ res[c] = "conflict" => mapping[Version(c)] \notin {None, digest[c]}

\* An import of a valid bundle fails only when one of its own calls failed: no
\* import is turned away because of what others do or have left behind (the
\* staging names).
RefusedHasCause == \A c \in Imports : res[c] = "refused" => c \in hit

\* What an import left out of .expect("checked") cannot be missing.
ArchiveChecked == \A c \in Imports : res[c] # "panic"

\* inspect of an identity that is installed succeeds while imports run beside
\* it: their staging files are ignored.
InspectTolerant == \A r \in Readers : res[r] \notin {"refused", "corrupt"}

\* Re-import is the recovery: whoever is told of success since the last power
\* loss has both the mapping and the bundle in place, also when the loss left a
\* mapping without its bundle (import_with_policy).
ReimportRestores ==
  \A c \in Imports \ old : res[c] \in Success =>
    mapping[Version(c)] = digest[c] /\ digest[c] \in entries

\* What inspect and list answer is installed: a mapping that a power loss left
\* without its bundle is never answered as installed (inspect_by_digest).
AnswersInstalled ==
  \A r \in Readers \ old : res[r] = "ok" =>
    \A d \in got[r] : mapping[VersionOf[d]] = d /\ d \in entries

\* What was reported as installed is installed after a power loss.
ReportedSurvives ==
  \A c \in Imports : res[c] \in Success =>
    mapping[Version(c)] = digest[c] /\ digest[c] \in entries

================================================================================

------------------------------ MODULE PackageCache ------------------------------
(***************************************************************************)
(* RuntimePackageCache (daemon/src/adapters/outbound/                      *)
(* runtime_package_cache.rs): import copies and verifies a package into a  *)
(* staging directory, seals it and renames it to the name of its digest;   *)
(* resolve verifies the entry again.  Imports of one digest run in several *)
(* processes, any file system call may fail, a process may be killed, the  *)
(* machine may lose power (what was not fsynced may then be gone), the     *)
(* source may be rewritten during the copy and the entry may be damaged.   *)
(***************************************************************************)
EXTENDS Naturals, FiniteSets

CONSTANTS
  Imports,    \* calls of import, all of packages with one digest
  Readers,    \* calls of resolve
  Files,      \* the files the manifest declares
  MaxFaults,  \* bound on failing calls, kills, power losses and damages
  None

VARIABLES
  stage,    \* import -> its staging directory, or None
  entry,    \* the directory named by the digest, or None
  named,    \* whether the entry's name survives a power loss
  pc,       \* where each import and each reader is
  res,      \* what it has reported
  late,     \* history: those that had not begun when the entry was damaged; None
            \* while the entry is as it was made
  faults

vars == <<stage, entry, named, pc, res, late, faults>>

Bytes == {"declared", "other", "missing"}

\* A directory: the bytes of its files, the files that were fsynced, the
\* manifest, and whether its directories are read-only and fsynced.
Dirs == [files : [Files -> Bytes], synced : SUBSET Files, man : BOOLEAN, sealed : BOOLEAN]
NewDir == [files |-> [f \in Files |-> "missing"], synced |-> {}, man |-> FALSE, sealed |-> FALSE]
Success == {"imported", "present"}

ASSUME FaultsBounded == MaxFaults \in Nat
\* None is none of the values it stands beside.
ASSUME NoneApart ==
  /\ None \notin Dirs
  /\ \A set \in SUBSET (Imports \cup Readers) : set # None
  /\ None \notin Success \cup {"refused", "ok"}

Init ==
  /\ stage = [c \in Imports |-> None]
  /\ entry = None
  /\ named = FALSE
  /\ pc = [a \in Imports \cup Readers |-> "start"]
  /\ res = [a \in Imports \cup Readers |-> None]
  /\ late = None
  /\ faults = 0

Fault == faults < MaxFaults /\ faults' = faults + 1
NoFault == UNCHANGED faults
Goto(a, where) == pc' = [pc EXCEPT ![a] = where]
Report(a, what) == res' = [res EXCEPT ![a] = what] /\ Goto(a, "end")
Stage(c, dir) == stage' = [stage EXCEPT ![c] = dir]

--------------------------------------------------------------------------------
(***************************************************************************)
(* import                                                                  *)
(***************************************************************************)
\* SourcePackage::open and check_host_compatibility look at names and metadata
\* only.  The owner of the source may rewrite or remove its files at any time,
\* so that what a later read finds does not depend on what this one found.
SourcePackage(c) ==
  /\ pc[c] = "start"
  /\ \/ Goto(c, "open") /\ UNCHANGED res
     \/ Report(c, "refused")
  /\ NoFault
  /\ UNCHANGED <<stage, entry, named, late>>

create_staging(c) ==
  /\ pc[c] = "open"
  /\ \/ NoFault /\ Stage(c, NewDir) /\ Goto(c, "copy") /\ UNCHANGED res
     \/ Fault /\ Report(c, "refused") /\ UNCHANGED stage
  /\ UNCHANGED <<entry, named, late>>

\* The digest is of the bytes that were written.
copy_and_verify(read) == read = "declared"

Uncopied(c) == {f \in Files : stage[c].files[f] = "missing"}

\* Faulty: the files are not fsynced.
populate_staging_unsynced(c) ==
  /\ pc[c] = "copy"
  /\ \E f \in Uncopied(c), read \in Bytes :
       IF copy_and_verify(read)
       THEN Stage(c, [stage[c] EXCEPT !.files[f] = read]) /\ UNCHANGED pc
       ELSE Goto(c, "drop") /\ UNCHANGED stage
  /\ NoFault
  /\ UNCHANGED <<entry, named, res, late>>

\* A file is copied, verified and fsynced before the next one is opened.
populate_staging(c) ==
  /\ pc[c] = "copy"
  /\ \E f \in Uncopied(c), read \in Bytes :
       IF copy_and_verify(read)
       THEN /\ Stage(c, [stage[c] EXCEPT !.files[f] = read, !.synced = @ \cup {f}])
            /\ UNCHANGED pc
       ELSE Goto(c, "drop") /\ UNCHANGED stage
  /\ NoFault
  /\ UNCHANGED <<entry, named, res, late>>

WriteManifest(c) ==
  /\ pc[c] = "copy" /\ Uncopied(c) = {}
  /\ Stage(c, [stage[c] EXCEPT !.man = TRUE]) /\ Goto(c, "seal")
  /\ NoFault
  /\ UNCHANGED <<entry, named, res, late>>

seal_staging(c) ==
  /\ pc[c] = "seal"
  /\ Stage(c, [stage[c] EXCEPT !.sealed = TRUE]) /\ Goto(c, "rename")
  /\ NoFault
  /\ UNCHANGED <<entry, named, res, late>>

rename_no_replace(c) ==
  /\ pc[c] = "rename"
  /\ IF entry = None
     THEN entry' = stage[c] /\ named' = FALSE /\ Stage(c, None) /\ Goto(c, "sync")
     ELSE Goto(c, "verify") /\ UNCHANGED <<entry, named, stage>>
  /\ NoFault
  /\ UNCHANGED <<res, late>>

\* The manifest and exactly the declared files are there, all read-only.
require_exact_cached_layout(dir) ==
  dir.man /\ dir.sealed /\ \A f \in Files : dir.files[f] # "missing"

\* Every file is opened, and read for its digest.
verify_cached_files(dir) == \A f \in Files : dir.files[f] = "declared"

\* What resolve accepts.
Complete(dir) == require_exact_cached_layout(dir) /\ verify_cached_files(dir)

VerifyExisting(c) ==
  /\ pc[c] = "verify"
  /\ Goto(c, IF entry # None /\ Complete(entry) THEN "clean" ELSE "drop")
  /\ NoFault
  /\ UNCHANGED <<stage, entry, named, res, late>>

\* staging.cleanup()
CleanStaging(c) ==
  /\ pc[c] = "clean"
  /\ Stage(c, None) /\ Goto(c, "syncpresent")
  /\ NoFault
  /\ UNCHANGED <<entry, named, res, late>>

\* Faulty: whoever found the entry there leaves the fsync to whoever made it.
SyncEntry_first(c) ==
  /\ pc[c] \in {"sync", "syncpresent"}
  /\ named' = (named \/ pc[c] = "sync")
  /\ Report(c, IF pc[c] = "sync" THEN "imported" ELSE "present")
  /\ NoFault
  /\ UNCHANGED <<stage, entry, late>>

\* sync_directory(sha256): the name is durable from here on.
SyncEntry(c) ==
  /\ pc[c] \in {"sync", "syncpresent"}
  /\ named' = (entry # None)
  /\ Report(c, IF pc[c] = "sync" THEN "imported" ELSE "present")
  /\ NoFault
  /\ UNCHANGED <<stage, entry, late>>

\* A call fails.  After the rename nothing is left to remove.
ImportFails(c) ==
  /\ pc[c] \in {"copy", "seal", "rename", "verify", "clean", "sync", "syncpresent"} /\ Fault
  /\ IF pc[c] \in {"sync", "syncpresent"}
     THEN Report(c, "refused")
     ELSE Goto(c, "drop") /\ UNCHANGED res
  /\ UNCHANGED <<stage, entry, named, late>>

\* StagingDirectory::drop, whose own errors are ignored
DropStaging(c) ==
  /\ pc[c] = "drop"
  /\ (NoFault /\ Stage(c, None)) \/ (Fault /\ UNCHANGED stage)
  /\ Report(c, "refused")
  /\ UNCHANGED <<entry, named, late>>

--------------------------------------------------------------------------------
(***************************************************************************)
(* resolve, and the world                                                  *)
(***************************************************************************)
resolve(r) ==
  /\ pc[r] = "start"
  /\ Report(r, IF entry # None /\ Complete(entry) THEN "ok" ELSE "refused")
  /\ NoFault
  /\ UNCHANGED <<stage, entry, named, late>>

\* The process of an import ends; its staging directory stays.
Kill(c) ==
  /\ pc[c] \notin {"start", "end"} /\ Fault
  /\ Goto(c, "end")
  /\ UNCHANGED <<stage, entry, named, res, late>>

\* Files that were not fsynced, or whose directory was not, may be lost, and so
\* may the name of an entry whose directory was not fsynced.
PowerLoss ==
  /\ Fault
  /\ pc' = [a \in DOMAIN pc |-> IF pc[a] = "start" THEN "start" ELSE "end"]
  /\ \/ /\ entry # None
        /\ \E lost \in SUBSET Files, b \in {"other", "missing"} :
             /\ entry.sealed => lost \cap entry.synced = {}
             /\ entry' = [entry EXCEPT !.files =
                            [f \in Files |-> IF f \in lost THEN b ELSE @[f]]]
        /\ named' = TRUE
     \/ ~named /\ entry' = None /\ UNCHANGED named
  /\ late' = IF entry' = None THEN None ELSE late
  /\ UNCHANGED <<stage, res>>

\* A file of the entry is corrupted or lost.
Damage ==
  /\ entry # None /\ late = None /\ Fault
  /\ \E f \in Files, b \in {"other", "missing"} : entry' = [entry EXCEPT !.files[f] = b]
  /\ late' = {a \in DOMAIN pc : pc[a] = "start"}
  /\ UNCHANGED <<stage, named, pc, res>>

Import(c) ==
  \/ SourcePackage(c) \/ create_staging(c) \/ populate_staging(c) \/ WriteManifest(c)
  \/ seal_staging(c) \/ rename_no_replace(c) \/ VerifyExisting(c) \/ CleanStaging(c) \/ SyncEntry(c)
  \/ ImportFails(c) \/ DropStaging(c) \/ Kill(c)

Next ==
  \/ \E c \in Imports : Import(c)
  \/ \E r \in Readers : resolve(r)
  \/ PowerLoss \/ Damage

Spec == Init /\ [][Next]_vars

--------------------------------------------------------------------------------
(***************************************************************************)
(* Properties                                                              *)
(***************************************************************************)
Steps == {"start", "open", "copy", "seal", "rename", "verify", "clean", "sync", "syncpresent",
          "drop", "end"}

\* Every variable has its type; an import between its first and its last step
\* has a staging directory exactly until the rename or the cleanup.
TypeOK ==
  /\ stage \in [Imports -> Dirs \cup {None}]
  /\ entry \in Dirs \cup {None}
  /\ named \in BOOLEAN
  /\ pc \in [Imports \cup Readers -> Steps]
  /\ res \in [Imports \cup Readers -> Success \cup {None, "refused", "ok"}]
  /\ late \in (SUBSET (Imports \cup Readers)) \cup {None}
  /\ faults \in 0..MaxFaults
  /\ \A c \in Imports :
       pc[c] \in {"copy", "seal", "rename", "verify", "clean", "drop"} => stage[c] # None

\* "Concurrent readers cannot see a partial package": a directory under the
\* name of the digest that nothing has damaged is complete, also after a power
\* loss at any moment, because the files and directories are fsynced before
\* the rename (populate_staging, seal_staging, rename_no_replace).
EntryComplete == entry # None /\ late = None => Complete(entry)

\* An import that reported IMPORTED or ALREADY_PRESENT stands: the entry is
\* there ever after, also when the machine loses power right after the report.
\* Both outcomes fsync the directory of the entries, so this holds as well for
\* an import that met the entry before the one that made it had fsynced it
\* (import, both match arms).
SuccessDurable == (\E c \in Imports : res[c] \in Success) => entry # None

\* A damaged entry is neither used nor reported: an import or a resolve that
\* begins after the damage fails (resolve, and the verification of an existing
\* entry in import).
DamageRefused == late # None => \A a \in late : res[a] \notin Success \cup {"ok"}

\* A successful import leaves no staging directory (rename, or cleanup).
SuccessTidy == \A c \in Imports : res[c] \in Success => stage[c] = None

\* No import changes an entry that is visible, damaged or not: only a power
\* loss or damage does (rename_no_replace).
EntryKept == [][entry # None /\ faults' = faults => entry' = entry]_vars

================================================================================

------------------------ MODULE BundleCatalogProofs ------------------------
(***************************************************************************)
(* The bundle catalog for any number of imports, readers, digests and      *)
(* faults: what its mappings, its reports and its answers can be trusted   *)
(* for, with kills and failing calls, and which of it a power loss leaves. *)
(***************************************************************************)
EXTENDS BundleCatalog, TLAPS

Agents == Imports \cup Readers

Verdicts ==
  {"imported", "present", "refused", "invalid", "panic", "conflict", "notfound", "ok", "corrupt"}

\* What the proofs take for granted of the constants.
Constants ==
  /\ VersionOf \in [Digests -> Versions]
  /\ None \notin Digests \cup Verdicts
  /\ Imports \cap Readers = {}

--------------------------------------------------------------------------------
(* The inductive invariant *)

Places ==
  {"start", "read", "stage", "rename", "sync", "inspect", "identity", "idrename", "idcheck",
   "idsync", "mapping", "listed", "enumerate", "metadata", "bundle", "end"}

Typed ==
  /\ entries \in SUBSET Digests
  /\ stages \in SUBSET (Pids \X Digests)
  /\ idstages \in SUBSET Pids
  /\ mapping \in [Versions -> Digests \cup {None}]
  /\ durable \in [entries : SUBSET Digests, identity : BOOLEAN,
                  mapping : [Versions -> Digests \cup {None}]]
  /\ identity \in BOOLEAN
  /\ pid \in [Imports -> Pids \cup {None}]
  /\ digest \in [Agents -> Digests \cup {None}]
  /\ outcome \in [Imports -> Success \cup {None}]
  /\ pc \in [Agents -> Places]
  /\ res \in [Agents -> Verdicts \cup {None}]
  /\ want \in [Readers -> SUBSET Versions]
  /\ got \in [Readers -> SUBSET Digests]
  /\ old \in SUBSET Agents

\* A mapping, on disk or already durable, is of a bundle of its version.
Bears(m) == \A v \in Versions : m[v] # None => m[v] \in Digests /\ VersionOf[m[v]] = v

Binding == {"identity", "idrename", "idcheck", "idsync"}

Installed(d) == d \in entries /\ mapping[VersionOf[d]] = d

\* Where an import is determines what it has put on the disk.
ImportPlace(c) ==
  /\ pc[c] # "start" => pid[c] \in Pids /\ digest[c] \in Digests
  /\ pc[c] \in {"sync", "inspect"} \cup Binding => digest[c] \in entries
  /\ pc[c] \in Binding => outcome[c] \in Success
  /\ pc[c] = "idcheck" => mapping[Version(c)] # None
  /\ pc[c] = "idsync" => mapping[Version(c)] = digest[c]
  /\ pc[c] \in {"rename", "inspect"} => Stage(c) \in stages
  /\ pc[c] \in {"idrename", "idcheck"} => pid[c] \in idstages
  /\ pc[c] # "end" => res[c] = None /\ c \notin old
  /\ c \notin old /\ res[c] \in Success => Installed(digest[c])

\* A reader has followed a mapping, and found what it has got.
ReaderPlace(r) ==
  /\ pc[r] = "start" => got[r] = {}
  /\ pc[r] \in {"enumerate", "metadata", "bundle"} =>
       digest[r] \in Digests /\ mapping[Version(r)] = digest[r]
  /\ pc[r] # "end" => r \notin old
  /\ r \notin old => \A d \in got[r] : Installed(d)

\* Two processes that run at the same time have different pids.
OwnPids == \A c, d \in Live : pid[c] = pid[d] => c = d

CatalogInv ==
  /\ Typed /\ Bears(mapping) /\ Bears(durable.mapping) /\ OwnPids
  /\ \A c \in Imports : ImportPlace(c)
  /\ \A r \in Readers : ReaderPlace(r)

\* When no pid comes back, what is staged was staged by a process that has gone
\* past its own staging.
Begun(c) == pc[c] # "start"

Unique ==
  /\ \A c, d \in Imports : Begun(c) /\ Begun(d) /\ pid[c] = pid[d] => c = d
  /\ \A c \in Imports : Begun(c) => pid[c] \in used
  /\ \A s \in stages : \E c \in Imports :
       s[1] = pid[c] /\ pc[c] \notin {"start", "read", "stage"}
  /\ \A p \in idstages : \E c \in Imports :
       /\ p = pid[c]
       /\ pc[c] \notin {"start", "read", "stage", "rename", "sync", "inspect", "identity"}

--------------------------------------------------------------------------------
(* The first state, and types *)

LEMMA InitHolds ==
  ASSUME Constants, Init
  PROVE  CatalogInv /\ MappingResolves /\ ReportHonest /\ Unique /\ RefusedHasCause
<1> USE DEF Init, Constants, Agents, Verdicts, Success
<1>1. Typed
  BY Zenon DEF Typed, Places
<1>2. Bears(mapping) /\ Bears(durable.mapping) /\ OwnPids /\ MappingResolves
  BY DEF Bears, OwnPids, Live, MappingResolves
<1>3. ASSUME NEW c \in Imports PROVE ImportPlace(c)
  BY <1>3 DEF ImportPlace, Binding
<1>4. ASSUME NEW r \in Readers PROVE ReaderPlace(r)
  BY <1>4 DEF ReaderPlace
<1>5. ReportHonest /\ Unique /\ RefusedHasCause
  BY DEF ReportHonest, Unique, Begun, RefusedHasCause
<1> QED BY Zenon, <1>1, <1>2, <1>3, <1>4, <1>5 DEF CatalogInv

LEMMA ImportTyped ==
  ASSUME Constants, Typed, NEW c \in Imports, ImportPlace(c), Import(c)
  PROVE  Typed'
<1> USE DEF Typed, Constants, Agents, Places, Verdicts, Success, Goto, Report, readers, procs, disk
<1>1. ASSUME open(c) PROVE Typed'
  <2>1. durable' \in [entries : SUBSET Digests, identity : BOOLEAN,
                      mapping : [Versions -> Digests \cup {None}]]
    BY Zenon, <1>1 DEF open
  <2>2. UNCHANGED <<entries, stages, identity, mapping, idstages, outcome, res, want, got, old>>
    BY Zenon, <1>1 DEF open
  <2>3. PICK p \in Pids, d \in Digests :
           pid' = [pid EXCEPT ![c] = p] /\ digest' = [digest EXCEPT ![c] = d]
    BY Zenon, <1>1 DEF open
  <2>4. pc' = [pc EXCEPT ![c] = "read"]
    BY Zenon, <1>1 DEF open
  <2>5. /\ pid' \in [Imports -> Pids \cup {None}] /\ pc' \in [Agents -> Places]
        /\ digest' \in [Agents -> Digests \cup {None}]
    BY SMTT(20), <2>3, <2>4
  <2> QED BY Zenon, <2>1, <2>2, <2>5
<1>2. ASSUME ReadArchive(c) PROVE Typed'
  BY SMTT(20), <1>2 DEF ReadArchive
<1>3. ASSUME create_staging(c) PROVE Typed'
  BY SMTT(20), <1>3 DEF create_staging, ImportPlace, Stage
<1>4. ASSUME RenameBundle(c) PROVE Typed'
  BY SMTT(20), <1>4 DEF RenameBundle, ImportPlace
<1>5. ASSUME SyncBundles(c) PROVE Typed'
  BY SMTT(20), <1>5 DEF SyncBundles
<1>6. ASSUME InspectExisting(c) PROVE Typed'
  BY SMTT(20), <1>6 DEF InspectExisting
<1>7. ASSUME WriteIdentity(c) PROVE Typed'
  BY SMTT(20), <1>7 DEF WriteIdentity, ImportPlace
<1>8. ASSUME RenameIdentity(c) PROVE Typed'
  BY SMTT(20), <1>8 DEF RenameIdentity, ImportPlace, Version
<1>9. ASSUME CheckIdentity(c) PROVE Typed'
  BY SMTT(20), <1>9 DEF CheckIdentity
<1>10. ASSUME SyncIdentity(c) PROVE Typed'
  BY SMTT(20), <1>10 DEF SyncIdentity
<1>11. ASSUME ImportFails(c) PROVE Typed'
  BY SMTT(20), <1>11 DEF ImportFails
<1>12. ASSUME Kill(c) PROVE Typed'
  BY SMTT(20), <1>12 DEF Kill
<1> QED BY Zenon, <1>1, <1>2, <1>3, <1>4, <1>5, <1>6, <1>7, <1>8, <1>9, <1>10, <1>11, <1>12
        DEF Import

LEMMA ReaderTyped ==
  ASSUME Constants, Typed, NEW r \in Readers, inspect(r), ReaderPlace(r)
  PROVE  Typed'
<1> USE DEF Typed, Constants, Agents, Places, Verdicts, Goto, Report, readers, procs, disk
<1>1. ASSUME StartInspect(r) \/ list(r) PROVE Typed'
  BY SMTT(20), <1>1 DEF StartInspect, list
<1>2. ASSUME ReadMapping(r) PROVE Typed'
  <2>1. PICK d \in Digests \cup {None} : digest' = [digest EXCEPT ![r] = d]
    <3>1. PICK v \in want[r] : digest' = [digest EXCEPT ![r] = mapping[v]]
      BY Zenon, <1>2 DEF ReadMapping
    <3> QED BY Zenon, <3>1
  <2> QED BY SMTT(20), <1>2, <2>1 DEF ReadMapping
<1>3. ASSUME EnumerateStaging(r) \/ CheckStaging(r) \/ Answer(r) PROVE Typed'
  BY SMTT(20), <1>3 DEF EnumerateStaging, CheckStaging, Answer
<1>4. ASSUME inspect_by_digest(r) PROVE Typed'
  BY SMTT(60), SMTT(20), <1>4 DEF inspect_by_digest, ReaderPlace
<1> QED BY Zenon, <1>1, <1>2, <1>3, <1>4 DEF inspect

--------------------------------------------------------------------------------
(* A step of one process leaves what the others rely on *)

Grows ==
  /\ entries \subseteq entries'
  /\ \A v \in Versions : mapping[v] # None => mapping'[v] = mapping[v]

Alone(a) ==
  /\ UNCHANGED old /\ Grows
  /\ \A b \in Agents \ {a} : pc'[b] = pc[b] /\ digest'[b] = digest[b] /\ res'[b] = res[b]
  /\ \A d \in Imports \ {a} : pid'[d] = pid[d] /\ outcome'[d] = outcome[d]
  /\ \A r \in Readers \ {a} : got'[r] = got[r]

\* An import removes only its own staging names.
Tidies(c) ==
  \/ /\ c \in Live
     /\ stages \ {Stage(c)} \subseteq stages'
     /\ idstages \ {pid[c]} \subseteq idstages'
  \/ UNCHANGED <<stages, idstages>>

LEMMA ImportAlone ==
  ASSUME Constants, Typed, NEW c \in Imports, ImportPlace(c), Import(c)
  PROVE  Alone(c) /\ Tidies(c)
<1> USE DEF Typed, Constants, Agents, Alone, Grows, Tidies, Live, Goto, Report, readers, procs, disk
<1>1. ASSUME open(c) PROVE Alone(c) /\ Tidies(c)
  <2>1. UNCHANGED <<entries, stages, mapping, idstages, outcome, res, got, old>>
    BY Zenon, <1>1 DEF open
  <2>2. PICK p \in Pids, d \in Digests :
           pid' = [pid EXCEPT ![c] = p] /\ digest' = [digest EXCEPT ![c] = d]
    BY Zenon, <1>1 DEF open
  <2>3. pc' = [pc EXCEPT ![c] = "read"]
    BY Zenon, <1>1 DEF open
  <2> QED BY SMTT(20), <2>1, <2>2, <2>3
<1>2. ASSUME ReadArchive(c) PROVE Alone(c) /\ Tidies(c)
  BY SMTT(20), <1>2 DEF ReadArchive
<1>3. ASSUME create_staging(c) PROVE Alone(c) /\ Tidies(c)
  BY SMTT(20), <1>3 DEF create_staging
<1>4. ASSUME RenameBundle(c) PROVE Alone(c) /\ Tidies(c)
  BY SMTT(20), <1>4 DEF RenameBundle
<1>5. ASSUME SyncBundles(c) PROVE Alone(c) /\ Tidies(c)
  BY SMTT(20), <1>5 DEF SyncBundles
<1>6. ASSUME InspectExisting(c) PROVE Alone(c) /\ Tidies(c)
  BY SMTT(20), <1>6 DEF InspectExisting
<1>7. ASSUME WriteIdentity(c) PROVE Alone(c) /\ Tidies(c)
  BY SMTT(20), <1>7 DEF WriteIdentity
<1>8. ASSUME RenameIdentity(c) PROVE Alone(c) /\ Tidies(c)
  BY SMTT(20), <1>8 DEF RenameIdentity
<1>9. ASSUME CheckIdentity(c) PROVE Alone(c) /\ Tidies(c)
  BY SMTT(20), <1>9 DEF CheckIdentity
<1>10. ASSUME SyncIdentity(c) PROVE Alone(c) /\ Tidies(c)
  BY SMTT(20), <1>10 DEF SyncIdentity
<1>11. ASSUME ImportFails(c) PROVE Alone(c) /\ Tidies(c)
  BY SMTT(20), <1>11 DEF ImportFails
<1>12. ASSUME Kill(c) PROVE Alone(c) /\ Tidies(c)
  BY SMTT(20), <1>12 DEF Kill
<1> QED BY Zenon, <1>1, <1>2, <1>3, <1>4, <1>5, <1>6, <1>7, <1>8, <1>9, <1>10, <1>11, <1>12
        DEF Import

\* A reader changes nothing on the disk.
LEMMA ReaderAlone ==
  ASSUME Constants, Typed, NEW r \in Readers, inspect(r)
  PROVE  Alone(r) /\ UNCHANGED <<disk, pid, outcome, used, hit>>
<1> USE DEF Typed, Constants, Agents, Alone, Grows, Goto, Report, NoFault, readers, procs, disk
<1> DEFINE Goal == Alone(r) /\ UNCHANGED <<disk, pid, outcome, used, hit>>
<1>1. ASSUME StartInspect(r) \/ list(r) \/ EnumerateStaging(r) \/ CheckStaging(r) \/ Answer(r)
      PROVE  Goal
  BY SMTT(20), <1>1 DEF StartInspect, list, EnumerateStaging, CheckStaging, Answer
<1>2. ASSUME ReadMapping(r) PROVE Goal
  BY SMTT(20), <1>2 DEF ReadMapping
<1>3. ASSUME inspect_by_digest(r) PROVE Goal
  BY SMTT(20), <1>3 DEF inspect_by_digest
<1> QED BY Zenon, <1>1, <1>2, <1>3 DEF inspect

LEMMA OtherImportKept ==
  ASSUME Constants, Typed, NEW a \in Agents, Alone(a), NEW d \in Imports \ {a}, ImportPlace(d),
         d \in Live => /\ Stage(d) \in stages => Stage(d) \in stages'
                       /\ pid[d] \in idstages => pid[d] \in idstages'
  PROVE  ImportPlace(d)'
<1>1. /\ pc'[d] = pc[d] /\ digest'[d] = digest[d] /\ res'[d] = res[d] /\ pid'[d] = pid[d]
      /\ outcome'[d] = outcome[d] /\ old' = old /\ entries \subseteq entries'
  BY Zenon DEF Alone, Agents, Grows
<1>2. ASSUME digest[d] \in Digests, mapping[Version(d)] = digest[d]
      PROVE  mapping'[Version(d)] = digest[d]
  BY ZenonT(60), <1>2 DEF Alone, Grows, Version, Constants, Typed
<1>3. pc[d] # "start" => digest[d] \in Digests
  BY Zenon DEF ImportPlace
<1>4. res[d] \in Success => pc[d] # "start"
  BY Zenon DEF ImportPlace, Constants, Success, Verdicts
<1>5. Version(d)' = Version(d) /\ Stage(d)' = Stage(d)
  BY Zenon, <1>1 DEF Version, Stage
<1>6. pc[d] \in {"rename", "inspect", "idrename", "idcheck"} => d \in Live
  BY Zenon DEF Live
<1>8. pc[d] = "idcheck" => mapping'[Version(d)] # None
  <2>1. digest[d] \in Digests => Version(d) \in Versions
    BY Zenon DEF Version, Constants
  <2> QED BY Zenon, <1>3, <2>1 DEF ImportPlace, Alone, Grows
<1>7. d \notin old /\ res[d] \in Success => Installed(digest[d])'
  BY Zenon, <1>1, <1>2, <1>3, <1>4, <1>5 DEF ImportPlace, Installed, Version
<1> QED BY Zenon, <1>1, <1>2, <1>3, <1>5, <1>6, <1>7, <1>8 DEF ImportPlace, Binding

LEMMA OtherReaderKept ==
  ASSUME Constants, Typed, NEW a \in Agents, Alone(a), NEW r \in Readers \ {a}, ReaderPlace(r)
  PROVE  ReaderPlace(r)'
<1>1. /\ pc'[r] = pc[r] /\ digest'[r] = digest[r] /\ got'[r] = got[r] /\ old' = old
      /\ entries \subseteq entries'
  BY Zenon DEF Alone, Agents, Grows
<1>2. ASSUME NEW d \in Digests, mapping[VersionOf[d]] = d PROVE mapping'[VersionOf[d]] = d
  <2>1. VersionOf[d] \in Versions /\ d # None
    BY Zenon, <1>2 DEF Constants
  <2> QED BY Zenon, <1>2, <2>1 DEF Alone, Grows
<1>3. got[r] \subseteq Digests
  BY Zenon DEF Typed
<1> QED BY Zenon, <1>1, <1>2, <1>3 DEF ReaderPlace, Installed, Version

--------------------------------------------------------------------------------
(* A step of an import *)

LEMMA ImportKeepsBears ==
  ASSUME Constants, CatalogInv, NEW c \in Imports, Import(c)
  PROVE  Bears(mapping)' /\ Bears(durable.mapping)'
<1>0. Typed /\ ImportPlace(c) /\ Bears(mapping) /\ Bears(durable.mapping)
  BY Zenon DEF CatalogInv
<1> DEFINE Goal == Bears(mapping)' /\ Bears(durable.mapping)'
<1>1. ASSUME RenameIdentity(c) PROVE Goal
  <2>1. UNCHANGED durable
    BY Zenon, <1>1 DEF RenameIdentity
  <2>2. digest[c] \in Digests
    BY Zenon, <1>0, <1>1 DEF RenameIdentity, ImportPlace
  <2>3. mapping' = mapping \/ mapping' = [mapping EXCEPT ![Version(c)] = digest[c]]
    BY Zenon, <1>1 DEF RenameIdentity
  <2>4. Bears(mapping)'
    BY SMTT(20), <1>0, <2>2, <2>3 DEF Bears, Typed, Version
  <2> QED BY Zenon, <1>0, <2>1, <2>4 DEF Bears
<1>2. ASSUME open(c) \/ SyncBundles(c) PROVE Goal
  <2>1. UNCHANGED mapping /\ durable'.mapping = durable.mapping
    BY Zenon, <1>0, <1>2 DEF open, SyncBundles, Typed
  <2> QED BY Zenon, <1>0, <2>1 DEF Bears
<1>3. ASSUME SyncIdentity(c) PROVE Goal
  <2>1. UNCHANGED mapping /\ durable'.mapping = mapping
    BY Zenon, <1>0, <1>3 DEF SyncIdentity, Typed
  <2> QED BY Zenon, <1>0, <2>1 DEF Bears
<1>4. ASSUME \/ ReadArchive(c) \/ create_staging(c) \/ RenameBundle(c) \/ InspectExisting(c)
             \/ WriteIdentity(c) \/ CheckIdentity(c) \/ ImportFails(c) \/ Kill(c)
      PROVE  Goal
  <2>1. UNCHANGED <<mapping, durable>>
    BY Zenon, <1>4 DEF ReadArchive, create_staging, RenameBundle, InspectExisting,
       WriteIdentity, CheckIdentity, ImportFails, Kill, disk
  <2> QED BY Zenon, <1>0, <2>1 DEF Bears
<1> QED BY Zenon, <1>1, <1>2, <1>3, <1>4 DEF Import

LEMMA ImportKeepsPids ==
  ASSUME Constants, CatalogInv, NEW c \in Imports, Import(c)
  PROVE  OwnPids'
<1>0. Typed /\ ImportPlace(c) /\ OwnPids /\ Alone(c)
  BY Zenon, ImportAlone DEF CatalogInv
<1>1. ASSUME open(c) PROVE OwnPids'
  <2>1. PICK p \in Pids \ {pid[d] : d \in Live} : pid' = [pid EXCEPT ![c] = p]
    BY Zenon, <1>1 DEF open
  <2>2. \A d \in Imports \ {c} : d \in Live' => d \in Live /\ pid'[d] = pid[d]
    BY Zenon, <1>0 DEF Alone, Live, Agents
  <2>3. pid'[c] = p
    BY Zenon, <1>0, <2>1 DEF Typed
  <2>4. \A d \in Live' \ {c} : pid'[d] # pid'[c]
    BY Zenon, <2>1, <2>2, <2>3 DEF Live
  <2>5. ASSUME NEW d \in Live', NEW e \in Live', pid'[d] = pid'[e] PROVE d = e
    <3>1. CASE d = c \/ e = c
      BY Zenon, <2>4, <2>5, <3>1
    <3>2. CASE d # c /\ e # c
      <4>1. d \in Live /\ e \in Live /\ pid[d] = pid[e]
        BY Zenon, <2>2, <2>5, <3>2 DEF Live
      <4> QED BY Zenon, <1>0, <4>1 DEF OwnPids
    <3> QED BY Zenon, <3>1, <3>2
  <2> QED BY Zenon, <2>5 DEF OwnPids
<1>2. ASSUME ~open(c) PROVE OwnPids'
  <2>1. UNCHANGED pid /\ pc[c] # "start"
    BY Zenon, <1>2 DEF Import, ReadArchive, create_staging, RenameBundle, SyncBundles,
       InspectExisting, WriteIdentity, RenameIdentity, CheckIdentity, SyncIdentity,
       ImportFails, Kill, Live, procs
  <2>2. \A d \in Imports \ {c} : pc'[d] = pc[d]
    BY Zenon, <1>0 DEF Alone, Agents
  <2>3. ASSUME NEW d \in Live' PROVE d \in Live
    <3>1. pc[c] # "end"
      BY Zenon, <1>2 DEF Import, ReadArchive, create_staging, RenameBundle, SyncBundles,
         InspectExisting, WriteIdentity, RenameIdentity, CheckIdentity, SyncIdentity,
         ImportFails, Kill, Live
    <3> QED BY Zenon, <2>1, <2>2, <3>1 DEF Live
  <2> QED BY Zenon, <1>0, <2>1, <2>3 DEF OwnPids
<1> QED BY Zenon, <1>1, <1>2

\* What an action does to its import, and the import's new place.
LEMMA ImportOwnPlace ==
  ASSUME Constants, CatalogInv, NEW c \in Imports, Import(c)
  PROVE  ImportPlace(c)'
<1>0. /\ Typed /\ ImportPlace(c) /\ Bears(mapping) /\ UNCHANGED old /\ Grows
      /\ c \in Agents /\ c \notin Readers
  BY Zenon, ImportAlone DEF CatalogInv, Alone, Agents, Constants
<1> USE DEF Binding, Success, Verdicts, Constants, Typed
<1>1. ASSUME open(c) PROVE ImportPlace(c)'
  <2>1. /\ pc[c] = "start" /\ pc'[c] = "read" /\ res'[c] = res[c]
        /\ pid'[c] \in Pids /\ digest'[c] \in Digests
    BY SMTT(20), <1>0, <1>1 DEF open, Goto
  <2> QED BY SMTT(20), <1>0, <2>1 DEF ImportPlace
<1>2. ASSUME ReadArchive(c) \/ ImportFails(c) \/ Kill(c) PROVE ImportPlace(c)'
  <2>1. /\ pc[c] \notin {"start", "end"} /\ UNCHANGED <<pid, digest>>
        /\ pc'[c] \in {"stage", "end"}
        /\ \/ res'[c] = res[c]
           \/ res'[c] \in {"panic", "invalid", "refused"} /\ pc'[c] = "end"
    BY SMTT(20), <1>0, <1>2 DEF ReadArchive, ImportFails, Kill, Live, Goto, Report, procs
  <2> QED BY SMTT(20), <1>0, <2>1 DEF ImportPlace
<1>3. ASSUME create_staging(c) PROVE ImportPlace(c)'
  <2>1. /\ pc[c] = "stage" /\ UNCHANGED <<pid, digest>>
        /\ \/ pc'[c] = "end" /\ res'[c] = "refused"
           \/ pc'[c] = "rename" /\ res'[c] = res[c] /\ Stage(c) \in stages'
    BY SMTT(20), <1>0, <1>3 DEF create_staging, Goto, Report, procs
  <2> QED BY SMTT(20), <1>0, <2>1 DEF ImportPlace, Stage
<1>4. ASSUME RenameBundle(c) PROVE ImportPlace(c)'
  <2>1. /\ pc[c] = "rename" /\ UNCHANGED <<pid, digest, res>>
        /\ \/ pc'[c] = "inspect" /\ digest[c] \in entries /\ UNCHANGED <<entries, stages>>
           \/ pc'[c] = "sync" /\ digest[c] \in entries'
    BY SMTT(20), <1>0, <1>4 DEF RenameBundle, Goto, procs
  <2> QED BY SMTT(20), <1>0, <2>1 DEF ImportPlace, Stage
<1>5. ASSUME SyncBundles(c) \/ InspectExisting(c) PROVE ImportPlace(c)'
  <2>1. /\ pc[c] \in {"sync", "inspect"} /\ UNCHANGED <<pid, digest, res, entries>>
        /\ pc'[c] = "identity" /\ outcome'[c] \in Success
    BY SMTT(20), <1>0, <1>5 DEF SyncBundles, InspectExisting, Goto
  <2> QED BY SMTT(20), <1>0, <2>1 DEF ImportPlace
<1>6. ASSUME WriteIdentity(c) PROVE ImportPlace(c)'
  <2>1. /\ pc[c] = "identity" /\ UNCHANGED <<pid, digest, outcome, entries>>
        /\ \/ pc'[c] = "end" /\ res'[c] = "refused"
           \/ pc'[c] = "idrename" /\ res'[c] = res[c] /\ pid[c] \in idstages'
    BY SMTT(20), <1>0, <1>6 DEF WriteIdentity, Goto, Report, procs
  <2> QED BY SMTT(20), <1>0, <2>1 DEF ImportPlace
<1>7. ASSUME RenameIdentity(c) PROVE ImportPlace(c)'
  <2>0. digest[c] \in Digests
    BY Zenon, <1>0, <1>7 DEF ImportPlace, RenameIdentity
  <2>1. /\ pc[c] = "idrename" /\ UNCHANGED <<pid, digest, outcome, entries, res>>
        /\ \/ pc'[c] = "idsync" /\ mapping'[Version(c)] = digest[c]
           \/ pc'[c] = "idcheck" /\ mapping'[Version(c)] # None /\ UNCHANGED idstages
    BY SMTT(20), <1>0, <1>7, <2>0 DEF RenameIdentity, Goto, procs, Version
  <2> QED BY SMTT(20), <1>0, <2>1 DEF ImportPlace, Version
<1>8. ASSUME CheckIdentity(c) PROVE ImportPlace(c)'
  <2>1. /\ pc[c] = "idcheck" /\ UNCHANGED <<pid, digest, outcome, entries, mapping>>
        /\ \/ pc'[c] = "idsync" /\ mapping[Version(c)] = digest[c] /\ res'[c] = res[c]
           \/ pc'[c] = "end" /\ res'[c] = "conflict"
    BY SMTT(20), <1>0, <1>8 DEF CheckIdentity, Goto, Report, procs
  <2> QED BY SMTT(20), <1>0, <2>1 DEF ImportPlace, Version
<1>9. ASSUME SyncIdentity(c) PROVE ImportPlace(c)'
  <2>1. /\ pc[c] = "idsync" /\ UNCHANGED <<pid, digest, outcome, entries, mapping>>
        /\ pc'[c] = "end"
    BY SMTT(20), <1>0, <1>9 DEF SyncIdentity, Goto, Report, procs
  <2> QED BY SMTT(20), <1>0, <2>1 DEF ImportPlace, Installed, Version
<1> QED BY Zenon, <1>1, <1>2, <1>3, <1>4, <1>5, <1>6, <1>7, <1>8, <1>9 DEF Import

LEMMA ImportStep ==
  ASSUME Constants, CatalogInv, NEW c \in Imports, Import(c)
  PROVE  CatalogInv'
<1>0. /\ Typed /\ (\A d \in Imports : ImportPlace(d)) /\ (\A r \in Readers : ReaderPlace(r))
      /\ OwnPids /\ c \in Agents /\ (\A r \in Readers : r # c)
  BY Zenon DEF CatalogInv, Agents, Constants
<1>1. Alone(c) /\ Tidies(c)
  BY Zenon, <1>0, ImportAlone
<1>2. ASSUME NEW d \in Imports \ {c}, d \in Live
      PROVE  /\ Stage(d) \in stages => Stage(d) \in stages'
             /\ pid[d] \in idstages => pid[d] \in idstages'
  <2>1. ASSUME c \in Live PROVE pid[d] # pid[c] /\ Stage(d) # Stage(c)
    BY SMTT(20), <1>0, <1>2, <2>1 DEF OwnPids, Stage
  <2> QED BY Zenon, <1>1, <2>1 DEF Tidies
<1>3. \A d \in Imports \ {c} : ImportPlace(d)'
  BY Zenon, <1>0, <1>1, <1>2, OtherImportKept
<1>4. \A r \in Readers : ReaderPlace(r)'
  BY Zenon, <1>0, <1>1, OtherReaderKept
<1> QED BY Zenon, <1>0, <1>3, <1>4, ImportOwnPlace, ImportTyped, ImportKeepsBears,
           ImportKeepsPids DEF CatalogInv

--------------------------------------------------------------------------------
(* A step of a reader, and a power loss *)

LEMMA ReaderStep ==
  ASSUME Constants, CatalogInv, NEW r \in Readers, inspect(r)
  PROVE  CatalogInv'
<1>0. /\ Typed /\ (\A d \in Imports : ImportPlace(d)) /\ (\A q \in Readers : ReaderPlace(q))
      /\ OwnPids /\ Bears(mapping) /\ Bears(durable.mapping)
      /\ r \in Agents /\ (\A c \in Imports : c # r)
  BY Zenon DEF CatalogInv, Agents, Constants
<1>1. Alone(r) /\ UNCHANGED <<entries, stages, mapping, idstages, durable, pid, old>>
  BY Zenon, <1>0, ReaderAlone DEF disk, Alone
<1>2. \A c \in Imports : ImportPlace(c)'
  BY Zenon, <1>0, <1>1, OtherImportKept
<1>3. \A q \in Readers \ {r} : ReaderPlace(q)'
  BY Zenon, <1>0, <1>1, OtherReaderKept
<1>4. OwnPids' /\ Bears(mapping)' /\ Bears(durable.mapping)'
  <2>1. Live' = Live
    BY Zenon, <1>0, <1>1 DEF Live, Alone, Agents
  <2> QED BY Zenon, <1>0, <1>1, <2>1 DEF OwnPids, Bears
<1>5. ReaderPlace(r)'
  <2> USE DEF Typed, Goto, Report
  <2>1. ASSUME StartInspect(r) \/ list(r) \/ Answer(r) PROVE ReaderPlace(r)'
    <3>1. /\ pc[r] \in {"start", "mapping"} /\ pc'[r] \in {"mapping", "listed", "end"}
          /\ got' = got
      BY SMTT(20), <1>0, <2>1 DEF StartInspect, list, Answer, readers
    <3> QED BY SMTT(20), <1>0, <1>1, <3>1 DEF ReaderPlace, Installed
  <2>2. ASSUME ReadMapping(r) PROVE ReaderPlace(r)'
    <3>1. PICK v \in want[r] :
             /\ digest' = [digest EXCEPT ![r] = mapping[v]]
             /\ \/ mapping[v] = None /\ pc' = [pc EXCEPT ![r] = "end"]
                \/ mapping[v] # None /\ pc' = [pc EXCEPT ![r] = "enumerate"]
      BY Zenon, <2>2 DEF ReadMapping
    <3>2. v \in Versions /\ UNCHANGED got /\ pc[r] = "mapping"
      BY Zenon, <1>0, <2>2 DEF ReadMapping, readers
    <3>3. /\ digest'[r] = mapping[v]
          /\ \/ pc'[r] = "end"
             \/ pc'[r] = "enumerate" /\ mapping[v] \in Digests /\ VersionOf[mapping[v]] = v
      BY SMTT(20), <1>0, <3>1, <3>2 DEF Bears
    <3> QED BY SMTT(20), <1>0, <1>1, <3>2, <3>3 DEF ReaderPlace, Installed, Version
  <2>3. ASSUME EnumerateStaging(r) \/ CheckStaging(r) PROVE ReaderPlace(r)'
    <3>1. /\ pc[r] \in {"enumerate", "listed", "metadata"} /\ UNCHANGED <<digest, got>>
          /\ pc'[r] \in {"metadata", "mapping", "bundle", "end"}
          /\ pc[r] = "listed" => pc'[r] \in {"mapping", "end"}
      BY SMTT(20), <1>0, <2>3 DEF EnumerateStaging, CheckStaging, readers, procs
    <3> QED BY SMTT(20), <1>0, <1>1, <3>1 DEF ReaderPlace, Installed, Version
  <2>4. ASSUME inspect_by_digest(r) PROVE ReaderPlace(r)'
    <3>1. /\ pc[r] = "bundle" /\ UNCHANGED digest /\ pc'[r] \in {"mapping", "end"}
          /\ \/ got'[r] = got[r]
             \/ digest[r] \in entries /\ got'[r] = got[r] \cup {digest[r]}
      BY SMTT(20), <1>0, <2>4 DEF inspect_by_digest, procs
    <3> QED BY SMTT(20), <1>0, <1>1, <3>1 DEF ReaderPlace, Installed, Version
  <2> QED BY Zenon, <2>1, <2>2, <2>3, <2>4 DEF inspect
<1>6. Typed'
  BY Zenon, <1>0, ReaderTyped
<1> QED BY Zenon, <1>2, <1>3, <1>4, <1>5, <1>6 DEF CatalogInv

\* Every process ends, and what it was told or found is old.
LEMMA PowerLossStep ==
  ASSUME Constants, CatalogInv, PowerLoss
  PROVE  CatalogInv'
<1>0. /\ Typed /\ (\A d \in Imports : ImportPlace(d)) /\ (\A q \in Readers : ReaderPlace(q))
      /\ Bears(mapping) /\ Bears(durable.mapping)
  BY Zenon DEF CatalogInv
<1>1. UNCHANGED <<stages, idstages, pid, digest, outcome, res, want, got>>
  BY Zenon DEF PowerLoss, procs, readers
<1>2. /\ DOMAIN pc = Agents
      /\ pc' = [a \in Agents |-> IF pc[a] = "start" THEN "start" ELSE "end"]
      /\ old' = {a \in Agents : pc[a] # "start"}
  BY Zenon, <1>0 DEF PowerLoss, Typed
<1>3. \A a \in Agents : \/ pc[a] = "start" /\ pc'[a] = "start" /\ a \notin old'
                        \/ pc'[a] = "end" /\ a \in old'
  BY Zenon, <1>2
<1>4. entries' \in SUBSET Digests
  <2>1. PICK e \in SUBSET (entries \ durable.entries) : entries' = durable.entries \cup e
    BY Zenon DEF PowerLoss
  <2>2. durable.entries \in SUBSET Digests
    BY Zenon, <1>0 DEF Typed
  <2> QED BY Zenon, <1>0, <2>1, <2>2 DEF Typed
<1>5. identity' \in BOOLEAN
  <2>1. durable.identity \in BOOLEAN /\ identity \in BOOLEAN
    BY Zenon, <1>0 DEF Typed
  <2> QED BY Zenon, <2>1 DEF PowerLoss
<1>6. mapping' \in [Versions -> Digests \cup {None}] /\ Bears(mapping)'
  <2>1. PICK kept \in SUBSET Versions :
           mapping' = [v \in Versions |-> IF ~identity' THEN None
                                          ELSE IF v \in kept THEN mapping[v]
                                          ELSE durable.mapping[v]]
    BY Zenon DEF PowerLoss
  <2>2. \A v \in Versions : mapping'[v] \in {None, mapping[v], durable.mapping[v]}
    BY Zenon, <2>1
  <2>3. durable.mapping \in [Versions -> Digests \cup {None}]
    BY Zenon, <1>0 DEF Typed
  <2>4. \A v \in Versions : mapping'[v] \in Digests \cup {None}
    BY Zenon, <1>0, <2>2, <2>3 DEF Typed
  <2>5. Bears(mapping)'
    BY SMTT(20), <1>0, <2>2 DEF Bears
  <2> QED BY Zenon, <2>1, <2>4, <2>5
<1>7. durable' = [entries |-> entries', identity |-> identity', mapping |-> mapping']
  BY Zenon DEF PowerLoss
<1>8. durable' \in [entries : SUBSET Digests, identity : BOOLEAN,
                   mapping : [Versions -> Digests \cup {None}]]
  BY Zenon, <1>4, <1>5, <1>6, <1>7
<1>9. Bears(durable.mapping)'
  BY Zenon, <1>6, <1>7 DEF Bears
<1>10. pc' \in [Agents -> Places] /\ old' \in SUBSET Agents
  BY Zenon, <1>2 DEF Places
<1>11. Typed'
  BY Zenon, <1>0, <1>1, <1>4, <1>5, <1>6, <1>8, <1>10 DEF Typed
<1>12. OwnPids'
  <2>1. Live' = {}
    BY SMTT(20), <1>3 DEF Live, Agents
  <2> QED BY Zenon, <2>1 DEF OwnPids
<1>13. ASSUME NEW c \in Imports PROVE ImportPlace(c)'
  <2>1. c \in Agents /\ ImportPlace(c)
    BY Zenon, <1>0 DEF Agents
  <2>2. CASE pc[c] = "start" /\ pc'[c] = "start" /\ c \notin old'
    BY Zenon, <1>1, <2>1, <2>2 DEF ImportPlace, Binding, Constants, Success, Verdicts
  <2>3. CASE pc'[c] = "end" /\ c \in old'
    <3>1. pc[c] # "start"
      BY Zenon, <1>2, <2>3
    <3> QED BY Zenon, <1>1, <2>1, <2>3, <3>1 DEF ImportPlace, Binding
  <2> QED BY Zenon, <1>3, <2>1, <2>2, <2>3
<1>14. ASSUME NEW r \in Readers PROVE ReaderPlace(r)'
  <2>1. r \in Agents /\ ReaderPlace(r)
    BY Zenon, <1>0 DEF Agents
  <2>2. CASE pc[r] = "start" /\ pc'[r] = "start" /\ r \notin old'
    BY Zenon, <1>1, <2>1, <2>2 DEF ReaderPlace
  <2>3. CASE pc'[r] = "end" /\ r \in old'
    BY Zenon, <1>1, <2>1, <2>3 DEF ReaderPlace
  <2> QED BY Zenon, <1>3, <2>1, <2>2, <2>3
<1> QED BY Zenon, <1>6, <1>9, <1>11, <1>12, <1>13, <1>14 DEF CatalogInv

--------------------------------------------------------------------------------
(* The invariant *)

LEMMA CatalogInvNext == Constants /\ CatalogInv /\ [Next]_vars => CatalogInv'
<1> SUFFICES ASSUME Constants, CatalogInv, [Next]_vars PROVE CatalogInv'
  BY Zenon
<1>1. ASSUME UNCHANGED vars PROVE CatalogInv'
  BY Zenon, <1>1 DEF vars, CatalogInv, Typed, Bears, OwnPids, Live, ImportPlace, ReaderPlace,
     Installed, Version, Stage, Binding
<1> QED BY Zenon, <1>1, ImportStep, ReaderStep, PowerLossStep DEF Next

LEMMA CatalogInvariance == ASSUME Constants PROVE Spec => []CatalogInv
<1>1. Init => CatalogInv
  BY Zenon, InitHolds
<1>2. CatalogInv /\ [Next]_vars => CatalogInv'
  BY Zenon, CatalogInvNext
<1> QED BY <1>1, <1>2, PTL DEF Spec

\* Every variable keeps its type, and an import that is about to rename its
\* staging directory or its mapping file has one to rename, whatever other
\* imports, kills and power losses did to theirs (import_with_policy,
\* activate_identity_with_hook).
THEOREM CatalogTypeCorrect == ASSUME Constants PROVE Spec => []TypeOK
<1>1. CatalogInv => TypeOK
  BY Zenon DEF CatalogInv, Typed, TypeOK, ImportPlace, Agents, Verdicts, Success
<1> QED BY <1>1, CatalogInvariance, PTL

\* Re-import is the recovery from any power loss: whoever is told of success
\* since the last one has both the mapping and the bundle (import_with_policy).
THEOREM ReimportAlwaysRestores == ASSUME Constants PROVE Spec => []ReimportRestores
<1>1. CatalogInv => ReimportRestores
  BY Zenon DEF CatalogInv, ImportPlace, Installed, ReimportRestores, Version
<1> QED BY <1>1, CatalogInvariance, PTL

\* What inspect and list answer is installed, also beside running imports and
\* after a power loss that left a mapping without its bundle
\* (inspect_by_digest).
THEOREM AnswersAreInstalled == ASSUME Constants PROVE Spec => []AnswersInstalled
<1>1. CatalogInv => AnswersInstalled
  BY Zenon DEF CatalogInv, ReaderPlace, Installed, AnswersInstalled
<1> QED BY <1>1, CatalogInvariance, PTL

--------------------------------------------------------------------------------
(* Without power losses *)

LEMMA StepGrows ==
  ASSUME Constants, CatalogInv, [Next]_vars, ~PowerFails
  PROVE  Grows
<1>1. Typed /\ \A c \in Imports : ImportPlace(c)
  BY Zenon DEF CatalogInv
<1>2. ASSUME UNCHANGED vars PROVE Grows
  BY Zenon, <1>2 DEF vars, Grows
<1> QED BY Zenon, <1>1, <1>2, ImportAlone, ReaderAlone DEF Next, PowerLoss, Alone

\* A mapping is new only when its import renames it into place.
LEMMA MappingNext ==
  ASSUME Constants, CatalogInv, [Next]_vars, ~PowerFails, MappingResolves
  PROVE  MappingResolves'
<1>0. /\ Typed /\ (\A c \in Imports : ImportPlace(c)) /\ Bears(mapping)' /\ Grows
  BY Zenon, CatalogInvNext, StepGrows DEF CatalogInv
<1>1. ASSUME UNCHANGED mapping PROVE MappingResolves'
  BY Zenon, <1>0, <1>1 DEF MappingResolves, Grows
<1>2. ASSUME NEW c \in Imports, RenameIdentity(c) PROVE MappingResolves'
  <2>1. digest[c] \in entries /\ UNCHANGED entries
    BY Zenon, <1>0, <1>2 DEF RenameIdentity, ImportPlace, Binding
  <2>2. mapping' = mapping \/ mapping' = [mapping EXCEPT ![Version(c)] = digest[c]]
    BY Zenon, <1>2 DEF RenameIdentity
  <2>3. \A v \in Versions : mapping'[v] = mapping[v] \/ mapping'[v] = digest[c]
    BY Zenon, <1>0, <2>2 DEF Typed
  <2> QED BY Zenon, <1>0, <2>1, <2>3 DEF MappingResolves, Bears
<1>3. ASSUME NEW c \in Imports, Import(c), ~RenameIdentity(c) PROVE UNCHANGED mapping
  BY Zenon, <1>3 DEF Import, open, ReadArchive, create_staging, RenameBundle, SyncBundles,
     InspectExisting, WriteIdentity, CheckIdentity, SyncIdentity, ImportFails, Kill, disk
<1>4. ASSUME NEW r \in Readers, inspect(r) PROVE UNCHANGED mapping
  BY Zenon, <1>0, <1>4, ReaderAlone DEF disk
<1>5. UNCHANGED vars => UNCHANGED mapping
  BY Zenon DEF vars
<1> QED BY Zenon, <1>1, <1>2, <1>3, <1>4, <1>5 DEF Next, PowerLoss

Honest(c) ==
  /\ res[c] \in Success => mapping[Version(c)] = digest[c]
  /\ res[c] = "conflict" => mapping[Version(c)] \notin {None, digest[c]}

LEMMA OtherHonest ==
  ASSUME Constants, Typed, NEW d \in Imports, ImportPlace(d), Honest(d), Grows,
         digest'[d] = digest[d], res'[d] = res[d]
  PROVE  Honest(d)'
<1>1. ASSUME res[d] \in Success \cup {"conflict"}
      PROVE  digest[d] \in Digests /\ Version(d) \in Versions /\ digest[d] # None
  BY Zenon, <1>1 DEF ImportPlace, Constants, Verdicts, Success, Version
<1>2. Version(d)' = Version(d)
  BY Zenon DEF Version
<1> QED BY Zenon, <1>1, <1>2 DEF Honest, Grows

LEMMA HonestNext ==
  ASSUME Constants, CatalogInv, [Next]_vars, ~PowerFails, ReportHonest
  PROVE  ReportHonest'
<1>0. /\ Typed /\ (\A c \in Imports : ImportPlace(c) /\ Honest(c)) /\ Grows
      /\ (\A c \in Imports : c \in Agents) /\ (\A r \in Readers : r \notin Imports)
  BY Zenon, StepGrows DEF CatalogInv, Honest, ReportHonest, Agents, Constants
<1>1. ASSUME NEW c \in Imports, Import(c) PROVE \A d \in Imports : Honest(d)'
  <2>1. \A d \in Imports \ {c} : Honest(d)'
    BY Zenon, <1>0, <1>1, ImportAlone, OtherHonest DEF Alone
  <2>2. ASSUME SyncIdentity(c) PROVE Honest(c)'
    <3>1. /\ mapping[Version(c)] = digest[c] /\ UNCHANGED <<mapping, digest>>
          /\ res'[c] \in Success
      BY SMTT(20), <1>0, <2>2 DEF SyncIdentity, Report, Goto, ImportPlace, Binding, Typed, procs,
         Agents
    <3> QED BY SMTT(20), <3>1 DEF Honest, Version, Success
  <2>3. ASSUME CheckIdentity(c) PROVE Honest(c)'
    <3>1. /\ mapping[Version(c)] # None /\ UNCHANGED <<mapping, digest>>
          /\ res'[c] = res[c] \/ (res'[c] = "conflict" /\ mapping[Version(c)] # digest[c])
      BY SMTT(20), <1>0, <2>3 DEF CheckIdentity, Report, Goto, ImportPlace, Typed, procs, Agents
    <3> QED BY SMTT(20), <1>0, <3>1 DEF Honest, Version, Success
  <2>4. ASSUME open(c) PROVE Honest(c)'
    <3>1. pc[c] = "start" /\ UNCHANGED res
      BY Zenon, <2>4 DEF open
    <3>2. res'[c] = None
      BY Zenon, <1>0, <3>1 DEF ImportPlace
    <3> QED BY SMTT(20), <3>2 DEF Honest, Constants, Verdicts, Success
  <2>5. ASSUME ~SyncIdentity(c), ~CheckIdentity(c), ~open(c) PROVE Honest(c)'
    <3>1. /\ UNCHANGED digest
          /\ res'[c] = res[c] \/ res'[c] \in {"refused", "invalid", "panic"}
      BY SMTT(20), <1>0, <1>1, <2>5 DEF Import, ReadArchive, create_staging, RenameBundle,
         SyncBundles, InspectExisting, WriteIdentity, RenameIdentity, ImportFails, Kill,
         Report, Goto, Typed, procs, Agents
    <3>2. CASE res'[c] = res[c]
      BY Zenon, <1>0, <3>1, <3>2, OtherHonest
    <3>3. CASE res'[c] \in {"refused", "invalid", "panic"}
      BY SMTT(20), <3>3 DEF Honest, Success
    <3> QED BY Zenon, <3>1, <3>2, <3>3
  <2> QED BY Zenon, <2>1, <2>2, <2>3, <2>4, <2>5
<1>2. ASSUME NEW r \in Readers, inspect(r) PROVE \A d \in Imports : Honest(d)'
  BY Zenon, <1>0, <1>2, ReaderAlone, OtherHonest DEF Alone
<1>3. ASSUME UNCHANGED vars PROVE \A d \in Imports : Honest(d)'
  BY Zenon, <1>0, <1>3, OtherHonest DEF vars
<1> QED BY Zenon, <1>1, <1>2, <1>3 DEF Next, PowerLoss, ReportHonest, Honest

\* Kills and failing calls at any point leave no mapping without its bundle: the
\* bundle is renamed into place before its identity is bound to it
\* (import_with_policy, activate_identity_with_hook).
THEOREM MappingsAlwaysResolve ==
  ASSUME Constants, ~PowerFails PROVE Spec => []MappingResolves
<1>1. Init => MappingResolves
  BY Zenon, InitHolds
<1>2. CatalogInv /\ MappingResolves /\ [Next]_vars => MappingResolves'
  BY Zenon, MappingNext
<1> QED BY <1>1, <1>2, CatalogInvariance, PTL DEF Spec

\* Whoever was told IMPORTED or ALREADY_PRESENT finds its identity bound to its
\* own digest for ever after, and whoever was told of a conflict finds it bound
\* to another (CheckIdentity's comparison, rename_no_replace).
THEOREM ReportsAreHonest ==
  ASSUME Constants, ~PowerFails PROVE Spec => []ReportHonest
<1>1. Init => ReportHonest
  BY Zenon, InitHolds
<1>2. CatalogInv /\ ReportHonest /\ [Next]_vars => ReportHonest'
  BY Zenon, HonestNext
<1> QED BY <1>1, <1>2, CatalogInvariance, PTL DEF Spec

\* No import replaces or removes the mapping of an identity, its own included
\* (rename_no_replace).
THEOREM IdentitiesAreKept ==
  ASSUME Constants, ~PowerFails PROVE Spec => [][KeepsIdentities]_vars
<1>1. CatalogInv /\ [Next]_vars => [KeepsIdentities]_vars
  BY Zenon, StepGrows DEF Grows, KeepsIdentities
<1> QED BY <1>1, CatalogInvariance, PTL DEF Spec

--------------------------------------------------------------------------------
(* When no pid comes back *)

Early == {"start", "read", "stage"}

Unbound == Early \cup {"rename", "sync", "inspect", "identity"}

\* An import never goes back, and stages only under its own name.
Forward(c) ==
  /\ pc[c] \notin Early => pc'[c] \notin Early
  /\ pc[c] \notin Unbound => pc'[c] \notin Unbound
  /\ pc[c] # "start" => pc'[c] # "start"
  /\ \A s \in stages' : s \in stages \/ (s = Stage(c) /\ pc'[c] \notin Early)
  /\ \A p \in idstages' : p \in idstages \/ (p = pid[c] /\ pc'[c] \notin Unbound)
  /\ hit \subseteq hit'

LEMMA ImportForward ==
  ASSUME Constants, Typed, NEW c \in Imports, Import(c)
  PROVE  Forward(c)
<1> USE DEF Typed, Agents, Forward, Early, Unbound, Goto, Report, NoFault, Fault, procs, disk
<1>1. ASSUME open(c) PROVE Forward(c)
  <2>1. pc[c] = "start" /\ pc'[c] = "read" /\ UNCHANGED <<stages, idstages, hit>>
    BY Zenon, <1>1 DEF open
  <2> QED BY Zenon, <2>1
<1>2. ASSUME ReadArchive(c) PROVE Forward(c)
  BY SMTT(20), <1>2 DEF ReadArchive
<1>3. ASSUME create_staging(c) PROVE Forward(c)
  BY SMTT(20), <1>3 DEF create_staging
<1>4. ASSUME RenameBundle(c) \/ SyncBundles(c) \/ InspectExisting(c) PROVE Forward(c)
  BY SMTT(20), <1>4 DEF RenameBundle, SyncBundles, InspectExisting
<1>5. ASSUME WriteIdentity(c) PROVE Forward(c)
  BY SMTT(20), <1>5 DEF WriteIdentity
<1>6. ASSUME RenameIdentity(c) \/ CheckIdentity(c) \/ SyncIdentity(c) PROVE Forward(c)
  BY SMTT(20), <1>6 DEF RenameIdentity, CheckIdentity, SyncIdentity
<1>7. ASSUME ImportFails(c) \/ Kill(c) PROVE Forward(c)
  <2>1. /\ pc'[c] = "end" /\ hit \subseteq hit'
        /\ stages' \subseteq stages /\ idstages' \subseteq idstages
    BY SMTT(20), <1>7 DEF ImportFails, Kill
  <2> QED BY Zenon, <2>1
<1> QED BY Zenon, <1>1, <1>2, <1>3, <1>4, <1>5, <1>6, <1>7 DEF Import

\* The pids stay apart.
LEMMA ImportKeepsUnique ==
  ASSUME Constants, Typed, NEW c \in Imports, ImportPlace(c), Import(c), ~ReusePids, Unique
  PROVE  Unique'
<1>0. /\ Forward(c) /\ \A d \in Imports \ {c} : pc'[d] = pc[d] /\ pid'[d] = pid[d]
  BY Zenon, ImportForward, ImportAlone DEF Alone, Agents
<1>1. \/ /\ UNCHANGED <<pid, used>> /\ pc[c] # "start"
      \/ /\ pc[c] = "start" /\ pid'[c] \notin used /\ used' = used \cup {pid'[c]}
         /\ UNCHANGED <<stages, idstages>>
  <2>1. ASSUME open(c)
        PROVE  /\ pc[c] = "start" /\ pid'[c] \notin used /\ used' = used \cup {pid'[c]}
               /\ UNCHANGED <<stages, idstages>>
    <3>1. PICK p \in Pids : p \notin used /\ pid' = [pid EXCEPT ![c] = p] /\ used' = used \cup {p}
      BY Zenon, <2>1 DEF open
    <3>2. pid'[c] = p
      BY Zenon, <3>1 DEF Typed
    <3>3. pc[c] = "start" /\ UNCHANGED <<stages, idstages>>
      BY Zenon, <2>1 DEF open
    <3> QED BY Zenon, <3>1, <3>2, <3>3
  <2>2. ASSUME ~open(c) PROVE UNCHANGED <<pid, used>> /\ pc[c] # "start"
    BY Zenon, <2>2 DEF Import, ReadArchive, create_staging, RenameBundle, SyncBundles,
       InspectExisting, WriteIdentity, RenameIdentity, CheckIdentity, SyncIdentity,
       ImportFails, Kill, Live, procs
  <2> QED BY Zenon, <2>1, <2>2
<1>2. \A d \in Imports : Begun(d)' => pid'[d] \in used'
  BY Zenon, <1>0, <1>1 DEF Unique, Begun
<1>3. ASSUME NEW d \in Imports, NEW e \in Imports, Begun(d)', Begun(e)', pid'[d] = pid'[e]
      PROVE  d = e
  <2>1. CASE UNCHANGED <<pid, used>> /\ pc[c] # "start"
    <3>1. Begun(d) /\ Begun(e) /\ pid[d] = pid[e]
      BY Zenon, <1>0, <1>3, <2>1 DEF Begun
    <3> QED BY Zenon, <3>1 DEF Unique
  <2>2. CASE pc[c] = "start" /\ pid'[c] \notin used
    <3>1. \A f \in Imports \ {c} : Begun(f)' => Begun(f) /\ pid'[f] \in used
      BY Zenon, <1>0 DEF Unique, Begun
    <3> QED BY Zenon, <1>0, <1>3, <2>2, <3>1 DEF Unique
  <2> QED BY Zenon, <1>1, <2>1, <2>2
<1>4. \A d \in Imports : Begun(d) => pid'[d] = pid[d]
  BY Zenon, <1>0, <1>1 DEF Begun
<1>5. ASSUME NEW s \in stages' PROVE \E d \in Imports : s[1] = pid'[d] /\ pc'[d] \notin Early
  <2>1. CASE s \in stages
    <3>1. PICK d \in Imports : s[1] = pid[d] /\ pc[d] \notin Early
      BY Zenon, <2>1 DEF Unique, Early
    <3> QED BY Zenon, <1>0, <1>4, <3>1 DEF Forward, Begun, Early
  <2>2. CASE s = Stage(c) /\ pc'[c] \notin Early
    <3>1. s[1] = pid[c]
      BY <2>2 DEF Stage
    <3>2. CASE UNCHANGED <<pid, used>>
      BY Zenon, <2>2, <3>1, <3>2
    <3>3. CASE UNCHANGED <<stages, idstages>>
      BY Zenon, <1>5, <2>1, <3>3
    <3> QED BY Zenon, <1>1, <3>2, <3>3
  <2> QED BY Zenon, <1>0, <1>5, <2>1, <2>2 DEF Forward
<1>6. ASSUME NEW p \in idstages' PROVE \E d \in Imports : p = pid'[d] /\ pc'[d] \notin Unbound
  <2>1. CASE p \in idstages
    <3>1. PICK d \in Imports : p = pid[d] /\ pc[d] \notin Unbound
      BY Zenon, <2>1 DEF Unique, Unbound, Early
    <3> QED BY Zenon, <1>0, <1>4, <3>1 DEF Forward, Begun, Unbound, Early
  <2>2. CASE p = pid[c] /\ pc'[c] \notin Unbound
    <3>1. CASE UNCHANGED <<pid, used>>
      BY Zenon, <2>2, <3>1
    <3>2. CASE UNCHANGED <<stages, idstages>>
      BY Zenon, <1>6, <2>1, <3>2
    <3> QED BY Zenon, <1>1, <3>1, <3>2
  <2> QED BY Zenon, <1>0, <1>6, <2>1, <2>2 DEF Forward
<1> QED BY Zenon, <1>2, <1>3, <1>5, <1>6 DEF Unique, Early, Unbound

\* No staging name is taken when an import comes to it.
LEMMA ImportHasCause ==
  ASSUME Constants, Typed, NEW c \in Imports, ImportPlace(c), Import(c), Unique,
         res[c] = "refused" => c \in hit
  PROVE  res'[c] = "refused" => c \in hit'
<1>0. hit \subseteq hit'
  BY Zenon, ImportForward DEF Forward
<1>1. ASSUME create_staging(c) PROVE res'[c] = res[c]
  <2>1. ASSUME Stage(c) \in stages PROVE FALSE
    <3>1. PICK d \in Imports : Stage(c)[1] = pid[d] /\ pc[d] \notin {"start", "read", "stage"}
      BY Zenon, <2>1 DEF Unique
    <3>2. Stage(c)[1] = pid[c]
      BY DEF Stage
    <3>3. pc[c] = "stage"
      BY Zenon, <1>1 DEF create_staging
    <3>4. c = d
      BY Zenon, <3>1, <3>2, <3>3 DEF Unique, Begun
    <3> QED BY Zenon, <3>1, <3>3, <3>4
  <2> QED BY Zenon, <1>1, <2>1 DEF create_staging
<1>2. ASSUME WriteIdentity(c) PROVE res'[c] = res[c]
  <2>1. ASSUME pid[c] \in idstages PROVE FALSE
    <3>1. PICK d \in Imports :
             /\ pid[c] = pid[d]
             /\ pc[d] \notin {"start", "read", "stage", "rename", "sync", "inspect", "identity"}
      BY Zenon, <2>1 DEF Unique
    <3>2. pc[c] = "identity"
      BY Zenon, <1>2 DEF WriteIdentity
    <3>3. c = d
      BY Zenon, <3>1, <3>2 DEF Unique, Begun
    <3> QED BY Zenon, <3>1, <3>2, <3>3
  <2> QED BY Zenon, <1>2, <2>1 DEF WriteIdentity
<1>3. ASSUME ImportFails(c) PROVE c \in hit'
  BY Zenon, <1>3 DEF ImportFails, Fault
<1>4. ASSUME ~create_staging(c), ~WriteIdentity(c), ~ImportFails(c)
      PROVE  res'[c] = res[c] \/ res'[c] # "refused"
  <2>1. CASE SyncIdentity(c)
    BY SMTT(20), <2>1 DEF SyncIdentity, Report, Typed, Agents, ImportPlace, Binding, Success
  <2>2. CASE ~SyncIdentity(c)
    BY SMTT(20), <1>4, <2>2 DEF Import, open, ReadArchive, RenameBundle, SyncBundles,
       InspectExisting, RenameIdentity, CheckIdentity, Kill, Report, Typed, Agents
  <2> QED BY Zenon, <2>1, <2>2
<1> QED BY Zenon, <1>0, <1>1, <1>2, <1>3, <1>4

LEMMA CauseNext ==
  ASSUME Constants, CatalogInv, [Next]_vars, ~ReusePids, Unique, RefusedHasCause
  PROVE  Unique' /\ RefusedHasCause'
<1>0. /\ Typed /\ (\A c \in Imports : ImportPlace(c))
      /\ (\A c \in Imports : c \in Agents) /\ (\A r \in Readers : r \notin Imports)
  BY Zenon DEF CatalogInv, Agents, Constants
<1>1. ASSUME NEW c \in Imports, Import(c) PROVE Unique' /\ RefusedHasCause'
  <2>1. Unique'
    BY Zenon, <1>0, <1>1, ImportKeepsUnique
  <2>2. \A d \in Imports \ {c} : res'[d] = res[d]
    BY Zenon, <1>0, <1>1, ImportAlone DEF Alone
  <2>3. hit \subseteq hit'
    BY Zenon, <1>0, <1>1, ImportForward DEF Forward
  <2>4. res'[c] = "refused" => c \in hit'
    BY Zenon, <1>0, <1>1, ImportHasCause DEF RefusedHasCause
  <2> QED BY Zenon, <2>1, <2>2, <2>3, <2>4 DEF RefusedHasCause
<1>2. ASSUME NEW r \in Readers, inspect(r) PROVE Unique' /\ RefusedHasCause'
  <2>1. /\ UNCHANGED <<stages, idstages, pid, used, hit>>
        /\ \A c \in Imports : pc'[c] = pc[c] /\ res'[c] = res[c]
    BY Zenon, <1>0, <1>2, ReaderAlone DEF Alone, disk
  <2> QED BY Zenon, <2>1 DEF Unique, Begun, RefusedHasCause
<1>3. ASSUME PowerLoss PROVE Unique' /\ RefusedHasCause'
  <2>1. UNCHANGED <<stages, idstages, pid, res, used>> /\ hit \subseteq hit'
    BY Zenon, <1>3 DEF PowerLoss, procs
  <2>2. pc' = [a \in DOMAIN pc |-> IF pc[a] = "start" THEN "start" ELSE "end"]
    BY Zenon, <1>3 DEF PowerLoss
  <2>3. \A c \in Imports : pc'[c] = IF pc[c] = "start" THEN "start" ELSE "end"
    BY Zenon, <1>0, <2>2 DEF Typed
  <2>4. \A c \in Imports : Begun(c)' <=> Begun(c)
    BY SMTT(20), <2>3 DEF Begun
  <2>5. \A c \in Imports : pc[c] \notin Early => pc'[c] \notin Unbound
    BY SMTT(20), <2>3 DEF Early, Unbound
  <2> QED BY Zenon, <2>1, <2>4, <2>5 DEF Unique, RefusedHasCause, Early, Unbound
<1>4. ASSUME UNCHANGED vars PROVE Unique' /\ RefusedHasCause'
  BY Zenon, <1>4 DEF vars, Unique, Begun, RefusedHasCause
<1> QED BY Zenon, <1>1, <1>2, <1>3, <1>4 DEF Next

\* As long as no pid is used twice, an import of a valid bundle fails only when
\* one of its own calls failed: the staging names that running or killed imports
\* hold are never its own, on the disk or after a power loss (create_staging,
\* write_readonly).
THEOREM RefusalsHaveCause ==
  ASSUME Constants, ~ReusePids PROVE Spec => []RefusedHasCause
<1>1. Init => Unique /\ RefusedHasCause
  BY Zenon, InitHolds
<1>2. CatalogInv /\ Unique /\ RefusedHasCause /\ [Next]_vars => Unique' /\ RefusedHasCause'
  BY Zenon, CauseNext
<1> QED BY <1>1, <1>2, CatalogInvariance, PTL DEF Spec
=============================================================================

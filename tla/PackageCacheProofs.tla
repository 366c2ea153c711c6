--------------------------- MODULE PackageCacheProofs ---------------------------
(***************************************************************************)
(* Proofs about the package cache, for any number of imports, readers,     *)
(* files and faults.                                                       *)
(*                                                                         *)
(* What may be concluded about the entry rests on the order of the steps   *)
(* before the rename, so the invariant says for each position of an import *)
(* what its staging directory holds, what is durable and whether the entry *)
(* is there.                                                               *)
(***************************************************************************)
EXTENDS PackageCache, TLAPS

\* Every file copied so far is the declared one and was fsynced.
PartSound(dir) ==
  \A f \in Files : dir.files[f] # "missing" => dir.files[f] = "declared" /\ f \in dir.synced

\* Every file was.
Copied(dir) == dir.synced = Files /\ \A f \in Files : dir.files[f] = "declared"

\* The staging directory of an import at each of its positions.
StageSound(c) ==
  /\ pc[c] = "copy" => PartSound(stage[c])
  /\ pc[c] = "seal" => Copied(stage[c]) /\ stage[c].man
  /\ pc[c] = "rename" => Copied(stage[c]) /\ stage[c].man /\ stage[c].sealed
  /\ pc[c] \in {"sync", "syncpresent"} => stage[c] = None

\* Whoever is past the rename or the verification has seen the entry, and did
\* so before it was damaged; whoever succeeded has also made its name durable.
Seen(c) ==
  /\ pc[c] \in {"clean", "sync", "syncpresent"} => entry # None
  /\ pc[c] \in {"clean", "sync", "syncpresent"} /\ late # None => c \notin late
  /\ res[c] \in Success => named /\ entry # None /\ stage[c] = None

\* The entry was made from a sealed directory, and unless it was damaged it
\* is what was copied.
EntrySound ==
  entry # None =>
    /\ entry.man /\ entry.sealed /\ entry.synced = Files
    /\ IF late = None THEN \A f \in Files : entry.files[f] = "declared"
                      ELSE \E f \in Files : entry.files[f] # "declared"

CacheInv ==
  /\ TypeOK
  /\ \A c \in Imports : StageSound(c) /\ Seen(c)
  /\ EntrySound
  /\ late # None => entry # None
  /\ DamageRefused
  /\ \A a \in Imports \cup Readers : pc[a] # "end" => res[a] = None

--------------------------------------------------------------------------------
(* The updates of a directory *)

LEMMA NewDirType == NewDir \in Dirs
BY DEF NewDir, Dirs, Bytes

LEMMA FlagUpdates ==
  ASSUME NEW d \in Dirs
  PROVE  /\ [d EXCEPT !.man = TRUE] \in Dirs
         /\ [d EXCEPT !.sealed = TRUE] \in Dirs
BY Zenon DEF Dirs

LEMMA CopyUpdate ==
  ASSUME NEW d \in Dirs, NEW f \in Files,
         PartSound(d)
  PROVE  /\ [d EXCEPT !.files[f] = "declared", !.synced = @ \cup {f}] \in Dirs
         /\ PartSound([d EXCEPT !.files[f] = "declared", !.synced = @ \cup {f}])
<1> DEFINE e == [d EXCEPT !.files[f] = "declared", !.synced = @ \cup {f}]
<1>1. d.files \in [Files -> Bytes] /\ d.synced \in SUBSET Files
  BY DEF Dirs
<1>2. /\ e.files = [d.files EXCEPT ![f] = "declared"]
      /\ e.synced = d.synced \cup {f}
  BY DEF Dirs
<1>3. [d.files EXCEPT ![f] = "declared"] \in [Files -> Bytes]
  BY <1>1 DEF Bytes
<1>4. (d.synced \cup {f}) \in SUBSET Files
  BY <1>1
<1>5. e \in Dirs
  BY Zenon, <1>3, <1>4 DEF Dirs
<1>6. PartSound(e)
  BY <1>1, <1>2 DEF PartSound
<1> QED BY <1>5, <1>6

\* A directory of which some files were lost.
Lose(d, lost, b) == [d EXCEPT !.files = [f \in Files |-> IF f \in lost THEN b ELSE @[f]]]

\* It is one of which the others are as they were.
LostOnly(e, d, lost) ==
  /\ e \in Dirs
  /\ e.man = d.man /\ e.sealed = d.sealed /\ e.synced = d.synced
  /\ \A f \in Files \ lost : e.files[f] = d.files[f]

LEMMA LossUpdate ==
  ASSUME NEW d \in Dirs, NEW lost \in SUBSET Files, NEW b \in {"other", "missing"}
  PROVE  LostOnly(Lose(d, lost, b), d, lost)
<1> DEFINE e == Lose(d, lost, b)
<1>1. d.files \in [Files -> Bytes]
  BY DEF Dirs
<1> DEFINE files == [f \in Files |-> IF f \in lost THEN b ELSE d.files[f]]
<1>2. files \in [Files -> Bytes]
  BY <1>1 DEF Bytes
<1>3. e = [d EXCEPT !.files = files]
  BY DEF Lose
<1>4. \A f \in Files \ lost : files[f] = d.files[f]
  OBVIOUS
<1> HIDE DEF files
<1>5. e \in Dirs
  BY Zenon, <1>2, <1>3 DEF Dirs
<1>6. e.files = files /\ e.man = d.man /\ e.sealed = d.sealed /\ e.synced = d.synced
  BY <1>3 DEF Dirs
<1> QED BY <1>4, <1>5, <1>6 DEF LostOnly

--------------------------------------------------------------------------------
(* The steps of the imports, one lemma step per action *)

\* A step that moves one import only and keeps the entry and its damage.
MovesOnly(c) ==
  /\ pc' = [pc EXCEPT ![c] = pc'[c]] /\ pc'[c] \in Steps
  /\ res' = [res EXCEPT ![c] = res'[c]] /\ res'[c] \in Success \cup {None, "refused", "ok"}
  /\ stage' = [stage EXCEPT ![c] = stage'[c]] /\ stage'[c] \in Dirs \cup {None}
  /\ pc'[c] \in {"copy", "seal", "rename", "verify", "clean", "drop"} => stage'[c] # None
  /\ named' \in BOOLEAN /\ (named => named') /\ faults' \in 0..MaxFaults
  /\ UNCHANGED <<entry, late>>

LEMMA MoveKeeps ==
  ASSUME CacheInv, NEW c \in Imports, MovesOnly(c),
         StageSound(c)', Seen(c)',
         late # None /\ c \in late => res'[c] \notin Success \cup {"ok"},
         pc'[c] # "end" => res'[c] = None
  PROVE  CacheInv'
<1> USE DEF MovesOnly
<1>1. TypeOK
  BY DEF CacheInv
<1>2. TypeOK'
  BY <1>1 DEF TypeOK
<1>3. ASSUME NEW a \in Imports, a # c
      PROVE  (StageSound(a) /\ Seen(a))'
  <2>1. pc'[a] = pc[a] /\ res'[a] = res[a] /\ stage'[a] = stage[a]
    BY <1>1, <1>3 DEF TypeOK
  <2>2. StageSound(a) /\ Seen(a)
    BY Zenon, <1>3 DEF CacheInv
  <2> QED BY <2>1, <2>2 DEF StageSound, Seen
<1>4. \A a \in Imports : (StageSound(a) /\ Seen(a))'
  BY Zenon, <1>3
<1>5. EntrySound' /\ (late # None => entry # None)'
  BY DEF CacheInv, EntrySound
<1>6. ASSUME late # None, NEW a \in late
      PROVE  res'[a] \notin Success \cup {"ok"}
  <2>0. late \in SUBSET (Imports \cup Readers)
    BY Zenon, <1>1, <1>6 DEF TypeOK
  <2>1. a \in Imports \cup Readers
    BY Zenon, <1>6, <2>0
  <2>2. a # c => res'[a] = res[a]
    BY <1>1, <2>1 DEF TypeOK
  <2>3. res[a] \notin Success \cup {"ok"}
    BY Zenon, <1>6 DEF CacheInv, DamageRefused
  <2> QED BY <1>6, <2>2, <2>3
<1>8. DamageRefused'
  BY Zenon, <1>6 DEF DamageRefused
<1>7. (\A a \in Imports \cup Readers : pc[a] # "end" => res[a] = None)'
  BY <1>1 DEF TypeOK, CacheInv
<1> QED BY Zenon, <1>2, <1>4, <1>5, <1>7, <1>8 DEF CacheInv

LEMMA ImportKeeps ==
  ASSUME CacheInv, NEW c \in Imports, Import(c)
  PROVE  CacheInv'
<1>1. TypeOK /\ StageSound(c) /\ Seen(c)
  BY Zenon DEF CacheInv
<1>2. /\ pc[c] \in Steps /\ pc = [pc EXCEPT ![c] = pc[c]]
      /\ res[c] \in Success \cup {None, "refused", "ok"} /\ res = [res EXCEPT ![c] = res[c]]
      /\ stage[c] \in Dirs \cup {None} /\ stage = [stage EXCEPT ![c] = stage[c]]
      /\ named \in BOOLEAN /\ faults \in 0..MaxFaults
      /\ pc[c] \in {"copy", "seal", "rename", "verify", "clean", "drop"} => stage[c] # None
  BY <1>1 DEF TypeOK
<1>3. pc[c] # "end" => res[c] = None
  BY DEF CacheInv
<1>4. Fault \/ NoFault => faults' \in 0..MaxFaults
  BY <1>2, FaultsBounded DEF Fault, NoFault
<1>5. /\ \A v : pc' = [pc EXCEPT ![c] = v] => pc'[c] = v
      /\ \A v : res' = [res EXCEPT ![c] = v] => res'[c] = v
      /\ \A v : stage' = [stage EXCEPT ![c] = v] => stage'[c] = v
  BY <1>1 DEF TypeOK
<1>6. /\ None \notin Success /\ None # "ok" /\ None # "refused"
      /\ "refused" \notin Success \cup {"ok"} /\ None \notin Dirs
  BY NoneApart DEF Success
<1>7. entry # None /\ Complete(entry) => late = None
  BY DEF CacheInv, EntrySound, Complete, verify_cached_files
<1> USE DEF Goto, Report, Stage
<1>a1. CASE SourcePackage(c)
  <2>1. MovesOnly(c)
    BY <1>2, <1>4, <1>5, <1>6, <1>a1 DEF SourcePackage, MovesOnly, Steps, Success
  <2>2. StageSound(c)' /\ Seen(c)'
    BY <1>1, <1>2, <1>3, <1>5, <1>6, <1>a1 DEF SourcePackage, StageSound, Seen
  <2>3. /\ late # None /\ c \in late => res'[c] \notin Success \cup {"ok"}
        /\ pc'[c] # "end" => res'[c] = None
    BY <1>1, <1>3, <1>5, <1>6, <1>a1 DEF SourcePackage, Seen
  <2> QED BY Zenon, <2>1, <2>2, <2>3, MoveKeeps
<1>a2. CASE create_staging(c)
  <2>1. MovesOnly(c)
    BY Zenon, <1>2, <1>4, <1>5, <1>6, NewDirType, <1>a2 DEF NewDir, PartSound, create_staging, MovesOnly, Steps, Success
  <2>2. StageSound(c)' /\ Seen(c)'
    BY <1>1, <1>2, <1>3, <1>5, <1>6, NewDirType, <1>a2 DEF NewDir, PartSound, create_staging, StageSound, Seen
  <2>3. /\ late # None /\ c \in late => res'[c] \notin Success \cup {"ok"}
        /\ pc'[c] # "end" => res'[c] = None
    BY <1>1, <1>3, <1>5, <1>6, <1>a2 DEF create_staging, Seen
  <2> QED BY Zenon, <2>1, <2>2, <2>3, MoveKeeps
<1>a3. CASE populate_staging(c)
  <2>0. PICK f \in Uncopied(c), read \in Bytes :
              IF copy_and_verify(read)
              THEN /\ Stage(c, [stage[c] EXCEPT !.files[f] = read, !.synced = @ \cup {f}])
                   /\ UNCHANGED pc
              ELSE Goto(c, "drop") /\ UNCHANGED stage
    BY Zenon, <1>a3 DEF populate_staging
  <2>a. f \in Files /\ stage[c] \in Dirs /\ PartSound(stage[c]) /\ pc[c] = "copy"
    BY <1>1, <1>2, <1>a3 DEF populate_staging, Uncopied, StageSound
  <2> DEFINE new == [stage[c] EXCEPT !.files[f] = "declared", !.synced = @ \cup {f}]
  <2>b. new \in Dirs /\ PartSound(new)
    BY Zenon, <2>a, CopyUpdate
  <2>c. \/ pc' = pc /\ stage' = [stage EXCEPT ![c] = new]
        \/ pc' = [pc EXCEPT ![c] = "drop"] /\ stage' = stage
    BY Zenon, <2>0 DEF copy_and_verify
  <2>d. NoFault /\ UNCHANGED <<entry, named, res, late>>
    BY Zenon, <1>a3 DEF populate_staging
  <2> HIDE DEF new
  <2>1. MovesOnly(c)
    BY <1>2, <1>4, <1>5, <1>6, <2>a, <2>b, <2>c, <2>d DEF MovesOnly, Steps, Success
  <2>2. StageSound(c)' /\ Seen(c)'
    BY <1>1, <1>2, <1>3, <1>5, <1>6, <2>a, <2>b, <2>c, <2>d DEF StageSound, Seen
  <2>3. /\ late # None /\ c \in late => res'[c] \notin Success \cup {"ok"}
        /\ pc'[c] # "end" => res'[c] = None
    BY <1>1, <1>3, <1>5, <1>6, <1>a3 DEF populate_staging, Seen
  <2> QED BY Zenon, <2>1, <2>2, <2>3, MoveKeeps
<1>a4. CASE WriteManifest(c)
  <2>a. stage[c] \in Dirs
    BY <1>2, <1>a4 DEF WriteManifest
  <2> DEFINE new == [stage[c] EXCEPT !.man = TRUE]
  <2>b. /\ new \in Dirs /\ new.man
        /\ new.files = stage[c].files /\ new.synced = stage[c].synced /\ new.sealed = stage[c].sealed
    BY Zenon, <2>a, FlagUpdates DEF Dirs
  <2>c. /\ pc[c] = "copy" /\ pc' = [pc EXCEPT ![c] = "seal"] /\ stage' = [stage EXCEPT ![c] = new]
        /\ NoFault /\ UNCHANGED <<entry, named, res, late>>
    BY Zenon, <1>a4 DEF WriteManifest
  <2> HIDE DEF new
  <2>1. MovesOnly(c)
    BY ZenonT(60), <1>2, <1>4, <1>5, <1>6, <2>b, <2>c DEF MovesOnly, Steps, Success
  <2>e. Copied(new)
    BY SMTT(60), <1>1, <2>a, <2>b, <2>c, <1>a4 DEF WriteManifest, Uncopied, StageSound, PartSound, Copied, Dirs
  <2>2. StageSound(c)' /\ Seen(c)'
    BY Zenon, <1>1, <1>2, <1>3, <1>5, <1>6, <2>b, <2>c, <2>e DEF StageSound, Seen
  <2>3. /\ late # None /\ c \in late => res'[c] \notin Success \cup {"ok"}
        /\ pc'[c] # "end" => res'[c] = None
    BY <1>1, <1>3, <1>5, <1>6, <1>a4 DEF WriteManifest, Seen
  <2> QED BY Zenon, <2>1, <2>2, <2>3, MoveKeeps
<1>a5. CASE seal_staging(c)
  <2>a. stage[c] \in Dirs
    BY <1>2, <1>a5 DEF seal_staging
  <2> DEFINE new == [stage[c] EXCEPT !.sealed = TRUE]
  <2>b. /\ new \in Dirs /\ new.sealed
        /\ new.files = stage[c].files /\ new.synced = stage[c].synced /\ new.man = stage[c].man
    BY Zenon, <2>a, FlagUpdates DEF Dirs
  <2>c. /\ pc[c] = "seal" /\ pc' = [pc EXCEPT ![c] = "rename"] /\ stage' = [stage EXCEPT ![c] = new]
        /\ NoFault /\ UNCHANGED <<entry, named, res, late>>
    BY Zenon, <1>a5 DEF seal_staging
  <2> HIDE DEF new
  <2>1. MovesOnly(c)
    BY ZenonT(60), <1>2, <1>4, <1>5, <1>6, <2>b, <2>c DEF MovesOnly, Steps, Success
  <2>e. Copied(new)
    BY <1>1, <2>b, <2>c DEF StageSound, Copied
  <2>2. StageSound(c)' /\ Seen(c)'
    BY Zenon, <1>1, <1>2, <1>3, <1>5, <1>6, <2>b, <2>c, <2>e DEF StageSound, Seen
  <2>3. /\ late # None /\ c \in late => res'[c] \notin Success \cup {"ok"}
        /\ pc'[c] # "end" => res'[c] = None
    BY <1>1, <1>3, <1>5, <1>6, <1>a5 DEF seal_staging, Seen
  <2> QED BY Zenon, <2>1, <2>2, <2>3, MoveKeeps
<1>a6. CASE rename_no_replace(c)
  <2>0. CASE entry # None
    <3>1. MovesOnly(c)
      BY <2>0, <1>2, <1>4, <1>5, <1>6, <1>a6 DEF rename_no_replace, MovesOnly, Steps, Success
    <3>2. StageSound(c)' /\ Seen(c)'
      BY <2>0, <1>1, <1>2, <1>3, <1>5, <1>6, <1>a6 DEF rename_no_replace, StageSound, Seen
    <3>3. /\ late # None /\ c \in late => res'[c] \notin Success \cup {"ok"}
          /\ pc'[c] # "end" => res'[c] = None
      BY <2>0, <1>1, <1>3, <1>5, <1>6, <1>a6 DEF rename_no_replace, Seen
    <3> QED BY Zenon, <3>1, <3>2, <3>3, MoveKeeps
  <2>1. CASE entry = None
    <3>0. /\ pc[c] = "rename" /\ entry' = stage[c] /\ entry' \in Dirs /\ entry' # None
          /\ named' = FALSE /\ NoFault /\ UNCHANGED <<res, late>>
          /\ stage' = [stage EXCEPT ![c] = None] /\ pc' = [pc EXCEPT ![c] = "sync"]
      BY <2>1, <1>2, <1>a6 DEF rename_no_replace
    <3>1. TypeOK'
      BY Zenon, <1>1, <1>2, <1>4, <3>0 DEF TypeOK, Steps
    <3>2. late = None /\ late' = None
      BY <2>1, <3>0 DEF CacheInv
    <3>3. ASSUME NEW a \in Imports PROVE (StageSound(a) /\ Seen(a))'
      <4>1. a # c => pc'[a] = pc[a] /\ stage'[a] = stage[a]
        BY <1>1, <3>0 DEF TypeOK
      <4>2. StageSound(a) /\ Seen(a)
        BY Zenon DEF CacheInv
      <4> QED BY Zenon, <1>5, <2>1, <3>0, <3>2, <4>1, <4>2 DEF StageSound, Seen
    <3>4. EntrySound'
      BY <1>1, <3>0, <3>2 DEF EntrySound, StageSound, Copied
    <3>5. (\A a \in Imports \cup Readers : pc[a] # "end" => res[a] = None)'
      BY <1>1, <1>3, <3>0 DEF TypeOK, CacheInv
    <3> QED BY Zenon, <3>1, <3>2, <3>3, <3>4, <3>5 DEF CacheInv, DamageRefused
  <2> QED BY Zenon, <2>0, <2>1
<1>a7. CASE VerifyExisting(c)
  <2>1. MovesOnly(c)
    BY Zenon, <1>2, <1>4, <1>5, <1>6, <1>7, <1>a7 DEF VerifyExisting, MovesOnly, Steps, Success
  <2>2. StageSound(c)' /\ Seen(c)'
    BY <1>1, <1>2, <1>3, <1>5, <1>6, <1>7, <1>a7 DEF VerifyExisting, StageSound, Seen
  <2>3. /\ late # None /\ c \in late => res'[c] \notin Success \cup {"ok"}
        /\ pc'[c] # "end" => res'[c] = None
    BY <1>1, <1>3, <1>5, <1>6, <1>a7 DEF VerifyExisting, Seen
  <2> QED BY Zenon, <2>1, <2>2, <2>3, MoveKeeps
<1>a8. CASE CleanStaging(c)
  <2>1. MovesOnly(c)
    BY Zenon, <1>2, <1>4, <1>5, <1>6, <1>a8 DEF CleanStaging, MovesOnly, Steps, Success
  <2>2. StageSound(c)' /\ Seen(c)'
    BY Zenon, <1>1, <1>2, <1>3, <1>5, <1>6, <1>a8 DEF CleanStaging, StageSound, Seen
  <2>3. /\ late # None /\ c \in late => res'[c] \notin Success \cup {"ok"}
        /\ pc'[c] # "end" => res'[c] = None
    BY <1>1, <1>3, <1>5, <1>6, <1>a8 DEF CleanStaging, Seen
  <2> QED BY Zenon, <2>1, <2>2, <2>3, MoveKeeps
<1>a9. CASE SyncEntry(c)
  <2>a. entry # None /\ stage[c] = None /\ (late # None => c \notin late)
    BY <1>1, <1>a9 DEF SyncEntry, Seen, StageSound
  <2>b. named' = TRUE
    BY Zenon, <2>a, <1>a9 DEF SyncEntry
  <2>1. MovesOnly(c)
    BY Zenon, <1>2, <1>4, <1>5, <1>6, <2>a, <2>b, <1>a9 DEF SyncEntry, MovesOnly, Steps, Success
  <2>2. StageSound(c)' /\ Seen(c)'
    BY <1>1, <1>2, <1>3, <1>5, <1>6, <2>a, <2>b, <1>a9 DEF SyncEntry, StageSound, Seen
  <2>3. /\ late # None /\ c \in late => res'[c] \notin Success \cup {"ok"}
        /\ pc'[c] # "end" => res'[c] = None
    BY Zenon, <1>1, <1>3, <1>5, <1>6, <2>a, <1>a9 DEF SyncEntry, Seen
  <2> QED BY Zenon, <2>1, <2>2, <2>3, MoveKeeps
<1>a10. CASE ImportFails(c)
  <2>1. MovesOnly(c)
    BY <1>2, <1>4, <1>5, <1>6, <1>a10 DEF ImportFails, MovesOnly, Steps, Success
  <2>2. StageSound(c)' /\ Seen(c)'
    BY <1>1, <1>2, <1>3, <1>5, <1>6, <1>a10 DEF ImportFails, StageSound, Seen
  <2>3. /\ late # None /\ c \in late => res'[c] \notin Success \cup {"ok"}
        /\ pc'[c] # "end" => res'[c] = None
    BY <1>1, <1>3, <1>5, <1>6, <1>a10 DEF ImportFails, Seen
  <2> QED BY Zenon, <2>1, <2>2, <2>3, MoveKeeps
<1>a11. CASE DropStaging(c)
  <2>1. MovesOnly(c)
    BY Zenon, <1>2, <1>4, <1>5, <1>6, <1>a11 DEF DropStaging, MovesOnly, Steps, Success
  <2>2. StageSound(c)' /\ Seen(c)'
    BY <1>1, <1>2, <1>3, <1>5, <1>6, <1>a11 DEF DropStaging, StageSound, Seen
  <2>3. /\ late # None /\ c \in late => res'[c] \notin Success \cup {"ok"}
        /\ pc'[c] # "end" => res'[c] = None
    BY Zenon, <1>1, <1>3, <1>5, <1>6, <1>a11 DEF DropStaging, Seen
  <2> QED BY Zenon, <2>1, <2>2, <2>3, MoveKeeps
<1>a12. CASE Kill(c)
  <2>1. MovesOnly(c)
    BY Zenon, <1>2, <1>4, <1>5, <1>6, <1>a12 DEF Kill, MovesOnly, Steps, Success
  <2>2. StageSound(c)' /\ Seen(c)'
    BY <1>1, <1>2, <1>3, <1>5, <1>6, <1>a12 DEF Kill, StageSound, Seen
  <2>3. /\ late # None /\ c \in late => res'[c] \notin Success \cup {"ok"}
        /\ pc'[c] # "end" => res'[c] = None
    BY <1>1, <1>3, <1>5, <1>6, <1>a12 DEF Kill, Seen
  <2> QED BY Zenon, <2>1, <2>2, <2>3, MoveKeeps
<1> QED BY Zenon, <1>a1, <1>a2, <1>a3, <1>a4, <1>a5, <1>a6, <1>a7, <1>a8, <1>a9, <1>a10, <1>a11, <1>a12 DEF Import

--------------------------------------------------------------------------------
(* The steps of the world *)

LEMMA ReaderKeeps ==
  ASSUME CacheInv, NEW r \in Readers, resolve(r)
  PROVE  CacheInv'
<1>1. TypeOK
  BY DEF CacheInv
<1>2. /\ pc[r] = "start" /\ pc' = [pc EXCEPT ![r] = "end"]
      /\ UNCHANGED <<stage, entry, named, late, faults>>
  BY Zenon DEF resolve, Report, Goto, NoFault
<1>3. PICK v \in {"ok", "refused"} : res' = [res EXCEPT ![r] = v] /\ (v = "ok" => late = None)
  <2>1. entry # None /\ Complete(entry) => late = None
    BY DEF CacheInv, EntrySound, Complete, verify_cached_files
  <2> QED BY Zenon, <2>1 DEF resolve, Report
<1>4. TypeOK'
  BY <1>1, <1>2, <1>3 DEF TypeOK, Steps
<1>5. ASSUME NEW a \in Imports PROVE (StageSound(a) /\ Seen(a))'
  <2>1. pc'[a] = IF a = r THEN "end" ELSE pc[a]
    BY <1>1, <1>2 DEF TypeOK
  <2>2. res'[a] = IF a = r THEN v ELSE res[a]
    BY <1>1, <1>3 DEF TypeOK
  <2>3. StageSound(a) /\ Seen(a)
    BY Zenon DEF CacheInv
  <2> QED BY <1>2, <2>1, <2>2, <2>3 DEF StageSound, Seen, Success
<1>6. (EntrySound /\ (late # None => entry # None))'
  BY <1>2 DEF CacheInv, EntrySound
<1>7. ASSUME late # None, NEW a \in late PROVE res'[a] \notin Success \cup {"ok"}
  <2>0. late \in SUBSET (Imports \cup Readers)
    BY Zenon, <1>1, <1>7 DEF TypeOK
  <2>1. a \in Imports \cup Readers
    BY Zenon, <1>7, <2>0
  <2>2. res'[a] = IF a = r THEN v ELSE res[a]
    BY <1>1, <1>3, <2>1 DEF TypeOK
  <2>3. res[a] \notin Success \cup {"ok"}
    BY Zenon, <1>7 DEF CacheInv, DamageRefused
  <2> QED BY <1>3, <1>7, <2>2, <2>3 DEF Success
<1>8. DamageRefused'
  BY Zenon, <1>2, <1>7 DEF DamageRefused
<1>9. (\A a \in Imports \cup Readers : pc[a] # "end" => res[a] = None)'
  BY <1>1, <1>2, <1>3 DEF TypeOK, CacheInv
<1> QED BY Zenon, <1>4, <1>5, <1>6, <1>8, <1>9 DEF CacheInv

\* A power loss ends every call, so only what was reported is left to show.
LEMMA PowerLossKeeps ==
  ASSUME CacheInv, PowerLoss
  PROVE  CacheInv'
<1>1. TypeOK
  BY DEF CacheInv
<1>2. /\ pc' = [a \in Imports \cup Readers |-> IF pc[a] = "start" THEN "start" ELSE "end"]
      /\ UNCHANGED <<stage, res>> /\ late' = (IF entry' = None THEN None ELSE late)
      /\ faults' \in 0..MaxFaults
  BY <1>1, FaultsBounded DEF PowerLoss, Fault, TypeOK
<1>3. \A a \in Imports \cup Readers : pc'[a] \in {"start", "end"} /\ (pc'[a] = "start" => pc[a] = "start")
  BY <1>2
<1>4. /\ entry' \in Dirs \cup {None} /\ named' \in BOOLEAN /\ EntrySound'
      /\ entry # None /\ named => entry' # None /\ named'
  <2>1. CASE entry # None /\ named' = TRUE /\
             \E lost \in SUBSET Files, b \in {"other", "missing"} :
               /\ entry.sealed => lost \cap entry.synced = {}
               /\ entry' = [entry EXCEPT !.files = [f \in Files |-> IF f \in lost THEN b ELSE @[f]]]
    <3>1. entry \in Dirs
      BY Zenon, <1>1, <2>1 DEF TypeOK
    <3>2. PICK lost \in SUBSET Files, b \in {"other", "missing"} :
               /\ entry.sealed => lost \cap entry.synced = {}
               /\ entry' = [entry EXCEPT !.files = [f \in Files |-> IF f \in lost THEN b ELSE @[f]]]
      BY Zenon, <2>1
    <3>a. entry' = Lose(entry, lost, b)
      BY Zenon, <3>2 DEF Lose
    <3>b. LostOnly(entry', entry, lost)
      BY <3>1, <3>a, LossUpdate
    <3>3. /\ entry' \in Dirs
          /\ entry'.man = entry.man /\ entry'.sealed = entry.sealed /\ entry'.synced = entry.synced
          /\ \A f \in Files \ lost : entry'.files[f] = entry.files[f]
      BY Zenon, <3>b DEF LostOnly
    <3>4. entry' # None
      BY Zenon, <3>3, NoneApart
    <3>5. entry.man /\ entry.sealed /\ entry.synced = Files
      BY Zenon, <2>1 DEF CacheInv, EntrySound
    <3>6. \A f \in Files : entry'.files[f] = entry.files[f]
      BY <3>2, <3>3, <3>5
    <3>7. EntrySound'
      BY <1>2, <2>1, <3>3, <3>4, <3>5, <3>6 DEF CacheInv, EntrySound
    <3> QED BY Zenon, <2>1, <3>3, <3>4, <3>7
  <2>2. CASE ~named /\ entry' = None /\ named' = named
    BY <1>1, <2>2 DEF TypeOK, EntrySound
  <2> QED BY Zenon, <2>1, <2>2 DEF PowerLoss
<1>5. TypeOK'
  <2>1. pc' \in [Imports \cup Readers -> Steps]
    BY <1>1, <1>2 DEF TypeOK, Steps
  <2>2. late' \in (SUBSET (Imports \cup Readers)) \cup {None}
    BY Zenon, <1>1, <1>2 DEF TypeOK
  <2>3. \A c \in Imports : pc'[c] \notin {"copy", "seal", "rename", "verify", "clean", "drop"}
    BY <1>3
  <2>4. stage' \in [Imports -> Dirs \cup {None}]
        /\ res' \in [Imports \cup Readers -> Success \cup {None, "refused", "ok"}]
    BY Zenon, <1>1, <1>2 DEF TypeOK
  <2> QED BY Zenon, <1>2, <1>4, <2>1, <2>2, <2>3, <2>4 DEF TypeOK
<1>6. ASSUME NEW c \in Imports PROVE (StageSound(c) /\ Seen(c))'
  <2>1. StageSound(c) /\ Seen(c)
    BY Zenon DEF CacheInv
  <2>2. pc'[c] \in {"start", "end"}
    BY <1>3
  <2> QED BY <1>2, <1>4, <2>1, <2>2 DEF StageSound, Seen
<1>7. (late # None => entry # None)'
  BY <1>2
<1>8. DamageRefused'
  BY <1>2 DEF CacheInv, DamageRefused
<1>9. (\A a \in Imports \cup Readers : pc[a] # "end" => res[a] = None)'
  BY <1>2, <1>3 DEF CacheInv
<1> QED BY Zenon, <1>4, <1>5, <1>6, <1>7, <1>8, <1>9 DEF CacheInv

LEMMA DamageKeeps ==
  ASSUME CacheInv, Damage
  PROVE  CacheInv'
<1>1. TypeOK /\ EntrySound
  BY DEF CacheInv
<1>2. /\ entry # None /\ entry \in Dirs /\ late = None /\ UNCHANGED <<stage, named, pc, res>>
      /\ late' = {a \in Imports \cup Readers : pc[a] = "start"} /\ faults' \in 0..MaxFaults
  BY <1>1, FaultsBounded DEF Damage, Fault, TypeOK
<1>3. late' \in SUBSET (Imports \cup Readers) /\ late' # None
  <2>1. late' \in SUBSET (Imports \cup Readers)
    BY <1>2
  <2> QED BY Zenon, <2>1, NoneApart
<1>4. PICK f \in Files, b \in {"other", "missing"} : entry' = [entry EXCEPT !.files[f] = b]
  BY Zenon DEF Damage
<1>5. entry' \in Dirs /\ entry' # None
  <2>1. entry.files \in [Files -> Bytes]
    BY <1>2 DEF Dirs
  <2>2. [entry.files EXCEPT ![f] = b] \in [Files -> Bytes]
    BY <2>1 DEF Bytes
  <2>3. entry' = [entry EXCEPT !.files = [entry.files EXCEPT ![f] = b]]
    BY Zenon, <1>2, <1>4 DEF Dirs
  <2>4. entry' \in Dirs
    BY Zenon, <1>2, <2>2, <2>3 DEF Dirs
  <2> QED BY Zenon, <2>4, NoneApart
<1>6. EntrySound'
  <2>1. entry.files \in [Files -> Bytes]
    BY <1>2 DEF Dirs
  <2>2. entry'.files[f] # "declared"
    BY <1>2, <1>4, <2>1 DEF Dirs
  <2>3. entry'.man = entry.man /\ entry'.sealed = entry.sealed /\ entry'.synced = entry.synced
    BY Zenon, <1>2, <1>4 DEF Dirs
  <2> QED BY <1>1, <1>2, <1>3, <2>2, <2>3 DEF EntrySound
<1>7. TypeOK'
  BY Zenon, <1>1, <1>2, <1>3, <1>5 DEF TypeOK
<1>8. \A a \in late' : pc[a] = "start" /\ res[a] = None
  BY <1>2 DEF CacheInv
<1>9. \A c \in Imports : (StageSound(c) /\ Seen(c))'
  <2> SUFFICES ASSUME NEW c \in Imports PROVE (StageSound(c) /\ Seen(c))'
    OBVIOUS
  <2>1. StageSound(c) /\ Seen(c)
    BY Zenon DEF CacheInv
  <2> QED BY <1>2, <1>5, <1>8, <2>1 DEF StageSound, Seen
<1>10. DamageRefused'
  BY <1>2, <1>8, NoneApart DEF DamageRefused
<1> QED BY Zenon, <1>2, <1>5, <1>6, <1>7, <1>9, <1>10 DEF CacheInv

--------------------------------------------------------------------------------
\* The invariant holds whatever imports, readers, faults, power losses and
\* damages come together.
THEOREM CacheInvariant == Spec => []CacheInv
<1>1. Init => CacheInv
  <2> SUFFICES ASSUME Init PROVE CacheInv
    OBVIOUS
  <2>1. TypeOK
    <3>1. /\ stage \in [Imports -> Dirs \cup {None}] /\ entry \in Dirs \cup {None}
          /\ res \in [Imports \cup Readers -> Success \cup {None, "refused", "ok"}]
      BY Zenon DEF Init
    <3>2. pc \in [Imports \cup Readers -> Steps] /\ faults \in 0..MaxFaults
      BY FaultsBounded DEF Init, Steps
    <3>3. named \in BOOLEAN /\ late \in (SUBSET (Imports \cup Readers)) \cup {None}
      BY Zenon DEF Init
    <3>4. \A c \in Imports : pc[c] = "start"
      BY DEF Init
    <3> QED BY <3>1, <3>2, <3>3, <3>4 DEF TypeOK
  <2>2. \A c \in Imports : StageSound(c) /\ Seen(c)
    BY NoneApart DEF Init, StageSound, Seen
  <2> QED BY <2>1, <2>2 DEF Init, CacheInv, EntrySound, DamageRefused
<1>2. CacheInv /\ [Next]_vars => CacheInv'
  <2> SUFFICES ASSUME CacheInv, [Next]_vars PROVE CacheInv'
    OBVIOUS
  <2>1. CASE UNCHANGED vars
    BY Zenon, <2>1 DEF vars, CacheInv, TypeOK, StageSound, Seen, EntrySound, DamageRefused
  <2> QED BY Zenon, <2>1, ImportKeeps, ReaderKeeps, PowerLossKeeps, DamageKeeps DEF Next
<1> QED BY <1>1, <1>2, PTL DEF Spec

\* The type invariant of the cache.
THEOREM CacheTypeCorrect == Spec => []TypeOK
<1>1. CacheInv => TypeOK
  BY DEF CacheInv
<1> QED BY <1>1, CacheInvariant, PTL

\* An entry that nothing has damaged is complete, also after a power loss:
\* files and directories are fsynced before rename_no_replace.
THEOREM EntriesAreComplete == Spec => []EntryComplete
<1>1. CacheInv => EntryComplete
  BY DEF CacheInv, EntrySound, EntryComplete, Complete, require_exact_cached_layout,
         verify_cached_files
<1> QED BY <1>1, CacheInvariant, PTL

\* A reported import is durable, whether it made the entry or found it.
THEOREM SuccessIsDurable == Spec => []SuccessDurable
<1>1. CacheInv => SuccessDurable
  BY DEF CacheInv, Seen, SuccessDurable
<1> QED BY <1>1, CacheInvariant, PTL

\* Neither import nor resolve, begun after the damage, accepts a damaged entry.
THEOREM DamageIsRefused == Spec => []DamageRefused
<1>1. CacheInv => DamageRefused
  BY DEF CacheInv
<1> QED BY <1>1, CacheInvariant, PTL

\* A successful import leaves no staging directory.
THEOREM SuccessIsTidy == Spec => []SuccessTidy
<1>1. CacheInv => SuccessTidy
  BY DEF CacheInv, Seen, SuccessTidy
<1> QED BY <1>1, CacheInvariant, PTL

\* No import replaces a visible entry (rename_no_replace).
THEOREM EntriesAreKept == Spec => EntryKept
<1>1. CacheInv /\ [Next]_vars => [entry # None /\ faults' = faults => entry' = entry]_vars
  <2> SUFFICES ASSUME CacheInv, Next, entry # None, faults' = faults PROVE entry' = entry
    OBVIOUS
  <2>1. ~Fault
    BY DEF Fault, CacheInv, TypeOK
  <2>2. ASSUME NEW c \in Imports, Import(c) PROVE entry' = entry
    BY Zenon, <2>2 DEF Import, SourcePackage, create_staging, populate_staging, WriteManifest,
       seal_staging, rename_no_replace, VerifyExisting, CleanStaging, SyncEntry, ImportFails,
       DropStaging, Kill
  <2>3. ASSUME NEW r \in Readers, resolve(r) PROVE entry' = entry
    BY Zenon, <2>3 DEF resolve
  <2> QED BY Zenon, <2>1, <2>2, <2>3 DEF Next, PowerLoss, Damage
<1> QED BY <1>1, CacheInvariant, PTL DEF Spec, EntryKept
================================================================================

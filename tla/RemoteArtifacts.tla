---------------------------- MODULE RemoteArtifacts ----------------------------
(***************************************************************************)
(* The Remote Artifact store of                                            *)
(* daemon/src/adapters/outbound/remote_artifact_filesystem.rs: uploads in  *)
(* chunks, completed inputs that are handed to one task, managed outputs,  *)
(* per-principal quotas, expiry, and the records on disk from which the    *)
(* store is rebuilt after a crash.                                         *)
(*                                                                         *)
(* The store has ONE mutex, held for a whole operation, so operations are  *)
(* serial; `op` is the operation that holds it.  What interleaves are the  *)
(* file system steps of one operation with a crash, with the clock, with   *)
(* an I/O error, and with publish_output_file, which works outside the     *)
(* mutex until its last step.  Every file system call that changes the     *)
(* disk is a step of its own.  An I/O error may strike any of them; that a *)
(* second error strikes while the first one is undone is left out.         *)
(*                                                                         *)
(* A file is the sequence of its bytes; a SHA-256 digest is represented by *)
(* the content it was computed from.  An upload key is the pair <<client,  *)
(* clientArtifactId>>, so key[1] is the principal.                         *)
(***************************************************************************)
EXTENDS Naturals, FiniteSets, Sequences, SequencesExt, FiniteSetsExt

CONSTANTS
  Ids,          \* artifact ids new_uuid can return
  Keys,         \* upload keys <<principal, clientArtifactId>>
  Tokens,       \* ownership tokens of remote submissions
  Contents,     \* the contents (digests) a client may declare
  Byte,         \* the bytes of a chunk
  MaxSize,      \* max_artifact_bytes
  MaxChunk,     \* max_chunk_bytes
  MaxCount,     \* max_principal_artifacts
  MaxBytes,     \* max_principal_artifact_bytes
  MaxFaults,    \* bound: I/O errors in a behaviour
  MaxCrashes,   \* bound: crashes in a behaviour
  None

Principals == {k[1] : k \in Keys}
Dirs == {"staging", "completed", "task", "outputs", "tmp"}
Chunks == UNION {[1..n -> Byte] : n \in 1..MaxChunk}
Descriptors == [key : Keys, digest : Contents, size : 1..MaxSize]

VARIABLES
  up,         \* "up", "down", "opening" or "failed" (open returned an error)
  mem,        \* state.artifacts: the record of every id
  upload_keys,\* state.upload_keys
  quotas,     \* state.quotas
  files,      \* the data directories: directory -> id -> content or None
  records,    \* the record directory: id -> persisted record or None
  op,         \* the operation holding the mutex (or the load of `open`)
  pub,        \* publish_output_file calls in progress: id -> step
  token,      \* the remote backend's use of each ownership token
  expired,    \* ids whose expiry time has passed
  fresh,      \* ids not yet handed out by new_uuid
  faults, crashes,
  promised,   \* history: completed inputs and outputs whose response was sent
  got,        \* what a client has downloaded of each output so far
  taken,      \* history: id -> tokens whose submission was accepted with it
  transferCut    \* history: a crash has cut a transfer short

memory == <<mem, upload_keys, quotas>>
disk == <<files, records>>
bounds == <<faults, crashes>>
history == <<promised, taken, got, transferCut>>
vars == <<up, mem, upload_keys, quotas, files, records, op, pub, token,
          expired, fresh, faults, crashes, promised, taken, got, transferCut>>

Absent == [st |-> "none"]
Idle == [name |-> "idle"]
NoQuota == [count |-> 0, bytes |-> 0]

St(id) == mem[id].st
\* ArtifactRecord::path: the directory that holds the bytes of a record.
Dir(st) == CASE st = "uploading" -> "staging"
             [] st = "completed" -> "completed"
             [] st = "task" -> "task"
             [] st = "output" -> "outputs"

\* The states that count against a principal's upload quota.
Counted == {"uploading", "completed"}
\* ArtifactRecord::persisted: the states that have a record on disk.
Persisted == {"completed", "output"}

Due == {id \in Ids : St(id) \in Persisted /\ id \in expired}

(***************************************************************************)
(* Helpers shared by the operations.                                       *)
(***************************************************************************)
Put(d, id, c) == [files EXCEPT ![d][id] = c]
Delete(d, id) == Put(d, id, None)
Rename(from, to, id) ==
  [files EXCEPT ![to][id] = files[from][id], ![from][id] = None]

release_quota(q, p, size) ==
  [q EXCEPT ![p] = IF q[p].count <= 1 THEN NoQuota
                   ELSE [count |-> q[p].count - 1,
                         bytes |-> IF q[p].bytes < size THEN 0
                                   ELSE q[p].bytes - size]]

add_quota(q, p, size) ==
  [q EXCEPT ![p] = [count |-> q[p].count + 1, bytes |-> q[p].bytes + size]]

\* The disk image of a record (write_persisted_record).
persisted(r) == [st |-> r.st, owner |-> r.owner, key |-> r.key,
                 digest |-> r.digest, size |-> r.size]

\* The record directory after the record of id is written for r.
write_persisted_record(id, r) == [records EXCEPT ![id] = persisted(r)]

\* The memory rebuilt from a record on disk.
restore_persisted_record(r) ==
  [st |-> r.st, owner |-> r.owner, key |-> r.key, digest |-> r.digest,
   size |-> r.size, off |-> 0, task |-> None]

\* reset_directory for staging and task-inputs; prepare_directory keeps the
\* other directories as they are.
reset_directories ==
  [files EXCEPT !["staging"] = [id \in Ids |-> None], !["task"] = [id \in Ids |-> None]]

\* Dropping a record that came from an upload also drops its key and quota.
Forget(id) ==
  /\ mem' = [mem EXCEPT ![id] = Absent]
  /\ IF mem[id].key = None
     THEN UNCHANGED <<upload_keys, quotas>>
     ELSE /\ upload_keys' = [upload_keys EXCEPT ![mem[id].key] = None]
          /\ quotas' = release_quota(quotas, mem[id].owner, mem[id].size)

Fault == faults < MaxFaults /\ faults' = faults + 1
NoFault == UNCHANGED faults

Init ==
  /\ up = "up"
  /\ mem = [id \in Ids |-> Absent]
  /\ upload_keys = [k \in Keys |-> None]
  /\ quotas = [p \in Principals |-> NoQuota]
  /\ files = [d \in Dirs |-> [id \in Ids |-> None]]
  /\ records = [id \in Ids |-> None]
  /\ op = Idle
  /\ pub = [id \in Ids |-> "none"]
  /\ token = [t \in Tokens |-> "free"]
  /\ expired = {}
  /\ fresh = Ids
  /\ faults = 0 /\ crashes = 0
  /\ promised = {}
  /\ taken = [id \in Ids |-> {}]
  /\ got = [id \in Ids |-> <<>>]
  /\ transferCut = FALSE

\* The mutex is free, and purge_expired_locked has nothing left to remove:
\* every public operation but restore and cleanup purges before it acts.
Locked == up = "up" /\ op = Idle
Purged == Locked /\ Due = {}

(***************************************************************************)
(* Removing a persisted artifact: the record goes first, then the bytes,   *)
(* then the memory.  purge_expired_locked does it for every expired        *)
(* record, remove_upload_locked for an aborted completed input.  If the    *)
(* bytes cannot be removed the record is written back.                     *)
(***************************************************************************)
RemoveRecord(id) ==
  \/ /\ NoFault
     /\ records' = [records EXCEPT ![id] = None]
     /\ op' = [name |-> "remove", id |-> id]
     /\ promised' = promised \ {id}
  \/ Fault /\ UNCHANGED <<records, op, promised>>

Purge(id) ==
  /\ Locked /\ id \in Due
  /\ RemoveRecord(id)
  /\ UNCHANGED <<up, memory, files, pub, token, expired, fresh, crashes, taken, got, transferCut>>

AbortCompleted(id) ==
  /\ Purged /\ St(id) = "completed"
  /\ RemoveRecord(id)
  /\ UNCHANGED <<up, memory, files, pub, token, expired, fresh, crashes, taken, got, transferCut>>

RemoveBytes ==
  /\ op.name = "remove"
  /\ op' = Idle
  /\ LET id == op.id IN
     \/ /\ NoFault
        /\ files' = Delete(Dir(St(id)), id)
        /\ Forget(id)
        /\ UNCHANGED <<records, promised>>
     \/ /\ Fault
        /\ records' = write_persisted_record(id, mem[id])
        /\ promised' = promised \union {id}
        /\ UNCHANGED <<files, memory>>
  /\ UNCHANGED <<up, pub, token, expired, fresh, crashes, taken, got, transferCut>>

(***************************************************************************)
(* begin_upload.  An existing key returns its record or a conflict and     *)
(* changes nothing, so only a new key is a step.                           *)
(***************************************************************************)
validate_descriptor(d) == d.size <= MaxSize /\ d.size <= MaxBytes

QuotaAllows(p, size) ==
  /\ quotas[p].count + 1 <= MaxCount
  /\ quotas[p].bytes + size <= MaxBytes

begin_upload(d, id) ==
  /\ Purged
  /\ upload_keys[d.key] = None
  /\ validate_descriptor(d)
  /\ QuotaAllows(d.key[1], d.size)
  /\ id \in fresh
  /\ fresh' = fresh \ {id}
  /\ \/ /\ NoFault
        /\ files' = Put("staging", id, <<>>)
        /\ quotas' = add_quota(quotas, d.key[1], d.size)
        /\ upload_keys' = [upload_keys EXCEPT ![d.key] = id]
        /\ mem' = [mem EXCEPT ![id] =
             [st |-> "uploading", owner |-> d.key[1], key |-> d.key,
              digest |-> d.digest, size |-> d.size, off |-> 0, task |-> None]]
     \/ Fault /\ UNCHANGED <<files, memory>>
  /\ UNCHANGED <<up, records, op, pub, token, expired, crashes, history>>

(***************************************************************************)
(* upload_chunk at the current offset.  A lower offset only compares bytes *)
(* and a higher one is refused; neither changes anything.  A failed write  *)
(* may leave any prefix of the chunk in the file while next_offset stays.  *)
(***************************************************************************)
upload_chunk(id, bytes) ==
  /\ Purged
  /\ St(id) = "uploading"
  /\ mem[id].off + Len(bytes) <= mem[id].size
  /\ \/ /\ NoFault
        /\ files' = Put("staging", id, files["staging"][id] \o bytes)
        /\ mem' = [mem EXCEPT ![id].off = @ + Len(bytes)]
     \/ /\ Fault
        /\ \E n \in 0..Len(bytes) - 1 :
             files' = Put("staging", id, files["staging"][id] \o SubSeq(bytes, 1, n))
        /\ UNCHANGED mem
  /\ UNCHANGED <<up, upload_keys, quotas, records, op, pub, token, expired,
                 fresh, crashes, history>>

(***************************************************************************)
(* complete_upload: digest check, rename out of staging, then the record.  *)
(* A mismatch removes the upload.  An upload that is aborted before it     *)
(* completes has no record, so its bytes and memory go in one step.        *)
(***************************************************************************)
RemoveStaging(id) ==
  /\ files' = Delete("staging", id)
  /\ Forget(id)

abort_upload(id) ==
  /\ Purged /\ St(id) = "uploading"
  /\ \/ NoFault /\ RemoveStaging(id)
     \/ Fault /\ UNCHANGED <<files, memory>>
  /\ UNCHANGED <<up, records, op, pub, token, expired, fresh, crashes, history>>

\* Faulty complete_upload: the staged bytes are not hashed.
complete_upload_unchecked(id) ==
  /\ Purged /\ NoFault
  /\ St(id) = "uploading" /\ mem[id].off = mem[id].size
  /\ files' = Rename("staging", "completed", id)
  /\ op' = [name |-> "complete", id |-> id]
  /\ UNCHANGED <<up, memory, records, pub, token, expired, fresh, crashes, history>>

complete_upload(id) ==
  /\ Purged /\ St(id) = "uploading"
  /\ mem[id].off = mem[id].size
  /\ IF files["staging"][id] # mem[id].digest
     THEN /\ \/ NoFault /\ RemoveStaging(id)
             \/ Fault /\ UNCHANGED <<files, memory>>
          /\ UNCHANGED op
     ELSE /\ \/ /\ NoFault
                /\ files' = Rename("staging", "completed", id)
                /\ op' = [name |-> "complete", id |-> id]
             \/ Fault /\ UNCHANGED <<files, op>>
          /\ UNCHANGED memory
  /\ UNCHANGED <<up, records, pub, token, expired, fresh, crashes, history>>

\* Faulty CompleteRecord: the response is sent without a record on disk.
CompleteRecord_noRecord ==
  /\ op.name = "complete" /\ NoFault
  /\ op' = Idle
  /\ mem' = [mem EXCEPT ![op.id].st = "completed"]
  /\ promised' = promised \union {op.id}
  /\ UNCHANGED <<up, upload_keys, quotas, disk, pub, token, expired, fresh,
                 crashes, taken, got, transferCut>>

CompleteRecord ==
  /\ op.name = "complete"
  /\ op' = Idle
  /\ LET id == op.id
         done == [mem[id] EXCEPT !.st = "completed"] IN
     \/ /\ NoFault
        /\ records' = write_persisted_record(id, done)
        /\ mem' = [mem EXCEPT ![id] = done]
        /\ promised' = promised \union {id}
        /\ UNCHANGED files
     \/ /\ Fault
        /\ files' = Rename("completed", "staging", id)
        /\ UNCHANGED <<records, mem, promised>>
  /\ UNCHANGED <<up, upload_keys, quotas, pub, token, expired, fresh, crashes,
                 taken, got, transferCut>>

(***************************************************************************)
(* transfer_inputs: rename every input into task-inputs, then remove every *)
(* record, then change the memory; an error undoes the steps made so far.  *)
(***************************************************************************)
\* inspect_completed, by which submit looks at the inputs first, and the same
\* conditions again in transfer_inputs.
inspect_completed(p, ids) == \A id \in ids : St(id) = "completed" /\ mem[id].owner = p

transfer_inputs(p, t, ids) ==
  /\ Purged /\ token[t] = "free"
  /\ inspect_completed(p, ids)
  /\ op' = [name |-> "transfer", pc |-> "move", token |-> t, ids |-> ids, todo |-> ids]
  /\ promised' = promised \ ids
  /\ UNCHANGED <<up, memory, disk, pub, token, expired, fresh, bounds, taken, got, transferCut>>

\* The undo of a failed transfer: `out` are the inputs already renamed,
\* `bare` those whose record is already removed.
Undo(out, bare) ==
  /\ files' = [files EXCEPT
       !["completed"] = [id \in Ids |-> IF id \in out THEN files["task"][id] ELSE @[id]],
       !["task"] = [id \in Ids |-> IF id \in out THEN None ELSE @[id]]]
  /\ records' = [id \in Ids |-> IF id \in bare THEN persisted(mem[id]) ELSE records[id]]
  /\ promised' = promised \union op.ids
  /\ op' = Idle

TransferMove ==
  /\ op.name = "transfer" /\ op.pc = "move"
  /\ \E id \in op.todo :
       \/ /\ NoFault
          /\ files' = Rename("completed", "task", id)
          /\ op' = IF op.todo = {id} THEN [op EXCEPT !.pc = "record", !.todo = op.ids]
                   ELSE [op EXCEPT !.todo = @ \ {id}]
          /\ UNCHANGED <<records, promised>>
       \/ Fault /\ Undo(op.ids \ op.todo, {})
  /\ UNCHANGED <<up, memory, pub, token, expired, fresh, crashes, taken, got, transferCut>>

TransferRecord ==
  /\ op.name = "transfer" /\ op.pc = "record"
  /\ \E id \in op.todo :
       \/ /\ NoFault
          /\ records' = [records EXCEPT ![id] = None]
          /\ op' = IF op.todo = {id} THEN [op EXCEPT !.pc = "memory", !.todo = {}]
                   ELSE [op EXCEPT !.todo = @ \ {id}]
          /\ UNCHANGED <<files, promised>>
       \/ Fault /\ Undo(op.ids, op.ids \ op.todo)
  /\ UNCHANGED <<up, memory, pub, token, expired, fresh, crashes, taken, got, transferCut>>

ReleaseAll(q, ids) ==
  FoldSet(LAMBDA id, acc : release_quota(acc, mem[id].owner, mem[id].size), q, ids)

TransferMemory ==
  /\ op.name = "transfer" /\ op.pc = "memory"
  /\ upload_keys' = [k \in Keys |-> IF \E id \in op.ids : mem[id].key = k
                                    THEN None ELSE upload_keys[k]]
  /\ quotas' = ReleaseAll(quotas, op.ids)
  /\ mem' = [id \in Ids |-> IF id \in op.ids
                            THEN [mem[id] EXCEPT !.st = "task", !.task = op.token]
                            ELSE mem[id]]
  /\ token' = [token EXCEPT ![op.token] = "held"]
  /\ op' = Idle
  /\ UNCHANGED <<up, disk, pub, expired, fresh, bounds, history>>

Owned(t) == {id \in Ids : St(id) = "task" /\ mem[id].task = t}

(***************************************************************************)
(* What LocalProfileRemoteBackend::submit does with the inputs it holds:   *)
(* an accepted submission keeps them until the task is cleaned up, any     *)
(* other outcome restores them.                                            *)
(***************************************************************************)
\* The mutex is held by the loop of this operation over the inputs of t.
Holds(name, t) == op.name = name /\ op.token = t

Accept(t) ==
  /\ up = "up" /\ token[t] = "held"
  /\ ~ Holds("restore", t)
  /\ token' = [token EXCEPT ![t] = "accepted"]
  /\ taken' = [id \in Ids |-> IF id \in Owned(t) THEN taken[id] \union {t} ELSE taken[id]]
  /\ UNCHANGED <<up, memory, disk, op, pub, expired, fresh, bounds, promised, got, transferCut>>

(***************************************************************************)
(* restore_task_inputs: per input, rename back, write the record, then put *)
(* the quota and the key back WITHOUT looking at what they hold now.  An   *)
(* error stops the loop and makes the caller fail-stop the daemon.         *)
(***************************************************************************)
restore_task_inputs(t) ==
  /\ Locked \/ (Holds("restore", t) /\ op.id = None)
  /\ token[t] = "held"
  /\ \E id \in Owned(t) :
       \/ /\ NoFault
          /\ files' = Rename("task", "completed", id)
          /\ op' = [name |-> "restore", token |-> t, id |-> id]
          /\ UNCHANGED token
       \/ Fault /\ token' = [token EXCEPT ![t] = "failed"] /\ op' = Idle /\ UNCHANGED files
  /\ UNCHANGED <<up, memory, records, pub, expired, fresh, crashes, history>>

RestoreRecord ==
  /\ op.name = "restore" /\ op.id # None
  /\ LET id == op.id
         back == [mem[id] EXCEPT !.st = "completed", !.task = None]
         rest == Owned(op.token) \ {id} IN
     \/ /\ NoFault
        /\ records' = write_persisted_record(id, back)
        /\ quotas' = add_quota(quotas, mem[id].owner, mem[id].size)
        /\ upload_keys' = [upload_keys EXCEPT ![mem[id].key] = id]
        /\ mem' = [mem EXCEPT ![id] = back]
        /\ promised' = promised \union {id}
        /\ IF rest = {} THEN token' = [token EXCEPT ![op.token] = "free"] /\ op' = Idle
           ELSE op' = [op EXCEPT !.id = None] /\ UNCHANGED token
        /\ UNCHANGED files
     \/ /\ Fault
        /\ files' = Rename("completed", "task", id)
        /\ token' = [token EXCEPT ![op.token] = "failed"]
        /\ op' = Idle
        /\ UNCHANGED <<records, memory, promised>>
  /\ UNCHANGED <<up, pub, expired, fresh, crashes, taken, got, transferCut>>

(***************************************************************************)
(* cleanup_task_inputs: the memory goes first, then the bytes.             *)
(***************************************************************************)
cleanup_task_inputs(t) ==
  /\ Locked \/ Holds("cleanup", t)
  /\ token[t] = "accepted"
  /\ \E id \in Owned(t) :
       /\ mem' = [mem EXCEPT ![id] = Absent]
       /\ \/ /\ NoFault
             /\ files' = Delete("task", id)
             /\ IF Owned(t) = {id}
                THEN token' = [token EXCEPT ![t] = "done"] /\ op' = Idle
                ELSE op' = [name |-> "cleanup", token |-> t] /\ UNCHANGED token
          \/ /\ Fault /\ UNCHANGED files
             /\ token' = [token EXCEPT ![t] = "failed"] /\ op' = Idle
  /\ UNCHANGED <<up, upload_keys, quotas, records, pub, expired, fresh,
                 crashes, history>>

(***************************************************************************)
(* publish_output_file: copy to a temporary, check it against the declared *)
(* digest, rename, write the record; only then the mutex and the memory.   *)
(* pub[id] is the next step of the call that publishes id.                 *)
(***************************************************************************)
OutputRecord(p, c) ==
  [st |-> "output", owner |-> p, key |-> None, digest |-> c, size |-> Len(c),
   off |-> 0, task |-> None]

PublishCopy(id, copied) ==
  /\ up = "up" /\ id \in fresh
  /\ fresh' = fresh \ {id}
  /\ \/ NoFault /\ files' = Put("tmp", id, copied) /\ pub' = [pub EXCEPT ![id] = "check"]
     \/ Fault /\ UNCHANGED <<files, pub>>
  /\ UNCHANGED <<up, memory, records, op, token, expired, crashes, history>>

\* The copy is renamed when its bytes are the declared content c, and
\* removed when they are not.
PublishRename(id, c) ==
  /\ up = "up" /\ pub[id] = "check"
  /\ \/ /\ files["tmp"][id] = c /\ NoFault
        /\ files' = Rename("tmp", "outputs", id)
        /\ pub' = [pub EXCEPT ![id] = "record"]
     \/ /\ files["tmp"][id] # c /\ NoFault
        /\ files' = Delete("tmp", id)
        /\ pub' = [pub EXCEPT ![id] = "none"]
     \/ Fault /\ pub' = [pub EXCEPT ![id] = "none"] /\ UNCHANGED files
  /\ UNCHANGED <<up, memory, records, op, token, expired, fresh, crashes, history>>

PublishRecord(id, p) ==
  /\ up = "up" /\ pub[id] = "record"
  /\ \/ /\ NoFault
        /\ records' = write_persisted_record(id, OutputRecord(p, files["outputs"][id]))
        /\ pub' = [pub EXCEPT ![id] = "insert"]
        /\ UNCHANGED files
     \/ /\ Fault
        /\ files' = Delete("outputs", id)
        /\ pub' = [pub EXCEPT ![id] = "none"]
        /\ UNCHANGED records
  /\ UNCHANGED <<up, memory, op, token, expired, fresh, crashes, history>>

PublishInsert(id) ==
  /\ Locked /\ pub[id] = "insert"
  /\ mem' = [mem EXCEPT ![id] = OutputRecord(records[id].owner, records[id].digest)]
  /\ pub' = [pub EXCEPT ![id] = "none"]
  /\ promised' = promised \union {id}
  /\ UNCHANGED <<up, upload_keys, quotas, disk, op, token, expired, fresh,
                 bounds, taken, got, transferCut>>

(***************************************************************************)
(* read_output_chunk: a client that appends every chunk it is sent, asking *)
(* from the offset it has reached, over restarts of the daemon.            *)
(***************************************************************************)
read_output_chunk(id, max) ==
  /\ Purged /\ St(id) = "output" /\ files["outputs"][id] # None
  /\ LET offset == Len(got[id])
         remaining == mem[id].size - offset
         read_size == IF remaining < max THEN remaining ELSE max IN
     /\ remaining > 0
     /\ got' = [got EXCEPT ![id] =
          @ \o SubSeq(files["outputs"][id], offset + 1, offset + read_size)]
  /\ UNCHANGED <<up, memory, disk, op, pub, token, expired, fresh, bounds,
                 promised, taken, transferCut>>

(***************************************************************************)
(* The clock, a crash of the daemon at any step, and `open`.               *)
(***************************************************************************)
Expire(id) ==
  /\ id \notin expired
  /\ records[id] # None \/ St(id) = "task"
  /\ expired' = expired \union {id}
  /\ UNCHANGED <<up, memory, disk, op, pub, token, fresh, bounds, history>>

Crash ==
  /\ up \in {"up", "opening"} /\ crashes < MaxCrashes
  /\ crashes' = crashes + 1
  /\ up' = "down"
  /\ mem' = [id \in Ids |-> Absent]
  /\ upload_keys' = [k \in Keys |-> None]
  /\ quotas' = [p \in Principals |-> NoQuota]
  /\ op' = Idle
  /\ pub' = [id \in Ids |-> "none"]
  /\ token' = [t \in Tokens |-> IF token[t] = "free" THEN "free" ELSE "done"]
  /\ transferCut' = (transferCut \/ op.name = "transfer")
  /\ UNCHANGED <<disk, expired, fresh, faults, promised, taken, got>>

\* open: staging and task-inputs are emptied, then every record is loaded.
open ==
  /\ up \in {"down", "failed"}
  /\ up' = "opening"
  /\ files' = reset_directories
  /\ mem' = [id \in Ids |-> Absent]
  /\ upload_keys' = [k \in Keys |-> None]
  /\ quotas' = [p \in Principals |-> NoQuota]
  /\ op' = [name |-> "load", todo |-> {id \in Ids : records[id] # None}]
  /\ UNCHANGED <<records, pub, token, expired, fresh, bounds, history>>

\* validate_persisted_data: the bytes are there and are the declared ones.
validate_persisted_data(id) == files[Dir(records[id].st)][id] = records[id].digest

\* load_persisted_records for one record.  An expired one loses its bytes,
\* then its record; one whose bytes are missing or whose key is already
\* loaded makes open fail.
LoadRecord(id) ==
  /\ up = "opening" /\ op.name = "load" /\ id \in op.todo
  /\ LET r == records[id] IN
     \/ /\ id \in expired
        /\ IF files[Dir(r.st)][id] # None
           THEN files' = Delete(Dir(r.st), id) /\ UNCHANGED <<records, op, promised>>
           ELSE /\ records' = [records EXCEPT ![id] = None]
                /\ op' = [op EXCEPT !.todo = @ \ {id}]
                /\ promised' = promised \ {id}
                /\ UNCHANGED files
        /\ UNCHANGED <<up, memory>>
     \/ /\ id \notin expired
        /\ validate_persisted_data(id)
        /\ r.key # None => upload_keys[r.key] = None
        /\ mem' = [mem EXCEPT ![id] = restore_persisted_record(r)]
        /\ IF r.key = None
           THEN UNCHANGED <<upload_keys, quotas>>
           ELSE /\ upload_keys' = [upload_keys EXCEPT ![r.key] = id]
                /\ quotas' = add_quota(quotas, r.owner, r.size)
        /\ op' = [op EXCEPT !.todo = @ \ {id}]
        /\ UNCHANGED <<up, disk, promised>>
     \/ /\ id \notin expired
        /\ ~ validate_persisted_data(id) \/ (r.key # None /\ upload_keys[r.key] # None)
        /\ up' = "failed" /\ op' = Idle
        /\ mem' = [i \in Ids |-> Absent]
        /\ upload_keys' = [k \in Keys |-> None]
        /\ quotas' = [p \in Principals |-> NoQuota]
        /\ UNCHANGED <<disk, promised>>
  /\ UNCHANGED <<pub, token, expired, fresh, bounds, taken, got, transferCut>>

\* remove_orphan_artifacts, and the store is open.
remove_orphan_artifacts ==
  /\ up = "opening" /\ op.name = "load" /\ op.todo = {}
  /\ files' = [files EXCEPT
       !["completed"] = [id \in Ids |-> IF St(id) = "completed" THEN @[id] ELSE None],
       !["outputs"] = [id \in Ids |-> IF St(id) = "output" THEN @[id] ELSE None],
       !["tmp"] = [id \in Ids |-> None]]
  /\ up' = "up" /\ op' = Idle
  /\ UNCHANGED <<memory, records, pub, token, expired, fresh, bounds, history>>

Next ==
  \/ \E id \in Ids :
       \/ Purge(id) \/ AbortCompleted(id) \/ abort_upload(id) \/ complete_upload(id)
       \/ \E d \in Descriptors : begin_upload(d, id)
       \/ \E bytes \in Chunks : upload_chunk(id, bytes)
       \/ \E c \in Contents : PublishCopy(id, c) \/ PublishRename(id, c)
       \/ \E p \in Principals : PublishRecord(id, p)
       \/ \E max \in 1..MaxChunk : read_output_chunk(id, max)
       \/ PublishInsert(id) \/ Expire(id) \/ LoadRecord(id)
  \/ RemoveBytes \/ CompleteRecord
  \/ \E t \in Tokens :
       \/ \E p \in Principals, ids \in SUBSET Ids \ {{}} : transfer_inputs(p, t, ids)
       \/ Accept(t) \/ restore_task_inputs(t) \/ cleanup_task_inputs(t)
  \/ TransferMove \/ TransferRecord \/ TransferMemory \/ RestoreRecord
  \/ Crash \/ open \/ remove_orphan_artifacts

Spec == Init /\ [][Next]_vars

--------------------------------------------------------------------------------
(***************************************************************************)
(* Properties.                                                             *)
(***************************************************************************)
MemRecord ==
  [st : {"uploading", "completed", "task", "output"}, owner : Principals,
   key : Keys \union {None}, digest : Contents, size : 1..MaxSize,
   off : 0..MaxSize, task : Tokens \union {None}]

\* Every in-memory record, key, quota and file is of the shape the code keeps.
TypeOK ==
  /\ up \in {"up", "down", "opening", "failed"}
  /\ \A id \in Ids : mem[id] = Absent \/ mem[id] \in MemRecord
  /\ upload_keys \in [Keys -> Ids \union {None}]
  /\ quotas \in [Principals -> [count : 0..Cardinality(Ids), bytes : Nat]]
  /\ \A d \in Dirs, id \in Ids : files[d][id] = None \/ files[d][id] \in Seq(Byte)
  /\ fresh \subseteq Ids /\ expired \subseteq Ids /\ promised \subseteq Ids

\* The in-memory quota of a principal is exactly what its uploading and
\* completed inputs add up to: no begin, complete, abort, purge, transfer,
\* restore, failure path or restart leaks quota or gives it back twice.
QuotaExact ==
  up = "up" /\ op = Idle =>
    \A p \in Principals :
      LET mine == {id \in Ids : St(id) \in Counted /\ mem[id].owner = p} IN
      /\ quotas[p].count = Cardinality(mine)
      /\ quotas[p].bytes = MapThenSumSet(LAMBDA id : mem[id].size, mine)

\* An input a task can be given, and an output a client can download, has on
\* disk exactly the bytes its declared digest stands for and a record that
\* says so: no lost, duplicated, reordered or half-written chunk, and no
\* crash or I/O error, ever gets other bytes past complete_upload,
\* publish_output_file or open.
VerifiedBytes ==
  up = "up" /\ op = Idle =>
    \A id \in Ids : St(id) \in Persisted =>
      /\ files[Dir(St(id))][id] = mem[id].digest
      /\ Len(mem[id].digest) = mem[id].size
      /\ records[id] = persisted(mem[id])

\* What the daemon acknowledged survives restarts: a completed input or a
\* published output whose response was sent is there whenever the store is
\* open and idle, until it expires, is aborted or is handed to a submission.
AcknowledgedSurvives ==
  up = "up" /\ op = Idle => \A id \in promised : St(id) \in Persisted

\* A completed input is single-use: it is never part of two accepted
\* submissions, whatever transfers, restores, retries and restarts happen.
SingleUse == \A id \in Ids : Cardinality(taken[id]) <= 1

\* The bytes of an open store are all reachable from its memory: after a
\* restart no orphan of a cut-short operation stays on disk.  (An input whose
\* removal failed stays in task-inputs until the next restart, and a failed
\* rename leaves its temporary.)
NoOrphans ==
  up = "up" /\ op = Idle /\ faults = 0 /\ (\A id \in Ids : pub[id] = "none") =>
    \A d \in Dirs, id \in Ids : files[d][id] # None => mem[id] # Absent /\ Dir(St(id)) = d

\* A download in chunks of any sizes, over restarts, yields a prefix of the
\* published output and, once as long, exactly the output.
DownloadExact ==
  up = "up" /\ op = Idle =>
    \A id \in Ids : St(id) = "output" => IsPrefix(got[id], mem[id].digest)

\* A submission that holds inputs can use or restore them: until the tokens'
\* operation is over their bytes are in task-inputs.
HeldInputsPresent ==
  up = "up" /\ op = Idle =>
    \A t \in Tokens : token[t] \in {"held", "accepted"} =>
      \A id \in Owned(t) : files["task"][id] = mem[id].digest

\* open refuses to start for two reasons only: a crash cut a transfer short,
\* or two retained records carry one upload key.
FailedOpenHasCause ==
  up = "failed" =>
    \/ transferCut
    \/ \E i, j \in Ids : i # j /\ records[i] # None /\ records[j] # None
                         /\ records[i].key # None /\ records[i].key = records[j].key

\* open always succeeds: a restart finds a store it can load.
OpenSucceeds == up # "failed"

\* The key of an upload or of a completed input names it, so that a retried
\* begin_upload finds it.
KeyNamesArtifact ==
  up = "up" /\ op = Idle =>
    \A id \in Ids : St(id) \in Counted => upload_keys[mem[id].key] = id
================================================================================

------------------------------ MODULE LocalArtifacts ------------------------------
(***************************************************************************)
(* LocalArtifactStore (daemon/src/adapters/outbound/                       *)
(* artifact_filesystem.rs): a submission copies and verifies its input     *)
(* into a preflight directory, moves the snapshot into the staging         *)
(* directory of its task, and after the execution the one declared output  *)
(* is verified and moved to the published directory, or nothing is.        *)
(* Every file system call may fail and the daemon may crash between any    *)
(* two; the owner of the input file may rewrite it at any time.            *)
(***************************************************************************)
EXTENDS Naturals, Sequences

CONSTANTS
  Calls,      \* submissions; the task id of each is new (new_task_id)
  MaxFaults,  \* bound on failing file system calls
  None

Chunks == 2                                   \* reads a copy takes
Content(v) == [i \in 1..Chunks |-> v]
Declared == Content("declared")               \* what the descriptor's digest is of
Outputs == {"good", "large", "undeclared", "missing"}

VARIABLES
  source,   \* the caller's input file: a sequence of chunks
  pre,      \* submission -> its preflight directory: the bytes of source, or None
  staging,  \* submission -> the staging directory of its task: the bytes of
            \* its input (<<>> before they are there), or None
  out,      \* submission -> what the execution left in the output directory
  pub,      \* submission -> published directory: None, "empty" or "file"
  pc,       \* where each submission is
  made,     \* created_task_staging
  res,      \* what each submission has reported
  faults

vars == <<source, pre, staging, out, pub, pc, made, res, faults>>
disk == <<pre, staging, out, pub>>
Fault == faults < MaxFaults /\ faults' = faults + 1
NoFault == UNCHANGED faults

Init ==
  /\ source = Declared
  /\ pre = [c \in Calls |-> None]
  /\ staging = [c \in Calls |-> None]
  /\ out = [c \in Calls |-> "missing"]
  /\ pub = [c \in Calls |-> None]
  /\ pc = [c \in Calls |-> "start"]
  /\ made = [c \in Calls |-> FALSE]
  /\ res = [c \in Calls |-> None]
  /\ faults = 0

Goto(c, where) == pc' = [pc EXCEPT ![c] = where]
Report(c, what) == res' = [res EXCEPT ![c] = what] /\ Goto(c, "end")

\* The owner of the file writes something else into it, or the declared bytes.
Rewrite ==
  /\ \E v \in {"declared", "other"} : source' = Content(v) /\ source' # source
  /\ UNCHANGED <<disk, pc, made, res, faults>>

--------------------------------------------------------------------------------
(***************************************************************************)
(* stage_open_input                                                        *)
(***************************************************************************)
\* The bytes a submission has in its preflight directory.
Snapshot(c, bytes) == [pre EXCEPT ![c] = bytes]

\* open_input, and the layout: directories that are missing are created, the
\* preflight directory of the submission is always new.
Opened(c) ==
  /\ NoFault
  /\ pre' = Snapshot(c, <<>>)
  /\ Goto(c, "copy")
  /\ UNCHANGED res

\* A component of a path is missing, a link, or on another file system.
OpenFails(c) == Fault /\ Report(c, "refused") /\ UNCHANGED pre

stage_input(c) ==
  /\ pc[c] = "start"
  /\ Opened(c) \/ OpenFails(c)
  /\ UNCHANGED <<source, staging, out, pub, made>>

\* Faulty: the source is verified in place and then copied.
copy_and_verify_input_twice(c) ==
  /\ pc[c] = "copy"
  /\ LET read == Append(pre[c], source[Len(pre[c]) + 1])
     IN IF Len(pre[c]) = 0 /\ source # Declared
        THEN Goto(c, "undo") /\ UNCHANGED pre
        ELSE /\ pre' = [pre EXCEPT ![c] = read]
             /\ Goto(c, IF Len(read) < Chunks THEN "copy" ELSE "mkdir")
  /\ NoFault
  /\ UNCHANGED <<source, staging, out, pub, made, res>>

\* The digest is of the bytes that were copied.
copy_and_verify_input(c) ==
  /\ pc[c] = "copy"
  /\ LET read == Append(pre[c], source[Len(pre[c]) + 1])
     IN /\ pre' = Snapshot(c, read)
        /\ Goto(c, CASE Len(read) < Chunks -> "copy"
                     [] read = Declared -> "mkdir"
                     [] OTHER -> "undo")
  /\ NoFault
  /\ UNCHANGED <<source, staging, out, pub, made, res>>

CreateStaging(c) ==
  /\ pc[c] = "mkdir"
  /\ staging' = [staging EXCEPT ![c] = <<>>]
  /\ made' = [made EXCEPT ![c] = TRUE]
  /\ Goto(c, "move")
  /\ NoFault
  /\ UNCHANGED <<source, pre, out, pub, res>>

MoveSnapshot(c) ==
  /\ pc[c] = "move"
  /\ staging' = [staging EXCEPT ![c] = pre[c]]
  /\ pre' = [pre EXCEPT ![c] = <<>>]
  /\ Goto(c, "rmdir")
  /\ NoFault
  /\ UNCHANGED <<source, out, pub, made, res>>

\* The last fsync may fail with the directory gone.
RemovePreflight(c) ==
  /\ pc[c] = "rmdir"
  /\ pre' = [pre EXCEPT ![c] = None]
  /\ \/ NoFault /\ Goto(c, "staged")
     \/ Fault /\ Goto(c, "undo")
  /\ UNCHANGED <<source, staging, out, pub, made, res>>

StageFails(c) ==
  /\ pc[c] \in {"copy", "mkdir", "move", "rmdir"} /\ Fault
  /\ Goto(c, "undo")
  /\ UNCHANGED <<source, disk, made, res>>

\* Best effort: the error of the stage is reported either way.
StageUndo(c) ==
  /\ pc[c] = "undo"
  /\ \/ /\ NoFault
        /\ pre' = [pre EXCEPT ![c] = None]
        /\ staging' = IF made[c] THEN [staging EXCEPT ![c] = None] ELSE staging
     \/ Fault /\ UNCHANGED <<pre, staging>>
  /\ Report(c, "refused")
  /\ UNCHANGED <<source, out, pub, made>>

--------------------------------------------------------------------------------
(***************************************************************************)
(* The execution, then publish_for_profile or cleanup                      *)
(***************************************************************************)
Run(c) ==
  /\ pc[c] = "staged"
  /\ \E o \in Outputs : out' = [out EXCEPT ![c] = o]
  /\ \/ Goto(c, "publish") \/ Goto(c, "abandon")
  /\ NoFault
  /\ UNCHANGED <<source, pre, staging, pub, made, res>>

\* The staging directories hold the declared names and nothing else.
require_exact_children(o) == o \notin {"undeclared", "missing"}

\* The output is read to its end and stays within the maximum.
verify_output(o) == o # "large"

Check(c) ==
  /\ pc[c] = "publish"
  /\ Goto(c, IF require_exact_children(out[c]) /\ verify_output(out[c]) THEN "dest" ELSE "reject")
  /\ NoFault
  /\ UNCHANGED <<source, disk, made, res>>

CreateDestination(c) ==
  /\ pc[c] = "dest"
  /\ pub' = [pub EXCEPT ![c] = "empty"]
  /\ Goto(c, "rename")
  /\ NoFault
  /\ UNCHANGED <<source, pre, staging, out, made, res>>

\* An error before the rename: the output stays where it is.
PublishFails(c) ==
  /\ pc[c] \in {"publish", "dest"} /\ Fault
  /\ Goto(c, "reject")
  /\ UNCHANGED <<source, disk, made, res>>

\* A failing rename takes the empty destination away, if it can.
rename_no_replace(c) ==
  /\ pc[c] = "rename"
  /\ \/ NoFault /\ pub' = [pub EXCEPT ![c] = "file"] /\ Goto(c, "clean")
     \/ Fault /\ Goto(c, "reject") /\ pub' \in {pub, [pub EXCEPT ![c] = None]}
  /\ UNCHANGED <<source, pre, staging, out, made, res>>

Removed(c) == [staging EXCEPT ![c] = None]

\* The fsyncs and cleanup_staging; they may fail before or after the removal.
PublishCleanup(c) ==
  /\ pc[c] = "clean"
  /\ \/ NoFault /\ staging' = Removed(c) /\ Report(c, "published")
     \/ Fault /\ staging' \in {staging, Removed(c)} /\ Goto(c, "unpublish") /\ UNCHANGED res
  /\ UNCHANGED <<source, pre, out, pub, made>>

\* The rollback of a publication; its own errors are dropped.
Unpublish(c) ==
  /\ pc[c] = "unpublish"
  /\ \/ NoFault /\ pub' = [pub EXCEPT ![c] = None]
     \/ Fault /\ pub' \in {pub, [pub EXCEPT ![c] = "empty"]}
  /\ Goto(c, "reject")
  /\ UNCHANGED <<source, pre, staging, out, made, res>>

\* The rejection is only reported with the staging gone; else fail-stop, and the
\* drop of the staged task tries once more.
publish_for_profile(c) ==
  /\ pc[c] = "reject"
  /\ \/ NoFault /\ staging' = Removed(c) /\ Report(c, "rejected")
     \/ Fault /\ staging[c] # None /\ staging' \in {staging, Removed(c)} /\ Report(c, "failstop")
  /\ UNCHANGED <<source, pre, out, pub, made>>

cleanup(c) ==
  /\ pc[c] = "abandon"
  /\ \/ NoFault /\ staging' = Removed(c) /\ Report(c, "cleaned")
     \/ Fault /\ staging' \in {staging, Removed(c)} /\ Report(c, "failstop")
  /\ UNCHANGED <<source, pre, out, pub, made>>

\* A crash: whoever was under way is gone, the disk stays; open() keeps what
\* it finds.
Crash ==
  /\ Fault
  /\ pc' = [c \in Calls |-> IF pc[c] \in {"start", "end"} THEN pc[c] ELSE "dead"]
  /\ pc' # pc
  /\ UNCHANGED <<source, disk, made, res>>

Next ==
  \/ Rewrite \/ Crash
  \/ \E c \in Calls :
       \/ stage_input(c) \/ copy_and_verify_input(c) \/ CreateStaging(c)
       \/ MoveSnapshot(c) \/ RemovePreflight(c) \/ StageFails(c) \/ StageUndo(c)
       \/ Run(c) \/ Check(c) \/ CreateDestination(c) \/ PublishFails(c)
       \/ rename_no_replace(c) \/ PublishCleanup(c) \/ Unpublish(c)
       \/ publish_for_profile(c) \/ cleanup(c)

Spec == Init /\ [][Next]_vars

--------------------------------------------------------------------------------
\* Shapes; the reported outcome and the place of a submission go together.
TypeOK ==
  /\ \A c \in Calls : pre[c] = None \/ Len(pre[c]) <= Chunks
  /\ \A c \in Calls : pub[c] \in {None, "empty", "file"}
  /\ \A c \in Calls : (res[c] # None) = (pc[c] = "end")
  /\ \A c \in Calls : staging[c] # None => made[c]
  /\ faults <= MaxFaults

\* The snapshot an execution reads has the declared digest, however the source
\* is rewritten while it is verified and copied.
SnapshotDeclared == \A c \in Calls : staging[c] \notin {None, <<>>} => staging[c] = Declared

\* A result is reported only when the staging directory of the task is gone;
\* otherwise the store returns the error that leads to a fail-stop.
TerminalMeansClean ==
  \A c \in Calls : res[c] \in {"published", "rejected", "cleaned"} => staging[c] = None

\* The published directory never shows an output that was not verified, also
\* not after a crash in the middle of a publication.
PublishedVerified == \A c \in Calls : pub[c] = "file" => out[c] = "good"

\* A failed publication leaves no output in the published directory.
RejectedNotPublished == \A c \in Calls : res[c] = "rejected" => pub[c] # "file"
================================================================================

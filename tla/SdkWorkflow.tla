------------------------------ MODULE SdkWorkflow ------------------------------
(***************************************************************************)
(* The recoverable file execution of the Java SDK's README: upload with    *)
(* one clientArtifactId, submit with one clientRequestId, await, download, *)
(* each stage repeated with the same key when its answer is lost.  The     *)
(* worker is RemoteCapsuleRunner over DefaultRemoteTaskCageClient; the     *)
(* daemon is what remote_artifact_filesystem.rs and dispatcher.rs promise  *)
(* for these requests, one atomic operation each.                          *)
(*                                                                         *)
(* A request whose answer the worker gave up on may be executed at any     *)
(* later time: the server runs it in a task of its own.  A file is a       *)
(* sequence of Size chunks; a digest is the content it stands for.         *)
(***************************************************************************)
EXTENDS Naturals, Sequences

CONSTANTS
  Size,        \* chunks of the input file and of the output
  MaxEdits,    \* bound on edits of the input file while the worker runs
  MaxLost,     \* bound on answers that are lost or come too late
  MayEndAtOnce,\* whether a task may end before its submission is answered
  MayGiveUp,   \* whether the worker may abandon the upload
  None

VARIABLES
  file,        \* the input file
  daemon,      \* the daemon's records, see Empty
  late,        \* requests without a caller that are still executed
  request,     \* the worker's request in flight, or None
  answer,      \* its answer, not yet received, or None
  stage,       \* "upload", "submit", "await", "download" and how it ended
  declared,    \* digest of the file, as the running upload() computed it
  receipt,     \* digest of the RemoteArtifactUpload the worker keeps
  artifact, offset,  \* the upload or download in progress
  part, dest,  \* the temporary download file and the destination
  edits, lost

vars == <<file, daemon, late, request, answer, stage, declared, receipt, artifact, offset,
          part, dest, edits, lost>>

Output == [i \in 1..Size |-> i]
Terminal == {"done", "failed", "abandoned"}

\* upload: the record of the clientArtifactId; next: fresh artifact ids;
\* submission: the recorded answer of the clientRequestId; input: what the
\* task was given; made: tasks created; output: retained output bytes.
Empty == [upload |-> None, next |-> 1, submission |-> None, task |-> None, input |-> None,
          made |-> 0, output |-> None]

Init ==
  /\ file = [i \in 1..Size |-> 0]
  /\ daemon = Empty /\ late = {} /\ request = None /\ answer = None
  /\ stage = "upload" /\ declared = None /\ receipt = None /\ artifact = None /\ offset = 0
  /\ part = None /\ dest = None /\ edits = 0 /\ lost = 0

--------------------------------------------------------------------------------
(* The daemon's operations: the set of possible [daemon, answer] after r.  *)

Reply(d, kind) == {[d |-> d, a |-> [kind |-> kind]]}
AtOffset(d, kind, id, n) == {[d |-> d, a |-> [kind |-> kind, id |-> id, next |-> n]]}

\* A known key returns where its upload has got to, or a conflict.
begin_upload(d, r) ==
  IF d.upload # None
    THEN IF d.upload.digest # r.digest THEN Reply(d, "conflict")
         ELSE AtOffset(d, "started", d.upload.id, Len(d.upload.got))
    ELSE AtOffset([d EXCEPT !.upload = [id |-> d.next, digest |-> r.digest, got |-> <<>>,
                                        completed |-> FALSE],
                            !.next = @ + 1],
                  "started", d.next, 0)

\* A repeated chunk must equal the stored bytes.
upload_chunk(d, r) ==
  LET u == d.upload IN
  IF u = None THEN Reply(d, "refused")
  ELSE IF u.id # r.id \/ u.completed \/ r.offset + 1 > Size \/ r.offset > Len(u.got)
    THEN Reply(d, "refused")
  ELSE IF r.offset < Len(u.got)
    THEN IF u.got[r.offset + 1] = r.bytes THEN AtOffset(d, "accepted", u.id, Len(u.got))
         ELSE Reply(d, "refused")
  ELSE AtOffset([d EXCEPT !.upload.got = Append(@, r.bytes)], "accepted", u.id, r.offset + 1)

\* Faulty complete_upload: the stored bytes are not hashed.
complete_upload_unchecked(d, r) ==
  LET u == d.upload IN
  IF u = None THEN Reply(d, "refused")
  ELSE IF u.id # r.id \/ Len(u.got) # Size THEN Reply(d, "refused")
  ELSE Reply([d EXCEPT !.upload.completed = TRUE], "uploaded")

\* A digest mismatch removes the upload.
complete_upload(d, r) ==
  LET u == d.upload IN
  IF u = None THEN Reply(d, "refused")
  ELSE IF u.id # r.id THEN Reply(d, "refused")
  ELSE IF u.completed THEN Reply(d, "uploaded")
  ELSE IF Len(u.got) # Size THEN Reply(d, "refused")
  ELSE IF u.got # u.digest THEN Reply([d EXCEPT !.upload = None], "mismatch")
  ELSE Reply([d EXCEPT !.upload.completed = TRUE], "uploaded")

\* The idempotency record comes first; a new submission takes the completed
\* input, whose upload key is free again.  The recorded answer is
\* profileAccepted, or the profileResult of a task that ended at once.
submit(d, r) ==
  IF d.submission # None THEN Reply(d, d.submission)
  ELSE IF d.upload = None THEN Reply(d, "refused")
  ELSE IF d.upload.id # r.id \/ ~d.upload.completed THEN Reply(d, "refused")
  ELSE UNION {Reply([d EXCEPT !.submission = first, !.made = @ + 1, !.upload = None,
                              !.input = d.upload.got,
                              !.task = IF first = "profileResult" THEN "failed" ELSE "running"],
                    first)
              : first \in {"profileAccepted"} \cup (IF MayEndAtOnce THEN {"profileResult"} ELSE {})}

read_output_chunk(d, r) ==
  IF d.output = None THEN Reply(d, "refused")
  ELSE {[d |-> d, a |-> [kind |-> "chunk", offset |-> r.offset, bytes |-> d.output[r.offset + 1],
                         next |-> r.offset + 1, finished |-> r.offset + 1 = Size]]}

Results(r) ==
  CASE r.type = "begin" -> begin_upload(daemon, r)
    [] r.type = "chunk" -> upload_chunk(daemon, r)
    [] r.type = "complete" -> complete_upload(daemon, r)
    [] r.type = "submit" -> submit(daemon, r)
    [] r.type = "poll" -> Reply(daemon, daemon.task)
    [] r.type = "read" -> read_output_chunk(daemon, r)

worker == <<stage, declared, receipt, artifact, offset, part, dest>>

\* The daemon executes the request in flight, or one nobody waits for.
Serve ==
  /\ request # None /\ answer = None
  /\ \E x \in Results(request) : daemon' = x.d /\ answer' = x.a
  /\ UNCHANGED <<file, late, request, edits, lost>> /\ UNCHANGED worker

ServeLate ==
  /\ \E r \in late : late' = late \ {r} /\ \E x \in Results(r) : daemon' = x.d
  /\ UNCHANGED <<file, request, answer, edits, lost>> /\ UNCHANGED worker

TaskEnds ==
  /\ daemon.task = "running"
  /\ daemon' \in {[daemon EXCEPT !.task = "succeeded", !.output = Output],
                  [daemon EXCEPT !.task = "failed"]}
  /\ UNCHANGED <<file, late, request, answer, edits, lost>> /\ UNCHANGED worker

OutputExpires ==
  /\ daemon.output # None /\ lost < MaxLost /\ lost' = lost + 1
  /\ daemon' = [daemon EXCEPT !.output = None]
  /\ UNCHANGED <<file, late, request, answer, edits>> /\ UNCHANGED worker

Edit ==
  /\ stage = "upload" /\ edits < MaxEdits /\ edits' = edits + 1
  /\ \E i \in 1..Size : file' = [file EXCEPT ![i] = 1 - @]
  /\ UNCHANGED <<daemon, late, request, answer, lost>> /\ UNCHANGED worker

--------------------------------------------------------------------------------
(* The worker. *)

Send(r) == request' = r /\ UNCHANGED <<answer, daemon, late, file, edits, lost>>
Receive == request' = None /\ answer' = None /\ UNCHANGED <<daemon, late, file, edits, lost>>
Idle == request = None
Got(type, kind) == request # None /\ answer # None /\ request.type = type /\ answer.kind = kind

\* upload(): the digest of the whole file, then beginArtifactUpload.
Upload ==
  /\ stage = "upload" /\ Idle /\ artifact = None
  /\ declared' = file
  /\ Send([type |-> "begin", digest |-> file])
  /\ UNCHANGED <<stage, receipt, artifact, offset, part, dest>>

Started ==
  /\ Got("begin", "started")
  /\ artifact' = answer.id /\ offset' = answer.next
  /\ Receive /\ UNCHANGED <<stage, declared, receipt, part, dest>>

\* The next chunk is read from the file as it is now.
SendChunk ==
  /\ stage = "upload" /\ Idle /\ artifact # None /\ offset < Size
  /\ Send([type |-> "chunk", id |-> artifact, offset |-> offset, bytes |-> file[offset + 1]])
  /\ UNCHANGED worker

ChunkAccepted ==
  /\ Got("chunk", "accepted")
  /\ IF answer.next = offset + 1 THEN offset' = answer.next /\ UNCHANGED artifact
     ELSE artifact' = None /\ offset' = 0     \* TaskCageProtocolException
  /\ Receive /\ UNCHANGED <<stage, declared, receipt, part, dest>>

Complete ==
  /\ stage = "upload" /\ Idle /\ artifact # None /\ offset = Size
  /\ Send([type |-> "complete", id |-> artifact])
  /\ UNCHANGED worker

Uploaded ==
  /\ Got("complete", "uploaded")
  /\ receipt' = declared /\ stage' = "submit"
  /\ Receive /\ UNCHANGED <<declared, artifact, offset, part, dest>>

\* upload() throws what the daemon answered: the stage is repeated, except
\* that another file under the same key is a conflict.
UploadFails ==
  /\ \E type \in {"begin", "chunk", "complete"}, kind \in {"conflict", "refused", "mismatch"} :
       /\ Got(type, kind)
       /\ stage' = IF kind = "conflict" THEN "failed" ELSE "upload"
  /\ artifact' = None /\ offset' = 0
  /\ Receive /\ UNCHANGED <<declared, receipt, part, dest>>

\* The worker stops in the middle of an upload and does not come back.
GiveUp ==
  /\ MayGiveUp /\ stage = "upload" /\ Idle
  /\ stage' = "abandoned" /\ artifact' = None /\ offset' = 0
  /\ UNCHANGED <<declared, receipt, part, dest>>
  /\ UNCHANGED <<file, daemon, late, request, answer, edits, lost>>

Submit ==
  /\ stage = "submit" /\ Idle
  /\ Send([type |-> "submit", id |-> artifact])
  /\ UNCHANGED worker

\* decodeProfileAccepted: only a RUNNING profileAccepted gives a handle, any
\* other answer is a TaskCageProtocolException.
decodeProfileAccepted(a) == IF a.kind = "profileAccepted" THEN "handle" ELSE "protocol"

Submitted ==
  /\ request # None /\ answer # None /\ request.type = "submit"
  /\ stage' = CASE answer.kind = "refused" -> "failed"
                [] decodeProfileAccepted(answer) = "handle" -> "await"
                [] OTHER -> "submit"
  /\ Receive /\ UNCHANGED <<declared, receipt, artifact, offset, part, dest>>

Poll ==
  /\ stage = "await" /\ Idle
  /\ Send([type |-> "poll"])
  /\ UNCHANGED worker

Polled ==
  /\ request # None /\ answer # None /\ request.type = "poll"
  /\ stage' = CASE answer.kind = "running" -> "await"
                [] answer.kind = "succeeded" -> "download"
                [] OTHER -> "failed"
  /\ offset' = 0
  /\ Receive /\ UNCHANGED <<declared, receipt, artifact, part, dest>>

\* DownloadTarget.create and the first readArtifactChunk.
Download ==
  /\ stage = "download" /\ Idle
  /\ part' = IF part = None THEN <<>> ELSE part
  /\ Send([type |-> "read", offset |-> offset])
  /\ UNCHANGED <<stage, declared, receipt, artifact, offset, dest>>

\* Size and digest of the download against the ManagedOutputArtifact.
Publishable(bytes) == bytes = Output

Downloaded ==
  /\ Got("read", "chunk")
  /\ LET bytes == Append(part, answer.bytes) IN
       IF answer.finished
         THEN /\ part' = None /\ offset' = 0
              /\ IF Publishable(bytes) THEN dest' = bytes /\ stage' = "done"
                 ELSE UNCHANGED <<dest, stage>>
         ELSE /\ part' = bytes /\ offset' = answer.next
              /\ UNCHANGED <<dest, stage>>
  /\ Receive /\ UNCHANGED <<declared, receipt, artifact>>

\* DownloadTarget.close without publication.
closeTarget == part' = None /\ UNCHANGED dest

\* The output is no longer retained.
DownloadRefused ==
  /\ Got("read", "refused")
  /\ stage' = "failed" /\ closeTarget /\ offset' = 0
  /\ Receive /\ UNCHANGED <<declared, receipt, artifact>>

\* Where the worker goes on: an await that ends early submits again.
Resume == IF stage = "await" THEN "submit" ELSE stage

\* The answer is lost or comes after the request's timeout, or the connection
\* breaks: the stage is repeated, and the request may still be executed.
AnswerLost ==
  /\ request # None /\ lost < MaxLost /\ lost' = lost + 1
  /\ request' = None /\ answer' = None
  /\ late' = IF answer = None THEN late \cup {request} ELSE late
  /\ stage' = Resume
  /\ artifact' = IF stage = "upload" THEN None ELSE artifact
  /\ offset' = 0 /\ closeTarget
  /\ UNCHANGED <<file, daemon, declared, receipt, edits>>

Worker ==
  \/ Upload \/ Started \/ SendChunk \/ ChunkAccepted \/ Complete \/ Uploaded \/ UploadFails
  \/ Submit \/ Submitted \/ Poll \/ Polled \/ Download \/ Downloaded \/ DownloadRefused
Daemon == Serve \/ ServeLate \/ TaskEnds

Next == Worker \/ GiveUp \/ Daemon \/ OutputExpires \/ Edit \/ AnswerLost

\* The worker goes on, requests are served and tasks end.
Spec == Init /\ [][Next]_vars /\ WF_vars(Worker) /\ WF_vars(Serve) /\ WF_vars(ServeLate) /\ WF_vars(TaskEnds)

--------------------------------------------------------------------------------
\* The worker and the daemon are in a state the code can be in: an offset is
\* at most the size, a completed upload has all its bytes, and the temporary
\* file exists only in a download.
TypeOK ==
  /\ stage \in {"upload", "submit", "await", "download"} \cup Terminal
  /\ offset \in 0..Size /\ edits \in 0..MaxEdits /\ lost \in 0..MaxLost
  /\ answer # None => request # None
  /\ daemon.upload # None =>
       /\ Len(daemon.upload.got) <= Size
       /\ daemon.upload.completed => daemon.upload.got = daemon.upload.digest

\* The task was given the file exactly as it was when the upload that returned
\* the receipt hashed it, whatever was edited, repeated or executed late in
\* between (upload, begin_upload, upload_chunk, complete_upload).
InputExact == daemon.input # None => daemon.input = receipt

\* One clientRequestId makes one task, also when a submission that was given
\* up is executed after the one that repeats it.
OneTask == daemon.made <= 1

\* The destination is absent or complete, and no temporary file outlives a
\* download (DownloadTarget).
NoPartialOutput ==
  /\ dest \in {None, Output}
  /\ stage # "download" => part = None

\* With finitely many lost answers and edits, the recovery protocol of the
\* README comes to an end: the output, a failed task, an expired output or a
\* conflict; it never goes round in circles.
Settles == <>(stage \in Terminal)

\* Once the daemon has made the task, repeating the submission gives the
\* worker its handle.
HandleRecovered == daemon.made > 0 /\ stage = "submit" ~> stage = "await"

\* An upload whose worker and connection are gone is discarded.
AbandonedDiscarded ==
  stage = "abandoned" ~> (daemon.upload = None \/ daemon.upload.completed)
================================================================================

----------------------------- MODULE OutputCapture -----------------------------
(***************************************************************************)
(* Output capture (linux-runtime/src/executor/capture.rs): two reader      *)
(* threads drain stdout and stderr of a task into bounded tails, and the   *)
(* executor collects them under a deadline, or cancels them.               *)
(*                                                                         *)
(* The n-th byte of a stream is the number n, so a tail is right when it   *)
(* is the last numbers up to the bytes that were read.                     *)
(***************************************************************************)
EXTENDS Integers, Sequences

CONSTANTS
  Streams,   \* "stdout" and "stderr"
  Limit,     \* stdout and stderr limit of the task, at least 1
  ReadMax,   \* size of the read buffer
  PipeSize,  \* capacity of a pipe
  MaxBytes,  \* bound on the bytes the task writes to a stream
  MaxFaults, \* bound on failing system calls
  None

ASSUME LimitAssumption == Limit \in Nat \ {0}

VARIABLES
  open,      \* streams of which some process still holds the write end
  written, consumed,    \* bytes written to and read from each pipe
  tail,      \* the BoundedTail of each stream
  reader,    \* each thread: "none", "poll", "read", "ok", "failed"
  cancelled, \* the shared flag
  collector, \* "starting", "running", "collect", "join" and its outcomes
  mode,      \* "collect_until", "cancel_and_collect", "cancel_and_join"
  expired, faults

vars == <<open, written, consumed, tail, reader, cancelled, collector, mode, expired, faults>>

\* BoundedTail::new.
EmptyTail == [buffer |-> [i \in 0..(Limit - 1) |-> 0], start |-> 0, len |-> 0, truncated |-> FALSE]

Init ==
  /\ open = Streams
  /\ written = [s \in Streams |-> 0] /\ consumed = [s \in Streams |-> 0]
  /\ tail = [s \in Streams |-> EmptyTail]
  /\ reader = [s \in Streams |-> "none"]
  /\ cancelled = FALSE /\ collector = "starting" /\ mode = None
  /\ expired = FALSE /\ faults = 0

--------------------------------------------------------------------------------
(* BoundedTail. *)

\* Faulty push: a read that fills the whole buffer does not count as a
\* truncation of what was there before.
push_flag(t, from, n) ==
  LET free == Limit - t.len
      discarded == IF n > free THEN n - free ELSE 0
      start == (t.start + discarded) % Limit
      len == t.len - discarded
      at(i) == (start + len + i) % Limit IN
  IF n >= Limit
    THEN [buffer |-> [k \in 0..(Limit - 1) |-> from + n - Limit + k], start |-> 0,
          len |-> Limit, truncated |-> t.truncated \/ n > Limit]
    ELSE [buffer |-> [k \in 0..(Limit - 1) |-> IF \E i \in 0..(n - 1) : at(i) = k
                                                 THEN from + (CHOOSE i \in 0..(n - 1) : at(i) = k)
                                                 ELSE t.buffer[k]],
          start |-> start, len |-> len + n, truncated |-> t.truncated \/ n > free]

\* push of the bytes from, ..., from + n - 1: either they replace the whole
\* buffer, or the oldest give way and they are written after the rest.
push(t, from, n) ==
  LET free == Limit - t.len
      discarded == IF n > free THEN n - free ELSE 0
      start == (t.start + discarded) % Limit
      len == t.len - discarded
      at(i) == (start + len + i) % Limit IN
  IF n >= Limit
    THEN [buffer |-> [k \in 0..(Limit - 1) |-> from + n - Limit + k], start |-> 0,
          len |-> Limit, truncated |-> t.truncated \/ t.len > 0 \/ n > Limit]
    ELSE [buffer |-> [k \in 0..(Limit - 1) |-> IF \E i \in 0..(n - 1) : at(i) = k
                                                 THEN from + (CHOOSE i \in 0..(n - 1) : at(i) = k)
                                                 ELSE t.buffer[k]],
          start |-> start, len |-> len + n, truncated |-> t.truncated \/ n > free]

\* finish: rotated to the start, cut to the length.
finish(t) == [i \in 1..t.len |-> t.buffer[(t.start + i - 1) % Limit]]

--------------------------------------------------------------------------------
(* The task. *)

capture == <<tail, reader, cancelled, collector, mode, expired, faults>>
Waiting(s) == written[s] - consumed[s]
Full(s) == Waiting(s) = PipeSize

\* A process of the task writes; with nobody reading it gets EPIPE.
TaskWrites(s) ==
  /\ s \in open /\ ~Full(s) /\ written[s] < MaxBytes
  /\ reader[s] \notin {"ok", "failed"}
  /\ written' = [written EXCEPT ![s] = @ + 1]
  /\ UNCHANGED <<open, consumed>> /\ UNCHANGED capture

\* The last holder of the write end closes it or dies.
TaskCloses(s) ==
  /\ s \in open /\ open' = open \ {s}
  /\ UNCHANGED <<written, consumed>> /\ UNCHANGED capture

--------------------------------------------------------------------------------
(* drain_output. *)

others == <<open, written, cancelled, collector, mode, expired>>
Reader(s, where) == reader' = [reader EXCEPT ![s] = where]

\* The flag is looked at before every poll and every read.
ReadCancelled(s) ==
  /\ reader[s] \in {"poll", "read"} /\ cancelled
  /\ Reader(s, "ok")
  /\ UNCHANGED <<consumed, tail, faults>> /\ UNCHANGED others

\* poll returns bytes or a hang-up; a timeout or EINTR polls again.
Ready(s) ==
  /\ reader[s] = "poll" /\ ~cancelled
  /\ Waiting(s) > 0 \/ s \notin open
  /\ Reader(s, "read")
  /\ UNCHANGED <<consumed, tail, faults>> /\ UNCHANGED others

ReadSome(s) ==
  /\ reader[s] = "read" /\ ~cancelled /\ Waiting(s) > 0
  /\ \E n \in 1..ReadMax :
       /\ n <= Waiting(s)
       /\ tail' = [tail EXCEPT ![s] = push(@, consumed[s] + 1, n)]
       /\ consumed' = [consumed EXCEPT ![s] = @ + n]
  /\ UNCHANGED <<reader, faults>> /\ UNCHANGED others

WouldBlock(s) ==
  /\ reader[s] = "read" /\ ~cancelled /\ Waiting(s) = 0 /\ s \in open
  /\ Reader(s, "poll")
  /\ UNCHANGED <<consumed, tail, faults>> /\ UNCHANGED others

EndOfFile(s) ==
  /\ reader[s] = "read" /\ ~cancelled /\ Waiting(s) = 0 /\ s \notin open
  /\ Reader(s, "ok")
  /\ UNCHANGED <<consumed, tail, faults>> /\ UNCHANGED others

\* poll or read fails, or the thread panics.
ReaderFails(s) ==
  /\ reader[s] \in {"poll", "read"} /\ ~cancelled
  /\ faults < MaxFaults /\ faults' = faults + 1
  /\ Reader(s, "failed")
  /\ UNCHANGED <<consumed, tail>> /\ UNCHANGED others

--------------------------------------------------------------------------------
(* OutputReaders. *)

Ended(s) == reader[s] \in {"ok", "failed"}
streams == <<open, written, consumed, tail>>

\* start: the stdout thread, then the stderr thread.
StartReaders ==
  /\ collector = "starting"
  /\ collector' = "running" /\ reader' = [s \in Streams |-> "poll"]
  /\ UNCHANGED streams /\ UNCHANGED <<cancelled, mode, expired, faults>>

\* The second thread cannot be made: the first is cancelled and joined.
StartFails ==
  /\ collector = "starting"
  /\ faults < MaxFaults /\ faults' = faults + 1
  /\ \E first \in Streams : reader' = [s \in Streams |-> IF s = first THEN "poll" ELSE "ok"]
  /\ cancelled' = TRUE /\ collector' = "join" /\ mode' = "start"
  /\ UNCHANGED streams /\ UNCHANGED expired

\* finish_output_until after the task, or one of the cancelling ends.
Finish(how) ==
  /\ collector = "running"
  /\ mode' = how
  /\ collector' = IF how = "collect_until" THEN "collect" ELSE "join"
  /\ cancelled' = (how # "collect_until")
  /\ UNCHANGED streams /\ UNCHANGED <<reader, expired, faults>>

Deadline ==
  /\ collector = "collect" /\ ~expired /\ expired' = TRUE
  /\ UNCHANGED streams /\ UNCHANGED <<reader, cancelled, collector, mode, faults>>

\* The loop of collect_until: both threads have ended, or the deadline passed.
CollectLoop ==
  /\ collector = "collect"
  /\ \/ /\ \A s \in Streams : Ended(s)
        /\ collector' = "join" /\ UNCHANGED <<cancelled, mode>>
     \/ /\ expired /\ \E s \in Streams : ~Ended(s)
        /\ cancelled' = TRUE /\ collector' = "join" /\ mode' = "timeout"
  /\ UNCHANGED streams /\ UNCHANGED <<reader, expired, faults>>

\* join returns when a thread has ended.
Joinable == \A s \in Streams : Ended(s)

Join ==
  /\ collector = "join" /\ Joinable
  /\ collector' = CASE mode \in {"timeout", "start"} -> "error"
                    [] mode = "cancel_and_join" -> "ok"
                    [] OTHER -> IF \A s \in Streams : reader[s] = "ok" THEN "ok" ELSE "error"
  /\ UNCHANGED streams /\ UNCHANGED <<reader, cancelled, mode, expired, faults>>

--------------------------------------------------------------------------------
Drain(s) == ReadCancelled(s) \/ Ready(s) \/ ReadSome(s) \/ WouldBlock(s) \/ EndOfFile(s) \/ ReaderFails(s)
Modes == {"collect_until", "cancel_and_collect", "cancel_and_join"}

Next ==
  \/ \E s \in Streams : TaskWrites(s) \/ TaskCloses(s) \/ Drain(s)
  \/ StartReaders \/ StartFails \/ \E how \in Modes : Finish(how)
  \/ Deadline \/ CollectLoop \/ Join

\* The threads run and time passes; nothing is assumed of the task, whose
\* processes may keep a pipe open or write for ever.
Spec ==
  /\ Init /\ [][Next]_vars
  /\ \A s \in Streams : WF_vars(Drain(s))
  /\ WF_vars(Deadline) /\ WF_vars(CollectLoop \/ Join)

--------------------------------------------------------------------------------
\* The last Limit numbers up to n: what a tail is meant to hold.
Last(n) == LET k == IF n < Limit THEN n ELSE Limit IN [i \in 1..k |-> n - k + i]

\* The variables have the shape the threads give them, and no more is read
\* than was written.
TypeOK ==
  /\ open \subseteq Streams /\ expired \in BOOLEAN /\ cancelled \in BOOLEAN
  /\ collector \in {"starting", "running", "collect", "join", "ok", "error"}
  /\ \A s \in Streams :
       /\ reader[s] \in {"none", "poll", "read", "ok", "failed"}
       /\ consumed[s] <= written[s] /\ Waiting(s) <= PipeSize
       /\ tail[s].start \in 0..(Limit - 1) /\ tail[s].len \in 0..Limit

\* After every push the ring buffer holds exactly the last bytes read, and
\* says that it is truncated exactly when more were read than it holds.
TailExact ==
  \A s \in Streams :
    /\ finish(tail[s]) = Last(consumed[s])
    /\ tail[s].truncated <=> consumed[s] > Limit

\* A collection that succeeds without being cancelled has everything the
\* task wrote: each pipe was read to its end after the last writer closed it.
CollectedIsComplete ==
  collector = "ok" /\ mode = "collect_until" =>
    \A s \in Streams : s \notin open /\ consumed[s] = written[s]

\* Whatever way a collection ends, no reader thread is left behind, and with
\* it no descriptor of the pipe.
NoThreadLeft == collector \in {"ok", "error"} => \A s \in Streams : Ended(s)

\* The collection ends, also when a process of the task keeps writing or
\* keeps the pipe open.
CollectionEnds == collector \in {"collect", "join"} ~> collector \in {"ok", "error"}

\* A process of the task waits for room in a pipe whose reader still reads.
Waits(s) == reader[s] \in {"poll", "read"} /\ Full(s)
================================================================================

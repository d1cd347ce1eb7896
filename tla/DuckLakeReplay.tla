--------------------------- MODULE DuckLakeReplay ---------------------------
(***************************************************************************)
(* The writes of the DuckLake destination (ducklake/core.rs and            *)
(* ducklake/batches.rs) under retries, crashes and replays.                *)
(*                                                                         *)
(* Copied rows are written chunk by chunk, each in a transaction that also *)
(* inserts a marker named by the chunk's contents; a retry that finds the  *)
(* marker skips the chunk.  Streamed events are written by write_events:   *)
(* it cuts them at the truncates, starts one task per table, and a task    *)
(* applies its batches one transaction each, which also moves the table's  *)
(* watermark.  The watermark is read before the transaction begins.  A     *)
(* commit that fails may have happened, and a call that times out may have *)
(* committed: both come back as errors and are tried again.                *)
(*                                                                         *)
(* The first task that fails ends the call and aborts the others.  An      *)
(* aborted task releases the table's write slot, but its transaction runs  *)
(* on a blocking thread that nobody stops: it is an orphan until it ends.  *)
(***************************************************************************)
EXTENDS DuckLakeBatches

CONSTANTS
  Tables,
  Streams,              \* the streams explored: events in commit order, with the tables of each
  Chunks,               \* per table, the chunks of rows that its copy delivers
  MaxRetries,           \* MAX_COMMIT_RETRIES
  MaxFaults,            \* bound: errors and crashes that are explored
  OrphansOutliveRetry   \* whether a call may begin while an orphan still runs

VARIABLES
  stream,      \* the events that the source commits
  rows,        \* per table, the bag of rows of the DuckLake table
  watermark,   \* per table, the row of the streaming progress table, {} or a key
  markers,     \* per table, the applied-batch markers of its copy
  copied,      \* per table, the number of chunks whose write returned
  copyTries,   \* per table, the failed attempts of the chunk being written
  call,        \* the write_events call: its next and its last event, or {}
  task,        \* per table, the task that the call started for it
  orphan,      \* per table, the transaction left behind by an aborted task, or {}
  acked,       \* the last event whose call returned without an error
  faults

duckVars == <<stream, rows, watermark, markers, copied, copyTries, call, task, orphan, acked, faults>>

NoTask == [at |-> "none"]

Init ==
  /\ stream \in Streams
  /\ rows = [t \in Tables |-> EmptyBag]
  /\ watermark = [t \in Tables |-> {}]
  /\ markers = [t \in Tables |-> {}]
  /\ copied = [t \in Tables |-> 0]
  /\ copyTries = [t \in Tables |-> 0]
  /\ call = {}
  /\ task = [t \in Tables |-> NoTask]
  /\ orphan = [t \in Tables |-> {}]
  /\ acked = 0
  /\ faults = 0

Fault == faults < MaxFaults /\ faults' = faults + 1

CopyDone(t) == copied[t] = Len(Chunks[t])

-----------------------------------------------------------------------------
(* The copy of a table.                                                    *)

NextChunk(t) == Chunks[t][copied[t] + 1]

\* write_table_rows: an attempt whose marker exists is a replay of a commit
\* that was reported as failed.
CopyBatchSkipped(t) ==
  /\ ~CopyDone(t)
  /\ CopyBatchId(NextChunk(t)) \in markers[t]
  /\ copied' = [copied EXCEPT ![t] = @ + 1]
  /\ copyTries' = [copyTries EXCEPT ![t] = 0]
  /\ UNCHANGED <<stream, rows, watermark, markers, call, task, orphan, acked, faults>>

CommitCopyBatch(t) ==
  /\ rows' = [rows EXCEPT ![t] = ApplyStatements(@, Upsert(NextChunk(t)))]
  /\ markers' = [markers EXCEPT ![t] = @ \cup {CopyBatchId(NextChunk(t))}]

CopyBatchUnmarked(t) == CopyBatchId(NextChunk(t)) \notin markers[t]

CopyBatchApplied(t) ==
  /\ ~CopyDone(t)
  /\ CopyBatchUnmarked(t)
  /\ CommitCopyBatch(t)
  /\ copied' = [copied EXCEPT ![t] = @ + 1]
  /\ copyTries' = [copyTries EXCEPT ![t] = 0]
  /\ UNCHANGED <<stream, watermark, call, task, orphan, acked, faults>>

\* The attempt fails, before or after its commit.
CopyBatchFails(t) ==
  /\ ~CopyDone(t)
  /\ copyTries[t] <= MaxRetries
  /\ CopyBatchUnmarked(t)
  /\ Fault
  /\ CommitCopyBatch(t) \/ UNCHANGED <<rows, markers>>
  /\ copyTries' = [copyTries EXCEPT ![t] = @ + 1]
  /\ UNCHANGED <<stream, watermark, copied, call, task, orphan, acked>>

\* The copy starts over, after its last retry failed or after a crash:
\* drop_table_for_copy forgets the table with its markers and its watermark.
DropTableForCopy(t) ==
  /\ ~CopyDone(t)
  /\ \/ copyTries[t] > MaxRetries /\ UNCHANGED faults
     \/ copyTries[t] <= MaxRetries /\ Fault
  /\ rows' = [rows EXCEPT ![t] = EmptyBag]
  /\ markers' = [markers EXCEPT ![t] = {}]
  /\ watermark' = [watermark EXCEPT ![t] = {}]
  /\ copied' = [copied EXCEPT ![t] = 0]
  /\ copyTries' = [copyTries EXCEPT ![t] = 0]
  /\ UNCHANGED <<stream, call, task, orphan, acked>>

-----------------------------------------------------------------------------
(* write_events.                                                           *)

IsTruncate(i) == stream[i].kind = "truncate"

\* The events that are written together: up to the next truncate, or the run
\* of truncates.
SegmentEnd(from, last) ==
  CHOOSE n \in from..last :
    /\ \A i \in from..n : IsTruncate(i) = IsTruncate(from)
    /\ n = last \/ IsTruncate(n + 1) # IsTruncate(from)

\* A segment's events of one table; relation and transaction events are skipped.
TableEvents(t, from, last) ==
  SelectSeq(SubSeq(stream, from, last), LAMBDA e : t \in e.tables)

\* The apply loop sends the events after those it saw acknowledged, as many as
\* its batch holds.
WriteEvents(last) ==
  /\ call = {}
  /\ \A t \in Tables : CopyDone(t)
  /\ OrphansOutliveRetry \/ \A t \in Tables : orphan[t] = {}
  /\ last \in (acked + 1)..Len(stream)
  /\ call' = {[next |-> acked + 1, last |-> last]}
  /\ UNCHANGED <<stream, rows, watermark, markers, copied, copyTries, task, orphan, acked, faults>>

NewTask(t, from, last) ==
  LET events == TableEvents(t, from, last)
  IN IF events = <<>> THEN NoTask
     ELSE [at |-> "waiting", events |-> events,
           kind |-> IF IsTruncate(from) THEN "truncate" ELSE "mutation"]

Idle == \A t \in Tables : task[t].at = "none"

\* One task for each table of the next segment.
SpawnTasks ==
  \E c \in call :
    /\ c.next <= c.last
    /\ Idle
    /\ LET end == SegmentEnd(c.next, c.last)
       IN /\ \A i \in c.next..end : IsApplicable(stream[i])
          /\ task' = [t \in Tables |-> NewTask(t, c.next, end)]
          /\ call' = {[next |-> end + 1, last |-> c.last]}
    /\ UNCHANGED <<stream, rows, watermark, markers, copied, copyTries, orphan, acked, faults>>

\* An event that the table's replica identity cannot place fails the call
\* before any task of its segment starts.
RejectSegment ==
  \E c \in call :
    /\ c.next <= c.last
    /\ Idle
    /\ \E i \in c.next..SegmentEnd(c.next, c.last) : ~IsApplicable(stream[i])
    /\ call' = {}
    /\ UNCHANGED <<stream, rows, watermark, markers, copied, copyTries, task, orphan, acked, faults>>

\* Mutant: the call does not wait for the tasks of its last segment.
CallSucceedsEarly ==
  \E c \in call :
    /\ c.next > c.last
    /\ acked' = c.last
    /\ call' = {}
    /\ UNCHANGED <<stream, rows, watermark, markers, copied, copyTries, task, orphan, faults>>

CallSucceeds ==
  \E c \in call :
    /\ c.next > c.last
    /\ Idle
    /\ acked' = c.last
    /\ call' = {}
    /\ UNCHANGED <<stream, rows, watermark, markers, copied, copyTries, task, orphan, faults>>

\* A task that holds the write slot and the gate reads the watermark, drops the
\* events that it covers and prepares the rest.
PrepareTask(t) ==
  /\ task[t].at = "waiting"
  /\ LET pending == RetainAfter(task[t].events, watermark[t])
         batches == IF task[t].kind = "truncate" THEN <<PrepareTruncateTableBatch(pending)>>
                                                 ELSE PrepareMutationTableBatches(pending)
     IN task' = [task EXCEPT ![t] =
                   IF pending = <<>> THEN NoTask
                   ELSE [at |-> "prepared", batches |-> batches, tries |-> 0]]
  /\ UNCHANGED <<stream, rows, watermark, markers, copied, copyTries, call, orphan, acked, faults>>

\* An attempt runs on a blocking thread and first reads the watermark.
BeginAttempt(t) ==
  /\ task[t].at = "prepared"
  /\ task[t].tries <= MaxRetries
  /\ task' = [task EXCEPT ![t] = [at |-> "running", batches |-> @.batches, tries |-> @.tries,
                                  seen |-> watermark[t], done |-> 0]]
  /\ UNCHANGED <<stream, rows, watermark, markers, copied, copyTries, call, orphan, acked, faults>>

NextBatch(a) == a.batches[a.done + 1]

\* The transaction of one batch, which ends with the table's new watermark.
CommitBatch(t, b) ==
  /\ rows' = [rows EXCEPT ![t] = ApplyStatements(@, b.statements)]
  /\ watermark' = [watermark EXCEPT ![t] = {b.last}]

\* The attempt a after its next batch was skipped or committed.
AfterBatch(a) ==
  [a EXCEPT !.done = @ + 1,
            !.seen = IF StreamingReplayDecision(a.seen, NextBatch(a)) = "apply"
                     THEN {NextBatch(a).last} ELSE @]

SkipOrCommit(t, a) ==
  LET decision == StreamingReplayDecision(a.seen, NextBatch(a))
  IN \/ decision = "skip" /\ UNCHANGED <<rows, watermark>>
     \/ decision = "apply" /\ CommitBatch(t, NextBatch(a))

Running(t) == task[t].at = "running" /\ task[t].done < Len(task[t].batches)

ApplyBatch(t) ==
  /\ Running(t)
  /\ SkipOrCommit(t, task[t])
  /\ task' = [task EXCEPT ![t] = AfterBatch(task[t])]
  /\ UNCHANGED <<stream, markers, copied, copyTries, call, orphan, acked, faults>>

Retrying(a) == [at |-> "prepared", batches |-> a.batches, tries |-> a.tries + 1]

\* The attempt fails: before the commit of a batch, after it without knowing,
\* or at the deadline when all of its batches are committed.  A watermark
\* inside a batch is an error of every attempt at these batches.
AttemptFails(t) ==
  /\ task[t].at = "running"
  /\ \/ /\ Running(t)
        /\ StreamingReplayDecision(task[t].seen, NextBatch(task[t])) = "inside"
        /\ UNCHANGED <<rows, watermark, faults>>
     \/ Fault /\ UNCHANGED <<rows, watermark>>
     \/ Fault /\ Running(t) /\ SkipOrCommit(t, task[t])
  /\ task' = [task EXCEPT ![t] = Retrying(@)]
  /\ UNCHANGED <<stream, markers, copied, copyTries, call, orphan, acked>>

EndTask(t) ==
  /\ task[t].at = "running"
  /\ task[t].done = Len(task[t].batches)
  /\ task' = [task EXCEPT ![t] = NoTask]
  /\ UNCHANGED <<stream, rows, watermark, markers, copied, copyTries, call, orphan, acked, faults>>

\* The transactions of aborted tasks run on.
Abandoned(t) ==
  IF task[t].at = "running" /\ task[t].done < Len(task[t].batches)
  THEN {[batches |-> task[t].batches, seen |-> task[t].seen, done |-> task[t].done]}
  ELSE orphan[t]

\* A task is out of retries, or its first read failed: the call returns the
\* error and drops the tasks that are left.
CallFails(t) ==
  /\ \/ task[t].at = "waiting" /\ Fault
     \/ task[t].at = "prepared" /\ task[t].tries > MaxRetries /\ UNCHANGED faults
  /\ call' = {}
  /\ orphan' = [u \in Tables |-> Abandoned(u)]
  /\ task' = [u \in Tables |-> NoTask]
  /\ UNCHANGED <<stream, rows, watermark, markers, copied, copyTries, acked>>

\* An orphan commits its next batch, and ends with its last one or with the
\* first error.
OrphanStep(t) ==
  \E a \in orphan[t] :
    /\ \/ /\ SkipOrCommit(t, a)
          /\ orphan' = [orphan EXCEPT ![t] = IF a.done + 1 < Len(a.batches)
                                             THEN {AfterBatch(a)} ELSE {}]
       \/ UNCHANGED <<rows, watermark>> /\ orphan' = [orphan EXCEPT ![t] = {}]
    /\ UNCHANGED <<stream, markers, copied, copyTries, call, task, acked, faults>>

\* The process dies.  The apply loop starts over from the position that was
\* durable, which may lag behind the last acknowledgement.
Crash(durable) ==
  /\ \A t \in Tables : CopyDone(t)
  /\ durable \in 0..acked
  /\ Fault
  /\ acked' = durable
  /\ call' = {}
  /\ task' = [t \in Tables |-> NoTask]
  /\ orphan' = [t \in Tables |-> {}]
  /\ UNCHANGED <<stream, rows, watermark, markers, copied, copyTries>>

-----------------------------------------------------------------------------
Work ==
  \/ \E t \in Tables :
       \/ CopyBatchSkipped(t)
       \/ CopyBatchApplied(t)
       \/ copyTries[t] > MaxRetries /\ DropTableForCopy(t)
       \/ PrepareTask(t)
       \/ BeginAttempt(t)
       \/ ApplyBatch(t)
       \/ EndTask(t)
       \/ task[t].at = "prepared" /\ CallFails(t)
       \/ OrphanStep(t)
  \/ \E last \in DOMAIN stream : WriteEvents(last)
  \/ SpawnTasks
  \/ RejectSegment
  \/ CallSucceeds

Faulty ==
  \/ \E t \in Tables :
       \/ CopyBatchFails(t)
       \/ copyTries[t] <= MaxRetries /\ DropTableForCopy(t)
       \/ AttemptFails(t)
       \/ task[t].at = "waiting" /\ CallFails(t)
  \/ \E durable \in 0..Len(stream) : Crash(durable)

Next == Work \/ Faulty

Spec == Init /\ [][Next]_duckVars

\* Each blocking operation has a deadline, and an error is retried by the task
\* or, as a new call, by the apply loop.
FairSpec == Spec /\ WF_duckVars(Work)

-----------------------------------------------------------------------------
(* Properties.                                                             *)

\* The copied rows of t and the effect of its events up to the watermark.
Expected(t) ==
  LET upto == SelectSeq(TableEvents(t, 1, Len(stream)),
                        LAMBDA e : \E k \in watermark[t] : ~KeyLess(k, SequenceKey(e)))
  IN FoldLeft(EventEffect, BagOf(FlattenSeq(Chunks[t])), upto)

\* Once a table is copied it holds each of its rows once, and each event up to
\* its watermark applied once and in order, whatever failed, was retried or was
\* replayed on the way.  The retries of apply_table_batch_with_retry and of
\* apply_table_batches_with_retry rely on it.
AppliedExactlyOnce == \A t \in Tables : CopyDone(t) => rows[t] = Expected(t)

\* An acknowledged event is in the table of every table that it is about, so
\* that the apply loop may confirm its position to the source.
AckedIsApplied ==
  \A i \in 1..acked : \A t \in stream[i].tables :
    \E k \in watermark[t] : ~KeyLess(k, SequenceKey(stream[i]))

Acked == (\A i \in DOMAIN stream : IsApplicable(stream[i])) => acked = Len(stream)

\* A stream whose events can all be applied is acknowledged to its end: no
\* sequence of errors leaves the destination refusing the replay for good.
StreamIsAcked == <>[]Acked
=============================================================================

----------------------------- MODULE ApplyLoop -----------------------------
(***************************************************************************)
(* The apply loop (etl/src/replication/apply.rs): one worker that reads a  *)
(* logical replication stream, batches its events, hands the batches to    *)
(* the destination one at a time, and turns acknowledgements into durable  *)
(* progress and into the flush position that it reports to PostgreSQL.     *)
(*                                                                         *)
(* The loop's own state is the record `loop` (ApplyLoopState).  Each       *)
(* handler of the code is an operator from a loop state to a loop state;   *)
(* an action is one iteration of the loop: a branch of the `select!`       *)
(* followed by the idle table-sync hook and the exit check that end every  *)
(* iteration.                                                              *)
(*                                                                         *)
(* The module covers both owners of an apply loop.  Target = 0 is the      *)
(* apply worker, which never completes and whose failed loop is started    *)
(* again; Target > 0 is a table-sync worker that must catch up to Target.  *)
(***************************************************************************)
EXTENDS Lsn, Sequences, Functions

CONSTANTS
  MaxTx,        \* transactions that the source commits
  Size,         \* Size[k]: row changes of transaction k that are published
  StartLsn,     \* position at which the replication slot was created
  Target,       \* catch-up position of a table-sync worker, 0 for the apply worker
  MaxBatch,     \* largest byte budget of a batch, in events
  MaxFailures   \* loop failures that are explored

ASSUME ConstantsAssumption ==
  /\ MaxTx \in Nat
  /\ Size \in [1..MaxTx -> Nat]
  /\ StartLsn \in Nat
  /\ Target \in Nat
  /\ Target > 0 => Target >= StartLsn
  /\ MaxBatch \in Nat \ {0}
  /\ MaxFailures \in Nat

VARIABLES
  pos,        \* the next message the walsender sends
  confirmed,  \* confirmed_flush_lsn of the replication slot
  durable,    \* the worker's row of etl.replication_progress, 0 if there is none
  loop,       \* the state of the current apply loop invocation
  written,    \* the events the destination has applied, in order
  orphans,    \* batches that a failed loop left behind at the destination
  shutdown,   \* whether the pipeline's shutdown signal has been sent
  failures    \* loop failures so far

vars == <<pos, confirmed, durable, loop, written, orphans, shutdown, failures>>

-----------------------------------------------------------------------------
(* The source.  A message of transaction tx is its BEGIN at step 0, its row *)
(* changes, and its COMMIT at LastStep(tx).                                 *)

Tx == 1..MaxTx

LastStep(k) == Size[k] + 1

Event == UNION {[tx : {k}, step : 0..LastStep(k)] : k \in Tx}

Precedes(e, f) == e.tx < f.tx \/ (e.tx = f.tx /\ e.step < f.step)

StartOf(start) == [tx |-> FirstTxFrom(start), step |-> 0]

NextPos(e) ==
  IF e.step = LastStep(e.tx) THEN [tx |-> e.tx + 1, step |-> 0]
                             ELSE [e EXCEPT !.step = @ + 1]

\* wal_end of a keep-alive: every transaction that ends by it has been sent.
KeepAliveLsns == {EndLsn(pos.tx - 1), CommitLsn(pos.tx)}

-----------------------------------------------------------------------------
(* ApplyLoopState and the predicates it defines.  Absent LSNs are 0, and a *)
(* flush is in flight iff `inflight` is not empty: a dispatched batch never *)
(* is.                                                                      *)

Intents == {"None", "Pause", "Complete"}

NewLoop(start) ==
  [ status          |-> "running",
    start_lsn       |-> start,
    last_received   |-> start,
    last_flush      |-> start,
    last_commit_end |-> 0,
    remote_final    |-> 0,
    batch           |-> <<>>,
    deadline        |-> FALSE,
    inflight        |-> <<>>,
    inflight_end    |-> 0,
    paused          |-> FALSE,
    exit_intent     |-> "None",
    draining        |-> FALSE,
    reported        |-> 0,
    sync_done       |-> 0 ]

HasPendingBatch(l) == l.batch # <<>>

HasPendingFlushResult(l) == l.inflight # <<>>

HasUnresolvedBatchWork(l) == HasPendingBatch(l) \/ HasPendingFlushResult(l)

HandlingTransaction(l) == l.remote_final # 0

\* Mutant: a batch in flight does not count as work.
IsIdleIgnoringFlight(l) == ~HandlingTransaction(l) /\ ~HasPendingBatch(l)

IsIdle(l) == ~HandlingTransaction(l) /\ ~HasUnresolvedBatchWork(l)

EffectiveFlushLsn(l) == IF IsIdle(l) THEN l.last_received ELSE l.last_flush

CanProcessMessages(l) == l.exit_intent = "None" /\ ~l.paused

CanWaitForDeadline(l) == ~l.paused /\ HasPendingBatch(l)

UpdateLastReceived(l, lsn) == [l EXCEPT !.last_received = MaxLsn(@, lsn)]

MergeIntent(current, new) ==
  IF "Complete" \in {current, new} THEN "Complete"
  ELSE IF "Pause" \in {current, new} THEN "Pause"
  ELSE "None"

RecordExitIntent(l, intent) ==
  [l EXCEPT !.exit_intent = MergeIntent(@, intent)]

-----------------------------------------------------------------------------
(* The handlers.                                                            *)

\* EventsStream::send_status_update never lets the reported position go back.
SendStatusUpdate(l) ==
  [l EXCEPT !.reported = MaxLsn(@, EffectiveFlushLsn(l))]

\* Mutant: a full batch is sent although one is in flight.
FlushBatchOverFlight(l) ==
  IF ~HasPendingBatch(l) THEN l
  ELSE [l EXCEPT !.inflight = l.batch,
                 !.inflight_end = l.last_commit_end,
                 !.batch = <<>>,
                 !.last_commit_end = 0,
                 !.deadline = FALSE]

\* Mutant: the events that were sent stay in the batch.
FlushBatchKeepingEvents(l) ==
  IF ~HasPendingBatch(l) THEN l
  ELSE IF HasPendingFlushResult(l) THEN [l EXCEPT !.paused = TRUE]
  ELSE [l EXCEPT !.inflight = l.batch,
                 !.inflight_end = l.last_commit_end,
                 !.last_commit_end = 0,
                 !.deadline = FALSE]

FlushBatch(l) ==
  IF ~HasPendingBatch(l) THEN l
  ELSE IF HasPendingFlushResult(l) THEN [l EXCEPT !.paused = TRUE]
  ELSE [l EXCEPT !.inflight = l.batch,
                 !.inflight_end = l.last_commit_end,
                 !.batch = <<>>,
                 !.last_commit_end = 0,
                 !.deadline = FALSE]

\* Mutant: the first event of a batch does not arm the deadline.
AddEventWithoutDeadline(l, e, end_lsn, budget, end_batch) ==
  LET added == [l EXCEPT !.batch = Append(@, e),
                         !.last_commit_end = MaxLsn(@, end_lsn)]
  IN  IF Len(added.batch) >= budget \/ end_batch THEN FlushBatch(added) ELSE added

\* An event joins the batch; the batch is flushed when it has reached the
\* budget of the moment, or when the handler asked for the batch to end.
AddEvent(l, e, end_lsn, budget, end_batch) ==
  LET added == [l EXCEPT !.batch = Append(@, e),
                         !.last_commit_end = MaxLsn(@, end_lsn),
                         !.deadline = TRUE]
  IN  IF Len(added.batch) >= budget \/ end_batch THEN FlushBatch(added) ELSE added

HandleBegin(l, budget) ==
  AddEvent([UpdateLastReceived(l, EndLsn(pos.tx - 1))
              EXCEPT !.remote_final = CommitLsn(pos.tx)],
           pos, 0, budget, FALSE)

HandleChange(l, budget) ==
  AddEvent(UpdateLastReceived(l, EndLsn(pos.tx - 1)), pos, 0, budget, FALSE)

\* process_syncing_tables_after_commit_event: a table-sync worker that reached
\* its target asks to complete.
AfterCommitIntent(lsn) == IF Target > 0 /\ lsn >= Target THEN "Complete" ELSE "None"

\* Mutant: a COMMIT does not move the received position.
HandleCommitWithoutReceived(l, budget) ==
  LET intent == AfterCommitIntent(EndLsn(pos.tx))
      ended  == [l EXCEPT !.remote_final = 0]
  IN  AddEvent(RecordExitIntent(ended, intent),
               pos, EndLsn(pos.tx), budget, intent # "None")

HandleCommit(l, budget) ==
  LET intent == AfterCommitIntent(EndLsn(pos.tx))
      ended  == [UpdateLastReceived(l, EndLsn(pos.tx)) EXCEPT !.remote_final = 0]
  IN  AddEvent(RecordExitIntent(ended, intent),
               pos, EndLsn(pos.tx), budget, intent # "None")

HandleKeepAlive(l, lsn) == SendStatusUpdate(UpdateLastReceived(l, lsn))

\* Mutant: SyncDone is stored at the target, not at the position reached.
TryCompleteAtTarget(l, lsn) ==
  IF Target > 0 /\ l.sync_done = 0 /\ lsn >= Target
  THEN [RecordExitIntent(l, "Complete") EXCEPT !.sync_done = Target]
  ELSE l

\* try_complete_catchup: a table-sync worker in Catchup that has reached its
\* target stores SyncDone.
TryCompleteCatchup(l, lsn) ==
  IF Target > 0 /\ l.sync_done = 0 /\ lsn >= Target
  THEN [RecordExitIntent(l, "Complete") EXCEPT !.sync_done = lsn]
  ELSE l

\* Mutant: a flush does not complete the catch-up.
AfterFlushWithoutCompletion(l, progress) ==
  [l EXCEPT !.last_flush = MaxLsn(@, progress)]

\* process_syncing_tables_after_flush; `progress` is what the store returned.
AfterFlush(l, progress) ==
  LET flushed == [l EXCEPT !.last_flush = MaxLsn(@, progress)]
  IN  TryCompleteCatchup(flushed, flushed.last_flush)

\* Mutant: a flush result does not resume a paused loop.
HandleFlushResultStayingPaused(l, progress) ==
  LET resumed == [l EXCEPT !.inflight = <<>>, !.inflight_end = 0]
  IN  IF l.inflight_end = 0 THEN resumed ELSE AfterFlush(resumed, progress)

HandleFlushResult(l, progress) ==
  LET resumed == [l EXCEPT !.inflight = <<>>, !.inflight_end = 0, !.paused = FALSE]
      synced  == IF l.inflight_end = 0 THEN resumed ELSE AfterFlush(resumed, progress)
  IN  IF l.paused THEN FlushBatch(synced) ELSE synced

\* Mutant: an idle loop pauses without a status update.
HandleShutdownSignalSilently(l) ==
  LET asked == RecordExitIntent(l, "Pause")
  IN  IF HasUnresolvedBatchWork(asked) THEN [asked EXCEPT !.draining = TRUE] ELSE asked

HandleShutdownSignal(l) ==
  LET asked == RecordExitIntent(l, "Pause")
  IN  IF HasUnresolvedBatchWork(asked) THEN [asked EXCEPT !.draining = TRUE]
                                       ELSE SendStatusUpdate(asked)

ProcessSyncingTablesWhenIdle(l) ==
  IF l.exit_intent = "None" /\ IsIdle(l)
  THEN TryCompleteCatchup(l, EffectiveFlushLsn(l))
  ELSE l

ExitStatus(l) == IF l.exit_intent = "Complete" THEN "completed" ELSE "paused"

\* Mutant: the loop ends with events in its batch.
TryFinishWithBatch(l) ==
  IF HasPendingFlushResult(l) \/ l.exit_intent = "None" THEN l
  ELSE IF l.draining
       THEN [SendStatusUpdate(l) EXCEPT !.draining = FALSE, !.status = ExitStatus(l)]
       ELSE [l EXCEPT !.status = ExitStatus(l)]

\* try_finish_active_iteration, and the end of a draining iteration.
TryFinish(l) ==
  IF HasUnresolvedBatchWork(l) \/ l.exit_intent = "None" THEN l
  ELSE IF l.draining
       THEN [SendStatusUpdate(l) EXCEPT !.draining = FALSE, !.status = ExitStatus(l)]
       ELSE [l EXCEPT !.status = ExitStatus(l)]

\* What ends every iteration of the loop, and starts the first one.
EndIteration(l) == TryFinish(ProcessSyncingTablesWhenIdle(l))

-----------------------------------------------------------------------------
(* The steps of the system.                                                 *)

Init ==
  /\ pos = StartOf(StartLsn)
  /\ confirmed = StartLsn
  /\ durable = 0
  /\ loop = EndIteration(NewLoop(StartLsn))
  /\ written = <<>>
  /\ orphans = <<>>
  /\ shutdown = FALSE
  /\ failures = 0

Running == loop.status = "running"

Receiving == Running /\ CanProcessMessages(loop) /\ pos.tx \in Tx

StreamUnchanged == UNCHANGED <<confirmed, durable, written, orphans, shutdown, failures>>

ReceiveBegin ==
  /\ Receiving /\ pos.step = 0
  /\ \E budget \in 1..MaxBatch : loop' = EndIteration(HandleBegin(loop, budget))
  /\ pos' = NextPos(pos)
  /\ StreamUnchanged

ReceiveChange ==
  /\ Receiving /\ pos.step \in 1..Size[pos.tx]
  /\ \E budget \in 1..MaxBatch : loop' = EndIteration(HandleChange(loop, budget))
  /\ pos' = NextPos(pos)
  /\ StreamUnchanged

ReceiveCommit ==
  /\ Receiving /\ pos.step = LastStep(pos.tx)
  /\ \E budget \in 1..MaxBatch : loop' = EndIteration(HandleCommit(loop, budget))
  /\ pos' = NextPos(pos)
  /\ StreamUnchanged

ReceiveKeepAlive ==
  /\ Running /\ CanProcessMessages(loop)
  /\ \E lsn \in KeepAliveLsns : loop' = EndIteration(HandleKeepAlive(loop, lsn))
  /\ UNCHANGED pos
  /\ StreamUnchanged

\* The walsender skips a transaction without published changes.
SkipEmptyTransaction ==
  /\ Running /\ pos.tx \in Tx /\ pos.step = 0 /\ Size[pos.tx] = 0
  /\ pos' = [pos EXCEPT !.tx = @ + 1]
  /\ UNCHANGED loop
  /\ StreamUnchanged

FlushDeadline ==
  /\ Running /\ CanWaitForDeadline(loop) /\ loop.deadline
  /\ loop' = EndIteration(FlushBatch(loop))
  /\ UNCHANGED pos
  /\ StreamUnchanged

KeepAliveDeadline ==
  /\ Running
  /\ loop' = EndIteration(SendStatusUpdate(loop))
  /\ UNCHANGED pos
  /\ StreamUnchanged

\* The destination applies the batch in flight and its acknowledgement is
\* handled; progress is stored when the batch ends a transaction.
FlushResult ==
  /\ Running /\ HasPendingFlushResult(loop)
  /\ written' = written \o loop.inflight
  /\ durable' = MaxLsn(durable, loop.inflight_end)
  /\ loop' = EndIteration(HandleFlushResult(loop, durable'))
  /\ UNCHANGED <<pos, confirmed, orphans, shutdown, failures>>

ShutdownSignal ==
  /\ Running /\ shutdown /\ ~loop.draining
  /\ loop' = EndIteration(HandleShutdownSignal(loop))
  /\ UNCHANGED pos
  /\ StreamUnchanged

RequestShutdown ==
  /\ ~shutdown
  /\ shutdown' = TRUE
  /\ UNCHANGED <<pos, confirmed, durable, loop, written, orphans, failures>>

\* PostgreSQL takes in a status update that the loop has sent.
ConfirmFlush ==
  /\ loop.reported > confirmed
  /\ confirmed' = loop.reported
  /\ UNCHANGED <<pos, durable, loop, written, orphans, shutdown, failures>>

\* Any error of an iteration: a lost connection, a rejected or failed write,
\* a store error.  The result of a batch in flight is dropped unseen.
LoopFails ==
  /\ Running /\ failures < MaxFailures
  /\ loop' = [loop EXCEPT !.status = "failed"]
  /\ orphans' = IF HasPendingFlushResult(loop) THEN Append(orphans, loop.inflight)
                                               ELSE orphans
  /\ failures' = failures + 1
  /\ UNCHANGED <<pos, confirmed, durable, written, shutdown>>

\* The apply worker retries: get_start_lsn, then a new loop and a new stream.
ApplyWorkerRestarts ==
  /\ Target = 0 /\ loop.status = "failed" /\ ~shutdown
  /\ LET start == MaxLsn(durable, confirmed)
     IN  /\ loop' = EndIteration(NewLoop(start))
         /\ pos' = StartOf(start)
  /\ UNCHANGED <<confirmed, durable, written, orphans, shutdown, failures>>

\* The destination finishes with a batch that nobody waits for any more.
OrphanResolved ==
  /\ orphans # <<>>
  /\ orphans' = Tail(orphans)
  /\ written' \in {written, written \o Head(orphans)}
  /\ UNCHANGED <<pos, confirmed, durable, loop, shutdown, failures>>

\* The loop has returned for good.
Terminated == ~Running /\ UNCHANGED vars

Next ==
  \/ ReceiveBegin \/ ReceiveChange \/ ReceiveCommit \/ ReceiveKeepAlive
  \/ SkipEmptyTransaction
  \/ FlushDeadline \/ KeepAliveDeadline \/ FlushResult
  \/ ShutdownSignal \/ RequestShutdown
  \/ ConfirmFlush
  \/ LoopFails \/ ApplyWorkerRestarts \/ OrphanResolved
  \/ Terminated

Spec == Init /\ [][Next]_vars

ReceiveMessage == ReceiveBegin \/ ReceiveChange \/ ReceiveCommit

ReceiveLatestKeepAlive == ReceiveKeepAlive /\ loop'.last_received >= CommitLsn(pos.tx)

-----------------------------------------------------------------------------
(* Correctness.                                                             *)

Loops ==
  [ status          : {"running", "paused", "completed", "failed"},
    start_lsn       : Nat,
    last_received   : Nat,
    last_flush      : Nat,
    last_commit_end : Nat,
    remote_final    : Nat,
    batch           : Seq(Event),
    deadline        : BOOLEAN,
    inflight        : Seq(Event),
    inflight_end    : Nat,
    paused          : BOOLEAN,
    exit_intent     : Intents,
    draining        : BOOLEAN,
    reported        : Nat,
    sync_done       : Nat ]

Positions == {p \in [tx : Nat \ {0}, step : Nat] : p.tx \in Tx => p.step <= LastStep(p.tx)}

\* Every variable has its type.
TypeOK ==
  /\ pos \in Positions
  /\ confirmed \in Nat
  /\ durable \in Nat
  /\ loop \in Loops
  /\ written \in Seq(Event)
  /\ orphans \in Seq(Seq(Event))
  /\ shutdown \in BOOLEAN
  /\ failures \in 0..MaxFailures

\* The events a subscriber of the slot is owed: those of the transactions that
\* publish something and that commit after the slot's consistent point.
Owed == {e \in Event : Size[e.tx] > 0 /\ CommitLsn(e.tx) >= StartLsn}

Delivered == Range(written)

OwedBefore(p) == {e \in Owed : Precedes(e, p)}

OwedBelow(lsn) == {e \in Owed : CommitLsn(e.tx) < lsn}

\* The books of a loop l that reads at p while the destination has applied W:
\* everything read is applied, in flight or in the batch, and every position
\* that the loop keeps is backed by what it stands for.
LoopAccounts(l, p, W) ==
  /\ OwedBefore(p) \subseteq W \cup Range(l.inflight) \cup Range(l.batch)
  /\ OwedBelow(l.last_flush) \subseteq W
  /\ OwedBelow(l.reported) \subseteq W
  /\ OwedBelow(l.inflight_end) \subseteq W \cup Range(l.inflight)
  /\ l.last_commit_end <= EndLsn(p.tx - 1)
  /\ l.last_received <= CommitLsn(p.tx)
  /\ l.remote_final = 0 => p.step = 0

\* The inductive invariant behind SkippedIsDelivered: the loop's books balance,
\* and so do the two positions that survive it.
AccountsBalance ==
  /\ LoopAccounts(loop, pos, Delivered)
  /\ OwedBelow(durable) \subseteq Delivered
  /\ OwedBelow(confirmed) \subseteq Delivered

\* No change is lost: a transaction that a restart would skip, because durable
\* progress, the slot, or a status update still under way has passed its commit
\* record, has been applied by the destination in full.
SkippedIsDelivered ==
  \A e \in Owed :
    CommitLsn(e.tx) < MaxLsn(durable, MaxLsn(confirmed, loop.reported)) => e \in Delivered

\* The destination never sees an event before all those that precede it in
\* commit order, even across loop failures, replays and late acknowledgements.
DeliveredWithoutGap ==
  \A i \in 1..Len(written) :
    \A e \in Owed :
      Precedes(e, written[i]) => \E j \in 1..(i - 1) : written[j] = e

\* What the loop holds, in flight and then in its batch, is exactly the latest
\* part of what it has received, in order and with nothing twice.
BufferIsSuffixOfReceived ==
  LET held == loop.inflight \o loop.batch
  IN  /\ \A i \in 1..Len(held) : \A e \in Owed :
           Precedes(e, held[i]) => (Precedes(e, held[1]) \/ \E j \in 1..(i - 1) : held[j] = e)
      /\ held # <<>> => \A e \in Owed : Precedes(held[Len(held)], e) => ~Precedes(e, pos)
      /\ \A i, j \in 1..Len(held) : i < j => Precedes(held[i], held[j])

\* The debug_assert!s of ReplicationProgress and of send_status_update: flushed
\* and reported positions never pass what has been received.
ProgressIsOrdered ==
  /\ loop.last_flush <= loop.last_received
  /\ loop.reported <= loop.last_received
  /\ durable <= loop.last_received

\* A loop that ends without an error has drained: everything it read from the
\* stream is at the destination, and a paused loop has told PostgreSQL about all
\* that it may release (handle_shutdown_signal, try_finish_active_iteration).
GracefulExitDrains ==
  /\ loop.status \in {"paused", "completed"} =>
       \A e \in Owed : Precedes(e, pos) => e \in Delivered
  /\ loop.status = "paused" => loop.reported >= EffectiveFlushLsn(loop)

\* A table-sync loop returns Completed exactly when it has stored SyncDone, also
\* when a shutdown races the last flush.
CompletedIffSyncDone ==
  loop.status \in {"paused", "completed"} =>
    (loop.status = "completed" <=> loop.sync_done # 0)

\* The SyncDone position splits the stream: the table-sync worker has delivered
\* every transaction that commits before it and none that commits at or after
\* it, which are the ones the apply worker takes over.
HandoverIsExact ==
  loop.sync_done # 0 =>
    /\ loop.sync_done >= Target
    /\ \A e \in Owed : e \in Delivered <=> CommitLsn(e.tx) < loop.sync_done

\* What a shutdown request, which is never taken back, must come to.
StoppedIfAsked == shutdown => ~Running

\* What comes of the stream unless the pipeline is shut down, across failures of the
\* apply worker's loop.
AllDelivered == shutdown \/ Owed \subseteq Delivered

\* What comes of a table-sync loop without a shutdown or a failure.
CaughtUp == shutdown \/ loop.status \in {"completed", "failed"}
=============================================================================

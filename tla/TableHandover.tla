--------------------------- MODULE TableHandover ---------------------------
(***************************************************************************)
(* How the apply worker and the table-sync workers share the tables of a   *)
(* pipeline.  A table-sync worker (workers/table_sync.rs and               *)
(* replication/table_sync.rs) copies its table from a snapshot, waits in   *)
(* SyncWait, streams the table from the snapshot up to the position that   *)
(* the apply worker names (Catchup) and hands the table over at SyncDone;  *)
(* the apply worker (the apply_worker hooks of replication/apply.rs) skips *)
(* the changes of a table that it does not own yet.                        *)
(*                                                                         *)
(* The two apply loops are reduced to what the handover depends on, which  *)
(* ApplyLoop models in full: a position in the stream, the changes that    *)
(* are buffered or in flight, and the LSNs received and flushed.  Phases   *)
(* live in two places, in the memory of an active worker and in the store, *)
(* and the hooks read both.                                                *)
(***************************************************************************)
EXTENDS Lsn, Sequences, FiniteSets, FiniteSetsExt

CONSTANTS
  Tables,       \* the tables of the publication
  MaxTx,        \* transactions that the source commits
  Rows,         \* Rows[k]: the table of each row change of transaction k
  Permits,      \* max_table_sync_workers
  MaxAttempts,  \* table_error_retry_max_attempts
  RetryDelay,   \* whether a timed retry sleeps, long enough for a waiter to wake up
  StoreCanFail, \* whether storing SyncDone may fail
  MaxFailures   \* failures and crashes that are explored

ASSUME ConstantsAssumption ==
  /\ IsFiniteSet(Tables)
  /\ MaxTx \in Nat
  /\ Rows \in [1..MaxTx -> Seq(Tables) \ {<<>>}]
  /\ Permits \in Nat \ {0}
  /\ MaxAttempts \in Nat
  /\ RetryDelay \in BOOLEAN
  /\ StoreCanFail \in BOOLEAN
  /\ MaxFailures \in Nat

VARIABLES
  committed,  \* transactions that the source has committed
  stored,     \* stored[t]: the table's phase in the store, and the one before it
  durable,    \* the apply worker's row of etl.replication_progress
  confirmed,  \* confirmed_flush_lsn of the apply worker's slot
  applier,    \* the apply worker
  workers,    \* workers[t]: the pool's last worker for the table
  dest,       \* dest[t]: the row changes that the destination table reflects, in order
  failures    \* failures and crashes so far

vars == <<committed, stored, durable, confirmed, applier, workers, dest, failures>>

-----------------------------------------------------------------------------
(* The source and the destination.  [tx, step] is a row change, or the      *)
(* COMMIT when step is past the last row.                                   *)

CommitStep(k) == Len(Rows[k]) + 1

CommitOf(k) == [tx |-> k, step |-> CommitStep(k)]

IsCommit(e) == e.step = CommitStep(e.tx)

RowsFor(t, events) == SelectSeq(events, LAMBDA e : ~IsCommit(e) /\ Rows[e.tx][e.step] = t)

TxRows(k) == [i \in 1..Len(Rows[k]) |-> [tx |-> k, step |-> i]]

History[k \in 0..MaxTx] == IF k = 0 THEN <<>> ELSE History[k - 1] \o TxRows(k)

\* What a snapshot at `lsn` shows of a table.
SnapshotOf(t, lsn) == RowsFor(t, History[FirstTxFrom(lsn) - 1])

\* The end of the last transaction that `events` completes, 0 if there is none.
CommitEnd(events) ==
  Max({0} \cup {EndLsn(events[i].tx) : i \in {j \in DOMAIN events : IsCommit(events[j])}})

Prefix(events, i) == SubSeq(events, 1, i)

Rest(events, i) == SubSeq(events, i + 1, Len(events))

-----------------------------------------------------------------------------
(* Phases.                                                                  *)

PhaseTypes == {"Init", "DataSync", "FinishedCopy", "SyncWait", "Catchup",
               "SyncDone", "Ready", "Errored"}

Phase(type) == [type |-> type, lsn |-> 0]

PhaseAt(type, lsn) == [type |-> type, lsn |-> lsn]

\* update_table_replication_state and rollback_table_replication_state.  A
\* rollback always follows the update that stored Errored.
Update(row, phase) == [cur |-> phase, prev |-> row.cur]

Rollback(row) == [cur |-> row.prev, prev |-> row.prev]

\* Mutant: a table in FinishedCopy is not looked at again.
SyncingUnlessCopied(store) ==
  {t \in Tables : store[t].cur.type \notin {"FinishedCopy", "Ready", "Errored"}}

\* get_syncing_tables: the tables whose phase is not done.
Syncing(store) == {t \in Tables : store[t].cur.type \notin {"Ready", "Errored"}}

-----------------------------------------------------------------------------
(* Table-sync workers.                                                      *)

NewWorker(pc, phase) ==
  [ pc            |-> pc,
    phase         |-> phase,
    snapshot      |-> 0,
    tx            |-> 1,
    buf           |-> <<>>,
    last_received |-> 0,
    last_flush    |-> 0,
    completing    |-> FALSE,
    attempts      |-> 0 ]

NoWorker == NewWorker("none", Phase("Init"))

HoldingPermit == {"start", "prepared", "copying", "copied", "wait", "stream", "complete", "failing"}

ActiveWorker(t) == workers[t].pc \notin {"none", "finished"}

\* Mutant: a transaction at the SyncDone position is skipped.
IsPhaseReadyStrict(phase, remote_final_lsn) ==
  phase.type = "Ready" \/ (phase.type = "SyncDone" /\ phase.lsn < remote_final_lsn)

\* is_phase_ready_for_changes
IsPhaseReady(phase, remote_final_lsn) ==
  phase.type = "Ready" \/ (phase.type = "SyncDone" /\ phase.lsn <= remote_final_lsn)

\* Mutant: the apply worker takes over after the copy.
ShouldApplyChangesOnceCopied(t, remote_final_lsn) ==
  stored[t].cur.type = "FinishedCopy" \/ IsPhaseReady(stored[t].cur, remote_final_lsn)

ShouldApplyChanges(t, remote_final_lsn) ==
  IsPhaseReady(IF ActiveWorker(t) THEN workers[t].phase ELSE stored[t].cur, remote_final_lsn)

-----------------------------------------------------------------------------
(* The apply worker.  `hook` is the pass over the syncing tables that it is *)
(* in: after a commit, after a flush, or when idle.  `todo` holds the       *)
(* phases as get_syncing_tables read them.                                  *)

NoHook == [kind |-> "none", lsn |-> 0, todo |-> <<>>, waiting |-> {}]

ApplierAt(start) ==
  [ tx            |-> FirstTxFrom(start),
    step          |-> 1,
    buf           |-> <<>>,
    last_received |-> start,
    last_flush    |-> start,
    hook          |-> NoHook ]

IsIdle(a) == a.step = 1 /\ a.buf = <<>>

EffectiveFlushLsn(a) == IF IsIdle(a) THEN a.last_received ELSE a.last_flush

BeginHook(a, kind, lsn, store) ==
  [a EXCEPT !.hook = [kind    |-> kind,
                      lsn     |-> lsn,
                      todo    |-> [t \in Syncing(store) |-> store[t].cur],
                      waiting |-> {}]]

\* The idle hook precedes whatever the loop does next.
EndIteration(a, store) ==
  IF IsIdle(a) /\ Syncing(store) # {} THEN BeginHook(a, "idle", EffectiveFlushLsn(a), store)
                                      ELSE [a EXCEPT !.hook = NoHook]

\* Once the hook has seen every table, the handler that called it goes on: a
\* COMMIT joins the batch only now.
ContinueHook(a, store) ==
  IF DOMAIN a.hook.todo # {} \/ a.hook.waiting # {} THEN a
  ELSE IF a.hook.kind = "commit"
       THEN [a EXCEPT !.buf = Append(@, CommitOf(a.tx - 1)), !.hook = NoHook]
  ELSE IF a.hook.kind = "flush" THEN EndIteration(a, store)
  ELSE [a EXCEPT !.hook = NoHook]

Seen(a, t) == [a EXCEPT !.hook.todo = [u \in DOMAIN @ \ {t} |-> @[u]]]

Streaming == applier.hook.kind = "none"

ApplyRow ==
  /\ Streaming /\ applier.tx <= committed /\ applier.step < CommitStep(applier.tx)
  /\ LET row  == [tx |-> applier.tx, step |-> applier.step]
         take == ShouldApplyChanges(Rows[row.tx][row.step], CommitLsn(row.tx))
     IN  applier' = [applier EXCEPT
                       !.step = @ + 1,
                       !.last_received = MaxLsn(@, EndLsn(row.tx - 1)),
                       !.buf = IF take THEN Append(@, row) ELSE @]
  /\ UNCHANGED <<committed, stored, durable, confirmed, workers, dest, failures>>

ApplyCommit ==
  /\ Streaming /\ applier.tx <= committed /\ applier.step = CommitStep(applier.tx)
  /\ LET lsn   == EndLsn(applier.tx)
         ended == [applier EXCEPT !.tx = @ + 1, !.step = 1, !.last_received = MaxLsn(@, lsn)]
     IN  applier' = ContinueHook(BeginHook(ended, "commit", lsn, stored), stored)
  /\ UNCHANGED <<committed, stored, durable, confirmed, workers, dest, failures>>

ApplyKeepAlive ==
  /\ Streaming
  /\ \E lsn \in {EndLsn(applier.tx - 1), CommitLsn(applier.tx)} :
       applier' = EndIteration([applier EXCEPT !.last_received = MaxLsn(@, lsn)], stored)
  /\ UNCHANGED <<committed, stored, durable, confirmed, workers, dest, failures>>

\* The destination applies a batch and the acknowledgement is handled.
ApplyFlush ==
  /\ Streaming
  /\ \E i \in 1..Len(applier.buf) :
       LET batch   == Prefix(applier.buf, i)
           end     == CommitEnd(batch)
           flushed == [applier EXCEPT !.buf = Rest(@, i), !.last_flush = MaxLsn(@, end)]
       IN  /\ dest' = [t \in Tables |-> dest[t] \o RowsFor(t, batch)]
           /\ durable' = MaxLsn(durable, end)
           /\ applier' = IF end = 0
                         THEN EndIteration(flushed, stored)
                         ELSE ContinueHook(BeginHook(flushed, "flush", flushed.last_flush, stored),
                                           stored)
  /\ UNCHANGED <<committed, stored, confirmed, workers, failures>>

\* A status update reaches PostgreSQL.
ConfirmFlush ==
  /\ Streaming /\ EffectiveFlushLsn(applier) > confirmed
  /\ confirmed' = EffectiveFlushLsn(applier)
  /\ UNCHANGED <<committed, stored, durable, applier, workers, dest, failures>>

-----------------------------------------------------------------------------
(* The hooks: process_single_syncing_table_after_commit, _after_flush and   *)
(* _when_idle, one table at a time.  An active worker's phase is read under *)
(* its lock, the phase of a table without one is the one in `todo`.         *)

HookAt(t) == applier.hook.waiting = {} /\ t \in DOMAIN applier.hook.todo

MayStartCatchup == applier.hook.kind \in {"commit", "idle"}

MayMakeReady == applier.hook.kind \in {"flush", "idle"}

SeenPhase(t) == IF ActiveWorker(t) THEN workers[t].phase ELSE applier.hook.todo[t]

CanStartCatchup(t) ==
  MayStartCatchup /\ ActiveWorker(t) /\ workers[t].phase.type \in {"SyncWait", "Catchup"}

CatchupPhase(t) ==
  LET phase == workers[t].phase
  IN  IF phase.type = "Catchup" THEN phase
      ELSE PhaseAt("Catchup", MaxLsn(phase.lsn, applier.hook.lsn))

\* Mutant: a table becomes Ready before the apply worker reaches SyncDone.
CanBecomeReadyEarly(t) == MayMakeReady /\ SeenPhase(t).type = "SyncDone"

CanBecomeReady(t) ==
  /\ MayMakeReady
  /\ SeenPhase(t).type = "SyncDone"
  /\ applier.hook.lsn >= SeenPhase(t).lsn

CanSpawnWorker(t) == ~ActiveWorker(t) /\ applier.hook.todo[t].type # "SyncDone"

\* Mutant: the apply worker does not wait for the catch-up.
HookWithoutWait(t) ==
  /\ HookAt(t) /\ CanStartCatchup(t)
  /\ workers' = [workers EXCEPT ![t].phase = CatchupPhase(t)]
  /\ applier' = ContinueHook(Seen(applier, t), stored)
  /\ UNCHANGED <<committed, stored, durable, confirmed, dest, failures>>

\* SyncWait -> Catchup, and wait_for_table_sync_worker_catchup.
HookStartsCatchup(t) ==
  /\ HookAt(t) /\ CanStartCatchup(t)
  /\ workers' = [workers EXCEPT ![t].phase = CatchupPhase(t)]
  /\ applier' = [Seen(applier, t) EXCEPT !.hook.waiting = {t}]
  /\ UNCHANGED <<committed, stored, durable, confirmed, dest, failures>>

\* wait_for_phase_type returns: the worker is done with the table, or failed.
HookWakesUp(t) ==
  /\ t \in applier.hook.waiting
  /\ workers[t].phase.type \in {"SyncDone", "Errored"}
  /\ applier' = ContinueHook([applier EXCEPT !.hook.waiting = {}], stored)
  /\ UNCHANGED <<committed, stored, durable, confirmed, workers, dest, failures>>

HookMakesReady(t) ==
  /\ HookAt(t) /\ CanBecomeReady(t)
  /\ stored' = [stored EXCEPT ![t] = Update(@, Phase("Ready"))]
  /\ applier' = ContinueHook(Seen(applier, t), stored')
  /\ UNCHANGED <<committed, durable, confirmed, workers, dest, failures>>

\* spawn_into_pool reads the phase again before it starts the worker.
HookSpawnsWorker(t) ==
  /\ HookAt(t) /\ CanSpawnWorker(t)
  /\ workers' = [workers EXCEPT ![t] = NewWorker("permit", stored[t].cur)]
  /\ applier' = ContinueHook(Seen(applier, t), stored)
  /\ UNCHANGED <<committed, stored, durable, confirmed, dest, failures>>

HookSkipsTable(t) ==
  /\ HookAt(t) /\ ~CanStartCatchup(t) /\ ~CanBecomeReady(t) /\ ~CanSpawnWorker(t)
  /\ applier' = ContinueHook(Seen(applier, t), stored)
  /\ UNCHANGED <<committed, stored, durable, confirmed, workers, dest, failures>>

-----------------------------------------------------------------------------
(* The table-sync worker: a permit, start_table_sync, and the catch-up.     *)

AcquirePermit(t) ==
  /\ workers[t].pc = "permit"
  /\ Cardinality({u \in Tables : workers[u].pc \in HoldingPermit}) < Permits
  /\ workers' = [workers EXCEPT ![t].pc = "start"]
  /\ UNCHANGED <<committed, stored, durable, confirmed, applier, dest, failures>>

\* Phases from which start_table_sync does not copy.
CopyNotRequired(t) == workers[t].phase.type \in {"SyncDone", "Ready", "Errored"}

SyncNotRequired(t) ==
  /\ workers[t].pc = "start" /\ CopyNotRequired(t)
  /\ workers' = [workers EXCEPT ![t].pc = "finished"]
  /\ UNCHANGED <<committed, stored, durable, confirmed, applier, dest, failures>>

\* The destination table, the old slot and the copy's state are dropped.
PrepareCopy(t) ==
  /\ workers[t].pc = "start" /\ ~CopyNotRequired(t)
  /\ dest' = [dest EXCEPT ![t] = <<>>]
  /\ workers' = [workers EXCEPT ![t].pc = "prepared"]
  /\ UNCHANGED <<committed, stored, durable, confirmed, applier, failures>>

\* DataSync is stored, then the slot is created; its consistent point and the
\* exported snapshot show the same transactions.
CreateSlot(t) ==
  /\ workers[t].pc = "prepared"
  /\ stored' = [stored EXCEPT ![t] = Update(@, Phase("DataSync"))]
  /\ workers' = [workers EXCEPT ![t].pc = "copying",
                                ![t].phase = Phase("DataSync"),
                                ![t].snapshot = EndLsn(committed)]
  /\ UNCHANGED <<committed, durable, confirmed, applier, dest, failures>>

CopyTable(t) ==
  /\ workers[t].pc = "copying"
  /\ dest' = [dest EXCEPT ![t] = @ \o SnapshotOf(t, workers[t].snapshot)]
  /\ workers' = [workers EXCEPT ![t].pc = "copied"]
  /\ UNCHANGED <<committed, stored, durable, confirmed, applier, failures>>

\* FinishedCopy is stored; SyncWait is announced in memory only.
FinishCopy(t) ==
  /\ workers[t].pc = "copied"
  /\ stored' = [stored EXCEPT ![t] = Update(@, Phase("FinishedCopy"))]
  /\ workers' = [workers EXCEPT ![t].pc = "wait",
                                ![t].phase = PhaseAt("SyncWait", workers[t].snapshot)]
  /\ UNCHANGED <<committed, durable, confirmed, applier, dest, failures>>

\* Mutant: the position of the copy counts as caught up.
CatchupReachedAtCopy(w, lsn) == w.phase.type = "Catchup" /\ lsn >= w.snapshot

\* Mutant: the target itself does not count as reached.
CatchupReachedBeyond(w, lsn) == w.phase.type = "Catchup" /\ lsn > w.phase.lsn

CatchupReached(w, lsn) == w.phase.type = "Catchup" /\ lsn >= w.phase.lsn

\* try_complete_catchup at `lsn`, after the handler that leaves the worker as
\* w.  SyncDone is visible in memory before the store has it, and stays there
\* when the store fails.
TryCompleteCatchup(t, w, lsn) ==
  LET done == [w EXCEPT !.phase = PhaseAt("SyncDone", lsn)]
  IN  \/ /\ ~CatchupReached(w, lsn)
         /\ workers' = [workers EXCEPT ![t] = w]
         /\ UNCHANGED <<stored, failures>>
      \/ /\ CatchupReached(w, lsn)
         /\ workers' = [workers EXCEPT ![t] = [done EXCEPT !.pc = "complete"]]
         /\ stored' = [stored EXCEPT ![t] = Update(@, done.phase)]
         /\ UNCHANGED failures
      \/ /\ CatchupReached(w, lsn) /\ StoreCanFail /\ failures < MaxFailures
         /\ workers' = [workers EXCEPT ![t] = [done EXCEPT !.pc = "failing"]]
         /\ failures' = failures + 1
         /\ UNCHANGED stored

\* The catch-up loop starts at the snapshot, with its idle hook.
StartStreaming(t) ==
  /\ workers[t].pc = "wait" /\ workers[t].phase.type = "Catchup"
  /\ LET start == workers[t].snapshot
     IN  TryCompleteCatchup(t, [workers[t] EXCEPT !.pc = "stream",
                                                  !.tx = FirstTxFrom(start),
                                                  !.last_received = start,
                                                  !.last_flush = start], start)
  /\ UNCHANGED <<committed, durable, confirmed, applier, dest>>

\* A transaction with changes of the worker's table; the worker stops reading
\* once a commit is at the catch-up position or past it.
StreamTransaction(t) ==
  LET w == workers[t]
  IN  /\ w.pc = "stream" /\ ~w.completing /\ w.tx <= committed
      /\ workers' = [workers EXCEPT
           ![t].tx = @ + 1,
           ![t].last_received = MaxLsn(@, EndLsn(w.tx)),
           ![t].buf = @ \o RowsFor(t, TxRows(w.tx)) \o <<CommitOf(w.tx)>>,
           ![t].completing = CatchupReached(w, EndLsn(w.tx))]
      /\ UNCHANGED <<committed, stored, durable, confirmed, applier, dest, failures>>

StreamKeepAlive(t) ==
  LET w == workers[t]
  IN  /\ w.pc = "stream" /\ ~w.completing
      /\ \E lsn \in {EndLsn(w.tx - 1), CommitLsn(w.tx)} :
           LET heard == [w EXCEPT !.last_received = MaxLsn(@, lsn)]
           IN  TryCompleteCatchup(t, heard, IF w.buf = <<>> THEN heard.last_received ELSE 0)
      /\ UNCHANGED <<committed, durable, confirmed, applier, dest>>

\* A batch is acknowledged: the hook after the flush looks at the flushed
\* position, the idle hook that may follow at the received one.
CompletionLsn(w) ==
  IF CatchupReached(w, w.last_flush) \/ w.buf # <<>> \/ w.completing
  THEN w.last_flush ELSE w.last_received

StreamFlush(t) ==
  LET w == workers[t]
  IN  /\ w.pc = "stream"
      /\ \E i \in 1..Len(w.buf) :
           LET batch   == Prefix(w.buf, i)
               flushed == [w EXCEPT !.buf = Rest(@, i),
                                    !.last_flush = MaxLsn(@, CommitEnd(batch))]
           IN  /\ dest' = [dest EXCEPT ![t] = @ \o RowsFor(t, batch)]
               /\ TryCompleteCatchup(t, flushed, CompletionLsn(flushed))
      /\ UNCHANGED <<committed, durable, confirmed, applier>>

\* cleanup_resources, and the worker's task ends.
WorkerCompletes(t) ==
  /\ workers[t].pc = "complete"
  /\ workers' = [workers EXCEPT ![t].pc = "finished"]
  /\ UNCHANGED <<committed, stored, durable, confirmed, applier, dest, failures>>

-----------------------------------------------------------------------------
(* Failures: handle_table_sync_worker_error, the retries of both workers,   *)
(* and a crash of the process.                                              *)

Lands(t, events) == [dest EXCEPT ![t] = @ \o RowsFor(t, events)]

\* Nothing can go wrong while a worker waits for Catchup or cleans up.
CanFail(w) == w.pc \in HoldingPermit \ {"complete"} /\ w.phase.type # "SyncWait"

\* A worker fails.  The result of a batch in flight is dropped, whether or not
\* the destination has applied it.  Errored is set and stored under the lock.
FailWorker(t) ==
  /\ CanFail(workers[t])
  /\ failures < MaxFailures \/ workers[t].pc = "failing"
  /\ failures' = IF workers[t].pc = "failing" THEN failures ELSE failures + 1
  /\ \E i \in 0..Len(workers[t].buf) : dest' = Lands(t, Prefix(workers[t].buf, i))
  /\ UNCHANGED <<committed, durable, confirmed, applier>>

Errors(t, pc) == [NewWorker(pc, Phase("Errored")) EXCEPT !.attempts = workers[t].attempts]

Retries(t, phase) == [NewWorker("permit", phase) EXCEPT !.attempts = workers[t].attempts + 1]

\* Mutant: one retry too many.
CanRetryOnceMore(t) == workers[t].attempts <= MaxAttempts

CanRetry(t) == workers[t].attempts < MaxAttempts

WorkerFailsTimed(t) ==
  /\ RetryDelay /\ CanRetry(t) /\ FailWorker(t)
  /\ stored' = [stored EXCEPT ![t] = Update(@, Phase("Errored"))]
  /\ workers' = [workers EXCEPT ![t] = Errors(t, "sleep")]

\* Without a delay the lock is held from Errored to the rollback: nobody sees
\* Errored, in memory or in the store.
WorkerRetriesAtOnce(t) ==
  /\ ~RetryDelay /\ CanRetry(t) /\ FailWorker(t)
  /\ workers' = [workers EXCEPT ![t] = Retries(t, stored[t].cur)]
  /\ UNCHANGED stored

\* A manual error, or no attempts left.
WorkerFailsForGood(t) ==
  /\ FailWorker(t)
  /\ stored' = [stored EXCEPT ![t] = Update(@, Phase("Errored"))]
  /\ workers' = [workers EXCEPT ![t] = Errors(t, "finished")]

\* The store fails as well: the worker ends with Errored in memory only.
WorkerFailsUnstored(t) ==
  /\ FailWorker(t)
  /\ workers' = [workers EXCEPT ![t] = Errors(t, "finished")]
  /\ UNCHANGED stored

\* The delay is over.  It is assumed to outlast the wake-up of a waiter.
WorkerRetries(t) ==
  /\ workers[t].pc = "sleep" /\ t \notin applier.hook.waiting
  /\ stored' = [stored EXCEPT ![t] = Rollback(@)]
  /\ workers' = [workers EXCEPT ![t] = Retries(t, stored'[t].cur)]
  /\ UNCHANGED <<committed, durable, confirmed, applier, dest, failures>>

RestartLsn == MaxLsn(durable, confirmed)

\* The apply worker fails and retries; the pool and its workers live on.
ApplierFails ==
  /\ failures < MaxFailures /\ applier.hook.waiting = {}
  /\ failures' = failures + 1
  /\ \E i \in 0..Len(applier.buf) :
       dest' = [t \in Tables |-> dest[t] \o RowsFor(t, Prefix(applier.buf, i))]
  /\ applier' = EndIteration(ApplierAt(RestartLsn), stored)
  /\ UNCHANGED <<committed, stored, durable, confirmed, workers>>

\* The process dies and is started again: memory is gone, the store is not.
Crash ==
  /\ failures < MaxFailures
  /\ failures' = failures + 1
  /\ \E i \in 0..Len(applier.buf), all \in BOOLEAN :
       dest' = [t \in Tables |-> dest[t]
                  \o RowsFor(t, IF all THEN workers[t].buf ELSE <<>>)
                  \o RowsFor(t, Prefix(applier.buf, i))]
  /\ workers' = [t \in Tables |-> NoWorker]
  /\ applier' = EndIteration(ApplierAt(RestartLsn), stored)
  /\ UNCHANGED <<committed, stored, durable, confirmed>>

-----------------------------------------------------------------------------

Init ==
  /\ committed = 0
  /\ stored = [t \in Tables |-> [cur |-> Phase("Init"), prev |-> Phase("Init")]]
  /\ durable = 0
  /\ confirmed = 0
  /\ applier = EndIteration(ApplierAt(0), stored)
  /\ workers = [t \in Tables |-> NoWorker]
  /\ dest = [t \in Tables |-> <<>>]
  /\ failures = 0

SourceCommits ==
  /\ committed < MaxTx
  /\ committed' = committed + 1
  /\ UNCHANGED <<stored, durable, confirmed, applier, workers, dest, failures>>

HookStep(t) ==
  \/ HookStartsCatchup(t) \/ HookWakesUp(t) \/ HookMakesReady(t)
  \/ HookSpawnsWorker(t) \/ HookSkipsTable(t)

SyncStep(t) ==
  \/ SyncNotRequired(t) \/ PrepareCopy(t) \/ CreateSlot(t) \/ CopyTable(t) \/ FinishCopy(t)
  \/ StartStreaming(t) \/ StreamFlush(t) \/ WorkerCompletes(t) \/ WorkerRetries(t)

WorkerFailure(t) ==
  \/ WorkerFailsTimed(t) \/ WorkerRetriesAtOnce(t) \/ WorkerFailsForGood(t)
  \/ WorkerFailsUnstored(t)

Next ==
  \/ SourceCommits
  \/ ApplyRow \/ ApplyCommit \/ ApplyKeepAlive \/ ApplyFlush \/ ConfirmFlush
  \/ \E t \in Tables :
       \/ HookStep(t) \/ AcquirePermit(t) \/ SyncStep(t) \/ StreamTransaction(t)
       \/ StreamKeepAlive(t) \/ WorkerFailure(t)
  \/ ApplierFails \/ Crash

Spec == Init /\ [][Next]_vars

\* The tasks are scheduled, the destination answers, and PostgreSQL sends what
\* it has: pending transactions, and keep-alives that reach the end of the WAL.
FairSpec ==
  /\ Spec
  /\ SF_vars(ApplyRow \/ ApplyCommit)
  /\ SF_vars(ApplyKeepAlive /\ applier'.last_received >= CommitLsn(applier.tx))
  /\ SF_vars(ApplyFlush /\ applier'.buf = <<>>)
  /\ \A t \in Tables :
       /\ WF_vars(HookStep(t))
       /\ SF_vars(AcquirePermit(t))
       /\ WF_vars(SyncStep(t) /\ ~(workers[t].pc = "stream" /\ workers'[t].buf # <<>>))
       /\ WF_vars(StreamTransaction(t))
       /\ WF_vars(StreamKeepAlive(t) /\ workers'[t].last_received >= CommitLsn(workers[t].tx))
       /\ WF_vars(workers[t].pc = "failing" /\ WorkerFailure(t))

-----------------------------------------------------------------------------
(* Correctness.                                                             *)

RowIds == UNION {{[tx |-> k, step |-> i] : i \in 1..Len(Rows[k])} : k \in 1..MaxTx}

PhaseSet == [type : PhaseTypes, lsn : Nat]

\* Every variable has its type.
TypeOK ==
  /\ committed \in 0..MaxTx
  /\ stored \in [Tables -> [cur : PhaseSet, prev : PhaseSet]]
  /\ durable \in Nat /\ confirmed \in Nat
  /\ applier.tx \in 1..(MaxTx + 1) /\ applier.step \in Nat
  /\ applier.last_received \in Nat /\ applier.last_flush \in Nat
  /\ \A i \in DOMAIN applier.buf : applier.buf[i] \in RowIds \cup {CommitOf(k) : k \in 1..MaxTx}
  /\ applier.hook.kind \in {"none", "commit", "flush", "idle"}
  /\ DOMAIN applier.hook.todo \subseteq Tables /\ applier.hook.waiting \subseteq Tables
  /\ \A t \in Tables :
       /\ workers[t].pc \in HoldingPermit \cup {"none", "permit", "sleep", "finished"}
       /\ workers[t].phase \in PhaseSet
       /\ workers[t].snapshot \in Nat /\ workers[t].tx \in 1..(MaxTx + 1)
       /\ workers[t].attempts \in 0..MaxAttempts
       /\ \A i \in DOMAIN dest[t] : dest[t][i] \in RowIds
  /\ failures \in 0..MaxFailures

Written(t) == {dest[t][i] : i \in DOMAIN dest[t]}

RowsBefore(t, lsn) ==
  {r \in RowIds : Rows[r.tx][r.step] = t /\ r.tx < FirstTxFrom(lsn)}

\* A table that was handed over has every change that nobody will send again:
\* those that the table-sync worker answered for, up to the LSN of SyncDone, and
\* those before the position at which the apply worker would start again.
HandedOverIsComplete ==
  \A t \in Tables :
    LET phase == stored[t].cur
    IN  phase.type \in {"SyncDone", "Ready"} =>
          RowsBefore(t, IF phase.type = "SyncDone" THEN MaxLsn(phase.lsn, RestartLsn)
                                                   ELSE RestartLsn) \subseteq Written(t)

\* A change is written only after every earlier change of its table.
NoGapPerTable ==
  \A t \in Tables : \A i \in DOMAIN dest[t] :
    \A r \in RowsBefore(t, EndLsn(dest[t][i].tx)) :
      (r.tx < dest[t][i].tx \/ r.step < dest[t][i].step) => \E j \in 1..(i - 1) : dest[t][j] = r

\* As long as nothing fails, a table's changes are written exactly once and in
\* commit order: the copy, the catch-up and the apply worker meet without gap or
\* overlap.
ExactlyOnceWithoutFailures ==
  failures = 0 =>
    \A t \in Tables : LET all == SnapshotOf(t, EndLsn(MaxTx))
                      IN  \E i \in 0..Len(all) : dest[t] = Prefix(all, i)

\* While a worker is in Catchup the apply worker stands still and waits for it.
ApplierWaitsDuringCatchup ==
  \A t \in Tables :
    ActiveWorker(t) /\ workers[t].phase.type = "Catchup" => t \in applier.hook.waiting

\* When a table has been handed over and the apply worker has nothing left to do
\* for it, the last images written are the latest ones: a replayed change is
\* always followed by the changes that came after it.
SettledImagesAreLatest ==
  \A t \in Tables :
    (/\ stored[t].cur.type = "Ready" /\ ~ActiveWorker(t)
     /\ applier.tx > committed /\ applier.buf = <<>>) =>
      \A i \in DOMAIN dest[t] : \A r \in Written(t) :
        (r.tx > dest[t][i].tx \/ (r.tx = dest[t][i].tx /\ r.step > dest[t][i].step))
          => \E j \in i..Len(dest[t]) : dest[t][j] = r

\* Every table ends up handed over, or is left in Errored.
TablesSettle ==
  \A t \in Tables : <>[](stored[t].cur.type \in {"Ready", "Errored"})

\* The apply worker does not wait for a table for ever.
WaitsEnd ==
  \A t \in Tables : t \in applier.hook.waiting ~> t \notin applier.hook.waiting

\* A table that is ready receives every change that the source commits.
ReadyTablesFollow ==
  \A t \in Tables : <>[](stored[t].cur.type = "Ready"
                            => RowsBefore(t, EndLsn(committed)) \subseteq Written(t))
=============================================================================

----------------------------- MODULE MCProgress -----------------------------
(***************************************************************************)
(* The liveness properties of the components, on small instances.          *)
(* The components share no state in these models, so each behaviour is     *)
(* one component's: part names it, and the slots v1, v2, ... hold its      *)
(* variables in the order of its INSTANCE.                                 *)
(***************************************************************************)
EXTENDS Instances, FiniteSets

Unused == "unused"

-----------------------------------------------------------------------------
VARIABLES part, v1, v2, v3, v4, v5, v6, v7, v8, v9, v10, v11, v12, v13, v14, v15, v16, v17, v18,
          v19, v20

Life == INSTANCE PipelineLifecycle
  WITH SyncTables <- {"t1", "t2"}, max_table_sync_workers <- 1, MaxSpawns <- 3,
       SignalDuringStart <- FALSE,
       stage <- v1, signalled <- v2, heard <- v3, monitor <- v4, apply <- v5,
       waitsFor <- v6, worker <- v7, permits <- v8, joining <- v9,
       destination <- v10, spawns <- v11

Copy == INSTANCE TableCopy
  WITH Rows <- CopyRows, BlockOf <- CopyBlock, LeafOf <- CopyLeaf, Blocks <- 5,
       Kept <- {"a", "c"},
       Layouts <- {Layout(FALSE, TRUE, 2), Layout(TRUE, FALSE, 2), Layout(TRUE, TRUE, 1)},
       MaxBatchBytes <- 2, MemoryBudget <- 3, MaxMemory <- 2, Activate <- 2,
       Resume <- 1, MaxFaults <- 1,
       layout <- v1, parts <- v2, spawned <- v3, task <- v4, permits <- v5, main <- v6,
       dest <- v7, result <- v8, pressure <- v9, shutdown <- v10, faults <- v11

Apply == INSTANCE ApplyLoop
  WITH MaxTx <- 2, Size <- <<1, 1>>, StartLsn <- 0, Target <- 0, MaxBatch <- 2,
       MaxFailures <- 1,
       pos <- v1, confirmed <- v2, durable <- v3, loop <- v4, written <- v5, orphans <- v6,
       shutdown <- v7, failures <- v8

Sync == INSTANCE ApplyLoop
  WITH MaxTx <- 3, Size <- <<1, 0, 1>>, StartLsn <- 1, Target <- 3, MaxBatch <- 2,
       MaxFailures <- 1,
       pos <- v1, confirmed <- v2, durable <- v3, loop <- v4, written <- v5, orphans <- v6,
       shutdown <- v7, failures <- v8

Schema == INSTANCE SchemaChanges
  WITH Wals <- OrderedWals, MaxCached <- 2, RetryInProcess <- TRUE, MaxRestarts <- 1,
       wal <- v1, versions <- v2, cached <- v3, shared <- v4, metadata <- v5,
       durable <- v6, loop <- v7, flight <- v8, diff <- v9, created <- v10,
       cleanup <- v11, restarts <- v12

Duck == INSTANCE DuckLakeReplay
  WITH Columns <- {"k", "v", "w"}, Identity <- {"k"}, BatchSize <- 2, Tables <- {"a", "b"},
       Streams <- DuckStreams, Chunks <- DuckChunks, MaxRetries <- 1,
       MaxFaults <- 2, OrphansOutliveRetry <- FALSE,
       stream <- v1, rows <- v2, watermark <- v3, markers <- v4, copied <- v5,
       copyTries <- v6, call <- v7, task <- v8, orphan <- v9, acked <- v10,
       faults <- v11

Blocking == INSTANCE DuckDbBlocking
  WITH Ops <- Calls, CanHang <- {"o1"},
       caller <- v1, closure <- v2, watchdog <- v3, deadline <- v4, handle <- v5,
       signal <- v6, timedOut <- v7, failed <- v8, target <- v9, permit <- v10,
       pooled <- v11, user <- v12, interrupted <- v13, aborted <- v14

Pause == INSTANCE DuckLakeMaintenance
  WITH Writers <- {"w1", "w2"}, KindOf <- [w1 |-> "events", w2 |-> "truncate"],
       TableCreated <- {"w1"}, Backends <- {"kubernetes"},
       Policy <- {"expire_snapshots"}, Demands <- {{"old_snapshots"}}, MaxRuns <- 1,
       MaxFaults <- 1, AbortTasks <- FALSE,
       gate <- v1, slots <- v2, step <- v3, mutating <- v4, store <- v5, expired <- v6,
       down <- v7, held <- v8, watcher <- v9, seen <- v10, asked <- v11,
       daily <- v12, backend <- v13, runs <- v14, faults <- v15

Runner == INSTANCE MaintenanceRunner
  WITH Tables <- <<"__etl_m", "t1">>, Internal <- {"__etl_m"},
       Configs <- {RunnerConfig(TRUE, TRUE, 2, TRUE, 0)}, MaxFiles <- 1,
       MaxRuns <- 1, MaxWrites <- 1, MaxFaults <- 1,
       config <- v1, todo <- v2, names <- v3, outcome <- v4, result <- v5, lake <- v6,
       superseded <- v7, scheduled <- v8, closure <- v9, watchdog <- v10,
       connection <- v11, clock <- v12, handle <- v13, signal <- v14,
       timed_out <- v15, failed <- v16, written <- v17, runs <- v18, writes <- v19,
       faults <- v20

slots == <<v1, v2, v3, v4, v5, v6, v7, v8, v9, v10, v11, v12, v13, v14, v15, v16, v17, v18,
           v19, v20>>

LifeInit ==
  /\ part = "pipeline"
  /\ Life!LifeInit
  /\ v12 = Unused /\ v13 = Unused /\ v14 = Unused /\ v15 = Unused /\ v16 = Unused
     /\ v17 = Unused /\ v18 = Unused /\ v19 = Unused /\ v20 = Unused
LifeStep ==
  /\ part = "pipeline"
  /\ Life!LifeNext
  /\ UNCHANGED <<part, v12, v13, v14, v15, v16, v17, v18, v19, v20>>

CopyInit ==
  /\ part = "copy"
  /\ Copy!Init
  /\ v12 = Unused /\ v13 = Unused /\ v14 = Unused /\ v15 = Unused /\ v16 = Unused
     /\ v17 = Unused /\ v18 = Unused /\ v19 = Unused /\ v20 = Unused
CopyStep ==
  /\ part = "copy"
  /\ Copy!Next
  /\ UNCHANGED <<part, v12, v13, v14, v15, v16, v17, v18, v19, v20>>

ApplyInit ==
  /\ part = "apply_loop"
  /\ Apply!Init
  /\ v9 = Unused /\ v10 = Unused /\ v11 = Unused /\ v12 = Unused /\ v13 = Unused
     /\ v14 = Unused /\ v15 = Unused /\ v16 = Unused /\ v17 = Unused /\ v18 = Unused
     /\ v19 = Unused /\ v20 = Unused
ApplyStep ==
  /\ part = "apply_loop"
  /\ Apply!Next
  /\ UNCHANGED <<part, v9, v10, v11, v12, v13, v14, v15, v16, v17, v18, v19, v20>>

SyncInit ==
  /\ part = "sync_loop"
  /\ Sync!Init
  /\ v9 = Unused /\ v10 = Unused /\ v11 = Unused /\ v12 = Unused /\ v13 = Unused
     /\ v14 = Unused /\ v15 = Unused /\ v16 = Unused /\ v17 = Unused /\ v18 = Unused
     /\ v19 = Unused /\ v20 = Unused
SyncStep ==
  /\ part = "sync_loop"
  /\ Sync!Next
  /\ UNCHANGED <<part, v9, v10, v11, v12, v13, v14, v15, v16, v17, v18, v19, v20>>

SchemaInit ==
  /\ part = "schema"
  /\ Schema!Init
  /\ v13 = Unused /\ v14 = Unused /\ v15 = Unused /\ v16 = Unused /\ v17 = Unused
     /\ v18 = Unused /\ v19 = Unused /\ v20 = Unused
SchemaStep ==
  /\ part = "schema"
  /\ Schema!Next
  /\ UNCHANGED <<part, v13, v14, v15, v16, v17, v18, v19, v20>>

DuckInit ==
  /\ part = "ducklake"
  /\ Duck!Init
  /\ v12 = Unused /\ v13 = Unused /\ v14 = Unused /\ v15 = Unused /\ v16 = Unused
     /\ v17 = Unused /\ v18 = Unused /\ v19 = Unused /\ v20 = Unused
DuckStep ==
  /\ part = "ducklake"
  /\ Duck!Next
  /\ UNCHANGED <<part, v12, v13, v14, v15, v16, v17, v18, v19, v20>>

BlockingInit ==
  /\ part = "duckdb"
  /\ Blocking!Init
  /\ v15 = Unused /\ v16 = Unused /\ v17 = Unused /\ v18 = Unused /\ v19 = Unused
     /\ v20 = Unused
BlockingStep ==
  /\ part = "duckdb"
  /\ Blocking!Next
  /\ UNCHANGED <<part, v15, v16, v17, v18, v19, v20>>

PauseInit ==
  /\ part = "maintenance"
  /\ Pause!Init
  /\ v16 = Unused /\ v17 = Unused /\ v18 = Unused /\ v19 = Unused /\ v20 = Unused
PauseStep ==
  /\ part = "maintenance"
  /\ Pause!Next
  /\ UNCHANGED <<part, v16, v17, v18, v19, v20>>

RunnerInit ==
  /\ part = "runner"
  /\ Runner!RunnerInit
RunnerStep ==
  /\ part = "runner"
  /\ Runner!RunnerNext
  /\ UNCHANGED <<part>>

Init == LifeInit \/ CopyInit \/ ApplyInit \/ SyncInit \/ SchemaInit \/ DuckInit \/
        BlockingInit \/ PauseInit \/ RunnerInit
Next == LifeStep \/ CopyStep \/ ApplyStep \/ SyncStep \/ SchemaStep \/ DuckStep \/
        BlockingStep \/ PauseStep \/ RunnerStep

\* The fairness of each component, for the behaviours that are its own.
Fairness ==
  /\ WF_(Life!lifeVars)(part = "pipeline" /\ Life!Scheduled)
  /\ SF_(Life!lifeVars)(part = "pipeline" /\ Life!ApplyEnds)
  /\ \A t \in {"t1", "t2"} : SF_(Life!lifeVars)(part = "pipeline" /\ Life!WorkerStops(t))
  /\ WF_(Copy!copyVars)(part = "copy" /\ Copy!Copy)
  /\ WF_(Apply!vars)(part = "apply_loop" /\ Apply!FlushDeadline)
  /\ WF_(Apply!vars)(part = "apply_loop" /\ Apply!FlushResult)
  /\ WF_(Apply!vars)(part = "apply_loop" /\ Apply!ShutdownSignal)
  /\ WF_(Apply!vars)(part = "apply_loop" /\ Apply!ReceiveMessage)
  /\ WF_(Apply!vars)(part = "apply_loop" /\ Apply!ReceiveLatestKeepAlive)
  /\ WF_(Apply!vars)(part = "apply_loop" /\ Apply!ApplyWorkerRestarts)
  /\ WF_(Sync!vars)(part = "sync_loop" /\ Sync!FlushDeadline)
  /\ WF_(Sync!vars)(part = "sync_loop" /\ Sync!FlushResult)
  /\ WF_(Sync!vars)(part = "sync_loop" /\ Sync!ShutdownSignal)
  /\ WF_(Sync!vars)(part = "sync_loop" /\ Sync!ReceiveMessage)
  /\ WF_(Sync!vars)(part = "sync_loop" /\ Sync!SkipEmptyTransaction)
  /\ WF_(Sync!vars)(part = "sync_loop" /\ Sync!ReceiveLatestKeepAlive)
  /\ WF_(Schema!vars)(part = "schema" /\ Schema!Progress)
  /\ WF_(Duck!duckVars)(part = "ducklake" /\ Duck!Work)
  /\ \A o \in Calls :
       /\ WF_(Blocking!blockingVars)(part = "duckdb" /\ Blocking!FairPassDeadline(o))
       /\ WF_(Blocking!blockingVars)(part = "duckdb" /\ Blocking!FairOpStep(o))
       /\ WF_(Blocking!blockingVars)(part = "duckdb" /\ Blocking!FairAbort(o))
       /\ WF_(Blocking!blockingVars)(part = "duckdb" /\ Blocking!FairWatchdogStep(o))
  /\ \A w \in {"w1", "w2"} :
       WF_(Pause!maintenanceVars)(part = "maintenance" /\ Pause!Foreground(w))
  /\ WF_(Pause!maintenanceVars)(part = "maintenance" /\ Pause!Watcher)
  /\ WF_(Pause!maintenanceVars)(part = "maintenance" /\ Pause!LeaseExpires)
  /\ WF_(Runner!runnerVars)(part = "runner" /\ Runner!RunStep)
  /\ WF_(Runner!runnerVars)(part = "runner" /\ Runner!ClosureStep)
  /\ WF_(Runner!runnerVars)(part = "runner" /\ Runner!WatchdogStep)
  /\ WF_(Runner!runnerVars)(part = "runner" /\ Runner!FairPassDeadline)
  /\ WF_(Runner!runnerVars)(part = "runner" /\ Runner!FairQueryReturns)
  /\ WF_(Runner!runnerVars)(part = "runner" /\ Runner!abort_stuck_duckdb_maintenance_operation)

Spec == Init /\ [][Next]_<<part, slots>> /\ Fairness

-----------------------------------------------------------------------------
(* Properties.                                                             *)

\* Once shutdown is signalled, or the apply worker has failed for good,
\* Pipeline::wait returns: nobody waits for a worker, a permit or the memory
\* monitor for ever.
WaitReturns == <>[](part = "pipeline" => ~Life!Waiting)

\* A copy ends when the pipeline shuts down, even when the memory monitor has
\* stopped with the pressure on, and it ends once memory stays free
\* (TryBatchBackpressureStream::poll_next).
CopyEnds == []<>(part = "copy" => Copy!Over \/ Copy!Held)

\* A shutdown request ends the apply loop whatever it holds or waits for at that
\* moment: a batch in flight, a full batch behind it, a failed loop (finish_shutdown,
\* try_finish_active_iteration, handle_flush_result).
ShutdownEndsLoop == <>[](part = "apply_loop" => Apply!StoppedIfAsked)

\* Unless the pipeline is shut down, everything the apply worker owes the
\* destination is delivered, across a failure of its loop: a batch that is not full
\* is sent by its deadline (add_event_to_batch, flush_batch).
EventuallyDelivered == <>[](part = "apply_loop" => Apply!AllDelivered)

\* Without a shutdown or a failure a table-sync worker reaches its target, although
\* the target is the commit of a transaction that is never sent
\* (maybe_process_syncing_tables_when_idle).
CatchupCompletes == <>[](part = "sync_loop" => Sync!CaughtUp)

\* A stream is delivered and acknowledged to its end over retries: the loop's
\* (ApplyLoop::start), unless the destination was interrupted in a schema change,
\* and those of a DuckLake batch that fails, unless it is refused.
StreamsAreDelivered ==
  /\ <>[](part = "schema" => Schema!Delivered)
  /\ <>[](part = "ducklake" => Duck!Acked)

\* A call into DuckDB and a run of the maintenance binary end, with a result or with
\* the process, although a query may never return and the watchdog and the closure
\* race at the deadline (run_duckdb_blocking, run_with_timeout).
CallsReturn ==
  /\ <>[](part = "duckdb" => \A o \in Calls : ~Blocking!Calling(o))
  /\ <>[](part = "runner" => ~Runner!Running)

\* A foreground write ends, whatever the runs, the store and the other writes do: a
\* pause ends with its lease even when the store cannot be read, and the orders in
\* which slots and gate are taken never close a cycle through a waiting pause.
WritesEnd == <>[](part = "maintenance" => \A w \in {"w1", "w2"} : Pause!Ended(w))
=============================================================================

------------------------------ MODULE MCSafety ------------------------------
(***************************************************************************)
(* The invariants of the components, on small instances.                   *)
(* The components share no state in these models, so each behaviour is     *)
(* one component's: part names it, and the slots v1, v2, ... hold its      *)
(* variables in the order of its INSTANCE.                                 *)
(***************************************************************************)
EXTENDS Instances, FiniteSets

Unused == "unused"

-----------------------------------------------------------------------------
VARIABLES part, v1, v2, v3, v4, v5, v6, v7, v8, v9, v10, v11, v12, v13, v14, v15, v16, v17, v18,
          v19, v20, v21

Copy == INSTANCE TableCopy
  WITH Rows <- CopyRows, BlockOf <- CopyBlock, LeafOf <- CopyLeaf, Blocks <- 5,
       Kept <- {"a", "c"}, Layouts <- CopyLayouts, MaxBatchBytes <- 2,
       MemoryBudget <- 3, MaxMemory <- 2, Activate <- 2, Resume <- 1, MaxFaults <- 1,
       layout <- v1, parts <- v2, spawned <- v3, task <- v4, permits <- v5, main <- v6,
       dest <- v7, result <- v8, pressure <- v9, shutdown <- v10, faults <- v11

Sync == INSTANCE ApplyLoop
  WITH MaxTx <- 3, Size <- <<1, 0, 1>>, StartLsn <- 1, Target <- 3, MaxBatch <- 2,
       MaxFailures <- 1,
       pos <- v1, confirmed <- v2, durable <- v3, loop <- v4, written <- v5, orphans <- v6,
       shutdown <- v7, failures <- v8

Duck == INSTANCE DuckLakeReplay
  WITH Columns <- {"k", "v", "w"}, Identity <- {"k"}, BatchSize <- 2, Tables <- {"a", "b"},
       Streams <- DuckStreams, Chunks <- DuckChunks, MaxRetries <- 1,
       MaxFaults <- 2, OrphansOutliveRetry <- FALSE,
       stream <- v1, rows <- v2, watermark <- v3, markers <- v4, copied <- v5,
       copyTries <- v6, call <- v7, task <- v8, orphan <- v9, acked <- v10,
       faults <- v11

Blocking == INSTANCE DuckDbBlocking
  WITH Ops <- Calls, CanHang <- {"o1"},
       caller <- v1, closure <- v2, watchdog <- v3, deadline <- v4, handle <- v5,
       signal <- v6, timedOut <- v7, failed <- v8, target <- v9, permit <- v10,
       pooled <- v11, user <- v12, interrupted <- v13, aborted <- v14

Pause == INSTANCE DuckLakeMaintenance
  WITH Writers <- {"w1", "w2"}, KindOf <- [w1 |-> "events", w2 |-> "truncate"],
       TableCreated <- {"w1"}, Backends <- {"postgres", "kubernetes"},
       Policy <- {"expire_snapshots"}, Demands <- {{"old_snapshots"}}, MaxRuns <- 1,
       MaxFaults <- 1, AbortTasks <- FALSE,
       gate <- v1, slots <- v2, step <- v3, mutating <- v4, store <- v5, expired <- v6,
       down <- v7, held <- v8, watcher <- v9, seen <- v10, asked <- v11,
       daily <- v12, backend <- v13, runs <- v14, faults <- v15

Runner == INSTANCE MaintenanceRunner
  WITH Tables <- <<"__etl_m", "t1">>, Internal <- {"__etl_m"}, Configs <- RunnerConfigs,
       MaxFiles <- 1, MaxRuns <- 1, MaxWrites <- 1, MaxFaults <- 1,
       config <- v1, todo <- v2, names <- v3, outcome <- v4, result <- v5, lake <- v6,
       superseded <- v7, scheduled <- v8, closure <- v9, watchdog <- v10,
       connection <- v11, clock <- v12, handle <- v13, signal <- v14,
       timed_out <- v15, failed <- v16, written <- v17, runs <- v18, writes <- v19,
       faults <- v20

Schema == INSTANCE SchemaChanges
  WITH Wals <- OrderedWals, MaxCached <- 2, RetryInProcess <- FALSE, MaxRestarts <- 2,
       wal <- v1, versions <- v2, cached <- v3, shared <- v4, metadata <- v5,
       durable <- v6, loop <- v7, flight <- v8, diff <- v9, created <- v10,
       cleanup <- v11, restarts <- v12

Retry == INSTANCE SchemaChanges
  WITH Wals <- OrderedWals, MaxCached <- 2, RetryInProcess <- TRUE, MaxRestarts <- 1,
       wal <- v1, versions <- v2, cached <- v3, shared <- v4, metadata <- v5,
       durable <- v6, loop <- v7, flight <- v8, diff <- v9, created <- v10,
       cleanup <- v11, restarts <- v12

Decode == INSTANCE RowDecoding
  WITH Texts <- {<<"a">>, <<"\\", "TAB">>}, Toasted <- {<<"a">>},
       Names <- {"c1", "c2", "c3", "x"}, Identities <- {"d", "i", "f", "n"},
       MaxRows <- 2, MaxColumns <- 4, MaxChanges <- 2, MaxAlters <- 1,
       columns <- v1, attnums <- v2, primary_key <- v3, unique_key <- v4,
       relreplident <- v5, column_list <- v6, rows <- v7, stored <- v8,
       replicated <- v9, announce <- v10, mirror_schema <- v11, mirror <- v12,
       error <- v13, changes <- v14, alters <- v15

Cell == INSTANCE CellConversions
  WITH Destinations <- {"bigquery", "clickhouse", "snowflake", "iceberg", "ducklake"},
       Samples <- CellSamples,
       dest <- v1, sample <- v2, cell <- v3, wire <- v4, stored <- v5, stage <- v6

Flake == INSTANCE SnowflakeStreaming
  WITH Tables <- {"t1"}, Versions <- <<[a |-> "a"], [a |-> "b", c |-> "c"]>>,
       CopyRows <- {101, 102},
       Operations <- {"insert", "truncate", "partial_update", "delete_without_row"},
       max_retries <- 1, MaxWal <- 2, MaxFaults <- 2,
       wal <- v1, version <- v2, acked <- v3, copied <- v4, announced <- v5, phase <- v6,
       chunk <- v7, last <- v8, cache <- v9, builders <- v10, truncates <- v11,
       work <- v12, attempts <- v13, retried_auth <- v14, channels <- v15,
       token <- v16, tables <- v17, rows <- v18, channel <- v19, metadata <- v20,
       faults <- v21

Query == INSTANCE BigQueryTables
  WITH Tables <- {"t1"}, Prefixed <- {<<"t1", "t2">>}, Keys <- {"a", "b"},
       Identities <- {"primary_key"},
       Operations <- {"insert", "update", "delete", "truncate", "relation"},
       MaxWal <- 2, MaxFaults <- 2, ResetInProcess <- FALSE,
       wal <- v1, identity <- v2, acked <- v3, from <- v4, reached <- v5, phase <- v6,
       chunk <- v7, last <- v8, batch <- v9, work <- v10, created_tables <- v11,
       created_views <- v12, drops <- v13, tables <- v14, used <- v15,
       lagging <- v16, views <- v17, metadata <- v18, faults <- v19

House == INSTANCE ClickHouseTables
  WITH Tables <- {"t1"}, Keys <- {"a", "b"},
       Engines <- {"MergeTree", "ReplacingMergeTree"}, Schemas <- HouseSchemas,
       Operations <- {"insert", "update", "delete", "truncate", "alter", "partial_update"},
       MaxWal <- 2, MaxFaults <- 1,
       wal <- v1, engine <- v2, acked <- v3, from <- v4, reached <- v5, announced <- v6,
       phase <- v7, chunk <- v8, last <- v9, pending <- v10, work <- v11,
       table_cache <- v12, columns <- v13, rows <- v14, views <- v15,
       metadata <- v16, faults <- v17

Ice == INSTANCE IcebergTables
  WITH Tables <- {"t1", "t2"}, Layouts <- IceLayouts, Keys <- {"a"},
       Namespaces <- {"single", "per_schema"}, Identities <- {"full", "default"},
       Operations <- {"insert", "update", "delete", "truncate", "alter", "partial_update"},
       MaxWal <- 2, MaxFaults <- 1,
       wal <- v1, layout <- v2, policy <- v3, identity <- v4, acked <- v5, reached <- v6,
       from <- v7, announced <- v8, phase <- v9, chunk <- v10, last <- v11,
       pending <- v12, work <- v13, inserting <- v14, created_tables <- v15,
       created_namespaces <- v16, namespaces <- v17, changelogs <- v18,
       metadata <- v19, faults <- v20

Api == INSTANCE ManagementApi
  WITH Sources <- {"s1"}, Kinds <- [d1 |-> "clickhouse", d2 |-> "clickhouse_open"],
       Images <- {"i1", "i2"}, Lanes <- <<RuntimeRequests, RowRequests>>,
       MaxPipelines <- 1, MaxIds <- 2, MaxEdits <- 1, MaxRequests <- 4,
       MaxFaults <- 1,
       tenant <- v1, sources <- v2, destinations <- v3, pipelines <- v4, replicators <- v5,
       images <- v6, next_id <- v7, edits <- v8, secrets <- v9, config <- v10,
       maintenance <- v11, sset <- v12, pod <- v13, source_state <- v14,
       slots <- v15, req <- v16, requests <- v17, faults <- v18, seeded <- v19,
       applied <- v20

slots == <<v1, v2, v3, v4, v5, v6, v7, v8, v9, v10, v11, v12, v13, v14, v15, v16, v17, v18,
           v19, v20, v21>>

CopyInit ==
  /\ part = "copy"
  /\ Copy!Init
  /\ v12 = Unused /\ v13 = Unused /\ v14 = Unused /\ v15 = Unused /\ v16 = Unused
     /\ v17 = Unused /\ v18 = Unused /\ v19 = Unused /\ v20 = Unused /\ v21 = Unused
CopyStep ==
  /\ part = "copy"
  /\ Copy!Next
  /\ UNCHANGED <<part, v12, v13, v14, v15, v16, v17, v18, v19, v20, v21>>

SyncInit ==
  /\ part = "sync_loop"
  /\ Sync!Init
  /\ v9 = Unused /\ v10 = Unused /\ v11 = Unused /\ v12 = Unused /\ v13 = Unused
     /\ v14 = Unused /\ v15 = Unused /\ v16 = Unused /\ v17 = Unused /\ v18 = Unused
     /\ v19 = Unused /\ v20 = Unused /\ v21 = Unused
SyncStep ==
  /\ part = "sync_loop"
  /\ Sync!Next
  /\ UNCHANGED <<part, v9, v10, v11, v12, v13, v14, v15, v16, v17, v18, v19, v20, v21>>

DuckInit ==
  /\ part = "ducklake"
  /\ Duck!Init
  /\ v12 = Unused /\ v13 = Unused /\ v14 = Unused /\ v15 = Unused /\ v16 = Unused
     /\ v17 = Unused /\ v18 = Unused /\ v19 = Unused /\ v20 = Unused /\ v21 = Unused
DuckStep ==
  /\ part = "ducklake"
  /\ Duck!Next
  /\ UNCHANGED <<part, v12, v13, v14, v15, v16, v17, v18, v19, v20, v21>>

BlockingInit ==
  /\ part = "duckdb"
  /\ Blocking!Init
  /\ v15 = Unused /\ v16 = Unused /\ v17 = Unused /\ v18 = Unused /\ v19 = Unused
     /\ v20 = Unused /\ v21 = Unused
BlockingStep ==
  /\ part = "duckdb"
  /\ Blocking!Next
  /\ UNCHANGED <<part, v15, v16, v17, v18, v19, v20, v21>>

PauseInit ==
  /\ part = "maintenance"
  /\ Pause!Init
  /\ v16 = Unused /\ v17 = Unused /\ v18 = Unused /\ v19 = Unused /\ v20 = Unused
     /\ v21 = Unused
PauseStep ==
  /\ part = "maintenance"
  /\ Pause!Next
  /\ UNCHANGED <<part, v16, v17, v18, v19, v20, v21>>

RunnerInit ==
  /\ part = "runner"
  /\ Runner!RunnerInit
  /\ v21 = Unused
RunnerStep ==
  /\ part = "runner"
  /\ Runner!RunnerNext
  /\ UNCHANGED <<part, v21>>

SchemaInit ==
  /\ part = "schema"
  /\ Schema!Init
  /\ v13 = Unused /\ v14 = Unused /\ v15 = Unused /\ v16 = Unused /\ v17 = Unused
     /\ v18 = Unused /\ v19 = Unused /\ v20 = Unused /\ v21 = Unused
SchemaStep ==
  /\ part = "schema"
  /\ Schema!Next
  /\ UNCHANGED <<part, v13, v14, v15, v16, v17, v18, v19, v20, v21>>

RetryInit ==
  /\ part = "schema_retry"
  /\ Retry!Init
  /\ v13 = Unused /\ v14 = Unused /\ v15 = Unused /\ v16 = Unused /\ v17 = Unused
     /\ v18 = Unused /\ v19 = Unused /\ v20 = Unused /\ v21 = Unused
RetryStep ==
  /\ part = "schema_retry"
  /\ Retry!Next
  /\ UNCHANGED <<part, v13, v14, v15, v16, v17, v18, v19, v20, v21>>

DecodeInit ==
  /\ part = "rows"
  /\ Decode!RowInit
  /\ v16 = Unused /\ v17 = Unused /\ v18 = Unused /\ v19 = Unused /\ v20 = Unused
     /\ v21 = Unused
DecodeStep ==
  /\ part = "rows"
  /\ Decode!RowNext
  /\ UNCHANGED <<part, v16, v17, v18, v19, v20, v21>>

CellInit ==
  /\ part = "cells"
  /\ Cell!CellInit
  /\ v7 = Unused /\ v8 = Unused /\ v9 = Unused /\ v10 = Unused /\ v11 = Unused
     /\ v12 = Unused /\ v13 = Unused /\ v14 = Unused /\ v15 = Unused /\ v16 = Unused
     /\ v17 = Unused /\ v18 = Unused /\ v19 = Unused /\ v20 = Unused /\ v21 = Unused
CellStep ==
  /\ part = "cells"
  /\ Cell!CellNext
  /\ UNCHANGED <<part, v7, v8, v9, v10, v11, v12, v13, v14, v15, v16, v17, v18, v19, v20, v21>>

FlakeInit ==
  /\ part = "snowflake"
  /\ Flake!FlakeInit
FlakeStep ==
  /\ part = "snowflake"
  /\ Flake!FlakeNext
  /\ UNCHANGED <<part>>

QueryInit ==
  /\ part = "bigquery"
  /\ Query!QueryInit
  /\ v20 = Unused /\ v21 = Unused
QueryStep ==
  /\ part = "bigquery"
  /\ Query!QueryNext
  /\ UNCHANGED <<part, v20, v21>>

HouseInit ==
  /\ part = "clickhouse"
  /\ House!HouseInit
  /\ v18 = Unused /\ v19 = Unused /\ v20 = Unused /\ v21 = Unused
HouseStep ==
  /\ part = "clickhouse"
  /\ House!HouseNext
  /\ UNCHANGED <<part, v18, v19, v20, v21>>

IceInit ==
  /\ part = "iceberg"
  /\ Ice!IceInit
  /\ v21 = Unused
IceStep ==
  /\ part = "iceberg"
  /\ Ice!IceNext
  /\ UNCHANGED <<part, v21>>

ApiInit ==
  /\ part = "api"
  /\ Api!Init
  /\ v21 = Unused
ApiStep ==
  /\ part = "api"
  /\ Api!Next
  /\ UNCHANGED <<part, v21>>

Init == CopyInit \/ SyncInit \/ DuckInit \/ BlockingInit \/ PauseInit \/
        RunnerInit \/ SchemaInit \/ RetryInit \/ DecodeInit \/ CellInit \/
        FlakeInit \/ QueryInit \/ HouseInit \/ IceInit \/ ApiInit
Next == CopyStep \/ SyncStep \/ DuckStep \/ BlockingStep \/ PauseStep \/
        RunnerStep \/ SchemaStep \/ RetryStep \/ DecodeStep \/ CellStep \/
        FlakeStep \/ QueryStep \/ HouseStep \/ IceStep \/ ApiStep

Spec == Init /\ [][Next]_<<part, slots>>

\* The histories are well formed.
ASSUME WalsAssumption == \A w \in OrderedWals : Schema!IsWal(w)

-----------------------------------------------------------------------------
(* Properties.                                                             *)

\* A copy that reports completion has written every published row exactly once,
\* however the table was divided and whatever failed before, with no more
\* connections than max_copy_connections (copy_partitioned_table, copy_table).
CopiedExactlyOnce == part = "copy" => Copy!CopiedExactlyOnce /\ Copy!ConnectionsAreBounded

\* The position at which a table-sync worker stores SyncDone splits the stream: it
\* has delivered what commits before it and nothing else, and it returns Completed
\* exactly when it has stored SyncDone, also when a shutdown races the last flush
\* (try_complete_catchup, process_syncing_tables_after_flush).
HandoverIsExact == part = "sync_loop" => Sync!HandoverIsExact /\ Sync!CompletedIffSyncDone

\* A DuckLake table holds every change of the stream exactly once over retries,
\* replays and crashes, what was acknowledged or copied is in it, and a blocking call
\* that reports success ran to its end (apply_table_batch, the copy markers,
\* retain_mutations_after_sequence_key, run_duckdb_blocking).
DuckLakeIsExact ==
  /\ part = "ducklake" => Duck!AppliedExactlyOnce /\ Duck!AckedIsApplied
  /\ part = "duckdb" => Blocking!OkMeansCompleted

\* A maintenance pause never overlaps a foreground mutation, and a run that finds its
\* own pause quiesced, while its lease lasts, has the catalog to itself
\* (DuckLakeMaintenanceGate, publish_pause_status).
PauseExcludesMutations ==
  part = "maintenance" => Pause!PauseExcludesMutations /\ Pause!QuiescedMeansPaused

\* The flush comes first, so that a run that may take every table leaves a table
\* that nobody else touched with one small file at most (run_maintenance_once).
NothingLeftToMerge == part = "runner" => Runner!NothingLeftToMerge

\* A row reaches the destination with the schema version that was in force when
\* the source wrote it (handle_relation_message, handle_insert_message).
RowsMatchTheirVersion == part = "schema" => Schema!RowsMatchTheirVersion

\* Pruning never deletes a version that the destination's metadata names or that a
\* replay from the durable position needs, so decoding refuses no message of the
\* stream: the loop stops only for a destination interrupted in a change
\* (prune_table_schemas, get_table_schema_for_relation).
VersionsAreFound ==
  /\ part = "schema" =>
       /\ Schema!TypeOK /\ Schema!DestinationVersionsKept
       /\ Schema!ReplayFindsVersions /\ Schema!DecodingNeverStops
  /\ part = "schema_retry" =>
       Retry!DestinationVersionsKept /\ Retry!ReplayFindsVersions /\ Retry!DecodingNeverStops

\* After every event a mirror that applies the decoded rows holds the published
\* part of the table, and the masks that a copy would build from the catalog are
\* those of the RELATION messages (conversions/event.rs, conversions/table_row.rs,
\* build_identity_mask).
MirrorIsExact == part = "rows" => Decode!MirrorIsExact /\ Decode!MasksAgree

\* A destination stores a value as it was or refuses it with an error, and it
\* refuses no plain value of a type that it makes a column for (conversions/text.rs
\* and the encoding and schema tables of each destination).
ValuesSurvive == part = "cells" => Cell!ValuesSurvive /\ Cell!PlainValuesArrive

\* Snowflake: an acknowledged change is in the table or was truncated after it, no
\* row of before a truncate comes back through a channel that buffers or retries,
\* and a copy that starts again leaves each row once (SnowflakeDestination,
\* StreamingClient).
SnowflakeIsExact ==
  part = "snowflake" =>
    Flake!AckedRowsAreWritten /\ Flake!TruncateIsFinal /\ Flake!CopiedOnce

\* BigQuery: once the stream is acknowledged the view over the versioned tables shows
\* the source's rows, replays and crashes between its steps included, and a table
\* that is dropped is never the one the view selects from (process_truncate,
\* BigQueryDestination).
BigQueryIsExact == part = "bigquery" => Query!ViewIsExact /\ Query!DropsAreStale

\* ClickHouse: every inserted row has a value for each column of its table in the
\* table's order, once the stream is acknowledged the current rows are the source's,
\* and metadata that says Applied describes the table (ClickHouseDestination,
\* apply_schema_diff).
ClickHouseIsExact ==
  part = "clickhouse" =>
    House!RowsAreAligned /\ House!StoredIsExact /\ House!AppliedMeansAltered

\* Iceberg: once the stream is acknowledged the changelog replays to the source's
\* rows, and two source tables never share a changelog (IcebergDestination).
IcebergIsExact == part = "iceberg" => Ice!LogIsExact /\ Ice!ChangelogsAreSeparate

\* The API's rows never name a row that is gone, a deleted pipeline's state in the
\* source goes with its row or stays with it, and a reconcile that reports success
\* leaves every resource in the version of the row it read (routes/pipelines.rs,
\* k8s/core.rs).
ApiStateIsConsistent ==
  part = "api" =>
    Api!ReferencesResolve /\ Api!PipelineKeepsSourceState /\ Api!ReconcileIsComplete
=============================================================================

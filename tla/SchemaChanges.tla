--------------------------- MODULE SchemaChanges ---------------------------
(***************************************************************************)
(* How a worker decodes the rows of a table whose columns change while it  *)
(* streams.  A DDL message stores a schema version named by its own LSN    *)
(* (handle_message of replication/apply.rs), the RELATION message that     *)
(* pgoutput sends before the next row picks a version, and the destination *)
(* brings its table to that version before it writes the row.  Versions    *)
(* live in the store (store/both/postgres.rs, with a cache that evicts),   *)
(* the decoding state in the shared table cache                            *)
(* (replication/table_cache.rs), and a background task prunes the versions *)
(* that neither a replay nor the destination needs.                        *)
(*                                                                         *)
(* One table is modelled, after its copy: tables do not share any of this  *)
(* state.  Every ALTER TABLE of the model adds a column, so a version      *)
(* names a set of columns and a later version has more of them.            *)
(***************************************************************************)
EXTENDS Naturals, Sequences, FiniteSets, FiniteSetsExt, SequencesExt

CONSTANTS
  Wals,            \* the transactions that the source may commit, in commit order
  MaxCached,       \* MAX_CACHED_SCHEMAS_PER_TABLE
  RetryInProcess,  \* whether a transient error restarts the loop in the same process
  MaxRestarts      \* restarts, of the loop or of the process, that are explored

\* A transaction has the messages about the table, a row change or a DDL
\* message at an LSN, and ends at an LSN.  A transaction about other tables
\* has no messages here and still moves the durable position.
IsWal(w) ==
  /\ \A k \in DOMAIN w :
       /\ w[k].end \in Nat \ {0}
       /\ \A i \in DOMAIN w[k].items :
            /\ w[k].items[i].kind \in {"row", "ddl"}
            /\ w[k].items[i].lsn \in 1..(w[k].end - 1)
  /\ \A j, k \in DOMAIN w : j < k => w[j].end < w[k].end

VARIABLES
  wal,       \* the transactions that the source committed
  versions,  \* snapshot_id of the table's rows in etl.table_schemas
  cached,    \* snapshot_id of the versions in the store's cache
  shared,    \* the table's entry in the shared table cache
  metadata,  \* the table's destination metadata
  durable,   \* the worker's row of etl.replication_progress
  loop,      \* the apply loop and its walsender
  flight,    \* the batch that the destination is writing
  diff,      \* the schema change that the destination is applying
  created,   \* the table in the destination's created_tables cache
  cleanup,   \* the retention boundary of the pruning task
  restarts   \* restarts so far

vars == <<wal, versions, cached, shared, metadata, durable, loop, flight, diff,
          created, cleanup, restarts>>

\* The version that a copy stores (SnapshotId::initial, 0/0).
Copied == 0

\* An Option is the set of what it holds.
None == {}
Some(x) == {x}

-----------------------------------------------------------------------------
(* The source.                                                              *)

\* The columns of the table at an LSN: those of the last DDL before it.  DDL
\* locks the table, so the LSN order of its messages is their order in time.
VersionAt(lsn) ==
  LET items == UNION {ToSet(wal[k].items) : k \in DOMAIN wal}
  IN  Max({Copied} \cup {m.lsn : m \in {m \in items : m.kind = "ddl" /\ m.lsn < lsn}})

\* START_REPLICATION sends the transactions that end after the start position.
FirstTx(start) == Cardinality({k \in DOMAIN wal : wal[k].end <= start}) + 1

-----------------------------------------------------------------------------
(* The schema store.                                                        *)

AtOrBefore(snapshots, snapshot_id) == {v \in snapshots : v <= snapshot_id}

InsertWithEviction(snapshots, snapshot_id) ==
  LET all == snapshots \cup {snapshot_id}
  IN  {v \in all : Cardinality({w \in all : w > v}) < MaxCached}

\* Keeps the newest version at or before the boundary and all the newer ones.
Prune(snapshots, boundary) ==
  {v \in snapshots : \A w \in AtOrBefore(snapshots, boundary) : v >= w}

\* The cache answers when it holds any version at or before the snapshot.
GetTableSchema(snapshot_id) ==
  LET hits == AtOrBefore(cached, snapshot_id)
      rows == AtOrBefore(versions, snapshot_id)
  IN  IF hits # {} THEN Some(Max(hits))
      ELSE IF rows # {} THEN Some(Max(rows)) ELSE None

CacheAfterGet(snapshot_id) ==
  LET found == GetTableSchema(snapshot_id)
  IN  IF AtOrBefore(cached, snapshot_id) # {} \/ found = None THEN cached
      ELSE InsertWithEviction(cached, Max(found))

-----------------------------------------------------------------------------
(* The apply loop.  loop.tx and loop.item are the walsender's position;     *)
(* loop.schema_sent is pgoutput's own flag: RELATION comes before the first *)
(* row of a connection and before the first row after a DDL.                *)

StoppedLoop(mode) ==
  [mode |-> mode, bootstrap |-> 0, tx |-> 1, item |-> 1, schema_sent |-> FALSE,
   batch |-> <<>>, commit_end |-> None]

StartedLoop(start) ==
  [StoppedLoop("running") EXCEPT !.bootstrap = start, !.tx = FirstTx(start)]

NoTableState == [state |-> "None", snapshot_id |-> Copied, columns |-> Copied]

Running == loop.mode = "running"

HasMessage == Running /\ loop.tx <= Len(wal)

AtItem(kind) ==
  /\ HasMessage
  /\ loop.item <= Len(wal[loop.tx].items)
  /\ wal[loop.tx].items[loop.item].kind = kind

Item == wal[loop.tx].items[loop.item]

\* An error of the loop that is not retriable ends the pipeline.
StopPipeline == loop' = StoppedLoop("stopped")

\* Mutant: the version is announced and never stored.
HandleDdlMessageUnstored ==
  /\ AtItem("ddl")
  /\ shared' = [state |-> "WaitingForRelation", snapshot_id |-> Item.lsn, columns |-> Copied]
  /\ loop' = [loop EXCEPT !.item = @ + 1, !.schema_sent = FALSE]
  /\ UNCHANGED <<wal, created, versions, cached, metadata, durable, flight, diff, cleanup, restarts>>

HandleDdlMessage ==
  /\ AtItem("ddl")
  /\ versions' = versions \cup {Item.lsn}
  /\ cached' = InsertWithEviction(cached, Item.lsn)
  /\ shared' = [state |-> "WaitingForRelation", snapshot_id |-> Item.lsn, columns |-> Copied]
  /\ loop' = [loop EXCEPT !.item = @ + 1, !.schema_sent = FALSE]
  /\ UNCHANGED <<wal, created, metadata, durable, flight, diff, cleanup, restarts>>

\* Mutant: a first RELATION message takes the latest version.
RelationSnapshotLatest ==
  IF shared.state = "None" THEN Max(versions) ELSE shared.snapshot_id

\* The snapshot that a RELATION message is resolved at.
RelationSnapshot ==
  IF shared.state = "None" THEN loop.bootstrap ELSE shared.snapshot_id

\* Only the bootstrap snapshot may resolve to an older version, and the
\* columns of the message must all exist in the version.
RelationResolves(found, snapshot_id) ==
  /\ found # None
  /\ shared.state # "None" => Max(found) = snapshot_id
  /\ VersionAt(Item.lsn) <= Max(found)

HandleRelation ==
  LET snapshot_id == RelationSnapshot
      found == GetTableSchema(snapshot_id)
      columns == VersionAt(Item.lsn)
  IN  /\ AtItem("row")
      /\ ~loop.schema_sent
      /\ cached' = CacheAfterGet(snapshot_id)
      /\ IF RelationResolves(found, snapshot_id)
         THEN /\ shared' = [state |-> "Ready", snapshot_id |-> Max(found), columns |-> columns]
              /\ loop' = [loop EXCEPT
                   !.schema_sent = TRUE,
                   !.batch = Append(@, [kind |-> "relation", lsn |-> Item.lsn,
                                        snapshot_id |-> Max(found), columns |-> columns])]
         ELSE StopPipeline /\ UNCHANGED shared
      /\ UNCHANGED <<wal, created, versions, metadata, durable, flight, diff, cleanup, restarts>>

\* INSERT, UPDATE, DELETE and TRUNCATE decode with the shared state alone.
HandleRow ==
  /\ AtItem("row")
  /\ loop.schema_sent
  /\ IF shared.state = "Ready"
     THEN loop' = [loop EXCEPT
            !.item = @ + 1,
            !.batch = Append(@, [kind |-> "row", lsn |-> Item.lsn,
                                 snapshot_id |-> shared.snapshot_id,
                                 columns |-> shared.columns])]
     ELSE StopPipeline
  /\ UNCHANGED <<wal, created, versions, cached, shared, metadata, durable, flight, diff,
                 cleanup, restarts>>

HandleCommit ==
  /\ HasMessage
  /\ loop.item > Len(wal[loop.tx].items)
  /\ loop' = [loop EXCEPT !.tx = @ + 1, !.item = 1,
                          !.commit_end = Some(wal[loop.tx].end)]
  /\ UNCHANGED <<wal, created, versions, cached, shared, metadata, durable, flight, diff,
                 cleanup, restarts>>

\* A batch may end anywhere, also inside a transaction.  BEGIN and COMMIT are
\* events too: a transaction of other tables makes a batch.
FlushBatch ==
  /\ Running
  /\ flight = None
  /\ loop.batch # <<>> \/ loop.commit_end # None
  /\ flight' = Some([events |-> loop.batch, commit_end |-> loop.commit_end, awaited |-> TRUE])
  /\ loop' = [loop EXCEPT !.batch = <<>>, !.commit_end = None]
  /\ UNCHANGED <<wal, created, versions, cached, shared, metadata, durable, diff, cleanup, restarts>>

\* Mutant: the position of the batch is not stored.
HandleFlushResultUnstored ==
  \E f \in flight :
    /\ f.events = <<>>
    /\ flight' = None
    /\ UNCHANGED <<wal, created, versions, cached, shared, metadata, durable, loop, diff, cleanup,
                   restarts>>

HandleFlushResult ==
  \E f \in flight :
    /\ f.events = <<>>
    /\ flight' = None
    /\ durable' = IF f.awaited THEN Max({durable} \cup f.commit_end) ELSE durable
    /\ UNCHANGED <<wal, created, versions, cached, shared, metadata, loop, diff, cleanup, restarts>>

-----------------------------------------------------------------------------
(* Pruning.                                                                 *)

\* The oldest version that the destination's metadata names.
DestinationRetention == Min({metadata.snapshot_id} \cup metadata.previous)

\* Mutants: a boundary that forgets the destination, or the replay.
DurableRetention == durable

Retention == Min({durable, DestinationRetention})

SpawnSchemaCleanup ==
  /\ Running
  /\ cleanup = None
  /\ cleanup' = Some(Retention)
  /\ UNCHANGED <<wal, created, versions, cached, shared, metadata, durable, loop, flight, diff,
                 restarts>>

PruneTableSchemas ==
  \E boundary \in cleanup :
    /\ versions' = Prune(versions, boundary)
    /\ cached' = Prune(cached, boundary)
    /\ cleanup' = None
    /\ UNCHANGED <<wal, created, shared, metadata, durable, loop, flight, diff, restarts>>

-----------------------------------------------------------------------------
(* The destination, as the BigQuery one: a task writes the batch while the   *)
(* loop goes on.  The ClickHouse destination changes schemas in the same way. *)
(* Batches do not overlap here (the orphans of ApplyLoop show that they may). *)

RestOf(f) == Some([f EXCEPT !.events = Tail(@)])

NextEvent(f, kind) == f.events # <<>> /\ Head(f.events).kind = kind

\* The first row after a process start: the table is created if it is missing,
\* and the metadata passes through Applying again.  The RELATION before the row
\* has refused a table that is not Applied.
StartTable ==
  \E f \in flight :
    LET e == Head(f.events)
    IN  /\ NextEvent(f, "row")
        /\ created = "no"
        /\ metadata.status = "Applied"
        /\ created' = "creating"
        /\ metadata' = [snapshot_id |-> e.snapshot_id, columns |-> e.columns,
                        previous |-> None, status |-> "Applying"]
        /\ UNCHANGED <<wal, versions, cached, shared, durable, loop, flight, diff, cleanup,
                       restarts>>

FinishTable ==
  /\ created = "creating"
  /\ created' = "yes"
  /\ metadata' = [metadata EXCEPT !.status = "Applied"]
  /\ UNCHANGED <<wal, versions, cached, shared, durable, loop, flight, diff, cleanup,
                 restarts>>

WriteRow ==
  \E f \in flight :
    /\ NextEvent(f, "row")
    /\ created = "yes"
    /\ flight' = RestOf(f)
    /\ UNCHANGED <<wal, created, versions, cached, shared, metadata, durable, loop, diff,
                   cleanup, restarts>>

SchemaUnchanged(e) ==
  metadata.snapshot_id = e.snapshot_id /\ metadata.columns = e.columns

RelationUnchanged ==
  \E f \in flight :
    /\ NextEvent(f, "relation")
    /\ metadata.status = "Applied"
    /\ SchemaUnchanged(Head(f.events))
    /\ flight' = RestOf(f)
    /\ UNCHANGED <<wal, created, versions, cached, shared, metadata, durable, loop, diff, cleanup,
                   restarts>>

\* Computes the difference from the version that the store returns for the
\* metadata's snapshot, and marks the change before it is applied.
StartSchemaChange ==
  \E f \in flight :
    LET e == Head(f.events)
        found == GetTableSchema(metadata.snapshot_id)
    IN  /\ NextEvent(f, "relation")
        /\ diff = None
        /\ metadata.status = "Applied"
        /\ ~SchemaUnchanged(e)
        /\ found # None
        /\ cached' = CacheAfterGet(metadata.snapshot_id)
        /\ diff' = Some([from |-> metadata.snapshot_id, base |-> Max(found)])
        /\ metadata' = [snapshot_id |-> e.snapshot_id, columns |-> e.columns,
                        previous |-> Some(metadata.snapshot_id), status |-> "Applying"]
        /\ UNCHANGED <<wal, created, versions, shared, durable, loop, flight, cleanup, restarts>>

FinishSchemaChange ==
  \E f \in flight :
    /\ diff # None
    /\ diff' = None
    /\ metadata' = [metadata EXCEPT !.status = "Applied", !.previous = None]
    /\ flight' = RestOf(f)
    /\ UNCHANGED <<wal, created, versions, cached, shared, durable, loop, cleanup, restarts>>

\* An interrupted change, or a missing version, is an error that is not retriable.
CanCompare(e) ==
  /\ metadata.status = "Applied"
  /\ ~SchemaUnchanged(e) => GetTableSchema(metadata.snapshot_id) # None

RelationRefused ==
  \E f \in flight :
    /\ NextEvent(f, "relation")
    /\ diff = None
    /\ ~CanCompare(Head(f.events))
    /\ flight' = None
    /\ loop' = IF f.awaited THEN StoppedLoop("stopped") ELSE loop
    /\ UNCHANGED <<wal, created, versions, cached, shared, metadata, durable, diff, cleanup, restarts>>

-----------------------------------------------------------------------------
(* Restarts.                                                                *)

\* A transient error of the source or of the destination.  Teardown waits for
\* the pruning task; a write that is under way goes on, with nobody waiting.
LoopFails ==
  /\ RetryInProcess
  /\ Running
  /\ cleanup = None
  /\ restarts < MaxRestarts
  /\ restarts' = restarts + 1
  /\ loop' = StoppedLoop("retrying")
  /\ flight' = {[f EXCEPT !.awaited = FALSE] : f \in flight}
  /\ UNCHANGED <<wal, created, versions, cached, shared, metadata, durable, diff, cleanup>>

\* The retried worker reuses the shared table cache and the store.
LoopRetries ==
  /\ loop.mode = "retrying"
  /\ loop' = StartedLoop(durable)
  /\ UNCHANGED <<wal, created, versions, cached, shared, metadata, durable, flight, diff, cleanup,
                 restarts>>

\* A new process loads the latest version of the table and starts streaming.
ProcessRestarts ==
  /\ restarts < MaxRestarts
  /\ restarts' = restarts + 1
  /\ cached' = {Max(versions)}
  /\ shared' = NoTableState
  /\ loop' = StartedLoop(durable)
  /\ flight' = None
  /\ diff' = None
  /\ created' = "no"
  /\ cleanup' = None
  /\ UNCHANGED <<wal, versions, metadata, durable>>

-----------------------------------------------------------------------------
\* The copy stored version 0/0 and left the table ready to be decoded.
Init ==
  /\ wal \in Wals
  /\ versions = {Copied}
  /\ cached = {Copied}
  /\ shared = [state |-> "Ready", snapshot_id |-> Copied, columns |-> Copied]
  /\ metadata = [snapshot_id |-> Copied, columns |-> Copied, previous |-> None,
                 status |-> "Applied"]
  /\ durable = 0
  /\ loop = StartedLoop(0)
  /\ flight = None
  /\ diff = None
  /\ created = "yes"
  /\ cleanup = None
  /\ restarts = 0

Next ==
  \/ HandleDdlMessage
  \/ HandleRelation
  \/ HandleRow
  \/ HandleCommit
  \/ FlushBatch
  \/ HandleFlushResult
  \/ SpawnSchemaCleanup
  \/ PruneTableSchemas
  \/ StartTable
  \/ FinishTable
  \/ WriteRow
  \/ RelationUnchanged
  \/ StartSchemaChange
  \/ FinishSchemaChange
  \/ RelationRefused
  \/ LoopFails
  \/ LoopRetries
  \/ ProcessRestarts

Spec == Init /\ [][Next]_vars

\* The loop and the destination's task are scheduled fairly; nothing else is.
Progress ==
  \/ HandleDdlMessage \/ HandleRelation \/ HandleRow \/ HandleCommit
  \/ FlushBatch \/ HandleFlushResult
  \/ StartTable \/ FinishTable \/ WriteRow
  \/ RelationUnchanged \/ StartSchemaChange \/ FinishSchemaChange
  \/ RelationRefused \/ LoopRetries

FairSpec == Spec /\ WF_vars(Progress)
-----------------------------------------------------------------------------
(* Properties.                                                              *)

Events == [kind : {"relation", "row"}, lsn : Nat, snapshot_id : Nat, columns : Nat]

\* Every variable holds what its Rust counterpart can hold; at most one batch
\* is in flight and the store's cache never outgrows its limit.
TypeOK ==
  /\ wal \in Wals
  /\ versions \subseteq Nat
  /\ cached \subseteq Nat /\ Cardinality(cached) <= MaxCached
  /\ shared \in [state : {"None", "WaitingForRelation", "Ready"}, snapshot_id : Nat,
                 columns : Nat]
  /\ metadata.snapshot_id \in Nat /\ metadata.columns \in Nat
  /\ metadata.previous \in {None} \cup {Some(v) : v \in versions \cup cached}
  /\ metadata.status \in {"Applying", "Applied"}
  /\ durable \in Nat
  /\ created \in {"no", "creating", "yes"}
  /\ loop.mode \in {"running", "retrying", "stopped"}
  /\ \A i \in DOMAIN loop.batch : loop.batch[i] \in Events
  /\ Cardinality(flight) <= 1 /\ Cardinality(diff) <= 1 /\ Cardinality(cleanup) <= 1
  /\ restarts \in 0..MaxRestarts

\* The events that a destination has not seen yet.
PendingEvents == ToSet(loop.batch) \cup UNION {ToSet(f.events) : f \in flight}

\* A row reaches the destination with the version that was in force when the
\* source wrote it, whatever replays, restarts and pruning came in between
\* (handle_relation_message, handle_insert_message).
RowsMatchTheirVersion ==
  \A e \in PendingEvents : e.snapshot_id = VersionAt(e.lsn)

\* Decoding never refuses a message of the stream: the version that a RELATION
\* message needs is found, and a row never arrives before its RELATION.  The
\* pipeline stops only for a destination that was interrupted in a change
\* (get_table_schema_for_relation, get_replicated_table_schema).
DecodingNeverStops == loop.mode = "stopped" => metadata.status = "Applying"

\* The versions that the destination's metadata names are still stored, also
\* when a pruning task runs with a boundary from before the last change
\* (get_table_schema_retentions, prune_table_schemas).
DestinationVersionsKept ==
  {metadata.snapshot_id} \cup metadata.previous \subseteq versions

\* A new process that starts at the durable position finds the version of the
\* first row that it replays, unless a replayed DDL stores it first.
ReplayFindsVersions ==
  \A k \in FirstTx(durable)..Len(wal) :
    \A i \in DOMAIN wal[k].items :
      LET v == VersionAt(wal[k].items[i].lsn)
      IN  wal[k].items[i].kind = "row" /\ v <= durable => v \in versions

Delivered == durable = Last(wal).end \/ metadata.status = "Applying"

\* The stream is delivered and acknowledged to its end, unless the destination
\* was interrupted in a change, which it reports and leaves to an operator.
StreamIsDelivered == <>[]Delivered

\* The version that the destination compares with is the one its table has:
\* the store's answer does not depend on what its cache happens to hold
\* (PostgresStore::get_table_schema).
DiffStartsFromApplied == \A d \in diff : d.base = d.from
=============================================================================

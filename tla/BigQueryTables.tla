--------------------------- MODULE BigQueryTables ---------------------------
(***************************************************************************)
(* The BigQuery destination (etl-destinations/src/bigquery).  A source     *)
(* table is a view on its current version, a physical table with a         *)
(* sequence number; a truncate starts the next version, moves the view and *)
(* the metadata to it and drops the old version in a background task.      *)
(* Rows are appended as changes that BigQuery applies per primary key in   *)
(* the order of their sequence key.                                        *)
(*                                                                         *)
(* A call is a list of remote steps that `?` cuts short.  Its errors end   *)
(* the process, which replays what was not acknowledged, except for        *)
(* DestinationAtomicBatchRetryable: then the worker tries again in the     *)
(* same process, which keeps its caches and background tasks.              *)
(*                                                                         *)
(* External: Postgres, the store's metadata rows, and BigQuery, whose      *)
(* write API may for a while not know a table that was altered or created  *)
(* again under an old name.                                                *)
(***************************************************************************)
EXTENDS Naturals, Sequences, FiniteSets, SequencesExt, FiniteSetsExt

CONSTANTS
  Tables,
  Prefixed,     \* pairs of tables: the ids of the second start with the first's and "_"
  Keys,         \* primary keys of the rows
  Identities,   \* replica identities that a table may have
  Operations,   \* the changes that Postgres may commit
  MaxWal,       \* changes that Postgres commits
  MaxFaults,    \* calls lost, crashes and resets
  ResetInProcess \* whether tables are reset while the process runs

VARIABLES
  wal,        \* committed changes; a change's sequence key is its index
  identity,   \* the replica identity of each table
  acked,      \* the changes that the apply worker need not replay
  from,       \* the change at which each table's copy was taken, once it is finished
  reached,    \* the last change that was ever delivered to write_events
  \* The process.
  phase,      \* where write_events stands
  chunk,      \* the events that it has not consumed
  last,       \* the change that an Ok acknowledges
  batch,      \* table_id_to_data: the rows collected for each table
  work,       \* the remote steps of the call in progress
  created_tables, created_views, \* Inner
  drops,      \* the background tasks that drop old versions
  \* BigQuery and the store.
  tables,     \* the changes of each physical table that exists
  used,       \* the physical tables that have existed
  lagging,    \* the physical tables that the write API does not know yet
  views,      \* the version that each view shows
  metadata,   \* the destination metadata row of each table
  faults

call == <<phase, chunk, last, batch, work>>
inner == <<created_tables, created_views, drops>>
bigquery == <<tables, used, lagging, views>>
queryVars == <<wal, identity, acked, from, reached, phase, chunk, last, batch, work,
               created_tables, created_views, drops, tables, used, lagging, views,
               metadata, faults>>

None == {}
Some(x) == {x}
The(option) == CHOOSE x \in option : TRUE

(* ---------------------------- Postgres ----------------------------------- *)

\* The rows of a table after the first n changes: key -> the change that wrote
\* the row.
RowsAt(t, n) ==
  LET apply(rows, i) ==
        LET c == wal[i]
            kept == [k \in DOMAIN rows \ {c.old} |-> rows[k]]
        IN IF c.table # t THEN rows
           ELSE CASE c.op = "truncate" -> <<>>
                  [] c.op = "delete" -> kept
                  [] c.op \in {"insert", "update", "partial_update"} ->
                       [k \in DOMAIN kept \cup {c.key} |-> IF k = c.key THEN i ELSE kept[k]]
                  [] OTHER -> rows
  IN FoldLeft(apply, <<>>, [i \in 1..n |-> i])

Change(t, op, old, key) == [table |-> t, op |-> op, old |-> old, key |-> key]
NoKey == "none"

\* An update may change the primary key; a relation stands for ALTER TABLE.
\* A call in progress does not look at later changes, so that they are
\* committed between calls.
Commit(t) ==
  /\ Len(wal) < MaxWal /\ phase \in {"idle", "retry"}
  /\ LET rows == DOMAIN RowsAt(t, Len(wal))
         free == Keys \ rows
     IN \E c \in {Change(t, "insert", NoKey, k) : k \in free}
               \cup {Change(t, "update", k, n) : k \in rows, n \in free}
               \cup {Change(t, op, k, k) : op \in {"update", "partial_update"}, k \in rows}
               \cup {Change(t, "delete", k, NoKey) : k \in rows}
               \cup {Change(t, op, NoKey, NoKey) : op \in {"truncate", "relation"}} :
          c.op \in Operations /\ wal' = Append(wal, c)
  /\ UNCHANGED <<identity, acked, from, reached, call, inner, bigquery, metadata, faults>>

(* --------------------- physical tables and their rows --------------------- *)

\* SequencedBigQueryTableId
Sequenced(t, n) == <<t, n>>
next(id) == <<id[1], id[2] + 1>>

\* list_sequenced_table_ids: the physical tables whose name has the prefix.
list_sequenced_table_ids(t) ==
  {id \in DOMAIN tables : id[1] = t \/ <<t, id[1]>> \in Prefixed}

parse_for_base(ids, t) == {id \in ids : id[1] = t}

\* A row of the write API; order is _CHANGE_SEQUENCE_NUMBER.
Row(key, type, position, ordinal) ==
  [key |-> key, type |-> type, order |-> <<position, ordinal>>, by |-> position]

NotBefore(a, b) == a[1] > b[1] \/ (a[1] = b[1] /\ a[2] >= b[2])

\* BigQuery keeps the last change of each key.
Apply(rows, r) ==
  IF r.key \in DOMAIN rows /\ ~NotBefore(r.order, rows[r.key].order) THEN rows
  ELSE [k \in DOMAIN rows \cup {r.key} |-> IF k = r.key THEN r ELSE rows[k]]

\* pgoutput sends the old row when the replica identity is FULL, the old key
\* when it changes.
OldRow(e) == IF identity[e.table] = "full" \/ e.old # e.key THEN Some(e.old) ELSE None

bigquery_primary_key_changed(e) == \E old \in OldRow(e) : old # e.key

\* Mutant: an update only writes the new row.
UpsertOnly(e) == <<Row(e.key, "UPSERT", e.position, 0)>>

bigquery_update_rows(e) ==
  IF bigquery_primary_key_changed(e)
  THEN <<Row(The(OldRow(e)), "DELETE", e.position, 0), Row(e.key, "UPSERT", e.position, 1)>>
  ELSE <<Row(e.key, "UPSERT", e.position, 0)>>

RowsOf(e) ==
  CASE e.op = "insert" -> <<Row(e.key, "UPSERT", e.position, 0)>>
    [] e.op = "update" -> bigquery_update_rows(e)
    [] e.op = "delete" -> <<Row(e.old, "DELETE", e.position, 0)>>

validate_bigquery_replica_identity(t) == identity[t] \in {"primary_key", "full"}

\* split_table_rows: the sizes of the sub-batches.
DivCeil(a, b) == (a + b - 1) \div b
BatchSizes(total, target) ==
  IF total = 0 THEN <<>>
  ELSE IF total <= 1 \/ target = 1 \/ total <= target THEN <<total>>
  ELSE LET n == DivCeil(total, DivCeil(total, target))
       IN [i \in 1..n |-> total \div n + (IF i <= total % n THEN 1 ELSE 0)]

split_table_rows(rows, target) ==
  LET sizes == BatchSizes(Len(rows), target)
      before(i) == FoldLeft(LAMBDA a, b : a + b, 0, SubSeq(sizes, 1, i - 1))
  IN [i \in 1..Len(sizes) |-> SubSeq(rows, before(i) + 1, before(i) + sizes[i])]

\* calculate_target_batches_for_table_copy, for rows of any size.
target_batches(rows) == IF rows = <<>> THEN {0} ELSE 1..Len(rows)

(* ------------------------------ remote steps ------------------------------ *)

Step(op, id, arg) == [op |-> op, id |-> id, arg |-> arg]
Metadata(id, status) == [id |-> id, status |-> status]
IsApplying(t) == \E m \in metadata[t] : m.status = "applying"

\* ensure_view_points_to_table
ensure_view_points_to_table(id) ==
  IF created_views[id[1]] = Some(id) THEN <<>> ELSE <<Step("replace_view", id, 0)>>

\* prepare_table_for_streaming: get_applied_destination_table_metadata fails
\* on a row that is being applied.
prepare_table_for_streaming(t) ==
  LET id == IF metadata[t] = None THEN Sequenced(t, 0) ELSE The(metadata[t]).id
  IN IF ~validate_bigquery_replica_identity(t) \/ IsApplying(t)
     THEN <<Step("fail", id, 0)>>
     ELSE (IF id \in created_tables THEN <<>>
           ELSE <<Step("store", id, Some(Metadata(id, "applying"))),
                  Step("create_if_missing", id, 0),
                  Step("store", id, Some(Metadata(id, "applied"))),
                  Step("cache_table", id, 0)>>)
          \o ensure_view_points_to_table(id)

\* The version that the table's rows go to once it is prepared.
CurrentVersion(t) == IF metadata[t] = None THEN Sequenced(t, 0) ELSE The(metadata[t]).id

\* handle_relation_event, for a changed schema.
handle_relation_event(t) ==
  IF metadata[t] = None \/ IsApplying(t) THEN <<Step("fail", Sequenced(t, 0), 0)>>
  ELSE LET id == The(metadata[t]).id IN
       <<Step("store", id, Some(Metadata(id, "applying"))), Step("alter", id, 0),
         Step("store", id, Some(Metadata(id, "applied")))>>

\* Mutant: the old version is dropped before the view and the metadata move on.
DropFirst(t) ==
  IF metadata[t] = None THEN <<>>
  ELSE IF IsApplying(t) THEN <<Step("fail", Sequenced(t, 0), 0)>>
  ELSE LET old == The(metadata[t]).id
           id == next(old)
       IN <<Step("create_or_replace", id, 0), Step("cache_table", id, 0),
            Step("drop_later", old, 0)>>
          \o ensure_view_points_to_table(id)
          \o <<Step("store", id, Some(Metadata(id, "applied")))>>

\* process_truncate_for_schemas, for one table.
process_truncate(t) ==
  IF metadata[t] = None THEN <<>>
  ELSE IF IsApplying(t) THEN <<Step("fail", Sequenced(t, 0), 0)>>
  ELSE LET old == The(metadata[t]).id
           id == next(old)
       IN <<Step("create_or_replace", id, 0), Step("cache_table", id, 0)>>
          \o ensure_view_points_to_table(id)
          \o <<Step("store", id, Some(Metadata(id, "applied"))),
               Step("drop_later", old, 0)>>

\* drop_table_for_copy_inner, then clear_table_copy_state of the table sync
\* worker.  Without a metadata row there is no schema to drop a table of.
drop_table_for_copy(t) ==
  LET versions == SetToSeq(parse_for_base(list_sequenced_table_ids(t), t))
  IN (IF metadata[t] = None THEN <<>>
      ELSE <<Step("drop_view", Sequenced(t, 0), 0)>>
           \o [i \in 1..Len(versions) |-> Step("drop_table", versions[i], 0)]
           \o <<Step("clear_cache", Sequenced(t, 0), 0)>>)
     \o <<Step("store", Sequenced(t, 0), None)>>

(* ------------------------- the calls of one step -------------------------- *)

Local == {"cache_table", "clear_cache", "drop_later", "fail", "append"}

\* What a step does to BigQuery.  create_if_missing keeps a table that exists.
Effect(s) ==
  LET new == \/ s.op = "create_or_replace"
             \/ s.op = "create_if_missing" /\ s.id \notin DOMAIN tables
  IN
  /\ tables' = CASE new -> [id \in DOMAIN tables \cup {s.id} |->
                              IF id = s.id THEN <<>> ELSE tables[id]]
                 [] s.op = "drop_table" -> [id \in DOMAIN tables \ {s.id} |-> tables[id]]
                 [] OTHER -> tables
  /\ used' = IF new THEN used \cup {s.id} ELSE used
  /\ lagging' = IF s.op = "alter" \/ (new /\ s.id \in used)
                THEN lagging \cup {s.id} ELSE lagging
  /\ views' = CASE s.op = "replace_view" -> [views EXCEPT ![s.id[1]] = Some(s.id)]
                [] s.op = "drop_view" -> [views EXCEPT ![s.id[1]] = None]
                [] OTHER -> views

\* What the process keeps of it.
Keep(s) ==
  LET t == s.id[1] IN
  /\ created_tables' =
       CASE s.op = "cache_table" -> created_tables \cup {s.id}
         [] s.op = "drop_later" -> created_tables \ {s.id}
         [] s.op = "clear_cache" -> {id \in created_tables : id[1] # t}
         [] OTHER -> created_tables
  /\ created_views' =
       CASE s.op = "replace_view" -> [created_views EXCEPT ![t] = Some(s.id)]
         [] s.op = "clear_cache" -> [created_views EXCEPT ![t] = None]
         [] OTHER -> created_views
  /\ drops' = IF s.op = "drop_later" THEN drops \cup {s.id} ELSE drops
  /\ metadata' = IF s.op = "store" THEN [metadata EXCEPT ![t] = s.arg] ELSE metadata

\* The call returns an error: its events or its copy start again.
GiveUp ==
  /\ phase' = "retry" /\ chunk' = <<>> /\ last' = 0 /\ work' = <<>>
  /\ batch' = [t \in Tables |-> <<>>]

Restart ==
  /\ GiveUp
  /\ created_tables' = {} /\ created_views' = [t \in Tables |-> None] /\ drops' = {}

\* The kinds that the client gives its errors.
bq_error_to_etl_error(error) ==
  CASE error = "credentials" -> "DestinationAuthenticationError"
    [] error = "transport" -> "DestinationIoError"
    [] error = "response" -> "DestinationQueryFailed"
    [] error = "not_found" -> "DestinationTableMissing"
    [] error = "already_exists" -> "DestinationTableAlreadyExists"
    [] OTHER -> "DestinationError"

\* The error policy of the workers: the kinds with a timed retry.
TimedRetry == {"SourceConnectionFailed", "DestinationConnectionFailed",
               "DestinationAtomicBatchRetryable", "DestinationTimeout",
               "SourceDatabaseShutdown", "SourceDatabaseInRecovery"}

\* The worker fails with an error of this kind.
FailsWith(kind) ==
  IF kind \in TimedRetry THEN GiveUp /\ UNCHANGED inner ELSE Restart

\* A transient error makes table_exists answer TRUE, so that nothing is created.
StepDone ==
  /\ work # <<>> /\ Head(work).op \notin {"append", "fail"}
  /\ LET s == Head(work) IN Effect(s) /\ Keep(s)
  /\ work' = Tail(work)
  /\ UNCHANGED <<wal, identity, acked, from, reached, phase, chunk, last, batch, faults>>

ExistsUnanswered ==
  /\ work # <<>> /\ faults < MaxFaults
  /\ Head(work).op = "create_if_missing"
  /\ work' = Tail(work) /\ faults' = faults + 1
  /\ UNCHANGED <<wal, identity, acked, from, reached, phase, chunk, last, batch, inner,
                 bigquery, metadata>>

\* The request or its answer is lost: the error is not one that is retried.
StepFails ==
  /\ work # <<>> /\ Head(work).op # "append"
  /\ LET s == Head(work) IN
       \/ /\ s.op = "fail"
          /\ UNCHANGED <<bigquery, faults>>
       \/ /\ s.op \notin Local \cup {"store"} /\ faults < MaxFaults
          /\ faults' = faults + 1
          /\ Effect(s) \/ UNCHANGED bigquery
  /\ \E error \in {"credentials", "transport", "response"} :
       FailsWith(bq_error_to_etl_error(error))
  /\ UNCHANGED <<wal, identity, acked, from, reached, metadata>>

(* ---------------------------- append requests ----------------------------- *)

Appended(tbls, requests) ==
  LET all(id) == FlattenSeq(SetToSeq({r.arg : r \in {x \in requests : x.id = id}}))
  IN [id \in DOMAIN tbls |-> FoldLeft(Apply, tbls[id], all(id))]

\* append_table_batches_once: the requests run concurrently.  A request of a
\* table that does not exist fails, one of a lagging table is retried; the
\* requests of `lost` may or may not have been executed.
append_table_batches_once(requests, lost, executed) ==
  LET missing == {r \in requests : r.id \notin DOMAIN tables}
      lag == {r \in requests \ missing : r.id \in lagging}
      good == requests \ (missing \cup lag)
  IN [written |-> (good \ lost) \cup (lost \cap executed),
      errors |-> missing \cup lost,
      retry |-> lag]

\* One round of append_table_batches: done, or only the lagging requests stay
\* pending.
AppendRound ==
  /\ work # <<>> /\ Head(work).op = "append"
  /\ LET result == append_table_batches_once(Head(work).arg, {}, {})
         rest == [Head(work) EXCEPT !.arg = result.retry]
     IN /\ tables' = Appended(tables, result.written)
        /\ IF result.errors # {} THEN FailsWith(bq_error_to_etl_error("not_found"))
           ELSE /\ work' = (IF result.retry = {} THEN <<>> ELSE <<rest>>) \o Tail(work)
                /\ UNCHANGED <<phase, chunk, last, batch, inner>>
  /\ UNCHANGED <<wal, identity, acked, from, reached, used, lagging, views, metadata, faults>>

AppendLost ==
  /\ work # <<>> /\ Head(work).op = "append" /\ faults < MaxFaults
  /\ LET requests == Head(work).arg
         good == {r \in requests : r.id \in DOMAIN tables \ lagging}
     IN \E lost \in SUBSET good \ {{}} : \E executed \in SUBSET lost :
          tables' = Appended(tables,
                      append_table_batches_once(requests, lost, executed).written)
  /\ FailsWith(bq_error_to_etl_error("unavailable"))
  /\ faults' = faults + 1
  /\ UNCHANGED <<wal, identity, acked, from, reached, used, lagging, views, metadata>>

\* STORAGE_WRITE_METADATA_LAG_RETRY_TIMEOUT
AppendTimesOut ==
  /\ work # <<>> /\ Head(work).op = "append" /\ faults < MaxFaults
  /\ \E r \in Head(work).arg : r.id \in lagging
  /\ FailsWith("DestinationAtomicBatchRetryable")
  /\ faults' = faults + 1
  /\ UNCHANGED <<wal, identity, acked, from, reached, bigquery, metadata>>

LagEnds ==
  /\ lagging # {}
  /\ \E id \in lagging : lagging' = lagging \ {id}
  /\ UNCHANGED <<wal, identity, acked, from, reached, call, inner, tables, used, views,
                 metadata, faults>>

(* ---------------------------- background drops ---------------------------- *)

\* The task logs an error and does not try again.
DropTask ==
  /\ \E id \in drops :
       /\ drops' = drops \ {id}
       /\ \/ /\ tables' = [i \in DOMAIN tables \ {id} |-> tables[i]]
             /\ UNCHANGED faults
          \/ /\ faults < MaxFaults /\ faults' = faults + 1
             /\ UNCHANGED tables
  /\ UNCHANGED <<wal, identity, acked, from, reached, call, created_tables, created_views, used,
                 lagging, views, metadata>>

Crash ==
  /\ faults < MaxFaults
  /\ Restart
  /\ faults' = faults + 1
  /\ UNCHANGED <<wal, identity, acked, from, reached, bigquery, metadata>>

(* -------------------------------- the copy -------------------------------- *)

\* The rows of a copy have no sequence number.
CopyRows(t) ==
  LET rows == RowsAt(t, Len(wal))
      keys == SetToSeq(DOMAIN rows)
  IN [i \in 1..Len(keys) |-> [Row(keys[i], "UPSERT", 0, 0) EXCEPT !.by = rows[keys[i]]]]

Requests(id, batches) == {Step("request", id, batches[i]) : i \in 1..Len(batches)}

StartCopy(t) ==
  /\ phase \in {"idle", "retry"} /\ work = <<>> /\ from[t] = None
  /\ phase' = "copy" /\ last' = Len(wal)
  /\ batch' = [batch EXCEPT ![t] = CopyRows(t)]
  /\ chunk' = <<[table |-> t]>>
  /\ work' = drop_table_for_copy(t)
  /\ UNCHANGED <<wal, identity, acked, from, reached, inner, bigquery, metadata, faults>>

\* write_table_rows
PrepareCopy ==
  /\ phase = "copy" /\ work = <<>>
  /\ work' = prepare_table_for_streaming(chunk[1].table)
  /\ phase' = "write_copy"
  /\ UNCHANGED <<wal, identity, acked, from, reached, chunk, last, batch, inner, bigquery,
                 metadata, faults>>

WriteCopy ==
  /\ phase = "write_copy" /\ work = <<>>
  /\ LET t == chunk[1].table IN
       /\ \E target \in target_batches(batch[t]) :
            LET batches == split_table_rows(batch[t], target)
            IN work' = IF batches = <<>> THEN <<>>
                       ELSE <<Step("append", CurrentVersion(t),
                                   Requests(CurrentVersion(t), batches))>>
       /\ batch' = [batch EXCEPT ![t] = <<>>]
  /\ phase' = "copied"
  /\ UNCHANGED <<wal, identity, acked, from, reached, chunk, last, inner, bigquery, metadata,
                 faults>>

FinishCopy ==
  /\ phase = "copied" /\ work = <<>>
  /\ from' = [from EXCEPT ![chunk[1].table] = Some(last)]
  /\ phase' = "retry" /\ chunk' = <<>> /\ last' = 0
  /\ UNCHANGED <<wal, identity, acked, reached, batch, work, inner, bigquery, metadata, faults>>

\* An operator or an invalidated slot sends the table back to Init.
ResetTable(t) ==
  /\ from[t] # None /\ faults < MaxFaults
  /\ from' = [from EXCEPT ![t] = None]
  /\ IF ResetInProcess
     THEN phase \in {"idle", "retry"} /\ UNCHANGED <<call, inner>>
     ELSE Restart
  /\ faults' = faults + 1
  /\ UNCHANGED <<wal, identity, acked, reached, bigquery, metadata>>

(* ------------------------------ write_events ------------------------------ *)

\* A batch of the apply worker: the changes after the acknowledged ones that
\* are not part of their table's copy.
Deliver ==
  /\ phase \in {"idle", "retry"} /\ \A t \in Tables : from[t] # None
  /\ \E n \in (acked + 1)..Len(wal) :
       LET positions == [i \in 1..(n - acked) |-> acked + i]
           owned == SelectSeq(positions, LAMBDA i : i > The(from[wal[i].table]))
       IN /\ chunk' = [i \in 1..Len(owned) |->
                         [table |-> wal[owned[i]].table, op |-> wal[owned[i]].op,
                          old |-> wal[owned[i]].old, key |-> wal[owned[i]].key,
                          position |-> owned[i]]]
          /\ last' = n
          /\ reached' = Max({reached, n})
  /\ phase' = "collect"
  /\ UNCHANGED <<wal, identity, acked, from, batch, work, inner, bigquery, metadata,
                 faults>>

IsBarrier(e) == e.op \in {"truncate", "relation"}
Barrier == CHOOSE n \in 0..Len(chunk) :
             /\ \A i \in 1..n : ~IsBarrier(chunk[i])
             /\ n < Len(chunk) => IsBarrier(chunk[n + 1])

\* Updates and deletes need a primary key or full identity, an update the whole
\* new row.
Refused(e) ==
  \/ e.op = "partial_update"
  \/ e.op \in {"update", "delete"} /\ ~validate_bigquery_replica_identity(e.table)

\* The events up to a barrier, grouped by table.
Collect ==
  /\ phase = "collect" /\ work = <<>>
  /\ LET events == SubSeq(chunk, 1, Barrier)
         of(t) == SelectSeq(events, LAMBDA e : e.table = t)
         rows(t) == FlattenSeq([i \in 1..Len(of(t)) |-> RowsOf(of(t)[i])])
     IN IF \E i \in 1..Len(events) : Refused(events[i])
        THEN FailsWith("SourceSchemaError")
        ELSE /\ batch' = [t \in Tables |-> rows(t)]
             /\ chunk' = SubSeq(chunk, Barrier + 1, Len(chunk))
             /\ phase' = "prepare"
             /\ UNCHANGED <<last, work, inner>>
  /\ UNCHANGED <<wal, identity, acked, from, reached, bigquery, metadata, faults>>

\* Each table is prepared before one call appends the rows of all.
PrepareTables ==
  /\ phase = "prepare" /\ work = <<>>
  /\ work' = FlattenSeq([i \in 1..Cardinality(Tables) |->
               LET t == SetToSeq(Tables)[i]
               IN IF batch[t] = <<>> THEN <<>> ELSE prepare_table_for_streaming(t)])
  /\ phase' = "append"
  /\ UNCHANGED <<wal, identity, acked, from, reached, chunk, last, batch, inner, bigquery,
                 metadata, faults>>

AppendRows ==
  /\ phase = "append" /\ work = <<>>
  /\ LET written == {t \in Tables : batch[t] # <<>>}
         requests == {Step("request", CurrentVersion(t), batch[t]) : t \in written}
     IN work' = IF written = {} THEN <<>>
                ELSE <<Step("append", CurrentVersion(CHOOSE t \in written : TRUE), requests)>>
  /\ batch' = [t \in Tables |-> <<>>]
  /\ phase' = "relations"
  /\ UNCHANGED <<wal, identity, acked, from, reached, chunk, last, inner, bigquery, metadata,
                 faults>>

Relations ==
  /\ phase = "relations" /\ work = <<>>
  /\ IF chunk # <<>> /\ Head(chunk).op = "relation"
     THEN /\ work' = handle_relation_event(Head(chunk).table)
          /\ chunk' = Tail(chunk)
          /\ UNCHANGED phase
     ELSE /\ phase' = "truncates"
          /\ UNCHANGED <<work, chunk>>
  /\ UNCHANGED <<wal, identity, acked, from, reached, last, batch, inner, bigquery, metadata,
                 faults>>

\* Consecutive truncates, each table once, in the order of a hash map.
Truncates ==
  /\ phase = "truncates" /\ work = <<>>
  /\ LET n == CHOOSE k \in 0..Len(chunk) :
                /\ \A i \in 1..k : chunk[i].op = "truncate"
                /\ k < Len(chunk) => chunk[k + 1].op # "truncate"
         order == SetToSeq({chunk[i].table : i \in 1..n})
     IN /\ work' = FlattenSeq([i \in 1..Len(order) |-> process_truncate(order[i])])
        /\ chunk' = SubSeq(chunk, n + 1, Len(chunk))
        /\ phase' = IF n = Len(chunk) THEN "done" ELSE "collect"
  /\ UNCHANGED <<wal, identity, acked, from, reached, last, batch, inner, bigquery, metadata,
                 faults>>

\* async_result.send(Ok)
Acknowledge ==
  /\ phase = "done" /\ work = <<>>
  /\ acked' = last /\ last' = 0 /\ phase' = "idle"
  /\ UNCHANGED <<wal, identity, from, reached, chunk, batch, work, inner, bigquery, metadata,
                 faults>>

(* ------------------------------ specification ----------------------------- *)

QueryInit ==
  /\ wal = <<>> /\ identity \in [Tables -> Identities] /\ acked = 0
  /\ from = [t \in Tables |-> None] /\ reached = 0
  /\ phase = "retry" /\ chunk = <<>> /\ last = 0 /\ work = <<>>
  /\ batch = [t \in Tables |-> <<>>]
  /\ created_tables = {} /\ created_views = [t \in Tables |-> None] /\ drops = {}
  /\ tables = <<>> /\ used = {} /\ lagging = {}
  /\ views = [t \in Tables |-> None] /\ metadata = [t \in Tables |-> None]
  /\ faults = 0

QueryNext ==
  \/ \E t \in Tables : Commit(t) \/ StartCopy(t) \/ ResetTable(t)
  \/ StepDone \/ ExistsUnanswered \/ StepFails
  \/ AppendRound \/ AppendLost \/ AppendTimesOut \/ LagEnds
  \/ DropTask \/ Crash
  \/ PrepareCopy \/ WriteCopy \/ FinishCopy
  \/ Deliver \/ Collect \/ PrepareTables \/ AppendRows \/ Relations \/ Truncates
  \/ Acknowledge

QuerySpec == QueryInit /\ [][QueryNext]_queryVars

(* ------------------------------- properties ------------------------------- *)

\* What a reader of the view sees: key -> the change that wrote the row.
Visible(t) ==
  LET rows == IF \E id \in views[t] : id \in DOMAIN tables
              THEN tables[The(views[t])] ELSE <<>>
      live == {k \in DOMAIN rows : rows[k].type = "UPSERT"}
  IN [k \in live |-> rows[k].by]

\* Once all that was delivered is acknowledged, the view of every table shows exactly the
\* rows of the source at that change, whatever was lost, replayed, recopied or
\* truncated before: write_events and process_truncate_for_schemas promise that
\* "once the truncate is successfully processed, the system should be
\* consistent".
ViewIsExact ==
  phase = "idle" /\ acked = reached =>
    \A t \in Tables : \A n \in from[t] :
      Visible(t) = RowsAt(t, IF acked > n THEN acked ELSE n)

\* A background task never drops the version that a view shows: its version
\* was replaced in view and metadata before the task was started.
DropsAreStale ==
  \A id \in drops : Some(id) # views[id[1]] /\ \A m \in metadata[id[1]] : m.id # id
=============================================================================

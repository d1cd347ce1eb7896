-------------------------- MODULE ClickHouseTables --------------------------
(***************************************************************************)
(* The ClickHouse destination (etl-destinations/src/clickhouse).  Changes  *)
(* are appended as RowBinary rows, whose bytes follow the order of the     *)
(* table's columns and a null marker for each Nullable one.  MergeTree     *)
(* keeps them as a log; ReplacingMergeTree keeps the last one of each      *)
(* primary key, which the view <table>__current shows.                     *)
(*                                                                         *)
(* A call is a list of remote steps that `?` cuts short.  A failed insert  *)
(* and a timeout are retried in the same process, which keeps its cache of *)
(* nullable flags; other errors of the apply worker end the process, those *)
(* of a copy end the table's worker.  ClickHouse has no transactions: what *)
(* a call did before its error stays.                                      *)
(*                                                                         *)
(* External: Postgres, the store's metadata rows, and ClickHouse.          *)
(***************************************************************************)
EXTENDS Naturals, Sequences, FiniteSets, SequencesExt, FiniteSetsExt

CONSTANTS
  Tables,
  Keys,       \* primary keys of the rows
  Engines,    \* table engines that may be configured
  Schemas,    \* the schema of each version: columns in attnum order, their mask and
              \* the replica identity
  Operations, \* the changes that Postgres may commit
  MaxWal,     \* changes that Postgres commits
  MaxFaults   \* calls lost, crashes and resets

VARIABLES
  wal,        \* committed changes; a change's sequence key is its index
  engine,     \* ClickHouseInserterConfig::engine
  acked,      \* the changes that the apply worker need not replay
  from,       \* the change at which each table's copy was taken, once it is finished
  reached,    \* the last change that was ever delivered to write_events
  \* The process.
  announced,  \* the version of each table's last RELATION of this session, or 0
  phase,      \* where write_events stands
  chunk,      \* the events that it has not consumed
  last,       \* the change that an Ok acknowledges
  pending,    \* the rows collected for each table, and the schema they come with
  work,       \* the remote steps of the call in progress
  table_cache, \* the nullable flags of each table
  \* ClickHouse and the store.
  columns,    \* the user columns of each table that exists
  rows,       \* the rows of each table
  views,      \* the columns that each current view selects
  metadata,   \* the destination metadata row of each table
  faults

call == <<announced, phase, chunk, last, pending, work>>
clickhouse == <<columns, rows, views>>
houseVars == <<wal, engine, acked, from, reached, announced, phase, chunk, last, pending,
               work, table_cache, columns, rows, views, metadata, faults>>

None == {}
Some(x) == {x}
The(option) == CHOOSE x \in option : TRUE

(* ---------------------------- Postgres ----------------------------------- *)

\* The version of a table's schema after the first n changes.
VersionAt(t, n) == 1 + Cardinality({i \in 1..n : wal[i].table = t /\ wal[i].op = "alter"})

\* The rows of a table after the first n changes: key -> the change that wrote
\* the row.
RowsAt(t, n) ==
  LET apply(state, i) ==
        LET c == wal[i]
            kept == [k \in DOMAIN state \ {c.old} |-> state[k]]
        IN IF c.table # t THEN state
           ELSE CASE c.op = "truncate" -> <<>>
                  [] c.op = "delete" -> kept
                  [] c.op = "alter" -> state
                  [] OTHER -> [k \in DOMAIN kept \cup {c.key} |->
                                 IF k = c.key THEN i ELSE kept[k]]
  IN FoldLeft(apply, <<>>, [i \in 1..n |-> i])

Change(t, op, old, key) == [table |-> t, op |-> op, old |-> old, key |-> key]
NoKey == "none"

\* A call in progress does not look at later changes, so that they are
\* committed between calls.
Commit(t) ==
  /\ Len(wal) < MaxWal /\ phase \in {"idle", "retry"}
  /\ LET present == DOMAIN RowsAt(t, Len(wal))
         free == Keys \ present
     IN \E c \in {Change(t, "insert", NoKey, k) : k \in free}
               \cup {Change(t, "key_update", k, n) : k \in present, n \in free}
               \cup {Change(t, op, k, k) : op \in {"update", "partial_update"}, k \in present}
               \cup {Change(t, "delete", k, NoKey) : k \in present}
               \cup {Change(t, op, NoKey, NoKey) : op \in {"truncate", "alter"}} :
          /\ c.op \in Operations
          /\ c.op = "alter" => VersionAt(t, Len(wal)) < Len(Schemas)
          /\ wal' = Append(wal, c)
  /\ UNCHANGED <<engine, acked, from, reached, call, table_cache, clickhouse, metadata,
                 faults>>

(* ------------------------- schemas and columns ---------------------------- *)

\* ReplicatedTableSchema::from_mask: a mask that is too short hides the columns
\* beyond its end.
from_mask(schema, mask) ==
  LET kept == SelectSeq([i \in 1..Len(schema) |-> i], LAMBDA i : i <= Len(mask) /\ mask[i])
  IN [i \in 1..Len(kept) |-> schema[kept[i]]]

Replicated(v) == from_mask(Schemas[v].columns, Schemas[v].mask)
Names(cols) == [i \in 1..Len(cols) |-> cols[i].name]

\* A column of the table; those of ALTER TABLE ADD are always Nullable.
clickhouse_column_type(col, force_nullable) ==
  [name |-> col.name, nullable |-> col.nullable \/ force_nullable]

\* nullable_flags_from_clickhouse_columns, once the columns agree by name.
Agree(t, cols) == \E actual \in columns[t] : Names(actual) = Names(cols)
nullable_flags(t) == LET actual == The(columns[t]) IN [i \in 1..Len(actual) |-> actual[i].nullable]

\* ReplicatedTableSchema::diff: columns are identified by their position.
Positions(cols) == {cols[i].position : i \in 1..Len(cols)}
At(cols, p) == cols[CHOOSE i \in 1..Len(cols) : cols[i].position = p]
columns_to_add(old, new) == SelectSeq(new, LAMBDA c : c.position \notin Positions(old))
columns_to_remove(old, new) == SelectSeq(old, LAMBDA c : c.position \notin Positions(new))
columns_to_rename(old, new) ==
  SelectSeq(old, LAMBDA c : c.position \in Positions(new) /\ At(new, c.position).name # c.name)

(* ------------------------------ remote steps ------------------------------ *)

Step(op, t, arg) == [op |-> op, table |-> t, arg |-> arg]
Metadata(version, previous, status) ==
  [version |-> version, previous |-> previous, status |-> status]
Store(t, version, previous, status) ==
  Step("store", t, Some(Metadata(version, previous, status)))
IsApplying(t) == \E m \in metadata[t] : m.status = "applying"

Replacing == engine = "ReplacingMergeTree"

\* The whole primary key is replicated, ReplacingMergeTree has one to order by,
\* and old rows carry it.
validate_replica_identity_for_clickhouse(v) ==
  LET keys(cols) == {cols[i].position : i \in {j \in 1..Len(cols) : cols[j].pk}} IN
  /\ keys(Schemas[v].columns) \subseteq Positions(Replicated(v))
  /\ Replacing => keys(Replicated(v)) # {}
  /\ Schemas[v].identity \in {"primary_key", "full"}

issue_create_table_stmt(t, cols) ==
  <<Step("create_table", t, cols)>>
  \o (IF Replacing THEN <<Step("create_view", t, Names(cols))>> ELSE <<>>)

refresh_current_view(t, cols) ==
  IF Replacing THEN <<Step("drop_view", t, 0), Step("create_view", t, Names(cols))>> ELSE <<>>

reject_pk_alters(old, new) ==
  \E i \in 1..Len(old) :
    old[i].pk /\ (\/ old[i].position \notin Positions(new)
                  \/ At(new, old[i].position).name # old[i].name)

\* Each new column goes after the one before it, the first after the last user
\* column of the current schema.
Alters(t, old, new) ==
  LET add == columns_to_add(old, new)
      rename == columns_to_rename(old, new)
      remove == columns_to_remove(old, new)
      anchor(i) == IF i > 1 THEN Some(add[i - 1].name)
                   ELSE IF old = <<>> THEN None ELSE Some(Last(old).name)
  IN [i \in 1..Len(add) |-> Step("add_column", t, [column |-> add[i], after |-> anchor(i)])]
     \o [i \in 1..Len(rename) |->
           Step("rename_column", t,
                [old |-> rename[i].name, new |-> At(new, rename[i].position).name])]
     \o [i \in 1..Len(remove) |-> Step("drop_column", t, remove[i].name)]

\* Mutant: the current view keeps its projection.
DiffWithoutRefresh(t, old, new) == Alters(t, old, new)

apply_schema_diff(t, old, new) ==
  IF Replacing /\ reject_pk_alters(old, new) THEN <<Step("fail", t, 0)>>
  ELSE Alters(t, old, new) \o refresh_current_view(t, new)

create_table_with_metadata(t, v) ==
  <<Store(t, v, None, "applying")>> \o issue_create_table_stmt(t, Replicated(v))
  \o <<Store(t, v, None, "applied")>>

\* The previous schema is read through the mask of the new one.
recover_applying_metadata(t, v) ==
  LET m == The(metadata[t]) IN
  (IF m.previous = None THEN issue_create_table_stmt(t, Replicated(v))
   ELSE apply_schema_diff(t, from_mask(Schemas[The(m.previous)].columns,
                                       Schemas[m.version].mask), Replicated(v)))
  \o <<Store(t, m.version, None, "applied")>>

ensure_table_exists(t, v) ==
  IF ~validate_replica_identity_for_clickhouse(v) THEN <<Step("fail", t, 0)>>
  ELSE IF table_cache[t] # None THEN <<>>
  ELSE <<Step("table_engine", t, 0)>>
       \o (IF metadata[t] = None THEN create_table_with_metadata(t, v)
           ELSE IF IsApplying(t) THEN recover_applying_metadata(t, v) ELSE <<>>)
       \o <<Step("table_columns", t, Replicated(v))>>

\* Mutant: the flags of the old columns stay cached.
RelationKeepsFlags(t, v) ==
  IF \/ ~validate_replica_identity_for_clickhouse(v)
     \/ metadata[t] = None \/ IsApplying(t)
  THEN <<Step("fail", t, 0)>>
  ELSE LET m == The(metadata[t]) IN
       IF m.version = v THEN <<>>
       ELSE <<Store(t, v, Some(m.version), "applying")>>
            \o apply_schema_diff(t, Replicated(m.version), Replicated(v))
            \o <<Store(t, v, None, "applied")>>

\* get_applied_destination_table_metadata fails on a row that is being applied.
handle_relation_event(t, v) ==
  IF \/ ~validate_replica_identity_for_clickhouse(v)
     \/ metadata[t] = None \/ IsApplying(t)
  THEN <<Step("fail", t, 0)>>
  ELSE LET m == The(metadata[t]) IN
       IF m.version = v THEN <<>>
       ELSE <<Store(t, v, Some(m.version), "applying")>>
            \o apply_schema_diff(t, Replicated(m.version), Replicated(v))
            \o <<Store(t, v, None, "applied"), Step("invalidate", t, 0)>>

truncate_table_inner(t, v) == ensure_table_exists(t, v) \o <<Step("truncate", t, 0)>>

\* drop_table_for_copy_inner, then clear_table_copy_state of the table sync
\* worker.  Without a metadata row there is no schema to drop a table of.
drop_table_for_copy(t) ==
  (IF metadata[t] = None THEN <<>>
   ELSE (IF Replacing THEN <<Step("drop_view", t, 0)>> ELSE <<>>)
        \o <<Step("drop_table", t, 0), Step("invalidate", t, 0)>>)
  \o <<Step("store", t, None)>>

(* ------------------------- the calls of one step -------------------------- *)

Local == {"invalidate", "fail"}

IndexOf(cols, name) == {i \in 1..Len(cols) : cols[i].name = name}

\* ALTER TABLE ... IF [NOT] EXISTS on the columns of a table.
Altered(cols, s) ==
  CASE s.op = "add_column" ->
         LET new == clickhouse_column_type(s.arg.column, TRUE) IN
         IF IndexOf(cols, new.name) # {} THEN cols
         ELSE IF s.arg.after = None THEN <<new>> \o cols
         ELSE InsertAt(cols, The(IndexOf(cols, The(s.arg.after))) + 1, new)
    [] s.op = "rename_column" ->
         [i \in 1..Len(cols) |-> IF cols[i].name = s.arg.old
                                 THEN [cols[i] EXCEPT !.name = s.arg.new] ELSE cols[i]]
    [] s.op = "drop_column" -> SelectSeq(cols, LAMBDA c : c.name # s.arg)
    [] OTHER -> cols

\* ClickHouse refuses an unknown anchor, a name that is taken, a missing table.
Refuses(s) ==
  \/ /\ s.op \in {"add_column", "rename_column", "drop_column"}
     /\ \/ columns[s.table] = None
        \/ LET cols == The(columns[s.table]) IN
           \/ /\ s.op = "add_column"
              /\ IndexOf(cols, s.arg.column.name) = {}
              /\ \E after \in s.arg.after : IndexOf(cols, after) = {}
           \/ /\ s.op = "rename_column"
              /\ IndexOf(cols, s.arg.old) # {} /\ IndexOf(cols, s.arg.new) # {}
  \/ s.op = "table_columns" /\ ~Agree(s.table, s.arg)
  \/ s.op = "fail"

\* What a step does to ClickHouse.
Effect(s) ==
  LET t == s.table
      created == [i \in 1..Len(s.arg) |-> clickhouse_column_type(s.arg[i], FALSE)]
      altered == IF columns[t] = None THEN None ELSE Some(Altered(The(columns[t]), s))
  IN
  /\ columns' = [columns EXCEPT ![t] =
                   CASE s.op = "drop_table" -> None
                     [] s.op = "create_table" -> IF @ = None THEN Some(created) ELSE @
                     [] OTHER -> altered]
  /\ rows' = IF s.op \in {"drop_table", "truncate"} THEN [rows EXCEPT ![t] = {}] ELSE rows
  /\ views' = [views EXCEPT ![t] = CASE s.op = "drop_view" -> None
                                     [] s.op = "create_view" /\ @ = None -> Some(s.arg)
                                     [] OTHER -> @]

\* What the process keeps of it.
Keep(s) ==
  /\ table_cache' = [table_cache EXCEPT ![s.table] =
                       CASE s.op = "invalidate" -> None
                         [] s.op = "table_columns" -> Some(nullable_flags(s.table))
                         [] OTHER -> @]
  /\ metadata' = IF s.op = "store" THEN [metadata EXCEPT ![s.table] = s.arg] ELSE metadata

NoRows == [t \in Tables |-> [version |-> 0, rows |-> <<>>]]
NoSession == [t \in Tables |-> 0]

\* The call returns an error: its events or its copy start again.
GiveUp ==
  /\ phase' = "retry" /\ chunk' = <<>> /\ last' = 0 /\ work' = <<>>
  /\ pending' = NoRows /\ announced' = NoSession

Restart == GiveUp /\ table_cache' = [t \in Tables |-> None]

\* ClickHouseOperationKind::failed_kind
failed_kind(op) ==
  CASE op = "insert" -> "DestinationAtomicBatchRetryable"
    [] op = "table_engine" -> "Unknown"
    [] OTHER -> "DestinationQueryFailed"

\* timeout_call: the server answers with an error, or not in time.
timeout_call(op) ==
  {failed_kind(op)} \cup (IF op = "table_engine" THEN {} ELSE {"DestinationTimeout"})

\* The error policy of the workers: the kinds with a timed retry.
TimedRetry == {"DestinationConnectionFailed", "DestinationAtomicBatchRetryable",
               "DestinationTimeout"}

Copying == phase \in {"copy", "write_copy", "copied"}

FailsWith(kind) ==
  IF kind \in TimedRetry \/ Copying THEN GiveUp /\ UNCHANGED table_cache ELSE Restart

StepDone ==
  /\ work # <<>> /\ Head(work).op # "insert" /\ ~Refuses(Head(work))
  /\ LET s == Head(work) IN Effect(s) /\ Keep(s)
  /\ work' = Tail(work)
  /\ UNCHANGED <<wal, engine, acked, from, reached, announced, phase, chunk, last, pending,
                 faults>>

StepRefused ==
  /\ work # <<>> /\ Head(work).op # "insert" /\ Refuses(Head(work))
  /\ FailsWith(failed_kind(Head(work).op))
  /\ UNCHANGED <<wal, engine, acked, from, reached, clickhouse, metadata, faults>>

\* The request or its answer is lost.
StepFails ==
  /\ work # <<>> /\ Head(work).op \notin Local \cup {"store", "insert"} /\ faults < MaxFaults
  /\ LET s == Head(work) IN
       /\ ~Refuses(s)
       /\ Effect(s) \/ UNCHANGED clickhouse
       /\ \E kind \in timeout_call(s.op) : FailsWith(kind)
  /\ faults' = faults + 1
  /\ UNCHANGED <<wal, engine, acked, from, reached, metadata>>

Crash ==
  /\ faults < MaxFaults
  /\ Restart
  /\ faults' = faults + 1
  /\ UNCHANGED <<wal, engine, acked, from, reached, clickhouse, metadata>>

(* -------------------------------- inserts --------------------------------- *)

\* A row as append_cdc_columns completes it: its version and tombstone, or its
\* operation and LSN.
Row(op, key, position, by) == [op |-> op, key |-> key, version |-> position, by |-> by]

\* The bytes mean what they should when names and null markers agree.
Encoded(t, request, r) ==
  [key |-> r.key, op |-> r.op, version |-> r.version, by |-> r.by,
   aligned |-> Agree(t, Replicated(request.version)) /\ nullable_flags(t) = request.flags]

\* insert_rows: the tasks of the tables run concurrently; max_bytes_per_insert
\* may end a statement after every row.
Insert(t, request) ==
  rows' = [rows EXCEPT ![t] = @ \cup {Encoded(t, request, Head(request.rows))}]

InsertRow(t) ==
  /\ work # <<>> /\ Head(work).op = "insert"
  /\ LET request == Head(work).arg[t] IN
       /\ request.rows # <<>> /\ columns[t] # None
       /\ Insert(t, request)
       /\ LET left == [Head(work).arg EXCEPT ![t].rows = Tail(@)]
              done == \A u \in Tables : left[u].rows = <<>>
          IN work' = (IF done THEN <<>> ELSE <<[Head(work) EXCEPT !.arg = left]>>) \o Tail(work)
  /\ UNCHANGED <<wal, engine, acked, from, reached, announced, phase, chunk, last, pending,
                 table_cache, columns, views, metadata, faults>>

\* One task fails; the others are aborted where they are.
InsertFails(t) ==
  /\ work # <<>> /\ Head(work).op = "insert"
  /\ LET request == Head(work).arg[t] IN
       /\ request.rows # <<>>
       /\ IF columns[t] = None THEN UNCHANGED <<rows, faults>>
          ELSE /\ faults < MaxFaults /\ faults' = faults + 1
               /\ Insert(t, request) \/ UNCHANGED rows
  /\ \E kind \in timeout_call("insert") : FailsWith(kind)
  /\ UNCHANGED <<wal, engine, acked, from, reached, columns, views, metadata>>

\* The insert of what was collected, with the flags that ensure_table_exists
\* returned.
InsertStep ==
  LET request(t) == [version |-> pending[t].version, rows |-> pending[t].rows,
                     flags |-> IF pending[t].rows = <<>> THEN <<>> ELSE The(table_cache[t])]
  IN IF pending = NoRows THEN <<>>
     ELSE <<Step("insert", CHOOSE t \in Tables : TRUE, [t \in Tables |-> request(t)])>>

(* -------------------------------- the copy -------------------------------- *)

\* The copied rows are inserts of version 0.
CopyRows(t) ==
  LET present == RowsAt(t, Len(wal))
      keys == SetToSeq(DOMAIN present)
  IN [i \in 1..Len(keys) |-> Row("INSERT", keys[i], 0, present[keys[i]])]

StartCopy(t) ==
  /\ phase \in {"idle", "retry"} /\ work = <<>> /\ from[t] = None
  /\ phase' = "copy" /\ last' = Len(wal)
  /\ pending' = [pending EXCEPT ![t] =
                   [version |-> VersionAt(t, Len(wal)), rows |-> CopyRows(t)]]
  /\ chunk' = <<[table |-> t]>>
  /\ work' = drop_table_for_copy(t)
  /\ UNCHANGED <<wal, engine, acked, from, reached, announced, table_cache, clickhouse,
                 metadata, faults>>

\* write_table_rows_inner, called once even when there are no rows.
PrepareCopy ==
  /\ phase = "copy" /\ work = <<>>
  /\ LET t == chunk[1].table IN work' = ensure_table_exists(t, pending[t].version)
  /\ phase' = "write_copy"
  /\ UNCHANGED <<wal, engine, acked, from, reached, announced, chunk, last, pending,
                 table_cache, clickhouse, metadata, faults>>

WriteCopy ==
  /\ phase = "write_copy" /\ work = <<>>
  /\ work' = IF pending[chunk[1].table].rows = <<>> THEN <<>> ELSE InsertStep
  /\ pending' = NoRows /\ phase' = "copied"
  /\ UNCHANGED <<wal, engine, acked, from, reached, announced, chunk, last, table_cache,
                 clickhouse, metadata, faults>>

FinishCopy ==
  /\ phase = "copied" /\ work = <<>>
  /\ from' = [from EXCEPT ![chunk[1].table] = Some(last)]
  /\ phase' = "retry" /\ chunk' = <<>> /\ last' = 0
  /\ UNCHANGED <<wal, engine, acked, reached, announced, pending, work, table_cache,
                 clickhouse, metadata, faults>>

\* An operator or an invalidated slot sends the table back to Init.
ResetTable(t) ==
  /\ from[t] # None /\ faults < MaxFaults
  /\ from' = [from EXCEPT ![t] = None]
  /\ Restart
  /\ faults' = faults + 1
  /\ UNCHANGED <<wal, engine, acked, reached, clickhouse, metadata>>

(* ------------------------------ write_events ------------------------------ *)

Event(i) ==
  LET c == wal[i] IN
  [op |-> c.op, table |-> c.table, old |-> c.old, key |-> c.key, position |-> i,
   version |-> VersionAt(c.table, i)]

\* pgoutput announces a table before its first change of a session and after a
\* change of its schema.
Announce(state, e) ==
  LET relation == [e EXCEPT !.op = "relation"] IN
  IF e.op = "alter" THEN state
  ELSE [events |-> state.events \o (IF state.announced[e.table] = e.version THEN <<e>>
                                    ELSE <<relation, e>>),
        announced |-> [state.announced EXCEPT ![e.table] = e.version]]

\* A batch of the apply worker: the changes after the acknowledged ones that
\* are not part of their table's copy.
Deliver ==
  /\ phase \in {"idle", "retry"} /\ \A t \in Tables : from[t] # None
  /\ \E n \in (acked + 1)..Len(wal) :
       LET positions == [i \in 1..(n - acked) |-> acked + i]
           owned == SelectSeq(positions, LAMBDA i : i > The(from[wal[i].table]))
           batch == FoldLeft(LAMBDA s, i : Announce(s, Event(i)),
                             [events |-> <<>>, announced |-> announced], owned)
       IN /\ chunk' = batch.events /\ announced' = batch.announced
          /\ last' = n
          /\ reached' = Max({reached, n})
  /\ phase' = "collect"
  /\ UNCHANGED <<wal, engine, acked, from, pending, work, table_cache, clickhouse, metadata,
                 faults>>

IsBarrier(e) == e.op \in {"truncate", "relation"}
Pass == CHOOSE n \in 0..Len(chunk) :
          /\ \A i \in 1..n : ~IsBarrier(chunk[i])
          /\ n < Len(chunk) => IsBarrier(chunk[n + 1])

\* Mutant: a delete is written as the row that it removes.
DeleteKeepsRow(e) == Row("UPDATE", e.old, e.position, e.position)

\* PendingRow: an update writes its new row, a delete its old one.
PendingRow(e) ==
  CASE e.op = "insert" -> Row("INSERT", e.key, e.position, e.position)
    [] e.op \in {"update", "key_update"} -> Row("UPDATE", e.key, e.position, e.position)
    [] OTHER -> Row("DELETE", e.old, e.position, e.position)

\* The events of a pass, grouped by table under the schema of the first; an
\* update needs the whole new row.
Collect ==
  /\ phase = "collect" /\ work = <<>>
  /\ LET events == SubSeq(chunk, 1, Pass)
         of(t) == SelectSeq(events, LAMBDA e : e.table = t)
     IN IF \E i \in 1..Len(events) : events[i].op = "partial_update"
        THEN FailsWith("InvalidState")
        ELSE /\ pending' = [t \in Tables |->
                  IF of(t) = <<>> THEN NoRows[t]
                  ELSE [version |-> Head(of(t)).version,
                        rows |-> [i \in 1..Len(of(t)) |-> PendingRow(of(t)[i])]]]
             /\ chunk' = SubSeq(chunk, Pass + 1, Len(chunk))
             /\ phase' = "prepare"
             /\ UNCHANGED <<announced, last, work, table_cache>>
  /\ UNCHANGED <<wal, engine, acked, from, reached, clickhouse, metadata, faults>>

\* flush_pending_rows: every table is ensured before any row is inserted.
PrepareTables ==
  /\ phase = "prepare" /\ work = <<>>
  /\ work' = FlattenSeq([i \in 1..Cardinality(Tables) |->
               LET t == SetToSeq(Tables)[i] IN
               IF pending[t].rows = <<>> THEN <<>> ELSE ensure_table_exists(t, pending[t].version)])
  /\ phase' = "insert"
  /\ UNCHANGED <<wal, engine, acked, from, reached, announced, chunk, last, pending,
                 table_cache, clickhouse, metadata, faults>>

InsertRows ==
  /\ phase = "insert" /\ work = <<>>
  /\ work' = InsertStep
  /\ pending' = NoRows
  /\ phase' = "relations"
  /\ UNCHANGED <<wal, engine, acked, from, reached, announced, chunk, last, table_cache,
                 clickhouse, metadata, faults>>

Relations ==
  /\ phase = "relations" /\ work = <<>>
  /\ IF chunk # <<>> /\ Head(chunk).op = "relation"
     THEN /\ work' = handle_relation_event(Head(chunk).table, Head(chunk).version)
          /\ chunk' = Tail(chunk)
          /\ UNCHANGED phase
     ELSE /\ phase' = "truncates"
          /\ UNCHANGED <<work, chunk>>
  /\ UNCHANGED <<wal, engine, acked, from, reached, announced, last, pending, table_cache,
                 clickhouse, metadata, faults>>

\* Consecutive truncates, each table once.
Truncates ==
  /\ phase = "truncates" /\ work = <<>>
  /\ LET n == CHOOSE k \in 0..Len(chunk) :
                /\ \A i \in 1..k : chunk[i].op = "truncate"
                /\ k < Len(chunk) => chunk[k + 1].op # "truncate"
         first(t) == chunk[CHOOSE i \in 1..n :
                             chunk[i].table = t /\ \A j \in 1..(i - 1) : chunk[j].table # t]
         order == SetToSeq({chunk[i].table : i \in 1..n})
     IN /\ work' = FlattenSeq([i \in 1..Len(order) |->
                     truncate_table_inner(order[i], first(order[i]).version)])
        /\ chunk' = SubSeq(chunk, n + 1, Len(chunk))
        /\ phase' = IF n = Len(chunk) THEN "done" ELSE "collect"
  /\ UNCHANGED <<wal, engine, acked, from, reached, announced, last, pending, table_cache,
                 clickhouse, metadata, faults>>

\* async_result.send(Ok)
Acknowledge ==
  /\ phase = "done" /\ work = <<>>
  /\ acked' = last /\ last' = 0 /\ phase' = "idle"
  /\ UNCHANGED <<wal, engine, from, reached, announced, chunk, pending, work, table_cache,
                 clickhouse, metadata, faults>>

(* ------------------------------ specification ----------------------------- *)

HouseInit ==
  /\ wal = <<>> /\ engine \in Engines /\ acked = 0
  /\ from = [t \in Tables |-> None] /\ reached = 0
  /\ announced = NoSession
  /\ phase = "retry" /\ chunk = <<>> /\ last = 0 /\ work = <<>> /\ pending = NoRows
  /\ table_cache = [t \in Tables |-> None]
  /\ columns = [t \in Tables |-> None] /\ rows = [t \in Tables |-> {}]
  /\ views = [t \in Tables |-> None] /\ metadata = [t \in Tables |-> None]
  /\ faults = 0

HouseWork ==
  \/ \E t \in Tables : StartCopy(t) \/ InsertRow(t)
  \/ StepDone \/ StepRefused
  \/ PrepareCopy \/ WriteCopy \/ FinishCopy
  \/ Deliver \/ Collect \/ PrepareTables \/ InsertRows \/ Relations \/ Truncates
  \/ Acknowledge

HouseNext ==
  \/ HouseWork
  \/ \E t \in Tables : Commit(t) \/ ResetTable(t) \/ InsertFails(t)
  \/ StepFails \/ Crash

HouseSpec == HouseInit /\ [][HouseNext]_houseVars

(* ------------------------------- properties ------------------------------- *)

\* What FINAL and the filter on _etl_deleted leave of the rows.
Final(t) ==
  LET newest == {r \in rows[t] : \A o \in rows[t] : o.key = r.key => o.version <= r.version}
      live == {r \in newest : r.op # "DELETE"}
      of(k) == CHOOSE r \in live : r.key = k
  IN [k \in {r.key : r \in live} |-> of(k).by]

\* The log of a MergeTree table after the first n changes, for a copy at m.
LogAt(t, m, n) ==
  LET cleared == Max({0} \cup {i \in (m + 1)..n : wal[i].table = t /\ wal[i].op = "truncate"})
      copied == IF cleared > 0 THEN <<>> ELSE RowsAt(t, m)
      streamed == {i \in (Max({m, cleared}) + 1)..n :
                     wal[i].table = t /\ wal[i].op \notin {"alter", "truncate"}}
  IN {[op |-> "INSERT", key |-> k, by |-> copied[k]] : k \in DOMAIN copied}
     \cup {LET r == PendingRow(Event(i)) IN [op |-> r.op, key |-> r.key, by |-> i] : i \in streamed}

\* RowBinary is positional: every row that was ever inserted was encoded for
\* the columns and the Nullable markers that its table had, whatever ALTERs and
\* cached flags came before (nullable_flags_from_clickhouse_columns, and the
\* cache that handle_relation_event invalidates).
RowsAreAligned == \A t \in Tables : \A r \in rows[t] : r.aligned

\* Once all that was delivered is acknowledged, a ReplacingMergeTree table reads
\* as the rows of the source, and a MergeTree table as its changes: "gives
\* current-state reads via FINAL", "an append-only event-log layout".
StoredIsExact ==
  phase = "idle" /\ acked = reached =>
    \A t \in Tables : \A m \in from[t] :
      LET n == Max({acked, m}) IN
      IF Replacing THEN Final(t) = RowsAt(t, n)
      ELSE {[op |-> r.op, key |-> r.key, by |-> r.by] : r \in rows[t]} = LogAt(t, m, n)

\* Metadata is only Applied when the ALTERs of its version were all executed: the
\* table has the columns of that version in order, and so has its current view.
AppliedMeansAltered ==
  \A t \in Tables : \A m \in metadata[t] :
    m.status = "applied" /\ from[t] # None =>
      /\ Agree(t, Replicated(m.version))
      /\ Replacing => views[t] = Some(Names(Replicated(m.version)))
=============================================================================

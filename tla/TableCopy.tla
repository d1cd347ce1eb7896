------------------------------ MODULE TableCopy ------------------------------
(***************************************************************************)
(* The initial copy of one table (etl/src/workers/table_sync_copy.rs, the  *)
(* copy queries of replication/client.rs, the batching stream, the memory  *)
(* monitor and the batch budget of etl/src/concurrency).                   *)
(*                                                                         *)
(* With one connection the table is read by a single COPY in the slot's    *)
(* transaction.  With more, a plain table is cut into ranges of pages and  *)
(* a partitioned one into its leaves; every part is copied by a task with  *)
(* its own connection, pinned to the exported snapshot.  Rows are sets:    *)
(* the order inside a COPY does not matter to what arrives.                *)
(***************************************************************************)
EXTENDS CtidPartitions, FiniteSets, Sequences

CONSTANTS
  Rows,            \* the rows of the slot's snapshot
  BlockOf, LeafOf, \* the page and the leaf partition a row lives in
  Blocks,          \* size of the table in pages when it is sampled
  Kept,            \* the rows the publication's row filter keeps
  Layouts,         \* records [partitioned, filtered, connections]
  MaxBatchBytes, MemoryBudget,  \* batch limits, in rows
  MaxMemory, Activate, Resume,  \* memory use and the two thresholds
  MaxFaults        \* bound: failures of connections, queries and writes

VARIABLES
  layout,    \* the table and the configuration, fixed at the start
  parts,     \* the CopyPartitions planned
  spawned,   \* how many of them have a task
  task,      \* the tasks, by index of their part
  permits,   \* free slots of the semaphore
  main,      \* the transaction that exported the snapshot is open
  dest,      \* how often each row is at the destination
  result,    \* "idle", "running", "completed", "shutdown" or "error"
  pressure,  \* the watch channel of the memory monitor
  shutdown,
  faults

copyVars == <<layout, parts, spawned, task, permits, main, dest, result,
              pressure, shutdown, faults>>

Leaves == {LeafOf[r] : r \in Rows}
Root == "root"

\* pg_publication_tables of a publication with publish_via_partition_root,
\* which Pipeline::start requires for partitioned tables, lists the root only.
PublishedFilter(table) == IF layout.filtered /\ table = Root THEN {Kept} ELSE {}

\* get_row_filter: no row in the publication's list means no filter.
get_row_filter(table) == IF PublishedFilter(table) = {} THEN Rows
                         ELSE CHOOSE f \in PublishedFilter(table) : TRUE

WholeTable == [kind |-> "Whole"]
CtidRange(p) == [kind |-> "Ctid", range |-> p]
LeafPartition(l) == [kind |-> "Leaf", leaf |-> l]

get_table_copy_stream(table) ==
  {r \in get_row_filter(table) : table = Root \/ LeafOf[r] = table}

get_table_copy_stream_with_ctid_partition(table, range) ==
  {r \in get_row_filter(table) : InCtidRange(range, BlockOf[r])}

CopyStream(p) ==
  CASE p.kind = "Whole" -> get_table_copy_stream(Root)
    [] p.kind = "Ctid"  -> get_table_copy_stream_with_ctid_partition(Root, p.range)
    [] p.kind = "Leaf"  -> get_table_copy_stream(p.leaf)

\* The leaves in the order of their identifiers.
LeafSequence ==
  CHOOSE s \in [1..Cardinality(Leaves) -> Leaves] :
    \A i, j \in 1..Cardinality(Leaves) : i # j => s[i] # s[j]

PlanParts ==
  IF layout.connections <= 1 THEN <<WholeTable>>
  ELSE IF layout.partitioned
       THEN [i \in 1..Len(LeafSequence) |-> LeafPartition(LeafSequence[i])]
       ELSE LET plan == plan_ctid_partitions(Blocks, layout.connections)
            IN  [i \in 1..Len(plan) |-> CtidRange(plan[i])]

(***************************************************************************)
(* Batching                                                                *)
(***************************************************************************)
NoTask == [st |-> "none", left |-> {}, items |-> {}, budget |-> 0]

Streaming(i) == task[i].st \in {"copying", "writing"}

active_streams == Cardinality({i \in DOMAIN task : Streaming(i)})

max(a, b) == IF a > b THEN a ELSE b

ideal_batch_size_bytes(streams) ==
  max(min(max(max(MemoryBudget, 1) \div max(streams, 1), 1), max(MaxBatchBytes, 1)), 1)

\* Reads of the budget are cached: a stream uses its last value or a new one.
current_batch_size_bytes(i) == {task[i].budget, ideal_batch_size_bytes(active_streams)}

compute_next_backpressure_active(active, used) ==
  IF active THEN used >= Resume ELSE used >= Activate

(***************************************************************************)
(* The copy                                                                *)
(***************************************************************************)
Ended(st) == st \in {"ok", "shutdown", "error"}

\* A task that ends gives its permit back, whatever its outcome.
EndTask(i, st) ==
  /\ task' = [task EXCEPT ![i] = [NoTask EXCEPT !.st = st]]
  /\ permits' = permits + 1

Fault == faults < MaxFaults /\ faults' = faults + 1

Idle == UNCHANGED <<layout, parts, spawned, main, dest, result, pressure, shutdown, faults>>

StartCopy ==
  /\ result = "idle"
  /\ parts' = PlanParts
  /\ task' = [i \in 1..Len(PlanParts) |-> NoTask]
  /\ spawned' = 0
  /\ permits' = layout.connections
  /\ main' = TRUE
  /\ result' = IF PlanParts = <<>> THEN "completed" ELSE "running"
  /\ UNCHANGED <<layout, dest, pressure, shutdown, faults>>

\* Planning or exporting the snapshot fails.
PlanFails ==
  /\ result = "idle"
  /\ Fault
  /\ result' = "error"
  /\ UNCHANGED <<layout, parts, spawned, task, permits, main, dest, pressure, shutdown>>

SpawnPartition ==
  /\ result = "running"
  /\ spawned < Len(parts)
  /\ permits > 0
  /\ spawned' = spawned + 1
  /\ permits' = permits - 1
  /\ task' = [task EXCEPT ![spawned + 1].st = "connecting"]
  /\ UNCHANGED <<layout, parts, main, dest, result, pressure, shutdown, faults>>

\* fork_child, SET TRANSACTION SNAPSHOT and the COPY query.  The snapshot can
\* be imported only while the exporting transaction is open.
OpenStream(i) ==
  /\ task[i].st = "connecting"
  /\ parts[i].kind = "Whole" \/ main
  /\ task' = [task EXCEPT ![i] =
                [st |-> "copying", left |-> CopyStream(parts[i]), items |-> {},
                 budget |-> ideal_batch_size_bytes(active_streams + 1)]]
  /\ UNCHANGED permits /\ Idle

OpenStreamFails(i) ==
  /\ task[i].st = "connecting"
  /\ IF main THEN Fault ELSE UNCHANGED faults
  /\ EndTask(i, "error")
  /\ UNCHANGED <<layout, parts, spawned, main, dest, result, pressure, shutdown>>

\* A row arrives; the batch is handed over when it reaches the budget.
PollRow(i) ==
  /\ task[i].st = "copying"
  /\ ~pressure
  /\ \E r \in task[i].left, b \in current_batch_size_bytes(i) :
       LET items == task[i].items \cup {r}
       IN  task' = [task EXCEPT ![i] =
                      [st |-> IF Cardinality(items) >= b THEN "writing" ELSE "copying",
                       left |-> task[i].left \ {r}, items |-> items, budget |-> b]]
  /\ UNCHANGED permits /\ Idle

\* A partial batch is handed over under memory pressure, at its deadline or
\* at the end of the stream.
EmitBatch(i) ==
  /\ task[i].st = "copying"
  /\ task[i].items # {}
  /\ task' = [task EXCEPT ![i].st = "writing"]
  /\ UNCHANGED permits /\ Idle

Land(rows) == dest' = [r \in Rows |-> dest[r] + (IF r \in rows THEN 1 ELSE 0)]

\* write_table_rows returns and the result it was given is acknowledged.
WriteTableRows(i) ==
  /\ task[i].st = "writing"
  /\ Land(task[i].items)
  /\ task' = [task EXCEPT ![i].st = "copying", ![i].items = {}]
  /\ UNCHANGED <<layout, parts, spawned, permits, main, result, pressure, shutdown, faults>>

\* The write fails; its rows are at the destination or they are not.
WriteFails(i) ==
  /\ task[i].st = "writing"
  /\ Fault
  /\ \E landed \in {{}, task[i].items} : Land(landed)
  /\ EndTask(i, "error")
  /\ UNCHANGED <<layout, parts, spawned, main, result, pressure, shutdown>>

\* The stream ends and the child transaction commits.
StreamEnds(i) ==
  /\ task[i].st = "copying"
  /\ ~pressure
  /\ task[i].left = {} /\ task[i].items = {}
  /\ EndTask(i, "ok")
  /\ Idle

\* The connection ends, a row cannot be converted or the commit fails: the
\* rows of the open batch are dropped with the stream.
StreamFails(i) ==
  /\ task[i].st = "copying"
  /\ Fault
  /\ EndTask(i, "error")
  /\ UNCHANGED <<layout, parts, spawned, main, dest, result, pressure, shutdown>>

\* Mutant: the copy polls its stream before the shutdown signal.
StreamSeesShutdownLate(i) ==
  /\ task[i].st = "copying"
  /\ shutdown
  /\ ~pressure
  /\ EndTask(i, "shutdown")
  /\ Idle

\* The first branch of the biased select.
StreamSeesShutdown(i) ==
  /\ task[i].st = "copying"
  /\ shutdown
  /\ EndTask(i, "shutdown")
  /\ Idle

\* Dropping the join set aborts what still runs; a write that was under way
\* has landed or never will.
AbortOthers ==
  /\ \E landed \in SUBSET {j \in DOMAIN task : task[j].st = "writing"} :
       Land(UNION {task[j].items : j \in landed})
  /\ task' = [j \in DOMAIN task |-> NoTask]

\* Mutant: a task that saw the shutdown counts as complete.
JoinTaskLeniently(i) ==
  /\ result = "running"
  /\ spawned = Len(parts)
  /\ Ended(task[i].st)
  /\ IF task[i].st # "error"
       THEN /\ task' = [task EXCEPT ![i].st = "joined"]
            /\ result' = IF \A j \in DOMAIN task \ {i} : task[j].st = "joined"
                         THEN "completed" ELSE "running"
            /\ UNCHANGED dest
       ELSE /\ AbortOthers
            /\ result' = task[i].st
  /\ UNCHANGED <<layout, parts, spawned, permits, main, pressure, shutdown, faults>>

\* join_next, reached once every part has been spawned.
JoinTask(i) ==
  /\ result = "running"
  /\ spawned = Len(parts)
  /\ Ended(task[i].st)
  /\ IF task[i].st = "ok"
       THEN /\ task' = [task EXCEPT ![i].st = "joined"]
            /\ result' = IF \A j \in DOMAIN task \ {i} : task[j].st = "joined"
                         THEN "completed" ELSE "running"
            /\ UNCHANGED dest
       ELSE /\ AbortOthers
            /\ result' = task[i].st
  /\ UNCHANGED <<layout, parts, spawned, permits, main, pressure, shutdown, faults>>

\* The worker's next attempt drops the destination table before it copies.
RetryCopy ==
  /\ result = "error"
  /\ ~shutdown
  /\ result' = "idle"
  /\ dest' = [r \in Rows |-> 0]
  /\ UNCHANGED <<layout, parts, spawned, task, permits, main, pressure, shutdown, faults>>

\* The connection that exported the snapshot is lost; the parallel copy does
\* not watch it.
MainConnectionLost ==
  /\ result = "running"
  /\ main /\ layout.connections > 1
  /\ Fault
  /\ main' = FALSE
  /\ UNCHANGED <<layout, parts, spawned, task, permits, dest, result, pressure, shutdown>>

(***************************************************************************)
(* Memory monitor and shutdown                                             *)
(***************************************************************************)
\* A tick of the refresh task, which stops for good at shutdown.
RefreshMemory ==
  /\ ~shutdown
  /\ result = "running"
  /\ \E used \in 0..MaxMemory : pressure' = compute_next_backpressure_active(pressure, used)
  /\ UNCHANGED <<layout, parts, spawned, task, permits, main, dest, result, shutdown, faults>>

Shutdown ==
  /\ ~shutdown
  /\ shutdown' = TRUE
  /\ UNCHANGED <<layout, parts, spawned, task, permits, main, dest, result, pressure, faults>>

Init ==
  /\ layout \in Layouts
  /\ parts = <<>> /\ spawned = 0 /\ task = <<>> /\ permits = 0 /\ main = FALSE
  /\ dest = [r \in Rows |-> 0]
  /\ result = "idle"
  /\ pressure \in BOOLEAN
  /\ shutdown = FALSE
  /\ faults = 0

Progress(i) ==
  OpenStream(i) \/ PollRow(i) \/ EmitBatch(i) \/ WriteTableRows(i) \/ StreamEnds(i)
    \/ StreamSeesShutdown(i)

Copy ==
  \/ StartCopy \/ SpawnPartition \/ RetryCopy
  \/ \E i \in DOMAIN task : Progress(i) \/ JoinTask(i)
  \/ \E i \in DOMAIN task : OpenStreamFails(i) /\ ~main

Next ==
  \/ Copy \/ PlanFails \/ MainConnectionLost \/ RefreshMemory \/ Shutdown
  \/ \E i \in DOMAIN task : OpenStreamFails(i) \/ WriteFails(i) \/ StreamFails(i)

Spec == Init /\ [][Next]_copyVars
FairSpec == Spec /\ WF_copyVars(Copy)

(***************************************************************************)
(* Properties                                                              *)
(***************************************************************************)
PublishedRows == IF layout.filtered THEN Kept ELSE Rows

\* A copy that reports completion has written every row the publication
\* publishes exactly once, however the table was divided, whatever failed
\* before and whenever memory pressure cut a batch short.
CopiedExactlyOnce ==
  result = "completed" => \A r \in Rows : dest[r] = IF r \in PublishedRows THEN 1 ELSE 0

\* No more child connections are open than max_copy_connections allows.
ConnectionsAreBounded ==
  Cardinality({i \in DOMAIN task : task[i].st \in {"connecting", "copying", "writing"}})
    <= layout.connections

Over == result \in {"completed", "shutdown", "error"}
Held == pressure /\ ~shutdown

\* A copy ends when the pipeline shuts down, even when the memory monitor has
\* stopped with the pressure on, and it ends once memory stays free.
CopyEnds == []<>(Over \/ Held)
=============================================================================

--------------------------- MODULE PostgresStates ---------------------------
(***************************************************************************)
(* The replication states of a pipeline in PostgreSQL: the rows of         *)
(* etl.replication_state, in which every row names the one it replaced     *)
(* (etl-postgres/src/replication/state.rs), and the cache of the           *)
(* replicator's store (store/both/postgres.rs).  The management API changes *)
(* the same rows from another process (etl-api rollback_tables), while the *)
(* replicator runs and without its lock.                                   *)
(*                                                                         *)
(* A rollback first reads the current row and then writes by row id, so    *)
(* the two processes interleave between the read and the writes.  From its *)
(* first write to its commit a transaction is one step: it holds the lock  *)
(* of the row that the other one would have to write first.                *)
(***************************************************************************)
EXTENDS Naturals, Sequences

CONSTANTS
  Tables,   \* the tables of the pipeline
  Phases,   \* the phases that can be stored
  Fresh,    \* the phase of a table that starts over, TableReplicationPhase::Init
  NoPhase,  \* the cache has no entry for the table
  Requests, \* the requests of the management API that run at the same time
  MaxId     \* rows of a table that are inserted

ASSUME StatesAssumption ==
  /\ Fresh \in Phases
  /\ NoPhase \notin Phases
  /\ "store" \notin Requests
  /\ MaxId \in Nat

VARIABLES
  rows,     \* rows[t][id]: the live rows of the table in etl.replication_state
  next_id,  \* next_id[t]: the next row id
  cache,    \* cache[t]: the phase in the store's table_states
  reads,    \* reads[p][t]: the current row and its prev, as read by p's rollback
  drifted   \* tables whose rows were changed behind the store's back

vars == <<rows, next_id, cache, reads, drifted>>

\* Row ids start at 1: 0 is the null reference.
Null == 0

Processes == Requests \cup {"store"}

Row == [phase : Phases, prev : Nat, is_current : BOOLEAN]

Read == [current : Nat, prev : Nat]

Nothing == [i \in {} |-> Null]

-----------------------------------------------------------------------------
(* The statements, on the rows of one table.                                *)

Current(r) == {i \in DOMAIN r : r[i].is_current}

CurrentRow(r) == CHOOSE i \in Current(r) : TRUE

CurrentPhase(r) == IF Current(r) = {} THEN NoPhase ELSE r[CurrentRow(r)].phase

\* Mutant: the new row does not refer to the one it replaces.
UpdatedWithoutPrev(r, id, phase) ==
  [i \in DOMAIN r \cup {id} |->
     IF i = id THEN [phase |-> phase, prev |-> Null, is_current |-> TRUE]
     ELSE [r[i] EXCEPT !.is_current = FALSE]]

\* The current row is marked as old and the new row refers to it.
Updated(r, id, phase) ==
  [i \in DOMAIN r \cup {id} |->
     IF i = id THEN [phase |-> phase,
                     prev |-> IF Current(r) = {} THEN Null ELSE CurrentRow(r),
                     is_current |-> TRUE]
     ELSE [r[i] EXCEPT !.is_current = FALSE]]

\* Every row is deleted and a first one inserted.
Reset(id) == [i \in {id} |-> [phase |-> Fresh, prev |-> Null, is_current |-> TRUE]]

\* The foreign key of prev lets only an unreferenced row be deleted.
CanDelete(r, id) == \A j \in DOMAIN r : r[j].prev # id

\* Mutant: the table has no unique index on its current rows.
CanMakeAnyCurrent(r, read) == TRUE

\* The unique index allows one current row beside the deleted one.
CanMakeCurrent(r, read) == \A j \in Current(r) : j \in {read.current, read.prev}

\* The row that was read is deleted; the row before it becomes current and has
\* to be there.
CanRollback(r, read) ==
  /\ CanDelete(r, read.current)
  /\ CanMakeCurrent(r, read)
  /\ read.prev \in DOMAIN r

RolledBack(r, read) ==
  [i \in DOMAIN r \ {read.current} |->
     IF i = read.prev THEN [r[i] EXCEPT !.is_current = TRUE] ELSE r[i]]

-----------------------------------------------------------------------------
(* The replicator's store.  It holds its lock from the start of an operation *)
(* to the update of the cache.                                              *)

StoreIsFree == reads["store"] = Nothing

HasIds(tables) == \A t \in tables : next_id[t] <= MaxId

TakeIds(tables) ==
  next_id' = [t \in Tables |-> IF t \in tables THEN next_id[t] + 1 ELSE next_id[t]]

\* Mutant: the store forgets to update its cache.
CommitWithoutCache(tables, phase) ==
  /\ drifted' = drifted \ tables
  /\ UNCHANGED cache

\* The cache follows a commit that is reported.  When the answer is lost the
\* rows have changed and the caller sees an error.
Commit(tables, phase) ==
  \/ /\ cache' = [t \in Tables |-> IF t \in tables THEN phase[t] ELSE cache[t]]
     /\ drifted' = drifted \ tables
  \/ /\ drifted' = drifted \cup tables
     /\ UNCHANGED cache

UpdateStates(tables, phase) ==
  /\ StoreIsFree
  /\ HasIds(tables)
  /\ rows' = [t \in Tables |->
       IF t \in tables THEN Updated(rows[t], next_id[t], phase[t]) ELSE rows[t]]
  /\ TakeIds(tables)
  /\ Commit(tables, phase)
  /\ UNCHANGED reads

\* A rollback selects the current row and its prev: for one table in the store,
\* for one table after the other in a request.
RollbackReads(p, t) ==
  /\ p = "store" => StoreIsFree
  /\ t \notin DOMAIN reads[p]
  /\ \E i \in Current(rows[t]) :
       /\ rows[t][i].prev # Null
       /\ reads' = [reads EXCEPT ![p] = [u \in DOMAIN reads[p] \cup {t} |->
            IF u = t THEN [current |-> i, prev |-> rows[t][i].prev] ELSE reads[p][u]]]
  /\ UNCHANGED <<rows, next_id, cache, drifted>>

\* The writes of the rollback, by the row ids it has read.
RollbackRows(read) ==
  /\ read # Nothing
  /\ \A t \in DOMAIN read : CanRollback(rows[t], read[t])
  /\ rows' = [t \in Tables |->
       IF t \in DOMAIN read THEN RolledBack(rows[t], read[t]) ELSE rows[t]]

StoreRollback ==
  LET read == reads["store"] IN
  /\ RollbackRows(read)
  /\ Commit(DOMAIN read, [t \in DOMAIN read |-> rows[t][read[t].prev].phase])
  /\ reads' = [reads EXCEPT !["store"] = Nothing]
  /\ UNCHANGED next_id

\* A constraint or the connection fails, and the transaction leaves nothing.
RollbackFails(p) ==
  /\ reads[p] # Nothing
  /\ reads' = [reads EXCEPT ![p] = Nothing]
  /\ UNCHANGED <<rows, next_id, cache, drifted>>

\* The table leaves the pipeline (TableStateCleanupScope::PipelineRemoval).
DeleteState(t) ==
  /\ StoreIsFree
  /\ rows' = [rows EXCEPT ![t] = Nothing]
  /\ Commit({t}, [u \in {t} |-> NoPhase])
  /\ UNCHANGED <<next_id, reads>>

\* A new process loads the current rows.
LoadStates ==
  /\ cache' = [t \in Tables |-> CurrentPhase(rows[t])]
  /\ drifted' = {}
  /\ reads' = [reads EXCEPT !["store"] = Nothing]
  /\ UNCHANGED <<rows, next_id>>

-----------------------------------------------------------------------------
(* The requests of the management API, in another process.                  *)

ApiRollback(p) ==
  /\ RollbackRows(reads[p])
  /\ drifted' = drifted \cup DOMAIN reads[p]
  /\ reads' = [reads EXCEPT ![p] = Nothing]
  /\ UNCHANGED <<next_id, cache>>

\* The request has seen a row of every table, at an earlier statement.
ApiReset(tables) ==
  /\ HasIds(tables)
  /\ \A t \in tables : next_id[t] > 1
  /\ rows' = [t \in Tables |-> IF t \in tables THEN Reset(next_id[t]) ELSE rows[t]]
  /\ TakeIds(tables)
  /\ drifted' = drifted \cup tables
  /\ UNCHANGED <<cache, reads>>

-----------------------------------------------------------------------------
Init ==
  /\ rows = [t \in Tables |-> Nothing]
  /\ next_id = [t \in Tables |-> 1]
  /\ cache = [t \in Tables |-> NoPhase]
  /\ reads = [p \in Processes |-> Nothing]
  /\ drifted = {}

Next ==
  \/ \E tables \in SUBSET Tables : \E phase \in [tables -> Phases] :
       UpdateStates(tables, phase)
  \/ \E p \in Processes : \E t \in Tables : RollbackReads(p, t)
  \/ StoreRollback
  \/ \E p \in Processes : RollbackFails(p)
  \/ \E t \in Tables : DeleteState(t)
  \/ LoadStates
  \/ \E p \in Requests : ApiRollback(p)
  \/ \E tables \in SUBSET Tables : ApiReset(tables)

Spec == Init /\ [][Next]_vars

-----------------------------------------------------------------------------
(* Properties.                                                              *)

\* Every variable holds what its counterpart can hold; the store, which keeps
\* its lock, rolls back one table at a time.
TypeOK ==
  /\ DOMAIN rows = Tables
  /\ \A t \in Tables :
       DOMAIN rows[t] \subseteq Nat /\ \A i \in DOMAIN rows[t] : rows[t][i] \in Row
  /\ next_id \in [Tables -> Nat \ {0}]
  /\ cache \in [Tables -> Phases \cup {NoPhase}]
  /\ DOMAIN reads = Processes
  /\ \A p \in Processes :
       DOMAIN reads[p] \subseteq Tables /\ \A t \in DOMAIN reads[p] : reads[p][t] \in Read
  /\ \A t, u \in DOMAIN reads["store"] : t = u
  /\ drifted \subseteq Tables

\* Every row refers to the row before it, the last one is the current one, and
\* every other one is referred to.
IsChain(r) ==
  /\ \A i \in DOMAIN r :
       /\ i > Null
       /\ r[i].prev \in DOMAIN r \cup {Null}
       /\ r[i].prev < i
       /\ \A j \in DOMAIN r : j < i => j <= r[i].prev
       /\ r[i].is_current <=> \A j \in DOMAIN r : j <= i
       /\ r[i].is_current \/ \E j \in DOMAIN r : r[j].prev = i
  /\ DOMAIN r # {} => Current(r) # {}

\* The rows of a table are one chain that ends in its only current row, whatever
\* the store and the API's requests do between each other's statements: the row
\* ids that rollback_replication_state has read may be stale, and only the
\* constraints of etl.replication_state stand in the way.
HistoryIsChain == \A t \in Tables : IsChain(rows[t])

\* The cached phase of a table is the phase of its current row, unless the API
\* changed the rows or a commit was not reported since the store's last
\* operation on the table ("keeps the persistent state and in-memory cache
\* ordered consistently", store/both/postgres.rs).
CacheFollowsRows == \A t \in Tables \ drifted : cache[t] = CurrentPhase(rows[t])

-----------------------------------------------------------------------------
(* The promise of a state store.                                            *)

\* The phases of a table along its chain of rows.
HistoryOf(r) ==
  LET upTo[i \in DOMAIN r] ==
        IF r[i].prev = Null THEN <<r[i].phase>> ELSE Append(upTo[r[i].prev], r[i].phase)
  IN  IF Current(r) = {} THEN <<>> ELSE upTo[CurrentRow(r)]

States == INSTANCE TableStates WITH history <- [t \in Tables |-> HistoryOf(rows[t])]

\* The rows implement the histories of TableStates: every transaction, of the
\* store or of the API, takes effect as one operation on the histories or not at
\* all.
ImplementsTableStates == States!Spec
=============================================================================

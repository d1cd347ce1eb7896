---------------------------- MODULE IcebergTables ----------------------------
(***************************************************************************)
(* The Iceberg destination (etl-destinations/src/iceberg): every source    *)
(* table has a changelog table, to which copied rows and changes are       *)
(* appended; a truncate drops and recreates it.  The process caches the    *)
(* tables and namespaces it has created; the store keeps one metadata row  *)
(* per table, Applying while the table is created and Applied after.       *)
(*                                                                         *)
(* A call is a list of remote steps that `?` cuts short.  The inserts of a *)
(* batch run in tasks, one per table, that start while later tables are    *)
(* still being prepared.  Every error of the Iceberg client is of a kind   *)
(* without a timed retry: it ends the process, or the table's copy.        *)
(*                                                                         *)
(* External: Postgres, the store's metadata rows, the workers that call    *)
(* the destination, and the Iceberg catalog.                               *)
(***************************************************************************)
EXTENDS Naturals, Sequences, FiniteSets, SequencesExt, FiniteSetsExt

CONSTANTS
  Tables,
  Layouts,     \* the schemas (character sequences) and names the tables may have
  Keys,        \* identities of rows
  Namespaces,  \* DestinationNamespace variants that may be configured
  Identities,  \* replica identities that a table may have
  Operations,  \* the changes that Postgres may commit
  MaxWal,      \* changes that Postgres commits
  MaxFaults    \* calls lost and crashes

VARIABLES
  wal,         \* committed changes; a change's sequence key is its index
  layout,      \* the schema and the name of each table
  policy,      \* the configured DestinationNamespace
  identity,    \* the replica identity of the tables
  acked,       \* the changes that the apply worker need not replay
  reached,     \* the last change of any batch, acknowledged or not
  from,        \* the change at which each table's copy was taken, once finished
  \* The process.
  announced,   \* the version of each table's last RELATION of this session, or 0
  phase,       \* where the call stands
  chunk,       \* the events that write_events has not consumed
  last,        \* the change that an Ok acknowledges
  pending,     \* the rows collected for each table
  work,        \* the remote steps of the call in progress
  inserting,   \* the tables whose insert task is running
  created_tables, created_namespaces,
  \* The catalog and the store.
  namespaces, changelogs, metadata,
  faults

iceCall == <<announced, phase, chunk, last, pending, work, inserting>>
iceCaches == <<created_tables, created_namespaces>>
iceCatalog == <<namespaces, changelogs>>
iceVars == <<wal, layout, policy, identity, acked, reached, from, announced, phase, chunk, last, pending, work,
             inserting, created_tables, created_namespaces, namespaces, changelogs, metadata,
             faults>>

None == {}
Some(x) == {x}
The(option) == CHOOSE x \in option : TRUE

(* ------------------------------ Postgres ---------------------------------- *)

VersionAt(t, n) == 1 + Cardinality({i \in 1..n : wal[i].table = t /\ wal[i].op = "alter"})

\* The keys of a table after the first n changes, and the change that wrote each.
RowsAt(t, n) ==
  LET apply(state, i) ==
        LET c == wal[i] IN
        IF c.table # t \/ c.op = "alter" THEN state
        ELSE CASE c.op = "truncate" -> <<>>
               [] c.op = "delete" -> [k \in DOMAIN state \ {c.key} |-> state[k]]
               [] OTHER -> [k \in DOMAIN state \cup {c.key} |-> IF k = c.key THEN i ELSE state[k]]
  IN FoldLeft(apply, <<>>, [i \in 1..n |-> i])

Change(t, op, key) == [table |-> t, op |-> op, key |-> key]

\* A call in progress does not look at later changes.
Commit(t) ==
  /\ Len(wal) < MaxWal /\ phase \in {"idle", "retry"}
  /\ LET present == DOMAIN RowsAt(t, Len(wal)) IN
     \E c \in {Change(t, "insert", k) : k \in Keys \ present}
            \cup {Change(t, op, k) : op \in {"update", "partial_update", "delete"}, k \in present}
            \cup {Change(t, op, "none") : op \in {"truncate", "alter"}} :
       /\ c.op \in Operations
       /\ wal' = Append(wal, c)
  /\ UNCHANGED <<layout, policy, identity, acked, reached, from, iceCall, iceCaches, iceCatalog, metadata, faults>>

(* -------------------------------- names ----------------------------------- *)

Lower == [A |-> "a", W |-> "w", S |-> "s"]
Letters == {"a", "w", "s", "b"}
Digits == {"1"}

\* S3 Tables namespaces: lower case letters, digits and underscores, not
\* starting with aws, starting and ending with a letter or a digit.
schema_to_namespace(schema) ==
  LET lowered == [i \in DOMAIN schema |->
                    LET c == IF schema[i] \in DOMAIN Lower THEN Lower[schema[i]] ELSE schema[i]
                    IN IF c \in Letters \cup Digits \cup {"_"} THEN c ELSE "_"]
      free    == IF Len(lowered) >= 3 /\ SubSeq(lowered, 1, 3) = <<"a", "w", "s">>
                 THEN <<"s", "_">> \o lowered ELSE lowered
      started == IF free # <<>> /\ Head(free) \notin Letters \cup Digits
                 THEN <<"s">> \o free ELSE free
  IN IF started # <<>> /\ Last(started) \notin Letters \cup Digits
     THEN Append(started, "e") ELSE started

\* DestinationNamespace::get_or
get_or(t) ==
  IF policy = "single" THEN <<"m", "a", "i", "n">> ELSE schema_to_namespace(layout.schema[t])

\* Mutant: the schema is left out of the name.
BareName(t) == <<layout.name[t]>>

\* In a single namespace the name is made of both parts, injectively.
table_name_to_iceberg_table_name(t) ==
  IF policy = "single" THEN <<layout.schema[t], layout.name[t]>> ELSE <<layout.name[t]>>

\* metadata.destination_table_id, or the name a new table gets.
iceberg_table_name(t) ==
  IF metadata[t] = None THEN table_name_to_iceberg_table_name(t) ELSE The(metadata[t]).name

Ident(t) == <<get_or(t), iceberg_table_name(t)>>

(* --------------------------- calls as remote steps ------------------------ *)

Step(op, t, arg) == [op |-> op, table |-> t, arg |-> arg]
Fail(t, kind) == <<Step("fail", t, kind)>>

validate_iceberg_replica_identity == identity = "full"

create_namespace_if_missing(t) ==
  IF get_or(t) \in created_namespaces THEN <<>>
  ELSE <<Step("namespace", t, get_or(t))>>

Metadata(t, v, status) == Some([name |-> iceberg_table_name(t), version |-> v, status |-> status])

\* prepare_table_for_streaming under the lock on Inner.
prepare_table_for_streaming(t, v) ==
  IF ~validate_iceberg_replica_identity THEN Fail(t, "SourceSchemaError")
  ELSE IF metadata[t] # None /\ The(metadata[t]).status # "applied" THEN Fail(t, "InvalidState")
  ELSE create_namespace_if_missing(t) \o
       (IF iceberg_table_name(t) \in created_tables THEN <<>>
        ELSE <<Step("store", t, Metadata(t, v, "applying")),
               Step("create_table", t, Ident(t)),
               Step("store", t, Metadata(t, v, "applied")),
               Step("cache", t, iceberg_table_name(t))>>)

\* truncate_table: nothing to do for a table that was never created.  The
\* table is prepared again once it was dropped ("prepare").
truncate_table(t, v) ==
  IF metadata[t] = None THEN <<>>
  ELSE IF The(metadata[t]).status # "applied" THEN Fail(t, "InvalidState")
  ELSE <<Step("drop_table", t, Ident(t)), Step("uncache", t, iceberg_table_name(t)),
         Step("prepare", t, v)>>

\* Mutant: the metadata is forgotten, the table stays.
ForgetOnly(t) == IF metadata[t] = None THEN <<>> ELSE <<Step("store", t, None)>>

\* The table sync worker drops the table of an earlier copy, then its metadata.
drop_table_for_copy(t) ==
  IF metadata[t] = None THEN <<>>
  ELSE <<Step("drop_table", t, Ident(t)), Step("uncache", t, iceberg_table_name(t)),
         Step("store", t, None)>>

----------------------------------------------------------------------------
\* What the catalog refuses: a table in a namespace that does not exist.
Refuses(s) == s.op = "fail" \/ (s.op = "create_table" /\ s.arg[1] \notin namespaces)

\* Steps that do not leave the process.
Local == {"cache", "uncache", "prepare", "spawn", "fail"}

\* create_table_if_missing, drop_table_if_exists and create_namespace_if_missing
\* look first, so that a repetition changes nothing.
Effect(s) ==
  /\ namespaces' = IF s.op = "namespace" THEN namespaces \cup {s.arg} ELSE namespaces
  /\ changelogs' =
       CASE s.op = "create_table" /\ s.arg \notin DOMAIN changelogs ->
              [i \in DOMAIN changelogs \cup {s.arg} |-> IF i = s.arg THEN {} ELSE changelogs[i]]
         [] s.op = "drop_table" -> [i \in DOMAIN changelogs \ {s.arg} |-> changelogs[i]]
         [] OTHER -> changelogs

Keep(s) ==
  /\ created_tables' = CASE s.op = "cache" -> created_tables \cup {s.arg}
                         [] s.op = "uncache" -> created_tables \ {s.arg}
                         [] OTHER -> created_tables
  /\ created_namespaces' = IF s.op = "namespace" THEN created_namespaces \cup {s.arg}
                           ELSE created_namespaces
  /\ metadata' = IF s.op = "store" THEN [metadata EXCEPT ![s.table] = s.arg] ELSE metadata

NoRows == [t \in Tables |-> {}]
NoSession == [t \in Tables |-> 0]

\* The call returns an error, and the tasks of its JoinSet are aborted.
GiveUp ==
  /\ phase' = "retry" /\ chunk' = <<>> /\ last' = 0 /\ work' = <<>>
  /\ pending' = NoRows /\ inserting' = {} /\ announced' = NoSession

Restart == GiveUp /\ created_tables' = {} /\ created_namespaces' = {}

Copying == phase \in {"copy", "write_copy", "copied"}

\* iceberg_error_to_etl_error: no kind of it has a timed retry.
Fails == IF Copying THEN GiveUp /\ UNCHANGED iceCaches ELSE Restart

StepDone ==
  /\ work # <<>> /\ ~Refuses(Head(work))
  /\ LET s == Head(work) IN
       /\ Effect(s) /\ Keep(s)
       /\ work' = (IF s.op = "prepare" THEN prepare_table_for_streaming(s.table, s.arg) ELSE <<>>)
                  \o Tail(work)
       /\ inserting' = IF s.op = "spawn" THEN inserting \cup {s.table} ELSE inserting
  /\ UNCHANGED <<wal, layout, policy, identity, acked, reached, from, announced, phase, chunk, last, pending,
                 faults>>

StepRefused ==
  /\ work # <<>> /\ Refuses(Head(work))
  /\ Fails
  /\ UNCHANGED <<wal, layout, policy, identity, acked, reached, from, iceCatalog, metadata, faults>>

\* The request or its answer is lost.
StepFails ==
  /\ work # <<>> /\ Head(work).op \notin Local \cup {"store"} /\ faults < MaxFaults
  /\ Effect(Head(work)) \/ UNCHANGED iceCatalog
  /\ Fails
  /\ faults' = faults + 1
  /\ UNCHANGED <<wal, layout, policy, identity, acked, reached, from, metadata>>

Crash ==
  /\ faults < MaxFaults
  /\ Restart
  /\ faults' = faults + 1
  /\ UNCHANGED <<wal, layout, policy, identity, acked, reached, from, iceCatalog, metadata>>

(* ------------------------------- inserts ---------------------------------- *)

\* insert_rows: load_table, then one transaction that appends a data file.
InsertRows(t) ==
  /\ t \in inserting /\ Ident(t) \in DOMAIN changelogs
  /\ changelogs' = [changelogs EXCEPT ![Ident(t)] = @ \cup pending[t]]
  /\ inserting' = inserting \ {t}
  /\ pending' = [pending EXCEPT ![t] = {}]
  /\ UNCHANGED <<wal, layout, policy, identity, acked, reached, from, announced, phase, chunk, last, work,
                 iceCaches, namespaces, metadata, faults>>

\* The table is missing.
InsertRefused(t) ==
  /\ t \in inserting /\ work = <<>> /\ Ident(t) \notin DOMAIN changelogs
  /\ Fails
  /\ UNCHANGED <<wal, layout, policy, identity, acked, reached, from, iceCatalog, metadata, faults>>

\* The commit, or its answer, is lost; the error is seen when tasks are joined.
InsertFails(t) ==
  /\ t \in inserting /\ work = <<>> /\ Ident(t) \in DOMAIN changelogs /\ faults < MaxFaults
  /\ \/ changelogs' = [changelogs EXCEPT ![Ident(t)] = @ \cup pending[t]]
     \/ UNCHANGED changelogs
  /\ Fails
  /\ faults' = faults + 1
  /\ UNCHANGED <<wal, layout, policy, identity, acked, reached, from, namespaces, metadata>>

Idle == work = <<>> /\ inserting = {}

(* -------------------------------- the copy -------------------------------- *)

\* IcebergOperationType and the sequence number, appended to every row.
Row(t, op, key, at) == [table |-> t, op |-> op, key |-> key, at |-> at]

StartCopy(t) ==
  /\ phase \in {"idle", "retry"} /\ from[t] = None
  /\ phase' = "copy" /\ last' = Len(wal)
  /\ pending' = [pending EXCEPT ![t] = {Row(t, "INSERT", k, 0) : k \in DOMAIN RowsAt(t, Len(wal))}]
  /\ chunk' = <<[table |-> t]>>
  /\ work' = drop_table_for_copy(t)
  /\ UNCHANGED <<wal, layout, policy, identity, acked, reached, from, announced, inserting, iceCaches,
                 iceCatalog, metadata, faults>>

\* write_table_rows, called once even when there are no rows.
PrepareCopy ==
  /\ phase = "copy" /\ Idle
  /\ LET t == chunk[1].table IN
       work' = prepare_table_for_streaming(t, VersionAt(t, last))
               \o (IF pending[t] = {} THEN <<>> ELSE <<Step("spawn", t, 0)>>)
  /\ phase' = "copied"
  /\ UNCHANGED <<wal, layout, policy, identity, acked, reached, from, announced, chunk, last, pending,
                 inserting, iceCaches, iceCatalog, metadata, faults>>

FinishCopy ==
  /\ phase = "copied" /\ Idle
  /\ from' = [from EXCEPT ![chunk[1].table] = Some(last)]
  /\ phase' = "idle" /\ chunk' = <<>> /\ last' = 0
  /\ UNCHANGED <<wal, layout, policy, identity, acked, reached, announced, pending, work, inserting, iceCaches,
                 iceCatalog, metadata, faults>>

(* ------------------------------ write_events ------------------------------ *)

Event(i) == [op |-> wal[i].op, table |-> wal[i].table, key |-> wal[i].key, at |-> i,
             version |-> VersionAt(wal[i].table, i)]

\* pgoutput announces a table before its first change of a session and after a
\* change of its schema.
Announce(state, e) ==
  IF e.op = "alter" THEN state
  ELSE [events |-> state.events \o (IF state.announced[e.table] = e.version THEN <<e>>
                                    ELSE <<[e EXCEPT !.op = "relation"], e>>),
        announced |-> [state.announced EXCEPT ![e.table] = e.version]]

\* A batch of the apply worker.
Deliver ==
  /\ phase \in {"idle", "retry"} /\ \A t \in Tables : from[t] # None
  /\ \E n \in (acked + 1)..Len(wal) :
       LET owned == SelectSeq([i \in 1..(n - acked) |-> acked + i],
                              LAMBDA i : i > The(from[wal[i].table]))
           batch == FoldLeft(LAMBDA s, i : Announce(s, Event(i)),
                             [events |-> <<>>, announced |-> announced], owned)
       IN /\ chunk' = batch.events /\ announced' = batch.announced
          /\ last' = n /\ reached' = Max({reached, n})
  /\ phase' = "collect"
  /\ UNCHANGED <<wal, layout, policy, identity, acked, from, pending, work, inserting, iceCaches,
                 iceCatalog, metadata, faults>>

\* The errors of the match arms.
Rejected(e) ==
  \/ e.op \in {"update", "partial_update", "delete", "relation"} /\ ~validate_iceberg_replica_identity
  \/ e.op = "partial_update"
  \/ e.op = "relation" /\ \E d \in metadata[e.table] : d.status # "applied" \/ d.version # e.version

OperationType == [insert |-> "INSERT", update |-> "UPDATE", delete |-> "DELETE"]

\* The events up to the next truncate, grouped by table.
Collect ==
  /\ phase = "collect" /\ Idle
  /\ LET n == CHOOSE k \in 0..Len(chunk) :
                /\ \A i \in 1..k : chunk[i].op # "truncate"
                /\ k < Len(chunk) => chunk[k + 1].op = "truncate"
         events == {chunk[i] : i \in 1..n}
         rows(t) == {Row(t, OperationType[e.op], e.key, e.at) :
                       e \in {x \in events : x.table = t /\ x.op \in DOMAIN OperationType}}
         version(t) == chunk[Min({i \in 1..n : chunk[i].table = t})].version
         filled == SetToSeq({t \in Tables : rows(t) # {}})
     IN IF \E e \in events : Rejected(e) THEN Fails
        ELSE /\ pending' = [t \in Tables |-> rows(t)]
             /\ work' = FlattenSeq([i \in 1..Len(filled) |->
                          <<Step("prepare", filled[i], version(filled[i])),
                            Step("spawn", filled[i], 0)>>])
             /\ chunk' = SubSeq(chunk, n + 1, Len(chunk))
             /\ phase' = "truncates"
             /\ UNCHANGED <<announced, last, inserting, iceCaches>>
  /\ UNCHANGED <<wal, layout, policy, identity, acked, reached, from, iceCatalog, metadata, faults>>

\* Consecutive truncates, each table once, under the last schema seen.
Truncates ==
  /\ phase = "truncates" /\ Idle
  /\ LET n == CHOOSE k \in 0..Len(chunk) :
                /\ \A i \in 1..k : chunk[i].op = "truncate"
                /\ k < Len(chunk) => chunk[k + 1].op # "truncate"
         order == SetToSeq({chunk[i].table : i \in 1..n})
         version(t) == chunk[Max({i \in 1..n : chunk[i].table = t})].version
     IN /\ work' = FlattenSeq([i \in 1..Len(order) |-> truncate_table(order[i], version(order[i]))])
        /\ chunk' = SubSeq(chunk, n + 1, Len(chunk))
        /\ phase' = IF n = Len(chunk) THEN "done" ELSE "collect"
  /\ UNCHANGED <<wal, layout, policy, identity, acked, reached, from, announced, last, pending, inserting,
                 iceCaches, iceCatalog, metadata, faults>>

\* async_result.send(Ok)
Acknowledge ==
  /\ phase = "done" /\ Idle
  /\ acked' = last /\ last' = 0 /\ phase' = "idle"
  /\ UNCHANGED <<wal, layout, policy, identity, reached, from, announced, chunk, pending, work, inserting,
                 iceCaches, iceCatalog, metadata, faults>>

(* ------------------------------ specification ----------------------------- *)

IceInit ==
  /\ wal = <<>> /\ layout \in Layouts /\ policy \in Namespaces /\ identity \in Identities /\ acked = 0 /\ reached = 0
  /\ from = [t \in Tables |-> None]
  /\ announced = NoSession
  /\ phase = "retry" /\ chunk = <<>> /\ last = 0 /\ pending = NoRows
  /\ work = <<>> /\ inserting = {}
  /\ created_tables = {} /\ created_namespaces = {}
  /\ namespaces = {} /\ changelogs = <<>> /\ metadata = [t \in Tables |-> None]
  /\ faults = 0

IceWork ==
  \/ \E t \in Tables : StartCopy(t) \/ InsertRows(t) \/ InsertRefused(t)
  \/ StepDone \/ StepRefused
  \/ PrepareCopy \/ FinishCopy
  \/ Deliver \/ Collect \/ Truncates \/ Acknowledge

IceNext ==
  \/ IceWork
  \/ \E t \in Tables : Commit(t) \/ InsertFails(t)
  \/ StepFails \/ Crash

IceSpec == IceInit /\ [][IceNext]_iceVars

(* ------------------------------- properties ------------------------------- *)

\* The changelog of a table after the first n changes, for a copy at m.
LogAt(t, m, n) ==
  LET cleared == Max({0} \cup {i \in (m + 1)..n : wal[i].table = t /\ wal[i].op = "truncate"})
      copied == IF cleared > 0 THEN <<>> ELSE RowsAt(t, m)
      streamed == {i \in (Max({m, cleared}) + 1)..n :
                     wal[i].table = t /\ wal[i].op \in DOMAIN OperationType}
  IN {Row(t, "INSERT", k, 0) : k \in DOMAIN copied}
     \cup {Row(t, OperationType[wal[i].op], wal[i].key, i) : i \in streamed}

Changelog(t) == IF Ident(t) \in DOMAIN changelogs THEN changelogs[Ident(t)] ELSE {}

\* Once every batch that was started is acknowledged, a changelog holds exactly
\* the copied rows and the changes since the copy and the last truncate,
\* whatever was lost and retried on the way (write_events, truncate_table and
\* prepare_table_for_streaming of core.rs).
LogIsExact ==
  phase = "idle" /\ acked = reached =>
    \A t \in Tables : \A m \in from[t] : Changelog(t) = LogAt(t, m, Max({acked, m}))

\* A changelog table only holds the rows of one source table: "That collision
\* should surface as a destination error from Iceberg."
ChangelogsAreSeparate ==
  \A i \in DOMAIN changelogs : \A r, q \in changelogs[i] : r.table = q.table
=============================================================================

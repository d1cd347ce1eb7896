------------------------ MODULE SnowflakeStreaming ------------------------
(***************************************************************************)
(* The Snowflake destination (etl-destinations/src/snowflake): tables are  *)
(* created and altered through the SQL REST API, rows are sent through a   *)
(* Snowpipe Streaming channel per table.  A call of the destination is a   *)
(* list of remote steps that `?` cuts short at the first error.  No error  *)
(* of this destination is retried by the apply worker (error.rs maps them  *)
(* all to kinds without a timed retry), so that an error ends the process, *)
(* which restarts with an empty channel map and replays the changes that   *)
(* were not acknowledged.                                                  *)
(*                                                                         *)
(* External: Postgres, which announces a table's schema before its first   *)
(* change of a session and after each ALTER TABLE, and Snowflake, which    *)
(* accepts rows of a channel only with the channel's latest continuation   *)
(* token and may collect an idle channel.                                  *)
(***************************************************************************)
EXTENDS Naturals, Sequences, FiniteSets, SequencesExt, FiniteSetsExt

CONSTANTS
  Tables,
  Versions,     \* Versions[v]: column id -> column name, for the v-th schema of a table
  CopyRows,     \* the rows of a table when it is copied, numbers above MaxWal
  Operations,   \* the changes that Postgres may commit
  max_retries,  \* of SNOWPIPE_RETRY_POLICY and SQL_RETRY_POLICY
  MaxWal,       \* changes that Postgres commits
  MaxFaults     \* calls lost, tokens revoked, channels collected and crashes

VARIABLES
  wal,        \* committed changes; a change's offset token is its index
  version,    \* the schema of each table in Postgres
  acked,      \* the changes that the apply worker need not replay
  copied,     \* the tables whose copy is finished
  announced,  \* the schema that pgoutput last announced in this session
  \* The process.
  phase,      \* where process_events stands
  chunk,      \* the events that it has not consumed
  last,       \* the change that an Ok acknowledges
  cache,      \* column_cache of accumulate_data_events
  builders,   \* the rows that each table's RowBatchBuilder holds
  truncates,  \* the tables collected by apply_truncate_events
  work,       \* the remote steps of the call in progress
  attempts,   \* retries of the step in progress
  retried_auth, \* of attempt_statement
  channels,   \* Client::channels: the continuation token of each open handle
  token,      \* AuthManager::cached_token
  \* Snowflake and the store.
  tables,     \* column names of each table that exists
  rows,       \* how often each row is in each table
  channel,    \* the continuation token that each channel expects
  metadata,   \* the destination metadata row of each table
  faults

postgres == <<wal, version>>
call == <<attempts, retried_auth>>
process == <<announced, phase, chunk, last, cache, builders, truncates, work,
             attempts, retried_auth, channels, token>>
snowflake == <<tables, rows, channel>>
flakeVars == <<wal, version, acked, copied, announced, phase, chunk, last, cache,
               builders, truncates, work, attempts, retried_auth, channels, token,
               tables, rows, channel, metadata, faults>>

None == {}
Some(x) == {x}
The(option) == CHOOSE x \in option : TRUE

AllRows == CopyRows \cup (1..MaxWal)
ColumnsOf(v) == {Versions[v][id] : id \in DOMAIN Versions[v]}

(* ---------------------------- Postgres ----------------------------------- *)

FlakeInit ==
  /\ wal = <<>> /\ version = [t \in Tables |-> 1] /\ acked = 0 /\ copied = {}
  /\ announced = [t \in Tables |-> 0]
  /\ phase = "idle" /\ chunk = <<>> /\ last = 0 /\ cache = {}
  /\ builders = [t \in Tables |-> <<>>] /\ truncates = {}
  /\ work = <<>> /\ attempts = 0 /\ retried_auth = FALSE
  /\ channels = [t \in Tables |-> None] /\ token = "none"
  /\ tables = [t \in Tables |-> None]
  /\ rows = [t \in Tables |-> [r \in AllRows |-> 0]]
  /\ channel = [t \in Tables |-> None]
  /\ metadata = [t \in Tables |-> None]
  /\ faults = 0

\* A change of a table whose copy is finished; the changes before that are
\* part of the copy.
CommitChange(t) ==
  /\ t \in copied /\ Len(wal) < MaxWal
  /\ \E op \in Operations :
       wal' = Append(wal, [table |-> t, op |-> op, version |-> version[t]])
  /\ UNCHANGED <<version, acked, copied, process, snowflake, metadata, faults>>

AlterTable(t) ==
  /\ t \in copied /\ version[t] < Len(Versions)
  /\ version' = [version EXCEPT ![t] = @ + 1]
  /\ UNCHANGED <<wal, acked, copied, process, snowflake, metadata, faults>>

(* ------------------------- remote steps of a call ------------------------- *)

Step(op, t, arg) == [op |-> op, table |-> t, arg |-> arg]

\* Client::ensure_table and the metadata that prepare_table_for_streaming
\* stores when the table is new to this process.
prepare_table_for_streaming(t, v) ==
  IF channels[t] # None THEN <<>>
  ELSE <<Step("create_table", t, v), Step("open_new", t, 0),
         Step("store_metadata", t, [status |-> "applied", version |-> v])>>

\* RowBatchBuilder cuts the rows of a table at the size limits; the model cuts
\* them anywhere, into at most two batches.
Batches(t, rs) ==
  {<<Step("insert", t, rs)>>} \cup
  {<<Step("insert", t, SubSeq(rs, 1, k)), Step("insert", t, SubSeq(rs, k + 1, Len(rs)))>> :
     k \in 1..(Len(rs) - 1)}

\* SchemaDiff by column id, applied as additions, renames, removals.
apply_schema_diff(t, from, to) ==
  LET old == Versions[from]
      new == Versions[to]
      both == DOMAIN old \cap DOMAIN new
      steps(op, args) == [i \in 1..Len(args) |-> Step(op, t, args[i])]
  IN steps("add_column", SetToSeq({new[id] : id \in DOMAIN new \ DOMAIN old}))
     \o steps("rename_column", SetToSeq({<<old[id], new[id]>> :
                                  id \in {i \in both : old[i] # new[i]}}))
     \o steps("drop_column", SetToSeq({old[id] : id \in DOMAIN old \ DOMAIN new}))

\* handle_relation_event.  refresh_table needs an open channel.
handle_relation_event(t, v) ==
  IF metadata[t] = None \/ \E m \in metadata[t] : m.status = "applying"
  THEN <<Step("fail", t, 0)>>
  ELSE LET m == The(metadata[t]) IN
       IF m.version = v THEN <<>>
       ELSE <<Step("store_metadata", t, [status |-> "applying", version |-> v])>>
            \o apply_schema_diff(t, m.version, v)
            \o <<Step("store_metadata", t, [status |-> "applied", version |-> v]),
                 IF channels[t] = None THEN Step("fail", t, 0) ELSE Step("open", t, 0)>>

\* Client::truncate_table needs an open channel, and resets it.
truncate_table(t) ==
  IF channels[t] = None THEN <<Step("fail", t, 0)>>
  ELSE <<Step("truncate", t, 0), Step("drop_channel", t, 0), Step("open", t, 0)>>

\* Mutant: the table of an earlier attempt is kept.
CopyWithoutDrop(t) ==
  <<Step("drop_for_copy", t, 0), Step("create_table", t, version[t]),
    Step("open_new", t, 0),
    Step("store_metadata", t, [status |-> "applied", version |-> version[t]])>>

\* A copy: drop_table_for_copy, then write_table_rows with the zero offset.
CopySteps(t) ==
  <<Step("drop_for_copy", t, 0), Step("drop_table", t, 0),
    Step("create_table", t, version[t]), Step("open_new", t, 0),
    Step("store_metadata", t, [status |-> "applied", version |-> version[t]])>>

(* ----------------------------- remote calls ------------------------------ *)

IsSql(s) == s.op \in {"create_table", "truncate", "drop_table", "add_column",
                      "rename_column", "drop_column"}
IsRemote(s) == s.op \notin {"store_metadata", "fail"}
IsInsert(s) == s.op \in {"insert", "reinsert"}

\* should_retry of the streaming client and classify_for_retry of the SQL one:
\* both retry failures of the transport (with 408, 429 and 5xx), and the
\* streaming client a 401.
should_retry(s, error) ==
  \/ error = "transport"
  \/ error = "unauthorized" /\ ~IsSql(s)

retry_with_backoff(s, error) == should_retry(s, error) /\ attempts < max_retries

\* attempt_statement repeats a statement once with a new token.
RefreshOnce(s, error) == error = "unauthorized" /\ IsSql(s) /\ ~retried_auth

\* AuthManager: every request asks for a token, which is exchanged for a new
\* one when none is cached.
get_token(s) == IF IsRemote(s) THEN "cached" ELSE token
invalidate_token == "none"

\* What Snowflake answers to a step, without faults.
Answer(s) ==
  CASE IsInsert(s) ->
         IF channel[s.table] = None THEN "stale"
         ELSE IF channels[s.table] = channel[s.table] THEN "ok" ELSE "rejected"
    [] s.op \in {"drop_channel", "drop_for_copy"} ->
         IF channel[s.table] = None THEN "not_found" ELSE "ok"
    [] s.op = "add_column" ->
         IF s.arg \in The(tables[s.table]) THEN "sql" ELSE "ok"
    [] s.op = "drop_column" ->
         IF s.arg \in The(tables[s.table]) THEN "ok" ELSE "sql"
    [] s.op = "rename_column" ->
         IF s.arg[1] \in The(tables[s.table]) /\ s.arg[2] \notin The(tables[s.table])
         THEN "ok" ELSE "sql"
    [] s.op = "fail" -> "channel"
    [] OTHER -> "ok"

\* What a step does to Snowflake when it is answered with "ok".
Effect(s) ==
  LET t == s.table IN
  /\ tables' = CASE s.op = "create_table" ->
                      [tables EXCEPT ![t] = IF @ = None THEN Some(ColumnsOf(s.arg)) ELSE @]
                 [] s.op = "drop_table" -> [tables EXCEPT ![t] = None]
                 [] s.op = "add_column" -> [tables EXCEPT ![t] = Some(The(@) \cup {s.arg})]
                 [] s.op = "drop_column" -> [tables EXCEPT ![t] = Some(The(@) \ {s.arg})]
                 [] s.op = "rename_column" ->
                      [tables EXCEPT ![t] = Some((The(@) \ {s.arg[1]}) \cup {s.arg[2]})]
                 [] OTHER -> tables
  /\ rows' = CASE IsInsert(s) ->
                    [rows EXCEPT ![t] = [r \in AllRows |->
                       IF r \in ToSet(s.arg) THEN Min({@[r] + 1, 2}) ELSE @[r]]]
               [] s.op \in {"truncate", "drop_table"} ->
                    [rows EXCEPT ![t] = [r \in AllRows |-> 0]]
               [] OTHER -> rows
  \* A channel that is reopened or takes a batch has another token.  Two suffice:
  \* no handle is used after it missed two of them.
  /\ channel' = CASE s.op \in {"open", "open_new"} \/ IsInsert(s) ->
                       [channel EXCEPT ![t] =
                          Some(IF @ = None THEN 1 ELSE 3 - The(@))]
                  [] s.op \in {"drop_channel", "drop_for_copy"} ->
                       [channel EXCEPT ![t] = None]
                  [] OTHER -> channel

\* What the client keeps of the answer: ChannelHandle's continuation token,
\* the channel map, the metadata row, the copy's state.
Keep(s) ==
  LET t == s.table IN
  /\ channels' = CASE s.op \in {"open", "open_new"} \/ IsInsert(s) ->
                        [channels EXCEPT ![t] = channel'[t]]
                   [] s.op \in {"drop_channel", "drop_for_copy"} ->
                        [channels EXCEPT ![t] = None]
                   [] OTHER -> channels
  /\ metadata' = IF s.op = "store_metadata"
                 THEN [metadata EXCEPT ![t] = Some(s.arg)] ELSE metadata

\* After an error the process starts again from what is stored.
Restart ==
  /\ announced' = [t \in Tables |-> 0] /\ phase' = "idle" /\ chunk' = <<>>
  /\ last' = 0 /\ cache' = {} /\ builders' = [t \in Tables |-> <<>>]
  /\ truncates' = {} /\ work' = <<>> /\ attempts' = 0 /\ retried_auth' = FALSE
  /\ channels' = [t \in Tables |-> None] /\ token' = "none"

\* Mutant: the batch that found the channel stale is not sent again.
ReopenOnly(s) == <<Step("open", s.table, 0)>>

\* process_batches, when the channel is stale.
ReopenAndRetry(s) == <<Step("open", s.table, 0), Step("reinsert", s.table, s.arg)>>

Restarting == <<announced, phase, chunk, last, cache, builders, truncates>>

\* retry_with_backoff, and what the callers make of the error that it returns:
\* attempt_statement refreshes the token once, process_batches reopens a stale
\* channel and sends the batch once more, drop_table_for_copy ignores a channel
\* that is not there.  Any other error ends the process.
Fails(s, error) ==
  LET again == retry_with_backoff(s, error)
      refresh == RefreshOnce(s, error)
      reopen == error = "stale" /\ s.op = "insert"
      ignore == error = "not_found" /\ s.op = "drop_for_copy"
  IN
  \/ /\ again \/ refresh
     /\ attempts' = IF refresh THEN attempts ELSE attempts + 1
     /\ retried_auth' = refresh
     /\ token' = IF error = "unauthorized" THEN invalidate_token ELSE token
     /\ UNCHANGED <<Restarting, work, channels>>
  \/ /\ reopen \/ ignore
     /\ work' = (IF reopen THEN ReopenAndRetry(s) ELSE <<>>) \o Tail(work)
     /\ channels' = IF ignore THEN [channels EXCEPT ![s.table] = None] ELSE channels
     /\ attempts' = 0 /\ retried_auth' = FALSE
     /\ UNCHANGED <<Restarting, token>>
  \/ /\ ~(again \/ refresh \/ reopen \/ ignore)
     /\ Restart

\* get_token: a cached token or a new one.  A revoked one is answered with 401.
CallAnswered ==
  /\ work # <<>>
  /\ LET s == Head(work) IN
       IF token = "revoked" /\ IsRemote(s)
       THEN /\ Fails(s, "unauthorized")
            /\ UNCHANGED <<snowflake, metadata>>
       ELSE IF Answer(s) = "ok"
       THEN /\ Effect(s)
            /\ Keep(s)
            /\ token' = get_token(s)
            /\ work' = Tail(work) /\ attempts' = 0 /\ retried_auth' = FALSE
            /\ UNCHANGED Restarting
       ELSE /\ Fails(s, Answer(s))
            /\ UNCHANGED <<snowflake, metadata>>
  /\ UNCHANGED <<postgres, acked, copied, faults>>

\* The request or its answer is lost, or poll_until_complete gives up on a
\* statement.
CallLost ==
  /\ work # <<>> /\ faults < MaxFaults
  /\ LET s == Head(work) IN
       /\ IsRemote(s) /\ token # "revoked"
       /\ \/ UNCHANGED snowflake
          \/ Answer(s) = "ok" /\ Effect(s)
       /\ \/ Fails(s, "transport")
          \/ IsSql(s) /\ Fails(s, "sql")
  /\ faults' = faults + 1
  /\ UNCHANGED <<postgres, acked, copied, metadata>>

RevokeToken ==
  /\ token = "cached" /\ faults < MaxFaults
  /\ token' = "revoked" /\ faults' = faults + 1
  /\ UNCHANGED <<postgres, acked, copied, announced, phase, chunk, last, cache,
                 builders, truncates, work, call, channels, snowflake, metadata>>

CollectChannel(t) ==
  /\ phase = "idle" /\ channel[t] # None /\ faults < MaxFaults
  /\ channel' = [channel EXCEPT ![t] = None] /\ faults' = faults + 1
  /\ UNCHANGED <<postgres, acked, copied, process, tables, rows, metadata>>

Crash ==
  /\ faults < MaxFaults
  /\ Restart
  /\ faults' = faults + 1
  /\ UNCHANGED <<postgres, acked, copied, snowflake, metadata>>

(* -------------------------------- the copy -------------------------------- *)

StartCopy(t) ==
  /\ phase = "idle" /\ t \notin copied
  /\ phase' = "copy" /\ cache' = {t}
  /\ \E batches \in Batches(t, SetToSeq(CopyRows)) : work' = CopySteps(t) \o batches
  /\ UNCHANGED <<postgres, acked, copied, announced, chunk, last, builders, truncates,
                 call, channels, token, snowflake, metadata, faults>>

FinishCopy ==
  /\ phase = "copy" /\ work = <<>>
  /\ copied' = copied \cup cache
  /\ phase' = "idle" /\ cache' = {}
  /\ UNCHANGED <<postgres, acked, announced, chunk, last, builders, truncates, work,
                 call, channels, token, snowflake, metadata, faults>>

(* ----------------------------- process_events ----------------------------- *)

\* A batch of the apply worker: the changes after the acknowledged ones, with
\* the RELATION events that pgoutput puts before them.
Deliver ==
  /\ phase = "idle" /\ copied = Tables
  /\ \E n \in (acked + 1)..Len(wal) :
       LET add(acc, i) ==
             LET c == wal[i]
                 relation == [table |-> c.table, op |-> "relation", version |-> c.version]
                 new == acc.announced[c.table] # c.version
             IN [announced |-> [acc.announced EXCEPT ![c.table] = c.version],
                 events |-> acc.events \o (IF new THEN <<relation>> ELSE <<>>)
                            \o <<[table |-> c.table, op |-> c.op, version |-> c.version,
                                  offset |-> i]>>]
           all == FoldLeft(add, [announced |-> announced, events |-> <<>>],
                           [i \in 1..(n - acked) |-> acked + i])
       IN /\ announced' = all.announced
          /\ chunk' = all.events
          /\ last' = n
  /\ phase' = "accumulate"
  /\ UNCHANGED <<postgres, acked, copied, cache, builders, truncates, work, call,
                 channels, token, snowflake, metadata, faults>>

\* Mutant: rows and truncates are accumulated together.
RelationIsBarrier(e) == e.op = "relation"

IsBarrier(e) == e.op \in {"relation", "truncate"}

\* The first event of a table after a barrier prepares the table.
ensure_column_cache(e) ==
  /\ work' = IF e.table \in cache THEN <<>>
             ELSE prepare_table_for_streaming(e.table, e.version)
  /\ cache' = cache \cup {e.table}

encode_insert(e) ==
  /\ ensure_column_cache(e)
  /\ builders' = [builders EXCEPT ![e.table] = Append(@, e.offset)]

\* Only a full row is accepted.
encode_update(e) ==
  IF e.op = "partial_update"
  THEN work' = <<Step("fail", e.table, 0)>> /\ UNCHANGED <<cache, builders>>
  ELSE encode_insert(e)

\* A delete without its old row is skipped.
encode_delete(e) ==
  IF e.op = "delete_without_row"
  THEN UNCHANGED <<work, cache, builders>>
  ELSE encode_insert(e)

accumulate_data_events ==
  /\ phase = "accumulate" /\ work = <<>>
  /\ chunk # <<>> /\ ~IsBarrier(Head(chunk))
  /\ LET e == Head(chunk) IN
       CASE e.op \in {"update", "partial_update"} -> encode_update(e)
         [] e.op \in {"delete", "delete_without_row"} -> encode_delete(e)
         [] OTHER -> encode_insert(e)
  /\ chunk' = Tail(chunk)
  /\ UNCHANGED <<postgres, acked, copied, announced, phase, last, truncates, call,
                 channels, token, snowflake, metadata, faults>>

\* A barrier or the end of the events: the accumulated rows go out.
StartFlush ==
  /\ phase = "accumulate" /\ work = <<>>
  /\ chunk # <<>> => IsBarrier(Head(chunk))
  /\ phase' = "flush" /\ cache' = {}
  /\ UNCHANGED <<postgres, acked, copied, announced, chunk, last, builders, truncates,
                 work, call, channels, token, snowflake, metadata, faults>>

\* flush_batches: the tables in the order of the hash map, that is in any.
flush_batches ==
  /\ phase = "flush" /\ work = <<>>
  /\ IF \E t \in Tables : builders[t] # <<>>
     THEN \E t \in {x \in Tables : builders[x] # <<>>} :
            \E batches \in Batches(t, builders[t]) :
              /\ work' = batches
              /\ builders' = [builders EXCEPT ![t] = <<>>]
              /\ UNCHANGED phase
     ELSE /\ phase' = "relations"
          /\ UNCHANGED <<work, builders>>
  /\ UNCHANGED <<postgres, acked, copied, announced, chunk, last, cache, truncates,
                 call, channels, token, snowflake, metadata, faults>>

apply_relation_events ==
  /\ phase = "relations" /\ work = <<>>
  /\ IF chunk # <<>> /\ Head(chunk).op = "relation"
     THEN /\ work' = handle_relation_event(Head(chunk).table, Head(chunk).version)
          /\ chunk' = Tail(chunk)
          /\ UNCHANGED phase
     ELSE /\ phase' = "truncates"
          /\ UNCHANGED <<work, chunk>>
  /\ UNCHANGED <<postgres, acked, copied, announced, last, cache, builders, truncates,
                 call, channels, token, snowflake, metadata, faults>>

\* Consecutive truncates are collected first, each table once.
apply_truncate_events ==
  /\ phase = "truncates" /\ work = <<>>
  /\ IF chunk # <<>> /\ Head(chunk).op = "truncate"
     THEN /\ truncates' = truncates \cup {Head(chunk).table}
          /\ chunk' = Tail(chunk)
          /\ UNCHANGED <<work, phase>>
     ELSE /\ UNCHANGED chunk
          /\ IF truncates # {}
             THEN \E t \in truncates :
                    /\ work' = truncate_table(t)
                    /\ truncates' = truncates \ {t}
                    /\ UNCHANGED phase
             ELSE /\ phase' = IF chunk = <<>> THEN "done" ELSE "accumulate"
                  /\ UNCHANGED <<work, truncates>>
  /\ UNCHANGED <<postgres, acked, copied, announced, last, cache, builders, call,
                 channels, token, snowflake, metadata, faults>>

\* async_result.send(Ok): the apply worker need not replay these changes.
Acknowledge ==
  /\ phase = "done"
  /\ acked' = last /\ last' = 0 /\ phase' = "idle"
  /\ UNCHANGED <<postgres, copied, announced, chunk, cache, builders, truncates, work,
                 call, channels, token, snowflake, metadata, faults>>

(* ------------------------------ specification ----------------------------- *)

Work ==
  \/ CallAnswered
  \/ \E t \in Tables : StartCopy(t)
  \/ FinishCopy \/ Deliver
  \/ accumulate_data_events \/ StartFlush \/ flush_batches
  \/ apply_relation_events \/ apply_truncate_events
  \/ Acknowledge

FlakeNext ==
  \/ \E t \in Tables : CommitChange(t) \/ AlterTable(t) \/ CollectChannel(t)
  \/ Work
  \/ CallLost \/ RevokeToken \/ Crash

FlakeSpec == FlakeInit /\ [][FlakeNext]_flakeVars
(* ------------------------------- properties ------------------------------- *)

\* The change at i is a row that a later truncate of its table removes.
TruncatedAfter(t, i) ==
  \E j \in (i + 1)..Len(wal) : wal[j].table = t /\ wal[j].op = "truncate"

\* An acknowledged row is in its table, or a later truncate of the table took
\* it: process_events answers Ok only after every builder is flushed, whatever
\* was lost, reopened or retried on the way.
AckedRowsAreWritten ==
  \A i \in 1..acked :
    wal[i].op \in {"insert", "update"} =>
      rows[wal[i].table][i] > 0 \/ TruncatedAfter(wal[i].table, i)

\* Once a truncate is acknowledged no earlier row of its table comes back: the
\* replay of a batch repeats its truncate after its earlier rows.
TruncateIsFinal ==
  \A j \in 1..acked :
    wal[j].op = "truncate" =>
      \A r \in AllRows :
        (r \in CopyRows \/ r \in 1..j) => rows[wal[j].table][r] = 0

\* A copied table holds every row of the copy exactly once, until a truncate:
\* drop_table_for_copy removes what an earlier attempt left, and a batch whose
\* answer was lost is not taken twice.
CopiedOnce ==
  \A t \in copied, r \in CopyRows :
    rows[t][r] = 1 \/ TruncatedAfter(t, 0)
=============================================================================

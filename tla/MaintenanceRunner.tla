-------------------------- MODULE MaintenanceRunner --------------------------
(***************************************************************************)
(* The one-shot DuckLake maintenance job (etl-maintenance,                 *)
(* ducklake/runner.rs): it flushes inlined rows into files, merges small   *)
(* files, rewrites files with deletes, expires snapshots and removes old   *)
(* files, and stops at the first error.  Every DuckDB call runs on a       *)
(* blocking thread under a watchdog of its own.                            *)
(*                                                                         *)
(* A run is a list of steps.  A step reads the catalog and may unfold into *)
(* others, or it is a DuckDB call.  The replicator writes to the same lake *)
(* while the job runs.  What the DuckDB calls do to the catalog is         *)
(* external; files are counted, not named.                                 *)
(***************************************************************************)
EXTENDS Naturals, Sequences, FiniteSets, SequencesExt

CONSTANTS
  Tables,      \* the tables of the lake in name order, a sequence
  Internal,    \* those whose name starts with __etl_
  Configs,     \* the configurations of a run
  MaxFiles,    \* bound on the small files and inlined rows of a table
  MaxRuns, MaxWrites, MaxFaults

VARIABLES
  config,      \* the configuration of the run
  todo,        \* steps of the run that are left, [op, table]
  names,       \* the tables the run has listed
  outcome,     \* the counters of DuckLakeMaintenanceOutcome that are not zero
  result,      \* "none", "running", "ok", "error" or "aborted"
  lake,        \* per table: exists, inlined rows, small, large and delete files
  superseded,  \* files that only old snapshots use
  scheduled,   \* files no snapshot uses any more
  closure,     \* the DuckDB call: "none", "checkout", "publish", "query", "finish", "check", "ok", "error"
  watchdog,    \* "none", "waiting", "elapsed", "late", "armed", "due", "firing" or "ended"
  connection,  \* setup steps executed on the pooled connection, <<>> when there is none
  clock,       \* the deadline of the call: "ahead", "passed", "grace_over"
  handle,      \* the interrupt handle is published
  signal,      \* done was sent or the senders are dropped
  timed_out,
  failed,      \* the query returned an error
  written,     \* tables the replicator has touched since the run began
  runs, writes, faults

runVars == <<config, todo, names, outcome, result>>
lakeVars == <<lake, superseded, scheduled>>
callVars == <<connection, closure, watchdog, clock, handle, signal, timed_out, failed>>
ghostVars == <<written, runs, writes, faults>>
runnerVars == <<runVars, lakeVars, callVars, ghostVars>>

None == {}
Step(op, t) == [op |-> op, table |-> t]
Lake(op) == <<Step(op, "")>>
When(b, steps) == IF b THEN steps ELSE <<>>
ForEach(op, ts) == [i \in 1..Len(ts) |-> Step(op, ts[i])]

RunnerInit ==
  /\ config \in Configs
  /\ todo = <<>> /\ names = <<>> /\ outcome = {} /\ result = "none"
  /\ \E s \in [ToSet(Tables) -> 0..MaxFiles] :
       lake = [t \in ToSet(Tables) |->
                 [exists |-> TRUE, inlined |-> 1, small |-> s[t], large |-> 0, deletes |-> 0]]
  /\ superseded = 0 /\ scheduled = 0
  /\ connection = <<>> /\ closure = "none" /\ watchdog = "none" /\ clock = "ahead"
  /\ handle = FALSE /\ signal = FALSE /\ timed_out = FALSE /\ failed = FALSE
  /\ written = {} /\ runs = 0 /\ writes = 0 /\ faults = 0

-----------------------------------------------------------------------------
(* The DuckDB session a connection needs.                                  *)

\* Extensions are loaded from a vendored directory of the platform when there
\* is one, else they are installed; a directory without the DuckLake extension
\* and an unknown platform are errors.
duckdb_extension_strategy(c) ==
  CASE c.os = "windows" -> {"InstallFromRepository"}
    [] c.os \in {"linux", "macos"} /\ c.vendored = "complete" -> {"VendoredLocal"}
    [] c.os \in {"linux", "macos"} /\ c.vendored = "absent" -> {"InstallFromRepository"}
    [] OTHER -> None

validate_data_path(c) == c.data_path \in {"file", "s3", "gs"}

\* The setup steps in order.  The object store needs its secret only when
\* credentials are configured.
build_setup_plan(c) ==
  <<"configure_writer_session", "load_extensions">>
  \o When(c.data_path \in {"s3", "gs"} /\ c.s3_keys = 2, <<"configure_object_store">>)
  \o <<"attach_catalog", "configure_parquet">>

\* What the binary and the runner refuse before they open a connection: another
\* destination, one S3 key without the other, a catalog that is not PostgreSQL,
\* an empty pool.
RefusedByJob(c) == ~c.ducklake \/ c.s3_keys = 1
RefusedByRunner(c) == ~c.postgres_catalog \/ c.pool_size = 0
RefusedBySetup(c) == duckdb_extension_strategy(c) = None \/ ~validate_data_path(c)
Refused(c) == RefusedByJob(c) \/ RefusedByRunner(c) \/ RefusedBySetup(c)

-----------------------------------------------------------------------------
(* The run.                                                                *)

\* A run begins by opening the executor, whose first call stores the target
\* file size; the metadata schema is looked up when it is not configured.
open_maintenance_executor(c) == Lake("set_target_file_size")

StartRun ==
  /\ result # "running" /\ runs < MaxRuns
  /\ runs' = runs + 1
  /\ result' = "running" /\ outcome' = {} /\ names' = <<>>
  /\ \E c \in Configs :
       /\ config' = c
       /\ todo' = open_maintenance_executor(c)
                  \o When(~c.schema_known, Lake("resolve_metadata_schema"))
                  \o Lake("list_ducklake_tables")
  /\ connection' = <<>> /\ closure' = "none" /\ written' = {}
  /\ UNCHANGED <<lakeVars, watchdog, clock, handle, signal, timed_out, failed, writes, faults>>

validate_config ==
  /\ result = "running" /\ closure = "none"
  /\ Refused(config)
  /\ result' = "error" /\ todo' = <<>>
  /\ UNCHANGED <<config, names, outcome, lakeVars, callVars, ghostVars>>

\* Mutant: the files are merged before the inlined rows are flushed.
MergeBeforeFlush(c) ==
  When(c.merge, Lake("select_merge_tables"))
  \o When(c.flush, ForEach("sample_table", names'))
  \o When(c.rewrite, Lake("merge_adjacent_files_for_rewrite") \o Lake("select_rewrite_tables"))
  \o When(c.expire, Lake("expire_snapshots"))
  \o When(c.cleanup \/ c.rewrite, Lake("cleanup_old_files"))

\* The operations of a run; a rewrite also asks for the cleanup.
run_maintenance_once(c) ==
  When(c.flush, ForEach("sample_table", names'))
  \o When(c.merge, Lake("select_merge_tables"))
  \o When(c.rewrite, Lake("merge_adjacent_files_for_rewrite") \o Lake("select_rewrite_tables"))
  \o When(c.expire, Lake("expire_snapshots"))
  \o When(c.cleanup \/ c.rewrite, Lake("cleanup_old_files"))

Reads == {"list_ducklake_tables", "sample_table", "select_merge_tables", "select_rewrite_tables"}

Reading(op) ==
  /\ result = "running" /\ closure = "none" /\ ~Refused(config)
  /\ todo # <<>> /\ Head(todo).op = op

\* Unfolds the first step into others.
Unfold(steps) == todo' = steps \o Tail(todo)

list_ducklake_tables ==
  /\ Reading("list_ducklake_tables")
  /\ names' = SelectSeq(Tables, LAMBDA t : lake[t].exists)
  /\ Unfold(run_maintenance_once(config))
  /\ UNCHANGED <<config, outcome, result, lakeVars, callVars, ghostVars>>

\* A table with fewer bytes than the threshold is skipped; one that is gone has
\* none.
run_inline_flush ==
  /\ Reading("sample_table")
  /\ LET t == Head(todo).table
         bytes == IF lake[t].exists THEN lake[t].inlined ELSE 0
     IN Unfold(When(bytes >= config.min_inlined_bytes, <<Step("flush_inlined_data", t)>>))
  /\ UNCHANGED <<config, names, outcome, result, lakeVars, callVars, ghostVars>>

active_data_files(t) == IF lake[t].exists THEN lake[t].small + lake[t].large ELSE 0
small_data_files(t) == IF lake[t].exists THEN lake[t].small ELSE 0

\* The limit is tested after a table is considered, so that one table is taken
\* whatever the limit is.
FirstOf(ts, limit) == SubSeq(ts, 1, IF limit = 0 THEN 1 ELSE limit)
UpTo(ts, limit) == IF Len(ts) <= limit THEN ts ELSE FirstOf(ts, limit)

UserTables == SelectSeq(names, LAMBDA t : t \notin Internal)

select_merge_tables ==
  /\ Reading("select_merge_tables")
  /\ LET pressed == SelectSeq(UserTables,
                              LAMBDA t : active_data_files(t) > 1 /\ small_data_files(t) > 0)
     IN Unfold(ForEach("merge_adjacent_files", UpTo(pressed, config.max_tables_per_run)))
  /\ UNCHANGED <<config, names, outcome, result, lakeVars, callVars, ghostVars>>

select_rewrite_tables ==
  /\ Reading("select_rewrite_tables")
  /\ LET many == SelectSeq(UserTables,
                           LAMBDA t : active_data_files(t) > config.min_active_data_files)
     IN Unfold(ForEach("rewrite_data_files", UpTo(many, config.max_tables_per_run)))
  /\ UNCHANGED <<config, names, outcome, result, lakeVars, callVars, ghostVars>>

\* A metadata query fails, or the pool does not open.
ReadFails ==
  /\ faults < MaxFaults
  /\ \E op \in Reads \cup {"set_target_file_size"} : Reading(op)
  /\ faults' = faults + 1
  /\ result' = "error" /\ todo' = <<>>
  /\ UNCHANGED <<config, names, outcome, lakeVars, callVars, written, runs, writes>>

EndRun ==
  /\ result = "running" /\ todo = <<>> /\ closure = "none"
  /\ result' = "ok"
  /\ UNCHANGED <<config, todo, names, outcome, lakeVars, callVars, ghostVars>>

-----------------------------------------------------------------------------
(* What a DuckDB call does to the lake.  A record of the lake after it, the *)
(* files it supersedes and the counter it adds to.                          *)

Merged(r) == IF r.small > 1 THEN [r EXCEPT !.small = 1] ELSE r
Flushed(r) == IF r.inlined > 0 THEN [r EXCEPT !.inlined = 0, !.small = @ + 1] ELSE r
Rewritten(r) == IF r.deletes > 0 THEN [r EXCEPT !.deletes = 0] ELSE r

flush_table_inlined_data(t) == [lake EXCEPT ![t] = Flushed(@)]
merge_adjacent_files(t) == [lake EXCEPT ![t] = Merged(@)]
rewrite_data_files(t) == [lake EXCEPT ![t] = Rewritten(@)]
merge_adjacent_files_for_rewrite == [t \in DOMAIN lake |-> Merged(lake[t])]

LakeAfter(s) ==
  CASE s.op = "flush_inlined_data" -> flush_table_inlined_data(s.table)
    [] s.op = "merge_adjacent_files" -> merge_adjacent_files(s.table)
    [] s.op = "rewrite_data_files" -> rewrite_data_files(s.table)
    [] s.op = "merge_adjacent_files_for_rewrite" -> merge_adjacent_files_for_rewrite
    [] OTHER -> lake

\* Expiring snapshots schedules the files they alone used, and the cleanup
\* removes scheduled files.
QueryEffect(s) ==
  /\ lake' = LakeAfter(s)
  /\ superseded' = IF s.op = "expire_snapshots" THEN 0
                   ELSE IF LakeAfter(s) # lake THEN 1 ELSE superseded
  /\ scheduled' = CASE s.op = "expire_snapshots" /\ superseded > 0 -> 1
                    [] s.op = "cleanup_old_files" -> 0
                    [] OTHER -> scheduled

\* The counters a step that returned adds to.  A rewrite reports no files and
\* counts its table; the merge before it counts nothing.
Counters(s, before) ==
  CASE s.op = "flush_inlined_data" -> IF before.flushed THEN {"inline_flush_rows"} ELSE {}
    [] s.op = "merge_adjacent_files" -> IF before.merged THEN {"merge_adjacent_files_created"} ELSE {}
    [] s.op = "rewrite_data_files" -> {"rewrite_data_files_tables"}
    [] s.op = "expire_snapshots" -> IF before.expired THEN {"expired_snapshots"} ELSE {}
    [] s.op = "cleanup_old_files" -> IF before.cleaned THEN {"cleaned_up_files"} ELSE {}
    [] OTHER -> {}

-----------------------------------------------------------------------------
(* DuckDbMaintenanceExecutor.  One call runs at a time, so that the permit *)
(* is free when a call begins.                                             *)

Querying == result = "running" /\ closure # "none"

run_with_timeout ==
  /\ result = "running" /\ closure = "none" /\ ~Refused(config)
  /\ todo # <<>> /\ Head(todo).op \notin Reads
  /\ closure' = "checkout" /\ watchdog' = "waiting" /\ clock' = "ahead"
  /\ handle' = FALSE /\ signal' = FALSE /\ timed_out' = FALSE /\ failed' = FALSE
  /\ UNCHANGED <<runVars, lakeVars, connection, ghostVars>>

\* The closure ends and drops its watchdog, its connection and its permit.
\* A connection marked broken is evicted.
EndClosure(how, broken) ==
  /\ closure' = how /\ signal' = TRUE
  /\ connection' = IF broken THEN <<>> ELSE connection

CheckoutTimesOut ==
  /\ Querying /\ closure = "checkout" /\ clock # "ahead"
  /\ EndClosure("error", FALSE)
  /\ UNCHANGED <<runVars, lakeVars, watchdog, clock, handle, timed_out, failed, ghostVars>>

\* A pool without a connection opens one and runs the setup plan on it.
connect ==
  /\ Querying /\ closure = "checkout" /\ clock = "ahead"
  /\ connection # build_setup_plan(config)
  /\ connection' = Append(connection, build_setup_plan(config)[Len(connection) + 1])
  /\ UNCHANGED <<runVars, lakeVars, closure, watchdog, clock, handle, signal, timed_out, failed,
                 ghostVars>>

Checkout ==
  /\ Querying /\ closure = "checkout" /\ clock = "ahead"
  /\ connection = build_setup_plan(config)
  /\ closure' = "publish" /\ UNCHANGED connection
  /\ UNCHANGED <<runVars, lakeVars, watchdog, clock, handle, signal, timed_out, failed, ghostVars>>

PublishHandle ==
  /\ Querying /\ closure = "publish"
  /\ handle' = (handle \/ clock = "ahead")
  /\ IF clock # "ahead" \/ timed_out
     THEN EndClosure("error", TRUE)
     ELSE closure' = "query" /\ UNCHANGED <<connection, signal>>
  /\ UNCHANGED <<runVars, lakeVars, watchdog, clock, timed_out, failed, ghostVars>>

\* The query returns with its effect.  A table that is gone makes it fail.  The
\* outcome of a run that fails later is dropped, so counting here is as good as
\* after the join.
QueryReturns ==
  /\ Querying /\ closure = "query"
  /\ LET s == Head(todo)
         gone == s.table # "" /\ ~lake[s.table].exists
         before == [flushed |-> s.table # "" /\ lake[s.table].inlined > 0,
                    merged |-> s.table # "" /\ lake[s.table].small > 1,
                    expired |-> superseded > 0, cleaned |-> scheduled > 0]
     IN /\ failed' = gone
        /\ IF gone
           THEN UNCHANGED <<lakeVars, outcome>>
           ELSE QueryEffect(s) /\ outcome' = outcome \cup Counters(s, before)
  /\ closure' = "finish"
  /\ UNCHANGED <<config, todo, names, result, connection, watchdog, clock, handle, signal, timed_out,
                 written, runs, writes, faults>>

\* It fails, or is interrupted, before it commits.
QueryFails ==
  /\ Querying /\ closure = "query"
  /\ timed_out \/ faults < MaxFaults
  /\ faults' = IF timed_out THEN faults ELSE faults + 1
  /\ failed' = TRUE /\ closure' = "finish"
  /\ UNCHANGED <<runVars, lakeVars, connection, watchdog, clock, handle, signal, timed_out, written,
                 runs, writes>>

Finish ==
  /\ Querying /\ closure = "finish"
  /\ signal' = TRUE /\ closure' = "check"
  /\ UNCHANGED <<runVars, lakeVars, connection, watchdog, clock, handle, timed_out, failed, ghostVars>>

CheckTimedOut ==
  /\ Querying /\ closure = "check"
  /\ LET bad == timed_out \/ failed
     IN EndClosure(IF bad THEN "error" ELSE "ok", bad)
  /\ UNCHANGED <<runVars, lakeVars, watchdog, clock, handle, timed_out, failed, ghostVars>>

\* The caller has joined the closure and the watchdog; an error ends the run.
Join ==
  /\ Querying /\ closure \in {"ok", "error"} /\ watchdog = "ended"
  /\ IF closure = "ok"
     THEN todo' = Tail(todo) /\ result' = result
     ELSE todo' = <<>> /\ result' = "error"
  /\ closure' = "none"
  /\ UNCHANGED <<config, names, outcome, lakeVars, connection, watchdog, clock, handle, signal,
                 timed_out, failed, ghostVars>>

abort_stuck_duckdb_maintenance_operation ==
  /\ Querying /\ closure \notin {"ok", "error"} /\ clock = "grace_over"
  /\ result' = "aborted" /\ todo' = <<>>
  /\ UNCHANGED <<config, names, outcome, lakeVars, callVars, ghostVars>>

-----------------------------------------------------------------------------
(* DuckDbMaintenanceWatchdog.  Its selects prefer done, then the handle.   *)

WatchdogMoves(to) ==
  /\ watchdog' = to
  /\ UNCHANGED <<runVars, lakeVars, connection, closure, clock, handle, signal, failed, ghostVars>>

\* Mutant: the wait for a late handle does not listen to done.
WatchdogDoneNotLate ==
  /\ Querying /\ signal /\ watchdog \in {"waiting", "armed"}
  /\ WatchdogMoves("ended") /\ UNCHANGED timed_out

WatchdogDone ==
  /\ Querying /\ signal /\ watchdog \in {"waiting", "late", "armed"}
  /\ WatchdogMoves("ended") /\ UNCHANGED timed_out

WatchdogHandle ==
  /\ Querying /\ ~signal /\ handle
  /\ \/ watchdog = "waiting" /\ WatchdogMoves("armed")
     \/ watchdog = "late" /\ WatchdogMoves("firing")
  /\ UNCHANGED timed_out

WatchdogDeadline ==
  /\ Querying /\ ~signal /\ clock # "ahead"
  /\ \/ watchdog = "waiting" /\ ~handle /\ WatchdogMoves("elapsed")
     \/ watchdog = "armed" /\ WatchdogMoves("due")
  /\ UNCHANGED timed_out

SetTimedOut ==
  /\ Querying
  /\ \/ watchdog = "elapsed" /\ WatchdogMoves("late")
     \/ watchdog = "due" /\ WatchdogMoves("firing")
  /\ timed_out' = TRUE

Interrupt ==
  /\ Querying /\ watchdog = "firing"
  /\ WatchdogMoves("ended") /\ UNCHANGED timed_out

PassDeadline ==
  /\ Querying
  /\ \/ clock = "ahead" /\ faults < MaxFaults /\ clock' = "passed" /\ faults' = faults + 1
     \/ clock = "passed" /\ clock' = "grace_over" /\ faults' = faults
  /\ UNCHANGED <<runVars, lakeVars, connection, closure, watchdog, handle, signal, timed_out, failed,
                 written, runs, writes>>

-----------------------------------------------------------------------------
(* The replicator, on the same lake.                                       *)

Touch(t, r) ==
  /\ writes < MaxWrites /\ writes' = writes + 1
  /\ lake' = [lake EXCEPT ![t] = r]
  /\ written' = written \cup {t}
  /\ UNCHANGED <<runVars, superseded, scheduled, callVars, runs, faults>>

WriteRows(t) ==
  /\ lake[t].exists
  /\ \/ lake[t].inlined < MaxFiles /\ Touch(t, [lake[t] EXCEPT !.inlined = @ + 1])
     \/ lake[t].small < MaxFiles /\ Touch(t, [lake[t] EXCEPT !.small = @ + 1])
     \/ lake[t].deletes = 0 /\ Touch(t, [lake[t] EXCEPT !.deletes = 1])

DropTable(t) ==
  /\ lake[t].exists
  /\ Touch(t, [exists |-> FALSE, inlined |-> 0, small |-> 0, large |-> 0, deletes |-> 0])

-----------------------------------------------------------------------------
RunStep ==
  \/ validate_config \/ list_ducklake_tables \/ run_inline_flush \/ select_merge_tables
  \/ select_rewrite_tables \/ ReadFails \/ EndRun \/ run_with_timeout \/ Join

ClosureStep ==
  CheckoutTimesOut \/ connect \/ Checkout \/ PublishHandle \/ Finish \/ CheckTimedOut

WatchdogStep == WatchdogDone \/ WatchdogHandle \/ WatchdogDeadline \/ SetTimedOut \/ Interrupt

RunnerNext ==
  \/ StartRun \/ RunStep \/ ClosureStep \/ QueryReturns \/ QueryFails \/ WatchdogStep
  \/ PassDeadline \/ abort_stuck_duckdb_maintenance_operation
  \/ \E t \in ToSet(Tables) : WriteRows(t) \/ DropTable(t)

RunnerSpec == RunnerInit /\ [][RunnerNext]_runnerVars

\* Tasks are polled, the blocking thread runs and a query that is not stuck
\* returns.
FairPassDeadline == clock # "ahead" /\ PassDeadline
FairQueryReturns == clock = "ahead" /\ QueryReturns

RunnerFairness ==
  /\ WF_runnerVars(RunStep) /\ WF_runnerVars(ClosureStep) /\ WF_runnerVars(WatchdogStep)
  /\ WF_runnerVars(FairPassDeadline) /\ WF_runnerVars(FairQueryReturns)
  /\ WF_runnerVars(abort_stuck_duckdb_maintenance_operation)

RunnerFairSpec == RunnerSpec /\ RunnerFairness

-----------------------------------------------------------------------------
(* Properties.                                                             *)

Running == result = "running"

\* A run ends, with its result or with the process, although a query may never
\* return and the watchdog and the closure race at the deadline.
RunsEnd == <>[]~Running

\* The flush comes first, so that a run that may take every table leaves a
\* table that nobody else touched with one small file at most, the one just
\* flushed included.
NothingLeftToMerge ==
  (result = "ok" /\ config.merge /\ config.max_tables_per_run >= Len(Tables))
    => \A t \in ToSet(UserTables) \ written : lake[t].small <= 1
=============================================================================

-------------------------- MODULE PipelineLifecycle --------------------------
(***************************************************************************)
(* Starting, running and ending a pipeline: Pipeline::start, wait and      *)
(* shutdown (etl/src/pipeline.rs), the pool of table sync workers          *)
(* (etl/src/workers/pool.rs), the guarded runs of both kinds of worker and *)
(* the refresh task of the memory monitor.                                 *)
(*                                                                         *)
(* The shutdown signal is a tokio watch channel: a receiver sees a value   *)
(* that is sent after it subscribed, and a clone of it sees what the       *)
(* original has not consumed.                                              *)
(***************************************************************************)
EXTENDS Integers, FiniteSets

CONSTANTS
  SyncTables,
  max_table_sync_workers,
  MaxSpawns,          \* bound: runs of table sync workers
  SignalDuringStart   \* a holder of the shutdown handle uses it during start

VARIABLES
  stage,       \* where the caller of start and wait is
  signalled,   \* the shutdown signal has been sent
  heard,       \* the receivers that see it: subset of {"monitor", "apply"}
  monitor,     \* "none", "running" or "stopped"
  apply,       \* "none", "running", "waiting", "retrying", "ended" or "failed"
  waitsFor,    \* the table whose worker the apply worker waits for
  worker,      \* "none", "queued", "running", "retrying" or "ended"
  permits,     \* free run permits
  joining,     \* wait_all holds the lock of the join set
  destination, \* "open" or "closed"
  spawns

lifeVars == <<stage, signalled, heard, monitor, apply, waitsFor, worker, permits, joining,
              destination, spawns>>

Active(t) == worker[t] \in {"queued", "running", "retrying"}

(***************************************************************************)
(* Pipeline::start                                                         *)
(***************************************************************************)
\* Source migrations, then the memory monitor subscribes and starts.
StartMonitor ==
  /\ stage = "start"
  /\ monitor' = "running"
  /\ stage' = "load"
  /\ UNCHANGED <<signalled, heard, apply, waitsFor, worker, permits, joining, destination, spawns>>

\* Metadata, schemas and table states are loaded and the apply worker, which
\* subscribes only now, is spawned.
SpawnApplyWorker ==
  /\ stage = "load"
  /\ apply' = "running"
  /\ stage' = "wait_apply"
  /\ permits' = max_table_sync_workers
  /\ UNCHANGED <<signalled, heard, monitor, waitsFor, worker, joining, destination, spawns>>

\* A step of start fails: its caller gets the error and does not wait.
StartFails ==
  /\ stage \in {"start", "load"}
  /\ stage' = "returned"
  /\ UNCHANGED <<signalled, heard, monitor, apply, waitsFor, worker, permits, joining,
                 destination, spawns>>

\* shutdown, by anyone who holds the handle.
SendShutdown ==
  /\ ~signalled
  /\ stage \in {"start", "load"} => SignalDuringStart
  /\ stage # "returned"
  /\ signalled' = TRUE
  /\ heard' = {r \in {"monitor", "apply"} :
                 IF r = "monitor" THEN monitor = "running" ELSE apply # "none"}
  /\ UNCHANGED <<stage, monitor, apply, waitsFor, worker, permits, joining, destination, spawns>>

StopMonitor ==
  /\ monitor = "running" /\ "monitor" \in heard
  /\ monitor' = "stopped"
  /\ UNCHANGED <<stage, signalled, heard, apply, waitsFor, worker, permits, joining,
                 destination, spawns>>

(***************************************************************************)
(* The apply worker                                                        *)
(***************************************************************************)
\* TableSyncWorkerPool::spawn: blocked while wait_all drains the join set, and
\* refused while a worker of the table still runs.
SpawnWorker(t) ==
  /\ apply = "running"
  /\ ~joining
  /\ ~Active(t)
  /\ spawns < MaxSpawns
  /\ spawns' = spawns + 1
  /\ worker' = [worker EXCEPT ![t] = "queued"]
  /\ UNCHANGED <<stage, signalled, heard, monitor, apply, waitsFor, permits, joining, destination>>

\* The apply worker waits until the table's worker has caught up.
WaitForWorker(t) ==
  /\ apply = "running"
  /\ worker[t] = "running"
  /\ apply' = "waiting" /\ waitsFor' = t
  /\ UNCHANGED <<stage, signalled, heard, monitor, worker, permits, joining, destination, spawns>>

WaitEnds ==
  /\ apply = "waiting"
  /\ ~Active(waitsFor) \/ "apply" \in heard
  /\ apply' = "running"
  /\ UNCHANGED <<stage, signalled, heard, monitor, waitsFor, worker, permits, joining,
                 destination, spawns>>

ApplyEnds ==
  /\ apply \in {"running", "retrying"}
  /\ "apply" \in heard
  /\ apply' = "ended"
  /\ UNCHANGED <<stage, signalled, heard, monitor, waitsFor, worker, permits, joining,
                 destination, spawns>>

\* handle_apply_worker_error: retry after a delay, or give up.
ApplyFails ==
  /\ apply = "running"
  /\ apply' \in {"retrying", "failed"}
  /\ UNCHANGED <<stage, signalled, heard, monitor, waitsFor, worker, permits, joining,
                 destination, spawns>>

ApplyRetries ==
  /\ apply = "retrying"
  /\ apply' = "running"
  /\ UNCHANGED <<stage, signalled, heard, monitor, waitsFor, worker, permits, joining,
                 destination, spawns>>

(***************************************************************************)
(* Table sync workers; their receivers are clones of the apply worker's    *)
(***************************************************************************)
AcquirePermit(t) ==
  /\ worker[t] = "queued"
  /\ permits > 0
  /\ permits' = permits - 1
  /\ worker' = [worker EXCEPT ![t] = "running"]
  /\ UNCHANGED <<stage, signalled, heard, monitor, apply, waitsFor, joining, destination, spawns>>

\* The run ends, completed, errored or panicked, or is to be retried; the
\* permit is dropped with it.
WorkerReturns(t) ==
  /\ worker[t] = "running"
  /\ permits' = permits + 1
  /\ \E next \in {"ended", "retrying"} : worker' = [worker EXCEPT ![t] = next]
  /\ UNCHANGED <<stage, signalled, heard, monitor, apply, waitsFor, joining, destination, spawns>>

WorkerRetries(t) ==
  /\ worker[t] = "retrying"
  /\ worker' = [worker EXCEPT ![t] = "queued"]
  /\ UNCHANGED <<stage, signalled, heard, monitor, apply, waitsFor, permits, joining,
                 destination, spawns>>

WorkerStops(t) ==
  /\ Active(t)
  /\ "apply" \in heard
  /\ worker' = [worker EXCEPT ![t] = "ended"]
  /\ permits' = IF worker[t] = "running" THEN permits + 1 ELSE permits
  /\ UNCHANGED <<stage, signalled, heard, monitor, apply, waitsFor, joining, destination, spawns>>

(***************************************************************************)
(* Pipeline::wait                                                          *)
(***************************************************************************)
\* Mutant: the pool is drained while the apply worker still runs.
JoinApplyEarly ==
  /\ stage = "wait_apply"
  /\ stage' = "wait_pool" /\ joining' = TRUE
  /\ UNCHANGED <<signalled, heard, monitor, apply, waitsFor, worker, permits, destination, spawns>>

\* Mutant: a failed apply worker does not shut the others down.
JoinApplyQuietly ==
  /\ stage = "wait_apply"
  /\ apply \in {"ended", "failed"}
  /\ stage' = "wait_pool" /\ joining' = TRUE
  /\ UNCHANGED <<signalled, heard, monitor, apply, waitsFor, worker, permits, destination, spawns>>

JoinApply ==
  /\ stage = "wait_apply"
  /\ apply \in {"ended", "failed"}
  /\ stage' = "wait_pool" /\ joining' = TRUE
  /\ IF apply = "failed"
       THEN signalled' = TRUE /\ heard' = {"monitor", "apply"}
       ELSE UNCHANGED <<signalled, heard>>
  /\ UNCHANGED <<monitor, apply, waitsFor, worker, permits, destination, spawns>>

WaitAll ==
  /\ stage = "wait_pool"
  /\ \A t \in SyncTables : ~Active(t)
  /\ stage' = "close" /\ joining' = FALSE
  /\ UNCHANGED <<signalled, heard, monitor, apply, waitsFor, worker, permits, destination, spawns>>

ShutDownDestination ==
  /\ stage = "close"
  /\ destination' = "closed"
  /\ stage' = "wait_monitor"
  /\ UNCHANGED <<signalled, heard, monitor, apply, waitsFor, worker, permits, joining, spawns>>

WaitForMonitor ==
  /\ stage = "wait_monitor"
  /\ monitor = "stopped"
  /\ stage' = "returned"
  /\ UNCHANGED <<signalled, heard, monitor, apply, waitsFor, worker, permits, joining,
                 destination, spawns>>

LifeInit ==
  /\ stage = "start" /\ signalled = FALSE /\ heard = {} /\ monitor = "none"
  /\ apply = "none" /\ waitsFor \in SyncTables
  /\ worker = [t \in SyncTables |-> "none"]
  /\ permits = 0 /\ joining = FALSE /\ destination = "open" /\ spawns = 0

Scheduled ==
  \/ StartMonitor \/ SpawnApplyWorker \/ StopMonitor \/ WaitEnds \/ ApplyEnds
  \/ JoinApply \/ WaitAll \/ ShutDownDestination \/ WaitForMonitor

LifeNext ==
  \/ Scheduled \/ StartFails \/ SendShutdown \/ ApplyFails \/ ApplyRetries
  \/ \E t \in SyncTables :
       \/ SpawnWorker(t) \/ WaitForWorker(t) \/ AcquirePermit(t) \/ WorkerReturns(t)
       \/ WorkerRetries(t) \/ WorkerStops(t)

LifeSpec == LifeInit /\ [][LifeNext]_lifeVars

\* Tasks that can run are run.  A worker that keeps retrying, or an apply
\* worker that keeps waiting for new ones, is not assumed to stop by itself.
Fairness ==
  /\ WF_lifeVars(Scheduled)
  /\ SF_lifeVars(ApplyEnds)
  /\ \A t \in SyncTables : SF_lifeVars(WorkerStops(t))

FairLifeSpec == LifeSpec /\ Fairness

(***************************************************************************)
(* Properties                                                              *)
(***************************************************************************)
\* A worker holds a permit of the semaphore exactly while it runs, also when it
\* fails, retries or is stopped while it waits.
PermitsBalance ==
  apply # "none" =>
    permits + Cardinality({t \in SyncTables : worker[t] = "running"}) = max_table_sync_workers

\* The destination is told to shut down only when no worker is left that could
\* write to it, whichever worker failed or was spawned last.
DestinationClosesLast ==
  destination = "closed" =>
    apply \in {"ended", "failed"} /\ \A t \in SyncTables : ~Active(t)

\* The pool's accounts are right at every step: permits are held by running workers
\* only, and the destination closes after its last writer (Pipeline::wait,
\* TableSyncWorkerPool::wait_all).
WorkersAreAccounted == PermitsBalance /\ DestinationClosesLast

Waiting == (signalled \/ apply = "failed") /\ stage # "returned"

\* Once shutdown is signalled, or the apply worker has failed for good, wait
\* returns: nobody waits for a worker, a permit or the monitor for ever.
WaitReturns == <>[]~Waiting
=============================================================================

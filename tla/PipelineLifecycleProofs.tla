----------------------- MODULE PipelineLifecycleProofs -----------------------
(***************************************************************************)
(* The destination is closed after its last writer, for any tables,        *)
(* permits and number of worker runs, also when shutdown is signalled      *)
(* while the pipeline starts.                                              *)
(***************************************************************************)
EXTENDS PipelineLifecycle, TLAPS

ApplyOver == apply \in {"ended", "failed"}
WorkersOver == \A t \in SyncTables : ~Active(t)

\* DestinationClosesLast says nothing of a pipeline that is about to close it.
\* Workers are spawned by a running apply worker only, the apply worker is joined
\* before the pool and the pool before the destination.
ClosingOrder ==
  /\ worker \in [SyncTables -> {"none", "queued", "running", "retrying", "ended"}]
  /\ stage \in {"start", "load"} => apply = "none"
  /\ stage \in {"wait_pool", "close", "wait_monitor"} => ApplyOver
  /\ stage \in {"close", "wait_monitor"} => WorkersOver
  /\ destination = "closed" => stage \in {"wait_monitor", "returned"} /\ ApplyOver /\ WorkersOver

LEMMA InitialOrder == LifeInit => ClosingOrder
  BY DEF LifeInit, ClosingOrder

\* The steps of start and wait.
LEMMA CallerKeepsOrder ==
  ASSUME ClosingOrder,
         StartMonitor \/ SpawnApplyWorker \/ StartFails \/ JoinApply \/ WaitAll
           \/ ShutDownDestination \/ WaitForMonitor
  PROVE  ClosingOrder'
<1> USE DEF ClosingOrder, ApplyOver, WorkersOver, Active
<1>1. CASE StartMonitor
  BY <1>1 DEF StartMonitor
<1>2. CASE SpawnApplyWorker
  BY <1>2 DEF SpawnApplyWorker
<1>3. CASE StartFails
  BY <1>3 DEF StartFails
<1>4. CASE JoinApply
  BY <1>4 DEF JoinApply
<1>5. CASE WaitAll
  BY <1>5 DEF WaitAll
<1>6. CASE ShutDownDestination
  BY <1>6 DEF ShutDownDestination
<1>7. CASE WaitForMonitor
  BY <1>7 DEF WaitForMonitor
<1> QED BY <1>1, <1>2, <1>3, <1>4, <1>5, <1>6, <1>7

\* The apply worker spawns workers while it runs, and never runs again.
LEMMA ApplyWorkerKeepsOrder ==
  ASSUME ClosingOrder,
         \/ WaitEnds \/ ApplyEnds \/ ApplyFails \/ ApplyRetries
         \/ \E t \in SyncTables : SpawnWorker(t) \/ WaitForWorker(t)
  PROVE  ClosingOrder'
<1> USE DEF ClosingOrder, ApplyOver, WorkersOver, Active
<1>1. CASE WaitEnds
  BY <1>1 DEF WaitEnds
<1>2. CASE ApplyEnds
  BY <1>2 DEF ApplyEnds
<1>3. CASE ApplyFails
  BY <1>3 DEF ApplyFails
<1>4. CASE ApplyRetries
  BY <1>4 DEF ApplyRetries
<1>5. ASSUME NEW t \in SyncTables, SpawnWorker(t)
      PROVE  ClosingOrder'
  BY <1>5 DEF SpawnWorker
<1>6. ASSUME NEW t \in SyncTables, WaitForWorker(t)
      PROVE  ClosingOrder'
  BY <1>6 DEF WaitForWorker
<1> QED BY <1>1, <1>2, <1>3, <1>4, <1>5, <1>6

\* A worker that is over stays over.
LEMMA WorkersKeepOrder ==
  ASSUME ClosingOrder,
         NEW t \in SyncTables,
         AcquirePermit(t) \/ WorkerReturns(t) \/ WorkerRetries(t) \/ WorkerStops(t)
  PROVE  ClosingOrder'
<1> USE DEF ClosingOrder, ApplyOver, WorkersOver, Active
<1>1. CASE AcquirePermit(t)
  BY <1>1 DEF AcquirePermit
<1>2. CASE WorkerReturns(t)
  BY <1>2 DEF WorkerReturns
<1>3. CASE WorkerRetries(t)
  BY <1>3 DEF WorkerRetries
<1>4. CASE WorkerStops(t)
  BY <1>4 DEF WorkerStops
<1> QED BY <1>1, <1>2, <1>3, <1>4

LEMMA SignalsKeepOrder ==
  ASSUME ClosingOrder, SendShutdown \/ StopMonitor \/ UNCHANGED lifeVars
  PROVE  ClosingOrder'
  BY DEF SendShutdown, StopMonitor, lifeVars, ClosingOrder, ApplyOver, WorkersOver, Active

\* The destination is told to shut down only when no worker is left that could
\* write to it, whichever worker failed or was spawned last (Pipeline::wait,
\* TableSyncWorkerPool::wait_all).
THEOREM AlwaysClosesLast == LifeSpec => []DestinationClosesLast
<1>1. LifeInit => ClosingOrder
  BY InitialOrder
<1>2. ClosingOrder /\ [LifeNext]_lifeVars => ClosingOrder'
  BY CallerKeepsOrder, ApplyWorkerKeepsOrder, WorkersKeepOrder, SignalsKeepOrder DEF LifeNext, Scheduled
<1>3. ClosingOrder => DestinationClosesLast
  BY DEF ClosingOrder, DestinationClosesLast, ApplyOver, WorkersOver
<1> QED BY <1>1, <1>2, <1>3, PTL DEF LifeSpec
=============================================================================

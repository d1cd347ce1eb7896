------------------------ MODULE TableHandoverProofs ------------------------
(***************************************************************************)
(* The apply worker stands still while a table-sync worker is in Catchup,  *)
(* for any number of tables, workers, transactions and failures.           *)
(*                                                                         *)
(* The property is not inductive by itself.  It needs that the apply       *)
(* worker waits for one table at a time, and that the phases which only    *)
(* coordinate the two workers are never found in the store, from where a   *)
(* new or a retried worker takes its phase.                                *)
(***************************************************************************)
EXTENDS TableHandover, TLAPS

IsRecord(r, fields) == r = [f \in fields |-> r[f]]

HookShape(h) == IsRecord(h, {"kind", "lsn", "todo", "waiting"})

ApplierShape(a) ==
  /\ IsRecord(a, {"tx", "step", "buf", "last_received", "last_flush", "hook"})
  /\ HookShape(a.hook)
  /\ a.hook.kind = "none" => a.hook.waiting = {}

WorkerShape(w) ==
  IsRecord(w, {"pc", "phase", "snapshot", "tx", "buf", "last_received", "last_flush",
               "completing", "attempts"})

CoordinationTypes == {"SyncWait", "Catchup"}

\* The store has a row per table, and never a phase that only coordinates.
StoreOK(store) ==
  /\ store = [t \in Tables |-> store[t]]
  /\ \A t \in Tables : /\ IsRecord(store[t], {"cur", "prev"})
                        /\ store[t].cur.type \notin CoordinationTypes
                        /\ store[t].prev.type \notin CoordinationTypes

PoolOK == workers = [t \in Tables |-> workers[t]] /\ \A t \in Tables : WorkerShape(workers[t])

ApplierOK == ApplierShape(applier) /\ \A t, u \in applier.hook.waiting : t = u

CatchupInv == StoreOK(stored) /\ PoolOK /\ ApplierOK /\ ApplierWaitsDuringCatchup

-----------------------------------------------------------------------------

\* The idle hook at the end of an iteration waits for nobody.
LEMMA EndIterationShape ==
  ASSUME NEW a, NEW s, ApplierShape(a), a.hook.waiting = {}
  PROVE  ApplierShape(EndIteration(a, s)) /\ EndIteration(a, s).hook.waiting = {}
  BY DEF EndIteration, BeginHook, NoHook, ApplierShape, HookShape, IsRecord

\* A hook begins with all its tables to look at, and waits for none of them.
LEMMA BeginHookShape ==
  ASSUME NEW a, NEW kind, NEW lsn, NEW s, ApplierShape(a)
  PROVE  /\ ApplierShape(BeginHook(a, kind, lsn, s))
         /\ BeginHook(a, kind, lsn, s).hook.waiting = {}
  BY DEF BeginHook, ApplierShape, HookShape, IsRecord

\* What continues after a table's turn does not change whom the hook waits for.
LEMMA ContinueHookShape ==
  ASSUME NEW a, NEW s, ApplierShape(a)
  PROVE  ApplierShape(ContinueHook(a, s)) /\ ContinueHook(a, s).hook.waiting = a.hook.waiting
<1>1. CASE DOMAIN a.hook.todo # {} \/ a.hook.waiting # {}
  BY <1>1 DEF ContinueHook
<1>2. CASE ~(DOMAIN a.hook.todo # {} \/ a.hook.waiting # {}) /\ a.hook.kind = "flush"
  BY <1>2, EndIterationShape DEF ContinueHook
<1>3. CASE ~(DOMAIN a.hook.todo # {} \/ a.hook.waiting # {}) /\ a.hook.kind # "flush"
  BY <1>3 DEF ContinueHook, NoHook, ApplierShape, HookShape, IsRecord
<1>. QED BY <1>1, <1>2, <1>3

\* Taking a table off the hook's list does not change whom it waits for.
LEMMA SeenShape ==
  ASSUME NEW a, NEW t, ApplierShape(a)
  PROVE  ApplierShape(Seen(a, t)) /\ Seen(a, t).hook.waiting = a.hook.waiting
  BY DEF Seen, ApplierShape, HookShape, IsRecord

\* Initially there are no workers to wait for.
LEMMA InitCatchup == Init => CatchupInv
<1> SUFFICES ASSUME Init PROVE CatchupInv
  OBVIOUS
<1>1. ApplierShape(applier) /\ applier.hook.waiting = {}
  <2>1. ApplierShape(ApplierAt(0)) /\ ApplierAt(0).hook.waiting = {}
    BY DEF ApplierAt, NoHook, ApplierShape, HookShape, IsRecord
  <2>. QED BY <2>1, EndIterationShape DEF Init
<1>2. PoolOK
  BY DEF Init, PoolOK, NoWorker, NewWorker, WorkerShape, IsRecord
<1>3. StoreOK(stored)
  BY DEF Init, StoreOK, CoordinationTypes, Phase, IsRecord
<1>. QED
  BY <1>1, <1>2, <1>3 DEF Init, CatchupInv, ApplierOK, ApplierWaitsDuringCatchup, ActiveWorker,
                          NoWorker, NewWorker

-----------------------------------------------------------------------------
(* Steps of one process.                                                    *)

\* A step of the apply worker that leaves the pool alone and waits for the same
\* tables as before.
LEMMA ApplierStep ==
  ASSUME CatchupInv, StoreOK(stored'), ApplierShape(applier'), UNCHANGED workers,
         applier'.hook.waiting = applier.hook.waiting
  PROVE  CatchupInv'
  BY DEF CatchupInv, PoolOK, ApplierOK, ApplierWaitsDuringCatchup, ActiveWorker

\* A step of a table-sync worker that does not enter Catchup.
LEMMA WorkerStep ==
  ASSUME CatchupInv, StoreOK(stored'), UNCHANGED applier,
         NEW t \in Tables, NEW w, workers' = [workers EXCEPT ![t] = w], WorkerShape(w),
         w.phase.type = "Catchup" => ActiveWorker(t) /\ workers[t].phase.type = "Catchup"
  PROVE  CatchupInv'
<1>1. PoolOK'
  BY DEF CatchupInv, PoolOK
<1>2. ApplierWaitsDuringCatchup'
  BY DEF CatchupInv, PoolOK, ApplierWaitsDuringCatchup, ActiveWorker
<1>. QED BY <1>1, <1>2 DEF CatchupInv, ApplierOK

\* Storing a durable phase keeps the store free of coordination phases.
LEMMA UpdateStore ==
  ASSUME NEW store, StoreOK(store), NEW t \in Tables, NEW phase,
         phase.type \notin CoordinationTypes
  PROVE  StoreOK([store EXCEPT ![t] = Update(@, phase)])
  BY DEF StoreOK, Update, IsRecord

\* Rolling back restores a phase that was stored before.
LEMMA RollbackStore ==
  ASSUME NEW store, StoreOK(store), NEW t \in Tables
  PROVE  StoreOK([store EXCEPT ![t] = Rollback(@)])
  BY DEF StoreOK, Rollback, IsRecord

\* A new worker has the phase it is given.
LEMMA NewWorkerShape ==
  ASSUME NEW pc, NEW phase
  PROVE  WorkerShape(NewWorker(pc, phase)) /\ NewWorker(pc, phase).phase = phase
  BY DEF NewWorker, WorkerShape, IsRecord

\* try_complete_catchup leaves the phase alone or leaves Catchup.
LEMMA TryCompleteStep ==
  ASSUME CatchupInv, UNCHANGED applier, NEW t \in Tables, NEW w, NEW lsn, WorkerShape(w),
         w.phase.type = "Catchup" => ActiveWorker(t) /\ workers[t].phase.type = "Catchup",
         TryCompleteCatchup(t, w, lsn)
  PROVE  CatchupInv'
<1> DEFINE done == [w EXCEPT !.phase = PhaseAt("SyncDone", lsn)]
<1>1. WorkerShape(done) /\ done.phase.type = "SyncDone"
  BY DEF WorkerShape, IsRecord, PhaseAt
<1>2. /\ WorkerShape([done EXCEPT !.pc = "complete"])
      /\ [done EXCEPT !.pc = "complete"].phase.type = "SyncDone"
      /\ WorkerShape([done EXCEPT !.pc = "failing"])
      /\ [done EXCEPT !.pc = "failing"].phase.type = "SyncDone"
  BY <1>1 DEF WorkerShape, IsRecord
<1> HIDE DEF done
<1>3. CASE workers' = [workers EXCEPT ![t] = w] /\ UNCHANGED stored
  BY <1>3, WorkerStep DEF CatchupInv
<1>4. CASE /\ workers' = [workers EXCEPT ![t] = [done EXCEPT !.pc = "complete"]]
           /\ stored' = [stored EXCEPT ![t] = Update(@, done.phase)]
  <2>1. StoreOK(stored')
    BY <1>1, <1>4, UpdateStore DEF CatchupInv, CoordinationTypes
  <2>. QED BY <1>2, <1>4, <2>1, WorkerStep
<1>5. CASE workers' = [workers EXCEPT ![t] = [done EXCEPT !.pc = "failing"]] /\ UNCHANGED stored
  BY <1>2, <1>5, WorkerStep DEF CatchupInv
<1>. QED BY <1>3, <1>4, <1>5 DEF TryCompleteCatchup, done

-----------------------------------------------------------------------------
(* The actions.                                                             *)

\* Streaming, flushing and confirming change neither the pool nor the waiting.
LEMMA ApplierActions ==
  ASSUME CatchupInv, ApplyRow \/ ApplyCommit \/ ApplyKeepAlive \/ ApplyFlush \/ ConfirmFlush
  PROVE  CatchupInv'
<1>1. ApplierShape(applier) /\ StoreOK(stored) /\ applier.hook.waiting = {}
  BY DEF CatchupInv, ApplierOK, ApplierShape, ApplyRow, ApplyCommit, ApplyKeepAlive, ApplyFlush,
         ConfirmFlush, Streaming
<1>2. CASE ApplyRow
  <2>1. ApplierShape(applier') /\ applier'.hook.waiting = {}
    BY <1>1, <1>2 DEF ApplyRow, ApplierShape, IsRecord
  <2>. QED BY <1>1, <1>2, <2>1, ApplierStep DEF ApplyRow
<1>3. CASE ApplyCommit
  <2> DEFINE ended == [applier EXCEPT !.tx = @ + 1, !.step = 1,
                                      !.last_received = MaxLsn(@, EndLsn(applier.tx))]
  <2>1. ApplierShape(ended)
    BY <1>1 DEF ApplierShape, IsRecord
  <2>2. applier' = ContinueHook(BeginHook(ended, "commit", EndLsn(applier.tx), stored), stored)
    BY <1>3 DEF ApplyCommit
  <2> HIDE DEF ended
  <2>3. ApplierShape(applier') /\ applier'.hook.waiting = {}
    BY <2>1, <2>2, BeginHookShape, ContinueHookShape
  <2>. QED BY <1>1, <1>3, <2>3, ApplierStep DEF ApplyCommit
<1>4. CASE ApplyKeepAlive
  <2>1. PICK lsn : applier' = EndIteration([applier EXCEPT !.last_received = MaxLsn(@, lsn)], stored)
    BY <1>4 DEF ApplyKeepAlive
  <2> DEFINE heard == [applier EXCEPT !.last_received = MaxLsn(@, lsn)]
  <2>2. ApplierShape(heard) /\ heard.hook.waiting = {}
    BY <1>1 DEF ApplierShape, IsRecord
  <2> HIDE DEF heard
  <2>3. ApplierShape(applier') /\ applier'.hook.waiting = {}
    BY <2>1, <2>2, EndIterationShape DEF heard
  <2>. QED BY <1>1, <1>4, <2>3, ApplierStep DEF ApplyKeepAlive
<1>5. CASE ApplyFlush
  <2>1. PICK i \in 1..Len(applier.buf) :
          LET end     == CommitEnd(Prefix(applier.buf, i))
              flushed == [applier EXCEPT !.buf = Rest(@, i), !.last_flush = MaxLsn(@, end)]
          IN  applier' = IF end = 0
                         THEN EndIteration(flushed, stored)
                         ELSE ContinueHook(BeginHook(flushed, "flush", flushed.last_flush, stored),
                                           stored)
    BY <1>5 DEF ApplyFlush
  <2> DEFINE end     == CommitEnd(Prefix(applier.buf, i))
             flushed == [applier EXCEPT !.buf = Rest(@, i), !.last_flush = MaxLsn(@, end)]
  <2>2. ApplierShape(flushed) /\ flushed.hook.waiting = {}
    BY <1>1 DEF ApplierShape, IsRecord
  <2>3. \/ applier' = EndIteration(flushed, stored)
        \/ applier' = ContinueHook(BeginHook(flushed, "flush", flushed.last_flush, stored), stored)
    BY <2>1
  <2> HIDE DEF flushed
  <2>4. ApplierShape(applier') /\ applier'.hook.waiting = {}
    BY <2>2, <2>3, EndIterationShape, BeginHookShape, ContinueHookShape
  <2>. QED BY <1>1, <1>5, <2>4, ApplierStep DEF ApplyFlush
<1>6. CASE ConfirmFlush
  BY <1>1, <1>6, ApplierStep DEF ConfirmFlush
<1>. QED BY <1>2, <1>3, <1>4, <1>5, <1>6

\* A hook enters Catchup and starts to wait in one critical section, and stops
\* waiting only when the worker has left Catchup.
LEMMA HookActions ==
  ASSUME CatchupInv, NEW t \in Tables, HookStep(t)
  PROVE  CatchupInv'
<1>1. ApplierShape(applier) /\ StoreOK(stored) /\ PoolOK
  BY DEF CatchupInv, ApplierOK
<1>2. CASE HookStartsCatchup(t)
  <2>1. ApplierShape(Seen(applier, t)) /\ applier.hook.waiting = {}
    BY <1>1, <1>2, SeenShape DEF HookStartsCatchup, HookAt
  <2>2. Seen(applier, t).hook.kind # "none"
    BY <1>1, <1>2 DEF HookStartsCatchup, CanStartCatchup, MayStartCatchup, Seen, ApplierShape,
                      HookShape, IsRecord
  <2>3. ApplierShape(applier') /\ applier'.hook.waiting = {t}
    BY <1>2, <2>1, <2>2 DEF HookStartsCatchup, ApplierShape, HookShape, IsRecord
  <2>4. PoolOK'
    BY <1>1, <1>2 DEF HookStartsCatchup, PoolOK, WorkerShape, IsRecord
  <2>5. \A u \in Tables \ {t} : workers'[u] = workers[u]
    BY <1>1, <1>2 DEF HookStartsCatchup, PoolOK
  <2>6. ApplierWaitsDuringCatchup'
    BY <2>1, <2>3, <2>5 DEF CatchupInv, ApplierWaitsDuringCatchup, ActiveWorker
  <2>. QED BY <1>1, <1>2, <2>3, <2>4, <2>6 DEF CatchupInv, ApplierOK, HookStartsCatchup
<1>3. CASE HookWakesUp(t)
  <2> DEFINE woken == [applier EXCEPT !.hook.waiting = {}]
  <2>1. ApplierShape(woken) /\ woken.hook.waiting = {}
    BY <1>1 DEF ApplierShape, HookShape, IsRecord
  <2>2. applier' = ContinueHook(woken, stored)
    BY <1>3 DEF HookWakesUp
  <2> HIDE DEF woken
  <2>3. ApplierShape(applier') /\ applier'.hook.waiting = {}
    BY <2>1, <2>2, ContinueHookShape
  <2>4. \A u \in Tables : ~(ActiveWorker(u) /\ workers[u].phase.type = "Catchup")
    BY <1>3 DEF HookWakesUp, CatchupInv, ApplierOK, ApplierWaitsDuringCatchup
  <2>5. ApplierWaitsDuringCatchup'
    BY <1>3, <2>4 DEF HookWakesUp, ApplierWaitsDuringCatchup, ActiveWorker
  <2>. QED BY <1>1, <1>3, <2>3, <2>5 DEF CatchupInv, ApplierOK, PoolOK, HookWakesUp
<1>4. CASE HookMakesReady(t)
  <2>1. StoreOK(stored')
    BY <1>1, <1>4, UpdateStore DEF HookMakesReady, Phase, CoordinationTypes
  <2>2. ApplierShape(applier') /\ applier'.hook.waiting = applier.hook.waiting
    BY <1>1, <1>4, SeenShape, ContinueHookShape DEF HookMakesReady
  <2>. QED BY <1>4, <2>1, <2>2, ApplierStep DEF HookMakesReady
<1>5. CASE HookSpawnsWorker(t)
  <2> DEFINE w == NewWorker("permit", stored[t].cur)
  <2>1. WorkerShape(w) /\ w.phase.type # "Catchup"
    BY <1>1, NewWorkerShape DEF StoreOK, CoordinationTypes
  <2>2. ApplierShape(applier') /\ applier'.hook.waiting = applier.hook.waiting
    BY <1>1, <1>5, SeenShape, ContinueHookShape DEF HookSpawnsWorker
  <2>3. workers' = [workers EXCEPT ![t] = w] /\ UNCHANGED stored
    BY <1>5 DEF HookSpawnsWorker
  <2> HIDE DEF w
  <2>4. PoolOK' /\ workers'[t] = w /\ \A u \in Tables \ {t} : workers'[u] = workers[u]
    BY <1>1, <2>1, <2>3 DEF PoolOK
  <2>5. ApplierWaitsDuringCatchup'
    BY <2>1, <2>2, <2>4 DEF CatchupInv, ApplierWaitsDuringCatchup, ActiveWorker
  <2>. QED BY <1>1, <2>2, <2>3, <2>4, <2>5 DEF CatchupInv, ApplierOK
<1>6. CASE HookSkipsTable(t)
  <2>1. ApplierShape(applier') /\ applier'.hook.waiting = applier.hook.waiting
    BY <1>1, <1>6, SeenShape, ContinueHookShape DEF HookSkipsTable
  <2>. QED BY <1>1, <1>6, <2>1, ApplierStep DEF HookSkipsTable
<1>. QED BY <1>2, <1>3, <1>4, <1>5, <1>6 DEF HookStep

\* No step of a table-sync worker enters Catchup: only the apply worker's hook
\* does.
LEMMA WorkerActions ==
  ASSUME CatchupInv, NEW t \in Tables,
         AcquirePermit(t) \/ SyncStep(t) \/ StreamTransaction(t) \/ StreamKeepAlive(t)
  PROVE  CatchupInv'
<1> DEFINE w == workers[t]
<1>1. /\ StoreOK(stored) /\ WorkerShape(w)
      /\ \A v : [workers EXCEPT ![t] = v] = [u \in Tables |-> IF u = t THEN v ELSE workers[u]]
  BY DEF CatchupInv, PoolOK
<1>2. CASE AcquirePermit(t)
  <2>1. workers' = [workers EXCEPT ![t] = [w EXCEPT !.pc = "start"]]
    BY <1>2 DEF AcquirePermit
  <2>2. WorkerShape([w EXCEPT !.pc = "start"]) /\ [w EXCEPT !.pc = "start"].phase = w.phase
    BY <1>1 DEF WorkerShape, IsRecord
  <2>. QED BY <1>1, <1>2, <2>1, <2>2, WorkerStep DEF AcquirePermit, ActiveWorker
<1>3. CASE SyncNotRequired(t)
  <2>1. workers' = [workers EXCEPT ![t] = [w EXCEPT !.pc = "finished"]]
    BY <1>3 DEF SyncNotRequired
  <2>2. WorkerShape([w EXCEPT !.pc = "finished"]) /\ [w EXCEPT !.pc = "finished"].phase = w.phase
    BY <1>1 DEF WorkerShape, IsRecord
  <2>. QED BY <1>1, <1>3, <2>1, <2>2, WorkerStep DEF SyncNotRequired, ActiveWorker
<1>4. CASE PrepareCopy(t)
  <2>1. workers' = [workers EXCEPT ![t] = [w EXCEPT !.pc = "prepared"]]
    BY <1>4 DEF PrepareCopy
  <2>2. WorkerShape([w EXCEPT !.pc = "prepared"]) /\ [w EXCEPT !.pc = "prepared"].phase = w.phase
    BY <1>1 DEF WorkerShape, IsRecord
  <2>. QED BY <1>1, <1>4, <2>1, <2>2, WorkerStep DEF PrepareCopy, ActiveWorker
<1>5. CASE CreateSlot(t)
  <2> DEFINE v == [w EXCEPT !.pc = "copying", !.phase = Phase("DataSync"),
                            !.snapshot = EndLsn(committed)]
  <2>1. workers' = [workers EXCEPT ![t] = v]
    BY <1>1, <1>5 DEF CreateSlot, CatchupInv, PoolOK
  <2>2. WorkerShape(v) /\ v.phase.type = "DataSync"
    BY <1>1 DEF WorkerShape, IsRecord, Phase
  <2>3. StoreOK(stored')
    BY <1>1, <1>5, UpdateStore DEF CreateSlot, Phase, CoordinationTypes
  <2> HIDE DEF v
  <2>. QED BY <1>5, <2>1, <2>2, <2>3, WorkerStep DEF CreateSlot
<1>6. CASE CopyTable(t)
  <2>1. workers' = [workers EXCEPT ![t] = [w EXCEPT !.pc = "copied"]]
    BY <1>6 DEF CopyTable
  <2>2. WorkerShape([w EXCEPT !.pc = "copied"]) /\ [w EXCEPT !.pc = "copied"].phase = w.phase
    BY <1>1 DEF WorkerShape, IsRecord
  <2>. QED BY <1>1, <1>6, <2>1, <2>2, WorkerStep DEF CopyTable, ActiveWorker
<1>7. CASE FinishCopy(t)
  <2> DEFINE v == [w EXCEPT !.pc = "wait", !.phase = PhaseAt("SyncWait", w.snapshot)]
  <2>1. workers' = [workers EXCEPT ![t] = v]
    BY <1>1, <1>7 DEF FinishCopy, CatchupInv, PoolOK
  <2>2. WorkerShape(v) /\ v.phase.type = "SyncWait"
    BY <1>1 DEF WorkerShape, IsRecord, PhaseAt
  <2>3. StoreOK(stored')
    BY <1>1, <1>7, UpdateStore DEF FinishCopy, Phase, CoordinationTypes
  <2> HIDE DEF v
  <2>. QED BY <1>7, <2>1, <2>2, <2>3, WorkerStep DEF FinishCopy
<1>8. CASE StartStreaming(t)
  <2> DEFINE v == [w EXCEPT !.pc = "stream", !.tx = FirstTxFrom(w.snapshot),
                            !.last_received = w.snapshot, !.last_flush = w.snapshot]
  <2>1. TryCompleteCatchup(t, v, w.snapshot) /\ w.pc = "wait"
    BY <1>8 DEF StartStreaming
  <2>2. WorkerShape(v) /\ v.phase = w.phase
    BY <1>1 DEF WorkerShape, IsRecord
  <2> HIDE DEF v
  <2>. QED BY <1>8, <2>1, <2>2, TryCompleteStep DEF StartStreaming, ActiveWorker
<1>9. CASE StreamFlush(t)
  <2>1. PICK i \in 1..Len(w.buf) :
          LET v == [w EXCEPT !.buf = Rest(@, i),
                             !.last_flush = MaxLsn(@, CommitEnd(Prefix(w.buf, i)))]
          IN  TryCompleteCatchup(t, v, CompletionLsn(v))
    BY <1>9 DEF StreamFlush
  <2> DEFINE v == [w EXCEPT !.buf = Rest(@, i),
                            !.last_flush = MaxLsn(@, CommitEnd(Prefix(w.buf, i)))]
  <2>2. WorkerShape(v) /\ v.phase = w.phase
    BY <1>1 DEF WorkerShape, IsRecord
  <2>3. TryCompleteCatchup(t, v, CompletionLsn(v))
    BY <2>1
  <2> HIDE DEF v
  <2>. QED BY <1>9, <2>2, <2>3, TryCompleteStep DEF StreamFlush, ActiveWorker
<1>10. CASE StreamKeepAlive(t)
  <2>1. PICK lsn : LET v == [w EXCEPT !.last_received = MaxLsn(@, lsn)]
                   IN  TryCompleteCatchup(t, v, IF w.buf = <<>> THEN v.last_received ELSE 0)
    BY <1>10 DEF StreamKeepAlive
  <2> DEFINE v == [w EXCEPT !.last_received = MaxLsn(@, lsn)]
  <2>2. WorkerShape(v) /\ v.phase = w.phase
    BY <1>1 DEF WorkerShape, IsRecord
  <2>3. TryCompleteCatchup(t, v, IF w.buf = <<>> THEN v.last_received ELSE 0)
    BY <2>1
  <2> HIDE DEF v
  <2>. QED BY <1>10, <2>2, <2>3, TryCompleteStep DEF StreamKeepAlive, ActiveWorker
<1>11. CASE StreamTransaction(t)
  <2> DEFINE v == [w EXCEPT !.tx = @ + 1,
                            !.last_received = MaxLsn(@, EndLsn(w.tx)),
                            !.buf = @ \o RowsFor(t, TxRows(w.tx)) \o <<CommitOf(w.tx)>>,
                            !.completing = CatchupReached(w, EndLsn(w.tx))]
  <2>1. workers' = [workers EXCEPT ![t] = v]
    BY <1>1, <1>11 DEF StreamTransaction, CatchupInv, PoolOK
  <2>2. WorkerShape(v) /\ v.phase = w.phase
    BY <1>1 DEF WorkerShape, IsRecord
  <2> HIDE DEF v
  <2>. QED BY <1>1, <1>11, <2>1, <2>2, WorkerStep DEF StreamTransaction, ActiveWorker
<1>12. CASE WorkerCompletes(t)
  <2>1. workers' = [workers EXCEPT ![t] = [w EXCEPT !.pc = "finished"]]
    BY <1>12 DEF WorkerCompletes
  <2>2. WorkerShape([w EXCEPT !.pc = "finished"]) /\ [w EXCEPT !.pc = "finished"].phase = w.phase
    BY <1>1 DEF WorkerShape, IsRecord
  <2>. QED BY <1>1, <1>12, <2>1, <2>2, WorkerStep DEF WorkerCompletes, ActiveWorker
<1>13. CASE WorkerRetries(t)
  <2>1. StoreOK(stored')
    BY <1>1, <1>13, RollbackStore DEF WorkerRetries
  <2> DEFINE v == Retries(t, stored'[t].cur)
  <2>2. WorkerShape(v) /\ v.phase = stored'[t].cur
    BY NewWorkerShape DEF Retries, WorkerShape, IsRecord
  <2>3. v.phase.type # "Catchup"
    BY <2>1, <2>2 DEF StoreOK, CoordinationTypes
  <2>4. workers' = [workers EXCEPT ![t] = v]
    BY <1>13 DEF WorkerRetries
  <2> HIDE DEF v
  <2>. QED BY <1>13, <2>1, <2>2, <2>3, <2>4, WorkerStep DEF WorkerRetries
<1>. QED
  BY <1>2, <1>3, <1>4, <1>5, <1>6, <1>7, <1>8, <1>9, <1>10, <1>11, <1>12, <1>13 DEF SyncStep

\* A failed worker is Errored, or retries from a phase of the store.
LEMMA FailureActions ==
  ASSUME CatchupInv, NEW t \in Tables, WorkerFailure(t)
  PROVE  CatchupInv'
<1>1. StoreOK(stored) /\ UNCHANGED applier
  BY DEF CatchupInv, WorkerFailure, WorkerFailsTimed, WorkerRetriesAtOnce, WorkerFailsForGood,
         WorkerFailsUnstored, FailWorker
<1>2. \A pc : WorkerShape(Errors(t, pc)) /\ Errors(t, pc).phase.type = "Errored"
  BY DEF Errors, NewWorker, Phase, WorkerShape, IsRecord
<1>3. StoreOK([stored EXCEPT ![t] = Update(@, Phase("Errored"))])
  BY <1>1, UpdateStore DEF Phase, CoordinationTypes
<1>4. CASE WorkerFailsTimed(t)
  BY <1>1, <1>2, <1>3, <1>4, WorkerStep DEF WorkerFailsTimed
<1>5. CASE WorkerRetriesAtOnce(t)
  <2> DEFINE v == Retries(t, stored[t].cur)
  <2>1. WorkerShape(v) /\ v.phase = stored[t].cur
    BY NewWorkerShape DEF Retries, WorkerShape, IsRecord
  <2>2. v.phase.type # "Catchup"
    BY <1>1, <2>1 DEF StoreOK, CoordinationTypes
  <2>3. workers' = [workers EXCEPT ![t] = v] /\ UNCHANGED stored
    BY <1>5 DEF WorkerRetriesAtOnce
  <2> HIDE DEF v
  <2>. QED BY <1>1, <2>1, <2>2, <2>3, WorkerStep
<1>6. CASE WorkerFailsForGood(t)
  BY <1>1, <1>2, <1>3, <1>6, WorkerStep DEF WorkerFailsForGood
<1>7. CASE WorkerFailsUnstored(t)
  BY <1>1, <1>2, <1>7, WorkerStep DEF WorkerFailsUnstored
<1>. QED BY <1>4, <1>5, <1>6, <1>7 DEF WorkerFailure

\* A restarted apply worker waits for nobody, wherever it starts.
LEMMA RestartShape ==
  ASSUME NEW lsn, NEW s
  PROVE  /\ ApplierShape(EndIteration(ApplierAt(lsn), s))
         /\ EndIteration(ApplierAt(lsn), s).hook.waiting = {}
<1>1. ApplierShape(ApplierAt(lsn)) /\ ApplierAt(lsn).hook.waiting = {}
  BY DEF ApplierAt, NoHook, ApplierShape, HookShape, IsRecord
<1>. QED BY <1>1, EndIterationShape

\* After a crash there are no workers.
LEMMA CrashStep == CatchupInv /\ Crash => CatchupInv'
<1> SUFFICES ASSUME CatchupInv, Crash PROVE CatchupInv'
  OBVIOUS
<1>1. ApplierShape(applier') /\ applier'.hook.waiting = {} /\ StoreOK(stored')
  BY RestartShape DEF Crash, CatchupInv
<1>2. workers' = [t \in Tables |-> NoWorker] /\ WorkerShape(NoWorker) /\ NoWorker.phase.type = "Init"
  BY NewWorkerShape DEF Crash, NoWorker, Phase
<1>. QED
  BY <1>1, <1>2 DEF CatchupInv, PoolOK, ApplierOK, ApplierWaitsDuringCatchup

\* Every step keeps the invariant.
LEMMA NextCatchup == CatchupInv /\ [Next]_vars => CatchupInv'
<1> SUFFICES ASSUME CatchupInv, [Next]_vars PROVE CatchupInv'
  OBVIOUS
<1>1. CASE UNCHANGED vars
  BY <1>1 DEF vars, CatchupInv, PoolOK, ApplierOK, ApplierWaitsDuringCatchup, ActiveWorker
<1>2. CASE ApplyRow \/ ApplyCommit \/ ApplyKeepAlive \/ ApplyFlush \/ ConfirmFlush
  BY <1>2, ApplierActions
<1>3. CASE \E t \in Tables : HookStep(t)
  BY <1>3, HookActions
<1>4. CASE \E t \in Tables : AcquirePermit(t) \/ SyncStep(t) \/ StreamTransaction(t)
                             \/ StreamKeepAlive(t)
  BY <1>4, WorkerActions
<1>5. CASE \E t \in Tables : WorkerFailure(t)
  BY <1>5, FailureActions
<1>6. CASE ApplierFails
  BY <1>6, RestartShape, ApplierStep DEF ApplierFails, CatchupInv
<1>7. CASE Crash
  BY <1>7, CrashStep
<1>8. CASE SourceCommits
  BY <1>8, ApplierStep DEF SourceCommits, CatchupInv, ApplierOK
<1>. QED
  BY <1>1, <1>2, <1>3, <1>4, <1>5, <1>6, <1>7, <1>8 DEF Next

\* While a table-sync worker catches up to a position that the apply worker
\* chose, the apply worker waits for that table and applies nothing: both would
\* otherwise write the same changes (wait_for_table_sync_worker_catchup).
THEOREM AlwaysWaitsDuringCatchup == Spec => []ApplierWaitsDuringCatchup
<1>1. CatchupInv => ApplierWaitsDuringCatchup
  BY DEF CatchupInv
<1>. QED BY <1>1, InitCatchup, NextCatchup, PTL DEF Spec
=============================================================================

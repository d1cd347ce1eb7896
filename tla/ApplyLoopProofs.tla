-------------------------- MODULE ApplyLoopProofs --------------------------
(***************************************************************************)
(* Proofs about the apply loop for every number and size of transactions,  *)
(* every batch budget and every number of failures.                        *)
(***************************************************************************)
EXTENDS ApplyLoop, SequenceTheorems, TLAPS

-----------------------------------------------------------------------------
(* The handlers map loop states to loop states.                             *)

LEMMA NewLoopType ==
  ASSUME NEW start \in Nat
  PROVE  NewLoop(start) \in Loops
BY DEF NewLoop, Loops, Intents

LEMMA UpdateLastReceivedType ==
  ASSUME NEW l \in Loops, NEW lsn \in Nat
  PROVE  UpdateLastReceived(l, lsn) \in Loops
BY DEF UpdateLastReceived, Loops, MaxLsn

LEMMA RecordExitIntentType ==
  ASSUME NEW l \in Loops, NEW intent \in Intents
  PROVE  RecordExitIntent(l, intent) \in Loops
BY DEF RecordExitIntent, MergeIntent, Loops, Intents

LEMMA SendStatusUpdateType ==
  ASSUME NEW l \in Loops
  PROVE  SendStatusUpdate(l) \in Loops
<1>1. EffectiveFlushLsn(l) \in Nat
  BY DEF EffectiveFlushLsn, Loops
<1>2. QED
  BY <1>1 DEF SendStatusUpdate, Loops, MaxLsn

LEMMA FlushBatchType ==
  ASSUME NEW l \in Loops
  PROVE  FlushBatch(l) \in Loops
<1>1. [l EXCEPT !.paused = TRUE] \in Loops
  BY DEF Loops
<1>2. [l EXCEPT !.inflight = l.batch, !.inflight_end = l.last_commit_end,
                !.batch = <<>>, !.last_commit_end = 0, !.deadline = FALSE] \in Loops
  <2>1. l.batch \in Seq(Event) /\ l.last_commit_end \in Nat /\ <<>> \in Seq(Event)
    BY DEF Loops
  <2>2. QED
    BY <2>1 DEF Loops
<1>3. QED
  BY <1>1, <1>2 DEF FlushBatch

LEMMA AddEventType ==
  ASSUME NEW l \in Loops, NEW e \in Event, NEW end_lsn \in Nat,
         NEW budget \in Nat, NEW end_batch \in BOOLEAN
  PROVE  AddEvent(l, e, end_lsn, budget, end_batch) \in Loops
<1> DEFINE added == [l EXCEPT !.batch = Append(@, e),
                              !.last_commit_end = MaxLsn(@, end_lsn),
                              !.deadline = TRUE]
<1>1. Append(l.batch, e) \in Seq(Event) /\ MaxLsn(l.last_commit_end, end_lsn) \in Nat
  BY DEF Loops, MaxLsn
<1>2. added \in Loops
  BY <1>1 DEF Loops
<1>3. FlushBatch(added) \in Loops
  BY <1>2, FlushBatchType
<1>4. QED
  BY <1>2, <1>3 DEF AddEvent

LEMMA HandleBeginType ==
  ASSUME NEW l \in Loops, pos \in Event, NEW budget \in Nat
  PROVE  HandleBegin(l, budget) \in Loops
<1>1. EndLsn(pos.tx - 1) \in Nat /\ CommitLsn(pos.tx) \in Nat
  BY ConstantsAssumption DEF Event, Tx, EndLsn, CommitLsn
<1>2. UpdateLastReceived(l, EndLsn(pos.tx - 1)) \in Loops
  BY <1>1, UpdateLastReceivedType
<1>3. [UpdateLastReceived(l, EndLsn(pos.tx - 1))
         EXCEPT !.remote_final = CommitLsn(pos.tx)] \in Loops
  BY <1>1, <1>2 DEF Loops
<1>4. QED
  BY <1>3, AddEventType DEF HandleBegin

LEMMA HandleChangeType ==
  ASSUME NEW l \in Loops, pos \in Event, NEW budget \in Nat
  PROVE  HandleChange(l, budget) \in Loops
<1>1. EndLsn(pos.tx - 1) \in Nat
  BY ConstantsAssumption DEF Event, Tx, EndLsn
<1>2. UpdateLastReceived(l, EndLsn(pos.tx - 1)) \in Loops
  BY <1>1, UpdateLastReceivedType
<1>3. QED
  BY <1>2, AddEventType DEF HandleChange

LEMMA HandleCommitType ==
  ASSUME NEW l \in Loops, pos \in Event, NEW budget \in Nat
  PROVE  HandleCommit(l, budget) \in Loops
<1> DEFINE intent == AfterCommitIntent(EndLsn(pos.tx))
<1> DEFINE ended  == [UpdateLastReceived(l, EndLsn(pos.tx)) EXCEPT !.remote_final = 0]
<1>1. EndLsn(pos.tx) \in Nat
  BY ConstantsAssumption DEF Event, Tx, EndLsn
<1>2. ended \in Loops
  <2>1. UpdateLastReceived(l, EndLsn(pos.tx)) \in Loops
    BY <1>1, UpdateLastReceivedType
  <2>2. QED
    BY <2>1 DEF Loops
<1>3. intent \in Intents
  BY DEF AfterCommitIntent, Intents
<1>4. RecordExitIntent(ended, intent) \in Loops
  BY <1>2, <1>3, RecordExitIntentType
<1>5. (intent # "None") \in BOOLEAN
  OBVIOUS
<1> HIDE DEF intent, ended
<1>6. AddEvent(RecordExitIntent(ended, intent), pos, EndLsn(pos.tx), budget, intent # "None")
        \in Loops
  BY <1>1, <1>4, <1>5, AddEventType
<1>7. QED
  BY <1>6 DEF HandleCommit, intent, ended

LEMMA HandleKeepAliveType ==
  ASSUME NEW l \in Loops, NEW lsn \in Nat
  PROVE  HandleKeepAlive(l, lsn) \in Loops
BY UpdateLastReceivedType, SendStatusUpdateType DEF HandleKeepAlive

LEMMA TryCompleteCatchupType ==
  ASSUME NEW l \in Loops, NEW lsn \in Nat
  PROVE  TryCompleteCatchup(l, lsn) \in Loops
<1>1. RecordExitIntent(l, "Complete") \in Loops
  BY RecordExitIntentType DEF Intents
<1>2. [RecordExitIntent(l, "Complete") EXCEPT !.sync_done = lsn] \in Loops
  BY <1>1 DEF Loops
<1>3. QED
  BY <1>2 DEF TryCompleteCatchup

LEMMA AfterFlushType ==
  ASSUME NEW l \in Loops, NEW progress \in Nat
  PROVE  AfterFlush(l, progress) \in Loops
<1> DEFINE flushed == [l EXCEPT !.last_flush = MaxLsn(@, progress)]
<1>1. flushed \in Loops
  BY DEF Loops, MaxLsn
<1>2. flushed.last_flush \in Nat
  BY <1>1 DEF Loops
<1> HIDE DEF flushed
<1>3. TryCompleteCatchup(flushed, flushed.last_flush) \in Loops
  BY <1>1, <1>2, TryCompleteCatchupType
<1>4. QED
  BY <1>3 DEF AfterFlush, flushed

LEMMA HandleFlushResultType ==
  ASSUME NEW l \in Loops, NEW progress \in Nat
  PROVE  HandleFlushResult(l, progress) \in Loops
<1> DEFINE resumed == [l EXCEPT !.inflight = <<>>, !.inflight_end = 0, !.paused = FALSE]
<1> DEFINE synced  == IF l.inflight_end = 0 THEN resumed ELSE AfterFlush(resumed, progress)
<1>1. resumed \in Loops
  <2>1. <<>> \in Seq(Event)
    OBVIOUS
  <2>2. QED
    BY <2>1 DEF Loops
<1> HIDE DEF resumed
<1>2. synced \in Loops
  BY <1>1, AfterFlushType
<1> HIDE DEF synced
<1>3. FlushBatch(synced) \in Loops
  BY <1>2, FlushBatchType
<1>4. QED
  BY <1>2, <1>3 DEF HandleFlushResult, synced, resumed

LEMMA HandleShutdownSignalType ==
  ASSUME NEW l \in Loops
  PROVE  HandleShutdownSignal(l) \in Loops
<1> DEFINE asked == RecordExitIntent(l, "Pause")
<1>1. asked \in Loops
  BY RecordExitIntentType DEF Intents
<1> HIDE DEF asked
<1>2. [asked EXCEPT !.draining = TRUE] \in Loops
  BY <1>1 DEF Loops
<1>3. SendStatusUpdate(asked) \in Loops
  BY <1>1, SendStatusUpdateType
<1>4. QED
  BY <1>2, <1>3 DEF HandleShutdownSignal, asked

LEMMA EndIterationType ==
  ASSUME NEW l \in Loops
  PROVE  EndIteration(l) \in Loops
<1>1. ProcessSyncingTablesWhenIdle(l) \in Loops
  <2>1. EffectiveFlushLsn(l) \in Nat
    BY DEF EffectiveFlushLsn, Loops
  <2>2. QED
    BY <2>1, TryCompleteCatchupType DEF ProcessSyncingTablesWhenIdle
<1>2. ASSUME NEW k \in Loops
      PROVE  TryFinish(k) \in Loops
  <2>1. ExitStatus(k) \in {"paused", "completed"}
    BY DEF ExitStatus
  <2>2. SendStatusUpdate(k) \in Loops
    BY SendStatusUpdateType
  <2>3. [SendStatusUpdate(k) EXCEPT !.draining = FALSE, !.status = ExitStatus(k)] \in Loops
    BY <2>1, <2>2 DEF Loops
  <2>4. [k EXCEPT !.status = ExitStatus(k)] \in Loops
    BY <2>1 DEF Loops
  <2>5. QED
    BY <2>3, <2>4 DEF TryFinish
<1>3. QED
  BY <1>1, <1>2 DEF EndIteration

-----------------------------------------------------------------------------
(* Positions and the events owed at them.                                   *)

LEMMA EventFields ==
  ASSUME NEW e \in Event
  PROVE  /\ e.tx \in Tx /\ e.tx \in Nat /\ e.tx >= 1
         /\ e.step \in Nat /\ e.step <= LastStep(e.tx)
         /\ e = [tx |-> e.tx, step |-> e.step]
         /\ Size[e.tx] \in Nat /\ LastStep(e.tx) \in Nat
BY ConstantsAssumption DEF Event, Tx, LastStep

LEMMA OwedIsEvent ==
  ASSUME NEW e \in Owed
  PROVE  e \in Event /\ Size[e.tx] > 0 /\ CommitLsn(e.tx) >= StartLsn
BY DEF Owed

LEMMA OwedBelowMax ==
  ASSUME NEW a \in Nat, NEW b \in Nat, NEW X,
         OwedBelow(a) \subseteq X, OwedBelow(b) \subseteq X
  PROVE  OwedBelow(MaxLsn(a, b)) \subseteq X
BY DEF MaxLsn

LEMMA OwedBelowZero == OwedBelow(0) = {}
<1>1. ASSUME NEW e \in Owed
      PROVE  ~(CommitLsn(e.tx) < 0)
  BY OwedIsEvent, EventFields DEF CommitLsn
<1>2. QED
  BY <1>1 DEF OwedBelow

LEMMA OwedBelowEnd ==
  ASSUME NEW p \in Positions, NEW lsn \in Nat, lsn <= EndLsn(p.tx - 1)
  PROVE  OwedBelow(lsn) \subseteq OwedBefore(p)
<1>1. SUFFICES ASSUME NEW e \in Owed, CommitLsn(e.tx) < lsn
               PROVE  e.tx < p.tx
  BY DEF OwedBelow, OwedBefore, Precedes
<1>2. e.tx \in Nat /\ p.tx \in Nat
  BY OwedIsEvent, EventFields DEF Positions
<1>3. QED
  BY <1>1, <1>2 DEF CommitLsn, EndLsn

LEMMA OwedBelowCommit ==
  ASSUME NEW p \in Positions, NEW lsn \in Nat, lsn <= CommitLsn(p.tx)
  PROVE  OwedBelow(lsn) \subseteq OwedBefore(p)
<1>1. SUFFICES ASSUME NEW e \in Owed, CommitLsn(e.tx) < lsn
               PROVE  e.tx < p.tx
  BY DEF OwedBelow, OwedBefore, Precedes
<1>2. e.tx \in Nat /\ p.tx \in Nat
  BY OwedIsEvent, EventFields DEF Positions
<1>3. QED
  BY <1>1, <1>2 DEF CommitLsn

\* Receiving the event at p makes only that event newly owed.
LEMMA NextPosOwes ==
  ASSUME NEW p \in Event
  PROVE  /\ NextPos(p) \in Positions
         /\ OwedBefore(NextPos(p)) \subseteq OwedBefore(p) \cup {p}
         /\ NextPos(p).tx >= p.tx
         /\ p.step = LastStep(p.tx) => NextPos(p) = [tx |-> p.tx + 1, step |-> 0]
         /\ p.step # LastStep(p.tx) => NextPos(p) = [tx |-> p.tx, step |-> p.step + 1]
<1>1. /\ p.tx \in Nat /\ p.tx >= 1 /\ p.tx \in Tx
      /\ p.step \in Nat /\ LastStep(p.tx) \in Nat /\ p.step <= LastStep(p.tx)
      /\ p = [tx |-> p.tx, step |-> p.step]
  BY EventFields
<1>2. CASE p.step = LastStep(p.tx)
  <2>1. NextPos(p) = [tx |-> p.tx + 1, step |-> 0]
    BY <1>2 DEF NextPos
  <2>2. NextPos(p) \in Positions
    <3>1. p.tx + 1 \in Tx => LastStep(p.tx + 1) >= 0
      BY ConstantsAssumption DEF Tx, LastStep
    <3>2. QED
      BY <1>1, <2>1, <3>1 DEF Positions
  <2>3. ASSUME NEW e \in OwedBefore(NextPos(p))
        PROVE  e \in OwedBefore(p) \cup {p}
    <3>1. e \in Owed /\ e \in Event /\ e.tx < p.tx + 1
      BY <2>1, <2>3, OwedIsEvent, EventFields, <1>1 DEF OwedBefore, Precedes
    <3>2. e.tx \in Nat /\ e.step \in Nat /\ e.step <= LastStep(e.tx)
          /\ e = [tx |-> e.tx, step |-> e.step]
      BY <3>1, EventFields
    <3>3. CASE e.tx < p.tx
      BY <3>1, <3>3 DEF OwedBefore, Precedes
    <3>4. CASE e.tx = p.tx /\ e.step < p.step
      BY <3>1, <3>4 DEF OwedBefore, Precedes
    <3>5. CASE e.tx = p.tx /\ e.step = p.step
      BY <1>1, <3>2, <3>5
    <3>6. QED
      BY <1>1, <1>2, <3>1, <3>2, <3>3, <3>4, <3>5
  <2>4. QED
    BY <1>1, <1>2, <2>1, <2>2, <2>3
<1>3. CASE p.step # LastStep(p.tx)
  <2>1. NextPos(p) = [tx |-> p.tx, step |-> p.step + 1]
    BY <1>1, <1>3 DEF NextPos
  <2>2. NextPos(p) \in Positions
    BY <1>1, <1>3, <2>1 DEF Positions
  <2>3. ASSUME NEW e \in OwedBefore(NextPos(p))
        PROVE  e \in OwedBefore(p) \cup {p}
    <3>1. /\ e \in Owed /\ e \in Event
          /\ e.tx < p.tx \/ (e.tx = p.tx /\ e.step < p.step + 1)
      BY <2>1, <2>3, OwedIsEvent DEF OwedBefore, Precedes
    <3>2. e.tx \in Nat /\ e.step \in Nat /\ e = [tx |-> e.tx, step |-> e.step]
      BY <3>1, EventFields
    <3>3. CASE e.tx < p.tx
      BY <3>1, <3>3 DEF OwedBefore, Precedes
    <3>4. CASE e.tx = p.tx /\ e.step < p.step
      BY <3>1, <3>4 DEF OwedBefore, Precedes
    <3>5. CASE e.tx = p.tx /\ e.step = p.step
      BY <1>1, <3>2, <3>5
    <3>6. QED
      BY <1>1, <3>1, <3>2, <3>3, <3>4, <3>5
  <2>4. QED
    BY <1>1, <1>3, <2>1, <2>2, <2>3
<1>4. QED
  BY <1>2, <1>3

\* A stream started at `start` leaves out only transactions that commit before.
LEMMA StartOfOwes ==
  ASSUME NEW start \in Nat
  PROVE  /\ StartOf(start) \in Positions
         /\ OwedBefore(StartOf(start)) \subseteq OwedBelow(start)
         /\ start <= CommitLsn(StartOf(start).tx)
<1> DEFINE k == FirstTxFrom(start)
<1>1. k \in Nat /\ k >= 1 /\ start <= 2 * k - 1 /\ 2 * (k - 1) <= start
  BY DEF FirstTxFrom
<1> HIDE DEF k
<1>2. StartOf(start) = [tx |-> k, step |-> 0]
  BY DEF StartOf, k
<1>3. StartOf(start) \in Positions
  <2>1. k \in Tx => LastStep(k) >= 0
    BY ConstantsAssumption DEF Tx, LastStep
  <2>2. QED
    BY <1>1, <1>2, <2>1 DEF Positions
<1>4. ASSUME NEW e \in OwedBefore(StartOf(start))
      PROVE  e \in OwedBelow(start)
  <2>1. e \in Owed /\ e.tx \in Nat /\ e.step \in Nat /\ e.tx < k
    BY <1>1, <1>2, <1>4, OwedIsEvent, EventFields DEF OwedBefore, Precedes
  <2>2. CommitLsn(e.tx) < start
    BY <1>1, <2>1 DEF CommitLsn
  <2>3. QED
    BY <2>1, <2>2 DEF OwedBelow
<1>5. QED
  BY <1>1, <1>2, <1>3, <1>4 DEF CommitLsn

-----------------------------------------------------------------------------
(* The handlers keep the books of a loop balanced.                          *)

\* The fields that the books are about.
SameBooks(k, l) ==
  /\ k.inflight = l.inflight
  /\ k.batch = l.batch
  /\ k.last_flush = l.last_flush
  /\ k.reported = l.reported
  /\ k.inflight_end = l.inflight_end
  /\ k.last_commit_end = l.last_commit_end
  /\ k.last_received = l.last_received
  /\ k.remote_final = l.remote_final

LEMMA SameBooksBalance ==
  ASSUME NEW l, NEW k, NEW p, NEW W, SameBooks(k, l), LoopAccounts(l, p, W)
  PROVE  LoopAccounts(k, p, W)
BY DEF SameBooks, LoopAccounts

\* What the loop reports as flushed, also while idle, is applied.
LEMMA EffectiveFlushIsDelivered ==
  ASSUME NEW l \in Loops, NEW p \in Positions, NEW W, LoopAccounts(l, p, W)
  PROVE  EffectiveFlushLsn(l) \in Nat /\ OwedBelow(EffectiveFlushLsn(l)) \subseteq W
<1>1. l.last_received \in Nat /\ l.last_flush \in Nat
  BY DEF Loops
<1>2. CASE IsIdle(l)
  <2>1. l.inflight = <<>> /\ l.batch = <<>>
    BY <1>2 DEF IsIdle, HasUnresolvedBatchWork, HasPendingBatch, HasPendingFlushResult
  <2>2. Range(l.inflight) = {} /\ Range(l.batch) = {}
    BY <2>1 DEF Range
  <2>3. OwedBelow(l.last_received) \subseteq OwedBefore(p)
    BY <1>1, OwedBelowCommit DEF LoopAccounts
  <2>4. QED
    BY <1>1, <1>2, <2>2, <2>3 DEF EffectiveFlushLsn, LoopAccounts
<1>3. CASE ~IsIdle(l)
  BY <1>1, <1>3 DEF EffectiveFlushLsn, LoopAccounts
<1>4. QED
  BY <1>2, <1>3

LEMMA SendStatusUpdateBalances ==
  ASSUME NEW l \in Loops, NEW p \in Positions, NEW W, LoopAccounts(l, p, W)
  PROVE  LoopAccounts(SendStatusUpdate(l), p, W)
<1> DEFINE k == SendStatusUpdate(l)
<1>1. /\ k.inflight = l.inflight /\ k.batch = l.batch
      /\ k.last_flush = l.last_flush /\ k.inflight_end = l.inflight_end
      /\ k.last_commit_end = l.last_commit_end /\ k.last_received = l.last_received
      /\ k.remote_final = l.remote_final
      /\ k.reported = MaxLsn(l.reported, EffectiveFlushLsn(l))
  BY DEF SendStatusUpdate, Loops
<1>2. l.reported \in Nat /\ OwedBelow(l.reported) \subseteq W
  BY DEF Loops, LoopAccounts
<1>3. OwedBelow(k.reported) \subseteq W
  BY <1>1, <1>2, EffectiveFlushIsDelivered, OwedBelowMax
<1> HIDE DEF k
<1>4. LoopAccounts(k, p, W)
  BY <1>1, <1>3 DEF LoopAccounts
<1>5. QED
  BY <1>4 DEF k

LEMMA FlushBatchBalances ==
  ASSUME NEW l \in Loops, NEW p \in Positions, NEW W, LoopAccounts(l, p, W)
  PROVE  LoopAccounts(FlushBatch(l), p, W)
<1>1. CASE ~HasPendingBatch(l)
  BY <1>1 DEF FlushBatch
<1>2. CASE HasPendingBatch(l) /\ HasPendingFlushResult(l)
  <2>1. SameBooks([l EXCEPT !.paused = TRUE], l)
    BY DEF SameBooks, Loops
  <2>2. FlushBatch(l) = [l EXCEPT !.paused = TRUE]
    BY <1>2 DEF FlushBatch
  <2>3. QED
    BY <2>1, <2>2, SameBooksBalance
<1>3. CASE HasPendingBatch(l) /\ ~HasPendingFlushResult(l)
  <2> DEFINE k == FlushBatch(l)
  <2>1. k = [l EXCEPT !.inflight = l.batch, !.inflight_end = l.last_commit_end,
                      !.batch = <<>>, !.last_commit_end = 0, !.deadline = FALSE]
    BY <1>3 DEF FlushBatch
  <2>2. /\ k.inflight = l.batch /\ k.batch = <<>>
        /\ k.last_flush = l.last_flush /\ k.reported = l.reported
        /\ k.inflight_end = l.last_commit_end /\ k.last_commit_end = 0
        /\ k.last_received = l.last_received /\ k.remote_final = l.remote_final
    BY <2>1 DEF Loops
  <2>3. l.inflight = <<>> /\ Range(l.inflight) = {} /\ Range(k.batch) = {}
    BY <1>3, <2>2 DEF HasPendingFlushResult, Range
  <2>4. l.last_commit_end \in Nat /\ EndLsn(p.tx - 1) >= 0
    BY DEF Loops, Positions, EndLsn
  <2>5. OwedBelow(l.last_commit_end) \subseteq OwedBefore(p)
    BY <2>4, OwedBelowEnd DEF LoopAccounts
  <2> HIDE DEF k
  <2>6. LoopAccounts(k, p, W)
    BY <2>2, <2>3, <2>4, <2>5 DEF LoopAccounts
  <2>7. QED
    BY <2>6 DEF k
<1>4. QED
  BY <1>1, <1>2, <1>3

LEMMA AddEventBalances ==
  ASSUME NEW l \in Loops, NEW p \in Event, NEW q \in Positions, NEW W,
         NEW end_lsn \in Nat, NEW budget \in Nat, NEW end_batch \in BOOLEAN,
         OwedBefore(q) \subseteq OwedBefore(p) \cup {p},
         end_lsn <= EndLsn(q.tx - 1),
         OwedBefore(p) \subseteq W \cup Range(l.inflight) \cup Range(l.batch),
         OwedBelow(l.last_flush) \subseteq W,
         OwedBelow(l.reported) \subseteq W,
         OwedBelow(l.inflight_end) \subseteq W \cup Range(l.inflight),
         l.last_commit_end <= EndLsn(q.tx - 1),
         l.last_received <= CommitLsn(q.tx),
         l.remote_final = 0 => q.step = 0
  PROVE  LoopAccounts(AddEvent(l, p, end_lsn, budget, end_batch), q, W)
<1> DEFINE added == [l EXCEPT !.batch = Append(@, p),
                              !.last_commit_end = MaxLsn(@, end_lsn),
                              !.deadline = TRUE]
<1>1. Append(l.batch, p) \in Seq(Event) /\ MaxLsn(l.last_commit_end, end_lsn) \in Nat
  BY DEF Loops, MaxLsn
<1>2. added \in Loops
  BY <1>1 DEF Loops
<1>3. /\ added.inflight = l.inflight /\ added.batch = Append(l.batch, p)
      /\ added.last_flush = l.last_flush /\ added.reported = l.reported
      /\ added.inflight_end = l.inflight_end
      /\ added.last_commit_end = MaxLsn(l.last_commit_end, end_lsn)
      /\ added.last_received = l.last_received /\ added.remote_final = l.remote_final
  BY DEF Loops
<1>4. Range(Append(l.batch, p)) = Range(l.batch) \cup {p}
  <2>1. l.batch \in Seq(Event)
    BY DEF Loops
  <2>2. QED
    BY <2>1, AppendProperties DEF Range
<1>5. MaxLsn(l.last_commit_end, end_lsn) <= EndLsn(q.tx - 1)
  BY DEF MaxLsn
<1>6. AddEvent(l, p, end_lsn, budget, end_batch) \in {added, FlushBatch(added)}
  BY DEF AddEvent
<1> HIDE DEF added
<1>7. LoopAccounts(added, q, W)
  BY <1>3, <1>4, <1>5 DEF LoopAccounts
<1>8. LoopAccounts(FlushBatch(added), q, W)
  BY <1>2, <1>7, FlushBatchBalances
<1>9. QED
  BY <1>6, <1>7, <1>8

LEMMA UpdateLastReceivedFields ==
  ASSUME NEW l \in Loops, NEW lsn \in Nat
  PROVE  LET k == UpdateLastReceived(l, lsn)
         IN  /\ k \in Loops
             /\ k.inflight = l.inflight /\ k.batch = l.batch
             /\ k.last_flush = l.last_flush /\ k.reported = l.reported
             /\ k.inflight_end = l.inflight_end /\ k.last_commit_end = l.last_commit_end
             /\ k.last_received = MaxLsn(l.last_received, lsn)
             /\ k.remote_final = l.remote_final
BY UpdateLastReceivedType DEF UpdateLastReceived, Loops

LEMMA HandleBeginBalances ==
  ASSUME pos \in Event, pos.step = 0, NEW l \in Loops, NEW W, NEW budget \in Nat,
         LoopAccounts(l, pos, W)
  PROVE  LoopAccounts(HandleBegin(l, budget), NextPos(pos), W)
<1> DEFINE u == UpdateLastReceived(l, EndLsn(pos.tx - 1))
<1> DEFINE k == [u EXCEPT !.remote_final = CommitLsn(pos.tx)]
<1>1. /\ pos.tx \in Nat /\ pos.tx >= 1 /\ LastStep(pos.tx) \in Nat
      /\ EndLsn(pos.tx - 1) \in Nat /\ CommitLsn(pos.tx) \in Nat /\ CommitLsn(pos.tx) # 0
      /\ EndLsn(pos.tx - 1) <= CommitLsn(pos.tx)
  BY EventFields DEF EndLsn, CommitLsn
<1>2. /\ u \in Loops
      /\ u.inflight = l.inflight /\ u.batch = l.batch
      /\ u.last_flush = l.last_flush /\ u.reported = l.reported
      /\ u.inflight_end = l.inflight_end /\ u.last_commit_end = l.last_commit_end
      /\ u.last_received = MaxLsn(l.last_received, EndLsn(pos.tx - 1))
  BY <1>1, UpdateLastReceivedFields
<1> HIDE DEF u
<1>3. /\ k \in Loops
      /\ k.inflight = l.inflight /\ k.batch = l.batch
      /\ k.last_flush = l.last_flush /\ k.reported = l.reported
      /\ k.inflight_end = l.inflight_end /\ k.last_commit_end = l.last_commit_end
      /\ k.last_received = MaxLsn(l.last_received, EndLsn(pos.tx - 1))
      /\ k.remote_final = CommitLsn(pos.tx)
  BY <1>1, <1>2 DEF Loops
<1>4. /\ NextPos(pos) \in Positions /\ NextPos(pos).tx \in Nat /\ NextPos(pos).tx >= pos.tx
      /\ OwedBefore(NextPos(pos)) \subseteq OwedBefore(pos) \cup {pos}
  BY NextPosOwes DEF Positions
<1>5. /\ 0 <= EndLsn(NextPos(pos).tx - 1)
      /\ l.last_commit_end <= EndLsn(NextPos(pos).tx - 1)
      /\ k.last_received <= CommitLsn(NextPos(pos).tx)
  <2>1. l.last_commit_end \in Nat /\ l.last_received \in Nat
    BY DEF Loops
  <2>2. l.last_commit_end <= EndLsn(pos.tx - 1) /\ l.last_received <= CommitLsn(pos.tx)
    BY DEF LoopAccounts
  <2>3. QED
    BY <1>1, <1>3, <1>4, <2>1, <2>2 DEF MaxLsn, EndLsn, CommitLsn
<1> HIDE DEF k
<1>6. /\ OwedBefore(pos) \subseteq W \cup Range(k.inflight) \cup Range(k.batch)
      /\ OwedBelow(k.last_flush) \subseteq W
      /\ OwedBelow(k.reported) \subseteq W
      /\ OwedBelow(k.inflight_end) \subseteq W \cup Range(k.inflight)
      /\ k.last_commit_end <= EndLsn(NextPos(pos).tx - 1)
      /\ k.remote_final = 0 => NextPos(pos).step = 0
  BY <1>1, <1>3, <1>5 DEF LoopAccounts
<1>7. LoopAccounts(AddEvent(k, pos, 0, budget, FALSE), NextPos(pos), W)
  <2>1. k \in Loops /\ k.last_received <= CommitLsn(NextPos(pos).tx)
    BY <1>3, <1>5
  <2>2. 0 \in Nat /\ FALSE \in BOOLEAN
    OBVIOUS
  <2>3. QED
    BY <1>4, <1>5, <1>6, <2>1, <2>2, AddEventBalances, Zenon
<1>8. QED
  BY <1>7 DEF HandleBegin, k, u

LEMMA HandleChangeBalances ==
  ASSUME pos \in Event, pos.step \in 1..Size[pos.tx], NEW l \in Loops, NEW W,
         NEW budget \in Nat, LoopAccounts(l, pos, W)
  PROVE  LoopAccounts(HandleChange(l, budget), NextPos(pos), W)
<1> DEFINE k == UpdateLastReceived(l, EndLsn(pos.tx - 1))
<1>1. /\ pos.tx \in Nat /\ pos.tx >= 1 /\ LastStep(pos.tx) \in Nat /\ pos.step # 0
      /\ EndLsn(pos.tx - 1) \in Nat /\ EndLsn(pos.tx - 1) <= CommitLsn(pos.tx)
  BY EventFields DEF EndLsn, CommitLsn
<1>2. /\ k \in Loops
      /\ k.inflight = l.inflight /\ k.batch = l.batch
      /\ k.last_flush = l.last_flush /\ k.reported = l.reported
      /\ k.inflight_end = l.inflight_end /\ k.last_commit_end = l.last_commit_end
      /\ k.last_received = MaxLsn(l.last_received, EndLsn(pos.tx - 1))
      /\ k.remote_final = l.remote_final
  BY <1>1, UpdateLastReceivedFields
<1>3. /\ NextPos(pos) \in Positions /\ NextPos(pos).tx \in Nat /\ NextPos(pos).tx >= pos.tx
      /\ OwedBefore(NextPos(pos)) \subseteq OwedBefore(pos) \cup {pos}
  BY NextPosOwes DEF Positions
<1>4. /\ 0 <= EndLsn(NextPos(pos).tx - 1)
      /\ l.last_commit_end <= EndLsn(NextPos(pos).tx - 1)
      /\ k.last_received <= CommitLsn(NextPos(pos).tx)
  <2>1. l.last_commit_end \in Nat /\ l.last_received \in Nat
    BY DEF Loops
  <2>2. l.last_commit_end <= EndLsn(pos.tx - 1) /\ l.last_received <= CommitLsn(pos.tx)
    BY DEF LoopAccounts
  <2>3. QED
    BY <1>1, <1>2, <1>3, <2>1, <2>2 DEF MaxLsn, EndLsn, CommitLsn
<1>5. k.remote_final # 0
  BY <1>1, <1>2 DEF LoopAccounts
<1> HIDE DEF k
<1>6. /\ OwedBefore(pos) \subseteq W \cup Range(k.inflight) \cup Range(k.batch)
      /\ OwedBelow(k.last_flush) \subseteq W
      /\ OwedBelow(k.reported) \subseteq W
      /\ OwedBelow(k.inflight_end) \subseteq W \cup Range(k.inflight)
      /\ k.last_commit_end <= EndLsn(NextPos(pos).tx - 1)
      /\ k.remote_final = 0 => NextPos(pos).step = 0
  BY <1>2, <1>4, <1>5 DEF LoopAccounts
<1>7. LoopAccounts(AddEvent(k, pos, 0, budget, FALSE), NextPos(pos), W)
  BY <1>2, <1>3, <1>4, <1>6, AddEventBalances
<1>8. QED
  BY <1>7 DEF HandleChange, k

LEMMA HandleCommitBalances ==
  ASSUME pos \in Event, pos.step = LastStep(pos.tx), NEW l \in Loops, NEW W,
         NEW budget \in Nat, LoopAccounts(l, pos, W)
  PROVE  LoopAccounts(HandleCommit(l, budget), NextPos(pos), W)
<1> DEFINE intent == AfterCommitIntent(EndLsn(pos.tx))
<1> DEFINE u == UpdateLastReceived(l, EndLsn(pos.tx))
<1> DEFINE ended == [u EXCEPT !.remote_final = 0]
<1> DEFINE k == RecordExitIntent(ended, intent)
<1>1. pos.tx \in Nat /\ pos.tx >= 1 /\ EndLsn(pos.tx) \in Nat
  BY EventFields DEF EndLsn
<1>2. /\ u \in Loops
      /\ u.inflight = l.inflight /\ u.batch = l.batch
      /\ u.last_flush = l.last_flush /\ u.reported = l.reported
      /\ u.inflight_end = l.inflight_end /\ u.last_commit_end = l.last_commit_end
      /\ u.last_received = MaxLsn(l.last_received, EndLsn(pos.tx))
  BY <1>1, UpdateLastReceivedFields
<1> HIDE DEF u
<1>3. /\ ended \in Loops
      /\ ended.inflight = l.inflight /\ ended.batch = l.batch
      /\ ended.last_flush = l.last_flush /\ ended.reported = l.reported
      /\ ended.inflight_end = l.inflight_end /\ ended.last_commit_end = l.last_commit_end
      /\ ended.last_received = MaxLsn(l.last_received, EndLsn(pos.tx))
  BY <1>2 DEF Loops
<1> HIDE DEF ended
<1>4. intent \in Intents /\ (intent # "None") \in BOOLEAN
  BY DEF AfterCommitIntent, Intents
<1> HIDE DEF intent
<1>5. k \in Loops
  BY <1>3, <1>4, RecordExitIntentType
<1>6. SameBooks(k, ended)
  BY <1>3 DEF RecordExitIntent, SameBooks, Loops
<1>7. /\ NextPos(pos) \in Positions /\ NextPos(pos) = [tx |-> pos.tx + 1, step |-> 0]
      /\ OwedBefore(NextPos(pos)) \subseteq OwedBefore(pos) \cup {pos}
  BY NextPosOwes
<1>8. /\ EndLsn(pos.tx) <= EndLsn(NextPos(pos).tx - 1)
      /\ k.last_commit_end <= EndLsn(NextPos(pos).tx - 1)
      /\ k.last_received <= CommitLsn(NextPos(pos).tx)
  <2>1. l.last_commit_end \in Nat /\ l.last_received \in Nat
    BY DEF Loops
  <2>2. l.last_commit_end <= EndLsn(pos.tx - 1) /\ l.last_received <= CommitLsn(pos.tx)
    BY DEF LoopAccounts
  <2>3. k.last_commit_end = l.last_commit_end
        /\ k.last_received = MaxLsn(l.last_received, EndLsn(pos.tx))
    BY <1>3, <1>6 DEF SameBooks
  <2>4. NextPos(pos).tx = pos.tx + 1
    BY <1>7
  <2>5. QED
    BY <1>1, <2>1, <2>2, <2>3, <2>4 DEF MaxLsn, EndLsn, CommitLsn
<1> HIDE DEF k
<1>9. /\ OwedBefore(pos) \subseteq W \cup Range(k.inflight) \cup Range(k.batch)
      /\ OwedBelow(k.last_flush) \subseteq W
      /\ OwedBelow(k.reported) \subseteq W
      /\ OwedBelow(k.inflight_end) \subseteq W \cup Range(k.inflight)
      /\ k.last_commit_end <= EndLsn(NextPos(pos).tx - 1)
      /\ k.remote_final = 0 => NextPos(pos).step = 0
  BY <1>3, <1>6, <1>7, <1>8 DEF LoopAccounts, SameBooks
<1>10. LoopAccounts(AddEvent(k, pos, EndLsn(pos.tx), budget, intent # "None"), NextPos(pos), W)
  BY <1>1, <1>4, <1>5, <1>7, <1>8, <1>9, AddEventBalances
<1>11. QED
  BY <1>10 DEF HandleCommit, k, ended, u, intent

LEMMA HandleKeepAliveBalances ==
  ASSUME pos \in Positions, NEW l \in Loops, NEW W, LoopAccounts(l, pos, W),
         NEW lsn \in KeepAliveLsns
  PROVE  LoopAccounts(HandleKeepAlive(l, lsn), pos, W)
<1> DEFINE k == UpdateLastReceived(l, lsn)
<1>1. lsn \in Nat /\ lsn <= CommitLsn(pos.tx) /\ l.last_received \in Nat
  <2>1. pos.tx \in Nat /\ pos.tx >= 1 /\ l.last_received \in Nat
    BY DEF Positions, Loops
  <2>2. QED
    BY <2>1 DEF KeepAliveLsns, EndLsn, CommitLsn
<1>2. /\ k \in Loops
      /\ k.inflight = l.inflight /\ k.batch = l.batch
      /\ k.last_flush = l.last_flush /\ k.reported = l.reported
      /\ k.inflight_end = l.inflight_end /\ k.last_commit_end = l.last_commit_end
      /\ k.last_received = MaxLsn(l.last_received, lsn)
      /\ k.remote_final = l.remote_final
  BY <1>1, UpdateLastReceivedFields
<1>3. k.last_received <= CommitLsn(pos.tx)
  BY <1>1, <1>2 DEF LoopAccounts, MaxLsn
<1> HIDE DEF k
<1>4. LoopAccounts(k, pos, W)
  BY <1>2, <1>3 DEF LoopAccounts
<1>5. QED
  BY <1>2, <1>4, SendStatusUpdateBalances DEF HandleKeepAlive, k

LEMMA TryCompleteCatchupBalances ==
  ASSUME NEW l \in Loops, NEW p, NEW W, NEW lsn \in Nat, LoopAccounts(l, p, W)
  PROVE  LoopAccounts(TryCompleteCatchup(l, lsn), p, W)
<1>1. SameBooks([RecordExitIntent(l, "Complete") EXCEPT !.sync_done = lsn], l)
  BY DEF RecordExitIntent, SameBooks, Loops
<1>2. QED
  BY <1>1, SameBooksBalance DEF TryCompleteCatchup

\* When the batch in flight has been applied, its acknowledgement may become
\* progress: `progress` is what the store returned for it.
LEMMA HandleFlushResultBalances ==
  ASSUME NEW l \in Loops, NEW p \in Positions, NEW W, NEW progress \in Nat,
         LoopAccounts(l, p, W),
         OwedBelow(progress) \subseteq W \cup Range(l.inflight)
  PROVE  LoopAccounts(HandleFlushResult(l, progress), p, W \cup Range(l.inflight))
<1> DEFINE V == W \cup Range(l.inflight)
<1> DEFINE resumed == [l EXCEPT !.inflight = <<>>, !.inflight_end = 0, !.paused = FALSE]
<1> DEFINE flushed == [resumed EXCEPT !.last_flush = MaxLsn(@, progress)]
<1> DEFINE synced  == IF l.inflight_end = 0 THEN resumed ELSE AfterFlush(resumed, progress)
<1>1. /\ resumed.inflight = <<>> /\ resumed.batch = l.batch
      /\ resumed.last_flush = l.last_flush /\ resumed.reported = l.reported
      /\ resumed.inflight_end = 0 /\ resumed.last_commit_end = l.last_commit_end
      /\ resumed.last_received = l.last_received /\ resumed.remote_final = l.remote_final
  BY DEF Loops
<1>2. resumed \in Loops
  <2>1. <<>> \in Seq(Event)
    OBVIOUS
  <2>2. QED
    BY <2>1 DEF Loops
<1> HIDE DEF resumed
<1>3. LoopAccounts(resumed, p, V)
  BY <1>1, OwedBelowZero DEF LoopAccounts
<1>4. /\ flushed \in Loops
      /\ flushed.last_flush = MaxLsn(l.last_flush, progress)
      /\ flushed.inflight = <<>> /\ flushed.batch = resumed.batch
      /\ flushed.reported = resumed.reported
      /\ flushed.inflight_end = 0 /\ flushed.last_commit_end = resumed.last_commit_end
      /\ flushed.last_received = resumed.last_received
      /\ flushed.remote_final = resumed.remote_final
  BY <1>1, <1>2 DEF Loops, MaxLsn
<1>5. AfterFlush(resumed, progress) = TryCompleteCatchup(flushed, flushed.last_flush)
  BY DEF AfterFlush
<1> HIDE DEF flushed
<1>6. LoopAccounts(flushed, p, V)
  <2>1. OwedBelow(flushed.last_flush) \subseteq V
    <3>1. l.last_flush \in Nat /\ OwedBelow(l.last_flush) \subseteq V
      BY DEF Loops, LoopAccounts
    <3>2. OwedBelow(progress) \subseteq V
      OBVIOUS
    <3> HIDE DEF V
    <3>3. OwedBelow(MaxLsn(l.last_flush, progress)) \subseteq V
      BY <3>1, <3>2, OwedBelowMax
    <3>4. QED
      BY <1>4, <3>3
  <2>2. QED
    BY <1>1, <1>3, <1>4, <2>1 DEF LoopAccounts
<1>7. flushed.last_flush \in Nat
  BY <1>4 DEF Loops
<1>8. LoopAccounts(synced, p, V)
  BY <1>3, <1>4, <1>5, <1>6, <1>7, TryCompleteCatchupBalances
<1>9. synced \in Loops
  BY <1>2, AfterFlushType
<1>10. HandleFlushResult(l, progress) \in {synced, FlushBatch(synced)}
  BY DEF HandleFlushResult, resumed
<1> HIDE DEF synced, V
<1>11. LoopAccounts(FlushBatch(synced), p, V)
  BY <1>8, <1>9, FlushBatchBalances
<1>12. QED
  BY <1>8, <1>10, <1>11 DEF V

LEMMA HandleShutdownSignalBalances ==
  ASSUME NEW l \in Loops, NEW p \in Positions, NEW W, LoopAccounts(l, p, W)
  PROVE  LoopAccounts(HandleShutdownSignal(l), p, W)
<1> DEFINE asked == RecordExitIntent(l, "Pause")
<1>1. asked \in Loops
  BY RecordExitIntentType DEF Intents
<1>2. SameBooks(asked, l)
  BY DEF RecordExitIntent, SameBooks, Loops
<1>3. HandleShutdownSignal(l) \in {[asked EXCEPT !.draining = TRUE], SendStatusUpdate(asked)}
  BY DEF HandleShutdownSignal
<1> HIDE DEF asked
<1>4. SameBooks([asked EXCEPT !.draining = TRUE], asked)
  BY <1>1 DEF SameBooks, Loops
<1>5. LoopAccounts(asked, p, W)
  BY <1>2, SameBooksBalance
<1>6. LoopAccounts([asked EXCEPT !.draining = TRUE], p, W)
  BY <1>4, <1>5, SameBooksBalance
<1>7. LoopAccounts(SendStatusUpdate(asked), p, W)
  BY <1>1, <1>5, SendStatusUpdateBalances
<1>8. QED
  BY <1>3, <1>6, <1>7

LEMMA EndIterationBalances ==
  ASSUME NEW l \in Loops, NEW p \in Positions, NEW W, LoopAccounts(l, p, W)
  PROVE  LoopAccounts(EndIteration(l), p, W)
<1>1. /\ ProcessSyncingTablesWhenIdle(l) \in Loops
      /\ LoopAccounts(ProcessSyncingTablesWhenIdle(l), p, W)
  <2>1. EffectiveFlushLsn(l) \in Nat
    BY DEF EffectiveFlushLsn, Loops
  <2>2. QED
    BY <2>1, TryCompleteCatchupType, TryCompleteCatchupBalances
       DEF ProcessSyncingTablesWhenIdle
<1>2. ASSUME NEW k \in Loops, LoopAccounts(k, p, W)
      PROVE  LoopAccounts(TryFinish(k), p, W)
  <2> DEFINE s == SendStatusUpdate(k)
  <2>1. s \in Loops /\ LoopAccounts(s, p, W)
    BY <1>2, SendStatusUpdateType, SendStatusUpdateBalances
  <2>2. TryFinish(k) \in {k, [s EXCEPT !.draining = FALSE, !.status = ExitStatus(k)],
                             [k EXCEPT !.status = ExitStatus(k)]}
    BY DEF TryFinish
  <2> HIDE DEF s
  <2>3. SameBooks([s EXCEPT !.draining = FALSE, !.status = ExitStatus(k)], s)
    BY <2>1 DEF SameBooks, Loops
  <2>4. SameBooks([k EXCEPT !.status = ExitStatus(k)], k)
    BY DEF SameBooks, Loops
  <2>5. QED
    BY <1>2, <2>1, <2>2, <2>3, <2>4, SameBooksBalance
<1>3. QED
  BY <1>1, <1>2 DEF EndIteration

\* A new loop may start wherever everything that it leaves out is applied.
LEMMA NewLoopBalances ==
  ASSUME NEW start \in Nat, NEW W, OwedBelow(start) \subseteq W
  PROVE  /\ EndIteration(NewLoop(start)) \in Loops
         /\ LoopAccounts(EndIteration(NewLoop(start)), StartOf(start), W)
<1> DEFINE l == NewLoop(start)
<1>1. l \in Loops
  BY NewLoopType
<1>2. /\ l.inflight = <<>> /\ l.batch = <<>> /\ l.last_flush = start /\ l.reported = 0
      /\ l.inflight_end = 0 /\ l.last_commit_end = 0 /\ l.last_received = start
      /\ l.remote_final = 0
  BY DEF NewLoop
<1> HIDE DEF l
<1>3. OwedBelow(0) \subseteq W
  BY OwedBelowZero
<1>4. /\ StartOf(start) \in Positions /\ OwedBefore(StartOf(start)) \subseteq W
      /\ start <= CommitLsn(StartOf(start).tx) /\ StartOf(start).step = 0
      /\ 0 <= EndLsn(StartOf(start).tx - 1)
  <2>1. StartOf(start) \in Positions
    BY StartOfOwes
  <2>2. 0 <= EndLsn(StartOf(start).tx - 1)
    BY <2>1 DEF Positions, EndLsn
  <2>3. QED
    BY <2>1, <2>2, StartOfOwes DEF StartOf
<1>5. LoopAccounts(l, StartOf(start), W)
  BY <1>2, <1>3, <1>4 DEF LoopAccounts
<1>6. QED
  BY <1>1, <1>4, <1>5, EndIterationType, EndIterationBalances DEF l

-----------------------------------------------------------------------------
(* The invariant.                                                           *)

LEMMA SeqOperations ==
  ASSUME NEW S
  PROVE  /\ <<>> \in Seq(S)
         /\ \A s \in Seq(S) : \A e \in S : Append(s, e) \in Seq(S)
         /\ \A s \in Seq(S) : s # <<>> => Head(s) \in S /\ Tail(s) \in Seq(S)
OBVIOUS

Inv == TypeOK /\ AccountsBalance

LEMMA InitBalances == Init => Inv
<1> SUFFICES ASSUME Init PROVE Inv
  OBVIOUS
<1>1. written = <<>> /\ Delivered = {}
  BY DEF Init, Delivered, Range
<1>2. OwedBelow(StartLsn) = {}
  <2>1. ASSUME NEW e \in Owed
        PROVE  ~(CommitLsn(e.tx) < StartLsn)
    BY ConstantsAssumption, OwedIsEvent, EventFields DEF CommitLsn
  <2>2. QED
    BY <2>1 DEF OwedBelow
<1>3. StartLsn \in Nat
  BY ConstantsAssumption
<1>4. loop \in Loops /\ LoopAccounts(loop, pos, Delivered)
  BY <1>1, <1>2, <1>3, NewLoopBalances DEF Init
<1>5. pos \in Positions
  BY <1>3, StartOfOwes DEF Init
<1>6. TypeOK
  <2>1. <<>> \in Seq(Event) /\ <<>> \in Seq(Seq(Event))
    BY SeqOperations
  <2>2. /\ confirmed = StartLsn /\ durable = 0 /\ written = <<>> /\ orphans = <<>>
        /\ shutdown = FALSE /\ failures = 0
    BY DEF Init
  <2>3. failures \in 0..MaxFailures
    BY <2>2, ConstantsAssumption
  <2>4. written \in Seq(Event) /\ orphans \in Seq(Seq(Event))
    BY <2>1, <2>2
  <2>5. confirmed \in Nat /\ durable \in Nat /\ shutdown \in BOOLEAN
    BY <1>3, <2>2
  <2>6. QED
    BY <1>4, <1>5, <2>3, <2>4, <2>5 DEF TypeOK
<1>7. AccountsBalance
  BY <1>1, <1>2, <1>4, OwedBelowZero DEF Init, AccountsBalance
<1>8. QED
  BY <1>6, <1>7 DEF Inv

LEMMA NextBalances == Inv /\ [Next]_vars => Inv'
<1> SUFFICES ASSUME Inv, [Next]_vars PROVE Inv'
  OBVIOUS
<1>1. /\ pos \in Positions /\ confirmed \in Nat /\ durable \in Nat /\ loop \in Loops
      /\ written \in Seq(Event) /\ orphans \in Seq(Seq(Event)) /\ shutdown \in BOOLEAN
      /\ failures \in 0..MaxFailures
      /\ LoopAccounts(loop, pos, Delivered)
      /\ OwedBelow(durable) \subseteq Delivered
      /\ OwedBelow(confirmed) \subseteq Delivered
  BY DEF Inv, TypeOK, AccountsBalance
<1>2. pos.tx \in Tx => pos \in Event
  BY <1>1 DEF Positions, Event
<1>3. ASSUME StreamUnchanged,
             loop' \in Loops, pos' \in Positions, LoopAccounts(loop', pos', Delivered)
      PROVE  Inv'
  <2>1. Delivered' = Delivered
    BY <1>3 DEF StreamUnchanged, Delivered
  <2>2. TypeOK'
    BY <1>1, <1>3 DEF StreamUnchanged, TypeOK
  <2>3. AccountsBalance'
    BY <1>1, <1>3, <2>1 DEF StreamUnchanged, AccountsBalance
  <2>4. QED
    BY <2>2, <2>3 DEF Inv
<1>4. \A budget \in 1..MaxBatch : budget \in Nat
  BY ConstantsAssumption
<1>5. CASE ReceiveBegin
  <2>1. /\ pos \in Event /\ pos.step = 0 /\ pos' = NextPos(pos) /\ StreamUnchanged
    BY <1>2, <1>5 DEF ReceiveBegin, Receiving
  <2>2. PICK budget \in 1..MaxBatch : loop' = EndIteration(HandleBegin(loop, budget))
    BY <1>5 DEF ReceiveBegin
  <2>3. HandleBegin(loop, budget) \in Loops
    BY <1>1, <1>4, <2>1, HandleBeginType
  <2>4. pos' \in Positions
    BY <2>1, NextPosOwes
  <2>5. LoopAccounts(HandleBegin(loop, budget), pos', Delivered)
    BY <1>1, <1>4, <2>1, HandleBeginBalances
  <2>6. QED
    BY <1>3, <2>1, <2>2, <2>3, <2>4, <2>5, EndIterationType, EndIterationBalances
<1>6. CASE ReceiveChange
  <2>1. /\ pos \in Event /\ pos.step \in 1..Size[pos.tx]
        /\ pos' = NextPos(pos) /\ StreamUnchanged
    BY <1>2, <1>6 DEF ReceiveChange, Receiving
  <2>2. PICK budget \in 1..MaxBatch : loop' = EndIteration(HandleChange(loop, budget))
    BY <1>6 DEF ReceiveChange
  <2>3. HandleChange(loop, budget) \in Loops
    BY <1>1, <1>4, <2>1, HandleChangeType
  <2>4. pos' \in Positions
    BY <2>1, NextPosOwes
  <2>5. LoopAccounts(HandleChange(loop, budget), pos', Delivered)
    BY <1>1, <1>4, <2>1, HandleChangeBalances
  <2>6. QED
    BY <1>3, <2>1, <2>2, <2>3, <2>4, <2>5, EndIterationType, EndIterationBalances
<1>7. CASE ReceiveCommit
  <2>1. /\ pos \in Event /\ pos.step = LastStep(pos.tx)
        /\ pos' = NextPos(pos) /\ StreamUnchanged
    BY <1>2, <1>7 DEF ReceiveCommit, Receiving
  <2>2. PICK budget \in 1..MaxBatch : loop' = EndIteration(HandleCommit(loop, budget))
    BY <1>7 DEF ReceiveCommit
  <2>3. HandleCommit(loop, budget) \in Loops
    BY <1>1, <1>4, <2>1, HandleCommitType
  <2>4. pos' \in Positions
    BY <2>1, NextPosOwes
  <2>5. LoopAccounts(HandleCommit(loop, budget), pos', Delivered)
    BY <1>1, <1>4, <2>1, HandleCommitBalances
  <2>6. QED
    BY <1>3, <2>1, <2>2, <2>3, <2>4, <2>5, EndIterationType, EndIterationBalances
<1>8. CASE ReceiveKeepAlive
  <2>1. pos' = pos /\ StreamUnchanged
    BY <1>8 DEF ReceiveKeepAlive
  <2>2. PICK lsn \in KeepAliveLsns : loop' = EndIteration(HandleKeepAlive(loop, lsn))
    BY <1>8 DEF ReceiveKeepAlive
  <2>3. lsn \in Nat
    BY <1>1 DEF Positions, KeepAliveLsns, EndLsn, CommitLsn
  <2>4. HandleKeepAlive(loop, lsn) \in Loops
    BY <1>1, <2>3, HandleKeepAliveType
  <2>5. LoopAccounts(HandleKeepAlive(loop, lsn), pos, Delivered)
    BY <1>1, HandleKeepAliveBalances
  <2>6. QED
    BY <1>1, <1>3, <2>1, <2>2, <2>4, <2>5, EndIterationType, EndIterationBalances
<1>9. CASE SkipEmptyTransaction
  <2>1. /\ pos \in Event /\ pos.step = 0 /\ Size[pos.tx] = 0
        /\ pos' = [tx |-> pos.tx + 1, step |-> 0] /\ loop' = loop /\ StreamUnchanged
    BY <1>1, <1>2, <1>9 DEF SkipEmptyTransaction, Event
  <2>2. pos.tx \in Nat /\ pos.tx >= 1 /\ pos'.tx = pos.tx + 1 /\ pos'.step = 0
    BY <2>1, EventFields
  <2>3. pos' \in Positions
    <3>1. pos.tx + 1 \in Tx => LastStep(pos.tx + 1) >= 0
      BY ConstantsAssumption DEF Tx, LastStep
    <3>2. QED
      BY <2>1, <2>2, <3>1 DEF Positions
  <2>4. OwedBefore(pos') \subseteq OwedBefore(pos)
    <3>1. SUFFICES ASSUME NEW e \in Owed, Precedes(e, pos')
                   PROVE  Precedes(e, pos)
      BY DEF OwedBefore
    <3>2. e.tx \in Nat /\ e.step \in Nat /\ e.tx # pos.tx
      BY <2>1, OwedIsEvent, EventFields
    <3>3. QED
      BY <2>2, <3>1, <3>2 DEF Precedes
  <2>5. /\ loop.last_commit_end <= EndLsn(pos'.tx - 1)
        /\ loop.last_received <= CommitLsn(pos'.tx)
    <3>1. loop.last_commit_end \in Nat /\ loop.last_received \in Nat
      BY <1>1 DEF Loops
    <3>2. loop.last_commit_end <= EndLsn(pos.tx - 1) /\ loop.last_received <= CommitLsn(pos.tx)
      BY <1>1 DEF LoopAccounts
    <3>3. QED
      BY <2>2, <3>1, <3>2 DEF EndLsn, CommitLsn
  <2>6. LoopAccounts(loop, pos', Delivered)
    BY <1>1, <2>2, <2>4, <2>5 DEF LoopAccounts
  <2>7. QED
    BY <1>1, <1>3, <2>1, <2>3, <2>6
<1>10. CASE FlushDeadline
  <2>1. pos' = pos /\ StreamUnchanged /\ loop' = EndIteration(FlushBatch(loop))
    BY <1>10 DEF FlushDeadline
  <2>2. FlushBatch(loop) \in Loops /\ LoopAccounts(FlushBatch(loop), pos, Delivered)
    BY <1>1, FlushBatchType, FlushBatchBalances
  <2>3. QED
    BY <1>1, <1>3, <2>1, <2>2, EndIterationType, EndIterationBalances
<1>11. CASE KeepAliveDeadline
  <2>1. pos' = pos /\ StreamUnchanged /\ loop' = EndIteration(SendStatusUpdate(loop))
    BY <1>11 DEF KeepAliveDeadline
  <2>2. /\ SendStatusUpdate(loop) \in Loops
        /\ LoopAccounts(SendStatusUpdate(loop), pos, Delivered)
    BY <1>1, SendStatusUpdateType, SendStatusUpdateBalances
  <2>3. QED
    BY <1>1, <1>3, <2>1, <2>2, EndIterationType, EndIterationBalances
<1>12. CASE ShutdownSignal
  <2>1. pos' = pos /\ StreamUnchanged /\ loop' = EndIteration(HandleShutdownSignal(loop))
    BY <1>12 DEF ShutdownSignal
  <2>2. /\ HandleShutdownSignal(loop) \in Loops
        /\ LoopAccounts(HandleShutdownSignal(loop), pos, Delivered)
    BY <1>1, HandleShutdownSignalType, HandleShutdownSignalBalances
  <2>3. QED
    BY <1>1, <1>3, <2>1, <2>2, EndIterationType, EndIterationBalances
<1>13. CASE FlushResult
  <2>1. /\ written' = written \o loop.inflight
        /\ durable' = MaxLsn(durable, loop.inflight_end)
        /\ loop' = EndIteration(HandleFlushResult(loop, durable'))
        /\ UNCHANGED <<pos, confirmed, orphans, shutdown, failures>>
    BY <1>13 DEF FlushResult
  <2>2. loop.inflight \in Seq(Event) /\ loop.inflight_end \in Nat
    BY <1>1 DEF Loops
  <2>3. written' \in Seq(Event) /\ Delivered' = Delivered \cup Range(loop.inflight)
    BY <1>1, <2>1, <2>2, RangeConcatenation DEF Delivered
  <2>4. durable' \in Nat /\ OwedBelow(durable') \subseteq Delivered'
    <3>1. /\ OwedBelow(durable) \subseteq Delivered'
          /\ OwedBelow(loop.inflight_end) \subseteq Delivered'
      BY <1>1, <2>3 DEF LoopAccounts
    <3>2. QED
      BY <1>1, <2>1, <2>2, <3>1, OwedBelowMax DEF MaxLsn
  <2>5. /\ HandleFlushResult(loop, durable') \in Loops
        /\ LoopAccounts(HandleFlushResult(loop, durable'), pos, Delivered')
    BY <1>1, <2>3, <2>4, HandleFlushResultType, HandleFlushResultBalances
  <2>6. loop' \in Loops /\ LoopAccounts(loop', pos, Delivered')
    BY <1>1, <2>1, <2>5, EndIterationType, EndIterationBalances
  <2>7. TypeOK'
    BY <1>1, <2>1, <2>3, <2>4, <2>6 DEF TypeOK
  <2>8. AccountsBalance'
    BY <1>1, <2>1, <2>3, <2>4, <2>6 DEF AccountsBalance
  <2>9. QED
    BY <2>7, <2>8 DEF Inv
<1>14. CASE RequestShutdown
  <2>1. shutdown' = TRUE
        /\ UNCHANGED <<pos, confirmed, durable, loop, written, orphans, failures>>
    BY <1>14 DEF RequestShutdown
  <2>2. TypeOK' /\ AccountsBalance'
    BY <1>1, <2>1 DEF TypeOK, AccountsBalance, Delivered
  <2>3. QED
    BY <2>2 DEF Inv
<1>15. CASE ConfirmFlush
  <2>1. confirmed' = loop.reported
        /\ UNCHANGED <<pos, durable, loop, written, orphans, shutdown, failures>>
    BY <1>15 DEF ConfirmFlush
  <2>2. loop.reported \in Nat /\ OwedBelow(loop.reported) \subseteq Delivered
    BY <1>1 DEF Loops, LoopAccounts
  <2>3. TypeOK' /\ AccountsBalance'
    BY <1>1, <2>1, <2>2 DEF TypeOK, AccountsBalance, Delivered
  <2>4. QED
    BY <2>3 DEF Inv
<1>16. CASE LoopFails
  <2>1. /\ failures < MaxFailures
        /\ loop' = [loop EXCEPT !.status = "failed"]
        /\ orphans' \in {orphans, Append(orphans, loop.inflight)}
        /\ failures' = failures + 1
        /\ UNCHANGED <<pos, confirmed, durable, written, shutdown>>
    BY <1>16 DEF LoopFails
  <2>2. loop' \in Loops /\ SameBooks(loop', loop) /\ loop.inflight \in Seq(Event)
    BY <1>1, <2>1 DEF Loops, SameBooks
  <2>3. orphans' \in Seq(Seq(Event))
    BY <1>1, <2>1, <2>2, SeqOperations
  <2>4. failures' \in 0..MaxFailures
    BY <1>1, <2>1, ConstantsAssumption
  <2>5. LoopAccounts(loop', pos, Delivered)
    BY <1>1, <2>2, SameBooksBalance
  <2>6. TypeOK' /\ AccountsBalance'
    BY <1>1, <2>1, <2>2, <2>3, <2>4, <2>5 DEF TypeOK, AccountsBalance, Delivered
  <2>7. QED
    BY <2>6 DEF Inv
<1>17. CASE ApplyWorkerRestarts
  <2> DEFINE start == MaxLsn(durable, confirmed)
  <2>1. /\ loop' = EndIteration(NewLoop(start)) /\ pos' = StartOf(start)
        /\ UNCHANGED <<confirmed, durable, written, orphans, shutdown, failures>>
    BY <1>17 DEF ApplyWorkerRestarts
  <2>2. start \in Nat /\ OwedBelow(start) \subseteq Delivered
    BY <1>1, OwedBelowMax DEF MaxLsn
  <2> HIDE DEF start
  <2>3. /\ loop' \in Loops /\ LoopAccounts(loop', pos', Delivered)
        /\ pos' \in Positions /\ StreamUnchanged
    BY <2>1, <2>2, NewLoopBalances, StartOfOwes DEF StreamUnchanged
  <2>4. QED
    BY <1>3, <2>3
<1>18. CASE OrphanResolved
  <2>1. /\ orphans # <<>> /\ orphans' = Tail(orphans)
        /\ written' \in {written, written \o Head(orphans)}
        /\ UNCHANGED <<pos, confirmed, durable, loop, shutdown, failures>>
    BY <1>18 DEF OrphanResolved
  <2>2. Head(orphans) \in Seq(Event) /\ orphans' \in Seq(Seq(Event))
    BY <1>1, <2>1, SeqOperations
  <2>3. written' \in Seq(Event) /\ Delivered \subseteq Delivered'
    <3>1. /\ written \o Head(orphans) \in Seq(Event)
          /\ Range(written \o Head(orphans)) = Range(written) \cup Range(Head(orphans))
      BY <1>1, <2>2, RangeConcatenation
    <3>2. Delivered \subseteq Range(written')
      BY <2>1, <3>1 DEF Delivered
    <3>3. QED
      BY <1>1, <2>1, <3>1, <3>2 DEF Delivered
  <2>4. LoopAccounts(loop', pos', Delivered')
    BY <1>1, <2>1, <2>3 DEF LoopAccounts
  <2>5. TypeOK' /\ AccountsBalance'
    BY <1>1, <2>1, <2>2, <2>3, <2>4 DEF TypeOK, AccountsBalance
  <2>6. QED
    BY <2>5 DEF Inv
<1>19. CASE Terminated \/ UNCHANGED vars
  <2>1. UNCHANGED vars
    BY <1>19 DEF Terminated
  <2>2. QED
    BY <1>1, <2>1 DEF vars, Inv, TypeOK, AccountsBalance, Delivered
<1>20. QED
  BY <1>5, <1>6, <1>7, <1>8, <1>9, <1>10, <1>11, <1>12, <1>13, <1>14, <1>15, <1>16,
     <1>17, <1>18, <1>19 DEF Next

\* The state of the loop and of its surroundings is always well typed.
THEOREM TypeCorrect == Spec => []TypeOK
<1>1. Inv => TypeOK
  BY DEF Inv
<1>2. QED
  BY <1>1, InitBalances, NextBalances, PTL DEF Spec

\* Everything the loop has read is applied, in flight or in its batch, and every
\* position it keeps, reports or stores stands for events that are.
THEOREM AccountsAlwaysBalance == Spec => []AccountsBalance
<1>1. Inv => AccountsBalance
  BY DEF Inv
<1>2. QED
  BY <1>1, InitBalances, NextBalances, PTL DEF Spec

\* No change is lost: whatever position the apply worker restarts from, the
\* transactions it skips have been applied by the destination.
THEOREM NothingSkippedIsLost == Spec => []SkippedIsDelivered
<1>1. Inv => SkippedIsDelivered
  <2>1. SUFFICES ASSUME Inv, NEW e \in Owed,
                        CommitLsn(e.tx) < MaxLsn(durable, MaxLsn(confirmed, loop.reported))
                 PROVE  e \in Delivered
    BY DEF SkippedIsDelivered
  <2>2. durable \in Nat /\ confirmed \in Nat /\ loop.reported \in Nat
    BY <2>1 DEF Inv, TypeOK, Loops
  <2>3. /\ OwedBelow(durable) \subseteq Delivered /\ OwedBelow(confirmed) \subseteq Delivered
        /\ OwedBelow(loop.reported) \subseteq Delivered
    BY <2>1 DEF Inv, AccountsBalance, LoopAccounts
  <2>4. MaxLsn(confirmed, loop.reported) \in Nat
    BY <2>2 DEF MaxLsn
  <2>5. OwedBelow(MaxLsn(durable, MaxLsn(confirmed, loop.reported))) \subseteq Delivered
    BY <2>2, <2>3, <2>4, OwedBelowMax
  <2>6. QED
    BY <2>1, <2>5 DEF OwedBelow
<1>2. QED
  BY <1>1, InitBalances, NextBalances, PTL DEF Spec
=============================================================================

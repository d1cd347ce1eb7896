--------------------------- MODULE DuckDbBlocking ---------------------------
(***************************************************************************)
(* How the DuckLake destination runs a DuckDB operation                    *)
(* (run_duckdb_blocking_with_timeout of ducklake/client.rs).  A caller     *)
(* takes a permit, a closure on a blocking thread checks a connection out  *)
(* of the pool and runs the operation, and a watchdog task interrupts the  *)
(* connection at the deadline.  The closure decides after the operation    *)
(* whether the connection may go back to the pool; the caller then joins   *)
(* the watchdog.  A native call that does not return after an interrupt    *)
(* and a grace period aborts the process.                                  *)
(*                                                                         *)
(* The three threads of one operation interleave freely.  The pool of the  *)
(* model has one connection and one permit, which is where reuse happens.  *)
(* An identical watchdog guards the maintenance job (ducklake/runner.rs).  *)
(***************************************************************************)
EXTENDS Naturals, FiniteSets

CONSTANTS
  Ops,        \* the operations, each called once
  CanHang     \* the operations whose query returns only when it is interrupted, or never

VARIABLES
  caller,     \* per operation: "idle", "slot", "task", "ok", "error"
  closure,    \* per operation, the blocking closure: "none", "checkout", "publish", "query", "finish", "check", "ok", "error"
  watchdog,   \* per operation: "none", "waiting", "elapsed", "late", "armed", "due", "firing", "ended"
  deadline,   \* per operation: "ahead", "passed", "grace_over"
  handle,     \* per operation, whether its interrupt handle is published
  signal,     \* per operation, whether done was sent or the watchdog's senders were dropped
  timedOut,   \* per operation, the flag that its watchdog sets
  failed,     \* per operation, whether its query returned an error
  target,     \* per operation, the connection its interrupt handle is for
  permit,     \* the operations whose closure holds a permit
  pooled,     \* the connection of the pool; a broken one is replaced by the next
  user,       \* the operation that has checked it out, or {}
  interrupted,\* the operations whose query was interrupted
  aborted     \* whether the process aborted

blockingVars == <<caller, closure, watchdog, deadline, handle, signal, timedOut, failed,
                  target, permit, pooled, user, interrupted, aborted>>

Init ==
  /\ caller = [o \in Ops |-> "idle"]
  /\ closure = [o \in Ops |-> "none"]
  /\ watchdog = [o \in Ops |-> "none"]
  /\ deadline = [o \in Ops |-> "ahead"]
  /\ handle = [o \in Ops |-> FALSE]
  /\ signal = [o \in Ops |-> FALSE]
  /\ timedOut = [o \in Ops |-> FALSE]
  /\ failed = [o \in Ops |-> FALSE]
  /\ target = [o \in Ops |-> 0]
  /\ permit = {}
  /\ pooled = 1
  /\ user = {}
  /\ interrupted = {}
  /\ aborted = FALSE

-----------------------------------------------------------------------------
(* The caller.                                                             *)

Call(o) ==
  /\ caller[o] = "idle"
  /\ caller' = [caller EXCEPT ![o] = "slot"]
  /\ UNCHANGED <<closure, watchdog, deadline, handle, signal, timedOut, failed, target,
                 permit, pooled, user, interrupted, aborted>>

\* The permit is waited for until the deadline; with it the watchdog and the
\* closure start.
AcquireSlot(o) ==
  /\ caller[o] = "slot"
  /\ permit = {}
  /\ permit' = {o}
  /\ caller' = [caller EXCEPT ![o] = "task"]
  /\ closure' = [closure EXCEPT ![o] = "checkout"]
  /\ watchdog' = [watchdog EXCEPT ![o] = "waiting"]
  /\ UNCHANGED <<deadline, handle, signal, timedOut, failed, target, pooled, user, interrupted, aborted>>

SlotTimeout(o) ==
  /\ caller[o] = "slot"
  /\ deadline[o] # "ahead"
  /\ caller' = [caller EXCEPT ![o] = "error"]
  /\ UNCHANGED <<closure, watchdog, deadline, handle, signal, timedOut, failed, target,
                 permit, pooled, user, interrupted, aborted>>

\* The caller waits for the closure, then for the watchdog.
Join(o) ==
  /\ caller[o] = "task"
  /\ closure[o] \in {"ok", "error"}
  /\ watchdog[o] = "ended"
  /\ caller' = [caller EXCEPT ![o] = closure[o]]
  /\ UNCHANGED <<closure, watchdog, deadline, handle, signal, timedOut, failed, target,
                 permit, pooled, user, interrupted, aborted>>

AbortStuckOperation(o) ==
  /\ caller[o] = "task"
  /\ closure[o] \notin {"ok", "error"}
  /\ deadline[o] = "grace_over"
  /\ aborted' = TRUE
  /\ UNCHANGED <<caller, closure, watchdog, deadline, handle, signal, timedOut, failed,
                 target, permit, pooled, user, interrupted>>

-----------------------------------------------------------------------------
(* The closure on the blocking thread.                                     *)

\* The closure ends: its watchdog handle, its connection and its permit are
\* dropped.  A broken connection is evicted from the pool.
EndClosure(o, outcome, broken) ==
  /\ closure' = [closure EXCEPT ![o] = outcome]
  /\ signal' = [signal EXCEPT ![o] = TRUE]
  /\ pooled' = IF o \in user /\ broken THEN pooled + 1 ELSE pooled
  /\ user' = user \ {o}
  /\ permit' = permit \ {o}

CheckoutTimeout(o) ==
  /\ closure[o] = "checkout"
  /\ deadline[o] # "ahead"
  /\ EndClosure(o, "error", FALSE)
  /\ UNCHANGED <<caller, watchdog, deadline, handle, timedOut, failed, target, interrupted, aborted>>

Checkout(o) ==
  /\ closure[o] = "checkout"
  /\ deadline[o] = "ahead"
  /\ user = {}
  /\ user' = {o}
  /\ target' = [target EXCEPT ![o] = pooled]
  /\ closure' = [closure EXCEPT ![o] = "publish"]
  /\ UNCHANGED <<caller, watchdog, deadline, handle, signal, timedOut, failed, permit, pooled,
                 interrupted, aborted>>

\* The time left is read once more, the handle is published, and a deadline
\* that the watchdog has seen by then ends the operation before its query.
PublishHandle(o) ==
  /\ closure[o] = "publish"
  /\ handle' = [handle EXCEPT ![o] = deadline[o] = "ahead" \/ @]
  /\ IF deadline[o] # "ahead" \/ timedOut[o]
     THEN EndClosure(o, "error", TRUE)
     ELSE /\ closure' = [closure EXCEPT ![o] = "query"]
          /\ UNCHANGED <<signal, pooled, user, permit>>
  /\ UNCHANGED <<caller, watchdog, deadline, timedOut, failed, target, interrupted, aborted>>

\* The query returns, with an error when it was interrupted before its end.
QueryReturns(o) ==
  /\ closure[o] = "query"
  /\ o \in CanHang => o \in interrupted
  /\ \E e \in BOOLEAN :
       /\ failed' = [failed EXCEPT ![o] = e]
       /\ closure' = [closure EXCEPT ![o] = "finish"]
  /\ UNCHANGED <<caller, watchdog, deadline, handle, signal, timedOut, target, permit, pooled,
                 user, interrupted, aborted>>

Finish(o) ==
  /\ closure[o] = "finish"
  /\ signal' = [signal EXCEPT ![o] = TRUE]
  /\ closure' = [closure EXCEPT ![o] = "check"]
  /\ UNCHANGED <<caller, watchdog, deadline, handle, timedOut, failed, target, permit, pooled,
                 user, interrupted, aborted>>

\* A flag set by now makes the result an error, even of a query that committed.
CheckTimedOut(o) ==
  /\ closure[o] = "check"
  /\ LET bad == timedOut[o] \/ failed[o]
     IN EndClosure(o, IF bad THEN "error" ELSE "ok", bad)
  /\ UNCHANGED <<caller, watchdog, deadline, handle, timedOut, failed, target, interrupted, aborted>>

-----------------------------------------------------------------------------
(* The watchdog task.  Its selects prefer done, then the handle.           *)

\* Mutant: the wait for a late handle does not listen to done.
WatchdogDoneNotLate(o) ==
  /\ signal[o]
  /\ watchdog[o] \in {"waiting", "armed"}
  /\ watchdog' = [watchdog EXCEPT ![o] = "ended"]
  /\ UNCHANGED <<caller, closure, deadline, handle, signal, timedOut, failed, target, permit,
                 pooled, user, interrupted, aborted>>

WatchdogDone(o) ==
  /\ signal[o]
  /\ watchdog[o] \in {"waiting", "late", "armed"}
  /\ watchdog' = [watchdog EXCEPT ![o] = "ended"]
  /\ UNCHANGED <<caller, closure, deadline, handle, signal, timedOut, failed, target, permit,
                 pooled, user, interrupted, aborted>>

WatchdogHandle(o) ==
  /\ ~signal[o]
  /\ handle[o]
  /\ \/ watchdog[o] = "waiting" /\ watchdog' = [watchdog EXCEPT ![o] = "armed"]
     \/ watchdog[o] = "late" /\ watchdog' = [watchdog EXCEPT ![o] = "firing"]
  /\ UNCHANGED <<caller, closure, deadline, handle, signal, timedOut, failed, target, permit,
                 pooled, user, interrupted, aborted>>

\* The sleep is over and nothing else was ready: the branch is taken before the
\* flag is set.
WatchdogDeadline(o) ==
  /\ ~signal[o]
  /\ deadline[o] # "ahead"
  /\ \/ watchdog[o] = "waiting" /\ ~handle[o] /\ watchdog' = [watchdog EXCEPT ![o] = "elapsed"]
     \/ watchdog[o] = "armed" /\ watchdog' = [watchdog EXCEPT ![o] = "due"]
  /\ UNCHANGED <<caller, closure, deadline, handle, signal, timedOut, failed, target, permit,
                 pooled, user, interrupted, aborted>>

SetTimedOut(o) ==
  /\ \/ watchdog[o] = "elapsed" /\ watchdog' = [watchdog EXCEPT ![o] = "late"]
     \/ watchdog[o] = "due" /\ watchdog' = [watchdog EXCEPT ![o] = "firing"]
  /\ timedOut' = [timedOut EXCEPT ![o] = TRUE]
  /\ UNCHANGED <<caller, closure, deadline, handle, signal, failed, target, permit, pooled,
                 user, interrupted, aborted>>

\* The interrupt reaches whatever runs on the connection now.
Interrupt(o) ==
  /\ watchdog[o] = "firing"
  /\ watchdog' = [watchdog EXCEPT ![o] = "ended"]
  /\ interrupted' = interrupted \cup {u \in user : target[u] = target[o] /\ closure[u] = "query"}
  /\ UNCHANGED <<caller, closure, deadline, handle, signal, timedOut, failed, target, permit,
                 pooled, user, aborted>>

-----------------------------------------------------------------------------
PassDeadline(o) ==
  /\ caller[o] \in {"slot", "task"}
  /\ \/ deadline[o] = "ahead" /\ deadline' = [deadline EXCEPT ![o] = "passed"]
     \/ deadline[o] = "passed" /\ deadline' = [deadline EXCEPT ![o] = "grace_over"]
  /\ UNCHANGED <<caller, closure, watchdog, handle, signal, timedOut, failed, target, permit,
                 pooled, user, interrupted, aborted>>

OpStep(o) ==
  \/ AcquireSlot(o) \/ SlotTimeout(o) \/ Join(o) \/ AbortStuckOperation(o)
  \/ CheckoutTimeout(o) \/ Checkout(o) \/ PublishHandle(o) \/ QueryReturns(o)
  \/ Finish(o) \/ CheckTimedOut(o)

WatchdogStep(o) ==
  WatchdogDone(o) \/ WatchdogHandle(o) \/ WatchdogDeadline(o) \/ SetTimedOut(o) \/ Interrupt(o)

Next ==
  /\ ~aborted
  /\ \E o \in Ops : Call(o) \/ OpStep(o) \/ WatchdogStep(o) \/ PassDeadline(o)

Spec == Init /\ [][Next]_blockingVars

\* Time passes, ready tasks are polled and blocking threads run.  Nothing makes
\* a query return.
FairPassDeadline(o) == ~aborted /\ PassDeadline(o)
FairOpStep(o) == ~aborted /\ closure[o] # "query" /\ OpStep(o)
FairAbort(o) == ~aborted /\ AbortStuckOperation(o)
FairWatchdogStep(o) == ~aborted /\ WatchdogStep(o)

Fairness ==
  \A o \in Ops :
    /\ WF_blockingVars(FairPassDeadline(o)) /\ WF_blockingVars(FairOpStep(o))
    /\ WF_blockingVars(FairAbort(o)) /\ WF_blockingVars(FairWatchdogStep(o))

FairSpec == Spec /\ Fairness

-----------------------------------------------------------------------------
(* Properties.                                                             *)

Calling(o) == caller[o] \in {"slot", "task"} /\ ~aborted

\* A call ends, with a result or with the process, whatever the query does and
\* however the deadline falls between its steps.
CallsReturn == \A o \in Ops : <>[]~Calling(o)

\* An operation that reports success ran to its end on a connection that no
\* watchdog had condemned.
OkMeansCompleted == \A o \in Ops : caller[o] = "ok" => ~failed[o] /\ target[o] # 0
=============================================================================

------------------------ MODULE DuckLakeMaintenance ------------------------
(***************************************************************************)
(* Maintenance of a DuckLake catalog by a job outside the replicator.      *)
(* Foreground writes hold shared access to the destination's gate          *)
(* (ducklake/core.rs).  A watcher task polls a coordination store, takes   *)
(* the gate exclusively while a maintenance run asks for a pause, reports  *)
(* that the replicator is quiesced, and requests operations that the       *)
(* catalog needs (ducklake/external_maintenance.rs).  The store is a row   *)
(* in Postgres or the status of a Kubernetes resource                      *)
(* (etl-maintenance/coordination).  The controller that turns requests     *)
(* into runs is not part of the repository; its steps here are what the    *)
(* watcher's reads assume of it.                                           *)
(***************************************************************************)
EXTENDS Naturals, Sequences, FiniteSets

CONSTANTS
  Writers,       \* the foreground writes
  KindOf,        \* what each of them does: "events", "copy" or "truncate"
  TableCreated,  \* the writes that find their table in the cache of created tables
  Backends,      \* the stores to choose from: "postgres", "kubernetes"
  Policy,        \* the operations that the policy enables
  MaxRuns,       \* bound on the runs of the controller
  Demands,       \* the sets of {"old_snapshots", "inlined_bytes", "data_files"} that the catalog shows
  MaxFaults,     \* bound on failing store calls
  AbortTasks     \* whether tasks of foreground writes are aborted

VARIABLES
  gate,      \* the gate: its readers, its writer ("pause") and the FIFO queue of the others
  slots,     \* the holder of the table's write slot and of the table creation slot
  step,      \* per writer: the steps of its program that are done
  mutating,  \* the writers whose DuckDB closure runs
  store,     \* the coordination store
  expired,   \* the runs whose pause lease is over
  down,      \* whether the store has become unavailable for good
  held,      \* the pause the watcher holds: its run, and whether quiescence was reported
  watcher,   \* where the watcher's loop is
  seen,      \* the state it loaded
  asked,     \* the operations it is about to request
  daily,     \* the expire-snapshots gate: whether it was initialised and whether it suppresses
  backend,   \* the store in use
  runs, faults  \* counters

maintenanceVars == <<gate, slots, step, mutating, store, expired, down, held, watcher, seen,
                     asked, daily, backend, runs, faults>>
gateVars == <<gate, slots, step, mutating>>
watcherVars == <<held, watcher, seen, asked, daily>>
worldVars == <<expired, down, backend, runs>>

None == {}
Some(x) == {x}

-----------------------------------------------------------------------------
(* Foreground writes.                                                      *)

\* The tables that ensure_table_exists creates take the creation slot, and the
\* gate for the DDL.
EnsureTableExists(w) ==
  IF w \in TableCreated THEN <<>>
  ELSE <<<<"take", "creation">>, <<"take", "gate">>, <<"run", "gate">>, <<"drop", {"gate", "creation"}>>>>

\* Mutant: the flags are not set by the constructor.
EnsureEtlTableLazily ==
  <<<<"take", "gate">>, <<"take", "creation">>, <<"run", "gate">>, <<"drop", {"creation", "gate"}>>>>

\* The constructor has created both ETL tables, so that the flag is set: the gate
\* is held only while the flag is read.
EnsureEtlTable == <<<<"pass", "gate">>>>

Mutate == <<<<"take", "gate">>, <<"run", "gate">>, <<"drop", {"gate", "write"}>>>>

\* The locks of one write, in the order in which the code takes and drops them.
\* Guards that leave scope together are dropped in one step.
Program(w) ==
  CASE KindOf[w] = "events" -> EnsureEtlTable \o EnsureTableExists(w) \o <<<<"take", "write">>>> \o Mutate
    [] KindOf[w] = "copy" -> EnsureTableExists(w) \o EnsureEtlTable \o <<<<"take", "write">>>> \o Mutate
    [] KindOf[w] = "truncate" -> EnsureTableExists(w) \o <<<<"take", "write">>>> \o EnsureEtlTable \o Mutate

Finished(w) == step[w] = Len(Program(w))
NextStep(w) == Program(w)[step[w] + 1]
Advance(w) == step' = [step EXCEPT ![w] = @ + 1]
Queued(x) == \E i \in 1..Len(gate.queue) : gate.queue[i] = x

\* The gate is fair: whoever waits is in one queue, and a waiting pause stops
\* later readers.
JoinQueue(w) ==
  /\ ~Finished(w) /\ NextStep(w) \in {<<"take", "gate">>, <<"pass", "gate">>}
  /\ ~Queued(w)
  /\ gate' = [gate EXCEPT !.queue = Append(@, w)]
  /\ UNCHANGED <<slots, step, mutating, store, watcherVars, worldVars, faults>>

AcquireMutationGuard(w) ==
  /\ gate.queue # <<>> /\ Head(gate.queue) = w
  /\ gate.writer = None
  /\ gate' = [gate EXCEPT !.queue = Tail(@), !.readers = IF NextStep(w)[1] = "pass" THEN @ ELSE @ \cup {w}]
  /\ Advance(w)
  /\ UNCHANGED <<slots, mutating, store, watcherVars, worldVars, faults>>

AcquireSlot(w) ==
  /\ ~Finished(w)
  /\ \E s \in {"write", "creation"} :
       /\ NextStep(w) = <<"take", s>>
       /\ slots[s] = None
       /\ slots' = [slots EXCEPT ![s] = Some(w)]
  /\ Advance(w)
  /\ UNCHANGED <<gate, mutating, store, watcherVars, worldVars, faults>>

\* A DuckDB closure starts, and the task waits for its end.
StartMutation(w) ==
  /\ ~Finished(w) /\ NextStep(w) = <<"run", "gate">>
  /\ w \notin mutating
  /\ mutating' = mutating \cup {w}
  /\ UNCHANGED <<gate, slots, step, store, watcherVars, worldVars, faults>>

EndMutation(w) ==
  /\ w \in mutating
  /\ mutating' = mutating \ {w}
  /\ IF ~Finished(w) /\ NextStep(w) = <<"run", "gate">> THEN Advance(w) ELSE UNCHANGED step
  /\ UNCHANGED <<gate, slots, store, watcherVars, worldVars, faults>>

Release(w) ==
  /\ ~Finished(w)
  /\ NextStep(w)[1] = "drop"
  /\ gate' = [gate EXCEPT !.readers = @ \ {w}]
  /\ slots' = [s \in DOMAIN slots |-> IF s \in NextStep(w)[2] THEN None ELSE slots[s]]
  /\ Advance(w)
  /\ UNCHANGED <<mutating, store, watcherVars, worldVars, faults>>

\* A task that fails or is aborted drops everything that it holds or waits for.
\* The closure of an aborted task keeps running.
EndsEarly(w) ==
  /\ ~Finished(w)
  /\ AbortTasks \/ w \notin mutating
  /\ faults < MaxFaults
  /\ faults' = faults + 1
  /\ gate' = [gate EXCEPT !.readers = @ \ {w}, !.queue = SelectSeq(@, LAMBDA x : x # w)]
  /\ slots' = [s \in DOMAIN slots |-> slots[s] \ {w}]
  /\ step' = [step EXCEPT ![w] = Len(Program(w))]
  /\ UNCHANGED <<mutating, store, watcherVars, worldVars>>

Foreground(w) ==
  \/ JoinQueue(w) \/ AcquireMutationGuard(w) \/ AcquireSlot(w)
  \/ StartMutation(w) \/ EndMutation(w) \/ Release(w)

-----------------------------------------------------------------------------
(* The coordination store.                                                 *)

Operations == {"inline_flush", "merge_adjacent_files", "rewrite_data_files",
               "expire_snapshots", "cleanup_old_files"}
Status(state, run) == [state |-> state, run |-> run]
NoState == [exists |-> FALSE, active |-> None, pause |-> None, request |-> {},
            status |-> Status("Running", None), success |-> FALSE, completed |-> FALSE]
NewState == [NoState EXCEPT !.exists = TRUE]

covers(have, wanted) == wanted \subseteq have
merge(have, wanted) == have \cup wanted

\* A report is an update of the one row, or a patch of the status; without the row
\* the update changes nothing, without the resource the patch fails.
WithStatus(st, s) == IF st.exists THEN [st EXCEPT !.status = s] ELSE st

\* What a store call leaves behind and whether the caller learns of it: it succeeds;
\* it fails; or it times out and has been applied.
Report(s, ok) ==
  \/ /\ ok /\ ~down /\ (backend = "kubernetes" => store.exists)
     /\ store' = WithStatus(store, s) /\ UNCHANGED faults
  \/ /\ ~ok /\ (down \/ (backend = "kubernetes" /\ ~store.exists))
     /\ UNCHANGED <<store, faults>>
  \/ /\ ~ok /\ ~down /\ faults < MaxFaults /\ faults' = faults + 1
     /\ store' \in {store, WithStatus(store, s)}

\* The request of the Postgres store is one transaction on the locked row.
RequestMerged(st, wanted) ==
  IF ~st.exists \/ st.active # None \/ covers(st.request, wanted) THEN st
  ELSE [st EXCEPT !.request = merge(@, wanted)]

\* The Kubernetes store patches every flag of the request.
PatchRequest(st, wanted) ==
  IF st.exists THEN [st EXCEPT !.request = wanted] ELSE st

Created(st, wanted) == st.exists /\ st.active = None /\ ~covers(st.request, wanted)

-----------------------------------------------------------------------------
(* The watcher.                                                            *)

DropPause == gate' = [gate EXCEPT !.writer = None]
Unexpired(pause) == pause \ expired

initialize_from_state_once(st) ==
  IF daily.initialized THEN daily ELSE [initialized |-> TRUE, suppressed |-> st.success]

LoadState ==
  /\ watcher = "load"
  /\ ~down
  /\ store.exists
  /\ seen' = store
  /\ daily' = initialize_from_state_once(store)
  /\ watcher' = "reconcile"
  /\ UNCHANGED <<gateVars, store, held, asked, worldVars, faults>>

\* The row or the resource is gone: the pause is dropped and the status cleared.
LoadMissing ==
  /\ watcher = "load"
  /\ ~down
  /\ ~store.exists
  /\ IF held = None THEN UNCHANGED gate ELSE DropPause
  /\ held' = None
  /\ UNCHANGED <<slots, step, mutating, store, watcher, seen, asked, daily, worldVars, faults>>

\* The load fails or times out: a pause that is over by the local clock is dropped.
LoadFails ==
  /\ watcher = "load"
  /\ IF \E h \in held : h.run \in expired
     THEN /\ DropPause
          /\ held' = None
          /\ down \/ faults < MaxFaults
          /\ \E ok \in BOOLEAN : Report(Status("Running", None), ok)
     ELSE /\ \/ down /\ UNCHANGED faults
             \/ ~down /\ faults < MaxFaults /\ faults' = faults + 1
          /\ UNCHANGED <<gate, held, store>>
  /\ UNCHANGED <<slots, step, mutating, watcher, seen, asked, daily, worldVars>>

\* No pause is asked for any more, or another one is: the pause is dropped.
ReleasePause ==
  /\ watcher = "reconcile"
  /\ \E h \in held : Unexpired(seen.pause) # Some(h.run)
  /\ DropPause
  /\ held' = None
  /\ \E ok \in BOOLEAN : Report(Status("Running", None), ok)
  /\ UNCHANGED <<slots, step, mutating, watcher, seen, asked, daily, worldVars>>

NoPauseWanted ==
  /\ watcher = "reconcile"
  /\ held = None /\ Unexpired(seen.pause) = None
  /\ watcher' = "request"
  /\ UNCHANGED <<gateVars, store, held, seen, asked, daily, worldVars, faults>>

\* The pause is held already: a report that was not confirmed is repeated.
KeepPause ==
  /\ watcher = "reconcile"
  /\ \E h \in held :
       /\ Unexpired(seen.pause) = Some(h.run)
       /\ IF h.reported THEN UNCHANGED <<held, store, faults>>
          ELSE \E ok \in BOOLEAN :
                 /\ Report(Status("Quiesced", Some(h.run)), ok)
                 /\ held' = Some([h EXCEPT !.reported = ok])
  /\ watcher' = "request"
  /\ UNCHANGED <<gateVars, seen, asked, daily, worldVars>>

\* Mutant: quiescence is reported while the gate is still waited for.
StartPausingQuiesced ==
  /\ watcher = "reconcile"
  /\ held = None
  /\ \E r \in Unexpired(seen.pause), ok \in BOOLEAN : Report(Status("Quiesced", Some(r)), ok)
  /\ gate' = [gate EXCEPT !.queue = Append(@, "pause")]
  /\ watcher' = "gate"
  /\ UNCHANGED <<slots, step, mutating, held, seen, asked, daily, worldVars>>

\* A new pause: "pausing" is reported and the gate is asked for.
StartPausing ==
  /\ watcher = "reconcile"
  /\ held = None
  /\ \E r \in Unexpired(seen.pause), ok \in BOOLEAN : Report(Status("Pausing", Some(r)), ok)
  /\ gate' = [gate EXCEPT !.queue = Append(@, "pause")]
  /\ watcher' = "gate"
  /\ UNCHANGED <<slots, step, mutating, held, seen, asked, daily, worldVars>>

\* Mutant: the gate is granted to the pause while writes still hold it.
AcquirePauseBesideReaders ==
  /\ watcher = "gate"
  /\ gate.queue # <<>> /\ Head(gate.queue) = "pause"
  /\ gate.writer = None
  /\ gate' = [gate EXCEPT !.queue = Tail(@), !.writer = Some("pause")]
  /\ watcher' = "granted"
  /\ UNCHANGED <<slots, step, mutating, store, held, seen, asked, daily, worldVars, faults>>

AcquirePause ==
  /\ watcher = "gate"
  /\ gate.queue # <<>> /\ Head(gate.queue) = "pause"
  /\ gate.readers = {} /\ gate.writer = None
  /\ gate' = [gate EXCEPT !.queue = Tail(@), !.writer = Some("pause")]
  /\ watcher' = "granted"
  /\ UNCHANGED <<slots, step, mutating, store, held, seen, asked, daily, worldVars, faults>>

\* The lease ran out while the writes drained.
PauseExpired ==
  /\ watcher = "granted"
  /\ Unexpired(seen.pause) = None
  /\ DropPause
  /\ \E ok \in BOOLEAN : Report(Status("Running", None), ok)
  /\ watcher' = "request"
  /\ UNCHANGED <<slots, step, mutating, held, seen, asked, daily, worldVars>>

\* The pause is kept even when the report is not confirmed.
ReportQuiesced ==
  /\ watcher = "granted"
  /\ \E r \in Unexpired(seen.pause), ok \in BOOLEAN :
       /\ Report(Status("Quiesced", Some(r)), ok)
       /\ held' = Some([run |-> r, reported |-> ok])
  /\ watcher' = "request"
  /\ UNCHANGED <<gateVars, seen, asked, daily, worldVars>>

\* What the sample finds in the catalog: old snapshots, inlined bytes above their
\* threshold, more active data files than the threshold.
SampleOperations(found) ==
  {op \in Operations :
     \/ op = "expire_snapshots" /\ "old_snapshots" \in found
     \/ op = "inline_flush" /\ "inlined_bytes" \in found
     \/ op \in {"rewrite_data_files", "merge_adjacent_files", "cleanup_old_files"} /\ "data_files" \in found}

\* Policy, and a gate that lets expire-snapshots be requested once a day.
Wanted(found, sameDay) ==
  (SampleOperations(found) \cap Policy)
    \ (IF daily.suppressed /\ sameDay THEN {"expire_snapshots"} ELSE {})

\* The watcher sleeps and forgets the state that it loaded.
NextRound == watcher' = "load" /\ asked' = {} /\ seen' = NoState

\* The catalog is sampled as it is now; the cooldown and the day may be over.
MaybeRequestOperations ==
  /\ watcher = "request"
  /\ \E found \in Demands, cooling, sameDay \in BOOLEAN :
       LET wanted == Wanted(found, sameDay)
       IN IF \/ seen.active # None \/ (seen.completed /\ cooling)
             \/ wanted = {} \/ covers(seen.request, wanted)
          THEN NextRound
          ELSE watcher' = "store_request" /\ asked' = wanted /\ UNCHANGED seen
  /\ UNCHANGED <<gateVars, store, held, daily, worldVars, faults>>

\* Sampling the catalog fails: nothing is asked for in this round.
SampleFails ==
  /\ watcher = "request"
  /\ faults < MaxFaults
  /\ faults' = faults + 1
  /\ NextRound
  /\ UNCHANGED <<gateVars, store, held, daily, worldVars>>

\* An expire-snapshots request that was created is not repeated for a day.
RecordRequested(created) ==
  daily' = [daily EXCEPT !.suppressed =
              @ \/ (created /\ "expire_snapshots" \in asked \ seen.request)]

RequestOperationsPostgres ==
  /\ watcher = "store_request"
  /\ backend = "postgres" /\ ~down
  /\ store' = RequestMerged(store, asked)
  /\ RecordRequested(Created(store, asked))
  /\ NextRound
  /\ UNCHANGED <<gateVars, held, worldVars, faults>>

\* The Kubernetes store loads the state again before it patches it.
RequestLoadKubernetes ==
  /\ watcher = "store_request"
  /\ backend = "kubernetes" /\ ~down
  /\ IF Created(store, asked) THEN watcher' = "patch" /\ UNCHANGED <<asked, seen>>
     ELSE NextRound
  /\ UNCHANGED <<gateVars, store, held, daily, worldVars, faults>>

RequestPatchKubernetes ==
  /\ watcher = "patch" /\ ~down
  /\ store' = PatchRequest(store, asked)
  /\ RecordRequested(store.exists)
  /\ NextRound
  /\ UNCHANGED <<gateVars, held, worldVars, faults>>

\* The request fails, or times out with or without having been applied; the daily
\* gate does not learn of it.
RequestFails ==
  /\ watcher \in {"store_request", "patch"}
  /\ \/ down /\ UNCHANGED <<store, faults>>
     \/ /\ ~down /\ faults < MaxFaults /\ faults' = faults + 1
        /\ store' \in {store, IF watcher = "patch" THEN PatchRequest(store, asked)
                              ELSE IF backend = "postgres" THEN RequestMerged(store, asked)
                              ELSE store}
  /\ NextRound
  /\ UNCHANGED <<gateVars, held, daily, worldVars>>

Watcher ==
  \/ LoadState \/ LoadMissing \/ LoadFails \/ ReleasePause \/ NoPauseWanted \/ KeepPause
  \/ StartPausing \/ AcquirePause \/ PauseExpired \/ ReportQuiesced
  \/ MaybeRequestOperations \/ SampleFails
  \/ RequestOperationsPostgres \/ RequestLoadKubernetes \/ RequestPatchKubernetes \/ RequestFails

-----------------------------------------------------------------------------
(* The controller, the clock and the catalog.                              *)

\* A run takes over the request and asks for a pause under a lease.
ControllerStartsRun ==
  /\ store.exists /\ store.active = None /\ store.request # {}
  /\ runs < MaxRuns
  /\ runs' = runs + 1
  /\ store' = [store EXCEPT !.active = Some(runs + 1), !.pause = Some(runs + 1), !.request = {}]
  /\ UNCHANGED <<gateVars, watcherVars, expired, down, backend, faults>>

\* The run is over; the pause request is cleared with it.
ControllerEndsRun ==
  /\ store.active # None
  /\ store' = [store EXCEPT !.active = None, !.pause = None, !.completed = TRUE]
  /\ UNCHANGED <<gateVars, watcherVars, worldVars, faults>>

LeaseExpires ==
  /\ \E r \in 1..runs : r \notin expired /\ expired' = expired \cup {r}
  /\ UNCHANGED <<gateVars, store, watcherVars, down, backend, runs, faults>>

StoreGoesDown ==
  /\ ~down
  /\ faults < MaxFaults
  /\ faults' = faults + 1
  /\ down' = TRUE
  /\ UNCHANGED <<gateVars, store, watcherVars, expired, backend, runs>>

\* The state of the pipeline is deleted with its maintenance, whatever is in it.
DeletePipelineState ==
  /\ store.exists
  /\ faults < MaxFaults
  /\ faults' = faults + 1
  /\ store' = NoState
  /\ UNCHANGED <<gateVars, watcherVars, worldVars>>

EnsurePipelineState ==
  /\ ~store.exists
  /\ store' = NewState
  /\ UNCHANGED <<gateVars, watcherVars, worldVars, faults>>

Controller == ControllerStartsRun \/ ControllerEndsRun \/ EnsurePipelineState

Environment ==
  \/ Controller \/ LeaseExpires \/ StoreGoesDown \/ DeletePipelineState

-----------------------------------------------------------------------------
\* An earlier run has expired snapshots.
Init ==
  /\ backend \in Backends
  /\ gate = [readers |-> {}, writer |-> None, queue |-> <<>>]
  /\ slots = [write |-> None, creation |-> None]
  /\ step = [w \in Writers |-> 0]
  /\ mutating = {}
  /\ store = [NewState EXCEPT !.success = TRUE]
  /\ expired = {}
  /\ down = FALSE
  /\ held = None
  /\ watcher = "load"
  /\ seen = NoState
  /\ asked = {}
  /\ daily = [initialized |-> FALSE, suppressed |-> FALSE]
  /\ runs = 0 /\ faults = 0

Next ==
  \/ \E w \in Writers : Foreground(w) \/ EndsEarly(w)
  \/ Watcher
  \/ Environment

Spec == Init /\ [][Next]_maintenanceVars

\* Tasks are polled, closures end, the clock runs; the controller owes nothing.
MaintenanceFairness ==
  /\ \A w \in Writers : WF_maintenanceVars(Foreground(w))
  /\ WF_maintenanceVars(Watcher)
  /\ WF_maintenanceVars(LeaseExpires)

FairSpec == Spec /\ MaintenanceFairness

-----------------------------------------------------------------------------
(* Properties.                                                             *)

\* The gate keeps a maintenance pause from overlapping active foreground mutations.
PauseExcludesMutations == gate.writer # None => mutating = {}

\* A run that finds its own pause reported as quiesced, while its lease lasts, has
\* the catalog to itself.
QuiescedMeansPaused ==
  (store.status.state = "Quiesced" /\ store.status.run = store.pause /\ store.pause \cap expired = {})
    => /\ \E h \in held : store.pause = Some(h.run)
       /\ gate.readers = {}

Ended(w) == Finished(w) /\ w \notin mutating

\* A foreground write ends, whatever the runs, the store and the other writes do:
\* a pause ends with its lease even when the store cannot be read, and the orders
\* in which slots and gate are taken never close a cycle through a waiting pause.
WritesEnd == \A w \in Writers : <>[]Ended(w)
=============================================================================

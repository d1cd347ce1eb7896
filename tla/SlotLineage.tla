----------------------------- MODULE SlotLineage -----------------------------
(***************************************************************************)
(* How a pipeline picks up where it left off (etl/src/pipeline.rs          *)
(* initialize_table_states, etl/src/workers/apply.rs get_start_lsn and     *)
(* handle_invalidated_slot, the slot functions of replication/client.rs    *)
(* and the stored progress of etl-postgres).                               *)
(*                                                                         *)
(* The WAL is a counter and every position holds a change of every         *)
(* published table.  The handover of a table from its sync worker to the   *)
(* apply worker is module TableHandover; here it is one step.  What the    *)
(* module follows is the lineage of the apply slot: the slot, the stored   *)
(* progress and the stored table states are three records in two places,   *)
(* and each start has to make them agree although a start can stop between *)
(* any two of its steps.                                                   *)
(***************************************************************************)
EXTENDS Integers, FiniteSets

CONSTANTS
  SourceTables,
  Publications,       \* the sets of tables the publication may hold
  Behaviors,          \* InvalidatedSlotBehavior: "Error", "Recreate"
  MaxWal, MaxLosses, MaxFaults,   \* bounds
  FaultsBeforeValidation  \* a start may stop while it holds an unvalidated slot

VARIABLES
  wal,        \* end of the source's WAL
  slot,       \* the apply slot: {} or {[lsn, valid]}
  progress,   \* etl.replication_progress of the apply worker: {} or {lsn}
  published,
  phase,      \* stored state of a table: "none", "Init", "SyncDone" or "Ready"
  doneAt,     \* the lsn of SyncDone
  pc,         \* the step of the start, or "streaming"
  position,   \* slot_start_lsn, then the last position applied
  got,        \* positions whose changes of the table are at the destination
  losses, faults, behavior

lineageVars == <<wal, slot, progress, published, phase, doneAt, pc,
                 position, got, losses, faults, behavior>>

Max(a, b) == IF a > b THEN a ELSE b

TheSlot == CHOOSE s \in slot : TRUE

\* Stored states: the tables that have one.
TableStates == {t \in SourceTables : phase[t] # "none"}

(***************************************************************************)
(* Pipeline::start                                                         *)
(***************************************************************************)
\* Missing publications, empty ones and partitioned tables that are not
\* published through their root end the start; none of them changes state.
\* New tables get a row, one update each, then removed ones are purged.
InitializeTable(t) ==
  /\ pc = "down"
  /\ t \in published /\ phase[t] = "none"
  /\ phase' = [phase EXCEPT ![t] = "Init"]
  /\ UNCHANGED <<wal, slot, progress, published, doneAt, pc, position, got,
                 losses, faults, behavior>>

PurgeTable(t) ==
  /\ pc = "down"
  /\ published \subseteq TableStates
  /\ t \in TableStates \ published
  /\ phase' = [phase EXCEPT ![t] = "none"]
  /\ UNCHANGED <<wal, slot, progress, published, doneAt, pc, position, got,
                 losses, faults, behavior>>

StartApplyWorker ==
  /\ pc = "down"
  /\ TableStates = published
  /\ pc' = "get_or_create_slot"
  /\ UNCHANGED <<wal, slot, progress, published, phase, doneAt, position, got,
                 losses, faults, behavior>>

(***************************************************************************)
(* get_start_lsn                                                           *)
(***************************************************************************)
create_slot == slot' = {[lsn |-> wal, valid |-> TRUE]}
delete_slot_if_exists == slot' = {}

get_or_create_slot ==
  /\ pc = "get_or_create_slot"
  /\ IF slot # {}
       THEN pc' = "get_slot_state" /\ position' = TheSlot.lsn /\ UNCHANGED slot
       ELSE pc' = "validate" /\ position' = wal /\ create_slot
  /\ UNCHANGED <<wal, progress, published, phase, doneAt, got, losses, faults, behavior>>

get_slot_state ==
  /\ pc = "get_slot_state"
  /\ IF slot = {} THEN pc' = "down"              \* dropped in between: slot not found
     ELSE IF TheSlot.valid THEN pc' = "choose"
     ELSE IF behavior = "Error" THEN pc' = "down"
     ELSE pc' = "reset"
  /\ UNCHANGED <<wal, slot, progress, published, phase, doneAt, position, got,
                 losses, faults, behavior>>

\* Mutant: a new slot is accepted without looking at the tables.
SkipValidation ==
  /\ pc = "validate"
  /\ pc' = "forget"
  /\ UNCHANGED <<wal, slot, progress, published, phase, doneAt, position, got,
                 losses, faults, behavior>>

\* validate_tables_in_init_state, and the deletion of the slot when it fails.
validate_tables_in_init_state ==
  /\ pc = "validate"
  /\ IF \A t \in TableStates : phase[t] = "Init"
       THEN pc' = "forget" /\ UNCHANGED slot
       ELSE pc' = "down" /\ delete_slot_if_exists
  /\ UNCHANGED <<wal, progress, published, phase, doneAt, position, got,
                 losses, faults, behavior>>

\* The progress of an older lineage is deleted; if that fails the slot goes too.
ForgetProgress ==
  /\ pc = "forget"
  /\ \/ /\ progress' = {}
        /\ pc' = "streaming"
        /\ UNCHANGED <<slot, faults>>
     \/ /\ faults < MaxFaults
        /\ faults' = faults + 1
        /\ pc' = "down"
        /\ delete_slot_if_exists
        /\ UNCHANGED progress
  /\ UNCHANGED <<wal, published, phase, doneAt, position, got, losses, behavior>>

ChooseStart ==
  /\ pc = "choose"
  /\ position' = IF progress = {} THEN position
                 ELSE Max(CHOOSE p \in progress : TRUE, position)
  /\ pc' = "streaming"
  /\ UNCHANGED <<wal, slot, progress, published, phase, doneAt, got,
                 losses, faults, behavior>>

(***************************************************************************)
(* handle_invalidated_slot with Recreate                                   *)
(***************************************************************************)
ResetTables ==
  /\ pc = "reset"
  /\ phase' = [t \in SourceTables |-> IF t \in TableStates THEN "Init" ELSE "none"]
  /\ pc' = "reset_progress"
  /\ UNCHANGED <<wal, slot, progress, published, doneAt, position, got,
                 losses, faults, behavior>>

ResetProgress ==
  /\ pc = "reset_progress"
  /\ progress' = {}
  /\ pc' = "drop_slot"
  /\ UNCHANGED <<wal, slot, published, phase, doneAt, position, got,
                 losses, faults, behavior>>

DropSlot ==
  /\ pc = "drop_slot"
  /\ delete_slot_if_exists
  /\ pc' = "recreate_slot"
  /\ UNCHANGED <<wal, progress, published, phase, doneAt, position, got,
                 losses, faults, behavior>>

RecreateSlot ==
  /\ pc = "recreate_slot"
  /\ create_slot
  /\ position' = wal
  /\ pc' = "streaming"
  /\ UNCHANGED <<wal, progress, published, phase, doneAt, got,
                 losses, faults, behavior>>

(***************************************************************************)
(* Streaming                                                               *)
(***************************************************************************)
Streams == pc = "streaming" /\ slot # {} /\ TheSlot.valid

\* A commit is applied to the tables the apply worker owns, those that are
\* Ready and those whose sync ended before it.  Nothing at or below the start
\* position is sent again.
ApplyCommit ==
  /\ Streams
  /\ position < wal
  /\ position' = position + 1
  /\ got' = [t \in SourceTables |->
               IF \/ phase[t] = "Ready"
                  \/ phase[t] = "SyncDone" /\ doneAt[t] < position + 1
               THEN got[t] \cup {position + 1} ELSE got[t]]
  /\ UNCHANGED <<wal, slot, progress, published, phase, doneAt, pc,
                 losses, faults, behavior>>

\* A flushed batch is recorded; Postgres is told, at once or never.
\* upsert_replication_progress keeps the larger of the two positions.
upsert_replication_progress(p) ==
  progress' = {IF progress = {} THEN p ELSE Max(p, CHOOSE q \in progress : TRUE)}

StoreProgress ==
  /\ Streams
  /\ upsert_replication_progress(position)
  /\ UNCHANGED <<wal, slot, published, phase, doneAt, pc, position, got,
                 losses, faults, behavior>>

ConfirmFlush ==
  /\ Streams
  /\ TheSlot.lsn < position
  /\ slot' = {[TheSlot EXCEPT !.lsn = position]}
  /\ UNCHANGED <<wal, progress, published, phase, doneAt, pc, position, got,
                 losses, faults, behavior>>

\* The sync worker copies the table and catches up with the apply worker.
SyncTable(t) ==
  /\ Streams
  /\ phase[t] = "Init"
  /\ phase' = [phase EXCEPT ![t] = "SyncDone"]
  /\ doneAt' = [doneAt EXCEPT ![t] = position]
  /\ got' = [got EXCEPT ![t] = 1..position]
  /\ UNCHANGED <<wal, slot, progress, published, pc, position, losses, faults, behavior>>

BecomeReady(t) ==
  /\ Streams
  /\ phase[t] = "SyncDone" /\ doneAt[t] <= position
  /\ phase' = [phase EXCEPT ![t] = "Ready"]
  /\ UNCHANGED <<wal, slot, progress, published, doneAt, pc, position, got,
                 losses, faults, behavior>>

(***************************************************************************)
(* Environment                                                             *)
(***************************************************************************)
WalGrows ==
  /\ wal < MaxWal
  /\ wal' = wal + 1
  /\ UNCHANGED <<slot, progress, published, phase, doneAt, pc, position, got,
                 losses, faults, behavior>>

SlotLost ==
  /\ losses < MaxLosses
  /\ losses' = losses + 1
  /\ slot # {}
  /\ slot' \in {{}, {[TheSlot EXCEPT !.valid = FALSE]}}
  /\ UNCHANGED <<wal, progress, published, phase, doneAt, pc, position, got,
                 faults, behavior>>

\* A start sees each change of the publication before the next one is made.
ChangePublication ==
  /\ pc = "down"
  /\ TableStates = published
  /\ losses < MaxLosses
  /\ losses' = losses + 1
  /\ published' \in Publications \ {published}
  /\ UNCHANGED <<wal, slot, progress, phase, doneAt, pc, position, got,
                 faults, behavior>>

\* The process dies, a call fails or the stream ends; the worker or the whole
\* pipeline starts again.  Unapplied positions come again after the restart.
Stop ==
  /\ pc # "down"
  /\ pc = "validate" => FaultsBeforeValidation
  /\ IF Streams THEN UNCHANGED faults ELSE faults < MaxFaults /\ faults' = faults + 1
  /\ pc' = "down"
  /\ UNCHANGED <<wal, slot, progress, published, phase, doneAt, position, got,
                 losses, behavior>>

\* A stream on a slot that is gone ends with an error.
StreamEnds ==
  /\ pc = "streaming" /\ ~Streams
  /\ pc' = "down"
  /\ UNCHANGED <<wal, slot, progress, published, phase, doneAt, position, got,
                 losses, faults, behavior>>

LineageInit ==
  /\ wal = 0 /\ slot = {} /\ progress = {}
  /\ published \in Publications
  /\ phase = [t \in SourceTables |-> "none"]
  /\ doneAt = [t \in SourceTables |-> 0]
  /\ pc = "down" /\ position = 0
  /\ got = [t \in SourceTables |-> {}]
  /\ losses = 0 /\ faults = 0
  /\ behavior \in Behaviors

Starting ==
  \/ \E t \in SourceTables : InitializeTable(t) \/ PurgeTable(t)
  \/ StartApplyWorker \/ get_or_create_slot \/ get_slot_state
  \/ validate_tables_in_init_state \/ ForgetProgress \/ ChooseStart
  \/ ResetTables \/ ResetProgress \/ DropSlot \/ RecreateSlot

Streaming ==
  \/ ApplyCommit \/ StoreProgress \/ ConfirmFlush
  \/ \E t \in SourceTables : SyncTable(t) \/ BecomeReady(t)

LineageNext ==
  \/ Starting \/ Streaming \/ WalGrows \/ SlotLost \/ ChangePublication
  \/ Stop \/ StreamEnds

LineageSpec == LineageInit /\ [][LineageNext]_lineageVars

(***************************************************************************)
(* Properties                                                              *)
(***************************************************************************)
LineageTypeOK ==
  /\ wal \in 0..MaxWal /\ position \in 0..MaxWal
  /\ Cardinality(slot) <= 1 /\ Cardinality(progress) <= 1
  /\ phase \in [SourceTables -> {"none", "Init", "SyncDone", "Ready"}]
  /\ published \in Publications

\* While the apply worker streams, every table past Init holds every change up
\* to the worker's position: no start resumes behind a gap, whichever of slot,
\* progress and table states an earlier run lost or left half updated.
NoChangeIsLost ==
  pc = "streaming" =>
    \A t \in TableStates \cap published :
      phase[t] # "Init" => 1..Max(position, doneAt[t]) \subseteq got[t]

=============================================================================

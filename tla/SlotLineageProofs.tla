-------------------------- MODULE SlotLineageProofs --------------------------
(***************************************************************************)
(* No start of the apply worker resumes behind a gap, for any tables,      *)
(* publications and number of losses, faults and positions, as long as no  *)
(* start stops between the creation of a slot and its validation.          *)
(***************************************************************************)
EXTENDS SlotLineage, TLAPS

Past(t) == phase[t] \in {"SyncDone", "Ready"}
Holds(t, n) == 1..n \subseteq got[t]

Steps == {"down", "get_or_create_slot", "get_slot_state", "validate", "forget", "choose", "reset",
          "reset_progress", "drop_slot", "recreate_slot", "streaming"}

Types ==
  /\ wal \in Nat /\ position \in Nat /\ pc \in Steps
  /\ slot \subseteq [lsn : Nat, valid : BOOLEAN] /\ \A r, s \in slot : r = s
  /\ progress \subseteq Nat /\ \A p, q \in progress : p = q
  /\ phase \in [SourceTables -> {"none", "Init", "SyncDone", "Ready"}]
  /\ doneAt \in [SourceTables -> Nat]
  /\ got \in [SourceTables -> SUBSET Nat]

\* The positions a start may resume from are covered by every table past Init:
\* the slot's unless it is new, the stored progress, and the position of SyncDone.
PositionsAreCovered ==
  \A t \in SourceTables : Past(t) =>
    /\ pc # "validate" => \A s \in slot : Holds(t, s.lsn)
    /\ \A p \in progress : Holds(t, p)
    /\ Holds(t, doneAt[t])
    /\ pc \in {"get_slot_state", "choose", "streaming"} => Holds(t, position)

\* The worker is never behind the slot or the progress it would resume from.
PositionIsAhead ==
  /\ pc \in {"validate", "forget", "get_slot_state", "choose", "streaming"} =>
       \A s \in slot : s.lsn <= position
  /\ pc = "streaming" => \A p \in progress : p <= position

\* A new lineage starts without tables past Init and without progress.
NewLineageIsEmpty ==
  /\ pc \in {"forget", "reset_progress", "drop_slot", "recreate_slot"} => \A t \in SourceTables : ~Past(t)
  /\ pc \in {"drop_slot", "recreate_slot"} => progress = {}

LineageInv == Types /\ PositionsAreCovered /\ PositionIsAhead /\ NewLineageIsEmpty

LEMMA InitialLineage == LineageInit => LineageInv
  BY DEF LineageInit, LineageInv, Types, PositionsAreCovered, PositionIsAhead, NewLineageIsEmpty, Past, Steps

LEMMA TheSlotIsASlot == slot # {} => TheSlot \in slot
  BY DEF TheSlot

LEMMA ChosenProgress == progress # {} => (CHOOSE q \in progress : TRUE) \in progress
  OBVIOUS

LEMMA StartingKeepsLineage ==
  ASSUME LineageInv, ~FaultsBeforeValidation, Starting
  PROVE  LineageInv'
<1> USE DEF LineageInv, Types, PositionsAreCovered, PositionIsAhead, NewLineageIsEmpty, Past, Holds, Steps
<1>1. CASE \E t \in SourceTables : InitializeTable(t) \/ PurgeTable(t)
  BY <1>1 DEF InitializeTable, PurgeTable, TableStates
<1>2. CASE StartApplyWorker
  BY <1>2 DEF StartApplyWorker
<1>3. CASE get_or_create_slot
  <2>1. CASE slot # {}
    <3>1. TheSlot \in slot /\ \A s \in slot : s = TheSlot
      BY <2>1, TheSlotIsASlot
    <3>2. TheSlot.lsn \in Nat /\ pc' = "get_slot_state" /\ position' = TheSlot.lsn
      BY <1>3, <2>1, <3>1 DEF get_or_create_slot
    <3> QED BY <1>3, <2>1, <3>1, <3>2 DEF get_or_create_slot
  <2>2. CASE slot = {}
    <3>1. /\ pc' = "validate" /\ position' = wal
          /\ slot' = {[lsn |-> wal, valid |-> TRUE]}
          /\ UNCHANGED <<wal, progress, phase, doneAt, got>>
      BY <1>3, <2>2 DEF get_or_create_slot, create_slot
    <3>2. Types' /\ PositionIsAhead' /\ NewLineageIsEmpty'
      BY <3>1
    <3>3. PositionsAreCovered'
      BY <3>1
    <3> QED BY <3>2, <3>3
  <2> QED BY <2>1, <2>2
<1>4. CASE get_slot_state
  BY <1>4 DEF get_slot_state
<1>5. CASE validate_tables_in_init_state
  BY <1>5 DEF validate_tables_in_init_state, delete_slot_if_exists, TableStates
<1>6. CASE ForgetProgress
  BY <1>6 DEF ForgetProgress, delete_slot_if_exists
<1>7. CASE ChooseStart
  <2>1. CASE progress = {}
    BY <1>7, <2>1 DEF ChooseStart
  <2>2. CASE progress # {}
    <3>1. PICK p \in progress : p = CHOOSE q \in progress : TRUE
      BY <2>2, ChosenProgress
    <3>2. progress = {p} /\ p \in Nat /\ position' = Max(p, position)
      BY <1>7, <2>2, <3>1 DEF ChooseStart
    <3> QED BY <1>7, <3>2 DEF ChooseStart, Max
  <2> QED BY <2>1, <2>2
<1>8. CASE ResetTables
  BY <1>8 DEF ResetTables, TableStates
<1>9. CASE ResetProgress
  BY <1>9 DEF ResetProgress
<1>10. CASE DropSlot
  BY <1>10 DEF DropSlot, delete_slot_if_exists
<1>11. CASE RecreateSlot
  BY <1>11 DEF RecreateSlot, create_slot
<1> QED BY <1>1, <1>2, <1>3, <1>4, <1>5, <1>6, <1>7, <1>8, <1>9, <1>10, <1>11 DEF Starting

LEMMA StreamingKeepsLineage ==
  ASSUME LineageInv, Streaming
  PROVE  LineageInv'
<1> USE DEF LineageInv, Types, PositionsAreCovered, PositionIsAhead, NewLineageIsEmpty, Past, Holds, Steps
<1>1. CASE ApplyCommit
  BY <1>1 DEF ApplyCommit, Streams
<1>2. CASE StoreProgress
  <2>1. CASE progress = {}
    BY <1>2, <2>1 DEF StoreProgress, Streams, upsert_replication_progress
  <2>2. CASE progress # {}
    <3>1. PICK p \in progress : p = CHOOSE q \in progress : TRUE
      BY <2>2, ChosenProgress
    <3>2. p \in Nat /\ p <= position /\ progress' = {Max(position, p)}
      BY <1>2, <2>2, <3>1 DEF StoreProgress, Streams, upsert_replication_progress
    <3>3. progress' = {position}
      BY <3>2 DEF Max
    <3> QED BY <1>2, <3>3 DEF StoreProgress, Streams
  <2> QED BY <2>1, <2>2
<1>3. CASE ConfirmFlush
  BY <1>3, TheSlotIsASlot DEF ConfirmFlush, Streams
<1>4. CASE \E t \in SourceTables : SyncTable(t)
  BY <1>4 DEF SyncTable, Streams
<1>5. CASE \E t \in SourceTables : BecomeReady(t)
  BY <1>5 DEF BecomeReady, Streams
<1> QED BY <1>1, <1>2, <1>3, <1>4, <1>5 DEF Streaming

LEMMA EnvironmentKeepsLineage ==
  ASSUME LineageInv, ~FaultsBeforeValidation,
         WalGrows \/ SlotLost \/ ChangePublication \/ Stop \/ StreamEnds \/ UNCHANGED lineageVars
  PROVE  LineageInv'
<1> USE DEF LineageInv, Types, PositionsAreCovered, PositionIsAhead, NewLineageIsEmpty, Past, Holds, Steps
<1>1. CASE WalGrows
  BY <1>1 DEF WalGrows
<1>2. CASE SlotLost
  BY <1>2, TheSlotIsASlot DEF SlotLost
<1>3. CASE ChangePublication
  BY <1>3 DEF ChangePublication
<1>4. CASE Stop
  BY <1>4 DEF Stop
<1>5. CASE StreamEnds
  BY <1>5 DEF StreamEnds
<1>6. CASE UNCHANGED lineageVars
  BY <1>6 DEF lineageVars
<1> QED BY <1>1, <1>2, <1>3, <1>4, <1>5, <1>6

LEMMA LineageImplies == LineageInv => NoChangeIsLost
  BY DEF LineageInv, Types, PositionsAreCovered, NoChangeIsLost, TableStates, Past, Holds, Max

\* While the apply worker streams, every table past Init holds every change up to
\* the worker's position, whichever of slot, progress and table states an earlier
\* run lost or left half updated (get_start_lsn, handle_invalidated_slot), unless a
\* start stopped between creating a slot and validating the tables.
THEOREM NoChangeIsEverLost ==
  ASSUME ~FaultsBeforeValidation
  PROVE  LineageSpec => []NoChangeIsLost
<1>1. LineageInit => LineageInv
  BY InitialLineage
<1>2. LineageInv /\ [LineageNext]_lineageVars => LineageInv'
  BY StartingKeepsLineage, StreamingKeepsLineage, EnvironmentKeepsLineage DEF LineageNext
<1>3. LineageInv => NoChangeIsLost
  BY LineageImplies
<1> QED BY <1>1, <1>2, <1>3, PTL DEF LineageSpec
=============================================================================

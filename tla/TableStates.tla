---------------------------- MODULE TableStates ----------------------------
(***************************************************************************)
(* What a state store promises about the replication state of the tables:  *)
(* every table has a history of phases, an update of several tables takes  *)
(* effect at once, and a rollback takes the last phase back.  The in-memory *)
(* store (store/both/memory.rs) keeps exactly this; the PostgreSQL store    *)
(* (PostgresStates) is shown to implement it.                              *)
(***************************************************************************)
EXTENDS SequencesExt

CONSTANTS
  Tables,  \* the tables of the pipeline
  Phases,  \* the phases that can be stored
  Fresh    \* the phase of a table that starts over, TableReplicationPhase::Init

VARIABLE
  history  \* history[t]: the phases of the table, the current one last

Init == history = [t \in Tables |-> <<>>]

\* update_table_replication_states: all the tables of the call, or none.
UpdateStates(updated, phase) ==
  history' = [t \in Tables |->
    IF t \in updated THEN Append(history[t], phase[t]) ELSE history[t]]

\* rollback_table_replication_state, for the tables of one transaction: an
\* error if one of them has no previous phase.
RollbackStates(tables) ==
  /\ \A t \in tables : Len(history[t]) > 1
  /\ history' = [t \in Tables |-> IF t \in tables THEN Front(history[t]) ELSE history[t]]

\* reset_replication_state, for the tables of one request.
ResetStates(tables) ==
  history' = [t \in Tables |-> IF t \in tables THEN <<Fresh>> ELSE history[t]]

\* delete_table_state, when the table leaves the pipeline.
DeleteState(t) == history' = [history EXCEPT ![t] = <<>>]

Next ==
  \/ \E updated \in SUBSET Tables : \E phase \in [updated -> Phases] :
       UpdateStates(updated, phase)
  \/ \E t \in Tables : DeleteState(t)
  \/ \E tables \in SUBSET Tables : RollbackStates(tables) \/ ResetStates(tables)

Spec == Init /\ [][Next]_history
=============================================================================

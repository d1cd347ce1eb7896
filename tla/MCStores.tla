------------------------------ MODULE MCStores ------------------------------
(***************************************************************************)
(* What a pipeline and the API persist, and the runs that start from it:   *)
(* the rows of the replication states, the slot with its progress, the     *)
(* tasks of one start and the stored configurations.  The components share *)
(* no state in these models, so each behaviour is one component's: part    *)
(* names it and the others stay in one of their initial states.            *)
(*                                                                         *)
(* The tables of the state rows are interchangeable: no phase or row       *)
(* belongs to a particular one, and no other component mentions them.      *)
(***************************************************************************)
EXTENDS PostgresStates, SlotLineage, PipelineLifecycle, StoredConfigs, TLC

VARIABLE part

Symmetry == Permutations(Tables)

TwoPublications == {{"t1"}, {"t1", "t2"}}
AllKinds == {"pipeline", "source", "big_query", "clickhouse", "supabase", "rest", "ducklake"}
SpacedOrZero == {" a", "0"}
NullableFields == {"max_staleness_mins", "batch"}

NoLineage == LineageInit /\ published = {"t1"} /\ behavior = "Error"
NoLife == LifeInit /\ waitsFor = "t1"
NoConfig == ConfigInit /\ kind = "source" /\ row = None

StoresInit ==
  \/ part = "states" /\ Init /\ NoLineage /\ NoLife /\ NoConfig
  \/ part = "lineage" /\ Init /\ LineageInit /\ NoLife /\ NoConfig
  \/ part = "pipeline" /\ Init /\ NoLineage /\ LifeInit /\ NoConfig
  \/ part = "configs" /\ Init /\ NoLineage /\ NoLife /\ ConfigInit

StatesStep == part = "states" /\ Next /\ UNCHANGED <<part, lineageVars, lifeVars, configVars>>
LineageStep == part = "lineage" /\ LineageNext /\ UNCHANGED <<part, vars, lifeVars, configVars>>
LifeStep == part = "pipeline" /\ LifeNext /\ UNCHANGED <<part, vars, lineageVars, configVars>>
ConfigStep == part = "configs" /\ ConfigNext /\ UNCHANGED <<part, vars, lineageVars, lifeVars>>

StoresNext == StatesStep \/ LineageStep \/ LifeStep \/ ConfigStep

StoresSpec == StoresInit /\ [][StoresNext]_<<part, vars, lineageVars, lifeVars, configVars>>
=============================================================================

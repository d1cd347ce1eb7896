-------------------------- MODULE MCTableHandover --------------------------
(* Small instances of TableHandover: the table of every row change, per    *)
(* transaction.                                                             *)
EXTENDS TableHandover

CONSTANTS t1, t2

OneTableTwoTx == <<<<t1>>, <<t1>>>>
OneTableOneTx == <<<<t1>>>>
TwoTablesThenOne == <<<<t1, t2>>, <<t1>>>>

\* A table that was handed over has every change that nobody will send again, and
\* at no moment does the destination hold a change without the earlier ones of its
\* table (store of SyncDone, process_syncing_tables, should_apply_changes).
TablesAreComplete == TypeOK /\ HandedOverIsComplete /\ NoGapPerTable

\* The same for two tables that share one permit while the store may fail: the
\* handed-over tables are complete, the apply worker never passes a table that is
\* catching up, and without failures every change is written once.
TwoTablesAreComplete ==
  HandedOverIsComplete /\ ApplierWaitsDuringCatchup /\ ExactlyOnceWithoutFailures
=============================================================================

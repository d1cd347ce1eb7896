-------------------------------- MODULE Lsn --------------------------------
(***************************************************************************)
(* The log sequence numbers that the apply and table-sync workers compare. *)
(* PostgreSQL's write-ahead log is external to the pipeline; only the      *)
(* order of the positions matters to it.  Committed transaction k has its  *)
(* commit record at CommitLsn(k) and ends at EndLsn(k), and the next       *)
(* commit record starts no earlier than that end.                          *)
(***************************************************************************)
EXTENDS Naturals

\* "final_lsn" of a BEGIN message and "commit_lsn" of a COMMIT message.
CommitLsn(k) == 2 * k - 1

\* "end_lsn" of a COMMIT message.
EndLsn(k) == 2 * k

\* START_REPLICATION at `start` decodes exactly the transactions whose commit
\* record is not before it: this is the first of them.
FirstTxFrom(start) == (start + 2) \div 2

MaxLsn(a, b) == IF a >= b THEN a ELSE b
=============================================================================

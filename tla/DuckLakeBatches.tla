--------------------------- MODULE DuckLakeBatches ---------------------------
(***************************************************************************)
(* The per-table work of the DuckLake destination (ducklake/batches.rs):   *)
(* how the events of one table become mutations, how mutations are grouped *)
(* into the statements of one transaction and cut into atomic batches, and *)
(* which of them a replay skips.  These are pure operators; DuckLakeReplay *)
(* runs them.                                                              *)
(*                                                                         *)
(* A row is a function from Columns to values; a row image of a partial    *)
(* update has only the columns that PostgreSQL sent.  A table is a bag of  *)
(* rows: DuckLake has no unique keys, so a row inserted twice is there     *)
(* twice.  The SQL text of a predicate, an assignment or a literal is left *)
(* out, what it selects or sets is kept.                                   *)
(***************************************************************************)
EXTENDS Naturals, Sequences, SequencesExt, FiniteSets, Bags, Functions

CONSTANTS
  Columns,       \* the replicated columns
  Identity,      \* the replica-identity columns, a subset of Columns
  BatchSize      \* CDC_MUTATION_BATCH_SIZE

\* EventSequenceKey: the commit LSN of the transaction, then the ordinal of
\* the event in it.
SequenceKey(e) == <<e.commit, e.ordinal>>

KeyLess(a, b) == a[1] < b[1] \/ (a[1] = b[1] /\ a[2] < b[2])

\* The identity columns of a full or key row image; NULLs compare as values.
DeletePredicate(row) == Restrict(row, Identity)

Matches(row, predicate) == \A c \in DOMAIN predicate : row[c] = predicate[c]

\* The columns that a partial row carries; the others keep their value.
UpdateAssignments(row, partial) == [c \in Columns |-> IF c \in DOMAIN partial THEN partial[c] ELSE row[c]]

IsFull(image) == DOMAIN image = Columns

\* An update or a delete needs an identity to find its row by
\* (validate_ducklake_replica_identity), a delete its old image, and a partial
\* update without one its own identity columns (key_row_from_updated_partial_row).
IsApplicable(e) ==
  CASE e.kind = "update" -> /\ Identity # {}
                            /\ e.old = {} => Identity \subseteq DOMAIN e.new
    [] e.kind = "delete" -> Identity # {} /\ e.old # {}
    [] OTHER -> TRUE

\* The mutation that one insert, update or delete event asks for.
MutationOf(e) ==
  LET oldImage == CHOOSE r \in e.old : TRUE
  IN CASE e.kind = "insert" -> [op |-> "insert", row |-> e.new]
       [] e.kind = "delete" -> [op |-> "delete", predicate |-> DeletePredicate(oldImage)]
       [] e.kind = "update" /\ e.old # {} ->
            [op |-> "update", predicate |-> DeletePredicate(oldImage), new |-> e.new]
       [] e.kind = "update" /\ e.old = {} /\ IsFull(e.new) ->
            [op |-> "replace", predicate |-> DeletePredicate(e.new), new |-> e.new]
       [] e.kind = "update" /\ e.old = {} /\ ~IsFull(e.new) ->
            [op |-> "update", predicate |-> DeletePredicate(e.new), new |-> e.new]

Upsert(rows) == IF rows = <<>> THEN <<>> ELSE <<[stmt |-> "upsert", rows |-> rows]>>

DeleteRows(predicates) ==
  IF predicates = <<>> THEN <<>> ELSE <<[stmt |-> "delete", predicates |-> predicates]>>

UpdateRows(predicate, partial) == <<[stmt |-> "update", predicate |-> predicate, new |-> partial]>>

\* Mutant: an insert leaves the pending deletes for later.
AddMutationUnflushed(acc, m) ==
  IF m.op = "insert" THEN [acc EXCEPT !.upserts = Append(@, m.row)]
  ELSE [out |-> acc.out \o Upsert(acc.upserts)
                  \o IF m.op = "delete" THEN <<>>
                     ELSE DeleteRows(acc.deletes)
                            \o IF IsFull(m.new) THEN DeleteRows(<<m.predicate>>) \o Upsert(<<m.new>>)
                                                ELSE UpdateRows(m.predicate, m.new),
        upserts |-> <<>>,
        deletes |-> IF m.op = "delete" THEN Append(acc.deletes, m.predicate) ELSE <<>>]

\* Runs of inserts become one upsert and runs of deletes one delete statement.
\* Whatever ends a run writes it out before its own statement.
AddMutation(acc, m) ==
  CASE m.op = "insert" ->
         [out |-> acc.out \o DeleteRows(acc.deletes),
          upserts |-> Append(acc.upserts, m.row), deletes |-> <<>>]
    [] m.op = "delete" ->
         [out |-> acc.out \o Upsert(acc.upserts),
          upserts |-> <<>>, deletes |-> Append(acc.deletes, m.predicate)]
    [] OTHER ->
         [out |-> acc.out \o Upsert(acc.upserts) \o DeleteRows(acc.deletes)
                    \o IF IsFull(m.new) THEN DeleteRows(<<m.predicate>>) \o Upsert(<<m.new>>)
                                        ELSE UpdateRows(m.predicate, m.new),
          upserts |-> <<>>, deletes |-> <<>>]

PrepareTableMutations(mutations) ==
  LET acc == FoldLeft(AddMutation, [out |-> <<>>, upserts |-> <<>>, deletes |-> <<>>], mutations)
  IN acc.out \o Upsert(acc.upserts) \o DeleteRows(acc.deletes)

\* One atomic batch: its kind, its statements and the keys of its first and
\* last event.
PreparedMutationBatch(events) ==
  [kind |-> "mutation",
   first |-> SequenceKey(Head(events)), last |-> SequenceKey(Last(events)),
   statements |-> PrepareTableMutations([i \in DOMAIN events |-> MutationOf(events[i])])]

\* Source order is kept and a batch ends only at the size cap.
PrepareMutationTableBatches(events) ==
  LET count == (Len(events) + BatchSize - 1) \div BatchSize
      Cut(i) == SubSeq(events, (i - 1) * BatchSize + 1,
                       IF i * BatchSize < Len(events) THEN i * BatchSize ELSE Len(events))
  IN [i \in 1..count |-> PreparedMutationBatch(Cut(i))]

PrepareTruncateTableBatch(events) ==
  [kind |-> "truncate",
   first |-> SequenceKey(Head(events)), last |-> SequenceKey(Last(events)),
   statements |-> <<[stmt |-> "truncate"]>>]

\* The identity of a copy chunk is a hash of its table and rows; a hash is
\* taken to be collision free.
CopyBatchId(rows) == rows

\* Mutant: the replayed events are not filtered before they are cut into batches.
RetainAll(events, watermark) == events

\* The events after the table's watermark, which is {} or the key of the last
\* applied event (retain_mutations_ and retain_truncates_after_sequence_key).
RetainAfter(events, watermark) ==
  SelectSeq(events, LAMBDA e : \A k \in watermark : KeyLess(k, SequenceKey(e)))

\* What a replay does with a batch, given the watermark.
StreamingReplayDecision(watermark, batch) ==
  IF \E k \in watermark : ~KeyLess(k, batch.first)
  THEN IF \E k \in watermark : KeyLess(k, batch.last) THEN "inside" ELSE "skip"
  ELSE "apply"

BagOf(rows) == FoldLeft(LAMBDA bag, r : bag (+) SetToBag({r}), EmptyBag, rows)

Without(table, predicate) ==
  LET kept == {r \in DOMAIN table : ~Matches(r, predicate)} IN Restrict(table, kept)

UpdateWhere(table, predicate, partial) ==
  LET hit == {r \in DOMAIN table : Matches(r, predicate)}
      moved == {UpdateAssignments(r, partial) : r \in hit}
      Copies(q) == FoldSet(LAMBDA r, n : n + table[r], 0,
                           {r \in hit : UpdateAssignments(r, partial) = q})
  IN Without(table, predicate) (+) [q \in moved |-> Copies(q)]

\* One statement of the open transaction.
ApplyTableMutation(table, s) ==
  CASE s.stmt = "upsert" -> table (+) BagOf(s.rows)
    [] s.stmt = "delete" -> FoldLeft(Without, table, s.predicates)
    [] s.stmt = "update" -> UpdateWhere(table, s.predicate, s.new)
    [] s.stmt = "truncate" -> EmptyBag

ApplyStatements(table, statements) == FoldLeft(ApplyTableMutation, table, statements)

-----------------------------------------------------------------------------
(* The reference: what the source's events mean, one after the other.      *)

EventEffect(table, e) ==
  CASE e.kind = "insert" -> table (+) SetToBag({e.new})
    [] e.kind = "truncate" -> EmptyBag
    [] e.kind = "delete" -> Without(table, DeletePredicate(CHOOSE r \in e.old : TRUE))
    [] e.kind = "update" ->
         LET predicate == DeletePredicate(IF e.old = {} THEN e.new ELSE CHOOSE r \in e.old : TRUE)
         IN IF IsFull(e.new) THEN Without(table, predicate) (+) SetToBag({e.new})
                             ELSE UpdateWhere(table, predicate, e.new)
=============================================================================

----------------------------- MODULE SchemaWals -----------------------------
(* Small histories of one table.  Row(l) and Ddl(l) are its messages at an  *)
(* LSN; the transactions that share no lock with it are interleaved freely. *)
EXTENDS Naturals, Sequences

Row(l) == [kind |-> "row", lsn |-> l]
Ddl(l) == [kind |-> "ddl", lsn |-> l]
Tx(items, end) == [items |-> items, end |-> end]

\* A DDL before, inside or after the rows of its transaction, and one alone.
OrderedWals ==
  {<<Tx(<<Row(1)>>, 2), Tx(<<Ddl(3), Row(4)>>, 5), Tx(<<Ddl(6), Row(7)>>, 8)>>,
   <<Tx(<<Row(1), Ddl(2), Row(3)>>, 4), Tx(<<Row(5)>>, 6), Tx(<<Ddl(7)>>, 8),
     Tx(<<Row(9)>>, 10)>>}

\* Three versions, of which two fit in the cache.
ThreeDdlWals ==
  {<<Tx(<<Ddl(1), Row(2)>>, 3), Tx(<<Ddl(4), Row(5)>>, 6), Tx(<<Ddl(7), Row(8)>>, 9)>>}

\* A transaction of another table commits between the row and the commit of a
\* transaction that changes this table's columns.
InterleavedWals ==
  {<<Tx(<<>>, 4), Tx(<<Row(1), Ddl(2), Row(3)>>, 5)>>}
=============================================================================

--------------------------- MODULE CtidPartitions ---------------------------
(***************************************************************************)
(* How the initial copy of a table divides its pages between connections   *)
(* (etl/src/replication/client.rs).  A partition is a half-open range of   *)
(* tuple identifiers whose bounds sit on page boundaries, so it is a range *)
(* of blocks; the first partition has no lower and the last no upper bound.*)
(***************************************************************************)
EXTENDS Integers

OpenStart(end) == [kind |-> "OpenStart", start |-> 0, end |-> end]
Closed(start, end) == [kind |-> "Closed", start |-> start, end |-> end]
OpenEnd(start) == [kind |-> "OpenEnd", start |-> start, end |-> 0]

min(a, b) == IF a < b THEN a ELSE b

effective_partitions(blocks, num) == min(num, blocks)

blocks_per_partition(blocks, num) ==
  LET n == effective_partitions(blocks, num) IN (blocks + n - 1) \div n

\* The i-th range, counted from 0.
CtidPartition(blocks, num, i) ==
  LET n     == effective_partitions(blocks, num)
      per   == blocks_per_partition(blocks, num)
      start == i * per
      end   == min((i + 1) * per, blocks)
  IN  IF n = 1 THEN OpenEnd(0)
      ELSE IF i = 0 THEN OpenStart(end)
      ELSE IF i = n - 1 THEN OpenEnd(start)
      ELSE Closed(start, end)

\* An empty table has no ranges; zero requested partitions is a configuration
\* error that the caller never provokes (it asks for more than one).
plan_ctid_partitions(blocks, num) ==
  IF blocks = 0 THEN <<>>
  ELSE [i \in 1..effective_partitions(blocks, num) |-> CtidPartition(blocks, num, i - 1)]

\* The predicate of the COPY query: a tuple of block b lies in range p.
InCtidRange(p, b) ==
  /\ p.kind # "OpenStart" => b >= p.start
  /\ p.kind # "OpenEnd" => b < p.end
=============================================================================

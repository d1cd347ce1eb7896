------------------------ MODULE CtidPartitionsProofs ------------------------
(***************************************************************************)
(* The ranges of plan_ctid_partitions cover the pages of a table, each     *)
(* once, for every number of pages and of requested partitions.            *)
(***************************************************************************)
EXTENDS CtidPartitions, TLAPS

\* Multiples of a positive number are as far apart as their factors.
LEMMA MultiplesAreOrdered ==
  ASSUME NEW per \in Nat, NEW i \in Nat, NEW j \in Nat, i < j
  PROVE  (i + 1) * per <= j * per
<1>1. PICK d \in Nat : j = i + 1 + d
  <2>1. j - i - 1 \in Nat /\ j = i + 1 + (j - i - 1)
    OBVIOUS
  <2> QED BY <2>1
<1>2. j * per = (i + 1) * per + d * per
  BY <1>1
<1>3. d * per \in Nat /\ (i + 1) * per \in Int /\ j * per \in Int
  OBVIOUS
<1> QED BY <1>2, <1>3

\* The multiple of per at or below b.
LEMMA Quotient ==
  ASSUME NEW per \in Nat, per > 0, NEW b \in Nat
  PROVE  \E i \in Nat : i * per <= b /\ b < (i + 1) * per
<1>1. b \div per \in Nat /\ (b \div per) * per <= b /\ b < (b \div per + 1) * per
  OBVIOUS
<1> QED BY <1>1

\* The quotient is rounded up: n ranges of this length reach the last page.
LEMMA RangesReachTheEnd ==
  ASSUME NEW blocks \in Nat, blocks > 0, NEW num \in Nat, num > 0
  PROVE  LET n == effective_partitions(blocks, num)
             per == blocks_per_partition(blocks, num)
         IN  n \in Nat /\ n > 0 /\ per \in Nat /\ per > 0 /\ blocks <= n * per
<1> DEFINE n == effective_partitions(blocks, num)
           per == blocks_per_partition(blocks, num)
<1>1. n \in Nat /\ n > 0 /\ n <= blocks
  BY DEF effective_partitions, min
<1> HIDE DEF n
<1>2. per = (blocks + n - 1) \div n
  BY DEF blocks_per_partition, n
<1> HIDE DEF per
<1>3. per \in Int /\ n * per <= blocks + n - 1 /\ blocks + n - 1 < n * per + n
  BY <1>1, <1>2
<1>4. blocks <= n * per
  BY <1>1, <1>3
<1>5. per > 0
  <2>1. SUFFICES ASSUME per <= 0 PROVE FALSE
    BY <1>3
  <2>2. n * per <= 0
    BY <1>1, <1>3, <2>1
  <2> QED BY <1>1, <1>3, <1>4, <2>2
<1> QED BY <1>1, <1>3, <1>4, <1>5 DEF n, per

\* Below the size that was read, the open bounds and the cut-off last bound of
\* the ranges make no difference: range k holds the pages from k * per on, per
\* of them.
LEMMA RangeOfPages ==
  ASSUME NEW blocks \in Nat, NEW num \in Nat, num > 0,
         NEW b \in 0..(blocks - 1), NEW k \in 0..(effective_partitions(blocks, num) - 1)
  PROVE  LET per == blocks_per_partition(blocks, num)
         IN  InCtidRange(CtidPartition(blocks, num, k), b) <=> k * per <= b /\ b < (k + 1) * per
<1> DEFINE n == effective_partitions(blocks, num)
           per == blocks_per_partition(blocks, num)
           p == CtidPartition(blocks, num, k)
<1>1. n \in Nat /\ n > 0 /\ per \in Nat /\ per > 0 /\ blocks <= n * per
  <2>1. blocks > 0
    OBVIOUS
  <2> QED BY <2>1, RangesReachTheEnd
<1>2. b \in Nat /\ b < blocks /\ k \in Nat /\ k < n
  BY <1>1
<1>3. k * per \in Nat /\ (k + 1) * per \in Nat
  BY <1>1, <1>2
<1>4. p = IF n = 1 THEN OpenEnd(0)
          ELSE IF k = 0 THEN OpenStart(min((k + 1) * per, blocks))
          ELSE IF k = n - 1 THEN OpenEnd(k * per)
          ELSE Closed(k * per, min((k + 1) * per, blocks))
  BY DEF CtidPartition
<1> HIDE DEF n, per, p
<1>5. k = 0 => k * per = 0
  BY <1>1
<1>6. k = n - 1 => b < (k + 1) * per
  BY <1>1, <1>2
<1>7. b < min((k + 1) * per, blocks) <=> b < (k + 1) * per
  BY <1>2, <1>3 DEF min
<1>8. InCtidRange(p, b) <=> k * per <= b /\ b < (k + 1) * per
  <2>1. CASE n = 1
    BY <2>1, <1>1, <1>2, <1>3, <1>4, <1>5, <1>6 DEF InCtidRange, OpenEnd
  <2>2. CASE n # 1 /\ k = 0
    BY <2>2, <1>2, <1>3, <1>4, <1>5, <1>7 DEF InCtidRange, OpenStart
  <2>3. CASE n # 1 /\ k # 0 /\ k = n - 1
    BY <2>3, <1>2, <1>3, <1>4, <1>6 DEF InCtidRange, OpenEnd
  <2>4. CASE n # 1 /\ k # 0 /\ k # n - 1
    BY <2>4, <1>2, <1>3, <1>4, <1>7 DEF InCtidRange, Closed
  <2> QED BY <2>1, <2>2, <2>3, <2>4
<1> QED BY <1>8 DEF p, per

\* Every page that the table had when its size was read lies in exactly one of
\* the ranges that plan_ctid_partitions returns, so that parallel copies neither
\* miss nor repeat a row of the snapshot, for any size and any number of
\* connections.
THEOREM PagesArePartitioned ==
  ASSUME NEW blocks \in Nat, NEW num \in Nat, num > 0, NEW b \in 0..(blocks - 1)
  PROVE  LET plan == plan_ctid_partitions(blocks, num)
         IN  \E i \in DOMAIN plan :
               /\ InCtidRange(plan[i], b)
               /\ \A j \in DOMAIN plan : InCtidRange(plan[j], b) => j = i
<1> DEFINE n == effective_partitions(blocks, num)
           per == blocks_per_partition(blocks, num)
           plan == plan_ctid_partitions(blocks, num)
<1>1. n \in Nat /\ n > 0 /\ per \in Nat /\ per > 0 /\ blocks <= n * per
  <2>1. blocks > 0
    OBVIOUS
  <2> QED BY <2>1, RangesReachTheEnd
<1>2. b \in Nat /\ b < blocks
  OBVIOUS
<1>3. /\ DOMAIN plan = 1..n
      /\ \A i \in 1..n : plan[i] = CtidPartition(blocks, num, i - 1)
  BY <1>2 DEF plan_ctid_partitions
<1>4. \A i \in 1..n : InCtidRange(plan[i], b) <=> (i - 1) * per <= b /\ b < i * per
  <2>1. TAKE i \in 1..n
  <2>2. i - 1 \in 0..(n - 1) /\ (i - 1) + 1 = i
    BY <1>1
  <2>3. InCtidRange(CtidPartition(blocks, num, i - 1), b)
          <=> (i - 1) * per <= b /\ b < ((i - 1) + 1) * per
    BY <2>2, RangeOfPages
  <2> QED BY <1>3, <2>2, <2>3
<1> HIDE DEF n, per, plan
<1>5. PICK k \in Nat : k * per <= b /\ b < (k + 1) * per
  BY <1>1, <1>2, Quotient
<1>6. k < n
  <2>1. SUFFICES ASSUME n <= k PROVE FALSE
    BY <1>1
  <2>2. n * per <= k * per
    <3>1. CASE n = k
      BY <3>1, <1>1
    <3>2. CASE n < k
      <4>1. (n + 1) * per <= k * per
        BY <3>2, <1>1, MultiplesAreOrdered
      <4>2. (n + 1) * per = n * per + per
        BY <1>1
      <4>3. n * per \in Nat /\ k * per \in Nat
        BY <1>1
      <4> QED BY <4>1, <4>2, <4>3, <1>1
    <3> QED BY <2>1, <3>1, <3>2, <1>1
  <2>3. n * per \in Nat /\ k * per \in Nat
    BY <1>1
  <2> QED BY <1>1, <1>2, <1>5, <2>2, <2>3
<1>7. k + 1 \in 1..n /\ InCtidRange(plan[k + 1], b)
  BY <1>1, <1>4, <1>5, <1>6
<1>8. ASSUME NEW j \in 1..n, InCtidRange(plan[j], b)
      PROVE  j = k + 1
  <2>1. (j - 1) * per <= b /\ b < j * per
    BY <1>4, <1>8
  <2>2. (j - 1) \in Nat /\ (j - 1) + 1 = j /\ k \in Nat
    BY <1>1
  <2>3. (j - 1) * per \in Nat /\ j * per \in Nat /\ k * per \in Nat /\ (k + 1) * per \in Nat
    BY <1>1, <2>2
  <2>4. ~(j - 1 < k)
    <3>1. SUFFICES ASSUME j - 1 < k PROVE FALSE
      OBVIOUS
    <3>2. ((j - 1) + 1) * per <= k * per
      BY <3>1, <2>2, <1>1, MultiplesAreOrdered
    <3> QED BY <3>2, <2>1, <2>2, <2>3, <1>2, <1>5
  <2>5. ~(k < j - 1)
    <3>1. SUFFICES ASSUME k < j - 1 PROVE FALSE
      OBVIOUS
    <3>2. (k + 1) * per <= (j - 1) * per
      BY <3>1, <2>2, <1>1, MultiplesAreOrdered
    <3> QED BY <3>2, <2>1, <2>3, <1>2, <1>5
  <2> QED BY <2>2, <2>4, <2>5
<1> QED BY <1>3, <1>7, <1>8 DEF plan
=============================================================================

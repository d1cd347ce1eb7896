------------------------ MODULE PostgresStatesProofs ------------------------
(***************************************************************************)
(* Proofs about PostgresStates, for every number of tables, requests and   *)
(* rows: the history of a table is one chain of rows (HistoryIsChain), and *)
(* the cache of the store follows the rows (CacheFollowsRows).             *)
(***************************************************************************)
EXTENDS PostgresStates, TLAPS

\* The rows of a table with ids below n.
IsHistory(r, n) ==
  /\ DOMAIN r \subseteq Nat
  /\ \A i \in DOMAIN r : r[i] \in Row /\ i < n
  /\ IsChain(r)

\* What a rollback has read stays true of the row it names.
ReadHolds(r, n, read) ==
  /\ read \in Read
  /\ read.current < n
  /\ Null < read.prev
  /\ read.prev < read.current
  /\ read.current \in DOMAIN r => r[read.current].prev = read.prev

\* The inductive invariant.
Inv ==
  /\ TypeOK
  /\ \A t \in Tables : IsHistory(rows[t], next_id[t])
  /\ \A p \in Processes : \A t \in DOMAIN reads[p] :
       ReadHolds(rows[t], next_id[t], reads[p][t])
  /\ CacheFollowsRows

-----------------------------------------------------------------------------
(* The statements keep a chain a chain.                                     *)

\* A chain has one current row at most (the partial unique index).
LEMMA OneCurrent ==
  ASSUME NEW r, NEW n, IsHistory(r, n), NEW i \in Current(r)
  PROVE  CurrentRow(r) = i /\ CurrentPhase(r) = r[i].phase
<1>1. \A j \in Current(r) : j = i
  BY DEF IsHistory, IsChain, Current
<1>2. CurrentRow(r) \in Current(r)
  BY DEF CurrentRow
<1> QED
  BY <1>1, <1>2 DEF CurrentPhase

\* A table without rows has a history (delete_replication_state_for_table).
LEMMA NothingIsHistory ==
  ASSUME NEW n
  PROVE  IsHistory(Nothing, n) /\ DOMAIN Nothing = {} /\ CurrentPhase(Nothing) = NoPhase
BY DEF Nothing, IsHistory, IsChain, Current, CurrentPhase

\* reset_replication_state leaves a history of one row.
LEMMA ResetIsHistory ==
  ASSUME NEW n \in Nat \ {0}
  PROVE  IsHistory(Reset(n), n + 1) /\ DOMAIN Reset(n) = {n}
BY StatesAssumption DEF Reset, IsHistory, IsChain, Current, Row, Null

\* update_replication_state_raw puts the new row at the end of the chain.
LEMMA UpdatedIsHistory ==
  ASSUME NEW r, NEW n \in Nat \ {0}, IsHistory(r, n), NEW phase \in Phases
  PROVE  /\ IsHistory(Updated(r, n, phase), n + 1)
         /\ CurrentPhase(Updated(r, n, phase)) = phase
         /\ DOMAIN Updated(r, n, phase) = DOMAIN r \cup {n}
         /\ \A i \in DOMAIN r : Updated(r, n, phase)[i].prev = r[i].prev
<1> DEFINE u == Updated(r, n, phase)
<1> DEFINE last == IF Current(r) = {} THEN Null ELSE CurrentRow(r)
<1>1. n \notin DOMAIN r
  BY DEF IsHistory
<1>2. DOMAIN u = DOMAIN r \cup {n}
  BY DEF Updated
<1>3. u[n] = [phase |-> phase, prev |-> last, is_current |-> TRUE]
  BY DEF Updated
<1>4. \A i \in DOMAIN r : u[i] = [r[i] EXCEPT !.is_current = FALSE]
  BY <1>1 DEF Updated
<1>5. \A i \in DOMAIN r : /\ u[i] \in Row
                          /\ u[i].prev = r[i].prev
                          /\ u[i].is_current = FALSE
  BY <1>4 DEF IsHistory, Row
<1>6. /\ last \in DOMAIN r \cup {Null}
      /\ last < n
      /\ last \in Nat
      /\ \A j \in DOMAIN r : j <= last
      /\ \A i \in Current(r) : last = i
  <2>1. CASE Current(r) = {}
    BY <2>1 DEF IsHistory, IsChain, Null
  <2>2. CASE Current(r) # {}
    <3>1. PICK i \in Current(r) : TRUE
      BY <2>2
    <3>2. last = i
      BY <2>2, <3>1, OneCurrent
    <3>3. \A k \in Current(r) : last = k
      BY <2>2, OneCurrent
    <3>4. i \in DOMAIN r /\ \A j \in DOMAIN r : j <= i
      BY <3>1 DEF IsHistory, IsChain, Current
    <3> QED
      BY <3>2, <3>3, <3>4 DEF IsHistory
  <2> QED
    BY <2>1, <2>2
<1> HIDE DEF u, last
<1>7. u[n] \in Row
  BY <1>3, <1>6 DEF Row
<1>8. ASSUME NEW i \in DOMAIN u
      PROVE  /\ i > Null
             /\ u[i].prev \in DOMAIN u \cup {Null}
             /\ u[i].prev < i
             /\ \A j \in DOMAIN u : j < i => j <= u[i].prev
             /\ u[i].is_current <=> \A j \in DOMAIN u : j <= i
             /\ u[i].is_current \/ \E j \in DOMAIN u : u[j].prev = i
  <2>1. CASE i = n
    BY <1>2, <1>3, <1>6, <2>1 DEF IsHistory, Null
  <2>2. CASE i \in DOMAIN r
    <3>1. ~u[i].is_current /\ ~(\A j \in DOMAIN u : j <= i)
      BY <1>2, <1>5, <2>2 DEF IsHistory
    <3>2. \E j \in DOMAIN u : u[j].prev = i
      <4>1. CASE r[i].is_current
        BY <1>2, <1>3, <1>6, <2>2, <4>1 DEF Current
      <4>2. CASE ~r[i].is_current
        BY <1>2, <1>5, <2>2, <4>2 DEF IsHistory, IsChain
      <4> QED
        BY <4>1, <4>2
    <3>3. /\ i > Null
          /\ u[i].prev \in DOMAIN u \cup {Null}
          /\ u[i].prev < i
      BY <1>2, <1>5, <2>2 DEF IsHistory, IsChain
    <3>4. \A j \in DOMAIN u : j < i => j <= u[i].prev
      BY <1>2, <1>5, <2>2 DEF IsHistory, IsChain
    <3> QED
      BY <3>1, <3>2, <3>3, <3>4
  <2> QED
    BY <1>2, <2>1, <2>2
<1>9. n \in Current(u)
  BY <1>2, <1>3 DEF Current
<1>10. IsChain(u)
  BY <1>8, <1>9 DEF IsChain
<1>11. IsHistory(u, n + 1)
  BY <1>2, <1>5, <1>7, <1>10 DEF IsHistory
<1>12. CurrentPhase(u) = phase
  BY <1>3, <1>9, <1>11, OneCurrent
<1> QED
  BY <1>2, <1>5, <1>11, <1>12 DEF u

\* rollback_replication_state either fails on a constraint or leaves the chain
\* without its last row; a read that is stale changes nothing.
LEMMA RolledBackIsHistory ==
  ASSUME NEW r, NEW n \in Nat, IsHistory(r, n),
         NEW read, ReadHolds(r, n, read), CanRollback(r, read)
  PROVE  /\ IsHistory(RolledBack(r, read), n)
         /\ CurrentPhase(RolledBack(r, read)) = r[read.prev].phase
         /\ DOMAIN RolledBack(r, read) \subseteq DOMAIN r
         /\ \A i \in DOMAIN RolledBack(r, read) : RolledBack(r, read)[i].prev = r[i].prev
<1> DEFINE b == RolledBack(r, read)
<1> DEFINE c == read.current
<1> DEFINE q == read.prev
<1>1. c \in Nat /\ q \in Nat /\ q < c /\ q \in DOMAIN r /\ Null < q
  BY DEF ReadHolds, Read, CanRollback
<1>2. DOMAIN b = DOMAIN r \ {c} /\ q \in DOMAIN b
  BY <1>1 DEF RolledBack
<1>3. b[q] = [r[q] EXCEPT !.is_current = TRUE]
  BY <1>1 DEF RolledBack
<1>4. \A i \in DOMAIN b : i # q => b[i] = r[i]
  BY DEF RolledBack
<1>5. \A i \in DOMAIN b : /\ b[i] \in Row
                          /\ b[i].prev = r[i].prev
                          /\ b[i].phase = r[i].phase
  <2>1. \A i \in DOMAIN r : r[i] \in Row
    BY DEF IsHistory
  <2>2. b[q] \in Row /\ b[q].prev = r[q].prev /\ b[q].phase = r[q].phase
    BY <1>1, <1>3, <2>1 DEF Row
  <2> HIDE DEF b, q
  <2> QED
    BY <1>2, <1>4, <2>1, <2>2
<1>6. \A i \in DOMAIN b : b[i].is_current <=> i = q
  <2>1. \A i \in DOMAIN b : i # q => ~r[i].is_current
    BY <1>2 DEF CanRollback, CanMakeCurrent, Current
  <2>2. b[q].is_current
    BY <1>1, <1>3 DEF IsHistory, Row
  <2>3. \A i \in DOMAIN b : b[i].is_current \in BOOLEAN /\ r[i].is_current \in BOOLEAN
    BY <1>2, <1>5 DEF IsHistory, Row
  <2> QED
    BY <1>4, <2>1, <2>2, <2>3
\* The row that was read is the last one, or is gone and the row before it is
\* the last one.
<1>7. \A j \in DOMAIN r : j \in DOMAIN b => j <= q
  <2>1. CASE c \in DOMAIN r
    <3>1. r[c].is_current
      BY <2>1 DEF IsHistory, IsChain, CanRollback, CanDelete
    <3>2. \A j \in DOMAIN r : j <= c
      BY <2>1, <3>1 DEF IsHistory, IsChain
    <3>3. r[c].prev = q
      BY <2>1 DEF ReadHolds
    <3>4. \A j \in DOMAIN r : j < c => j <= q
      BY <2>1, <3>3 DEF IsHistory, IsChain
    <3> QED
      BY <1>1, <1>2, <3>2, <3>4 DEF IsHistory
  <2>2. CASE c \notin DOMAIN r
    <3>1. Current(r) # {}
      BY <1>1 DEF IsHistory, IsChain
    <3>2. q \in Current(r)
      BY <2>2, <3>1 DEF CanRollback, CanMakeCurrent, Current
    <3> QED
      BY <3>2 DEF IsHistory, IsChain, Current
  <2> QED
    BY <2>1, <2>2
<1> HIDE DEF b, c, q
<1>8. ASSUME NEW i \in DOMAIN b
      PROVE  /\ i > Null
             /\ b[i].prev \in DOMAIN b \cup {Null}
             /\ b[i].prev < i
             /\ \A j \in DOMAIN b : j < i => j <= b[i].prev
             /\ b[i].is_current <=> \A j \in DOMAIN b : j <= i
             /\ b[i].is_current \/ \E j \in DOMAIN b : b[j].prev = i
  <2>1. i \in DOMAIN r /\ i <= q /\ i \in Nat
    BY <1>2, <1>7 DEF IsHistory
  <2>2. i > Null /\ b[i].prev < i /\ b[i].prev \in DOMAIN r \cup {Null}
    BY <1>5, <2>1 DEF IsHistory, IsChain
  <2>3. b[i].prev # c
    BY <1>1, <2>1, <2>2
  <2>4. \A j \in DOMAIN b : j < i => j <= b[i].prev
    BY <1>2, <1>5, <2>1 DEF IsHistory, IsChain
  <2>5. b[i].is_current <=> \A j \in DOMAIN b : j <= i
    BY <1>1, <1>2, <1>6, <1>7, <2>1 DEF IsHistory
  <2>6. ASSUME i # q
        PROVE  \E j \in DOMAIN b : b[j].prev = i
    <3>1. ~r[i].is_current
      <4>1. r[i].is_current \in BOOLEAN /\ b[i] = r[i]
        BY <1>4, <2>1, <2>6 DEF IsHistory, Row
      <4> QED
        BY <1>6, <2>6, <4>1
    <3>2. PICK j \in DOMAIN r : r[j].prev = i
      BY <2>1, <3>1 DEF IsHistory, IsChain
    <3>3. j # c
      BY <2>6, <3>2 DEF ReadHolds, c, q
    <3> QED
      BY <1>2, <1>5, <3>2, <3>3
  <2> QED
    BY <1>2, <1>6, <2>2, <2>3, <2>4, <2>5, <2>6
<1>9. q \in Current(b)
  BY <1>2, <1>6 DEF Current
<1>10. IsChain(b)
  BY <1>8, <1>9 DEF IsChain
<1>11. IsHistory(b, n)
  BY <1>2, <1>5, <1>10 DEF IsHistory
<1>12. CurrentPhase(b) = r[q].phase
  BY <1>2, <1>5, <1>9, <1>11, OneCurrent
<1> QED
  BY <1>2, <1>5, <1>11, <1>12 DEF b, c, q
-----------------------------------------------------------------------------
(* The actions.                                                             *)

\* A read of a rollback stays true while rows are only appended to or removed
\* from the history, and ids are not used again.
LEMMA ReadStillHolds ==
  ASSUME NEW r, NEW n \in Nat, NEW read, ReadHolds(r, n, read),
         NEW s, NEW k \in Nat, n <= k,
         \A i \in DOMAIN s : i < n => i \in DOMAIN r /\ s[i].prev = r[i].prev
  PROVE  ReadHolds(s, k, read)
BY DEF ReadHolds, Read

\* What a commit leaves in the cache, reported or not.
LEMMA CommitKeepsCache ==
  ASSUME TypeOK, CacheFollowsRows, NEW tables \in SUBSET Tables, NEW phase,
         \A t \in tables : phase[t] \in Phases \cup {NoPhase},
         \A t \in tables : phase[t] = CurrentPhase(rows'[t]),
         \A t \in Tables \ tables : rows'[t] = rows[t],
         Commit(tables, phase)
  PROVE  /\ CacheFollowsRows'
         /\ cache' \in [Tables -> Phases \cup {NoPhase}]
         /\ drifted' \subseteq Tables
<1>1. CASE /\ cache' = [t \in Tables |-> IF t \in tables THEN phase[t] ELSE cache[t]]
           /\ drifted' = drifted \ tables
  BY <1>1 DEF TypeOK, CacheFollowsRows
<1>2. CASE drifted' = drifted \cup tables /\ UNCHANGED cache
  BY <1>2 DEF TypeOK, CacheFollowsRows
<1> QED
  BY <1>1, <1>2 DEF Commit

\* The rows and the reads after a step that changes the histories of some tables.
LEMMA InvFromHistories ==
  ASSUME Inv,
         DOMAIN rows' = Tables, next_id' \in [Tables -> Nat \ {0}],
         \A t \in Tables : IsHistory(rows'[t], next_id'[t]) /\ next_id[t] <= next_id'[t],
         \A t \in Tables : \A i \in DOMAIN rows'[t] : i < next_id[t] =>
           i \in DOMAIN rows[t] /\ rows'[t][i].prev = rows[t][i].prev,
         DOMAIN reads' = Processes,
         \A p \in Processes : reads'[p] = reads[p] \/ reads'[p] = Nothing,
         CacheFollowsRows',
         cache' \in [Tables -> Phases \cup {NoPhase}],
         drifted' \subseteq Tables
  PROVE  Inv'
<1>1. DOMAIN Nothing = {}
  BY NothingIsHistory
<1>2. \A p \in Processes : DOMAIN reads'[p] \subseteq Tables
  BY <1>1 DEF Inv, TypeOK
<1>3. ASSUME NEW p \in Processes, NEW t \in DOMAIN reads'[p]
      PROVE  ReadHolds(rows'[t], next_id'[t], reads'[p][t])
  <2>1. t \in DOMAIN reads[p] /\ reads'[p] = reads[p]
    BY <1>1, <1>3
  <2>2. t \in Tables
    BY <1>2, <1>3
  <2>3. ReadHolds(rows[t], next_id[t], reads[p][t])
    BY <2>1 DEF Inv
  <2>4. next_id[t] \in Nat /\ next_id'[t] \in Nat
    BY <2>2 DEF Inv, TypeOK
  <2> QED
    BY <2>1, <2>2, <2>3, <2>4, ReadStillHolds
<1>4. \A p \in Processes : \A t \in DOMAIN reads'[p] : reads'[p][t] \in Read
  BY <1>3 DEF ReadHolds
<1>5. "store" \in Processes
  BY DEF Processes
<1>6. \A t, u \in DOMAIN reads'["store"] : t = u
  BY <1>1, <1>5 DEF Inv, TypeOK
<1>7. \A t \in Tables :
        DOMAIN rows'[t] \subseteq Nat /\ \A i \in DOMAIN rows'[t] : rows'[t][i] \in Row
  BY DEF IsHistory
<1>8. TypeOK'
  BY <1>2, <1>4, <1>6, <1>7 DEF TypeOK
<1> QED
  BY <1>3, <1>8 DEF Inv

\* A pipeline without rows satisfies the invariant.
LEMMA InitInv == Init => Inv
<1> SUFFICES ASSUME Init PROVE Inv
  OBVIOUS
<1>1. \A t \in Tables : rows[t] = Nothing /\ next_id[t] = 1 /\ cache[t] = NoPhase
  BY DEF Init
<1>2. \A p \in Processes : reads[p] = Nothing
  BY DEF Init
<1>3. DOMAIN Nothing = {} /\ CurrentPhase(Nothing) = NoPhase
  BY NothingIsHistory
<1>4. "store" \in Processes
  BY DEF Processes
<1>5. TypeOK
  BY <1>1, <1>2, <1>3, <1>4 DEF Init, TypeOK
<1>6. \A t \in Tables : IsHistory(rows[t], next_id[t])
  BY <1>1, NothingIsHistory
<1>7. CacheFollowsRows
  BY <1>1, <1>3 DEF CacheFollowsRows
<1> QED
  BY <1>2, <1>3, <1>5, <1>6, <1>7 DEF Inv

\* update_table_replication_states: one row more in each of the tables.
LEMMA UpdateStatesInv ==
  ASSUME Inv, NEW tables \in SUBSET Tables, NEW phase \in [tables -> Phases],
         UpdateStates(tables, phase)
  PROVE  Inv'
<1>1. /\ rows' = [t \in Tables |->
           IF t \in tables THEN Updated(rows[t], next_id[t], phase[t]) ELSE rows[t]]
      /\ next_id' = [t \in Tables |->
           IF t \in tables THEN next_id[t] + 1 ELSE next_id[t]]
      /\ Commit(tables, phase)
      /\ reads' = reads
  BY DEF UpdateStates, TakeIds
<1>2. \A t \in Tables : next_id[t] \in Nat \ {0} /\ IsHistory(rows[t], next_id[t])
  BY DEF Inv, TypeOK
<1>3. \A t \in tables : phase[t] \in Phases
  OBVIOUS
<1>4. ASSUME NEW t \in Tables
      PROVE  /\ IsHistory(rows'[t], next_id'[t])
             /\ next_id'[t] \in Nat \ {0}
             /\ next_id[t] <= next_id'[t]
             /\ \A i \in DOMAIN rows'[t] : i < next_id[t] =>
                  i \in DOMAIN rows[t] /\ rows'[t][i].prev = rows[t][i].prev
             /\ t \in tables => CurrentPhase(rows'[t]) = phase[t]
  <2>1. CASE t \in tables
    <3>1. rows'[t] = Updated(rows[t], next_id[t], phase[t]) /\ next_id'[t] = next_id[t] + 1
      BY <1>1, <2>1
    <3>2. /\ IsHistory(rows'[t], next_id[t] + 1)
          /\ CurrentPhase(rows'[t]) = phase[t]
          /\ DOMAIN rows'[t] = DOMAIN rows[t] \cup {next_id[t]}
          /\ \A i \in DOMAIN rows[t] : rows'[t][i].prev = rows[t][i].prev
      <4>1. next_id[t] \in Nat \ {0} /\ IsHistory(rows[t], next_id[t]) /\ phase[t] \in Phases
        BY <1>2, <1>3, <2>1
      <4> DEFINE u == Updated(rows[t], next_id[t], phase[t])
      <4>2. /\ IsHistory(u, next_id[t] + 1)
            /\ CurrentPhase(u) = phase[t]
            /\ DOMAIN u = DOMAIN rows[t] \cup {next_id[t]}
            /\ \A i \in DOMAIN rows[t] : u[i].prev = rows[t][i].prev
        BY <4>1, UpdatedIsHistory, Zenon
      <4> QED
        BY <3>1, <4>2
    <3>3. next_id[t] \in Nat \ {0}
      BY <1>2
    <3> QED
      BY <3>1, <3>2, <3>3
  <2>2. CASE t \notin tables
    BY <1>1, <1>2, <2>2
  <2> QED
    BY <2>1, <2>2
<1>5. \A t \in Tables \ tables : rows'[t] = rows[t]
  BY <1>1
<1>6. /\ CacheFollowsRows'
      /\ cache' \in [Tables -> Phases \cup {NoPhase}]
      /\ drifted' \subseteq Tables
  BY <1>1, <1>3, <1>4, <1>5, CommitKeepsCache DEF Inv
<1>7. DOMAIN rows' = Tables /\ next_id' \in [Tables -> Nat \ {0}]
  BY <1>1, <1>4
<1>8. DOMAIN reads' = Processes /\ \A p \in Processes : reads'[p] = reads[p]
  BY <1>1 DEF Inv, TypeOK
<1> QED
  BY <1>4, <1>6, <1>7, <1>8, InvFromHistories

\* The first statement of a rollback: what it reads is true when it reads it.
LEMMA RollbackReadsInv ==
  ASSUME Inv, NEW p \in Processes, NEW t \in Tables, RollbackReads(p, t)
  PROVE  Inv'
<1>1. PICK i \in Current(rows[t]) :
        /\ rows[t][i].prev # Null
        /\ reads' = [reads EXCEPT ![p] = [u \in DOMAIN reads[p] \cup {t} |->
             IF u = t THEN [current |-> i, prev |-> rows[t][i].prev] ELSE reads[p][u]]]
  BY DEF RollbackReads
<1> DEFINE read == [current |-> i, prev |-> rows[t][i].prev]
<1>2. UNCHANGED <<rows, next_id, cache, drifted>>
  BY DEF RollbackReads
<1>3. IsHistory(rows[t], next_id[t]) /\ next_id[t] \in Nat
  BY DEF Inv, TypeOK
<1>4. ReadHolds(rows[t], next_id[t], read)
  BY <1>1, <1>3 DEF IsHistory, IsChain, Current, ReadHolds, Read, Row, Null
<1>5. DOMAIN reads' = Processes /\ \A o \in Processes : o # p => reads'[o] = reads[o]
  BY <1>1 DEF Inv, TypeOK
<1>6. reads'[p] = [u \in DOMAIN reads[p] \cup {t} |-> IF u = t THEN read ELSE reads[p][u]]
  BY <1>1 DEF Inv, TypeOK
<1> HIDE DEF read
<1>7. ASSUME NEW o \in Processes
      PROVE  /\ DOMAIN reads'[o] \subseteq Tables
             /\ \A u \in DOMAIN reads'[o] : ReadHolds(rows'[u], next_id'[u], reads'[o][u])
  <2>1. CASE o = p
    <3>1. DOMAIN reads'[p] = DOMAIN reads[p] \cup {t}
      BY <1>6
    <3>2. \A u \in DOMAIN reads[p] : u # t => reads'[p][u] = reads[p][u]
      BY <1>6
    <3>3. reads'[p][t] = read
      BY <1>6
    <3> QED
      BY <1>2, <1>4, <2>1, <3>1, <3>2, <3>3 DEF Inv, TypeOK
  <2>2. CASE o # p
    BY <1>2, <1>5, <2>2 DEF Inv, TypeOK
  <2> QED
    BY <2>1, <2>2
<1>8. \A u, v \in DOMAIN reads'["store"] : u = v
  <2>1. CASE p = "store"
    BY <1>6, <2>1, NothingIsHistory DEF RollbackReads, StoreIsFree
  <2>2. CASE p # "store"
    <3>1. reads'["store"] = reads["store"]
      BY <1>5, <2>2 DEF Processes
    <3> QED
      BY <3>1 DEF Inv, TypeOK
  <2> QED
    BY <2>1, <2>2
<1>9. \A o \in Processes : \A u \in DOMAIN reads'[o] : reads'[o][u] \in Read
  BY <1>7 DEF ReadHolds
<1>10. TypeOK'
  BY <1>2, <1>5, <1>7, <1>8, <1>9 DEF Inv, TypeOK
<1>11. CacheFollowsRows'
  BY <1>2 DEF Inv, CacheFollowsRows
<1> QED
  BY <1>2, <1>7, <1>10, <1>11 DEF Inv

\* The writes of a rollback, for the tables it has read: every one of them loses
\* its last row or keeps its rows.
LEMMA RollbackRowsHistories ==
  ASSUME Inv, NEW p \in Processes, RollbackRows(reads[p]), UNCHANGED next_id
  PROVE  /\ DOMAIN rows' = Tables
         /\ \A t \in Tables :
              /\ IsHistory(rows'[t], next_id'[t])
              /\ next_id[t] <= next_id'[t]
              /\ \A i \in DOMAIN rows'[t] : i < next_id[t] =>
                   i \in DOMAIN rows[t] /\ rows'[t][i].prev = rows[t][i].prev
         /\ \A t \in Tables \ DOMAIN reads[p] : rows'[t] = rows[t]
         /\ \A t \in DOMAIN reads[p] :
              /\ CurrentPhase(rows'[t]) = rows[t][reads[p][t].prev].phase
              /\ rows[t][reads[p][t].prev].phase \in Phases
<1>1. rows' = [t \in Tables |->
        IF t \in DOMAIN reads[p] THEN RolledBack(rows[t], reads[p][t]) ELSE rows[t]]
  BY DEF RollbackRows
<1>2. DOMAIN reads[p] \subseteq Tables
  BY DEF Inv, TypeOK
<1>3. \A t \in Tables : next_id[t] \in Nat /\ IsHistory(rows[t], next_id[t])
  BY DEF Inv, TypeOK
<1>4. ASSUME NEW t \in DOMAIN reads[p]
      PROVE  /\ IsHistory(rows'[t], next_id[t])
             /\ CurrentPhase(rows'[t]) = rows[t][reads[p][t].prev].phase
             /\ \A i \in DOMAIN rows'[t] :
                  i \in DOMAIN rows[t] /\ rows'[t][i].prev = rows[t][i].prev
             /\ rows[t][reads[p][t].prev].phase \in Phases
  <2>1. t \in Tables /\ rows'[t] = RolledBack(rows[t], reads[p][t])
    BY <1>1, <1>2
  <2>2. ReadHolds(rows[t], next_id[t], reads[p][t]) /\ CanRollback(rows[t], reads[p][t])
    BY DEF Inv, RollbackRows
  <2>3. rows[t][reads[p][t].prev].phase \in Phases
    BY <1>3, <2>1, <2>2 DEF CanRollback, IsHistory, Row
  <2> QED
    BY <1>3, <2>1, <2>2, <2>3, RolledBackIsHistory
<1>5. \A t \in Tables \ DOMAIN reads[p] : rows'[t] = rows[t]
  BY <1>1
<1>6. \A t \in Tables : next_id'[t] = next_id[t] /\ next_id[t] <= next_id[t]
  BY <1>3
<1> QED
  BY <1>1, <1>3, <1>4, <1>5, <1>6

\* rollback_table_replication_state caches the phase of the restored row.
LEMMA StoreRollbackInv ==
  ASSUME Inv, StoreRollback
  PROVE  Inv'
<1> DEFINE read == reads["store"]
<1> DEFINE restored == [t \in DOMAIN read |-> rows[t][read[t].prev].phase]
<1>1. /\ RollbackRows(read)
      /\ Commit(DOMAIN read, restored)
      /\ reads' = [reads EXCEPT !["store"] = Nothing]
      /\ UNCHANGED next_id
  BY DEF StoreRollback
<1>2. "store" \in Processes
  BY DEF Processes
<1>3. DOMAIN read \in SUBSET Tables
  BY <1>2 DEF Inv, TypeOK
<1>4. /\ DOMAIN rows' = Tables
      /\ \A t \in Tables :
           /\ IsHistory(rows'[t], next_id'[t])
           /\ next_id[t] <= next_id'[t]
           /\ \A i \in DOMAIN rows'[t] : i < next_id[t] =>
                i \in DOMAIN rows[t] /\ rows'[t][i].prev = rows[t][i].prev
      /\ \A t \in Tables \ DOMAIN read : rows'[t] = rows[t]
      /\ \A t \in DOMAIN read :
           restored[t] = CurrentPhase(rows'[t]) /\ restored[t] \in Phases
  BY <1>1, <1>2, RollbackRowsHistories
<1> HIDE DEF restored
<1>5. /\ CacheFollowsRows'
      /\ cache' \in [Tables -> Phases \cup {NoPhase}]
      /\ drifted' \subseteq Tables
  BY <1>1, <1>3, <1>4, CommitKeepsCache DEF Inv
<1>6. /\ DOMAIN reads' = Processes
      /\ \A p \in Processes : reads'[p] = reads[p] \/ reads'[p] = Nothing
  BY <1>1 DEF Inv, TypeOK
<1>7. next_id' \in [Tables -> Nat \ {0}]
  BY <1>1 DEF Inv, TypeOK
<1> QED
  BY <1>4, <1>5, <1>6, <1>7, InvFromHistories

\* The steps that leave the rows alone: a failed rollback and a loaded cache.
LEMMA SameRowsInv ==
  ASSUME Inv, UNCHANGED <<rows, next_id>>,
         DOMAIN reads' = Processes,
         \A p \in Processes : reads'[p] = reads[p] \/ reads'[p] = Nothing,
         CacheFollowsRows',
         cache' \in [Tables -> Phases \cup {NoPhase}],
         drifted' \subseteq Tables
  PROVE  Inv'
<1>1. DOMAIN rows' = Tables /\ next_id' \in [Tables -> Nat \ {0}]
  BY DEF Inv, TypeOK
<1>2. \A t \in Tables : IsHistory(rows'[t], next_id'[t]) /\ next_id[t] <= next_id'[t]
  BY DEF Inv, TypeOK
<1>3. \A t \in Tables : \A i \in DOMAIN rows'[t] : i < next_id[t] =>
        i \in DOMAIN rows[t] /\ rows'[t][i].prev = rows[t][i].prev
  OBVIOUS
<1> QED
  BY <1>1, <1>2, <1>3, InvFromHistories

\* The cache that load_table_replication_states builds follows the rows.
LEMMA LoadStatesInv ==
  ASSUME Inv, LoadStates
  PROVE  Inv'
<1>1. \A t \in Tables : CurrentPhase(rows[t]) \in Phases \cup {NoPhase}
  <2> TAKE t \in Tables
  <2>1. IsHistory(rows[t], next_id[t])
    BY DEF Inv
  <2>2. CASE Current(rows[t]) = {}
    BY <2>2 DEF CurrentPhase
  <2>3. CASE Current(rows[t]) # {}
    BY <2>1, <2>3, OneCurrent DEF IsHistory, Row, Current
  <2> QED
    BY <2>2, <2>3
<1>2. cache' \in [Tables -> Phases \cup {NoPhase}] /\ drifted' \subseteq Tables
  BY <1>1 DEF LoadStates
<1>3. CacheFollowsRows'
  BY DEF LoadStates, CacheFollowsRows
<1>4. /\ DOMAIN reads' = Processes
      /\ \A p \in Processes : reads'[p] = reads[p] \/ reads'[p] = Nothing
  BY DEF LoadStates, Inv, TypeOK
<1> QED
  BY <1>2, <1>3, <1>4, SameRowsInv DEF LoadStates

\* A rollback that fails leaves its reads behind and nothing else.
LEMMA RollbackFailsInv ==
  ASSUME Inv, NEW o \in Processes, RollbackFails(o)
  PROVE  Inv'
<1>1. /\ DOMAIN reads' = Processes
      /\ \A p \in Processes : reads'[p] = reads[p] \/ reads'[p] = Nothing
  BY DEF RollbackFails, Inv, TypeOK
<1>2. CacheFollowsRows' /\ cache' = cache /\ drifted' = drifted
  BY DEF RollbackFails, Inv, CacheFollowsRows
<1> QED
  BY <1>1, <1>2, SameRowsInv DEF RollbackFails, Inv, TypeOK

\* delete_table_state_for_scope takes the table's rows and its cached phase.
LEMMA DeleteStateInv ==
  ASSUME Inv, NEW t \in Tables, DeleteState(t)
  PROVE  Inv'
<1>1. /\ rows' = [rows EXCEPT ![t] = Nothing]
      /\ Commit({t}, [u \in {t} |-> NoPhase])
      /\ UNCHANGED <<next_id, reads>>
  BY DEF DeleteState
<1>2. /\ DOMAIN rows' = Tables
      /\ rows'[t] = Nothing
      /\ \A u \in Tables \ {t} : rows'[u] = rows[u]
  BY <1>1 DEF Inv, TypeOK
<1>3. \A u \in Tables : next_id[u] \in Nat \ {0} /\ IsHistory(rows[u], next_id[u])
  BY DEF Inv, TypeOK
<1>4. /\ IsHistory(Nothing, next_id[t])
      /\ DOMAIN Nothing = {}
      /\ CurrentPhase(Nothing) = NoPhase
  BY NothingIsHistory
<1>5. \A u \in Tables :
        /\ IsHistory(rows'[u], next_id'[u])
        /\ next_id[u] <= next_id'[u]
        /\ \A i \in DOMAIN rows'[u] : i < next_id[u] =>
             i \in DOMAIN rows[u] /\ rows'[u][i].prev = rows[u][i].prev
  BY <1>1, <1>2, <1>3, <1>4
<1>6. \A u \in {t} : /\ [v \in {t} |-> NoPhase][u] \in Phases \cup {NoPhase}
                     /\ [v \in {t} |-> NoPhase][u] = CurrentPhase(rows'[u])
  BY <1>2, <1>4
<1>7. /\ CacheFollowsRows'
      /\ cache' \in [Tables -> Phases \cup {NoPhase}]
      /\ drifted' \subseteq Tables
  BY <1>1, <1>2, <1>6, CommitKeepsCache DEF Inv
<1>8. DOMAIN reads' = Processes /\ \A p \in Processes : reads'[p] = reads[p]
  BY <1>1 DEF Inv, TypeOK
<1>9. next_id' \in [Tables -> Nat \ {0}]
  BY <1>1 DEF Inv, TypeOK
<1> QED
  BY <1>2, <1>5, <1>7, <1>8, <1>9, InvFromHistories

\* rollback_tables with RollbackType::Individual: the cache no longer follows.
LEMMA ApiRollbackInv ==
  ASSUME Inv, NEW o \in Requests, ApiRollback(o)
  PROVE  Inv'
<1>1. o \in Processes
  BY DEF Processes
<1>2. /\ RollbackRows(reads[o])
      /\ drifted' = drifted \cup DOMAIN reads[o]
      /\ reads' = [reads EXCEPT ![o] = Nothing]
      /\ UNCHANGED <<next_id, cache>>
  BY DEF ApiRollback
<1>3. DOMAIN reads[o] \subseteq Tables
  BY <1>1 DEF Inv, TypeOK
<1>4. /\ DOMAIN rows' = Tables
      /\ \A t \in Tables :
           /\ IsHistory(rows'[t], next_id'[t])
           /\ next_id[t] <= next_id'[t]
           /\ \A i \in DOMAIN rows'[t] : i < next_id[t] =>
                i \in DOMAIN rows[t] /\ rows'[t][i].prev = rows[t][i].prev
      /\ \A t \in Tables \ DOMAIN reads[o] : rows'[t] = rows[t]
  BY <1>1, <1>2, RollbackRowsHistories
<1>5. CacheFollowsRows'
  BY <1>2, <1>4 DEF Inv, CacheFollowsRows
<1>6. cache' \in [Tables -> Phases \cup {NoPhase}] /\ drifted' \subseteq Tables
  BY <1>2, <1>3 DEF Inv, TypeOK
<1>7. /\ DOMAIN reads' = Processes
      /\ \A p \in Processes : reads'[p] = reads[p] \/ reads'[p] = Nothing
  BY <1>2 DEF Inv, TypeOK
<1>8. next_id' \in [Tables -> Nat \ {0}]
  BY <1>2 DEF Inv, TypeOK
<1> QED
  BY <1>4, <1>5, <1>6, <1>7, <1>8, InvFromHistories

\* rollback_tables with RollbackType::Full.
LEMMA ApiResetInv ==
  ASSUME Inv, NEW tables \in SUBSET Tables, ApiReset(tables)
  PROVE  Inv'
<1>1. /\ rows' = [t \in Tables |-> IF t \in tables THEN Reset(next_id[t]) ELSE rows[t]]
      /\ next_id' = [t \in Tables |-> IF t \in tables THEN next_id[t] + 1 ELSE next_id[t]]
      /\ drifted' = drifted \cup tables
      /\ UNCHANGED <<cache, reads>>
  BY DEF ApiReset, TakeIds
<1>2. ASSUME NEW t \in Tables
      PROVE  /\ IsHistory(rows'[t], next_id'[t])
             /\ next_id'[t] \in Nat \ {0}
             /\ next_id[t] <= next_id'[t]
             /\ \A i \in DOMAIN rows'[t] : i < next_id[t] =>
                  i \in DOMAIN rows[t] /\ rows'[t][i].prev = rows[t][i].prev
  <2>1. next_id[t] \in Nat \ {0} /\ IsHistory(rows[t], next_id[t])
    BY DEF Inv, TypeOK
  <2>2. CASE t \in tables
    <3>1. rows'[t] = Reset(next_id[t]) /\ next_id'[t] = next_id[t] + 1
      BY <1>1, <2>2
    <3>2. IsHistory(Reset(next_id[t]), next_id[t] + 1) /\ DOMAIN Reset(next_id[t]) = {next_id[t]}
      BY <2>1, ResetIsHistory
    <3> QED
      BY <2>1, <3>1, <3>2
  <2>3. CASE t \notin tables
    BY <1>1, <2>1, <2>3
  <2> QED
    BY <2>2, <2>3
<1>3. DOMAIN rows' = Tables /\ next_id' \in [Tables -> Nat \ {0}]
  BY <1>1, <1>2
<1>4. CacheFollowsRows'
  BY <1>1 DEF Inv, CacheFollowsRows
<1>5. cache' \in [Tables -> Phases \cup {NoPhase}] /\ drifted' \subseteq Tables
  BY <1>1 DEF Inv, TypeOK
<1>6. DOMAIN reads' = Processes /\ \A p \in Processes : reads'[p] = reads[p]
  BY <1>1 DEF Inv, TypeOK
<1> QED
  BY <1>2, <1>3, <1>4, <1>5, <1>6, InvFromHistories

\* Every step of the store and of the API keeps the invariant.
LEMMA NextInv == Inv /\ [Next]_vars => Inv'
<1> SUFFICES ASSUME Inv, [Next]_vars PROVE Inv'
  OBVIOUS
<1>1. ASSUME NEW tables \in SUBSET Tables, NEW phase \in [tables -> Phases],
             UpdateStates(tables, phase)
      PROVE  Inv'
  BY <1>1, UpdateStatesInv
<1>2. ASSUME NEW p \in Processes, NEW t \in Tables, RollbackReads(p, t)
      PROVE  Inv'
  BY <1>2, RollbackReadsInv
<1>3. CASE StoreRollback
  BY <1>3, StoreRollbackInv
<1>4. ASSUME NEW p \in Processes, RollbackFails(p)
      PROVE  Inv'
  BY <1>4, RollbackFailsInv
<1>5. ASSUME NEW t \in Tables, DeleteState(t)
      PROVE  Inv'
  BY <1>5, DeleteStateInv
<1>6. CASE LoadStates
  BY <1>6, LoadStatesInv
<1>7. ASSUME NEW p \in Requests, ApiRollback(p)
      PROVE  Inv'
  BY <1>7, ApiRollbackInv
<1>8. ASSUME NEW tables \in SUBSET Tables, ApiReset(tables)
      PROVE  Inv'
  BY <1>8, ApiResetInv
<1>9. CASE UNCHANGED vars
  <2>1. /\ DOMAIN reads' = Processes
        /\ \A p \in Processes : reads'[p] = reads[p]
        /\ CacheFollowsRows'
        /\ cache' = cache /\ drifted' = drifted
    BY <1>9 DEF vars, Inv, TypeOK, CacheFollowsRows
  <2> QED
    BY <1>9, <2>1, SameRowsInv DEF vars, Inv, TypeOK
<1> QED
  BY <1>1, <1>2, <1>3, <1>4, <1>5, <1>6, <1>7, <1>8, <1>9 DEF Next

-----------------------------------------------------------------------------
\* The inductive invariant holds in every state.
LEMMA AlwaysInv == Spec => []Inv
BY InitInv, NextInv, PTL DEF Spec

\* In every state the rows of a table in etl.replication_state are one chain
\* that ends in its only current row, for any number of API requests that
\* interleave with the store between their statements.
THEOREM AlwaysChain == Spec => []HistoryIsChain
<1>1. Inv => HistoryIsChain
  BY DEF Inv, IsHistory, HistoryIsChain
<1> QED
  BY <1>1, AlwaysInv, PTL

\* In every state the cache of PostgresStore holds the phase of the current row
\* of each table that neither the API nor an unreported commit has changed since.
THEOREM CacheAlwaysFollows == Spec => []CacheFollowsRows
<1>1. Inv => CacheFollowsRows
  BY DEF Inv
<1> QED
  BY <1>1, AlwaysInv, PTL

\* Every variable of the state store always has its type.
THEOREM StatesTypeCorrect == Spec => []TypeOK
<1>1. Inv => TypeOK
  BY DEF Inv
<1> QED
  BY <1>1, AlwaysInv, PTL
=============================================================================

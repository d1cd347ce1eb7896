----------------------------- MODULE Instances -----------------------------
(***************************************************************************)
(* The small tables, streams, values, schemas and configurations on which  *)
(* MCSafety and MCProgress check the components.                           *)
(***************************************************************************)
EXTENDS Integers, Sequences, SchemaWals

\* Rows in the first, the middle and the last of five blocks, in two leaf
\* partitions.  A filtered partitioned table is copied by one connection.
CopyRows == {"a", "b", "c"}
CopyBlock == [a |-> 0, b |-> 3, c |-> 4]
CopyLeaf == [a |-> "p1", b |-> "p1", c |-> "p2"]
Layout(partitioned, filtered, connections) ==
  [partitioned |-> partitioned, filtered |-> filtered, connections |-> connections]
CopyLayouts ==
  {Layout(FALSE, TRUE, c) : c \in {1, 2, 4}} \cup {Layout(TRUE, FALSE, 2), Layout(TRUE, TRUE, 1)}

\* A key that is deleted and inserted again and then updated without its
\* unchanged column, a truncate of two tables between their changes and a key
\* that changes, and a partial update without its key, which is refused.
DuckRow(k, v, w) == [k |-> k, v |-> v, w |-> w]
Ins(c, o, t, r) ==
  [kind |-> "insert", commit |-> c, ordinal |-> o, tables |-> {t}, new |-> r, old |-> {}]
Upd(c, o, t, old, r) ==
  [kind |-> "update", commit |-> c, ordinal |-> o, tables |-> {t}, new |-> r, old |-> old]
Del(c, o, t, k) ==
  [kind |-> "delete", commit |-> c, ordinal |-> o, tables |-> {t}, old |-> {[k |-> k]}]
Trunc(c, o, ts) == [kind |-> "truncate", commit |-> c, ordinal |-> o, tables |-> ts]
DuckStreams ==
  {<<Ins(1, 1, "a", DuckRow(1, 1, 1)), Del(1, 2, "a", 1), Ins(1, 3, "a", DuckRow(1, 2, 2)),
     Ins(2, 1, "b", DuckRow(1, 1, 1)), Upd(2, 2, "a", {}, [k |-> 1, v |-> 3])>>,
   <<Ins(1, 1, "b", DuckRow(1, 1, 1)), Ins(1, 2, "a", DuckRow(1, 1, 1)), Trunc(2, 1, {"a", "b"}),
     Upd(3, 1, "a", {[k |-> 1]}, DuckRow(2, 1, 1)), Ins(3, 2, "b", DuckRow(2, 2, 2))>>,
   <<Ins(1, 1, "a", DuckRow(1, 1, 1)), Upd(1, 2, "a", {}, [v |-> 3])>>}
DuckChunks == [a |-> <<<<DuckRow(1, 0, 0)>>, <<DuckRow(2, 0, 0)>>>>, b |-> <<>>]

\* One call that may never return and one that shares the pool with it.
Calls == {"o1", "o2"}

\* Every operation on and off, a run limited to one table, a schema that is not
\* known, and a configuration that validation refuses.
RunnerConfig(flush, rewrite, limit, known, bytes) ==
  [ducklake |-> TRUE, postgres_catalog |-> TRUE, os |-> "linux", vendored |-> "complete",
   data_path |-> "s3", s3_keys |-> 2, pool_size |-> 1, schema_known |-> known, flush |-> flush,
   merge |-> TRUE, rewrite |-> rewrite, expire |-> TRUE, cleanup |-> FALSE,
   min_inlined_bytes |-> bytes, max_tables_per_run |-> limit, min_active_data_files |-> 1]
RunnerConfigs ==
  {RunnerConfig(TRUE, FALSE, 2, FALSE, 0), RunnerConfig(FALSE, TRUE, 1, TRUE, 1),
   [RunnerConfig(TRUE, TRUE, 0, TRUE, 0) EXCEPT !.pool_size = 0]}

\* A value of every decoded type and of every class that some destination
\* treats in its own way, alone and as the elements of an array.
TextTypes == {"TEXT", "MONEY", "INTERVAL"}
CellTypes ==
  TextTypes \cup {"BOOL", "INT2", "INT4", "INT8", "FLOAT4", "FLOAT8", "NUMERIC", "BYTEA", "DATE",
                  "TIME", "TIMESTAMP", "TIMESTAMPTZ", "UUID", "JSON", "JSONB", "OID"}
Null == [shape |-> "null", values |-> <<>>]
Classes(t) == {<<"plain">>} \cup
  CASE t \in TextTypes ->
         {<<>>, <<"null">>, <<"x", ",", "x">>, <<"\"">>, <<"\\", "x">>, <<"{", "x", "}">>}
    [] t \in {"FLOAT4", "FLOAT8"} -> {<<"nan">>}
    [] t = "NUMERIC" -> {<<"nan">>, <<"scale_over_38">>}
    [] t \in {"DATE", "TIMESTAMP", "TIMESTAMPTZ"} -> {<<"before_1900">>, <<"infinity">>}
    [] t \in {"JSON", "JSONB"} -> {<<"integer_over_64_bits">>}
    [] OTHER -> {}
Scalars(t) == {Null} \cup {[shape |-> "scalar", values |-> <<{c}>>] : c \in Classes(t)}
Arrays(t) ==
  {[shape |-> "array", values |-> s] :
     s \in UNION {[1..n -> {{}} \cup {{c} : c \in Classes(t)}] : n \in 0..2}}
CellSamples ==
  UNION {{[type |-> t, array |-> FALSE, value |-> v, wide |-> w] : v \in Scalars(t), w \in BOOLEAN}
           \cup {[type |-> t, array |-> TRUE, value |-> v, wide |-> TRUE] : v \in Arrays(t)} :
           t \in CellTypes}

\* A column is renamed while another is added, then one is dropped while another,
\* nullable, is added.
Column(p, n, nullable) ==
  [position |-> p, name |-> n, pk |-> n = "id", nullable |-> nullable]
HouseSchema(columns) ==
  [columns |-> columns, mask |-> [i \in 1..Len(columns) |-> TRUE], identity |-> "primary_key"]
HouseSchemas ==
  <<HouseSchema(<<Column(1, "id", FALSE), Column(2, "a", FALSE)>>),
    HouseSchema(<<Column(1, "id", FALSE), Column(2, "b", FALSE), Column(3, "c", FALSE)>>),
    HouseSchema(<<Column(1, "id", FALSE), Column(2, "b", FALSE), Column(4, "d", TRUE)>>)>>

\* Two tables of one name in two schemas, or of two names in one schema.
IceLayouts ==
  {[schema |-> [t1 |-> <<"b">>, t2 |-> <<"A", "w", "s", "-">>], name |-> [t1 |-> "x", t2 |-> "x"]],
   [schema |-> [t1 |-> <<"b">>, t2 |-> <<"b">>], name |-> [t1 |-> "x", t2 |-> "y"]]}

\* Two requests are served at a time, one of them about what is deployed.
RuntimeRequests ==
  {"start_pipeline", "stop_pipeline", "stop_all_pipelines", "update_pipeline",
   "update_pipeline_version", "delete_source", "delete_destination"}
RowRequests ==
  {"create_tenant", "create_tenant_and_source", "create_source", "update_source",
   "create_destination", "update_destination", "create_image", "update_image", "delete_image",
   "create_pipeline", "create_destination_and_pipeline", "update_destination_and_pipeline",
   "delete_pipeline", "delete_destination_and_pipeline", "delete_tenant"}
=============================================================================

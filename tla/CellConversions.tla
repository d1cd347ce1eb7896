-------------------------- MODULE CellConversions --------------------------
(***************************************************************************)
(* One value on its way from Postgres text to a destination column.  The   *)
(* source column's type decides the Cell variant the text is parsed into   *)
(* (conversions/text.rs).  Each destination then has two tables of its own *)
(* that must agree: source type -> column type (schema.rs) and Cell        *)
(* variant -> wire value (encoding.rs).  They live in different files and  *)
(* are keyed differently, so a disagreement shows only at the destination. *)
(*                                                                         *)
(* A value is [shape, values]: shape "null", "scalar", "array" or "matrix" *)
(* (a two-dimensional array), and one entry per element, {} for a NULL     *)
(* element and {s} for the text s.  A text is a sequence of tokens: single *)
(* characters where array syntax cares about them, the token "null" for    *)
(* the four letters, and one token for each class of values a destination  *)
(* treats apart ("nan", "before_1900", ...).                               *)
(***************************************************************************)
EXTENDS Naturals, Sequences, SequencesExt, FiniteSets

CONSTANTS Destinations, \* the destinations a sample may be written to
          Samples       \* the [type, array, value, wide] combinations to try

VARIABLES dest, sample,
          cell,    \* the parsed Cell; {} before parsing and after an error
          wire,    \* what the destination client sends
          stored,  \* what a reader of the destination column sees
          stage    \* "text", "cell", "wire", "stored" or "refused"

cellVars == <<dest, sample, cell, wire, stored, stage>>

None == {}
Some(x) == {x}
The(option) == CHOOSE x \in option : TRUE

\* A table written as a record, with the fallback arm of the code's match.
Lookup(table, key, fallback) ==
  IF key \in DOMAIN table THEN table[key] ELSE fallback

----------------------------------------------------------------------------
\* Postgres text -> Cell.

\* array_out of Postgres: elements that could be misread are quoted.
Quoted(s) == Len(s) = 0 \/ s = <<"null">> \/ \E i \in DOMAIN s : s[i] \in {"{", "}", ",", "\"", "\\"}

Escape(s) ==
  FoldLeft(LAMBDA out, c : IF c \in {"\"", "\\"} THEN out \o <<"\\", c>> ELSE Append(out, c), <<>>, s)

ElementText(e) ==
  CASE e = None        -> <<"null">>
    [] Quoted(The(e))  -> <<"\"">> \o Escape(The(e)) \o <<"\"">>
    [] OTHER           -> The(e)

Commas(parts) ==
  FoldLeft(LAMBDA out, p : IF out = <<>> THEN p ELSE out \o <<",">> \o p, <<>>, parts)

Braces(parts) == <<"{">> \o Commas(parts) \o <<"}">>

array_out(value) ==
  IF value.shape = "matrix"
  THEN Braces([i \in DOMAIN value.values |-> Braces(<<ElementText(value.values[i])>>)])
  ELSE Braces([i \in DOMAIN value.values |-> ElementText(value.values[i])])

\* The element the scanner has reached the end of: an unquoted null is NULL.
Element(s) ==
  IF ~s.val_quoted /\ s.val_str = <<"null">> THEN None ELSE Some(s.val_str)

Push(s, c) == [s EXCEPT !.val_str = Append(@, c)]

EndElement(s) ==
  [s EXCEPT !.res = Append(@, Element(s)), !.val_str = <<>>, !.val_quoted = FALSE]

\* Mutant: the scanner does not remember that an element was quoted.
ScanCharUnquoted(s, c) ==
  CASE s.in_escape                -> [Push(s, c) EXCEPT !.in_escape = FALSE]
    [] ~s.in_escape /\ c = "\""   -> [s EXCEPT !.in_quotes = ~@]
    [] ~s.in_escape /\ c = "\\"   -> [s EXCEPT !.in_escape = TRUE]
    [] ~s.in_escape /\ c = "," /\ ~s.in_quotes -> EndElement(s)
    [] OTHER                      -> Push(s, c)

ScanChar(s, c) ==
  CASE s.in_escape                -> [Push(s, c) EXCEPT !.in_escape = FALSE]
    [] ~s.in_escape /\ c = "\""   -> [s EXCEPT !.val_quoted = @ \/ ~s.in_quotes, !.in_quotes = ~@]
    [] ~s.in_escape /\ c = "\\"   -> [s EXCEPT !.in_escape = TRUE]
    [] ~s.in_escape /\ c = "," /\ ~s.in_quotes -> EndElement(s)
    [] OTHER                      -> Push(s, c)

parse_cell_from_postgres_text_array(str) ==
  LET body  == SubSeq(str, 2, Len(str) - 1)
      start == [res |-> <<>>, val_str |-> <<>>, val_quoted |-> FALSE,
                in_quotes |-> FALSE, in_escape |-> FALSE]
  IN  IF body = <<>> THEN <<>> ELSE EndElement(FoldLeft(ScanChar, start, body)).res

\* The Cell variant of each source type; every other type keeps its text.
CellKind ==
  [BOOL |-> "Bool", INT2 |-> "I16", INT4 |-> "I32", INT8 |-> "I64",
   FLOAT4 |-> "F32", FLOAT8 |-> "F64", NUMERIC |-> "Numeric", BYTEA |-> "Bytes",
   DATE |-> "Date", TIME |-> "Time", TIMESTAMP |-> "Timestamp",
   TIMESTAMPTZ |-> "TimestampTz", UUID |-> "Uuid", JSON |-> "Json",
   JSONB |-> "Json", OID |-> "U32"]

\* The element parsers refuse what their type cannot hold: dates and times
\* have no infinity, and only text may contain array syntax.
ParsesAs(kind, e) ==
  \A s \in e : kind = "String"
            \/ ~ \/ s = <<"infinity">> /\ kind \in {"Date", "Timestamp", "TimestampTz"}
                 \/ \E i \in DOMAIN s : s[i] \in {"{", "}"}

parse_cell_from_postgres_text(type, array, value) ==
  LET kind   == Lookup(CellKind, type, "String")
      values == IF array /\ value.shape # "null"
                THEN parse_cell_from_postgres_text_array(array_out(value))
                ELSE value.values
  IN  IF value.shape = "null"
      THEN Some([shape |-> "null", kind |-> "Null", values |-> <<>>])
      ELSE IF \A i \in DOMAIN values : ParsesAs(kind, values[i])
           THEN Some([shape |-> IF array THEN "array" ELSE "scalar", kind |-> kind, values |-> values])
           ELSE None

HasElement(c, classes) == \E i \in DOMAIN c.values : \E s \in c.values[i] : s \in classes

----------------------------------------------------------------------------
\* BigQuery: the table's column type, the writer's descriptor, the encoding.

postgres_to_bigquery_type ==
  [BOOL |-> "bool", INT2 |-> "int64", INT4 |-> "int64", INT8 |-> "int64",
   FLOAT4 |-> "float64", FLOAT8 |-> "float64", NUMERIC |-> "bignumeric",
   DATE |-> "date", TIME |-> "time", TIMESTAMP |-> "timestamp",
   TIMESTAMPTZ |-> "timestamp", JSON |-> "json", JSONB |-> "json",
   OID |-> "int64", BYTEA |-> "bytes"]

\* Mutant: OID declared like the other types the table falls back on.
OidAsString ==
  [BOOL |-> "Bool", INT2 |-> "Int32", INT4 |-> "Int32", INT8 |-> "Int64",
   FLOAT4 |-> "Float", FLOAT8 |-> "Double", BYTEA |-> "Bytes"]

column_schemas_to_table_descriptor ==
  [BOOL |-> "Bool", INT2 |-> "Int32", INT4 |-> "Int32", INT8 |-> "Int64",
   FLOAT4 |-> "Float", FLOAT8 |-> "Double", OID |-> "Int32", BYTEA |-> "Bytes"]

cell_encode_prost ==
  [Bool |-> "bool", I16 |-> "int32", I32 |-> "int32", I64 |-> "int64",
   F32 |-> "float", F64 |-> "double", U32 |-> "uint32", Bytes |-> "bytes"]

\* CellNonOptional: an array with a NULL element is refused.
NonOptional(c) == \A i \in DOMAIN c.values : c.values[i] # None

validate_cell_for_bigquery(c) ==
  /\ ~(c.kind = "Numeric" /\ HasElement(c, {<<"scale_over_38">>}))
  /\ ~(c.kind = "Json" /\ HasElement(c, {<<"integer_over_64_bits">>}))

\* Arrays of fixed-size values are packed, the others are repeated fields.
array_cell_encode_prost == cell_encode_prost

\* NULL adds no field, and neither does an array without elements.
EncodeBigQuery(c) ==
  IF NonOptional(c) /\ validate_cell_for_bigquery(c)
  THEN Some([as     |-> Lookup(IF c.shape = "array" THEN array_cell_encode_prost
                               ELSE cell_encode_prost, c.kind, "string"),
             shape  |-> c.shape, values |-> c.values])
  ELSE None

\* Protobuf: the descriptor decides how a field's bytes are read.
ProtoReads == [Bool |-> {"bool"}, Int32 |-> {"int32", "uint32"}, Int64 |-> {"int32", "int64", "uint32"},
               Float |-> {"float"}, Double |-> {"double"}, Bytes |-> {"bytes"}, String |-> {"string"}]

\* BigQuery: the descriptor types a column type takes.
ColumnTakes ==
  [bool |-> {"Bool"}, int64 |-> {"Int32", "Int64"}, float64 |-> {"Float", "Double"},
   bignumeric |-> {"String"}, date |-> {"String"}, time |-> {"String"},
   timestamp |-> {"String"}, json |-> {"String"}, bytes |-> {"Bytes"}, string |-> {"String"}]

\* A 32-bit field read as signed turns the upper half negative.
ReadProto(descriptor, w, e) ==
  IF descriptor = "Int32" /\ w.as = "uint32" /\ e = Some(<<"over_i32">>)
  THEN Some(<<"negative">>) ELSE e

ReadBigQuery(type, array, w) ==
  LET descriptor == Lookup(column_schemas_to_table_descriptor, type, "String")
      column     == Lookup(postgres_to_bigquery_type, type, "string")
  IN  IF descriptor \notin ColumnTakes[column] THEN None
      ELSE IF array /\ w.values = <<>> THEN Some([shape |-> "array", values |-> <<>>])
      ELSE IF w.shape # "null" /\ w.as \notin ProtoReads[descriptor]
           THEN Some([shape |-> "null", values |-> <<>>])
      ELSE Some([shape |-> w.shape,
                 values |-> [i \in DOMAIN w.values |-> ReadProto(descriptor, w, w.values[i])]])

----------------------------------------------------------------------------
\* ClickHouse: RowBinary carries no types, so the layouts must be the same.

postgres_column_type_to_clickhouse_sql ==
  [BOOL |-> "Boolean", INT2 |-> "Int16", INT4 |-> "Int32", INT8 |-> "Int64",
   FLOAT4 |-> "Float32", FLOAT8 |-> "Float64", DATE |-> "Date32",
   TIMESTAMP |-> "DateTime64", TIMESTAMPTZ |-> "DateTime64", UUID |-> "UUID",
   OID |-> "UInt32"]

\* The element types of arrays are a second match with the same arms.
postgres_array_element_clickhouse_sql == postgres_column_type_to_clickhouse_sql

\* Array elements are Nullable, the array itself never is.
clickhouse_column_nullable(array, nullable) == ~array /\ nullable

cell_to_clickhouse_value ==
  [Bool |-> "Boolean", I16 |-> "Int16", I32 |-> "Int32", I64 |-> "Int64", U32 |-> "UInt32",
   F32 |-> "Float32", F64 |-> "Float64", Date |-> "Date32", Timestamp |-> "DateTime64",
   TimestampTz |-> "DateTime64", Uuid |-> "UUID"]

array_cell_to_clickhouse_values == cell_to_clickhouse_value

date_to_date32_days(c) == ~(c.kind = "Date" /\ HasElement(c, {<<"before_1900">>}))

\* A NULL in a column without the indicator byte is refused.
EncodeClickHouse(array, c) ==
  IF date_to_date32_days(c) /\ (c.shape = "null" => clickhouse_column_nullable(array, TRUE))
  THEN Some([as     |-> Lookup(IF array THEN array_cell_to_clickhouse_values
                                       ELSE cell_to_clickhouse_value, c.kind, "String"),
             shape  |-> c.shape, values |-> c.values])
  ELSE None

ReadClickHouse(type, array, w) ==
  LET column == Lookup(IF array THEN postgres_array_element_clickhouse_sql
                       ELSE postgres_column_type_to_clickhouse_sql, type, "String")
  IN  IF w.shape = "null" \/ w.as = column
      THEN Some([shape |-> w.shape, values |-> w.values])
      ELSE Some([shape |-> "garbled", values |-> <<>>])

----------------------------------------------------------------------------
\* Snowflake: every row is one JSON object.

type_name ==
  [BOOL |-> "BOOLEAN", INT2 |-> "SMALLINT", INT4 |-> "INTEGER", INT8 |-> "BIGINT",
   FLOAT4 |-> "FLOAT", FLOAT8 |-> "DOUBLE", DATE |-> "DATE", TIME |-> "TIME",
   TIMESTAMP |-> "TIMESTAMP_NTZ", TIMESTAMPTZ |-> "TIMESTAMP_TZ", JSON |-> "VARIANT",
   JSONB |-> "VARIANT", OID |-> "BIGINT"]

CellSerializer ==
  [Bool |-> "bool", I16 |-> "number", I32 |-> "number", U32 |-> "number", I64 |-> "number",
   F32 |-> "number", F64 |-> "number", Json |-> "any"]

\* The elements of an array go through the same serializers.
ArrayCellSerializer == CellSerializer

Finite(c) == ~(c.kind \in {"F32", "F64", "Numeric"} /\ HasElement(c, {<<"nan">>}))

\* The JSON value null and the SQL NULL are the same JSON text.
EncodeSnowflake(c) ==
  IF Finite(c)
  THEN Some([as     |-> Lookup(IF c.shape = "array" THEN ArrayCellSerializer ELSE CellSerializer, c.kind, "string"),
             shape  |-> IF c.kind = "Json" /\ c.shape = "scalar" /\ HasElement(c, {<<"json_null">>})
                        THEN "null" ELSE c.shape,
             values |-> IF c.kind = "Json"
                        THEN [i \in DOMAIN c.values |->
                                IF c.values[i] = Some(<<"json_null">>) THEN None ELSE c.values[i]]
                        ELSE c.values])
  ELSE None

VariantTakes ==
  [BOOLEAN |-> {"bool"}, SMALLINT |-> {"number"}, INTEGER |-> {"number"}, BIGINT |-> {"number"},
   FLOAT |-> {"number"}, DOUBLE |-> {"number"}, VARIANT |-> {"any"}]

\* A NUMERIC column is VARCHAR; "NaN" would be text a cast to NUMBER fails on.
ReadSnowflake(type, array, w) ==
  LET column == Lookup(type_name, type, "VARCHAR")
      nulled == w.shape = "null"
  IN  IF nulled \/ array \/ w.as \in Lookup(VariantTakes, column, {"string"})
      THEN Some([shape  |-> w.shape, values |-> IF nulled THEN <<>> ELSE w.values])
      ELSE None

----------------------------------------------------------------------------
\* Iceberg: Arrow builders, which turn a cell they do not expect into a null.

postgres_scalar_type_to_iceberg_type ==
  [BOOL |-> "Boolean", INT2 |-> "Int", INT4 |-> "Int", INT8 |-> "Long", FLOAT4 |-> "Float",
   FLOAT8 |-> "Double", DATE |-> "Date", TIME |-> "Time", TIMESTAMP |-> "Timestamp",
   TIMESTAMPTZ |-> "Timestamptz", UUID |-> "Uuid", OID |-> "Long", BYTEA |-> "Binary"]

\* The code writes the table out again for the element types of lists.
postgres_array_type_to_iceberg_type == postgres_scalar_type_to_iceberg_type

\* The variants each builder accepts for one value ...
cell_to_arrow ==
  [Boolean |-> {"Bool"}, Int |-> {"I16", "I32"}, Long |-> {"I64", "U32"}, Float |-> {"F32"},
   Double |-> {"F64"}, Date |-> {"Date"}, Time |-> {"Time"}, Timestamp |-> {"Timestamp"},
   Timestamptz |-> {"TimestampTz"}, Uuid |-> {"Uuid"}, Binary |-> {"Bytes"},
   String |-> {"String", "Numeric", "Json"}]

\* ... and for the elements of a list.
build_number_list ==
  [Boolean |-> {"Bool"}, Int |-> {"I16", "I32"}, Long |-> {"I64", "U32"}, Float |-> {"F32"},
   Double |-> {"F64"}]

build_text_list == [String |-> {"String", "Numeric", "Json"}, Binary |-> {"Bytes"}]

build_time_list ==
  [Date |-> {"Date"}, Time |-> {"Time"}, Timestamp |-> {"Timestamp"},
   Timestamptz |-> {"TimestampTz"}, Uuid |-> {"Uuid"}]

build_list_array(column) ==
  Lookup(build_number_list, column, Lookup(build_text_list, column, Lookup(build_time_list, column, {})))

\* The fallback list of strings: bytes have no text and become NULL elements.
append_array_cell_as_strings(c) ==
  IF c.kind = "Bytes" THEN [i \in DOMAIN c.values |-> None] ELSE c.values

\* A list of strings under another element type does not fit the batch schema.
EncodeIceberg(type, array, c) ==
  LET column  == Lookup(IF array THEN postgres_array_type_to_iceberg_type
                                 ELSE postgres_scalar_type_to_iceberg_type, type, "String")
      accepts == c.kind \in (IF array THEN build_list_array(column) ELSE cell_to_arrow[column])
  IN  CASE c.shape = "null" -> Some([as |-> column, shape |-> "null", values |-> <<>>])
        [] c.shape # "null" /\ accepts -> Some([as |-> column, shape |-> c.shape, values |-> c.values])
        [] c.shape = "scalar" /\ ~accepts -> Some([as |-> column, shape |-> "null", values |-> <<>>])
        [] OTHER -> IF column = "String"
                    THEN Some([as |-> column, shape |-> "array", values |-> append_array_cell_as_strings(c)])
                    ELSE None

ReadIceberg(w) == Some([shape |-> w.shape, values |-> w.values])

----------------------------------------------------------------------------
\* DuckLake: rows with an array are SQL literals, the others appender values.

postgres_column_type_to_ducklake_sql ==
  [BOOL |-> "BOOLEAN", INT2 |-> "SMALLINT", INT4 |-> "INTEGER", INT8 |-> "BIGINT",
   FLOAT4 |-> "FLOAT", FLOAT8 |-> "DOUBLE", DATE |-> "DATE", TIME |-> "TIME",
   TIMESTAMP |-> "TIMESTAMP", TIMESTAMPTZ |-> "TIMESTAMPTZ", UUID |-> "UUID",
   JSON |-> "JSON", JSONB |-> "JSON", OID |-> "UBIGINT", BYTEA |-> "BLOB"]

cell_to_value ==
  [Bool |-> "Boolean", I16 |-> "SmallInt", I32 |-> "Int", U32 |-> "UInt", I64 |-> "BigInt",
   F32 |-> "Float", F64 |-> "Double", Date |-> "Date32", Time |-> "Time64",
   Timestamp |-> "Timestamp", TimestampTz |-> "Timestamp", Bytes |-> "Blob"]

cell_to_sql_literal ==
  [Bool |-> "TRUE", I16 |-> "digits", I32 |-> "digits", U32 |-> "digits", I64 |-> "digits",
   F32 |-> "digits", F64 |-> "digits", Date |-> "DATE", Time |-> "TIME",
   Timestamp |-> "TIMESTAMP", TimestampTz |-> "TIMESTAMPTZ", Uuid |-> "UUID", Json |-> "JSON",
   Bytes |-> "from_hex"]

\* List elements are written by a second match with the same arms.
array_cell_to_sql_literal == cell_to_sql_literal

\* The floats that are no number are cast from their names.
float_literal(c) ==
  IF c.kind \in {"F32", "F64"} /\ HasElement(c, {<<"nan">>}) THEN "CAST" ELSE "digits"

cell_requires_sql_literals(c) == c.shape = "array"

Literal(c) ==
  IF c.kind \in {"F32", "F64"} THEN float_literal(c)
  ELSE IF c.shape = "array" THEN Lookup(array_cell_to_sql_literal, c.kind, "quoted")
  ELSE Lookup(cell_to_sql_literal, c.kind, "quoted")

\* `wide`: another cell of the batch is an array, so all rows are literals.
EncodeDuckLake(wide, c) ==
  Some([as     |-> IF wide \/ cell_requires_sql_literals(c)
                   THEN Literal(c) ELSE Lookup(cell_to_value, c.kind, "Text"),
        shape  |-> c.shape, values |-> c.values])

\* What DuckDB converts to each column type without changing the value.
DuckTakes ==
  [BOOLEAN |-> {"Boolean", "TRUE"}, SMALLINT |-> {"SmallInt", "digits"}, INTEGER |-> {"Int", "digits"},
   BIGINT |-> {"BigInt", "digits"}, UBIGINT |-> {"UInt", "digits"},
   FLOAT |-> {"Float", "digits", "CAST"}, DOUBLE |-> {"Double", "digits", "CAST"},
   DATE |-> {"Date32", "DATE"}, TIME |-> {"Time64", "TIME"}, TIMESTAMP |-> {"Timestamp", "TIMESTAMP"},
   TIMESTAMPTZ |-> {"Timestamp", "TIMESTAMPTZ"}, UUID |-> {"Text", "UUID"}, JSON |-> {"Text", "JSON"},
   BLOB |-> {"Blob", "from_hex"}, VARCHAR |-> {"Text", "quoted"}]

ReadDuckLake(type, w) ==
  LET column == Lookup(postgres_column_type_to_ducklake_sql, type, "VARCHAR")
  IN  IF w.shape = "null" \/ w.as \in DuckTakes[column]
      THEN Some([shape |-> w.shape, values |-> w.values])
      ELSE None

----------------------------------------------------------------------------
Encode(d, s, c) ==
  CASE d = "bigquery"   -> EncodeBigQuery(c)
    [] d = "clickhouse" -> EncodeClickHouse(s.array, c)
    [] d = "snowflake"  -> EncodeSnowflake(c)
    [] d = "iceberg"    -> EncodeIceberg(s.type, s.array, c)
    [] d = "ducklake"   -> EncodeDuckLake(s.wide, c)

Read(d, s, w) ==
  CASE d = "bigquery"   -> ReadBigQuery(s.type, s.array, w)
    [] d = "clickhouse" -> ReadClickHouse(s.type, s.array, w)
    [] d = "snowflake"  -> ReadSnowflake(s.type, s.array, w)
    [] d = "iceberg"    -> ReadIceberg(w)
    [] d = "ducklake"   -> ReadDuckLake(s.type, w)

CellInit ==
  /\ dest \in Destinations
  /\ sample \in Samples
  /\ cell = None /\ wire = None /\ stored = None
  /\ stage = "text"

ParseText ==
  /\ stage = "text"
  /\ cell' = parse_cell_from_postgres_text(sample.type, sample.array, sample.value)
  /\ stage' = IF cell' = None THEN "refused" ELSE "cell"
  /\ UNCHANGED <<dest, sample, wire, stored>>

EncodeCell ==
  /\ stage = "cell"
  /\ wire' = Encode(dest, sample, The(cell))
  /\ stage' = IF wire' = None THEN "refused" ELSE "wire"
  /\ UNCHANGED <<dest, sample, cell, stored>>

StoreValue ==
  /\ stage = "wire"
  /\ stored' = Read(dest, sample, The(wire))
  /\ stage' = IF stored' = None THEN "refused" ELSE "stored"
  /\ UNCHANGED <<dest, sample, cell, wire>>

CellNext == ParseText \/ EncodeCell \/ StoreValue

CellSpec == CellInit /\ [][CellNext]_cellVars

----------------------------------------------------------------------------
\* A value is stored as it was or refused with an error: no destination
\* silently turns it into another value, a NULL or another element list.
\* This relates the parser's table, the column table and the encoding table
\* of a destination (conversions/text.rs, schema.rs and encoding.rs).
ValuesSurvive ==
  \A v \in stored : v = sample.value

\* The plain values of every type are not refused: every destination takes
\* what its own column table promises a column for.
PlainValuesArrive ==
  stage = "refused" =>
    \/ sample.value.shape # "scalar"
    \/ \E s \in sample.value.values[1] : s # <<"plain">>
=============================================================================

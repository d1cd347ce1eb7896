----------------------------- MODULE RowDecoding -----------------------------
(***************************************************************************)
(* How rows reach a destination: COPY lines and pgoutput tuples decoded    *)
(* against the table schema, the replication mask and the identity mask    *)
(* (etl/src/conversions/{event,table_row}.rs, etl-postgres/src/types and   *)
(* the schema rows of etl-postgres/src/replication/schema.rs).             *)
(*                                                                         *)
(* One table is copied and then changed, by rows and by ALTER TABLE.  A    *)
(* mirror follows the decoded events alone, finding rows by the old image  *)
(* of the event, and its columns by SchemaDiff.                            *)
(*                                                                         *)
(* A value is a sequence of characters, or None for NULL; values in        *)
(* Toasted are stored out of line.  The types of cells are the subject of  *)
(* CellConversions.  External: Postgres and the destination.               *)
(***************************************************************************)
EXTENDS Naturals, Sequences, FiniteSets, SequencesExt, FiniteSetsExt

CONSTANTS
  Texts,       \* values of the columns
  Toasted,     \* the values stored out of line
  Names,       \* names that columns may have
  Identities,  \* REPLICA IDENTITY modes: "d", "i", "f", "n"
  MaxRows, MaxColumns,
  MaxChanges,  \* row changes after the copy
  MaxAlters    \* ALTER TABLE and ALTER PUBLICATION statements

VARIABLES
  columns,     \* pg_attribute: attnum -> [name, notnull]
  attnums,     \* the attribute numbers used so far
  primary_key, \* the attribute numbers of the primary key, in key order
  unique_key,  \* the attribute numbers of the replica identity index
  relreplident,
  column_list, \* the published columns, or None for all of them
  rows,        \* the table: functions from attribute numbers to values
  stored,      \* etl.table_columns of the current snapshot
  replicated,  \* the ReplicatedTableSchema in use, once the copy started
  announce,    \* pgoutput owes a RELATION message
  mirror_schema, mirror,
  error,       \* the error that stopped the worker
  changes, alters

catalog == <<columns, attnums, primary_key, unique_key, relreplident, column_list>>
rowVars == <<columns, attnums, primary_key, unique_key, relreplident, column_list, rows, stored,
             replicated, announce, mirror_schema, mirror, error, changes, alters>>

None == {}
Some(x) == {x}
The(option) == CHOOSE x \in option : TRUE

Ok(x) == [error |-> None, value |-> x]
Err(kind) == [error |-> Some(kind), value |-> <<>>]

(* ------------------------------ schemas ----------------------------------- *)

InOrder(set) ==
  [i \in 1..Cardinality(set) |-> CHOOSE n \in set : Cardinality({m \in set : m <= n}) = i]

\* etl.describe_table_schema
describe_table_schema ==
  [i \in 1..Cardinality(DOMAIN columns) |->
     LET n == InOrder(DOMAIN columns)[i] IN
     [attname |-> columns[n].name, attnum |-> n, attnotnull |-> columns[n].notnull]]

\* etl.describe_table_identity
describe_table_identity ==
  [primary_key_attnums |-> primary_key, relreplident |-> relreplident,
   replica_identity_index_attnums |-> IF relreplident = "i" THEN unique_key ELSE <<>>]

\* build_column_schemas: in attnum order, with each column's place in the key.
build_table_schema(description, key) ==
  LET sorted == SortSeq(description, LAMBDA a, b : a.attnum < b.attnum) IN
  [i \in DOMAIN sorted |->
     [name |-> sorted[i].attname, position |-> sorted[i].attnum,
      key |-> {j \in DOMAIN key : key[j] = sorted[i].attnum},
      nullable |-> ~sorted[i].attnotnull]]

\* store_table_schema replaces the rows of a snapshot;
\* load_table_schema_at_snapshot reads them in order of their position.
store_table_schema(schema) == ToSet(schema)
load_table_schema(table_columns) ==
  LET positions == InOrder({c.position : c \in table_columns})
  IN [i \in DOMAIN positions |-> CHOOSE c \in table_columns : c.position = positions[i]]

SchemaNames(schema) == {schema[i].name : i \in DOMAIN schema}

\* ReplicationMask::try_build and IdentityMask::try_build
try_build(schema, names) ==
  IF names \subseteq SchemaNames(schema)
  THEN Ok([i \in DOMAIN schema |-> schema[i].name \in names])
  ELSE Err("UnknownReplicatedColumns")

\* Mutant: identity columns that are not published stay in the mask.
UnfilteredIdentityMask(identity, schema, replication_mask) ==
  LET of_attnums(nums) == [i \in DOMAIN schema |-> schema[i].position \in ToSet(nums)]
  IN CASE identity.relreplident = "f" -> replication_mask
       [] identity.relreplident = "d" -> of_attnums(identity.primary_key_attnums)
       [] identity.relreplident = "i" -> of_attnums(identity.replica_identity_index_attnums)
       [] identity.relreplident = "n" -> [i \in DOMAIN schema |-> FALSE]

\* IdentityMessage::build_identity_mask, used when the copy starts.
build_identity_mask(identity, schema, replication_mask) ==
  LET of_attnums(nums) ==
        [i \in DOMAIN schema |-> replication_mask[i] /\ schema[i].position \in ToSet(nums)]
  IN CASE identity.relreplident = "f" -> replication_mask
       [] identity.relreplident = "d" -> of_attnums(identity.primary_key_attnums)
       [] identity.relreplident = "i" -> of_attnums(identity.replica_identity_index_attnums)
       [] identity.relreplident = "n" -> [i \in DOMAIN schema |-> FALSE]

\* ReplicatedTableSchema::from_masks
from_masks(schema, replication_mask, identity_mask) ==
  [schema |-> schema, mask |-> replication_mask, identity |-> identity_mask]

Where(schema, mask) ==
  LET chosen(c) == \E i \in DOMAIN schema : schema[i] = c /\ mask[i]
  IN SelectSeq(schema, chosen)

column_schemas(r) == Where(r.schema, r.mask)
identity_column_schemas(r) ==
  Where(r.schema, [i \in DOMAIN r.schema |-> r.mask[i] /\ r.identity[i]])

\* primary_key_identity_mask and infer_identity_type
primary_key_identity_mask(r) == [i \in DOMAIN r.schema |-> r.mask[i] /\ r.schema[i].key # {}]
identity_type(r) ==
  CASE \A i \in DOMAIN r.identity : ~r.identity[i] -> "missing"
    [] r.identity = primary_key_identity_mask(r) -> "primary_key"
    [] r.identity = r.mask -> "full"
    [] OTHER -> "alternative_key"

\* ReplicatedTableSchema::diff: a column is known by its position.
diff(old, new) ==
  LET before == ToSet(column_schemas(old)) after == ToSet(column_schemas(new)) IN
  [rename |-> {<<p[1].name, p[2].name>> : p \in {q \in before \X after :
                 q[1].position = q[2].position /\ q[1].name # q[2].name}},
   remove |-> {a.name : a \in {c \in before : \A b \in after : b.position # c.position}},
   add    |-> {b.name : b \in {c \in after : \A a \in before : a.position # c.position}}]

(* ------------------------- what Postgres sends (external) ------------------ *)

Published == {n \in DOMAIN columns : \A l \in column_list : columns[n].name \in l}
IdentityColumns ==
  CASE relreplident = "f" -> DOMAIN columns
    [] relreplident = "d" -> ToSet(primary_key)
    [] relreplident = "i" -> ToSet(unique_key)
    [] OTHER -> {}

\* A RELATION message: the published columns, flagged when in the identity.
relation_message ==
  {[name |-> columns[n].name, key |-> n \in IdentityColumns] : n \in Published}

Field(v) == IF v = None THEN [kind |-> "null", text |-> <<>>]
            ELSE [kind |-> "text", text |-> The(v)]
Tuple(row, nums) == [i \in 1..Cardinality(nums) |-> Field(row[InOrder(nums)[i]])]

\* The new tuple of an update leaves out unchanged values stored out of line.
NewTuple(old, new) ==
  [i \in 1..Cardinality(Published) |->
     LET n == InOrder(Published)[i] IN
     IF new[n] = old[n] /\ new[n] # None /\ The(new[n]) \in Toasted
     THEN [kind |-> "unchanged", text |-> <<>>] ELSE Field(new[n])]

\* A key image is as wide as the relation, or has only the key columns.
KeyTuples(row) ==
  {Tuple([n \in DOMAIN row |-> IF n \in IdentityColumns THEN row[n] ELSE None], Published),
   Tuple(row, IdentityColumns)}

OldImages(old, needed) ==
  IF relreplident = "f" THEN {[kind |-> "old", tuple |-> Tuple(old, Published)]}
  ELSE IF needed THEN {[kind |-> "key", tuple |-> t] : t \in KeyTuples(old)}
  ELSE {[kind |-> "none", tuple |-> <<>>]}

\* A line of COPY: fields separated by tabs, special characters escaped.
Escaped(c) == CASE c = "\\" -> <<"\\", "\\">> [] c = "TAB" -> <<"\\", "t">>
                [] c = "NL" -> <<"\\", "n">> [] OTHER -> <<c>>
CopyField(v) == IF v = None THEN <<"\\", "N">>
                ELSE FlattenSeq([i \in DOMAIN The(v) |-> Escaped(The(v)[i])])
CopyLine(row, nums) ==
  FlattenSeq([i \in 1..Cardinality(nums) |->
    CopyField(row[InOrder(nums)[i]]) \o (IF i = Cardinality(nums) THEN <<"NL">> ELSE <<"TAB">>)])

(* ------------------------------ decoding ---------------------------------- *)

\* The character after a backslash.
Unescape(c) == CASE c = "N" -> <<"\\", "N">> [] c = "t" -> <<"TAB">> [] c = "n" -> <<"NL">>
                 [] OTHER -> <<c>>

\* A field that reads \N is NULL.
CopyCell(val_str) == IF val_str = <<"\\", "N">> THEN None ELSE Some(val_str)

\* parse_table_row_from_postgres_copy_bytes
parse_table_row_from_postgres_copy_bytes(line, schemas) ==
  LET next(s, c) ==
        IF s.escape THEN [s EXCEPT !.val = @ \o Unescape(c), !.escape = FALSE]
        ELSE IF c \in {"TAB", "NL"}
        THEN [s EXCEPT !.values = Append(@, CopyCell(s.val)), !.val = <<>>,
                       !.terminated = @ \/ c = "NL"]
        ELSE IF c = "\\" THEN [s EXCEPT !.escape = TRUE]
        ELSE [s EXCEPT !.val = Append(@, c)]
      end == FoldLeft(next, [values |-> <<>>, val |-> <<>>, escape |-> FALSE,
                             terminated |-> FALSE], line)
  IN IF Len(end.values) # Len(schemas) \/ ~end.terminated THEN Err("ConversionError")
     ELSE Ok(end.values)

Missing == [missing |-> TRUE, value |-> None]
Present(v) == [missing |-> FALSE, value |-> v]

\* convert_tuple_data_to_cell, with the old value as an option.
convert_tuple_data_to_cell(schema, field, old_value) ==
  CASE field.kind = "null" -> IF schema.nullable THEN Ok(Present(None)) ELSE Err("InvalidData")
    [] field.kind = "unchanged" -> IF old_value = None THEN Ok(Missing) ELSE Ok(Present(The(old_value)))
    [] field.kind = "text" -> Ok(Present(Some(field.text)))

\* The first error of a sequence of results, or their values.
Collected(results) ==
  LET failed == {i \in DOMAIN results : results[i].error # None} IN
  IF failed # {} THEN results[Min(failed)] ELSE Ok([i \in DOMAIN results |-> results[i].value])

\* convert_tuple_to_row: a full image has no missing value.
convert_tuple_to_row(schemas, tuple) ==
  IF Len(tuple) # Len(schemas) THEN Err("ConversionError")
  ELSE LET cells == Collected([i \in DOMAIN tuple |->
                                convert_tuple_data_to_cell(schemas[i], tuple[i], None)])
       IN IF cells.error # None THEN cells
          ELSE IF \E i \in DOMAIN tuple : cells.value[i].missing THEN Err("ConversionError")
          ELSE Ok([i \in DOMAIN tuple |-> cells.value[i].value])

\* convert_full_width_key_tuple_to_row
KeyOf(r, tuple) ==
  LET at == InOrder({i \in DOMAIN tuple : column_schemas(r)[i] \in ToSet(identity_column_schemas(r))})
  IN [k \in DOMAIN at |-> tuple[at[k]]]

\* normalize_key_tuple_to_row
normalize_key_tuple_to_row(r, tuple) ==
  LET key == identity_column_schemas(r) IN
  CASE key = <<>> -> Err("ConversionError")
    [] Len(tuple) = Len(key) -> convert_tuple_to_row(key, tuple)
    [] Len(tuple) # Len(key) /\ Len(tuple) = Len(column_schemas(r)) ->
         convert_tuple_to_row(key, KeyOf(r, tuple))
    [] OTHER -> Err("ConversionError")

\* OldTableRow: the kind of the image and its row.
old_table_row(r, image) ==
  LET row == CASE image.kind = "none" -> Ok(<<>>)
               [] image.kind = "old" -> convert_tuple_to_row(column_schemas(r), image.tuple)
               [] image.kind = "key" -> normalize_key_tuple_to_row(r, image.tuple)
  IN IF row.error # None THEN row ELSE Ok([kind |-> image.kind, row |-> row.value])

\* Mutant: key values are taken by the position of the column.
ValueAtColumn(r, old, i) ==
  CASE old.kind = "none" -> None
    [] old.kind = "old" -> Some(old.row[i])
    [] old.kind = "key" -> IF i \in DOMAIN old.row THEN Some(old.row[i]) ELSE None

\* OldRowResolver::value_for_column: a key row has a value for the next
\* identity column only.
value_for_column(r, old, i) ==
  LET schemas == column_schemas(r)
      key == ToSet(identity_column_schemas(r))
  IN CASE old.kind = "none" -> None
       [] old.kind = "old" -> Some(old.row[i])
       [] old.kind = "key" ->
            IF schemas[i] \in key
            THEN Some(old.row[Cardinality({j \in 1..i : schemas[j] \in key})]) ELSE None

\* convert_update_tuple_to_updated_table_row: the present values in order, and
\* the indexes of the missing columns (UpdatedTableRow::Partial) if there are any.
convert_update_tuple_to_updated_table_row(r, tuple, old) ==
  LET schemas == column_schemas(r) IN
  IF \/ Len(tuple) # Len(schemas)
     \/ old.kind = "old" /\ Len(old.row) # Len(schemas)
     \/ old.kind = "key" /\ Len(old.row) # Len(identity_column_schemas(r))
  THEN Err("ConversionError")
  ELSE LET cells == Collected([i \in DOMAIN tuple |->
                      convert_tuple_data_to_cell(schemas[i], tuple[i], value_for_column(r, old, i))])
           present == InOrder({i \in DOMAIN tuple : ~cells.value[i].missing})
       IN IF cells.error # None THEN cells
          ELSE Ok([values |-> [k \in DOMAIN present |-> cells.value[present[k]].value],
                   missing_column_indexes |-> {i \in DOMAIN tuple : cells.value[i].missing}])

(* ----------------------- the destination (external) ----------------------- *)

ColumnNames(r) ==
  LET schemas == column_schemas(r) IN [i \in DOMAIN schemas |-> schemas[i].name]

\* A row of the mirror maps column names to values.
MirrorRow(r, values) ==
  LET names == ColumnNames(r)
  IN [n \in ToSet(names) |-> values[CHOOSE i \in DOMAIN values : names[i] = n]]

\* The columns by which a destination finds a row.
MatchedBy(r) == IF identity_type(r) = "primary_key"
                THEN Where(r.schema, primary_key_identity_mask(r))
                ELSE identity_column_schemas(r)

\* The row m is the one an old image names; without one, the identity of the
\* new row names it.
Located(r, old, m, new) ==
  LET key == MatchedBy(r) IN
  CASE old.kind = "old" -> m = MirrorRow(r, old.row)
    [] old.kind = "key" -> \A i \in DOMAIN key : m[key[i].name] = old.row[i]
    [] old.kind = "none" -> \A i \in DOMAIN key : m[key[i].name] = new[key[i].name]

\* A partial row takes its missing values from the row it replaces.
Merged(r, updated, m) ==
  LET names == ColumnNames(r)
      present == InOrder(DOMAIN names \ updated.missing_column_indexes)
  IN MirrorRow(r, [i \in DOMAIN names |->
       IF i \in updated.missing_column_indexes THEN m[names[i]]
       ELSE updated.values[CHOOSE k \in DOMAIN present : present[k] = i]])

(* -------------------------------- actions --------------------------------- *)

MayChange == changes < MaxChanges
Streaming == replicated # None /\ ~announce /\ error = None

Stop(kind) == error' = kind /\ UNCHANGED mirror

\* The table sync worker: the schema, its masks and the copied rows.
Copy ==
  /\ replicated = None /\ error = None
  /\ LET schema == build_table_schema(describe_table_schema, primary_key)
         mask == try_build(schema, {columns[n].name : n \in Published}).value
         r == from_masks(schema, mask, build_identity_mask(describe_table_identity, schema, mask))
         parsed(row) == parse_table_row_from_postgres_copy_bytes(CopyLine(row, Published),
                                                                 column_schemas(r))
     IN /\ stored' = store_table_schema(schema)
        /\ replicated' = Some(r) /\ mirror_schema' = r
        /\ IF \E row \in rows : parsed(row).error # None THEN Stop(Some("ConversionError"))
           ELSE mirror' = {MirrorRow(r, parsed(row).value) : row \in rows} /\ UNCHANGED error
  /\ announce' = TRUE
  /\ UNCHANGED <<catalog, rows, changes, alters>>

\* handle_relation_message: masks by name, over the stored schema; the
\* destination then changes its columns.
Relation ==
  /\ replicated # None /\ announce /\ error = None
  /\ LET schema == load_table_schema(stored)
         message == relation_message
         mask == try_build(schema, {c.name : c \in message})
         identity == try_build(schema, {c.name : c \in {k \in message : k.key}})
         r == from_masks(schema, mask.value, identity.value)
         d == diff(mirror_schema, r)
         from(n) == IF \E p \in d.rename : p[2] = n THEN (CHOOSE p \in d.rename : p[2] = n)[1] ELSE n
     IN IF mask.error # None THEN Stop(mask.error) /\ UNCHANGED <<replicated, mirror_schema>>
        ELSE /\ replicated' = Some(r) /\ mirror_schema' = r
             /\ mirror' = {[n \in ToSet(ColumnNames(r)) |->
                              IF n \in d.add THEN None ELSE m[from(n)]] : m \in mirror}
             /\ UNCHANGED error
  /\ announce' = FALSE
  /\ UNCHANGED <<catalog, rows, stored, changes, alters>>

Unique(table) ==
  \A a, b \in table : a = b \/ (/\ \E n \in ToSet(primary_key) : a[n] # b[n]
                                /\ \E n \in ToSet(unique_key) : a[n] # b[n])
Allowed(table) == Unique(table) /\ Cardinality(table) <= MaxRows
Legal(row) == \A n \in DOMAIN columns : columns[n].notnull => row[n] # None
Rows == [DOMAIN columns -> {None} \cup {Some(x) : x \in Texts}]

Changed(table) ==
  /\ changes' = changes + 1
  /\ rows' = table
  /\ UNCHANGED <<catalog, stored, replicated, announce, mirror_schema, alters>>

\* parse_event_from_insert_message
Insert(row) ==
  /\ Streaming /\ MayChange /\ Legal(row) /\ row \notin rows
  /\ Allowed(rows \cup {row})
  /\ LET r == The(replicated)
         decoded == convert_tuple_to_row(column_schemas(r), Tuple(row, Published))
     IN IF decoded.error # None THEN Stop(decoded.error)
        ELSE mirror' = mirror \cup {MirrorRow(r, decoded.value)} /\ UNCHANGED error
  /\ Changed(rows \cup {row})

\* Postgres refuses updates and deletes of a table without an identity, or
\* whose identity the column list does not cover.
Identified == IdentityColumns # {} /\ IdentityColumns \subseteq Published

\* parse_event_from_update_message
Update(old, new) ==
  /\ Streaming /\ MayChange /\ old \in rows /\ new # old /\ Legal(new) /\ Identified
  /\ Allowed((rows \ {old}) \cup {new})
  /\ \E image \in OldImages(old, \E n \in IdentityColumns :
                                   new[n] # old[n] \/ The(old[n]) \in Toasted) :
       LET r == The(replicated)
           before == old_table_row(r, image)
           after == convert_update_tuple_to_updated_table_row(r, NewTuple(old, new), before.value)
           new_row(m) == Merged(r, after.value, m)
           located == {m \in mirror : Located(r, before.value, m, new_row(m))}
       IN IF before.error # None THEN Stop(before.error)
          ELSE IF after.error # None THEN Stop(after.error)
          ELSE mirror' = (mirror \ located) \cup {new_row(m) : m \in located} /\ UNCHANGED error
  /\ Changed((rows \ {old}) \cup {new})

\* parse_event_from_delete_message
Delete(old) ==
  /\ Streaming /\ MayChange /\ old \in rows /\ Identified
  /\ \E image \in OldImages(old, TRUE) :
       LET r == The(replicated)
           before == old_table_row(r, image)
       IN IF before.error # None THEN Stop(before.error)
          ELSE mirror' = {m \in mirror : ~Located(r, before.value, m, <<>>)} /\ UNCHANGED error
  /\ Changed(rows \ {old})

\* An ALTER TABLE of a published table emits a schema change message, whose
\* table schema is stored; a RELATION message comes before the next row.
Altered(cols, table) ==
  /\ Streaming /\ alters < MaxAlters /\ alters' = alters + 1
  /\ columns' = cols /\ rows' = table
  /\ stored' = store_table_schema(build_table_schema(describe_table_schema', primary_key))
  /\ announce' = TRUE
  /\ UNCHANGED <<primary_key, unique_key, column_list, replicated, mirror_schema, mirror, error,
                 changes>>

FreeNames == Names \ {columns[n].name : n \in DOMAIN columns}
Keyed == ToSet(primary_key) \cup ToSet(unique_key)
Listed(n) == \E l \in column_list : columns[n].name \in l

AddColumn(name) ==
  /\ name \in FreeNames /\ Cardinality(DOMAIN columns) < MaxColumns
  /\ LET n == attnums + 1 IN
       /\ Altered([i \in DOMAIN columns \cup {n} |->
                     IF i = n THEN [name |-> name, notnull |-> FALSE] ELSE columns[i]],
                  {[i \in DOMAIN columns \cup {n} |-> IF i = n THEN None ELSE row[i]] : row \in rows})
       /\ attnums' = n
  /\ UNCHANGED relreplident

\* A column of the column list or of a key is not dropped.
DropColumn(n) ==
  /\ n \in DOMAIN columns \ Keyed /\ ~Listed(n)
  /\ Altered([i \in DOMAIN columns \ {n} |-> columns[i]],
             {[i \in DOMAIN columns \ {n} |-> row[i]] : row \in rows})
  /\ UNCHANGED <<attnums, relreplident>>

RenameColumn(n, name) ==
  /\ n \in DOMAIN columns /\ name \in FreeNames /\ ~Listed(n)
  /\ Altered([columns EXCEPT ![n].name = name], rows)
  /\ UNCHANGED <<attnums, relreplident>>

SetNotNull(n) ==
  /\ n \in DOMAIN columns \ Keyed /\ \A row \in rows : row[n] # None
  /\ Altered([columns EXCEPT ![n].notnull = ~@], rows)
  /\ UNCHANGED <<attnums, relreplident>>

\* REPLICA IDENTITY FULL does not go with a column list.
SetIdentity(mode) ==
  /\ mode # relreplident /\ (mode = "f" => column_list = None)
  /\ relreplident' = mode
  /\ Altered(columns, rows)
  /\ UNCHANGED attnums

RowInit ==
  /\ columns = [n \in 1..3 |-> [name |-> <<"c1", "c2", "c3">>[n], notnull |-> n # 1]]
  /\ attnums = 3 /\ primary_key = <<3>> /\ unique_key = <<2>>
  /\ relreplident \in Identities
  /\ column_list \in {None, Some({"c2", "c3"}), Some({"c1", "c3"})}
  /\ relreplident = "f" => column_list = None
  /\ rows \in {t \in UNION {kSubset(k, {row \in Rows : Legal(row)}) : k \in 0..1} : Unique(t)}
  /\ stored = {} /\ replicated = None /\ announce = FALSE
  /\ mirror_schema = [schema |-> <<>>, mask |-> <<>>, identity |-> <<>>] /\ mirror = {}
  /\ error = None /\ changes = 0 /\ alters = 0

RowNext ==
  \/ Copy \/ Relation
  \/ \E row \in Rows : Insert(row)
  \/ \E old \in rows, new \in Rows : Update(old, new)
  \/ \E old \in rows : Delete(old)
  \/ \E name \in Names : AddColumn(name)
  \/ \E n \in DOMAIN columns : DropColumn(n) \/ SetNotNull(n)
  \/ \E n \in DOMAIN columns, name \in Names : RenameColumn(n, name)
  \/ \E mode \in Identities : SetIdentity(mode)

RowSpec == RowInit /\ [][RowNext]_rowVars

(* ------------------------------- properties ------------------------------- *)

\* After every event the mirror holds the published part of the table, and no
\* message that Postgres sends is refused: COPY lines, full and key images,
\* unchanged values out of line and renamed, added and dropped columns are all
\* decoded to the values of the source (conversions/event.rs, table_row.rs).
MirrorIsExact ==
  /\ error = None
  /\ Streaming => mirror = {[name \in {columns[n].name : n \in Published} |->
                               row[CHOOSE n \in Published : columns[n].name = name]] : row \in rows}

\* "Filter through the replication mask so initial copy matches streaming
\* relation-message semantics": whatever was altered, the masks that a copy
\* would build from the catalog are the masks of the RELATION messages.
MasksAgree ==
  Streaming =>
    LET r == The(replicated)
        schema == build_table_schema(describe_table_schema, primary_key)
        mask == try_build(schema, {columns[n].name : n \in Published}).value
    IN r = from_masks(schema, mask, build_identity_mask(describe_table_identity, schema, mask))
=============================================================================

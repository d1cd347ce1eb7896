--------------------------- MODULE StoredConfigs ---------------------------
(***************************************************************************)
(* A configuration on its way from an API request to the replicator that   *)
(* runs with it: request JSON -> FullApi*Config -> Stored*Config ->        *)
(* encrypted row -> Stored*Config -> *Config -> *ConfigWithoutSecrets in   *)
(* the ConfigMap, plus secrets in environment variables -> the replicator. *)
(* A client may also read the configuration, change one field of what it   *)
(* got and send everything back.  Every hop has its own table of fields,   *)
(* options and serde defaults; the model keeps the tables and abstracts    *)
(* the values.                                                             *)
(*                                                                         *)
(* JSON is a function on the fields that are present; a Rust value is a    *)
(* function from all fields to an option ({} is None).                     *)
(***************************************************************************)
EXTENDS Naturals, Functions

CONSTANTS ConfigKinds, \* the kinds of configuration to follow
          Values,      \* values a client gives a field
          Explicit,    \* fields a client may set to null
          MaxGiven,    \* bound on the optional fields of one request
          MaxEdits,    \* bound on requests that write
          MaxRotations \* bound on changes of the encryption key

VARIABLES kind,
          key,      \* id of the key the API encrypts and decrypts with
          row,      \* the config column: {} or {[json, key]}
          held,     \* JSON the client last read, an option
          running,  \* what the replicator started with, an option
          intent,   \* ghost: what the client asked for
          outcome, edits, rotations

configVars == <<kind, key, row, held, running, intent, outcome, edits, rotations>>

None == {}
Some(x) == {x}
The(option) == CHOOSE x \in option : TRUE
JsonNull == "null"
Default == "default"

\* " a" stands for a value with white space around it, "0" for one out of
\* the range the validations accept.
trim_string(v) == IF v = " a" THEN "a" ELSE v
Zero == "0"

----------------------------------------------------------------------------
\* The field tables of the API types.  required: no option; defaulted: an
\* option that becomes a plain field with a default; plain: a plain field
\* with a serde default; optional: an option everywhere; kept: read as it is
\* written, without trimming.

Fields(required, defaulted, plain, optional, kept) ==
  [required |-> required, defaulted |-> defaulted, plain |-> plain, optional |-> optional, kept |-> kept]

FullApiSourceConfig ==
  Fields({"host", "port", "name", "username"}, {}, {}, {"hostaddr", "password"}, {"port", "hostaddr", "password"})

FullApiPipelineConfig ==
  LET numbers == {"batch", "table_error_retry_delay_ms", "table_error_retry_max_attempts",
                  "max_table_sync_workers", "max_copy_connections_per_table", "memory_refresh_interval_ms",
                  "table_sync_copy", "invalidated_slot_behavior"}
      options == {"memory_backpressure", "replicator_resources", "ducklake_maintenance", "log_level"}
  IN  Fields({"publication_name"}, numbers, {}, options, numbers \union options)

FullApiDestinationConfig ==
  [big_query  |-> Fields({"project_id", "dataset_id", "service_account_key"}, {"connection_pool_size"}, {},
                         {"max_staleness_mins"},
                         {"service_account_key", "connection_pool_size", "max_staleness_mins"}),
   clickhouse |-> Fields({"url", "user", "database"}, {}, {"engine"}, {"password"}, {"engine", "password"}),
   ducklake   |-> Fields({"catalog_url", "data_path"}, {"pool_size"}, {"maintenance_mode"},
                         {"s3_access_key_id", "s3_secret_access_key", "s3_region", "s3_endpoint", "s3_url_style",
                          "s3_use_ssl", "metadata_schema", "duckdb_memory_cache_limit",
                          "maintenance_target_file_size", "expire_snapshots_older_than"},
                         {"pool_size", "maintenance_mode", "s3_use_ssl"})]

FullApiIcebergConfig ==
  LET keys == {"s3_access_key_id", "s3_secret_access_key"}
  IN  [supabase |-> Fields({"project_ref", "warehouse_name", "catalog_token", "s3_region"} \union keys,
                           {}, {}, {"namespace"}, {"catalog_token"} \union keys),
       rest     |-> Fields({"catalog_uri", "warehouse_name", "s3_endpoint"} \union keys,
                           {}, {}, {"namespace"}, keys)]

Table(k) ==
  CASE k = "pipeline"                 -> FullApiPipelineConfig
    [] k = "source"                   -> FullApiSourceConfig
    [] k \in {"supabase", "rest"}     -> FullApiIcebergConfig[k]
    [] OTHER                          -> FullApiDestinationConfig[k]

OptionalOf(k) == Table(k).defaulted \union Table(k).plain \union Table(k).optional
FieldsOf(k) == Table(k).required \union OptionalOf(k)

\* EncryptedValue fields of the stored types.
Encrypted ==
  [pipeline |-> {}, source |-> {"password"}, big_query |-> {"service_account_key"}, clickhouse |-> {"password"},
   supabase |-> {"catalog_token", "s3_access_key_id", "s3_secret_access_key"},
   rest |-> {"s3_access_key_id", "s3_secret_access_key"},
   ducklake |-> {"s3_access_key_id", "s3_secret_access_key"}]

----------------------------------------------------------------------------
\* Request JSON -> FullApi*Config -> Stored*Config.

\* serde: what an absent field becomes.  memory_backpressure is the one option
\* whose absence does not mean None.
default_memory_backpressure == Some(Default)

Absent(k, f) ==
  CASE f = "memory_backpressure" -> default_memory_backpressure
    [] f \in Table(k).plain      -> Some(Default)
    [] OTHER                     -> None

DeserializeRequest(k, json) ==
  [f \in FieldsOf(k) |->
     IF f \notin DOMAIN json THEN Absent(k, f)
     ELSE IF json[f] = JsonNull THEN None
     ELSE Some(IF f \in Table(k).kept THEN json[f] ELSE trim_string(json[f]))]

\* The validations of routes/pipelines.rs; the other kinds have none.
ReplicatorResourcesValid(full) == full["replicator_resources"] # Some(Zero)
DuckLakeMaintenanceValid(full) == full["ducklake_maintenance"] # Some(Zero)
Accepted(k, full) == k = "pipeline" => ReplicatorResourcesValid(full) /\ DuckLakeMaintenanceValid(full)

UnwrapOr(full, defaulted) ==
  [f \in DOMAIN full |-> IF f \in defaulted /\ full[f] = None THEN Some(Default) ELSE full[f]]

StoredPipelineFromFull(full) == UnwrapOr(full, FullApiPipelineConfig.defaulted)
StoredSourceFromFull(full) == full
StoredDestinationFromFull(k, full) == UnwrapOr(full, Table(k).defaulted)

StoredFromFull(k, full) ==
  CASE k = "pipeline" -> StoredPipelineFromFull(full)
    [] k = "source"   -> StoredSourceFromFull(full)
    [] OTHER          -> StoredDestinationFromFull(k, full)

----------------------------------------------------------------------------
\* Stored*Config -> row -> Stored*Config.

\* Serialization without skip_serializing_if writes None as null.
Json(config, skipped) ==
  [f \in {g \in DOMAIN config : config[g] = None => g \notin skipped} |->
     IF config[f] = None THEN JsonNull ELSE The(config[f])]

SkippedInRow(k) == IF k = "source" THEN {"hostaddr"} ELSE {}

\* One key encrypts the secrets of one configuration, so its id stands once
\* in the row.  The ciphertext opens to the value under that key alone.
encrypt_text == key
encrypt_and_serialize(k, stored) == [json |-> Json(stored, SkippedInRow(k)), key |-> encrypt_text]

\* decrypt_text refuses a value whose key id is not the configured one.
decrypt_text(id) == id = key

Decryptable(k, r) ==
  \A f \in Encrypted[k] \intersect DOMAIN r.json : r.json[f] # JsonNull => decrypt_text(r.key)

\* Rows written before a field existed lack it; serde fills the default.
RowDefault(k, f) ==
  CASE f = "memory_backpressure"                        -> default_memory_backpressure
    [] f \in Table(k).defaulted \union Table(k).plain   -> Some(Default)
    [] OTHER                                            -> None

decrypt_and_deserialize_from_value(k, r) ==
  [f \in FieldsOf(k) |->
     IF f \notin DOMAIN r.json THEN RowDefault(k, f)
     ELSE IF r.json[f] = JsonNull THEN None ELSE Some(r.json[f])]

----------------------------------------------------------------------------
\* Stored*Config -> response JSON.

\* Options without skip_serializing_if.
NotSkipped(k) ==
  CASE k = "pipeline"   -> {"log_level"}
    [] k = "clickhouse" -> {"password"}
    [] k = "rest"       -> {"namespace"}
    [] OTHER            -> {}

\* Mutant: the pool size is not read back.
FullWithoutPoolSize(k, stored) ==
  Json([f \in FieldsOf(k) |-> IF f = "connection_pool_size" THEN None ELSE stored[f]], FieldsOf(k) \ NotSkipped(k))

FullFromDestination(k, stored) == Json(stored, FieldsOf(k) \ NotSkipped(k))

FullFromPipeline(stored) == Json(stored, FieldsOf("pipeline") \ NotSkipped("pipeline"))
StrippedApiSourceConfig(stored) == Json(Restrict(stored, FieldsOf("source") \ {"password"}), {"hostaddr"})

Response(k, stored) ==
  CASE k = "pipeline" -> FullFromPipeline(stored)
    [] k = "source"   -> StrippedApiSourceConfig(stored)
    [] OTHER          -> FullFromDestination(k, stored)

----------------------------------------------------------------------------
\* Stored*Config -> ConfigMap and secrets -> the replicator's configuration.

\* Sizing, maintenance and logging go to the StatefulSet and the maintenance
\* resource, not to the replicator's configuration.
pipeline_into_etl_config(stored) ==
  Restrict(stored, FieldsOf("pipeline") \ {"replicator_resources", "ducklake_maintenance", "log_level"})
destination_into_etl_config(stored) == stored
into_connection_config(stored) == stored

EtlConfig(k, stored) ==
  CASE k = "pipeline" -> pipeline_into_etl_config(stored)
    [] k = "source"   -> into_connection_config(stored)
    [] OTHER          -> destination_into_etl_config(stored)

SkippedInMap(k) ==
  CASE k = "source"    -> {"hostaddr"}
    [] k = "big_query" -> {"max_staleness_mins"}
    [] OTHER           -> {}

\* Mutant: a field missing from one hop.
WithoutSecretsOrPoolSize(k, config) ==
  Json(Restrict(config, DOMAIN config \ (Encrypted[k] \union {"pool_size"})), SkippedInMap(k))

WithoutSecrets(k, config) == Json(Restrict(config, DOMAIN config \ Encrypted[k]), SkippedInMap(k))

\* An absent source password becomes the empty string; the REST catalog's keys
\* become no secret at all.
build_secrets_from_configs(k, stored) ==
  LET secrets == IF k = "rest" THEN {}
                 ELSE {f \in Encrypted[k] : k = "source" \/ stored[f] # None}
  IN  [f \in secrets |-> IF stored[f] = None THEN "" ELSE The(stored[f])]

\* load_config: the file overlaid with the environment variables.
Load(file, env) == [f \in DOMAIN file \union DOMAIN env |-> IF f \in DOMAIN env THEN env[f] ELSE file[f]]

\* The replicator's own serde defaults repeat those of the rows.
DeserializeReplicator(k, json, fields) ==
  [f \in fields |-> IF f \notin DOMAIN json THEN RowDefault(k, f)
                    ELSE IF json[f] = JsonNull THEN None ELSE Some(json[f])]

PipelineConfigValid(config) ==
  \A f \in {"batch", "max_table_sync_workers", "table_error_retry_max_attempts", "max_copy_connections_per_table",
            "memory_backpressure", "memory_refresh_interval_ms"} : config[f] # Some(Zero)

Starts(k, config) ==
  /\ \A f \in Table(k).required : config[f] # None
  /\ k = "pipeline" => PipelineConfigValid(config)

----------------------------------------------------------------------------
\* What a request asks for, as the documentation of the fields states it: a
\* given value, trimmed; nothing for an explicit null, unless the field has a
\* default and no way to be off; the default, if there is one, when omitted.
Meant(k, json) ==
  [f \in FieldsOf(k) |->
     CASE f \in DOMAIN json /\ json[f] # JsonNull -> Some(IF f \in Table(k).kept THEN json[f] ELSE trim_string(json[f]))
       [] f \in Table(k).defaulted \union Table(k).plain -> Some(Default)
       [] f = "memory_backpressure" /\ f \notin DOMAIN json -> Some(Default)
       [] OTHER -> None]

RequestBodies(k) ==
  LET given == {{}} \union {Range(g) : g \in [1..MaxGiven -> OptionalOf(k)]}
      nulls == Explicit \intersect (Table(k).defaulted \union Table(k).optional)
  IN  UNION {{[f \in Table(k).required \union s \union n |-> IF f \in n THEN JsonNull ELSE v] :
                v \in Values, n \in SUBSET (nulls \ s)} : s \in given}

\* Rows of an earlier release, from before the fields with defaults.
LegacyJson(k) == [f \in Table(k).required |-> "a"]

ConfigInit ==
  /\ kind \in ConfigKinds
  /\ key = 1
  /\ row \in {None, Some([json |-> LegacyJson(kind), key |-> 1])}
  /\ held = None
  /\ running = None
  /\ intent = Meant(kind, LegacyJson(kind))
  /\ outcome = "none"
  /\ edits = 0
  /\ rotations = 0

\* create_* and update_*: validate, convert, encrypt and store in one request.
Put(json, meant) ==
  LET full == DeserializeRequest(kind, json) IN
  /\ edits < MaxEdits
  /\ edits' = edits + 1
  /\ held' = None
  /\ IF Accepted(kind, full)
     THEN /\ row' = Some(encrypt_and_serialize(kind, StoredFromFull(kind, full)))
          /\ intent' = meant
          /\ outcome' = "ok"
     ELSE outcome' = "bad_request" /\ UNCHANGED <<row, intent>>
  /\ UNCHANGED <<kind, key, running, rotations>>

Submit == \E json \in RequestBodies(kind) : Put(json, Meant(kind, json))

\* A client sends back what it read with one field changed.  The source's
\* password is not part of what it read, so it adds the one it knows.
WriteBack ==
  \E read \in held, f \in FieldsOf(kind), v \in Values :
    LET known == IF kind = "source" /\ intent["password"] # None
                 THEN [password |-> The(intent["password"])] ELSE <<>>
        sent  == [g \in DOMAIN read \union DOMAIN known \union {f} |->
                    IF g = f THEN v ELSE IF g \in DOMAIN known THEN known[g] ELSE read[g]]
    IN  Put(sent, [intent EXCEPT ![f] = Meant(kind, sent)[f]])

ReadConfig ==
  /\ row # None
  /\ IF Decryptable(kind, The(row))
     THEN /\ held' = Some(Response(kind, decrypt_and_deserialize_from_value(kind, The(row))))
          /\ outcome' = "ok"
     ELSE outcome' = "internal_error" /\ held' = None
  /\ UNCHANGED <<kind, key, row, running, intent, edits, rotations>>

\* create_or_update_pipeline_resources_in_k8s and the replicator's start.
Deploy ==
  /\ row # None
  /\ IF Decryptable(kind, The(row))
     THEN LET stored == decrypt_and_deserialize_from_value(kind, The(row))
              etl    == EtlConfig(kind, stored)
              loaded == DeserializeReplicator(kind,
                          Load(WithoutSecrets(kind, etl), build_secrets_from_configs(kind, stored)), DOMAIN etl)
          IN  IF Starts(kind, loaded)
              THEN running' = Some([config |-> loaded, meant |-> intent]) /\ outcome' = "ok"
              ELSE running' = None /\ outcome' = "replicator_refused"
     ELSE outcome' = "internal_error" /\ UNCHANGED running
  /\ UNCHANGED <<kind, key, row, held, intent, edits, rotations>>

\* The API restarts with another encryption key.
Rotate ==
  /\ rotations < MaxRotations
  /\ rotations' = rotations + 1
  /\ key' = key + 1
  /\ UNCHANGED <<kind, row, held, running, intent, outcome, edits>>

ConfigNext == Submit \/ WriteBack \/ ReadConfig \/ Deploy \/ Rotate

ConfigSpec == ConfigInit /\ [][ConfigNext]_configVars

----------------------------------------------------------------------------
(***************************************************************************)
(* Properties.                                                             *)
(***************************************************************************)

\* The stored row means what the client asked for, field by field, also when
\* the row is a read-modify-write of one field or an old row without the newer
\* fields: a client that changes one field changes nothing else.
StoredIsIntended ==
  \A r \in row : decrypt_and_deserialize_from_value(kind, r) = intent

\* The replicator starts with what the client asked for: no field is lost or
\* replaced by a default on the way through the ConfigMap, the secrets and the
\* replicator's own defaults.  An absent source password arrives as "".
DeployedIsIntended ==
  \A d \in running : \A f \in DOMAIN d.config :
    d.config[f] = IF kind = "source" /\ f = "password" /\ d.meant[f] = None THEN Some("") ELSE d.meant[f]

\* A stored configuration means what its author submitted, over encryption, key
\* rotation and reads that are written back, and so does what is deployed from it
\* (configs/encryption.rs, Stored*Config, Full*Config).
ConfigsAreIntended == StoredIsIntended /\ DeployedIsIntended
============================================================================

---------------------------- MODULE ManagementApi ----------------------------
(***************************************************************************)
(* The management API (etl-api): tenants, sources, destinations, images    *)
(* and pipelines as rows of the API database; the Kubernetes objects of a  *)
(* pipeline's replicator; and the state the replicator keeps in the source *)
(* database.  A request is a handler that runs in a lane beside the        *)
(* others; it stops at every await that reads or writes another system, so *)
(* that two requests, the StatefulSet controller and a failure may come    *)
(* between any two of its steps.  A transaction's writes appear at commit, *)
(* and a row it has written is locked until then.                          *)
(* There is one tenant.  A row's configuration is the number of the edit   *)
(* that wrote it; a pipeline and its replicator share their id.            *)
(***************************************************************************)
EXTENDS Naturals, FiniteSets, Functions

CONSTANTS Sources,       \* ids of sources
          Kinds,         \* Kinds[d]: the destination type of destination d
          Images,        \* ids of replicator images
          Lanes,         \* Lanes[l]: the requests that lane l may serve
          MaxPipelines,  \* MAX_PIPELINES_PER_TENANT
          MaxIds, MaxEdits, MaxRequests, MaxFaults

VARIABLES tenant, sources, destinations, pipelines, replicators, images,
          next_id, edits,
          secrets, config, maintenance, sset, pod,     \* Kubernetes
          source_state, slots,                         \* source database
          req, requests, faults,
          seeded,    \* ids whose replicator has stored state in the source
          applied    \* what the last completed reconciliation of an id applied

rows == <<tenant, sources, destinations, pipelines, replicators, images,
          next_id, edits>>
kube == <<secrets, config, maintenance, sset, pod>>
source == <<source_state, slots>>
apiVars == <<rows, kube, source, req, requests, faults, seeded, applied>>

Ids == 1..MaxIds
None == {}
Some(x) == {x}
The(o) == CHOOSE x \in o : TRUE
Destinations == DOMAIN Kinds
Put(f, k, v) == [x \in DOMAIN f \cup {k} |-> IF x = k THEN v ELSE f[x]]
Drop(f, S) == [x \in DOMAIN f \ S |-> f[x]]

(* ------------------------------- the rows ------------------------------- *)

\* Components: pipeline, replicator, image, source and destination.
read_pipeline_components(id, row, image) ==
  [image |-> image, pipeline |-> row.config, source |-> sources[row.source],
   destination |-> row.destination, config |-> destinations[row.destination]]

count_pipelines_for_tenant == Cardinality(DOMAIN pipelines)
read_default_image == {i \in DOMAIN images : images[i]}
read_pipelines_for_source_for_deletion(s) ==
  {id \in DOMAIN pipelines : pipelines[id].source = s}
read_pipelines_for_destination_for_deletion(d) ==
  {id \in DOMAIN pipelines : pipelines[id].destination = d}

insert_source(s) == sources' = Put(sources, s, 0)
set_source_config(s) == sources' = [sources EXCEPT ![s] = edits']
delete_source_row(s) == sources' = Drop(sources, {s})
insert_destination(d) == destinations' = Put(destinations, d, 0)
set_destination_config(d) == destinations' = [destinations EXCEPT ![d] = edits']
delete_destination_row(d) == destinations' = Drop(destinations, {d})
create_replicator(image) == replicators' = Put(replicators, next_id, image)
update_replicator_image(id, image) == replicators' = [replicators EXCEPT ![id] = image]

\* create_pipeline inserts the replicator, then the pipeline.  The foreign
\* keys and the unique (source, destination) pair are checked by the insert.
InsertPipeline(s, d, image, dests) ==
  /\ next_id <= MaxIds
  /\ s \in DOMAIN sources /\ d \in DOMAIN dests /\ image \in DOMAIN images
  /\ ~ \E id \in DOMAIN pipelines :
          pipelines[id].source = s /\ pipelines[id].destination = d
  /\ create_replicator(image)
  /\ pipelines' = Put(pipelines, next_id,
                      [source |-> s, destination |-> d, config |-> 0])
  /\ next_id' = next_id + 1

delete_pipeline_api_state(id) ==
  /\ pipelines' = Drop(pipelines, {id})
  /\ replicators' = Drop(replicators, {id})

(* ------------------------ requests and their lanes ----------------------- *)

\* The row a request has written but not committed; None holds no lock.
Locked(id, l) == \E k \in DOMAIN req \ {l} : \E r \in req[k] :
                    r.id = id /\ r.row # None
PendingReference(x) == \E k \in DOMAIN req : \E r \in req[k] :
   r.op = "update_pipeline" /\ \E p \in r.row : x \in {p.source, p.destination}

Begin(l, op, id, pc, seen, row) ==
  /\ req[l] = None /\ op \in Lanes[l] /\ requests < MaxRequests
  /\ requests' = requests + 1
  /\ req' = [req EXCEPT ![l] =
               Some([op |-> op, id |-> id, pc |-> pc, seen |-> seen, row |-> row])]

At(l, pc) == \E r \in req[l] : r.pc = pc
R(l) == The(req[l])
Goto(l, pc) == req' = [req EXCEPT ![l] = Some([R(l) EXCEPT !.pc = pc])]
Finish(l) == req' = [req EXCEPT ![l] = None]

\* A request that is one statement or one transaction without awaits on
\* anything but the API database.
Immediate(l, op) ==
  /\ req[l] = None /\ op \in Lanes[l] /\ requests < MaxRequests
  /\ requests' = requests + 1
  /\ UNCHANGED <<req, kube, source, faults, seeded, applied>>

Edit == edits < MaxEdits /\ edits' = edits + 1

(* ------------------------------ Kubernetes ------------------------------ *)

\* DestinationType: what the StatefulSet's environment refers to.  The
\* DuckLake keys are optional references.
RequiredSecrets(kind) ==
  CASE kind = "bigquery" -> {"postgres", "bigquery"}
    [] kind \in {"iceberg_rest", "iceberg_supabase"} -> {"postgres", "iceberg"}
    [] kind = "clickhouse" -> {"postgres", "clickhouse"}
    [] OTHER -> {"postgres"}

\* The secret build_secrets_from_configs takes from the destination's config.
DestinationSecret(kind) ==
  CASE kind = "bigquery" -> {"bigquery"}
    [] kind = "iceberg_supabase" -> {"iceberg"}
    [] kind = "clickhouse" -> {"clickhouse"}
    [] kind = "ducklake_s3" -> {"ducklake"}
    [] OTHER -> {}

\* The secret deleted when the destination has no credentials.
StaleSecret(kind) ==
  CASE kind = "clickhouse_open" -> {"clickhouse"}
    [] kind = "ducklake" -> {"ducklake"}
    [] OTHER -> {}

PutSecrets(id, kinds, of) ==
  {x \in secrets[id] : x.kind \notin kinds}
    \cup {[kind |-> k, of |-> of] : k \in kinds}

get_replicator_pod_status(id) ==
  IF pod[id] = None THEN "Stopped" ELSE The(pod[id]).phase
is_replicator_active(id) == get_replicator_pod_status(id) # "Stopped"
should_reconcile_replicator_resources(id) ==
  get_replicator_pod_status(id) # "Stopped" \/ sset[id] # None

\* Mutant: the config map is written after the StatefulSet.
ConfigAfterStatefulSet(pc) ==
  CASE pc = "postgres_secret" -> "destination_secret"
    [] pc = "destination_secret" -> "maintenance"
    [] pc = "maintenance" -> "stateful_set"
    [] pc = "stateful_set" -> "config_map"
    [] pc = "config_map" -> "commit"

\* The order of create_or_update_pipeline_resources_in_k8s.
AfterResource(pc) ==
  CASE pc = "postgres_secret" -> "destination_secret"
    [] pc = "destination_secret" -> "config_map"
    [] pc = "config_map" -> "maintenance"
    [] pc = "maintenance" -> "stateful_set"
    [] pc = "stateful_set" -> "commit"

K8s(l) == UNCHANGED <<rows, source, requests, faults, seeded, pod>>

PutPostgresSecret(l) ==
  /\ At(l, "postgres_secret")
  /\ LET r == R(l)
         kind == Kinds[r.seen.destination]
     IN secrets' = [secrets EXCEPT ![r.id] =
          IF kind = "iceberg_rest" THEN @
          ELSE PutSecrets(r.id, {"postgres"}, r.seen.source)]
  /\ applied' = [applied EXCEPT ![R(l).id] = None]
  /\ Goto(l, AfterResource("postgres_secret"))
  /\ K8s(l) /\ UNCHANGED <<config, maintenance, sset>>

PutDestinationSecret(l) ==
  /\ At(l, "destination_secret")
  /\ LET r == R(l)
         kind == Kinds[r.seen.destination]
     IN secrets' = [secrets EXCEPT ![r.id] =
          {x \in PutSecrets(r.id, DestinationSecret(kind), r.seen.config) :
             x.kind \notin StaleSecret(kind)}]
  /\ Goto(l, AfterResource("destination_secret"))
  /\ K8s(l) /\ UNCHANGED <<config, maintenance, sset, applied>>

create_or_update_replicator_config(l) ==
  /\ At(l, "config_map")
  /\ config' = [config EXCEPT ![R(l).id] = Some(R(l).seen)]
  /\ Goto(l, AfterResource("config_map"))
  /\ K8s(l) /\ UNCHANGED <<secrets, maintenance, sset, applied>>

create_or_update_ducklake_maintenance(l) ==
  /\ At(l, "maintenance")
  /\ maintenance' = [maintenance EXCEPT ![R(l).id] =
       Kinds[R(l).seen.destination] \in {"ducklake", "ducklake_s3"}]
  /\ Goto(l, AfterResource("maintenance"))
  /\ K8s(l) /\ UNCHANGED <<secrets, config, sset, applied>>

\* Every patch carries a new restart annotation, so that the pod is replaced.
create_replicator_stateful_set_json(c) ==
  [image |-> c.image, kind |-> Kinds[c.destination], rev |-> requests]

create_or_update_replicator_stateful_set(l) ==
  /\ At(l, "stateful_set")
  /\ sset' = [sset EXCEPT ![R(l).id] = Some(create_replicator_stateful_set_json(R(l).seen))]
  /\ Goto(l, AfterResource("stateful_set"))
  /\ K8s(l) /\ UNCHANGED <<secrets, config, maintenance, applied>>

\* delete_pipeline_resources_in_k8s, once for every replicator still to stop.
DeleteMaintenance(l) ==
  /\ At(l, "delete_maintenance") /\ R(l).seen # {}
  /\ \E id \in R(l).seen :
       /\ maintenance' = [maintenance EXCEPT ![id] = FALSE]
       /\ applied' = [applied EXCEPT ![id] = None]
       /\ req' = [req EXCEPT ![l] =
                    Some([R(l) EXCEPT !.pc = "delete_secrets", !.id = id])]
  /\ K8s(l) /\ UNCHANGED <<secrets, config, sset>>

\* delete_postgres_secret and the four destination secrets, 404s ignored.
DeleteSecrets(id) == secrets' = [secrets EXCEPT ![id] = {}]

delete_dynamic_replicator_secrets(l) ==
  /\ At(l, "delete_secrets")
  /\ DeleteSecrets(R(l).id)
  /\ Goto(l, "delete_config")
  /\ K8s(l) /\ UNCHANGED <<config, maintenance, sset, applied>>

delete_replicator_config(l) ==
  /\ At(l, "delete_config")
  /\ config' = [config EXCEPT ![R(l).id] = None]
  /\ Goto(l, "delete_stateful_set")
  /\ K8s(l) /\ UNCHANGED <<secrets, maintenance, sset, applied>>

delete_replicator_stateful_set(l) ==
  /\ At(l, "delete_stateful_set")
  /\ sset' = [sset EXCEPT ![R(l).id] = None]
  /\ req' = [req EXCEPT ![l] =
       LET left == R(l).seen \ {R(l).id}
       IN IF left = {} THEN None
          ELSE Some([R(l) EXCEPT !.pc = "delete_maintenance", !.seen = left])]
  /\ K8s(l) /\ UNCHANGED <<secrets, config, maintenance, applied>>

\* The StatefulSet controller and the kubelet (external).
SchedulePod(id) ==
  /\ sset[id] # None /\ pod[id] = None
  /\ pod' = [pod EXCEPT ![id] =
       Some([rev |-> The(sset[id]).rev, phase |-> "Starting", runs |-> None])]
  /\ UNCHANGED <<secrets, config, maintenance, sset, source, seeded>>

\* The container starts once what its environment refers to exists; the
\* replicator then creates its slot and its state in the source database.
StartContainer(id) ==
  /\ \E p \in pod[id] : p.phase \in {"Starting", "Failed"}
  /\ sset[id] # None /\ The(sset[id]).rev = The(pod[id]).rev
  /\ config[id] # None
  /\ RequiredSecrets(The(sset[id]).kind) \subseteq {x.kind : x \in secrets[id]}
  /\ pod' = [pod EXCEPT ![id] =
       Some([The(@) EXCEPT !.phase = "Started", !.runs = config[id]])]
  /\ source_state' = source_state \cup {id}
  /\ slots' = slots \cup {id}
  /\ seeded' = seeded \cup {id}
  /\ UNCHANGED <<secrets, config, maintenance, sset>>

\* CreateContainerConfigError.
ContainerConfigError(id) ==
  /\ \E p \in pod[id] : p.phase = "Starting"
  /\ sset[id] # None
  /\ \/ config[id] = None
     \/ ~ (RequiredSecrets(The(sset[id]).kind)
             \subseteq {x.kind : x \in secrets[id]})
  /\ pod' = [pod EXCEPT ![id] = Some([The(@) EXCEPT !.phase = "Failed"])]
  /\ UNCHANGED <<secrets, config, maintenance, sset, source, seeded>>

TerminatePod(id) ==
  /\ \E p \in pod[id] : p.phase # "Stopping" /\
       \A s \in sset[id] : s.rev # p.rev
  /\ pod' = [pod EXCEPT ![id] = Some([The(@) EXCEPT !.phase = "Stopping"])]
  /\ UNCHANGED <<secrets, config, maintenance, sset, source, seeded>>

RemovePod(id) ==
  /\ \E p \in pod[id] : p.phase = "Stopping"
  /\ pod' = [pod EXCEPT ![id] = None]
  /\ UNCHANGED <<secrets, config, maintenance, sset, source, seeded>>

Cluster == \E id \in Ids :
  /\ \/ SchedulePod(id) \/ StartContainer(id) \/ ContainerConfigError(id)
     \/ TerminatePod(id) \/ RemovePod(id)
  /\ UNCHANGED <<rows, req, requests, faults, applied>>

(* ----------------- tenants, sources, destinations, images ---------------- *)

create_tenant(l) ==
  /\ Immediate(l, "create_tenant") /\ ~tenant
  /\ tenant' = TRUE
  /\ UNCHANGED <<sources, destinations, pipelines, replicators, images, next_id, edits>>

create_tenant_and_source(l, s) ==
  /\ Immediate(l, "create_tenant_and_source") /\ ~tenant
  /\ s \notin DOMAIN sources
  /\ tenant' = TRUE
  /\ insert_source(s)
  /\ UNCHANGED <<destinations, pipelines, replicators, images, next_id, edits>>

create_source(l, s) ==
  /\ Immediate(l, "create_source") /\ tenant /\ s \notin DOMAIN sources
  /\ insert_source(s)
  /\ UNCHANGED <<tenant, destinations, pipelines, replicators, images, next_id, edits>>

update_source(l, s) ==
  /\ Immediate(l, "update_source") /\ s \in DOMAIN sources
  /\ Edit /\ set_source_config(s)
  /\ UNCHANGED <<tenant, destinations, pipelines, replicators, images, next_id>>

create_destination(l, d) ==
  /\ Immediate(l, "create_destination") /\ tenant /\ d \notin DOMAIN destinations
  /\ insert_destination(d)
  /\ UNCHANGED <<tenant, sources, pipelines, replicators, images, next_id, edits>>

update_destination(l, d) ==
  /\ Immediate(l, "update_destination") /\ d \in DOMAIN destinations
  /\ Edit /\ set_destination_config(d)
  /\ UNCHANGED <<tenant, sources, pipelines, replicators, images, next_id>>

\* delete_source and delete_destination look for pipelines first and delete
\* in a statement of its own.
CheckSourceUnused(l, s) ==
  /\ s \in DOMAIN sources
  /\ read_pipelines_for_source_for_deletion(s) = {}
  /\ Begin(l, "delete_source", 0, "delete_source", s, None)
  /\ UNCHANGED <<rows, kube, source, faults, seeded, applied>>

CheckDestinationUnused(l, d) ==
  /\ d \in DOMAIN destinations
  /\ read_pipelines_for_destination_for_deletion(d) = {}
  /\ Begin(l, "delete_destination", 0, "delete_destination", d, None)
  /\ UNCHANGED <<rows, kube, source, faults, seeded, applied>>

\* Mutant: the foreign key does not restrict the delete.
DeleteSourceRowAnyway(l) ==
  /\ At(l, "delete_source") /\ ~PendingReference(R(l).seen)
  /\ delete_source_row(R(l).seen)
  /\ Finish(l)
  /\ UNCHANGED <<tenant, destinations, pipelines, replicators, images, next_id,
                 edits, kube, source, requests, faults, seeded, applied>>

\* The delete waits for a transaction that references the row, and fails
\* when a pipeline refers to it.
DeleteSourceRow(l) ==
  /\ At(l, "delete_source") /\ ~PendingReference(R(l).seen)
  /\ IF read_pipelines_for_source_for_deletion(R(l).seen) = {}
       THEN delete_source_row(R(l).seen) ELSE UNCHANGED sources
  /\ Finish(l)
  /\ UNCHANGED <<tenant, destinations, pipelines, replicators, images, next_id,
                 edits, kube, source, requests, faults, seeded, applied>>

DeleteDestinationRow(l) ==
  /\ At(l, "delete_destination") /\ ~PendingReference(R(l).seen)
  /\ IF read_pipelines_for_destination_for_deletion(R(l).seen) = {}
       THEN delete_destination_row(R(l).seen) ELSE UNCHANGED destinations
  /\ Finish(l)
  /\ UNCHANGED <<tenant, sources, pipelines, replicators, images, next_id,
                 edits, kube, source, requests, faults, seeded, applied>>

create_image(l, i, default) ==
  /\ Immediate(l, "create_image") /\ i \notin DOMAIN images
  /\ images' = Put([j \in DOMAIN images |-> images[j] /\ ~default], i, default)
  /\ UNCHANGED <<tenant, sources, destinations, pipelines, replicators, next_id, edits>>

\* The other defaults are unset before the image is looked for; the
\* transaction commits even when it does not exist.
update_image(l, i, default) ==
  /\ Immediate(l, "update_image")
  /\ images' = [j \in DOMAIN images |->
       IF j = i THEN default ELSE images[j] /\ ~default]
  /\ UNCHANGED <<tenant, sources, destinations, pipelines, replicators, next_id, edits>>

delete_image(l, i) ==
  /\ Immediate(l, "delete_image")
  /\ i \in DOMAIN images /\ ~images[i]
  /\ i \notin Range(replicators)
  /\ images' = Drop(images, {i})
  /\ UNCHANGED <<tenant, sources, destinations, pipelines, replicators, next_id, edits>>

(* ------------------------------- pipelines ------------------------------- *)

\* create_pipeline and create_destination_and_pipeline up to the insert.
CheckPipelineLimit(l, op, s, d) ==
  /\ s \in DOMAIN sources
  /\ IF op = "create_pipeline" THEN d \in DOMAIN destinations
                               ELSE tenant /\ d \notin DOMAIN destinations
  /\ count_pipelines_for_tenant < MaxPipelines
  /\ read_default_image # {}
  /\ Begin(l, op, 0, "insert",
           [source |-> s, destination |-> d, image |-> The(read_default_image)], None)
  /\ UNCHANGED <<rows, kube, source, faults, seeded, applied>>

create_pipeline(l) ==
  /\ At(l, "insert") /\ R(l).op = "create_pipeline"
  /\ InsertPipeline(R(l).seen.source, R(l).seen.destination, R(l).seen.image, destinations)
  /\ Finish(l)
  /\ UNCHANGED <<tenant, sources, destinations, images, edits, kube, source,
                 requests, faults, seeded, applied>>

create_destination_and_pipeline(l) ==
  /\ At(l, "insert") /\ R(l).op = "create_destination_and_pipeline"
  /\ tenant /\ R(l).seen.destination \notin DOMAIN destinations
  /\ insert_destination(R(l).seen.destination)
  /\ InsertPipeline(R(l).seen.source, R(l).seen.destination, R(l).seen.image, destinations')
  /\ Finish(l)
  /\ UNCHANGED <<tenant, sources, images, edits, kube, source, requests, faults,
                 seeded, applied>>

update_destination_and_pipeline(l, id) ==
  /\ Immediate(l, "update_destination_and_pipeline")
  /\ id \in DOMAIN pipelines /\ ~Locked(id, l)
  /\ \E s \in DOMAIN sources :
       /\ Edit
       /\ set_destination_config(pipelines[id].destination)
       /\ pipelines' = [pipelines EXCEPT ![id].config = edits', ![id].source = s]
  /\ UNCHANGED <<tenant, sources, replicators, images, next_id>>

\* update_pipeline writes its row, which stays locked, and reads the
\* components through its own transaction.
update_pipeline(l, id) ==
  /\ id \in DOMAIN pipelines /\ ~Locked(id, l) /\ Edit
  /\ \E s \in DOMAIN sources, d \in DOMAIN destinations :
       LET row == [source |-> s, destination |-> d, config |-> edits']
       IN /\ ~ \E k \in DOMAIN pipelines \ {id} :
                 pipelines[k].source = s /\ pipelines[k].destination = d
          /\ Begin(l, "update_pipeline", id, "reconcile",
                   read_pipeline_components(id, row, replicators[id]), Some(row))
  /\ UNCHANGED <<tenant, sources, destinations, pipelines, replicators, images,
                 next_id, kube, source, faults, seeded, applied>>

\* Only the default image can be chosen.
update_pipeline_version(l, id) ==
  /\ id \in DOMAIN pipelines /\ ~Locked(id, l)
  /\ \E i \in read_default_image :
       /\ i = replicators[id] =>
            Kinds[pipelines[id].destination] \in {"ducklake", "ducklake_s3"}
       /\ Begin(l, "update_pipeline_version", id, "reconcile",
                read_pipeline_components(id, pipelines[id], i),
                IF i = replicators[id] THEN None ELSE Some(i))
  /\ UNCHANGED <<rows, kube, source, faults, seeded, applied>>

start_pipeline(l, id) ==
  /\ id \in DOMAIN pipelines
  /\ Begin(l, "start_pipeline", id, "postgres_secret",
           read_pipeline_components(id, pipelines[id], replicators[id]), None)
  /\ UNCHANGED <<rows, kube, source, faults, seeded, applied>>

stop_pipeline(l, id) ==
  /\ id \in DOMAIN pipelines
  /\ Begin(l, "stop_pipeline", id, "delete_maintenance", {id}, None)
  /\ UNCHANGED <<rows, kube, source, faults, seeded, applied>>

stop_all_pipelines(l) ==
  /\ DOMAIN pipelines # {}
  /\ Begin(l, "stop_all_pipelines", 0, "delete_maintenance", DOMAIN pipelines, None)
  /\ UNCHANGED <<rows, kube, source, faults, seeded, applied>>

Reconcile(l) ==
  /\ At(l, "reconcile")
  /\ Goto(l, IF should_reconcile_replicator_resources(R(l).id)
             THEN "postgres_secret" ELSE "commit_rows")
  /\ UNCHANGED <<rows, kube, source, requests, faults, seeded, applied>>

Commit(l) ==
  /\ At(l, "commit") \/ At(l, "commit_rows")
  /\ LET r == R(l) IN
       /\ pipelines' = IF r.op = "update_pipeline" /\ r.id \in DOMAIN pipelines
                       THEN [pipelines EXCEPT ![r.id] = The(r.row)] ELSE pipelines
       /\ IF r.op = "update_pipeline_version" /\ r.row # None
            THEN update_replicator_image(r.id, The(r.row)) ELSE UNCHANGED replicators
       /\ applied' = IF r.pc = "commit"
                     THEN [applied EXCEPT ![r.id] = Some(r.seen)] ELSE applied
  /\ Finish(l)
  /\ UNCHANGED <<tenant, sources, destinations, images, next_id, edits, kube,
                 source, requests, faults, seeded>>

(* -------------------------------- deletion ------------------------------- *)

\* delete_pipeline and delete_destination_and_pipeline: read, check, connect.
CheckInactive(l, op, id) ==
  /\ id \in DOMAIN pipelines
  /\ ~is_replicator_active(id)
  /\ \E pc \in {"delete_rows", "delete_rows_only"} :   \* the source answers, or not
       Begin(l, op, id, pc, pipelines[id].destination, None)
  /\ UNCHANGED <<rows, kube, source, faults, seeded, applied>>

\* Mutant: the source transaction commits first.
CommitSourceFirst(l) ==
  \/ /\ At(l, "delete_rows")
     /\ source_state' = source_state \ {R(l).id}
     /\ Goto(l, "delete_rows_only")
     /\ UNCHANGED <<rows, kube, slots, requests, faults, seeded, applied>>
  \/ /\ At(l, "delete_rows_only")
     /\ delete_pipeline_api_state(R(l).id)
     /\ Finish(l)
     /\ UNCHANGED <<tenant, sources, destinations, images, next_id, edits, kube,
                    source, requests, faults, seeded, applied>>

\* The deletes of the API transaction and its commit.  A pipeline that is
\* gone by now is an error.
DeleteRows(l) ==
  /\ At(l, "delete_rows") \/ At(l, "delete_rows_only")
  /\ LET r == R(l) IN
     /\ ~Locked(r.id, l)
     /\ IF r.id \in DOMAIN pipelines
        THEN /\ delete_pipeline_api_state(r.id)
             /\ IF r.op = "delete_destination_and_pipeline"
                     /\ read_pipelines_for_destination_for_deletion(r.seen) = {r.id}
                  THEN delete_destination_row(r.seen) ELSE UNCHANGED destinations
             /\ IF r.pc = "delete_rows" THEN Goto(l, "commit_source") ELSE Finish(l)
        ELSE Finish(l) /\ UNCHANGED <<pipelines, replicators, destinations>>
  /\ UNCHANGED <<tenant, sources, images, next_id, edits, kube, source, requests,
                 faults, seeded, applied>>

CommitSource(l) ==
  /\ At(l, "commit_source")
  /\ source_state' = source_state \ {R(l).id}
  /\ Goto(l, "drop_slots")
  /\ UNCHANGED <<rows, kube, slots, requests, faults, seeded, applied>>

delete_pipeline_replication_slots(l) ==
  /\ At(l, "drop_slots")
  /\ slots' = slots \ {R(l).id}
  /\ Finish(l)
  /\ UNCHANGED <<rows, kube, source_state, requests, faults, seeded, applied>>

\* delete_tenant: no pipeline is active; every source that answers loses the
\* state of its pipelines and the installation; then the rows cascade.
CheckTenantInactive(l) ==
  /\ \A id \in DOMAIN pipelines : ~is_replicator_active(id)
  /\ Begin(l, "delete_tenant", 0, "clean_source", DOMAIN sources, None)
  /\ UNCHANGED <<rows, kube, source, faults, seeded, applied>>

CleanSource(l) ==
  /\ At(l, "clean_source") /\ R(l).seen # {}
  /\ \E s \in R(l).seen :
       LET gone == read_pipelines_for_source_for_deletion(s) IN
       /\ req' = [req EXCEPT ![l] = Some([R(l) EXCEPT !.seen = @ \ {s}])]
       /\ \/ /\ source_state' = source_state \ gone
             /\ slots' = slots \ gone
             /\ seeded' = seeded \ gone
          \/ UNCHANGED <<source_state, slots, seeded>>
  /\ UNCHANGED <<rows, kube, requests, faults, applied>>

DeleteTenantRow(l) ==
  /\ At(l, "clean_source") /\ R(l).seen = {}
  /\ \A id \in DOMAIN pipelines : ~Locked(id, l)
  /\ tenant' = FALSE
  /\ sources' = <<>> /\ destinations' = <<>>
  /\ pipelines' = <<>> /\ replicators' = <<>>
  /\ Finish(l)
  /\ UNCHANGED <<images, next_id, edits, kube, source, requests, faults, seeded, applied>>

\* A request ends with an error, or its process dies: what it has not
\* committed is rolled back, what it did elsewhere stays.
RequestFails(l) ==
  /\ req[l] # None /\ faults < MaxFaults
  /\ faults' = faults + 1
  /\ Finish(l)
  /\ UNCHANGED <<rows, kube, source, requests, seeded, applied>>

(* --------------------------- the specification --------------------------- *)

\* A tenant with its sources, its destinations and a default image.
Init ==
  /\ tenant = TRUE
  /\ sources = [s \in Sources |-> 0]
  /\ destinations = [d \in Destinations |-> 0]
  /\ pipelines = <<>> /\ replicators = <<>>
  /\ images = [i \in {CHOOSE i \in Images : TRUE} |-> TRUE]
  /\ next_id = 1 /\ edits = 0
  /\ secrets = [id \in Ids |-> {}] /\ config = [id \in Ids |-> None]
  /\ maintenance = [id \in Ids |-> FALSE]
  /\ sset = [id \in Ids |-> None] /\ pod = [id \in Ids |-> None]
  /\ source_state = {} /\ slots = {}
  /\ req = [l \in DOMAIN Lanes |-> None] /\ requests = 0 /\ faults = 0
  /\ seeded = {} /\ applied = [id \in Ids |-> None]

RowRequest(l) ==
  \/ create_tenant(l)
  \/ \E s \in Sources : \/ create_tenant_and_source(l, s) \/ create_source(l, s)
                        \/ update_source(l, s) \/ CheckSourceUnused(l, s)
  \/ \E d \in Destinations : \/ create_destination(l, d) \/ update_destination(l, d)
                             \/ CheckDestinationUnused(l, d)
  \/ \E i \in Images : \/ \E default \in BOOLEAN :
                            create_image(l, i, default) \/ update_image(l, i, default)
                       \/ delete_image(l, i)
  \/ DeleteSourceRow(l) \/ DeleteDestinationRow(l)

PipelineRequest(l) ==
  \/ \E op \in {"create_pipeline", "create_destination_and_pipeline"} :
       \E s \in Sources, d \in Destinations : CheckPipelineLimit(l, op, s, d)
  \/ create_pipeline(l) \/ create_destination_and_pipeline(l)
  \/ \E id \in Ids :
       \/ update_destination_and_pipeline(l, id) \/ update_pipeline(l, id)
       \/ update_pipeline_version(l, id)
       \/ start_pipeline(l, id) \/ stop_pipeline(l, id)
  \/ stop_all_pipelines(l) \/ Reconcile(l) \/ Commit(l)

ResourceStep(l) ==
  \/ PutPostgresSecret(l) \/ PutDestinationSecret(l)
  \/ create_or_update_replicator_config(l)
  \/ create_or_update_ducklake_maintenance(l)
  \/ create_or_update_replicator_stateful_set(l)
  \/ DeleteMaintenance(l) \/ delete_dynamic_replicator_secrets(l)
  \/ delete_replicator_config(l) \/ delete_replicator_stateful_set(l)

DeletionStep(l) ==
  \/ \E op \in {"delete_pipeline", "delete_destination_and_pipeline"}, id \in Ids :
       CheckInactive(l, op, id)
  \/ DeleteRows(l) \/ CommitSource(l) \/ delete_pipeline_replication_slots(l)
  \/ CheckTenantInactive(l) \/ CleanSource(l) \/ DeleteTenantRow(l)
  \/ RequestFails(l)

Next ==
  \/ \E l \in DOMAIN Lanes :
       RowRequest(l) \/ PipelineRequest(l) \/ ResourceStep(l) \/ DeletionStep(l)
  \/ Cluster

Spec == Init /\ [][Next]_apiVars

(* ------------------------------- properties ------------------------------ *)

\* Whatever checks were made before, and whatever was committed between them
\* and the write, a committed pipeline finds its source, its destination and
\* its replicator's image, and no replicator is left without its pipeline.
\* The handlers call the constraints "the last line of defense".
ReferencesResolve ==
  /\ \A id \in DOMAIN pipelines :
       /\ pipelines[id].source \in DOMAIN sources
       /\ pipelines[id].destination \in DOMAIN destinations
       /\ id \in DOMAIN replicators
  /\ \A id \in DOMAIN replicators :
       id \in DOMAIN pipelines /\ replicators[id] \in DOMAIN images

\* A pipeline that the API database still holds has not lost the state its
\* replicator keeps in the source, however a deletion of it failed: the API
\* transaction commits first.  (A tenant's deletion cleans the sources first
\* and is left out.)
PipelineKeepsSourceState ==
  \A id \in DOMAIN pipelines : id \in seeded => id \in source_state

\* Once a start or an update has reconciled a pipeline, and until the next
\* request touches its resources, the config map, the StatefulSet and every
\* secret its environment needs are those of the rows that were read, and
\* a pod of the current revision runs with that configuration.
ReconcileIsComplete ==
  \A id \in Ids : \A c \in applied[id] :
    /\ config[id] = {c}
    /\ \E s \in sset[id] :
         /\ s.image = c.image /\ s.kind = Kinds[c.destination]
         /\ RequiredSecrets(s.kind) \subseteq {x.kind : x \in secrets[id]}
         /\ \A p \in pod[id] : p.rev = s.rev => p.runs \subseteq {c}

=============================================================================

-------------------------- MODULE MCSchemaChanges --------------------------
(* SchemaChanges on the histories of SchemaWals.                            *)
EXTENDS SchemaChanges, SchemaWals
=============================================================================

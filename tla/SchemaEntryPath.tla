--------------------------- MODULE SchemaEntryPath ---------------------------
(***************************************************************************)
(* How several handles on Active Directory servers find the entry of the   *)
(* schema: schema_entry_path of ad_schema.c is one static for all of them, *)
(* allocated below the schema of the handle whose answer set it last, and  *)
(* never reset. A handle frees its schemas, old ones included, in ld_free. *)
(***************************************************************************)
EXTENDS Naturals

CONSTANTS
    Handles,
    MaxSame     \* bound: searches for the path that one handle has in flight

NoPath == [set |-> FALSE]

\* The path of the entry that the server of handle h named, in memory of h.
PathOf(h) == [set |-> TRUE, entry |-> h]

VARIABLES
    state,              \* "none", "REQUEST_SCHEMA", "CHECK_SCHEMA" or "freed"
    asked,              \* searches for subschemaSubentry in flight
    schema_entry_path,  \* the static
    base                \* the path the handle searched its schema at

vars == <<state, asked, schema_entry_path, base>>

Init ==
    /\ state = [h \in Handles |-> "none"]
    /\ asked = [h \in Handles |-> 0]
    /\ schema_entry_path = NoPath
    /\ base = [h \in Handles |-> NoPath]

\* A handle is made and its state machine gets to REQUEST_SCHEMA.
ld_init(h) ==
    /\ state[h] = "none"
    /\ state' = [state EXCEPT ![h] = "REQUEST_SCHEMA"]
    /\ UNCHANGED <<asked, schema_entry_path, base>>

\* One tick in REQUEST_SCHEMA.
schema_load_active_directory(h) ==
    /\ state[h] = "REQUEST_SCHEMA"
    /\ IF schema_entry_path = NoPath
       THEN /\ asked[h] < MaxSame
            /\ asked' = [asked EXCEPT ![h] = @ + 1]
            /\ UNCHANGED <<state, base>>
       ELSE /\ base' = [base EXCEPT ![h] = schema_entry_path]
            /\ state' = [state EXCEPT ![h] = "CHECK_SCHEMA"]
            /\ UNCHANGED asked
    /\ UNCHANGED schema_entry_path

\* The answer may arrive after the machine has moved on.
subschema_subentry_callback(h) ==
    /\ asked[h] > 0
    /\ asked' = [asked EXCEPT ![h] = @ - 1]
    /\ schema_entry_path' = PathOf(h)
    /\ UNCHANGED <<state, base>>

\* The connection is set up again; the schema before stays in memory.
Reconnect(h) ==
    /\ state[h] \in {"REQUEST_SCHEMA", "CHECK_SCHEMA"}
    /\ state' = [state EXCEPT ![h] = "REQUEST_SCHEMA"]
    /\ asked' = [asked EXCEPT ![h] = 0]
    /\ base' = [base EXCEPT ![h] = NoPath]
    /\ UNCHANGED schema_entry_path

\* talloc_free(handle->talloc_ctx): the static keeps its value.
ld_free(h) ==
    /\ state[h] \in {"REQUEST_SCHEMA", "CHECK_SCHEMA"}
    /\ state' = [state EXCEPT ![h] = "freed"]
    /\ asked' = [asked EXCEPT ![h] = 0]
    /\ base' = [base EXCEPT ![h] = NoPath]
    /\ UNCHANGED schema_entry_path

Next ==
    \E h \in Handles :
        \/ ld_init(h)
        \/ schema_load_active_directory(h)
        \/ subschema_subentry_callback(h)
        \/ Reconnect(h)
        \/ ld_free(h)

Spec == Init /\ [][Next]_vars
-----------------------------------------------------------------------------
\* A handle loads its schema from its own connection: it is searched at the
\* entry that the server of this connection named (ad_schema.c,
\* schema_load_active_directory).
OwnSchemaEntry ==
    \A h \in Handles : base[h] # NoPath => base[h].entry = h
=============================================================================

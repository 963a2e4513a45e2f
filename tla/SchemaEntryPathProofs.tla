------------------------ MODULE SchemaEntryPathProofs ------------------------
(***************************************************************************)
(* What SchemaPath.cfg refutes for two handles holds for a program with    *)
(* one: the static schema_entry_path then only ever holds a path of the    *)
(* handle that reads it.                                                   *)
(***************************************************************************)
EXTENDS SchemaEntryPath, TLAPS

\* The static, and what was read from it, is the path of the only handle.
OnePath(h) ==
    /\ schema_entry_path \in {NoPath, PathOf(h)}
    /\ base \in [Handles -> {NoPath, PathOf(h)}]

\* Every step of the only handle h keeps it so, reconnects and answers that
\* come late included.
LEMMA NextOnePath ==
  ASSUME NEW h, Handles = {h}
  PROVE  OnePath(h) /\ [Next]_vars => OnePath(h)'
<1> SUFFICES ASSUME OnePath(h), [Next]_vars PROVE OnePath(h)'
  OBVIOUS
<1>1. CASE ld_init(h)
  BY <1>1 DEF ld_init, OnePath
<1>2. CASE schema_load_active_directory(h)
  BY <1>2 DEF schema_load_active_directory, OnePath
<1>3. CASE subschema_subentry_callback(h)
  BY <1>3 DEF subschema_subentry_callback, OnePath
<1>4. CASE Reconnect(h)
  BY <1>4 DEF Reconnect, OnePath
<1>5. CASE ld_free(h)
  BY <1>5 DEF ld_free, OnePath
<1>6. CASE UNCHANGED vars
  BY <1>6 DEF vars, OnePath
<1>7. QED
  BY <1>1, <1>2, <1>3, <1>4, <1>5, <1>6 DEF Next

\* In a program with one handle a connection searches its schema where its own
\* server said it is, also after any number of reconnects.
THEOREM OneHandleOwnsItsPath ==
  ASSUME NEW h, Handles = {h}
  PROVE  Spec => []OwnSchemaEntry
<1>1. Init => OnePath(h)
  BY DEF Init, OnePath
<1>2. OnePath(h) => OwnSchemaEntry
  BY DEF OnePath, OwnSchemaEntry, PathOf
<1>3. QED
  BY <1>1, <1>2, NextOnePath, PTL DEF Spec
=============================================================================

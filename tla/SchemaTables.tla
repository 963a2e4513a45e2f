---------------------------- MODULE SchemaTables ----------------------------
(***************************************************************************)
(* connection->schema: the definitions of attribute types and of object    *)
(* classes, in hash tables by OID and by name (schema.c). The callback of  *)
(* the search for each kind walks over the values of the answer, parses    *)
(* each and appends it (openldap_schema.c, ad_schema.c), and gives up at   *)
(* the first that fails.                                                   *)
(*                                                                         *)
(* A definition is named by its position among those taken in, which stands*)
(* for its address. One step is one turn of the loop over the values; the  *)
(* loop of one answer ends before another callback runs.                   *)
(***************************************************************************)
EXTENDS Naturals, Sequences

CONSTANTS
    OIDs, Names,        \* what definitions are called
    NULL,
    NameLists,          \* at_names, oc_names: NULL or lists of names
    MaxDefinitions,     \* bound: definitions taken in of one kind
    MaxReconnects       \* bound: reconnects

ASSUME NullAssumption == NULL \notin OIDs /\ NULL \notin Seq(Names)
ASSUME NameListsAssumption == NameLists \subseteq Seq(Names) \cup {NULL}
ASSUME BoundsAssumption == MaxDefinitions \in Nat /\ MaxReconnects \in Nat

Kinds == {"attributes", "classes"}
Definitions == [oid : OIDs \cup {NULL}, names : NameLists]

\* The parsers return NULL for what they cannot read.
Parsed == Definitions \cup {NULL}

VARIABLES
    by_oid,     \* attribute_types_by_oid and object_classes_by_oid; 0: no entry
    by_name,    \* attribute_types_by_name and object_classes_by_name
    taken,      \* the definitions in memory, by address
    answer,     \* the answer of each kind: "waiting", "reading", "read" to its
                \* end, or "dropped" from the definition on that failed
    reconnects  \* number of reconnects

vars == <<by_oid, by_name, taken, answer, reconnects>>

\* Empty tables.
ldap_schema_new ==
    [by_oid  |-> [k \in Kinds |-> [o \in OIDs |-> 0]],
     by_name |-> [k \in Kinds |-> [n \in Names |-> 0]],
     taken   |-> [k \in Kinds |-> <<>>]]

Init ==
    /\ by_oid = ldap_schema_new.by_oid
    /\ by_name = ldap_schema_new.by_name
    /\ taken = ldap_schema_new.taken
    /\ answer = [k \in Kinds |-> "waiting"]
    /\ reconnects = 0

-----------------------------------------------------------------------------
(* schema.c: the getters, and appending a definition.                      *)

ldap_schema_get_by_oid(k, oid) == by_oid[k][oid]
ldap_schema_get_by_name(k, name) == by_name[k][name]

\* ldap_schema_attribute_types, ldap_schema_object_classes: a list of what the
\* table by OID holds.
ldap_schema_list(k) == {by_oid[k][o] : o \in OIDs} \ {0}

\* The names are looked at in their order, to the end of the list.
NameSet(names) == {names[i] : i \in 1..Len(names)}

\* g_hash_table_insert replaces what the key had. It tells whether the key is
\* new; of all the insertions only what the last one told is returned.
LastIsNew(k, d) ==
    IF d.names = <<>>
    THEN by_oid[k][d.oid] = 0
    ELSE LET last == d.names[Len(d.names)]
         IN  /\ by_name[k][last] = 0
             /\ \A i \in 1..(Len(d.names) - 1) : d.names[i] # last

\* Mutations: the loop over the names starts at the second one; a definition
\* that is refused is freed, although the tables point at it.
Insert_SkipsFirst(k, d) ==
    /\ taken' = [taken EXCEPT ![k] = Append(@, d)]
    /\ by_oid' = [by_oid EXCEPT ![k][d.oid] = Len(taken[k]) + 1]
    /\ by_name' = [by_name EXCEPT ![k] =
           [n \in Names |-> IF \E i \in 2..Len(d.names) : d.names[i] = n
                            THEN Len(taken[k]) + 1 ELSE @[n]]]

Insert_Frees(k, d) ==
    /\ taken' = IF LastIsNew(k, d) THEN [taken EXCEPT ![k] = Append(@, d)] ELSE taken
    /\ by_oid' = [by_oid EXCEPT ![k][d.oid] = Len(taken[k]) + 1]
    /\ by_name' = [by_name EXCEPT ![k] =
           [n \in Names |-> IF n \in NameSet(d.names) THEN Len(taken[k]) + 1 ELSE @[n]]]

Insert(k, d) ==
    /\ taken' = [taken EXCEPT ![k] = Append(@, d)]
    /\ by_oid' = [by_oid EXCEPT ![k][d.oid] = Len(taken[k]) + 1]
    /\ by_name' = [by_name EXCEPT ![k] =
           [n \in Names |-> IF n \in NameSet(d.names) THEN Len(taken[k]) + 1 ELSE @[n]]]

\* ldap_schema_append_attributetype, ldap_schema_append_objectclass: without
\* a list of names, or without OID, nothing is inserted.
Appendable(d) == d # NULL /\ d.names # NULL /\ d.oid # NULL

-----------------------------------------------------------------------------
(* ldap_schema_read_entry over attribute_type_callback or                  *)
(* object_class_callback.                                                  *)

\* Mutation: each callback starts from an empty schema.
ldap_schema_search_callback_Clears(k) ==
    /\ answer[k] = "waiting"
    /\ \A other \in Kinds : answer[other] # "reading"
    /\ answer' = [answer EXCEPT ![k] = "reading"]
    /\ by_oid' = ldap_schema_new.by_oid
    /\ by_name' = ldap_schema_new.by_name
    /\ taken' = ldap_schema_new.taken
    /\ UNCHANGED reconnects

ldap_schema_search_callback(k) ==
    /\ answer[k] = "waiting"
    /\ \A other \in Kinds : answer[other] # "reading"
    /\ answer' = [answer EXCEPT ![k] = "reading"]
    /\ UNCHANGED <<by_oid, by_name, taken, reconnects>>

\* The value cannot be parsed, or lacks names or OID.
ReadFails(k, d) ==
    /\ answer[k] = "reading"
    /\ ~Appendable(d)
    /\ answer' = [answer EXCEPT ![k] = "dropped"]
    /\ UNCHANGED <<by_oid, by_name, taken, reconnects>>

\* The value is a definition. It is in the tables even when appending it
\* counts as a failure because its last name was there before.
ReadValue(k, d) ==
    /\ answer[k] = "reading"
    /\ Len(taken[k]) < MaxDefinitions
    /\ Appendable(d)
    /\ Insert(k, d)
    /\ answer' = IF LastIsNew(k, d) THEN answer
                                    ELSE [answer EXCEPT ![k] = "dropped"]
    /\ UNCHANGED reconnects

ReadEnds(k) ==
    /\ answer[k] = "reading"
    /\ answer' = [answer EXCEPT ![k] = "read"]
    /\ UNCHANGED <<by_oid, by_name, taken, reconnects>>

\* connection_configure gives the connection an empty schema. The one before
\* is not looked at any more.
connection_configure ==
    /\ reconnects < MaxReconnects
    /\ \A k \in Kinds : answer[k] # "reading"
    /\ by_oid' = ldap_schema_new.by_oid
    /\ by_name' = ldap_schema_new.by_name
    /\ taken' = ldap_schema_new.taken
    /\ answer' = [k \in Kinds |-> "waiting"]
    /\ reconnects' = reconnects + 1

Next ==
    \/ \E k \in Kinds :
          \/ ldap_schema_search_callback(k)
          \/ \E d \in Parsed : ReadValue(k, d) \/ ReadFails(k, d)
          \/ ReadEnds(k)
    \/ connection_configure

Spec == Init /\ [][Next]_vars
-----------------------------------------------------------------------------
(* Properties.                                                             *)

\* Types: in particular the tables only point at definitions that are in
\* memory, also after one that was refused.
TypeOK ==
    /\ taken \in [Kinds -> Seq(Definitions)]
    /\ \A k \in Kinds :
          /\ by_oid[k] \in [OIDs -> 0..Len(taken[k])]
          /\ by_name[k] \in [Names -> 0..Len(taken[k])]
    /\ answer \in [Kinds -> {"waiting", "reading", "read", "dropped"}]
    /\ reconnects \in Nat

OidAt(k, i) == taken[k][i].oid
NamesAt(k, i) == NameSet(taken[k][i].names)

\* Each getter returns the latest definition with that OID or that name, and
\* NULL only when there was none, and what is listed is what is found by OID:
\* whatever was read before the definition that ended the loading is there
\* under its OID and under each of its names.
LatestIsFound ==
    \A k \in Kinds :
        /\ \A o \in OIDs :
              LET found == ldap_schema_get_by_oid(k, o)
              IN  /\ found # 0 => OidAt(k, found) = o
                  /\ \A i \in 1..Len(taken[k]) : OidAt(k, i) = o => i <= found
        /\ \A n \in Names :
              LET found == ldap_schema_get_by_name(k, n)
              IN  /\ found # 0 => n \in NamesAt(k, found)
                  /\ \A i \in 1..Len(taken[k]) : n \in NamesAt(k, i) => i <= found
        /\ \A i \in ldap_schema_list(k) : ldap_schema_get_by_oid(k, OidAt(k, i)) = i

\* What an application looked up in a schema stays there, while callbacks add
\* to it, until the connection is set up again: a lookup that found something
\* never finds nothing, or an older definition, and the list does not shrink.
NothingForgotten ==
    [][ reconnects' = reconnects =>
          \A k \in Kinds :
             /\ \A o \in OIDs : by_oid[k][o] <= by_oid'[k][o]
             /\ \A n \in Names : by_name[k][n] <= by_name'[k][n] ]_vars
=============================================================================

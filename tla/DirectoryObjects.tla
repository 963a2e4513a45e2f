-------------------------- MODULE DirectoryObjects --------------------------
(***************************************************************************)
(* The functions an application manages a directory with: ld_add_user,     *)
(* ld_del_group, ld_block_user and their like (user.c, group.c,            *)
(* computer.c, organizational_unit.c, attribute.c) over the ld_*_entry     *)
(* functions of domain.c. Each computes the name of an entry, partly from  *)
(* the type of the directory detected so far, and sends one request.       *)
(*                                                                         *)
(* The connection is ConnectionPhases. A call that fails its checks returns*)
(* RETURN_CODE_FAILURE and changes nothing: it is no step.                 *)
(***************************************************************************)
EXTENDS ConnectionPhases, Naturals

CONSTANTS
    Names,      \* names the application calls objects by
    NewNames,   \* names it gives them when it renames them
    MaxCalls    \* bound: calls of the application

ASSUME MaxCallsAssumption == MaxCalls \in Nat

VARIABLES
    calls,      \* number of requests sent; the next one's identity
    in_flight,  \* requests that are not answered
    undefined,  \* an array was read past its end
    \* history
    named       \* what calls made in RUN on a directory that was recognised
                \* named when they passed no parent: kind and entry

vars == <<phases, calls, in_flight, undefined, named>>

-----------------------------------------------------------------------------
(* Strings. Containers and attributes are named by what they stand for.    *)

NULL == "null"

check_string(string) == string \notin {NULL, ""}

base_dn == "base_dn"

\* What an application passes as the parent: nothing, "", or a container.
ParentArguments == {NULL, "", "other"}

AllNames == Names \cup NewNames
AllContainers == {base_dn, "other", "ou=equipment", "cn=users", "ou=users"}
Dns == [prefix : {"cn", "ou"}, name : AllNames, parent : AllContainers]

create_user_parent ==
    IF directory_type = "ACTIVE_DIRECTORY" THEN "cn=users" ELSE "ou=users"

create_computer_parent == "ou=equipment"

\* ld_add_*: an empty parent counts as none. All the others: only NULL does.
NonEmptyOr(parent, default) == IF check_string(parent) THEN parent ELSE default
GivenOr(parent, default) == IF parent # NULL THEN parent ELSE default

Kinds == {"user", "group", "computer", "ou", "entry"}

\* Modifications of an entry: which attribute, how, and to what.
Attributes == {"any", "pwdAccountLockedTime", "userAccountControl",
               "memberuid", "member"}
NoChange == [attr |-> "none", mod |-> "none", value |-> "none"]
Changes ==
    [attr : Attributes, mod : {"add", "replace", "delete"},
     value : {"any", "locked", "free"} \cup Names]

Requests ==
    [id : Nat, op : {"add", "delete", "modify", "rename"},
     dn : Dns, new : Dns, change : Changes \cup {NoChange}]

Init ==
    /\ PhaseInit
    /\ calls = 0
    /\ in_flight = {}
    /\ undefined = FALSE
    /\ named = {}

-----------------------------------------------------------------------------
(* domain.c: the ld_*_entry functions check their strings, put the name of *)
(* the entry together and send one request. kind and given, the parent the *)
(* application passed, only go to the history.                             *)

Dn(prefix, name, parent) == [prefix |-> prefix, name |-> name, parent |-> parent]

Send(kind, given, op, dn, new, change) ==
    /\ calls < MaxCalls
    /\ in_flight' = in_flight \cup
           {[id |-> calls, op |-> op, dn |-> dn, new |-> new, change |-> change]}
    /\ calls' = calls + 1
    /\ named' = IF running /\ directory_type = server /\ ~check_string(given)
                THEN named \cup {[kind |-> kind, dn |-> dn]} ELSE named
    /\ UNCHANGED <<phases, undefined>>

ld_add_entry(kind, given, name, parent, prefix) ==
    /\ check_string(name)
    /\ check_string(parent)
    /\ LET dn == Dn(prefix, name, parent)
       IN  Send(kind, given, "add", dn, dn, NoChange)

\* Mutation: the parent is not checked.
ld_del_entry_NoCheck(kind, given, name, parent, prefix) ==
    /\ check_string(name)
    /\ LET dn == Dn(prefix, name, parent)
       IN  Send(kind, given, "delete", dn, dn, NoChange)

ld_del_entry(kind, given, name, parent, prefix) ==
    /\ check_string(name)
    /\ check_string(parent)
    /\ LET dn == Dn(prefix, name, parent)
       IN  Send(kind, given, "delete", dn, dn, NoChange)

ld_mod_entry_attrs(kind, given, name, parent, prefix, change) ==
    /\ check_string(name)
    /\ check_string(parent)
    /\ LET dn == Dn(prefix, name, parent)
       IN  Send(kind, given, "modify", dn, dn, change)

ld_mod_entry(kind, given, name, parent, prefix) ==
    ld_mod_entry_attrs(kind, given, name, parent, prefix,
                       [attr |-> "any", mod |-> "replace", value |-> "any"])

\* The entry keeps its parent: it is passed as the new superior.
ld_rename_entry(kind, given, old_name, new_name, parent, prefix) ==
    /\ check_string(old_name)
    /\ check_string(new_name)
    /\ check_string(parent)
    /\ Send(kind, given, "rename", Dn(prefix, old_name, parent),
            Dn(prefix, new_name, parent), NoChange)

-----------------------------------------------------------------------------
(* user.c *)

ld_add_user(name, parent) ==
    ld_add_entry("user", parent, name, NonEmptyOr(parent, create_user_parent), "cn")

\* Mutation: like the other objects, a user is looked for below the base.
ld_del_user_Base(name, parent) ==
    ld_del_entry("user", parent, name, GivenOr(parent, base_dn), "cn")

ld_del_user(name, parent) ==
    ld_del_entry("user", parent, name, GivenOr(parent, create_user_parent), "cn")

ld_mod_user(name, parent) ==
    ld_mod_entry("user", parent, name, GivenOr(parent, create_user_parent), "cn")

ld_rename_user(old_name, new_name, parent) ==
    ld_rename_entry("user", parent, old_name, new_name,
                    GivenOr(parent, create_user_parent), "cn")

\* OpenLDAP's array of attributes ends in NULL. The one for Active Directory
\* is left without an end, so fill_attributes reads an element that was
\* never written: by chance it is NULL, or the behaviour is undefined.
create_lockout_time_attributes_openldap(value) ==
    [attr |-> "pwdAccountLockedTime", value |-> value]
create_lockout_time_attributes_ad(value) ==
    [attr |-> "userAccountControl", value |-> value]

ReadPastEnd(name, parent) ==
    /\ directory_type = "ACTIVE_DIRECTORY"
    /\ check_string(name)
    /\ check_string(GivenOr(parent, create_user_parent))
    /\ undefined' = TRUE
    /\ UNCHANGED <<phases, calls, in_flight, named>>

Lockout(name, parent, attribute, mod) ==
    ld_mod_entry_attrs("user", parent, name,
                       GivenOr(parent, create_user_parent), "cn",
                       [attr |-> attribute.attr, mod |-> mod,
                        value |-> attribute.value])

\* Mutation: a directory that is not known yet is taken for OpenLDAP.
ld_block_user_Default(name, parent) ==
    \/ /\ directory_type # "ACTIVE_DIRECTORY"
       /\ Lockout(name, parent,
                  create_lockout_time_attributes_openldap("locked"), "replace")
    \/ /\ directory_type = "ACTIVE_DIRECTORY"
       /\ Lockout(name, parent,
                  create_lockout_time_attributes_ad("locked"), "replace")
    \/ ReadPastEnd(name, parent)

ld_block_user(name, parent) ==
    \/ /\ directory_type = "OPENLDAP"
       /\ Lockout(name, parent,
                  create_lockout_time_attributes_openldap("locked"), "replace")
    \/ /\ directory_type = "ACTIVE_DIRECTORY"
       /\ Lockout(name, parent,
                  create_lockout_time_attributes_ad("locked"), "replace")
    \/ ReadPastEnd(name, parent)

ld_unblock_user(name, parent) ==
    \/ /\ directory_type = "OPENLDAP"
       /\ Lockout(name, parent,
                  create_lockout_time_attributes_openldap("free"), "delete")
    \/ /\ directory_type = "ACTIVE_DIRECTORY"
       /\ Lockout(name, parent,
                  create_lockout_time_attributes_ad("free"), "replace")
    \/ ReadPastEnd(name, parent)

-----------------------------------------------------------------------------
(* group.c *)

ld_add_group(name, parent) ==
    ld_add_entry("group", parent, name, NonEmptyOr(parent, base_dn), "cn")

ld_del_group(name, parent) ==
    ld_del_entry("group", parent, name, GivenOr(parent, base_dn), "cn")

ld_mod_group(name, parent) ==
    ld_mod_entry("group", parent, name, GivenOr(parent, base_dn), "cn")

ld_rename_group(old_name, new_name, parent) ==
    ld_rename_entry("group", parent, old_name, new_name,
                    GivenOr(parent, base_dn), "cn")

\* The application passes the whole name of the group.
group_member_modify(group_dn, user_dn, mod_operation) ==
    /\ check_string(user_dn)
    /\ \E member \in {"memberuid", "member"} :
          /\ \/ member = "memberuid" /\ directory_type = "OPENLDAP"
             \/ member = "member" /\ directory_type = "ACTIVE_DIRECTORY"
          /\ Send("group", group_dn.parent, "modify", group_dn, group_dn,
                  [attr |-> member, mod |-> mod_operation, value |-> user_dn])

ld_group_add_user(group_dn, user_dn) ==
    group_member_modify(group_dn, user_dn, "add")

ld_group_remove_user(group_dn, user_dn) ==
    group_member_modify(group_dn, user_dn, "delete")

-----------------------------------------------------------------------------
(* computer.c: an added computer goes below the base, all other functions  *)
(* look for it below ou=equipment.                                         *)

ld_add_computer(name, parent) ==
    ld_add_entry("computer", parent, name, NonEmptyOr(parent, base_dn), "cn")

ld_del_computer(name, parent) ==
    ld_del_entry("computer", parent, name,
                 GivenOr(parent, create_computer_parent), "cn")

ld_mod_computer(name, parent) ==
    ld_mod_entry("computer", parent, name,
                 GivenOr(parent, create_computer_parent), "cn")

ld_rename_computer(old_name, new_name, parent) ==
    ld_rename_entry("computer", parent, old_name, new_name,
                    GivenOr(parent, create_computer_parent), "cn")

-----------------------------------------------------------------------------
(* organizational_unit.c *)

ld_add_ou(name, parent) ==
    ld_add_entry("ou", parent, name, NonEmptyOr(parent, base_dn), "ou")

ld_del_ou(name, parent) ==
    ld_del_entry("ou", parent, name, GivenOr(parent, base_dn), "ou")

ld_mod_ou(name, parent) ==
    ld_mod_entry("ou", parent, name, GivenOr(parent, base_dn), "ou")

ld_rename_ou(old_name, new_name, parent) ==
    ld_rename_entry("ou", parent, old_name, new_name,
                    GivenOr(parent, base_dn), "ou")

-----------------------------------------------------------------------------
(* attribute.c: the application passes the name below the base, prefix and *)
(* all.                                                                    *)

ld_add_attributes(prefix, name) ==
    ld_mod_entry_attrs("entry", base_dn, name, base_dn, prefix,
                       [attr |-> "any", mod |-> "add", value |-> "any"])

ld_del_attributes(prefix, name) ==
    ld_mod_entry_attrs("entry", base_dn, name, base_dn, prefix,
                       [attr |-> "any", mod |-> "delete", value |-> "any"])

-----------------------------------------------------------------------------
(* The server, and the life of the connection.                             *)

\* Attributes the schema of the server knows.
Known(attr) ==
    CASE attr \in {"pwdAccountLockedTime", "memberuid"} -> server # "ACTIVE_DIRECTORY"
      [] attr \in {"userAccountControl", "member"} -> server = "ACTIVE_DIRECTORY"
      [] OTHER -> TRUE

\* A request is answered, in any order, or its answer is lost.
Answered ==
    /\ \E r \in in_flight : in_flight' = in_flight \ {r}
    /\ UNCHANGED <<phases, calls, undefined, named>>

\* A reconnect drops what was not answered.
Connection ==
    /\ \/ (Detect \/ EnterRun \/ LeaveRun) /\ UNCHANGED in_flight
       \/ Reconnect /\ in_flight' = {}
    /\ UNCHANGED <<calls, undefined, named>>

-----------------------------------------------------------------------------
Users ==
    \E name \in Names, parent \in ParentArguments :
        \/ ld_add_user(name, parent)
        \/ ld_del_user(name, parent)
        \/ ld_mod_user(name, parent)
        \/ \E new_name \in NewNames : ld_rename_user(name, new_name, parent)
        \/ ld_block_user(name, parent)
        \/ ld_unblock_user(name, parent)

Groups ==
    \E name \in Names, parent \in ParentArguments :
        \/ ld_add_group(name, parent)
        \/ ld_del_group(name, parent)
        \/ ld_mod_group(name, parent)
        \/ \E new_name \in NewNames : ld_rename_group(name, new_name, parent)

Members ==
    \E name, user \in Names, parent \in {base_dn, "other"} :
        \/ ld_group_add_user(Dn("cn", name, parent), user)
        \/ ld_group_remove_user(Dn("cn", name, parent), user)

Computers ==
    \E name \in Names, parent \in ParentArguments :
        \/ ld_add_computer(name, parent)
        \/ ld_del_computer(name, parent)
        \/ ld_mod_computer(name, parent)
        \/ \E new_name \in NewNames : ld_rename_computer(name, new_name, parent)

Units ==
    \E name \in Names, parent \in ParentArguments :
        \/ ld_add_ou(name, parent)
        \/ ld_del_ou(name, parent)
        \/ ld_mod_ou(name, parent)
        \/ \E new_name \in NewNames : ld_rename_ou(name, new_name, parent)

AttributeCalls ==
    \E name \in Names, prefix \in {"cn", "ou"} :
        ld_add_attributes(prefix, name) \/ ld_del_attributes(prefix, name)

Application ==
    Users \/ Groups \/ Members \/ Computers \/ Units \/ AttributeCalls

Next == ~undefined /\ (Connection \/ Application \/ Answered)

Spec == Init /\ [][Next]_vars
-----------------------------------------------------------------------------
(* Properties.                                                             *)

\* Types: in particular every name sent is made of a prefix, a name and a
\* container, whatever combination of NULL, "" and given parents the
\* application passes.
TypeOK ==
    /\ TypePhases
    /\ calls \in Nat
    /\ in_flight \in SUBSET Requests
    /\ undefined \in BOOLEAN
    /\ named \in SUBSET [kind : Kinds, dn : Dns]

\* In RUN, what one function put below the default parent, every other
\* function of that kind finds there, and so does the same call repeated after
\* its answer was lost and the connection set up again: two calls about one
\* user, group or unit, both made in RUN and without a parent, name the same
\* entry. (Not so a call made before the root entry of the directory was read,
\* or when the search for it returned no entry; and computers have two default
\* parents.)
FoundAgain ==
    \A q, r \in named :
        (q.kind = r.kind /\ q.kind # "computer" /\ q.dn.name = r.dn.name)
            => q.dn = r.dn

\* Users are locked, and members added, by an attribute the server knows,
\* in whatever state of the connection the call is made: before the
\* directory is detected nothing is sent.
KnownAttributes ==
    \A r \in in_flight : r.op = "modify" => Known(r.change.attr)

=============================================================================

----------------------- MODULE DirectoryObjectsProofs -----------------------
(***************************************************************************)
(* Proofs about DirectoryObjects, for any names and any number of calls.   *)
(***************************************************************************)
EXTENDS DirectoryObjects, TLAPS

\* Where a call without a parent looks for an object, once the type of the
\* directory is known, and how it names it.
Home(kind) ==
    IF kind # "user" THEN base_dn
    ELSE IF server = "ACTIVE_DIRECTORY" THEN "cn=users" ELSE "ou=users"

PrefixOf(kind) == IF kind = "ou" THEN "ou" ELSE "cn"

ObjectKinds == {"user", "group", "computer", "ou"}

NamedAtHome ==
    \A m \in named :
        /\ m.kind \in ObjectKinds
        /\ m.dn.prefix = PrefixOf(m.kind)
        /\ m.kind # "computer" => m.dn.parent = Home(m.kind)

IInv ==
    /\ TypeOK
    /\ NamedAtHome
    /\ KnownAttributes
-----------------------------------------------------------------------------
\* Before the first call nothing is in flight or named.
LEMMA InitInv == Init => IInv
<1> SUFFICES ASSUME Init PROVE IInv
  OBVIOUS
<1> USE DEF Init, PhaseInit
<1>1. TypeOK
  BY DEF TypeOK, TypePhases
<1>2. NamedAtHome /\ KnownAttributes
  BY DEF NamedAtHome, KnownAttributes
<1>3. QED
  BY <1>1, <1>2 DEF IInv

\* Sending a request preserves the invariant when its name is well formed,
\* is at home if the application gave no parent, and changes only what the
\* server knows.
LEMMA SendInv ==
  ASSUME IInv,
         NEW kind \in Kinds, NEW given,
         NEW op \in {"add", "delete", "modify", "rename"},
         NEW dn \in Dns, NEW new \in Dns,
         NEW change \in Changes \cup {NoChange},
         (directory_type = server /\ ~check_string(given)) =>
             /\ kind \in ObjectKinds
             /\ dn.prefix = PrefixOf(kind)
             /\ kind # "computer" => dn.parent = Home(kind),
         op = "modify" => Known(change.attr),
         Send(kind, given, op, dn, new, change)
  PROVE  IInv'
<1> DEFINE request == [id |-> calls, op |-> op, dn |-> dn, new |-> new,
                       change |-> change]
<1>1. /\ in_flight' = in_flight \cup {request}
      /\ calls' = calls + 1
      /\ UNCHANGED <<server, running, directory_type, undefined>>
  BY DEF Send, phases
<1>2. request \in Requests
  BY DEF IInv, TypeOK, Requests
<1>3. request.op = op /\ request.change = change
  OBVIOUS
<1> HIDE DEF request
<1>4. \/ named' = named
      \/ /\ directory_type = server /\ ~check_string(given)
         /\ named' = named \cup {[kind |-> kind, dn |-> dn]}
  BY DEF Send
<1>5. TypeOK'
  <2>1. named' \in SUBSET [kind : Kinds, dn : Dns]
    BY <1>4 DEF IInv, TypeOK
  <2>2. in_flight' \in SUBSET Requests /\ calls' \in Nat
    BY <1>1, <1>2 DEF IInv, TypeOK
  <2>3. TypePhases' /\ undefined' \in BOOLEAN
    BY <1>1 DEF IInv, TypeOK, TypePhases
  <2>4. QED
    BY <2>1, <2>2, <2>3 DEF TypeOK
<1>6. NamedAtHome'
  <2>1. Home(kind)' = Home(kind) /\ \A m \in named : Home(m.kind)' = Home(m.kind)
    BY <1>1 DEF Home
  <2>2. QED
    BY <1>1, <1>4, <2>1 DEF IInv, NamedAtHome, Home
<1>7. KnownAttributes'
  BY <1>1, <1>3 DEF IInv, KnownAttributes, Known
<1>8. QED
  BY <1>5, <1>6, <1>7 DEF IInv

\* A call about an object: the parent is the one given or the default, and on
\* a directory that was recognised the default is the home of its kind.
LEMMA ObjectCall ==
  ASSUME IInv,
         NEW kind \in ObjectKinds,
         NEW name \in AllNames, NEW new_name \in AllNames,
         NEW given \in ParentArguments, NEW default \in AllContainers,
         NEW parent \in {NonEmptyOr(given, default), GivenOr(given, default)},
         directory_type = server /\ kind # "computer" => default = Home(kind),
         check_string(parent),
         NEW op \in {"add", "delete", "modify", "rename"},
         NEW change \in Changes \cup {NoChange},
         op = "modify" => Known(change.attr),
         Send(kind, given, op, Dn(PrefixOf(kind), name, parent),
              Dn(PrefixOf(kind), new_name, parent), change)
  PROVE  IInv'
<1>1. parent \in AllContainers
  BY DEF NonEmptyOr, GivenOr, check_string, ParentArguments, AllContainers, NULL
<1>2. ~check_string(given) => parent = default
  BY DEF NonEmptyOr, GivenOr, check_string, NULL
<1>3. /\ Dn(PrefixOf(kind), name, parent) \in Dns
      /\ Dn(PrefixOf(kind), new_name, parent) \in Dns
  BY <1>1 DEF Dn, Dns, PrefixOf
<1>4. /\ Dn(PrefixOf(kind), name, parent).prefix = PrefixOf(kind)
      /\ Dn(PrefixOf(kind), name, parent).parent = parent
  BY DEF Dn
<1>5. kind \in Kinds
  BY DEF ObjectKinds, Kinds
<1>6. QED
  BY <1>2, <1>3, <1>4, <1>5, SendInv

\* Once the directory is recognised the default parent of users is their home.
LEMMA UserParent ==
  /\ create_user_parent \in AllContainers
  /\ directory_type = server => create_user_parent = Home("user")
  BY DEF create_user_parent, AllContainers, Home

\* The changes the functions make are well formed.
LEMMA ChangesOK ==
  /\ NoChange \in Changes \cup {NoChange}
  /\ \A mod \in {"add", "replace", "delete"} :
        /\ [attr |-> "any", mod |-> mod, value |-> "any"] \in Changes
        /\ Known("any")
        /\ \A attr \in {"pwdAccountLockedTime", "userAccountControl"},
              value \in {"locked", "free"} :
              [attr |-> attr, mod |-> mod, value |-> value] \in Changes
  BY DEF NoChange, Changes, Attributes, Known

\* user.c preserves the invariant.
LEMMA UsersInv ==
  ASSUME IInv, Users
  PROVE  IInv'
<1>1. PICK name \in Names, parent \in ParentArguments :
        \/ ld_add_user(name, parent)
        \/ ld_del_user(name, parent)
        \/ ld_mod_user(name, parent)
        \/ \E new_name \in NewNames : ld_rename_user(name, new_name, parent)
        \/ ld_block_user(name, parent)
        \/ ld_unblock_user(name, parent)
  BY DEF Users
<1>2. /\ create_user_parent \in AllContainers
      /\ directory_type = server => create_user_parent = Home("user")
  BY UserParent
<1>3. /\ "user" \in ObjectKinds /\ PrefixOf("user") = "cn"
      /\ name \in AllNames /\ NewNames \subseteq AllNames
  BY DEF ObjectKinds, PrefixOf, AllNames
<1>4. CASE ld_add_user(name, parent)
  BY <1>2, <1>3, <1>4, ObjectCall, ChangesOK DEF ld_add_user, ld_add_entry
<1>5. CASE ld_del_user(name, parent)
  BY <1>2, <1>3, <1>5, ObjectCall, ChangesOK DEF ld_del_user, ld_del_entry
<1>6. CASE ld_mod_user(name, parent)
  BY <1>2, <1>3, <1>6, ObjectCall, ChangesOK
  DEF ld_mod_user, ld_mod_entry, ld_mod_entry_attrs
<1>7. ASSUME NEW new_name \in NewNames, ld_rename_user(name, new_name, parent)
      PROVE  IInv'
  BY <1>2, <1>3, <1>7, ObjectCall, ChangesOK DEF ld_rename_user, ld_rename_entry
<1>8. ASSUME NEW attribute, NEW mod \in {"add", "replace", "delete"},
             attribute.attr \in {"pwdAccountLockedTime", "userAccountControl"},
             attribute.value \in {"locked", "free"},
             Known(attribute.attr),
             Lockout(name, parent, attribute, mod)
      PROVE  IInv'
  <2> DEFINE change == [attr |-> attribute.attr, mod |-> mod,
                        value |-> attribute.value]
  <2>1. change \in Changes
    BY <1>8, ChangesOK
  <2>2. change.attr = attribute.attr
    OBVIOUS
  <2>3. /\ check_string(GivenOr(parent, create_user_parent))
        /\ Send("user", parent, "modify",
                Dn("cn", name, GivenOr(parent, create_user_parent)),
                Dn("cn", name, GivenOr(parent, create_user_parent)), change)
    BY <1>8 DEF Lockout, ld_mod_entry_attrs
  <2> HIDE DEF change
  <2>4. QED
    BY <1>2, <1>3, <1>8, <2>1, <2>2, <2>3, ObjectCall
<1>9. /\ directory_type = "OPENLDAP" => Known("pwdAccountLockedTime")
      /\ directory_type = "ACTIVE_DIRECTORY" => Known("userAccountControl")
  BY DEF IInv, TypeOK, TypePhases, Known
<1>10. CASE ReadPastEnd(name, parent)
  <2>1. /\ undefined' = TRUE
        /\ UNCHANGED <<server, running, directory_type, calls, in_flight, named>>
    BY <1>10 DEF ReadPastEnd, phases
  <2>2. TypeOK'
    BY <2>1 DEF IInv, TypeOK, TypePhases
  <2>3. KnownAttributes'
    BY <2>1 DEF IInv, KnownAttributes, Known
  <2>4. NamedAtHome'
    BY <2>1 DEF IInv, NamedAtHome, Home
  <2>5. QED
    BY <2>2, <2>3, <2>4 DEF IInv
<1>11. CASE ld_block_user(name, parent)
  BY <1>8, <1>9, <1>10, <1>11
  DEF ld_block_user, create_lockout_time_attributes_openldap,
      create_lockout_time_attributes_ad
<1>12. CASE ld_unblock_user(name, parent)
  BY <1>8, <1>9, <1>10, <1>12
  DEF ld_unblock_user, create_lockout_time_attributes_openldap,
      create_lockout_time_attributes_ad
<1>13. QED
  BY <1>1, <1>4, <1>5, <1>6, <1>7, <1>11, <1>12

\* group.c, without the members.
LEMMA GroupsInv ==
  ASSUME IInv, Groups
  PROVE  IInv'
<1>1. PICK name \in Names, parent \in ParentArguments :
        \/ ld_add_group(name, parent)
        \/ ld_del_group(name, parent)
        \/ ld_mod_group(name, parent)
        \/ \E new_name \in NewNames : ld_rename_group(name, new_name, parent)
  BY DEF Groups
<1>2. base_dn \in AllContainers /\ base_dn = Home("group")
  BY DEF AllContainers, Home
<1>3. /\ "group" \in ObjectKinds /\ PrefixOf("group") = "cn"
      /\ name \in AllNames /\ NewNames \subseteq AllNames
  BY DEF ObjectKinds, PrefixOf, AllNames
<1>4. CASE ld_add_group(name, parent)
  BY <1>2, <1>3, <1>4, ObjectCall, ChangesOK DEF ld_add_group, ld_add_entry
<1>5. CASE ld_del_group(name, parent)
  BY <1>2, <1>3, <1>5, ObjectCall, ChangesOK DEF ld_del_group, ld_del_entry
<1>6. CASE ld_mod_group(name, parent)
  BY <1>2, <1>3, <1>6, ObjectCall, ChangesOK
  DEF ld_mod_group, ld_mod_entry, ld_mod_entry_attrs
<1>7. ASSUME NEW new_name \in NewNames, ld_rename_group(name, new_name, parent)
      PROVE  IInv'
  BY <1>2, <1>3, <1>7, ObjectCall, ChangesOK DEF ld_rename_group, ld_rename_entry
<1>8. QED
  BY <1>1, <1>4, <1>5, <1>6, <1>7

\* computer.c: its default parents differ, and the invariant does not ask them
\* to be one.
LEMMA ComputersInv ==
  ASSUME IInv, Computers
  PROVE  IInv'
<1>1. PICK name \in Names, parent \in ParentArguments :
        \/ ld_add_computer(name, parent)
        \/ ld_del_computer(name, parent)
        \/ ld_mod_computer(name, parent)
        \/ \E new_name \in NewNames : ld_rename_computer(name, new_name, parent)
  BY DEF Computers
<1>2. base_dn \in AllContainers /\ create_computer_parent \in AllContainers
  BY DEF AllContainers, create_computer_parent
<1>3. /\ "computer" \in ObjectKinds /\ PrefixOf("computer") = "cn"
      /\ name \in AllNames /\ NewNames \subseteq AllNames
  BY DEF ObjectKinds, PrefixOf, AllNames
<1>4. CASE ld_add_computer(name, parent)
  BY <1>2, <1>3, <1>4, ObjectCall, ChangesOK DEF ld_add_computer, ld_add_entry
<1>5. CASE ld_del_computer(name, parent)
  BY <1>2, <1>3, <1>5, ObjectCall, ChangesOK DEF ld_del_computer, ld_del_entry
<1>6. CASE ld_mod_computer(name, parent)
  BY <1>2, <1>3, <1>6, ObjectCall, ChangesOK
  DEF ld_mod_computer, ld_mod_entry, ld_mod_entry_attrs
<1>7. ASSUME NEW new_name \in NewNames, ld_rename_computer(name, new_name, parent)
      PROVE  IInv'
  BY <1>2, <1>3, <1>7, ObjectCall, ChangesOK DEF ld_rename_computer, ld_rename_entry
<1>8. QED
  BY <1>1, <1>4, <1>5, <1>6, <1>7

\* organizational_unit.c.
LEMMA UnitsInv ==
  ASSUME IInv, Units
  PROVE  IInv'
<1>1. PICK name \in Names, parent \in ParentArguments :
        \/ ld_add_ou(name, parent)
        \/ ld_del_ou(name, parent)
        \/ ld_mod_ou(name, parent)
        \/ \E new_name \in NewNames : ld_rename_ou(name, new_name, parent)
  BY DEF Units
<1>2. base_dn \in AllContainers /\ base_dn = Home("ou")
  BY DEF AllContainers, Home
<1>3. /\ "ou" \in ObjectKinds /\ PrefixOf("ou") = "ou"
      /\ name \in AllNames /\ NewNames \subseteq AllNames
  BY DEF ObjectKinds, PrefixOf, AllNames
<1>4. CASE ld_add_ou(name, parent)
  BY <1>2, <1>3, <1>4, ObjectCall, ChangesOK DEF ld_add_ou, ld_add_entry
<1>5. CASE ld_del_ou(name, parent)
  BY <1>2, <1>3, <1>5, ObjectCall, ChangesOK DEF ld_del_ou, ld_del_entry
<1>6. CASE ld_mod_ou(name, parent)
  BY <1>2, <1>3, <1>6, ObjectCall, ChangesOK
  DEF ld_mod_ou, ld_mod_entry, ld_mod_entry_attrs
<1>7. ASSUME NEW new_name \in NewNames, ld_rename_ou(name, new_name, parent)
      PROVE  IInv'
  BY <1>2, <1>3, <1>7, ObjectCall, ChangesOK DEF ld_rename_ou, ld_rename_entry
<1>8. QED
  BY <1>1, <1>4, <1>5, <1>6, <1>7

\* The members of groups: the attribute goes with the directory.
LEMMA MembersInv ==
  ASSUME IInv, Members
  PROVE  IInv'
<1>1. PICK name \in Names, user \in Names, parent \in {base_dn, "other"},
           mod \in {"add", "delete"} :
        group_member_modify(Dn("cn", name, parent), user, mod)
  BY DEF Members, ld_group_add_user, ld_group_remove_user
<1>2. PICK member \in {"memberuid", "member"} :
        /\ \/ member = "memberuid" /\ directory_type = "OPENLDAP"
           \/ member = "member" /\ directory_type = "ACTIVE_DIRECTORY"
        /\ Send("group", Dn("cn", name, parent).parent, "modify",
                Dn("cn", name, parent), Dn("cn", name, parent),
                [attr |-> member, mod |-> mod, value |-> user])
  BY <1>1 DEF group_member_modify
<1> DEFINE change == [attr |-> member, mod |-> mod, value |-> user]
<1>3. change \in Changes /\ change.attr = member
  BY DEF Changes, Attributes
<1>4. Known(member)
  BY <1>2 DEF IInv, TypeOK, TypePhases, Known
<1>5. /\ Dn("cn", name, parent) \in Dns
      /\ check_string(Dn("cn", name, parent).parent)
  BY DEF Dn, Dns, AllNames, AllContainers, base_dn, check_string, NULL
<1>6. "group" \in Kinds
  BY DEF Kinds
<1> HIDE DEF change
<1>7. Send("group", Dn("cn", name, parent).parent, "modify",
           Dn("cn", name, parent), Dn("cn", name, parent), change)
  BY <1>2 DEF change
<1>8. QED
  BY <1>3, <1>4, <1>5, <1>6, <1>7, SendInv

\* attribute.c: the parent is the base, and counts as given.
LEMMA AttributesInv ==
  ASSUME IInv, AttributeCalls
  PROVE  IInv'
<1>1. PICK name \in Names, prefix \in {"cn", "ou"}, mod \in {"add", "delete"} :
        Send("entry", base_dn, "modify", Dn(prefix, name, base_dn),
             Dn(prefix, name, base_dn),
             [attr |-> "any", mod |-> mod, value |-> "any"])
  BY DEF AttributeCalls, ld_add_attributes, ld_del_attributes, ld_mod_entry_attrs
<1> DEFINE change == [attr |-> "any", mod |-> mod, value |-> "any"]
<1>2. change \in Changes /\ change.attr = "any" /\ Known("any")
  BY ChangesOK
<1>3. Dn(prefix, name, base_dn) \in Dns
  BY DEF Dn, Dns, AllNames, AllContainers
<1>4. check_string(base_dn) /\ "entry" \in Kinds
  BY DEF check_string, base_dn, NULL, Kinds
<1> HIDE DEF change
<1>5. Send("entry", base_dn, "modify", Dn(prefix, name, base_dn),
           Dn(prefix, name, base_dn), change)
  BY <1>1 DEF change
<1>6. QED
  BY <1>2, <1>3, <1>4, <1>5, SendInv
-----------------------------------------------------------------------------
\* The connection and the answers: the type of the directory changes, and what
\* calls named stays at the home the server has for it.
LEMMA EnvironmentInv ==
  ASSUME IInv, Connection \/ Answered
  PROVE  IInv'
<1>1. /\ in_flight' \subseteq in_flight
      /\ UNCHANGED <<server, calls, undefined, named>>
  BY DEF Connection, Answered, Detect, EnterRun, LeaveRun, Reconnect, phases
<1>2. TypePhases'
  <2> USE DEF IInv, TypeOK, TypePhases
  <2>1. CASE Detect
    BY <2>1 DEF Detect, ServerTypes
  <2>2. CASE EnterRun \/ LeaveRun
    BY <2>2 DEF EnterRun, LeaveRun
  <2>3. CASE Reconnect
    BY <2>3 DEF Reconnect
  <2>4. CASE Answered
    BY <2>4 DEF Answered, phases
  <2>5. QED
    BY <2>1, <2>2, <2>3, <2>4 DEF Connection
<1>3. TypeOK'
  BY <1>1, <1>2 DEF IInv, TypeOK
<1>4. NamedAtHome'
  BY <1>1 DEF IInv, NamedAtHome, Home
<1>5. KnownAttributes'
  BY <1>1 DEF IInv, KnownAttributes, Known
<1>6. QED
  BY <1>3, <1>4, <1>5 DEF IInv

\* Every step preserves the invariant.
LEMMA NextInv == IInv /\ [Next]_vars => IInv'
<1> SUFFICES ASSUME IInv, [Next]_vars PROVE IInv'
  OBVIOUS
<1>1. CASE Connection \/ Answered
  BY <1>1, EnvironmentInv
<1>2. CASE Application
  BY <1>2, UsersInv, GroupsInv, MembersInv, ComputersInv, UnitsInv, AttributesInv
  DEF Application
<1>3. CASE UNCHANGED vars
  <2> USE <1>3 DEF vars, phases
  <2>1. TypeOK'
    BY DEF IInv, TypeOK, TypePhases
  <2>2. NamedAtHome'
    BY DEF IInv, NamedAtHome, Home
  <2>3. KnownAttributes'
    BY DEF IInv, KnownAttributes, Known
  <2>4. QED
    BY <2>1, <2>2, <2>3 DEF IInv
<1>4. QED
  BY <1>1, <1>2, <1>3 DEF Next

\* The invariant holds in every reachable state.
THEOREM Invariance == Spec => []IInv
  BY InitInv, NextInv, PTL DEF Spec

\* Every name the functions send is made of a prefix, a name and a container,
\* whatever parents the application passes.
THEOREM TypeCorrect == Spec => []TypeOK
<1>1. IInv => TypeOK
  BY DEF IInv
<1>2. QED
  BY <1>1, Invariance, PTL

\* Calls made in RUN without a parent agree on where an object is, however
\* often the connection was lost in between.
THEOREM FoundAgainAlways == Spec => []FoundAgain
<1>1. IInv => FoundAgain
  <2> SUFFICES ASSUME IInv, NEW q \in named, NEW r \in named,
                      q.kind = r.kind, q.kind # "computer",
                      q.dn.name = r.dn.name
               PROVE  q.dn = r.dn
    BY DEF FoundAgain
  <2>1. q.dn \in Dns /\ r.dn \in Dns
    BY DEF IInv, TypeOK
  <2>2. q.dn.prefix = r.dn.prefix /\ q.dn.parent = r.dn.parent
    BY DEF IInv, NamedAtHome
  <2>3. QED
    BY <2>1, <2>2 DEF Dns
<1>2. QED
  BY <1>1, Invariance, PTL

\* No request names an attribute the server does not know, in any state of the
\* connection.
THEOREM KnownAttributesAlways == Spec => []KnownAttributes
<1>1. IInv => KnownAttributes
  BY DEF IInv
<1>2. QED
  BY <1>1, Invariance, PTL
=============================================================================

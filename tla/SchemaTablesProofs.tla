------------------------- MODULE SchemaTablesProofs -------------------------
(***************************************************************************)
(* Proofs about SchemaTables, for any OIDs, names, lists of names and      *)
(* numbers of definitions and reconnects.                                  *)
(***************************************************************************)
EXTENDS SchemaTables, TLAPS

\* An OID in memory is a real one: what lacks an OID or names is not taken.
TakenAreAppendable ==
    \A k \in Kinds : \A i \in 1..Len(taken[k]) :
        /\ taken[k][i].oid \in OIDs
        /\ taken[k][i].names \in Seq(Names)

IInv ==
    /\ TypeOK
    /\ TakenAreAppendable
    /\ LatestIsFound
    /\ by_oid \in [Kinds -> [OIDs -> Nat]]
    /\ by_name \in [Kinds -> [Names -> Nat]]
-----------------------------------------------------------------------------
\* An empty schema satisfies the invariant.
LEMMA InitInv == Init => IInv
<1> SUFFICES ASSUME Init PROVE IInv
  OBVIOUS
<1> USE DEF Init, ldap_schema_new
<1>1. \A k \in Kinds : taken[k] = <<>> /\ Len(taken[k]) = 0
  OBVIOUS
<1>2. TypeOK
  BY <1>1 DEF TypeOK
<1>3. TakenAreAppendable
  BY <1>1 DEF TakenAreAppendable
<1>4. LatestIsFound
  BY <1>1 DEF LatestIsFound, ldap_schema_get_by_oid, ldap_schema_get_by_name,
              ldap_schema_list
<1>5. QED
  BY <1>2, <1>3, <1>4 DEF IInv

\* What taking in one definition does to the tables of its kind; those of the
\* other kind stay as they are.
LEMMA InsertEffect ==
  ASSUME IInv, NEW k \in Kinds, NEW d \in Parsed, Appendable(d), Insert(k, d),
         NEW new, new = Len(taken[k]) + 1
  PROVE  /\ taken' \in [Kinds -> Seq(Definitions)]
         /\ by_oid' \in [Kinds -> [OIDs -> Nat]]
         /\ by_name' \in [Kinds -> [Names -> Nat]]
         /\ new \in Nat \ {0}
         /\ d \in Definitions /\ d.oid \in OIDs /\ d.names \in Seq(Names)
         /\ Len(taken'[k]) = new
         /\ taken'[k][new] = d
         /\ \A i \in 1..Len(taken[k]) : taken'[k][i] = taken[k][i]
         /\ \A o \in OIDs : by_oid'[k][o] = IF o = d.oid THEN new ELSE by_oid[k][o]
         /\ \A n \in Names : by_name'[k][n] =
                IF n \in NameSet(d.names) THEN new ELSE by_name[k][n]
         /\ \A other \in Kinds : other # k =>
                /\ taken'[other] = taken[other]
                /\ by_oid'[other] = by_oid[other]
                /\ by_name'[other] = by_name[other]
<1>1. d \in Definitions
  BY DEF Parsed, Appendable
<1>2. d.oid \in OIDs /\ d.names \in Seq(Names)
  BY <1>1, NameListsAssumption DEF Definitions, Appendable
<1>3. taken[k] \in Seq(Definitions) /\ Len(taken[k]) \in Nat
  BY DEF IInv, TypeOK
<1>4. taken' = [taken EXCEPT ![k] = Append(taken[k], d)]
  BY DEF Insert
<1>5. taken'[k] = Append(taken[k], d)
  BY <1>4 DEF IInv, TypeOK
<1>6. Append(taken[k], d) \in Seq(Definitions)
  BY <1>1, <1>3
<1>7. taken' \in [Kinds -> Seq(Definitions)]
  BY <1>4, <1>6 DEF IInv, TypeOK
<1>8. by_oid' = [by_oid EXCEPT ![k] = [by_oid[k] EXCEPT ![d.oid] = new]]
  BY DEF Insert, IInv
<1>9. by_oid' \in [Kinds -> [OIDs -> Nat]]
      /\ \A o \in OIDs : by_oid'[k][o] = IF o = d.oid THEN new ELSE by_oid[k][o]
  BY <1>2, <1>3, <1>8 DEF IInv
<1>10. by_name' = [by_name EXCEPT ![k] =
           [n \in Names |-> IF n \in NameSet(d.names) THEN new ELSE by_name[k][n]]]
  BY DEF Insert, IInv
<1>11. by_name' \in [Kinds -> [Names -> Nat]]
       /\ \A n \in Names : by_name'[k][n] =
                IF n \in NameSet(d.names) THEN new ELSE by_name[k][n]
  BY <1>3, <1>10 DEF IInv
<1>12. Len(taken'[k]) = new /\ taken'[k][new] = d
       /\ \A i \in 1..Len(taken[k]) : taken'[k][i] = taken[k][i]
  BY <1>1, <1>3, <1>5
<1>13. \A other \in Kinds : other # k =>
                /\ taken'[other] = taken[other]
                /\ by_oid'[other] = by_oid[other]
                /\ by_name'[other] = by_name[other]
  BY <1>4, <1>8, <1>10 DEF IInv, TypeOK
<1>14. QED
  BY <1>1, <1>2, <1>3, <1>7, <1>9, <1>11, <1>12, <1>13

\* The invariant survives it.
LEMMA InsertInv ==
  ASSUME IInv, NEW k \in Kinds, NEW d \in Parsed, Appendable(d), Insert(k, d),
         answer' \in [Kinds -> {"waiting", "reading", "read", "dropped"}],
         reconnects' \in Nat
  PROVE  IInv'
<1> DEFINE new == Len(taken[k]) + 1
<1>1. /\ taken' \in [Kinds -> Seq(Definitions)]
      /\ by_oid' \in [Kinds -> [OIDs -> Nat]]
      /\ by_name' \in [Kinds -> [Names -> Nat]]
      /\ new \in Nat \ {0}
      /\ d.oid \in OIDs /\ d.names \in Seq(Names)
      /\ Len(taken'[k]) = new
      /\ taken'[k][new] = d
      /\ \A i \in 1..Len(taken[k]) : taken'[k][i] = taken[k][i]
      /\ \A o \in OIDs : by_oid'[k][o] = IF o = d.oid THEN new ELSE by_oid[k][o]
      /\ \A n \in Names : by_name'[k][n] =
             IF n \in NameSet(d.names) THEN new ELSE by_name[k][n]
      /\ \A other \in Kinds : other # k =>
             /\ taken'[other] = taken[other]
             /\ by_oid'[other] = by_oid[other]
             /\ by_name'[other] = by_name[other]
  BY InsertEffect
<1> HIDE DEF new
<1>2. Len(taken[k]) \in Nat /\ new = Len(taken[k]) + 1
  BY DEF IInv, TypeOK, new
<1>3. /\ \A o \in OIDs : by_oid[k][o] \in 0..Len(taken[k])
      /\ \A n \in Names : by_name[k][n] \in 0..Len(taken[k])
  BY DEF IInv, TypeOK
<1>4. TypeOK'
  <2>0. new \in 0..new /\ \A x \in 0..Len(taken[k]) : x \in 0..new
    BY <1>2
  <2>1. by_oid'[k] \in [OIDs -> 0..Len(taken'[k])]
    <3>1. \A o \in OIDs : by_oid'[k][o] \in 0..new
      BY <1>1, <1>3, <2>0
    <3>2. by_oid'[k] \in [OIDs -> Nat]
      BY <1>1
    <3>3. QED
      BY <1>1, <3>1, <3>2
  <2>2. by_name'[k] \in [Names -> 0..Len(taken'[k])]
    <3>1. \A n \in Names : by_name'[k][n] \in 0..new
      BY <1>1, <1>3, <2>0
    <3>2. by_name'[k] \in [Names -> Nat]
      BY <1>1
    <3>3. QED
      BY <1>1, <3>1, <3>2
  <2>3. \A other \in Kinds : other # k =>
            /\ by_oid'[other] \in [OIDs -> 0..Len(taken'[other])]
            /\ by_name'[other] \in [Names -> 0..Len(taken'[other])]
    BY <1>1 DEF IInv, TypeOK
  <2>4. QED
    BY <1>1, <2>1, <2>2, <2>3 DEF TypeOK
<1>5. \A i \in 1..Len(taken'[k]) : i = new \/ i \in 1..Len(taken[k])
  BY <1>1, <1>2
<1>6. TakenAreAppendable'
  <2>1. \A i \in 1..Len(taken'[k]) :
            taken'[k][i].oid \in OIDs /\ taken'[k][i].names \in Seq(Names)
    BY <1>1, <1>5 DEF IInv, TakenAreAppendable
  <2>2. QED
    BY <1>1, <2>1 DEF IInv, TakenAreAppendable
<1>7. LatestIsFound'
  <2> USE DEF ldap_schema_get_by_oid, ldap_schema_get_by_name, ldap_schema_list,
              OidAt, NamesAt
  <2>1. ASSUME NEW o \in OIDs
        PROVE  /\ by_oid'[k][o] # 0 => taken'[k][by_oid'[k][o]].oid = o
               /\ \A i \in 1..Len(taken'[k]) :
                      taken'[k][i].oid = o => i <= by_oid'[k][o]
    <3>1. /\ by_oid[k][o] # 0 => taken[k][by_oid[k][o]].oid = o
          /\ \A i \in 1..Len(taken[k]) : taken[k][i].oid = o => i <= by_oid[k][o]
      BY DEF IInv, LatestIsFound
    <3>2. by_oid[k][o] \in 0..Len(taken[k])
      BY <1>3
    <3>3. CASE o = d.oid
      <4>1. by_oid'[k][o] = new
        BY <1>1, <3>3
      <4>2. \A i \in 1..Len(taken'[k]) : i <= new
        BY <1>1
      <4>3. QED
        BY <1>1, <3>3, <4>1, <4>2
    <3>4. CASE o # d.oid
      <4>1. by_oid'[k][o] = by_oid[k][o]
        BY <1>1, <3>4
      <4>2. by_oid[k][o] # 0 => by_oid[k][o] \in 1..Len(taken[k])
        BY <1>2, <3>2
      <4>3. by_oid[k][o] # 0 => taken'[k][by_oid[k][o]] = taken[k][by_oid[k][o]]
        BY <1>1, <4>2
      <4>4. ASSUME NEW i \in 1..Len(taken'[k]), taken'[k][i].oid = o
            PROVE  i <= by_oid[k][o]
        <5>1. i # new
          BY <1>1, <3>4, <4>4
        <5>2. i \in 1..Len(taken[k]) /\ taken'[k][i] = taken[k][i]
          BY <1>1, <1>5, <5>1
        <5>3. QED
          BY <3>1, <4>4, <5>2
      <4>5. QED
        BY <3>1, <4>1, <4>3, <4>4
    <3>5. QED
      BY <3>3, <3>4
  <2>2. ASSUME NEW n \in Names
        PROVE  /\ by_name'[k][n] # 0 => n \in NameSet(taken'[k][by_name'[k][n]].names)
               /\ \A i \in 1..Len(taken'[k]) :
                      n \in NameSet(taken'[k][i].names) => i <= by_name'[k][n]
    <3>1. /\ by_name[k][n] # 0 => n \in NameSet(taken[k][by_name[k][n]].names)
          /\ \A i \in 1..Len(taken[k]) :
                 n \in NameSet(taken[k][i].names) => i <= by_name[k][n]
      BY DEF IInv, LatestIsFound
    <3>2. by_name[k][n] \in 0..Len(taken[k])
      BY <1>3
    <3>3. CASE n \in NameSet(d.names)
      <4>1. by_name'[k][n] = new
        BY <1>1, <3>3
      <4>2. \A i \in 1..Len(taken'[k]) : i <= new
        BY <1>1
      <4>3. QED
        BY <1>1, <3>3, <4>1, <4>2
    <3>4. CASE n \notin NameSet(d.names)
      <4>1. by_name'[k][n] = by_name[k][n]
        BY <1>1, <3>4
      <4>2. by_name[k][n] # 0 => by_name[k][n] \in 1..Len(taken[k])
        BY <1>2, <3>2
      <4>3. by_name[k][n] # 0 => taken'[k][by_name[k][n]] = taken[k][by_name[k][n]]
        BY <1>1, <4>2
      <4>4. ASSUME NEW i \in 1..Len(taken'[k]), n \in NameSet(taken'[k][i].names)
            PROVE  i <= by_name[k][n]
        <5>1. i # new
          BY <1>1, <3>4, <4>4
        <5>2. i \in 1..Len(taken[k]) /\ taken'[k][i] = taken[k][i]
          BY <1>1, <1>5, <5>1
        <5>3. QED
          BY <3>1, <4>4, <5>2
      <4>5. QED
        BY <3>1, <4>1, <4>3, <4>4
    <3>5. QED
      BY <3>3, <3>4
  <2>3. \A i \in {by_oid'[k][o] : o \in OIDs} \ {0} :
            by_oid'[k][taken'[k][i].oid] = i
    BY <2>1
  <2>4. ASSUME NEW other \in Kinds, other # k
        PROVE  /\ taken'[other] = taken[other]
               /\ by_oid'[other] = by_oid[other]
               /\ by_name'[other] = by_name[other]
    BY <1>1, <2>4
  <2>5. ASSUME NEW kind \in Kinds
        PROVE  /\ \A o \in OIDs :
                     /\ by_oid'[kind][o] # 0 => taken'[kind][by_oid'[kind][o]].oid = o
                     /\ \A i \in 1..Len(taken'[kind]) :
                           taken'[kind][i].oid = o => i <= by_oid'[kind][o]
               /\ \A n \in Names :
                     /\ by_name'[kind][n] # 0 =>
                           n \in NameSet(taken'[kind][by_name'[kind][n]].names)
                     /\ \A i \in 1..Len(taken'[kind]) :
                           n \in NameSet(taken'[kind][i].names) => i <= by_name'[kind][n]
               /\ \A i \in {by_oid'[kind][o] : o \in OIDs} \ {0} :
                     by_oid'[kind][taken'[kind][i].oid] = i
    <3>1. CASE kind = k
      BY <2>1, <2>2, <2>3, <3>1
    <3>2. CASE kind # k
      <4>1. /\ taken'[kind] = taken[kind]
            /\ by_oid'[kind] = by_oid[kind]
            /\ by_name'[kind] = by_name[kind]
        BY <2>4, <3>2
      <4>2. LatestIsFound
        BY DEF IInv
      <4>3. \A o \in OIDs :
                /\ by_oid[kind][o] # 0 => taken[kind][by_oid[kind][o]].oid = o
                /\ \A i \in 1..Len(taken[kind]) :
                      taken[kind][i].oid = o => i <= by_oid[kind][o]
        BY <4>2 DEF LatestIsFound
      <4>4. \A n \in Names :
                /\ by_name[kind][n] # 0 =>
                      n \in NameSet(taken[kind][by_name[kind][n]].names)
                /\ \A i \in 1..Len(taken[kind]) :
                      n \in NameSet(taken[kind][i].names) => i <= by_name[kind][n]
        BY <4>2 DEF LatestIsFound
      <4>5. \A i \in {by_oid[kind][o] : o \in OIDs} \ {0} :
                by_oid[kind][taken[kind][i].oid] = i
        BY <4>2 DEF LatestIsFound
      <4>6. QED
        BY <4>1, <4>3, <4>4, <4>5
    <3>3. QED
      BY <3>1, <3>2
  <2>6. QED
    BY <2>5 DEF LatestIsFound
<1>8. QED
  BY <1>1, <1>4, <1>6, <1>7 DEF IInv

\* What the getters return depends on the tables and the definitions alone.
LEMMA LatestUnchanged ==
  ASSUME LatestIsFound, by_oid' = by_oid, by_name' = by_name, taken' = taken
  PROVE  LatestIsFound'
<1> USE DEF ldap_schema_get_by_oid, ldap_schema_get_by_name, ldap_schema_list,
            OidAt, NamesAt
<1> SUFFICES ASSUME NEW k \in Kinds
             PROVE  /\ \A o \in OIDs :
                          /\ by_oid'[k][o] # 0 => taken'[k][by_oid'[k][o]].oid = o
                          /\ \A i \in 1..Len(taken'[k]) :
                                taken'[k][i].oid = o => i <= by_oid'[k][o]
                    /\ \A n \in Names :
                          /\ by_name'[k][n] # 0 =>
                                n \in NameSet(taken'[k][by_name'[k][n]].names)
                          /\ \A i \in 1..Len(taken'[k]) :
                                n \in NameSet(taken'[k][i].names) => i <= by_name'[k][n]
                    /\ \A i \in {by_oid'[k][o] : o \in OIDs} \ {0} :
                          by_oid'[k][taken'[k][i].oid] = i
  BY DEF LatestIsFound
<1>1. \A o \in OIDs :
         /\ by_oid[k][o] # 0 => taken[k][by_oid[k][o]].oid = o
         /\ \A i \in 1..Len(taken[k]) : taken[k][i].oid = o => i <= by_oid[k][o]
  BY DEF LatestIsFound
<1>2. \A n \in Names :
         /\ by_name[k][n] # 0 => n \in NameSet(taken[k][by_name[k][n]].names)
         /\ \A i \in 1..Len(taken[k]) :
               n \in NameSet(taken[k][i].names) => i <= by_name[k][n]
  BY DEF LatestIsFound
<1>3. \A i \in {by_oid[k][o] : o \in OIDs} \ {0} : by_oid[k][taken[k][i].oid] = i
  BY DEF LatestIsFound
<1>4. QED
  BY <1>1, <1>2, <1>3

\* Every step of a callback preserves it, and so does a new schema.
LEMMA NextInv == IInv /\ [Next]_vars => IInv'
<1> SUFFICES ASSUME IInv, [Next]_vars PROVE IInv'
  OBVIOUS
<1>1. ASSUME NEW k \in Kinds,
             \/ ldap_schema_search_callback(k)
             \/ ReadEnds(k)
             \/ \E d \in Parsed : ReadFails(k, d)
      PROVE  IInv'
  <2>1. /\ UNCHANGED <<by_oid, by_name, taken, reconnects>>
        /\ answer' \in [Kinds -> {"waiting", "reading", "read", "dropped"}]
    BY <1>1 DEF ldap_schema_search_callback, ReadEnds, ReadFails, IInv, TypeOK
  <2>2. TypeOK' /\ TakenAreAppendable'
    BY <2>1 DEF IInv, TypeOK, TakenAreAppendable
  <2>3. LatestIsFound'
    BY <2>1, LatestUnchanged DEF IInv
  <2>4. QED
    BY <2>1, <2>2, <2>3 DEF IInv
<1>2. ASSUME NEW k \in Kinds, NEW d \in Parsed, ReadValue(k, d)
      PROVE  IInv'
  <2>1. Appendable(d) /\ Insert(k, d)
    BY <1>2 DEF ReadValue
  <2>2. /\ answer' \in [Kinds -> {"waiting", "reading", "read", "dropped"}]
        /\ reconnects' \in Nat
    BY <1>2 DEF ReadValue, IInv, TypeOK
  <2>3. QED
    BY <2>1, <2>2, InsertInv
<1>3. CASE connection_configure
  <2> USE <1>3 DEF connection_configure, ldap_schema_new
  <2>1. \A k \in Kinds : taken'[k] = <<>> /\ Len(taken'[k]) = 0
    OBVIOUS
  <2>2. /\ by_oid' \in [Kinds -> [OIDs -> Nat]]
        /\ by_name' \in [Kinds -> [Names -> Nat]]
    OBVIOUS
  <2>3. TypeOK'
    BY <2>1 DEF IInv, TypeOK
  <2>4. TakenAreAppendable'
    BY <2>1 DEF TakenAreAppendable
  <2>5. LatestIsFound'
    BY <2>1 DEF LatestIsFound, ldap_schema_get_by_oid, ldap_schema_get_by_name,
                ldap_schema_list
  <2>6. QED
    BY <2>2, <2>3, <2>4, <2>5 DEF IInv
<1>4. CASE UNCHANGED vars
  <2>1. TypeOK' /\ TakenAreAppendable'
    BY <1>4 DEF IInv, TypeOK, TakenAreAppendable, vars
  <2>2. LatestIsFound'
    BY <1>4, LatestUnchanged DEF vars, IInv
  <2>3. QED
    BY <1>4, <2>1, <2>2 DEF IInv, vars
<1>5. QED
  BY <1>1, <1>2, <1>3, <1>4 DEF Next

\* The invariant holds in every reachable state.
THEOREM Invariance == Spec => []IInv
  BY InitInv, NextInv, PTL DEF Spec

\* The tables point at definitions that are in memory.
THEOREM TypeCorrect == Spec => []TypeOK
<1>1. IInv => TypeOK
  BY DEF IInv
<1>2. QED
  BY <1>1, Invariance, PTL

\* Lookups by OID and by name return the latest definition of that name, for
\* answers of any length.
THEOREM LatestIsAlwaysFound == Spec => []LatestIsFound
<1>1. IInv => LatestIsFound
  BY DEF IInv
<1>2. QED
  BY <1>1, Invariance, PTL

\* Between two reconnects no lookup loses what it found.
THEOREM NothingIsForgotten == Spec => NothingForgotten
<1> DEFINE Kept == reconnects' = reconnects =>
               \A k \in Kinds :
                  /\ \A o \in OIDs : by_oid[k][o] <= by_oid'[k][o]
                  /\ \A n \in Names : by_name[k][n] <= by_name'[k][n]
<1>1. IInv /\ [Next]_vars => Kept \/ UNCHANGED vars
  <2> SUFFICES ASSUME IInv, [Next]_vars, reconnects' = reconnects,
                      ~UNCHANGED vars, NEW k \in Kinds
               PROVE  /\ \A o \in OIDs : by_oid[k][o] <= by_oid'[k][o]
                      /\ \A n \in Names : by_name[k][n] <= by_name'[k][n]
    OBVIOUS
  <2>1. /\ \A o \in OIDs : by_oid[k][o] \in Nat
        /\ \A n \in Names : by_name[k][n] \in Nat
    BY DEF IInv
  <2>2. CASE UNCHANGED <<by_oid, by_name>>
    BY <2>1, <2>2
  <2>3. ASSUME NEW kind \in Kinds, NEW d \in Parsed, ReadValue(kind, d)
        PROVE  /\ \A o \in OIDs : by_oid[k][o] <= by_oid'[k][o]
               /\ \A n \in Names : by_name[k][n] <= by_name'[k][n]
    <3> DEFINE new == Len(taken[kind]) + 1
    <3>1. Appendable(d) /\ Insert(kind, d)
      BY <2>3 DEF ReadValue
    <3>2. /\ \A o \in OIDs : by_oid'[kind][o] =
                 IF o = d.oid THEN new ELSE by_oid[kind][o]
          /\ \A n \in Names : by_name'[kind][n] =
                 IF n \in NameSet(d.names) THEN new ELSE by_name[kind][n]
          /\ kind # k => by_oid'[k] = by_oid[k] /\ by_name'[k] = by_name[k]
      BY <3>1, InsertEffect
    <3>3. /\ \A o \in OIDs : by_oid[kind][o] <= new
          /\ \A n \in Names : by_name[kind][n] <= new
      BY DEF IInv, TypeOK
    <3> HIDE DEF new
    <3>4. CASE kind = k
      BY <2>1, <3>2, <3>3, <3>4
    <3>5. CASE kind # k
      BY <2>1, <3>2, <3>5
    <3>6. QED
      BY <3>4, <3>5
  <2>4. ~connection_configure
    BY DEF connection_configure, IInv, TypeOK
  <2>5. QED
    BY <2>2, <2>3, <2>4
    DEF Next, ldap_schema_search_callback, ReadFails, ReadEnds
<1>2. QED
  BY <1>1, Invariance, PTL DEF Spec, NothingForgotten
=============================================================================

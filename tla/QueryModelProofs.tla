--------------------------- MODULE QueryModelProofs ---------------------------
(***************************************************************************)
(* What holds of schemas, instances and queries for any data models,       *)
(* constraints and values, and for expressions of any depth.  Induction    *)
(* over an expression is by its least node that is a counterexample.       *)
(***************************************************************************)
EXTENDS QueryModel, FiniteSetTheorems, TLAPS

-------------------------------------------------------------------------------
(* The directory *)

\* Appending a schema does not change where a get stops.
LEMMA AppendKeepsFirsts ==
  ASSUME NEW s \in Seq(Schema), NEW x \in Schema, NEW version \in Nat,
         Firsts(s, version) # {}
  PROVE  /\ Firsts(Append(s, x), version) = Firsts(s, version)
         /\ Firsts(s, version) \subseteq DOMAIN s
         /\ \A i \in DOMAIN s : Append(s, x)[i] = s[i]
<1> DEFINE t == Append(s, x)
<1>1. /\ t \in Seq(Schema) /\ Len(t) = Len(s) + 1
      /\ DOMAIN s = 1..Len(s) /\ DOMAIN t = 1..(Len(s) + 1)
      /\ \A i \in 1..Len(s) : t[i] = s[i]
      /\ \A i \in DOMAIN t : t[i].version \in Nat
      /\ Len(s) \in Nat
  <2>1. /\ t \in Seq(Schema) /\ Len(t) = Len(s) + 1
        /\ DOMAIN s = 1..Len(s) /\ DOMAIN t = 1..(Len(s) + 1)
        /\ \A i \in 1..Len(s) : t[i] = s[i]
        /\ Len(s) \in Nat
    OBVIOUS
  <2>2. \A i \in DOMAIN t : t[i] \in Schema
    BY <2>1
  <2>3. \A i \in DOMAIN t : t[i].version \in Nat
    BY <2>2 DEF Schema
  <2> QED BY <2>1, <2>3
<1>2. PICK k \in DOMAIN s : s[k].version >= version
  BY DEF Firsts
<1>3. ASSUME NEW i \in Firsts(t, version) PROVE i \in Firsts(s, version)
  <2>1. /\ i \in 1..(Len(s) + 1) /\ t[i].version >= version
        /\ \A j \in 1..(i - 1) : t[j].version < version
    BY <1>1, <1>3 DEF Firsts
  <2>2. i <= k
    <3>1. SUFFICES ASSUME k < i PROVE FALSE
      BY <1>1, <2>1
    <3>2. k \in 1..(i - 1) /\ t[k] = s[k] /\ t[k].version \in Nat
      BY <1>1, <2>1, <3>1
    <3> QED BY <1>2, <2>1, <3>2
  <2>3. i \in DOMAIN s /\ \A j \in 1..(i - 1) : j \in DOMAIN s
    BY <1>1, <2>1, <2>2
  <2> QED BY <1>1, <2>1, <2>3 DEF Firsts
<1>4. ASSUME NEW i \in Firsts(s, version) PROVE i \in Firsts(t, version)
  <2>1. i \in DOMAIN s /\ \A j \in 1..(i - 1) : j \in DOMAIN s
    BY <1>1, <1>4 DEF Firsts
  <2> QED BY <1>1, <1>4, <2>1 DEF Firsts
<1> QED BY <1>1, <1>3, <1>4 DEF Firsts

\* Adding keeps the schemas typed and changes one key by appending to it.
LEMMA AddAppends ==
  ASSUME DirectoryTypeOK, NEW key \in Keys,
         NEW version \in Versions \union {MaxVersion}, NEW model \in Models,
         Add(key, version, model)
  PROVE  \E x \in Schema : schemas' = [schemas EXCEPT ![key] = Append(@, x)]
<1> DEFINE v == IF version = MaxVersion THEN NextVersion(key) ELSE version
           x == [version |-> v, model |-> model]
<1>1. schemas[key] \in Seq(Schema)
  BY DEF DirectoryTypeOK
<1>2. NextVersion(key) \in Nat
  BY <1>1 DEF NextVersion
<1>3. x \in Schema
  BY <1>2, VersionsAssumption DEF Schema
<1> QED BY <1>3 DEF Add

LEMMA AppendTyped ==
  ASSUME DirectoryTypeOK, NEW key \in Keys, NEW x \in Schema,
         schemas' = [schemas EXCEPT ![key] = Append(@, x)]
  PROVE  DirectoryTypeOK'
<1>1. \A k \in Keys : schemas[k] \in Seq(Schema)
  BY DEF DirectoryTypeOK
<1>2. Append(schemas[key], x) \in Seq(Schema)
  BY <1>1
<1> QED BY <1>1, <1>2 DEF DirectoryTypeOK

LEMMA AppendIsStable ==
  ASSUME DirectoryTypeOK, NEW key \in Keys, NEW x \in Schema,
         schemas' = [schemas EXCEPT ![key] = Append(@, x)],
         NEW k \in Keys, NEW version \in Versions,
         Firsts(schemas[k], version) # {}
  PROVE  Get(k, version)' = Get(k, version)
<1> DEFINE s == schemas[k]
<1>1. s \in Seq(Schema) /\ version \in Nat /\ version # MaxVersion
  BY VersionsAssumption DEF DirectoryTypeOK
<1>2. CASE k # key
  <2>1. schemas'[k] = s
    BY <1>2 DEF DirectoryTypeOK
  <2> QED BY <2>1 DEF Get
<1>3. CASE k = key
  <2>1. schemas'[k] = Append(s, x)
    BY <1>3 DEF DirectoryTypeOK
  <2>2. /\ Firsts(Append(s, x), version) = Firsts(s, version)
        /\ Firsts(s, version) \subseteq DOMAIN s
        /\ \A i \in DOMAIN s : Append(s, x)[i] = s[i]
    BY <1>1, AppendKeepsFirsts
  <2> DEFINE i == CHOOSE j \in Firsts(s, version) : TRUE
  <2>3. i \in DOMAIN s
    <3>1. i \in Firsts(s, version)
      OBVIOUS
    <3> QED BY <2>2, <3>1
  <2>4. Get(k, version) = s[i]
    BY <1>1 DEF Get, Find
  <2>5. Get(k, version)' = Append(s, x)[i]
    BY <1>1, <2>1, <2>2 DEF Get, Find
  <2> QED BY <2>2, <2>3, <2>4, <2>5
<1> QED BY <1>2, <1>3

-------------------------------------------------------------------------------
(* Types *)

LEMMA InitTyped == Init => TypeOK
BY DEF Init, TypeOK, DirectoryInit, DirectoryTypeOK, Grows

LEMMA BuildTyped ==
  ASSUME TypeOK, NEW e \in Expressions, Build(e),
         \A i \in DOMAIN Of(e) : Of(e)[i] \in 1..Len(nodes)
  PROVE  TypeOK'
<1>1. /\ nodes' = Append(nodes, e) /\ query = NoQuery
      /\ query' = query /\ schemas' = schemas
  BY DEF Build
<1>2. nodes \in Seq(Expressions) /\ Grows(nodes) /\ DirectoryTypeOK
  BY DEF TypeOK
<1>3. /\ nodes' \in Seq(Expressions) /\ DOMAIN nodes' = 1..(Len(nodes) + 1)
      /\ DOMAIN nodes = 1..Len(nodes) /\ Len(nodes) \in Nat
      /\ nodes'[Len(nodes) + 1] = e
      /\ \A n \in 1..Len(nodes) : nodes'[n] = nodes[n]
  BY <1>1, <1>2
<1>4. ASSUME NEW n \in DOMAIN nodes', NEW i \in DOMAIN Of(nodes'[n])
      PROVE  Of(nodes'[n])[i] \in 1..(n - 1)
  <2>1. CASE n \in 1..Len(nodes)
    <3>1. nodes'[n] = nodes[n] /\ n \in DOMAIN nodes
      BY <1>3, <2>1
    <3>2. i \in DOMAIN Of(nodes[n])
      BY <3>1, <1>4
    <3>3. Of(nodes[n])[i] \in 1..(n - 1)
      BY <3>1, <3>2, <1>2 DEF Grows
    <3> QED BY <3>1, <3>3
  <2>2. CASE n = Len(nodes) + 1
    <3>1. nodes'[n] = e /\ n - 1 = Len(nodes)
      BY <1>3, <2>2
    <3>2. Of(e)[i] \in 1..Len(nodes)
      BY <3>1, <1>4
    <3> QED BY <3>1, <3>2
  <2> QED BY <1>3, <2>1, <2>2
<1>5. Grows(nodes')
  BY <1>4 DEF Grows
<1> QED BY <1>1, <1>2, <1>3, <1>5 DEF TypeOK, DirectoryTypeOK, Grows

LEMMA QueryTyped ==
  ASSUME TypeOK, NEW roots \in SUBSET DOMAIN nodes,
         NEW model \in Models \union {NoModel},
         NEW schema \in {NoSchema} \union [key : Keys, version : Nat],
         NEW received \in BOOLEAN, MakesQuery(roots, model, schema, received),
         received \/ /\ roots # {}
                     /\ model # NoModel => \A n \in roots : Valid(nodes, model)[n]
  PROVE  TypeOK'
<1>1. /\ nodes \in Seq(Expressions) /\ Grows(nodes) /\ DirectoryTypeOK
  BY DEF TypeOK
<1>2. /\ query' = [nodes |-> nodes, roots |-> roots, model |-> model,
                   schema |-> schema, received |-> received]
      /\ nodes' = <<>> /\ schemas' = schemas
  BY DEF MakesQuery
<1>3. nodes' \in Seq(Expressions) /\ Grows(nodes')
  BY <1>2 DEF Grows
<1>4. DirectoryTypeOK'
  BY <1>1, <1>2 DEF DirectoryTypeOK
<1>5. /\ query'.nodes = nodes /\ query'.roots = roots /\ query'.model = model
      /\ query'.received = received
  BY <1>2
<1>6. ~received => QueryValid(query')
  BY <1>5 DEF QueryValid
<1>7. Grows(query'.nodes) /\ query'.roots \subseteq DOMAIN query'.nodes
  BY <1>1, <1>5
<1>8. query' \in Queries
  <2>1. roots \in SUBSET Nat
    BY <1>1
  <2> QED BY <1>1, <1>2, <2>1 DEF Queries
<1> QED BY <1>3, <1>4, <1>5, <1>6, <1>7, <1>8 DEF TypeOK

LEMMA GetTyped ==
  ASSUME DirectoryTypeOK, NEW key \in Keys, Has(key),
         NEW version \in Versions \union {MaxVersion}
  PROVE  Get(key, version) \in Schema
<1> DEFINE s == schemas[key]
<1>1. s \in Seq(Schema) /\ s # <<>>
  BY DEF DirectoryTypeOK, Has
<1>2. Back(s) \in Schema
  BY <1>1 DEF Back
<1>3. ASSUME Firsts(s, version) # {}
      PROVE  s[CHOOSE i \in Firsts(s, version) : TRUE] \in Schema
  <2> DEFINE i == CHOOSE j \in Firsts(s, version) : TRUE
  <2>1. i \in Firsts(s, version)
    BY <1>3
  <2>2. i \in DOMAIN s
    BY <2>1 DEF Firsts
  <2> HIDE DEF i
  <2>3. s[i] \in Schema
    BY <1>1, <2>2
  <2> QED BY <2>3 DEF i
<1> QED BY <1>2, <1>3 DEF Get, Find

LEMMA NextTyped == TypeOK /\ [Next]_vars => TypeOK'
<1> SUFFICES ASSUME TypeOK, [Next]_vars PROVE TypeOK'
  OBVIOUS
<1>1. /\ nodes \in Seq(Expressions) /\ DirectoryTypeOK
      /\ Len(nodes) \in Nat /\ DOMAIN nodes = 1..Len(nodes)
      /\ (nodes # <<>> => Len(nodes) >= 1)
  BY DEF TypeOK
<1>2. ASSUME NEW key \in Keys, NEW version \in Versions \union {MaxVersion},
             NEW model \in Models, AddSchema(key, version, model)
      PROVE  TypeOK'
  <2>1. DirectoryTypeOK'
    BY <1>1, <1>2, AddAppends, AppendTyped DEF AddSchema
  <2>2. nodes' = nodes /\ query' = query
    BY <1>2 DEF AddSchema
  <2>3. nodes' \in Seq(Expressions) /\ Grows(nodes')
    BY <2>2 DEF TypeOK
  <2>4. query' # NoQuery =>
          /\ query' \in Queries
          /\ Grows(query'.nodes)
          /\ query'.roots \subseteq DOMAIN query'.nodes
          /\ ~query'.received => QueryValid(query')
    BY <2>2 DEF TypeOK
  <2> QED BY <2>1, <2>3, <2>4 DEF TypeOK
<1>3. ASSUME NEW c \in ConstraintPool, NewConstraint(c) PROVE TypeOK'
  <2> DEFINE e == [kind |-> "constraint", is |-> c]
  <2>1. e \in Expressions /\ Build(e) /\ Of(e) = <<>>
    BY <1>3 DEF Expressions, NewConstraint, Of
  <2>2. \A i \in DOMAIN Of(e) : Of(e)[i] \in 1..Len(nodes)
    BY <2>1
  <2> HIDE DEF e
  <2> QED BY <2>1, <2>2, BuildTyped
<1>4. ASSUME Negate PROVE TypeOK'
  <2> DEFINE e == [kind |-> "not", of |-> <<Len(nodes)>>]
  <2>1. e \in Expressions /\ Build(e) /\ Of(e) = <<Len(nodes)>>
    BY <1>1, <1>4 DEF Expressions, Negate, Of
  <2>2. \A i \in DOMAIN Of(e) : Of(e)[i] \in 1..Len(nodes)
    BY <1>1, <1>4, <2>1 DEF Negate
  <2> HIDE DEF e
  <2> QED BY <2>1, <2>2, BuildTyped
<1>5. ASSUME NEW kind \in {"or", "and"}, Group(kind) PROVE TypeOK'
  <2> DEFINE e == [kind |-> kind, of |-> <<Len(nodes) - 1, Len(nodes)>>]
  <2>0. Len(nodes) >= 2 /\ Build(e)
    BY <1>5 DEF Group
  <2>1. e \in Expressions /\ Of(e) = <<Len(nodes) - 1, Len(nodes)>>
    BY <1>1, <2>0 DEF Expressions, Of
  <2>2. \A i \in DOMAIN Of(e) : Of(e)[i] \in 1..Len(nodes)
    BY <1>1, <2>0, <2>1
  <2> HIDE DEF e
  <2> QED BY <2>0, <2>1, <2>2, BuildTyped
<1>6. ASSUME NEW kind \in {"or", "and"}, NEW of \in {<<>>, <<Len(nodes)>>},
             ReceiveGroup(kind, of)
      PROVE  TypeOK'
  <2> DEFINE e == [kind |-> kind, of |-> of]
  <2>0. of \in Seq(Nat)
    <3>1. <<>> \in Seq(Nat) /\ <<Len(nodes)>> \in Seq(Nat)
      BY <1>1
    <3> QED BY <3>1
  <2>1. /\ e \in Expressions /\ Of(e) = of /\ Build(e)
        /\ \A i \in DOMAIN of : of[i] \in DOMAIN nodes
    BY <2>0, <1>6 DEF Expressions, ReceiveGroup, Of
  <2>2. \A i \in DOMAIN Of(e) : Of(e)[i] \in 1..Len(nodes)
    BY <1>1, <2>1
  <2> HIDE DEF e
  <2> QED BY <2>1, <2>2, BuildTyped
<1>7. ASSUME NEW roots \in Roots, NewQuery(roots) PROVE TypeOK'
  <2>1. nodes # <<>> /\ MakesQuery(roots, NoModel, NoSchema, FALSE)
    BY <1>7 DEF NewQuery
  <2>2. roots # {} /\ roots \in SUBSET DOMAIN nodes
    BY <1>1, <2>1 DEF Roots
  <2> QED BY <2>1, <2>2, QueryTyped
<1>8. ASSUME NEW key \in Keys, NEW version \in Versions \union {MaxVersion},
             NEW roots \in Roots, NewQueryFor(key, version, roots)
      PROVE  TypeOK'
  <2> DEFINE s == Get(key, version)
             schema == [key |-> key, version |-> s.version]
  <2>1. s \in Schema
    BY <1>1, <1>8, GetTyped DEF NewQueryFor
  <2>2. schema \in [key : Keys, version : Nat] /\ s.model \in Models
    BY <2>1 DEF Schema
  <2>3. /\ nodes # <<>> /\ \A n \in roots : Valid(nodes, s.model)[n]
        /\ MakesQuery(roots, s.model, schema, FALSE)
    BY <1>8 DEF NewQueryFor
  <2>4. roots # {} /\ roots \in SUBSET DOMAIN nodes
    BY <1>1, <2>3 DEF Roots
  <2> HIDE DEF schema, s
  <2> QED BY <2>2, <2>3, <2>4, QueryTyped
<1>11. ASSUME NEW roots \in Roots \union {{}}, NEW model \in Models \union {NoModel},
              ReceiveQuery(roots, model)
       PROVE  TypeOK'
  <2>1. (roots = {} <=> nodes = <<>>) /\ MakesQuery(roots, model, NoSchema, TRUE)
    BY <1>11 DEF ReceiveQuery
  <2>2. roots \in SUBSET DOMAIN nodes
    BY <1>1, <2>1 DEF Roots
  <2> QED BY <2>1, <2>2, QueryTyped
<1>9. ASSUME DropQuery PROVE TypeOK'
  BY <1>9 DEF DropQuery, TypeOK, DirectoryTypeOK, Grows
<1>10. ASSUME UNCHANGED vars PROVE TypeOK'
  BY <1>10 DEF vars, TypeOK, DirectoryTypeOK, Grows, QueryValid, Queries, Expressions
<1> QED
  BY <1>2, <1>3, <1>4, <1>5, <1>6, <1>7, <1>8, <1>9, <1>10, <1>11 DEF Next

\* Expressions are made of earlier ones, whoever made them, and a query that the
\* program builds itself is valid, for any models and constraints; of one that
\* it receives this is not said (schema.hpp:784-912).
THEOREM TypeCorrect == Spec => []TypeOK
BY InitTyped, NextTyped, PTL DEF Spec

\* Whatever is added, get keeps answering for a version that is there as it did
\* (schema.hpp:980-1002).
THEOREM GetsAreStable == Spec => GetIsStable
<1> DEFINE A == \A key \in Keys, version \in Versions :
                  Firsts(schemas[key], version) # {}
                    => Get(key, version)' = Get(key, version)
<1>1. TypeOK /\ [Next]_vars => [A]_schemas
  <2> SUFFICES ASSUME TypeOK, [Next]_vars, schemas' # schemas PROVE A
    OBVIOUS
  <2>1. DirectoryTypeOK
    BY DEF TypeOK
  <2>2. PICK key \in Keys, version \in Versions \union {MaxVersion},
             model \in Models : Add(key, version, model)
    BY DEF Next, vars, AddSchema, Build, NewConstraint, Negate, Group,
           ReceiveGroup, MakesQuery, NewQuery, NewQueryFor, ReceiveQuery, DropQuery
  <2>3. PICK x \in Schema : schemas' = [schemas EXCEPT ![key] = Append(@, x)]
    BY <2>1, <2>2, AddAppends
  <2> QED BY <2>1, <2>3, AppendIsStable
<1> QED BY <1>1, TypeCorrect, PTL DEF Spec, GetIsStable

\* A version is found under its own number, and the last is the greatest, as
\* long as versions ascend (schema.hpp:988-1002).
LEMMA AscendingAreFound ==
  ASSUME DirectoryTypeOK PROVE VersionIsFound
<1> SUFFICES ASSUME NEW key \in Keys, Ascend(schemas[key]),
                    NEW i \in DOMAIN schemas[key]
             PROVE  /\ Get(key, schemas[key][i].version) = schemas[key][i]
                    /\ Get(key, MaxVersion).version >= schemas[key][i].version
  BY DEF VersionIsFound
<1> DEFINE s == schemas[key]
           v == s[i].version
<1>1. s \in Seq(Schema)
  BY DEF DirectoryTypeOK
<1>2. DOMAIN s = 1..Len(s) /\ Len(s) \in Nat /\ i \in 1..Len(s)
  BY <1>1
<1>3. \A j \in DOMAIN s : s[j] \in Schema /\ s[j].version \in Nat
  <2>1. \A j \in DOMAIN s : s[j] \in Schema
    BY <1>1
  <2> QED BY <2>1 DEF Schema
<1>4. \A j, k \in DOMAIN s : j < k => s[j].version < s[k].version
  BY DEF Ascend
<1> HIDE DEF s
<1>5. Firsts(s, v) = {i}
  <2>1. i \in Firsts(s, v)
    <3>1. \A j \in 1..(i - 1) : s[j].version < v
      BY <1>2, <1>4
    <3>2. s[i].version >= v
      BY <1>2, <1>3
    <3> QED BY <1>2, <3>1, <3>2 DEF Firsts
  <2>2. ASSUME NEW j \in Firsts(s, v) PROVE j = i
    <3>1. /\ j \in 1..Len(s) /\ s[j].version >= v
          /\ \A k \in 1..(j - 1) : s[k].version < v
      BY <1>2, <2>2 DEF Firsts
    <3>2. ~(i < j)
      <4>1. SUFFICES ASSUME i < j PROVE FALSE
        OBVIOUS
      <4>2. i \in 1..(j - 1)
        BY <1>2, <3>1, <4>1
      <4> QED BY <1>2, <1>3, <3>1, <4>2
    <3>3. ~(j < i)
      <4>1. SUFFICES ASSUME j < i PROVE FALSE
        OBVIOUS
      <4>2. s[j].version < v /\ s[j].version \in Nat /\ v \in Nat
        BY <1>2, <1>3, <1>4, <3>1, <4>1
      <4> QED BY <3>1, <4>2
    <3> QED BY <1>2, <3>1, <3>2, <3>3
  <2> QED BY <2>1, <2>2
<1>6. v \in Nat /\ v # MaxVersion
  BY <1>2, <1>3, VersionsAssumption
<1>7. (CHOOSE j \in Firsts(s, v) : TRUE) = i /\ Firsts(s, v) # {}
  BY <1>5
<1>8. Find(s, v) = s[i]
  BY <1>6, <1>7 DEF Find
<1>9. s[Len(s)].version >= v
  <2>1. CASE i = Len(s)
    BY <1>2, <1>3, <2>1
  <2>2. CASE i < Len(s)
    <3>1. Len(s) \in DOMAIN s
      BY <1>2
    <3>2. v < s[Len(s)].version /\ v \in Nat /\ s[Len(s)].version \in Nat
      BY <1>2, <1>3, <1>4, <2>2, <3>1
    <3> QED BY <3>2
  <2> QED BY <1>2, <2>1, <2>2
<1>10. Find(s, MaxVersion).version >= v
  BY <1>9 DEF Find, Back
<1> QED BY <1>8, <1>10 DEF Get, s

THEOREM VersionsAreFound == Spec => []VersionIsFound
<1>1. TypeOK => VersionIsFound
  BY AscendingAreFound DEF TypeOK
<1> QED BY <1>1, TypeCorrect, PTL

-------------------------------------------------------------------------------
(* Instances *)

\* Counting the required attributes that have a value is the same as asking
\* whether each has one.
LEMMA CountingIsEnough ==
  ASSUME NEW S, NEW T, IsFiniteSet(S), IsFiniteSet(T)
  PROVE  Cardinality({a \in T : a \in S}) = Cardinality(S) <=> S \subseteq T
<1> DEFINE B == {a \in T : a \in S}
<1>1. B \in SUBSET S
  OBVIOUS
<1>2. Cardinality(S) = Cardinality(B) => S = B
  BY <1>1, FS_Subset
<1>3. S \subseteq T => B = S
  OBVIOUS
<1>4. S = B => S \subseteq T
  OBVIOUS
<1> HIDE DEF B
<1>5. Cardinality(B) = Cardinality(S) <=> S \subseteq T
  BY <1>2, <1>3, <1>4
<1> QED BY <1>5 DEF B

LEMMA AcceptsIsConforming ==
  ASSUME NEW model, NEW v,
         IsFiniteSet(DOMAIN model.attributes), IsFiniteSet(DOMAIN v)
  PROVE  Accepts(model, v) <=>
           Instantiates(model, v) /\ DOMAIN v \subseteq DOMAIN model.attributes
<1> DEFINE S == Required(model)
           T == DOMAIN v
           D == DOMAIN model.attributes
           typed == \A a \in T : a \in D /\ v[a].type = model.attributes[a].type
<1>1. S \subseteq D /\ IsFiniteSet(S)
  BY FS_Subset DEF Required
<1>2. Cardinality({a \in T : a \in S}) = Cardinality(S) <=> S \subseteq T
  BY <1>1, CountingIsEnough
<1>3. typed /\ S \subseteq T => /\ Cardinality(T) <= Cardinality(D)
                              /\ Cardinality(S) <= Cardinality(T)
  <2>1. typed => T \in SUBSET D
    OBVIOUS
  <2>2. T \in SUBSET D => Cardinality(T) <= Cardinality(D)
    BY FS_Subset
  <2>3. S \subseteq T => Cardinality(S) <= Cardinality(T)
    BY FS_Subset
  <2> QED BY <2>1, <2>2, <2>3
<1>4. Cardinality(S) \in Nat /\ Cardinality(T) \in Nat
  BY <1>1, FS_CardinalityType
<1>5. Accepts(model, v) <=> typed /\ S \subseteq T
  BY <1>2, <1>3, <1>4 DEF Accepts
<1>6. Instantiates(model, v) /\ T \subseteq D <=> typed /\ S \subseteq T
  BY DEF Instantiates, Required
<1> QED BY <1>5, <1>6

\* The constructor that counts takes what instantiate does not throw for, for
\* any data models and values (schema.hpp:118-131, 520-587).
THEOREM ConstructorIsExact == Spec => []InstancesAreComplete
<1>1. TypeOK => InstancesAreComplete
  <2> SUFFICES ASSUME TypeOK, NEW key \in Keys,
                      NEW i \in DOMAIN schemas[key], NEW w \in Values
               PROVE  LET model == schemas[key][i].model
                          v == FromWire(w)
                      IN  Accepts(model, v) <=>
                            /\ Instantiates(model, v)
                            /\ DOMAIN v \subseteq DOMAIN model.attributes
    BY DEF InstancesAreComplete, Received
  <2> DEFINE model == schemas[key][i].model
             v == FromWire(w)
  <2>1. schemas[key][i] \in Schema
    BY DEF TypeOK, DirectoryTypeOK
  <2>2. model \in Models
    BY <2>1 DEF Schema
  <2>3. DOMAIN v \subseteq DOMAIN w
    BY DEF FromWire
  <2>4. IsFiniteSet(DOMAIN model.attributes) /\ IsFiniteSet(DOMAIN v)
    BY <2>2, <2>3, FinitelyMany, FS_Subset
  <2> HIDE DEF model, v
  <2>5. Accepts(model, v) <=>
          Instantiates(model, v) /\ DOMAIN v \subseteq DOMAIN model.attributes
    BY <2>4, AcceptsIsConforming
  <2> QED BY <2>5 DEF model, v
<1> QED BY <1>1, TypeCorrect, PTL

-------------------------------------------------------------------------------
(* What a constraint says of a value it is clear about *)

LEMMA CarrierOf ==
  ASSUME NEW t \in Types, NEW x \in Carrier(t)
  PROVE  /\ t = "Location" => x \in [lon : Int, lat : Int]
         /\ t # "Location" /\ x # NaN => x \in Int
         /\ t = "Int" => x \in Int
BY DEF Carrier, Types

LEMMA NarrowIsInt == ASSUME NEW i \in Int PROVE Narrow(i) \in Int
<1>1. Half \in Int /\ 2 * Half \in Nat /\ 2 * Half > 0
  BY HalfAssumption
<1> QED BY <1>1 DEF Narrow

\* The values of an instance that is received are typed.
LEMMA ReceivedTyped ==
  ASSUME NEW w \in Values, NEW a \in DOMAIN FromWire(w)
  PROVE  \E t \in Types : FromWire(w)[a] \in ValuesOf(t)
<1>1. a \in DOMAIN w /\ w[a].type # "not_set"
  BY DEF FromWire
<1>2. PICK t \in Types : w[a] \in ValuesOf(t)
  <2>1. PICK t \in WireTypes : w[a] \in ValuesOf(t)
    BY <1>1, Typing
  <2>2. w[a].type = t
    BY <2>1 DEF ValuesOf
  <2> QED BY <1>1, <2>1, <2>2 DEF WireTypes
<1>3. w[a].type = t /\ w[a].val \in Carrier(t)
  BY <1>2 DEF ValuesOf
<1>4. CASE t = "Int"
  <2>1. w[a].val \in Int /\ Narrow(w[a].val) \in Int
    BY <1>3, <1>4, CarrierOf, NarrowIsInt
  <2>2. FromWire(w)[a] = [w[a] EXCEPT !.val = Narrow(@)]
    BY <1>1, <1>3, <1>4 DEF FromWire
  <2>3. Narrow(w[a].val) \in Carrier(t)
    BY <2>1, <1>4 DEF Carrier
  <2> QED BY <1>2, <2>2, <2>3 DEF ValuesOf
<1>5. CASE t # "Int"
  <2>1. FromWire(w)[a] = w[a]
    BY <1>1, <1>3, <1>5 DEF FromWire
  <2> QED BY <1>2, <2>1
<1> QED BY <1>4, <1>5

\* A constraint of the pool is of one kind and of a type.
LEMMA PoolTyped ==
  ASSUME NEW c \in ConstraintPool
  PROVE  /\ c.kind \in {"relation", "set", "range", "distance"}
         /\ c.type \in WireTypes
         /\ c.kind = "relation" => c \in Relations(c.type)
         /\ c.kind = "set" => c \in Sets(c.type)
         /\ c.kind = "range" => c \in Ranges(c.type)
         /\ c.kind = "distance" => c \in Distances /\ c.type = "Location"
<1>1. IsConstraint(c)
  BY Typing
<1>2. CASE c \in Distances
  BY <1>2 DEF Distances, WireTypes, Types
<1>3. ASSUME NEW t \in WireTypes, c \in Relations(t)
      PROVE  c.kind = "relation" /\ c.type = t
  BY <1>3 DEF Relations
<1>4. ASSUME NEW t \in WireTypes, c \in Sets(t)
      PROVE  c.kind = "set" /\ c.type = t
  BY <1>4 DEF Sets
<1>5. ASSUME NEW t \in WireTypes, c \in Ranges(t)
      PROVE  c.kind = "range" /\ c.type = t
  BY <1>5 DEF Ranges
<1> QED BY <1>1, <1>2, <1>3, <1>4, <1>5 DEF IsConstraint

LEMMA RelationSays ==
  ASSUME NEW t \in Types, NEW rel \in Relations(t), NEW x \in ValuesOf(t),
         NaN # rel.val, NaN # x.val, t = "Int" => Fits(rel.val),
         RelationValid(rel, t)
  PROVE  /\ rel.op = "EQ" => (RelationCheck(rel, x) <=> x.val = rel.val)
         /\ rel.op = "NOTEQ" => (RelationCheck(rel, x) <=> x.val # rel.val)
         /\ rel.op \notin {"EQ", "NOTEQ"} =>
              /\ t # "Location" /\ x.val \in Int /\ rel.val \in Int
              /\ rel.op = "LT" => (RelationCheck(rel, x) <=> x.val < rel.val)
              /\ rel.op = "LTEQ" => (RelationCheck(rel, x) <=> x.val <= rel.val)
              /\ rel.op = "GT" => (RelationCheck(rel, x) <=> x.val > rel.val)
              /\ rel.op = "GTEQ" => (RelationCheck(rel, x) <=> x.val >= rel.val)
<1>1. /\ rel.type = t /\ rel.val \in Carrier(t)
      /\ rel.op \in {"EQ", "NOTEQ", "LT", "LTEQ", "GT", "GTEQ"}
  BY DEF Relations
<1>2. x.type = t /\ x.val \in Carrier(t)
  BY DEF ValuesOf
<1>3. RelationGet(rel, x.type) = rel.val
  BY <1>1, <1>2 DEF RelationGet, Fits
<1>4. CASE rel.op = "EQ"
  BY <1>3, <1>4 DEF RelationCheck, Equal
<1>5. CASE rel.op = "NOTEQ"
  BY <1>3, <1>5 DEF RelationCheck, Equal
<1>6. CASE rel.op \notin {"EQ", "NOTEQ"}
  <2>1. t # "Location"
    BY <1>6 DEF RelationValid
  <2>2. x.val \in Int /\ rel.val \in Int
    BY <1>1, <1>2, <2>1, CarrierOf
  <2> QED BY <1>1, <1>2, <1>3, <1>6, <2>1, <2>2
       DEF RelationCheck, Less, AtMost
<1> QED BY <1>4, <1>5, <1>6

LEMMA SetSays ==
  ASSUME NEW t \in Types, NEW set \in Sets(t), NEW x \in ValuesOf(t),
         NaN # x.val
  PROVE  /\ set.op = "IN" => (SetCheck(set, x) <=> x.val \in set.vals)
         /\ set.op = "NOTIN" => (SetCheck(set, x) <=> x.val \notin set.vals)
         /\ set.op \in {"IN", "NOTIN"}
<1>1. set.type = t /\ x.type = t /\ set.op \in {"IN", "NOTIN"}
  BY DEF Sets, ValuesOf
<1> QED BY <1>1 DEF SetCheck, Equal

LEMMA RangeSays ==
  ASSUME NEW t \in Types, NEW range \in Ranges(t), NEW x \in ValuesOf(t),
         NaN \notin {range.first, range.second, x.val}, t # "Bool"
  PROVE  /\ t # "Location" =>
              /\ range.first \in Int /\ range.second \in Int /\ x.val \in Int
              /\ RangeCheck(range, x) <=>
                   range.first <= x.val /\ x.val <= range.second
         /\ t = "Location" =>
              /\ range.first \in [lon : Int, lat : Int]
              /\ range.second \in [lon : Int, lat : Int]
              /\ x.val \in [lon : Int, lat : Int]
<1>1. /\ range.type = t /\ x.type = t /\ range.first \in Carrier(t)
      /\ range.second \in Carrier(t) /\ x.val \in Carrier(t)
  BY DEF Ranges, ValuesOf
<1>2. CASE t # "Location"
  <2>1. range.first \in Int /\ range.second \in Int /\ x.val \in Int
    BY <1>1, <1>2, CarrierOf
  <2> QED BY <1>1, <1>2, <2>1 DEF RangeCheck, AtMost
<1>3. CASE t = "Location"
  BY <1>1, <1>3, CarrierOf
<1> QED BY <1>2, <1>3

LEMMA CheckByKind ==
  ASSUME NEW c, NEW v, c.attribute \in DOMAIN v
  PROVE  /\ c.kind = "relation" =>
              (ConstraintCheck(c, v) <=> RelationCheck(c, v[c.attribute]))
         /\ c.kind = "set" =>
              (ConstraintCheck(c, v) <=> SetCheck(c, v[c.attribute]))
         /\ c.kind = "range" =>
              (ConstraintCheck(c, v) <=> RangeCheck(c, v[c.attribute]))
BY DEF ConstraintCheck

\* What Clear gives, for each kind of constraint.
LEMMA ClearSays ==
  ASSUME NEW c \in ConstraintPool, NEW w \in Values, Clear(c, FromWire(w))
  PROVE  /\ c.attribute \in DOMAIN FromWire(w) /\ c.type \in Types
         /\ FromWire(w)[c.attribute] \in ValuesOf(c.type)
         /\ NaN # FromWire(w)[c.attribute].val
         /\ c.kind = "relation" =>
              /\ RelationValid(c, c.type) /\ NaN # c.val
              /\ c.type = "Int" => Fits(c.val)
         /\ c.kind = "range" =>
              /\ NaN # c.first /\ NaN # c.second /\ c.type # "Bool"
              /\ c.type = "Int" => Fits(c.first) /\ Fits(c.second)
<1> DEFINE v == FromWire(w)
           x == v[c.attribute]
<1>1. c.attribute \in DOMAIN v /\ NaN \notin Numbers(c) \union {x.val}
  BY DEF Clear
<1>2. c.type = x.type /\ (c.kind = "relation" => RelationValid(c, x.type))
  BY DEF Clear, Typed
<1>3. c.type = "Int" => \A i \in Numbers(c) : Fits(i)
  BY DEF Clear
<1>4. ~(c.kind = "range" /\ c.type = "Bool")
  BY DEF Clear
<1>5. x \in ValuesOf(c.type) /\ c.type \in Types
  <2>1. PICK t \in Types : x \in ValuesOf(t)
    BY <1>1, ReceivedTyped
  <2>2. x.type = t
    BY <2>1 DEF ValuesOf
  <2> QED BY <2>1, <2>2, <1>2
<1> HIDE DEF v, x
<1>6. c.kind = "relation" => Numbers(c) = {c.val}
  BY DEF Numbers
<1>7. c.kind = "range" => Numbers(c) = {c.first, c.second}
  BY DEF Numbers
<1>8. c.kind = "relation" =>
        /\ RelationValid(c, c.type) /\ NaN # c.val
        /\ c.type = "Int" => Fits(c.val)
  BY <1>1, <1>2, <1>3, <1>6
<1>9. c.kind = "range" =>
        /\ NaN # c.first /\ NaN # c.second /\ c.type # "Bool"
        /\ c.type = "Int" => Fits(c.first) /\ Fits(c.second)
  BY <1>1, <1>3, <1>4, <1>7
<1> QED BY <1>1, <1>5, <1>8, <1>9 DEF v, x

\* A relation made for a range is a relation of its type.
LEMMA CompareIsClear ==
  ASSUME NEW c \in ConstraintPool, NEW w \in Values, Clear(c, FromWire(w)),
         c.kind = "range", c.type # "Location", NEW val \in {c.first, c.second},
         NEW op \in {"LT", "LTEQ", "GT", "GTEQ"}
  PROVE  LET v == FromWire(w)
             x == v[c.attribute]
         IN  /\ x.val \in Int /\ val \in Int
             /\ op = "LT" =>
                  (ConstraintCheck(Compare(c, op, val), v) <=> x.val < val)
             /\ op = "LTEQ" =>
                  (ConstraintCheck(Compare(c, op, val), v) <=> x.val <= val)
             /\ op = "GT" =>
                  (ConstraintCheck(Compare(c, op, val), v) <=> x.val > val)
             /\ op = "GTEQ" =>
                  (ConstraintCheck(Compare(c, op, val), v) <=> x.val >= val)
<1> DEFINE v == FromWire(w)
           x == v[c.attribute]
           t == c.type
           rel == Compare(c, op, val)
<1>1. c \in Ranges(t) /\ t \in Types
  BY PoolTyped, ClearSays
<1>2. /\ c.attribute \in DOMAIN v /\ x \in ValuesOf(t) /\ NaN # x.val
      /\ NaN # val /\ t # "Bool" /\ (t = "Int" => Fits(val))
  BY ClearSays
<1>3. /\ rel.kind = "relation" /\ rel.attribute = c.attribute
      /\ rel.type = t /\ rel.op = op /\ rel.val = val
  BY DEF Compare
<1>4. rel \in Relations(t)
  <2>1. val \in Carrier(t) /\ c.attribute \in Attributes
    BY <1>1 DEF Ranges
  <2> QED BY <2>1 DEF Compare, Relations
<1>5. RelationValid(rel, t)
  BY <1>2, <1>3 DEF RelationValid
<1>6. ConstraintCheck(rel, v) <=> RelationCheck(rel, x)
  <2> HIDE DEF rel, v
  <2>1. ConstraintCheck(rel, v) <=> RelationCheck(rel, v[rel.attribute])
    BY <1>2, <1>3, CheckByKind
  <2> QED BY <2>1, <1>3
<1> HIDE DEF rel, x, v
<1>7. /\ op \notin {"EQ", "NOTEQ"}
      /\ op \notin {"EQ", "NOTEQ"} =>
           /\ t # "Location" /\ x.val \in Int /\ val \in Int
           /\ op = "LT" => (RelationCheck(rel, x) <=> x.val < val)
           /\ op = "LTEQ" => (RelationCheck(rel, x) <=> x.val <= val)
           /\ op = "GT" => (RelationCheck(rel, x) <=> x.val > val)
           /\ op = "GTEQ" => (RelationCheck(rel, x) <=> x.val >= val)
  <2> HIDE DEF t
  <2> QED BY <1>1, <1>2, <1>3, <1>4, <1>5, RelationSays
<1>8. /\ x.val \in Int /\ val \in Int
      /\ op = "LT" => (ConstraintCheck(rel, v) <=> x.val < val)
      /\ op = "LTEQ" => (ConstraintCheck(rel, v) <=> x.val <= val)
      /\ op = "GT" => (ConstraintCheck(rel, v) <=> x.val > val)
      /\ op = "GTEQ" => (ConstraintCheck(rel, v) <=> x.val >= val)
  BY <1>6, <1>7
<1> QED BY <1>8 DEF rel, x, v

LEMMA OneValue ==
  ASSUME NEW c \in ConstraintPool, NEW w \in Values, Clear(c, FromWire(w)),
         c.kind = "relation", c.op = "EQ"
  PROVE  LET v == FromWire(w)
         IN  /\ ConstraintCheck(c, v) <=> ConstraintCheck(SetOf(c, c.val), v)
             /\ c.type # "Bool" =>
                  (ConstraintCheck(c, v)
                     <=> ConstraintCheck(RangeOf(c, c.val, c.val), v))
<1> DEFINE v == FromWire(w)
           x == v[c.attribute]
           t == c.type
           set == SetOf(c, c.val)
           range == RangeOf(c, c.val, c.val)
<1>1. /\ c \in Relations(t) /\ t \in Types
      /\ c.val \in Carrier(t) /\ c.attribute \in Attributes
  BY PoolTyped, ClearSays DEF Relations
<1>2. /\ c.attribute \in DOMAIN v /\ x \in ValuesOf(t) /\ NaN # x.val
      /\ NaN # c.val /\ (t = "Int" => Fits(c.val)) /\ RelationValid(c, t)
  BY ClearSays
<1>3. /\ set.kind = "set" /\ set.attribute = c.attribute /\ set.op = "IN"
      /\ set.vals = {c.val}
      /\ range.kind = "range" /\ range.attribute = c.attribute
      /\ range.type = t /\ range.first = c.val /\ range.second = c.val
  BY DEF SetOf, RangeOf
<1>4. set \in Sets(t) /\ range \in Ranges(t)
  <2>1. {c.val} \in SUBSET Carrier(t)
    BY <1>1
  <2> QED BY <1>1, <2>1 DEF SetOf, RangeOf, Sets, Ranges
<1> HIDE DEF set, range, v, x, t
<1>5. ConstraintCheck(c, v) <=> x.val = c.val
  <2>1. ConstraintCheck(c, v) <=> RelationCheck(c, x)
    BY <1>2, CheckByKind DEF x
  <2>2. RelationCheck(c, x) <=> x.val = c.val
    BY <1>1, <1>2, RelationSays
  <2> QED BY <2>1, <2>2
<1>6. ConstraintCheck(set, v) <=> x.val = c.val
  <2>1. ConstraintCheck(set, v) <=> SetCheck(set, x)
    BY <1>2, <1>3, CheckByKind DEF x
  <2>2. SetCheck(set, x) <=> x.val \in set.vals
    BY <1>1, <1>2, <1>3, <1>4, SetSays
  <2> QED BY <2>1, <2>2, <1>3
<1>7. ASSUME t # "Bool" PROVE ConstraintCheck(range, v) <=> x.val = c.val
  <2>1. ConstraintCheck(range, v) <=> RangeCheck(range, x)
    BY <1>2, <1>3, CheckByKind DEF x
  <2>2. /\ t # "Location" =>
             /\ c.val \in Int /\ x.val \in Int
             /\ RangeCheck(range, x) <=> c.val <= x.val /\ x.val <= c.val
        /\ t = "Location" =>
             c.val \in [lon : Int, lat : Int] /\ x.val \in [lon : Int, lat : Int]
    BY <1>1, <1>2, <1>3, <1>4, <1>7, RangeSays
  <2>3. CASE t # "Location"
    BY <2>1, <2>2, <2>3
  <2>4. CASE t = "Location"
    <3>1. x.type = "Location"
      BY <1>2, <2>4 DEF ValuesOf
    <3>2. RangeCheck(range, x) <=>
            x.val.lat = c.val.lat /\ x.val.lon = c.val.lon
      BY <1>3, <2>2, <2>4, <3>1 DEF RangeCheck
    <3>3. x.val.lat = c.val.lat /\ x.val.lon = c.val.lon => x.val = c.val
      BY <2>2, <2>4
    <3> QED BY <2>1, <3>2, <3>3
  <2> QED BY <2>3, <2>4
<1> QED BY <1>5, <1>6, <1>7 DEF set, range, v, t

LEMMA BetweenTwo ==
  ASSUME NEW c \in ConstraintPool, NEW w \in Values, Clear(c, FromWire(w)),
         c.kind = "range"
  PROVE  LET v == FromWire(w)
             x == v[c.attribute]
         IN  /\ c.type # "Location" =>
                  /\ c.first \in Int /\ c.second \in Int /\ x.val \in Int
                  /\ ConstraintCheck(c, v) <=>
                       c.first <= x.val /\ x.val <= c.second
             /\ c.type = "Location" =>
                  (ConstraintCheck(c, v)
                     <=> ConstraintCheck(RangeOf(c, c.second, c.first), v))
<1> DEFINE v == FromWire(w)
           x == v[c.attribute]
           t == c.type
           range == RangeOf(c, c.second, c.first)
<1>1. c \in Ranges(t) /\ t \in Types
  BY PoolTyped, ClearSays
<1>2. /\ c.attribute \in DOMAIN v /\ x \in ValuesOf(t) /\ NaN # x.val
      /\ NaN # c.first /\ NaN # c.second /\ t # "Bool"
  BY ClearSays
<1>3. /\ range.kind = "range" /\ range.attribute = c.attribute
      /\ range.type = t /\ range.first = c.second /\ range.second = c.first
  BY DEF RangeOf
<1> HIDE DEF range, v, x, t
<1>4. /\ ConstraintCheck(c, v) <=> RangeCheck(c, x)
      /\ ConstraintCheck(range, v) <=> RangeCheck(range, x)
  BY <1>2, <1>3, CheckByKind DEF x
<1>5. /\ t # "Location" =>
           /\ c.first \in Int /\ c.second \in Int /\ x.val \in Int
           /\ RangeCheck(c, x) <=> c.first <= x.val /\ x.val <= c.second
      /\ t = "Location" =>
           /\ c.first \in [lon : Int, lat : Int]
           /\ c.second \in [lon : Int, lat : Int]
           /\ x.val \in [lon : Int, lat : Int]
  BY <1>1, <1>2, RangeSays
<1>6. ASSUME t = "Location" PROVE RangeCheck(c, x) <=> RangeCheck(range, x)
  <2>1. x.type = "Location" /\ c.type = "Location"
    BY <1>2, <1>6 DEF ValuesOf, t
  <2> QED BY <1>3, <1>6, <2>1 DEF RangeCheck
<1> QED BY <1>4, <1>5, <1>6 DEF range, v, x, t

\* Three ways to ask for one value, and two to ask for the values between two,
\* have the same answer for any constraint and any value it is clear about,
\* however wide an int is (schema.hpp:180, 308, 441).
THEOREM OneAnswerForOneQuestion == Spec => []SameQuestionSameAnswer
<1>1. TypeOK => SameQuestionSameAnswer
  <2> SUFFICES ASSUME TypeOK, NEW n \in DOMAIN nodes, NEW w \in Values,
                      nodes[n].kind = "constraint",
                      Clear(nodes[n].is, FromWire(w))
               PROVE  LET c == nodes[n].is
                          v == FromWire(w)
                      IN
          /\ (c.kind = "relation" /\ c.op = "EQ") =>
               /\ ConstraintCheck(c, v) <=> ConstraintCheck(SetOf(c, c.val), v)
               /\ c.type # "Bool" =>
                    (ConstraintCheck(c, v)
                       <=> ConstraintCheck(RangeOf(c, c.val, c.val), v))
          /\ (c.kind = "range" /\ c.type # "Location") =>
               (ConstraintCheck(c, v)
                  <=> /\ ConstraintCheck(Compare(c, "GTEQ", c.first), v)
                      /\ ConstraintCheck(Compare(c, "LTEQ", c.second), v))
          /\ (c.kind = "range" /\ c.type = "Location") =>
               (ConstraintCheck(c, v)
                  <=> ConstraintCheck(RangeOf(c, c.second, c.first), v))
    BY DEF SameQuestionSameAnswer, Received
  <2> DEFINE c == nodes[n].is
             v == FromWire(w)
  <2>1. c \in ConstraintPool
    <3>1. nodes[n] \in Expressions
      BY DEF TypeOK
    <3> QED BY <3>1 DEF Expressions
  <2> HIDE DEF c
  <2>2. (c.kind = "relation" /\ c.op = "EQ") =>
          /\ ConstraintCheck(c, v) <=> ConstraintCheck(SetOf(c, c.val), v)
          /\ c.type # "Bool" =>
               (ConstraintCheck(c, v)
                  <=> ConstraintCheck(RangeOf(c, c.val, c.val), v))
    BY <2>1, OneValue DEF c
  <2>3. ASSUME c.kind = "range", c.type # "Location"
        PROVE  ConstraintCheck(c, v)
                 <=> /\ ConstraintCheck(Compare(c, "GTEQ", c.first), v)
                     /\ ConstraintCheck(Compare(c, "LTEQ", c.second), v)
    <3>1. Clear(c, v)
      BY DEF c
    <3> DEFINE x == v[c.attribute]
    <3>2. /\ c.first \in Int /\ c.second \in Int /\ x.val \in Int
          /\ ConstraintCheck(c, v) <=> c.first <= x.val /\ x.val <= c.second
      BY <2>1, <2>3, <3>1, BetweenTwo
    <3>3. ConstraintCheck(Compare(c, "GTEQ", c.first), v) <=> x.val >= c.first
      BY <2>1, <2>3, <3>1, CompareIsClear
    <3>4. ConstraintCheck(Compare(c, "LTEQ", c.second), v) <=> x.val <= c.second
      BY <2>1, <2>3, <3>1, CompareIsClear
    <3> QED BY <3>2, <3>3, <3>4
  <2>4. (c.kind = "range" /\ c.type = "Location") =>
          (ConstraintCheck(c, v)
             <=> ConstraintCheck(RangeOf(c, c.second, c.first), v))
    BY <2>1, BetweenTwo DEF c
  <2> QED BY <2>2, <2>3, <2>4 DEF c
<1> QED BY <1>1, TypeCorrect, PTL

-------------------------------------------------------------------------------
(* Recursion over the nodes of an expression: Check, Valid, Leaves and Meaning
   are defined at a node by what they are at earlier ones, so that they are
   what they are defined to be. *)

\* Every set of naturals that is not empty has a least member.
LEMMA LeastNat ==
  ASSUME NEW T, T \subseteq Nat, T # {}
  PROVE  \E x \in T : \A y \in T : x <= y
<1> DEFINE R == {ss \in Nat \X Nat : ss[1] < ss[2]}
<1>1. IsWellFoundedOn(R, Nat)
  BY NatLessThanWellFounded DEF OpToRel
<1>2. \A x, y \in Nat : y < x => <<y, x>> \in R
  OBVIOUS
<1> HIDE DEF R
<1>3. \E x \in T : \A y \in T : ~(<<y, x>> \in R)
  BY <1>1, WFMin
<1>4. PICK x \in T : \A y \in T : ~(<<y, x>> \in R)
  BY <1>3
<1>5. ASSUME NEW y \in T PROVE x <= y
  <2>1. x \in Nat /\ y \in Nat
    OBVIOUS
  <2>2. ~(y < x)
    BY <2>1, <1>4, <1>2
  <2> QED BY <2>1, <2>2
<1> QED BY <1>5

\* Two functions agree below n, and a step looks no further than that.
Agree(g, h, n) == \A m \in 1..(n - 1) : g[m] = h[m]
Causal(F, k, V) == \A n \in 1..k : \A g, h \in [1..k -> V] :
                     Agree(g, h, n) => F[n][g] = F[n][h]
Functional(F, k, V) ==
  F \in [1..k -> [[1..k -> V] -> V]] /\ Causal(F, k, V)
HasFixpoint(F, k, V) ==
  \E f \in [1..k -> V] : \A n \in 1..k : f[n] = F[n][f]

\* Such a step defines a function.
LEMMA Recursion ==
  ASSUME NEW k \in Nat, NEW V, V # {}, NEW F, Functional(F, k, V)
  PROVE  HasFixpoint(F, k, V)
<1>1. F \in [1..k -> [[1..k -> V] -> V]] /\ Causal(F, k, V)
  BY DEF Functional
<1>2. SUFFICES \E f \in [1..k -> V] : \A n \in 1..k : f[n] = F[n][f]
  BY DEF HasFixpoint
<1> DEFINE Upto(j) == \E f \in [1..k -> V] : \A n \in 1..j : f[n] = F[n][f]
           T == {j \in Nat : j <= k /\ ~Upto(j)}
<1>3. \A j : j \in T <=> j \in Nat /\ j <= k /\ ~Upto(j)
  OBVIOUS
<1>4. SUFFICES ASSUME T # {} PROVE FALSE
  <2>1. T = {} => Upto(k)
    <3> HIDE DEF T, Upto
    <3> QED BY <1>3
  <2> QED BY <2>1
<1>5. PICK j \in T : \A i \in T : j <= i
  BY <1>4, LeastNat
<1>6. j # 0
  <2>1. PICK x : x \in V
    OBVIOUS
  <2>2. [n \in 1..k |-> x] \in [1..k -> V]
    BY <2>1
  <2>3. 1..0 = {}
    OBVIOUS
  <2>4. Upto(0)
    BY <2>2, <2>3
  <2> QED BY <2>4
<1>7. j \in 1..k /\ j - 1 \in Nat /\ j - 1 <= k
  BY <1>6
<1>8. Upto(j - 1)
  <2> HIDE DEF T, Upto
  <2>1. j - 1 \in T => j <= j - 1
    BY <1>5
  <2> QED BY <2>1, <1>3, <1>7
<1>9. PICK f \in [1..k -> V] : \A n \in 1..(j - 1) : f[n] = F[n][f]
  BY <1>8
<1> DEFINE g == [f EXCEPT ![j] = F[j][f]]
<1>10. F[j][f] \in V
  BY <1>7, <1>1
<1>11. g \in [1..k -> V] /\ g[j] = F[j][f] /\ \A n \in 1..k : n # j => g[n] = f[n]
  BY <1>7, <1>10
<1> HIDE DEF g
<1>12. ASSUME NEW n \in 1..j PROVE g[n] = F[n][g]
  <2>1. n \in 1..k /\ \A m \in 1..(n - 1) : m \in 1..k /\ m # j
    BY <1>7
  <2>2. Agree(g, f, n)
    BY <2>1, <1>11 DEF Agree
  <2>3. F[n][g] = F[n][f]
    BY <2>1, <2>2, <1>11, <1>1 DEF Causal
  <2>4. CASE n = j
    BY <2>3, <2>4, <1>11
  <2>5. CASE n # j
    <3>1. n \in 1..(j - 1)
      BY <1>7, <2>5
    <3> QED BY <2>1, <2>3, <2>5, <3>1, <1>9, <1>11
  <2> QED BY <2>4, <2>5
<1>13. Upto(j)
  BY <1>11, <1>12
<1> QED BY <1>13

Formed(exprs) == exprs \in Seq(Expressions) /\ Grows(exprs)

LEMMA PartsAreEarlier ==
  ASSUME NEW exprs, Formed(exprs), NEW n \in DOMAIN exprs
  PROVE  /\ Len(exprs) \in Nat /\ DOMAIN exprs = 1..Len(exprs)
         /\ exprs[n].kind \in {"constraint", "not", "and", "or"}
         /\ exprs[n].kind = "constraint" => exprs[n].is \in ConstraintPool
         /\ exprs[n].kind = "not" => DOMAIN exprs[n].of = {1}
         /\ exprs[n].kind # "constraint" =>
              \A i \in DOMAIN exprs[n].of :
                exprs[n].of[i] \in 1..(n - 1) /\ exprs[n].of[i] \in DOMAIN exprs
<1>1. /\ exprs \in Seq(Expressions) /\ Len(exprs) \in Nat
      /\ DOMAIN exprs = 1..Len(exprs)
  BY DEF Formed
<1>2. exprs[n] \in Expressions
  BY <1>1
<1>3. \A i \in DOMAIN Of(exprs[n]) : Of(exprs[n])[i] \in 1..(n - 1)
  BY DEF Formed, Grows
<1>4. \A m \in 1..(n - 1) : m \in DOMAIN exprs
  BY <1>1
<1>5. /\ exprs[n].kind \in {"constraint", "not", "and", "or"}
      /\ exprs[n].kind = "constraint" => exprs[n].is \in ConstraintPool
      /\ exprs[n].kind = "not" => DOMAIN exprs[n].of = {1}
  BY <1>2 DEF Expressions
<1> QED BY <1>1, <1>3, <1>4, <1>5 DEF Of

CheckStep(exprs, v, n, check) ==
  LET e == exprs[n]
  IN  \/ e.kind = "constraint" /\ ConstraintCheck(e.is, v)
      \/ e.kind = "or"  /\ \E i \in DOMAIN e.of : check[e.of[i]]
      \/ e.kind = "and" /\ \A i \in DOMAIN e.of : check[e.of[i]]
      \/ e.kind = "not" /\ ~check[e.of[1]]

LEMMA CheckUnfolds ==
  ASSUME NEW exprs, Formed(exprs), NEW v
  PROVE  Check(exprs, v) = [n \in DOMAIN exprs |->
                              CheckStep(exprs, v, n, Check(exprs, v))]
<1> DEFINE k == Len(exprs)
           V == BOOLEAN
           F == [n \in 1..k |-> [g \in [1..k -> V] |->
                                  CheckStep(exprs, v, n, g)]]
<1>1. k \in Nat /\ DOMAIN exprs = 1..k
  BY DEF Formed
<1>2. \A n, g : CheckStep(exprs, v, n, g) \in BOOLEAN
  BY DEF CheckStep
<1>3. F \in [1..k -> [[1..k -> V] -> V]]
  BY <1>2
<1>4. ASSUME NEW n \in 1..k, NEW g, NEW h, Agree(g, h, n)
      PROVE  CheckStep(exprs, v, n, g) = CheckStep(exprs, v, n, h)
  <2>1. /\ exprs[n].kind = "not" => 1 \in DOMAIN exprs[n].of
        /\ exprs[n].kind # "constraint" =>
             \A i \in DOMAIN exprs[n].of : exprs[n].of[i] \in 1..(n - 1)
    BY <1>1, PartsAreEarlier
  <2>2. exprs[n].kind # "constraint" =>
          \A i \in DOMAIN exprs[n].of : g[exprs[n].of[i]] = h[exprs[n].of[i]]
    BY <2>1, <1>4 DEF Agree
  <2> QED BY <2>1, <2>2 DEF CheckStep
<1>5. Causal(F, k, V)
  BY <1>4 DEF Causal
<1>6. Functional(F, k, V)
  BY <1>3, <1>5 DEF Functional
<1> HIDE DEF F
<1>7. PICK f \in [1..k -> V] : \A n \in 1..k : f[n] = F[n][f]
  <2>1. V # {}
    OBVIOUS
  <2> HIDE DEF k, V
  <2>2. HasFixpoint(F, k, V)
    BY <1>1, <1>6, <2>1, Recursion
  <2> QED BY <2>2 DEF HasFixpoint
<1>8. f = [n \in DOMAIN exprs |-> CheckStep(exprs, v, n, f)]
  <2>1. \A n \in 1..k : F[n][f] = CheckStep(exprs, v, n, f)
    BY DEF F
  <2> QED BY <1>1, <1>7, <2>1
<1> DEFINE G == CHOOSE g : g = [n \in DOMAIN exprs |-> CheckStep(exprs, v, n, g)]
<1>9. G = [n \in DOMAIN exprs |-> CheckStep(exprs, v, n, G)]
  <2> HIDE DEF k
  <2> QED BY <1>8
<1>10. Check(exprs, v) = G
  BY DEF Check, CheckStep
<1> HIDE DEF G
<1> QED BY <1>9, <1>10

ValidStep(exprs, model, n, valid) ==
  LET e == exprs[n]
  IN  \/ e.kind = "constraint" /\ ConstraintValid(e.is, model)
      \/ e.kind = "not" /\ valid[e.of[1]]
      \/ /\ e.kind \in {"or", "and"}
         /\ \A i \in DOMAIN e.of : valid[e.of[i]]
         /\ Len(e.of) > 1

LEMMA ValidUnfolds ==
  ASSUME NEW exprs, Formed(exprs), NEW model
  PROVE  Valid(exprs, model) = [n \in DOMAIN exprs |->
                                  ValidStep(exprs, model, n, Valid(exprs, model))]
<1> DEFINE k == Len(exprs)
           V == BOOLEAN
           F == [n \in 1..k |-> [g \in [1..k -> V] |->
                                  ValidStep(exprs, model, n, g)]]
<1>1. k \in Nat /\ DOMAIN exprs = 1..k
  BY DEF Formed
<1>2. Functional(F, k, V)
  <2>1. \A n, g : ValidStep(exprs, model, n, g) \in BOOLEAN
    BY DEF ValidStep
  <2>2. F \in [1..k -> [[1..k -> V] -> V]]
    BY <2>1
  <2>3. ASSUME NEW n \in 1..k, NEW g, NEW h, Agree(g, h, n)
        PROVE  ValidStep(exprs, model, n, g) = ValidStep(exprs, model, n, h)
    <3>1. /\ exprs[n].kind = "not" => 1 \in DOMAIN exprs[n].of
          /\ exprs[n].kind # "constraint" =>
               \A i \in DOMAIN exprs[n].of : exprs[n].of[i] \in 1..(n - 1)
      BY <1>1, PartsAreEarlier
    <3>2. exprs[n].kind # "constraint" =>
            \A i \in DOMAIN exprs[n].of : g[exprs[n].of[i]] = h[exprs[n].of[i]]
      BY <3>1, <2>3 DEF Agree
    <3> QED BY <3>1, <3>2 DEF ValidStep
  <2>4. Causal(F, k, V)
    BY <2>3 DEF Causal
  <2> QED BY <2>2, <2>4 DEF Functional
<1> HIDE DEF F
<1>3. PICK f \in [1..k -> V] : \A n \in 1..k : f[n] = F[n][f]
  <2>1. V # {}
    OBVIOUS
  <2> HIDE DEF k, V
  <2>2. HasFixpoint(F, k, V)
    BY <1>1, <1>2, <2>1, Recursion
  <2> QED BY <2>2 DEF HasFixpoint
<1>4. f = [n \in DOMAIN exprs |-> ValidStep(exprs, model, n, f)]
  <2>1. \A n \in 1..k : F[n][f] = ValidStep(exprs, model, n, f)
    BY DEF F
  <2> QED BY <1>1, <1>3, <2>1
<1> DEFINE G == CHOOSE g : g = [n \in DOMAIN exprs |-> ValidStep(exprs, model, n, g)]
<1>5. G = [n \in DOMAIN exprs |-> ValidStep(exprs, model, n, G)]
  <2> HIDE DEF k
  <2> QED BY <1>4
<1>6. Valid(exprs, model) = G
  BY DEF Valid, ValidStep
<1> HIDE DEF G
<1> QED BY <1>5, <1>6

LeavesStep(exprs, n, leaves) ==
  IF exprs[n].kind = "constraint" THEN {exprs[n].is}
  ELSE UNION {leaves[exprs[n].of[i]] : i \in DOMAIN exprs[n].of}

\* The function that Leaves is made of.
LeavesOf(exprs) ==
  CHOOSE leaves : leaves = [n \in DOMAIN exprs |-> LeavesStep(exprs, n, leaves)]

LEMMA LeavesUnfold ==
  ASSUME NEW exprs, Formed(exprs)
  PROVE  /\ LeavesOf(exprs) = [n \in DOMAIN exprs |->
                                 LeavesStep(exprs, n, LeavesOf(exprs))]
         /\ \A roots : Leaves(exprs, roots) = UNION {LeavesOf(exprs)[n] : n \in roots}
<1> DEFINE k == Len(exprs)
           V == SUBSET ConstraintPool
           F == [n \in 1..k |-> [g \in [1..k -> V] |-> LeavesStep(exprs, n, g)]]
<1>1. k \in Nat /\ DOMAIN exprs = 1..k
  BY DEF Formed
<1>2. Functional(F, k, V)
  <2>1. ASSUME NEW n \in 1..k, NEW g \in [1..k -> V]
        PROVE  LeavesStep(exprs, n, g) \in V
    <3>1. /\ exprs[n].kind = "constraint" => exprs[n].is \in ConstraintPool
          /\ exprs[n].kind # "constraint" =>
               \A i \in DOMAIN exprs[n].of : exprs[n].of[i] \in 1..k
      BY <1>1, PartsAreEarlier
    <3>2. exprs[n].kind # "constraint" =>
            \A i \in DOMAIN exprs[n].of : g[exprs[n].of[i]] \in V
      BY <3>1
    <3> QED BY <3>1, <3>2 DEF LeavesStep
  <2>2. F \in [1..k -> [[1..k -> V] -> V]]
    <3> HIDE DEF V
    <3> QED BY <2>1
  <2>3. ASSUME NEW n \in 1..k, NEW g, NEW h, Agree(g, h, n)
        PROVE  LeavesStep(exprs, n, g) = LeavesStep(exprs, n, h)
    <3>1. exprs[n].kind # "constraint" =>
            \A i \in DOMAIN exprs[n].of : exprs[n].of[i] \in 1..(n - 1)
      BY <1>1, PartsAreEarlier
    <3>2. exprs[n].kind # "constraint" =>
            \A i \in DOMAIN exprs[n].of : g[exprs[n].of[i]] = h[exprs[n].of[i]]
      BY <3>1, <2>3 DEF Agree
    <3>3. exprs[n].kind # "constraint" =>
            {g[exprs[n].of[i]] : i \in DOMAIN exprs[n].of}
              = {h[exprs[n].of[i]] : i \in DOMAIN exprs[n].of}
      BY <3>2
    <3> QED BY <3>3 DEF LeavesStep
  <2>4. Causal(F, k, V)
    <3> HIDE DEF V
    <3> QED BY <2>3 DEF Causal
  <2> QED BY <2>2, <2>4 DEF Functional
<1> HIDE DEF F
<1>3. PICK f \in [1..k -> V] : \A n \in 1..k : f[n] = F[n][f]
  <2>1. V # {}
    OBVIOUS
  <2> HIDE DEF k, V
  <2>2. HasFixpoint(F, k, V)
    BY <1>1, <1>2, <2>1, Recursion
  <2> QED BY <2>2 DEF HasFixpoint
<1>4. f = [n \in DOMAIN exprs |-> LeavesStep(exprs, n, f)]
  <2> HIDE DEF V
  <2>1. \A n \in 1..k : F[n][f] = LeavesStep(exprs, n, f)
    BY DEF F
  <2> QED BY <1>1, <1>3, <2>1
<1>5. LeavesOf(exprs) = [n \in DOMAIN exprs |->
                           LeavesStep(exprs, n, LeavesOf(exprs))]
  <2> HIDE DEF k, V
  <2> QED BY <1>4 DEF LeavesOf
<1>6. \A roots : Leaves(exprs, roots) = UNION {LeavesOf(exprs)[n] : n \in roots}
  BY DEF Leaves, LeavesOf, LeavesStep
<1> QED BY <1>5, <1>6

LEMMA LeafOfAPart ==
  ASSUME NEW exprs, NEW n, NEW leaves, NEW c \in LeavesStep(exprs, n, leaves)
  PROVE  \/ exprs[n].kind = "constraint" /\ c = exprs[n].is
         \/ /\ exprs[n].kind # "constraint"
            /\ \E i \in DOMAIN exprs[n].of : c \in leaves[exprs[n].of[i]]
<1>1. CASE exprs[n].kind = "constraint"
  BY <1>1 DEF LeavesStep
<1>2. CASE exprs[n].kind # "constraint"
  <2>1. c \in UNION {leaves[exprs[n].of[i]] : i \in DOMAIN exprs[n].of}
    BY <1>2 DEF LeavesStep
  <2>2. \E i \in DOMAIN exprs[n].of : c \in leaves[exprs[n].of[i]]
    BY <2>1
  <2> QED BY <1>2, <2>2
<1> QED BY <1>1, <1>2

LEMMA LeavesAreOfThePool ==
  ASSUME NEW exprs, Formed(exprs), NEW n \in DOMAIN exprs
  PROVE  LeavesOf(exprs)[n] \subseteq ConstraintPool
<1> DEFINE leaves == LeavesOf(exprs)
           T == {m \in DOMAIN exprs : ~(leaves[m] \subseteq ConstraintPool)}
<1>1. \A m \in DOMAIN exprs : leaves[m] = LeavesStep(exprs, m, leaves)
  <2>1. leaves = [m \in DOMAIN exprs |-> LeavesStep(exprs, m, leaves)]
    BY LeavesUnfold
  <2> HIDE DEF leaves
  <2> QED BY <2>1
<1> HIDE DEF leaves
<1>2. SUFFICES ASSUME T # {} PROVE FALSE
  BY DEF leaves
<1>3. PICK m \in T : \A j \in T : m <= j
  <2>1. T \subseteq Nat
    BY DEF Formed
  <2> HIDE DEF T
  <2> QED BY <1>2, <2>1, LeastNat
<1>4. m \in DOMAIN exprs /\ m \in Nat /\ ~(leaves[m] \subseteq ConstraintPool)
  BY DEF Formed
<1>5. \A j \in DOMAIN exprs :
        j \in 1..(m - 1) => leaves[j] \subseteq ConstraintPool
  <2>1. \A j \in 1..(m - 1) : ~(m <= j)
    BY <1>4
  <2> QED BY <1>3, <2>1
<1>6. /\ exprs[m].kind = "constraint" => exprs[m].is \in ConstraintPool
      /\ exprs[m].kind # "constraint" =>
           \A i \in DOMAIN exprs[m].of :
             exprs[m].of[i] \in 1..(m - 1) /\ exprs[m].of[i] \in DOMAIN exprs
  BY <1>4, PartsAreEarlier
<1>7. PICK c \in leaves[m] : c \notin ConstraintPool
  BY <1>4
<1>8. c \in LeavesStep(exprs, m, leaves)
  BY <1>1, <1>4
<1>9. CASE exprs[m].kind = "constraint" /\ c = exprs[m].is
  BY <1>6, <1>7, <1>9
<1>10. ASSUME exprs[m].kind # "constraint",
              NEW i \in DOMAIN exprs[m].of, c \in leaves[exprs[m].of[i]]
       PROVE  FALSE
  BY <1>5, <1>6, <1>7, <1>10
<1> QED BY <1>8, <1>9, <1>10, LeafOfAPart


-------------------------------------------------------------------------------
(* Types are right where they are checked *)

\* What is valid is made of valid constraints.
LEMMA ValidToTheLeaves ==
  ASSUME NEW exprs, Formed(exprs), NEW model, NEW n \in DOMAIN exprs,
         Valid(exprs, model)[n]
  PROVE  \A c \in LeavesOf(exprs)[n] : ConstraintValid(c, model)
<1> DEFINE valid == Valid(exprs, model)
           leaves == LeavesOf(exprs)
           Bad(m) == valid[m] /\ \E c \in leaves[m] : ~ConstraintValid(c, model)
           T == {m \in DOMAIN exprs : Bad(m)}
<1>1. \A m \in DOMAIN exprs : /\ valid[m] <=> ValidStep(exprs, model, m, valid)
                              /\ leaves[m] = LeavesStep(exprs, m, leaves)
  <2>1. valid = [m \in DOMAIN exprs |-> ValidStep(exprs, model, m, valid)]
    BY ValidUnfolds
  <2>2. leaves = [m \in DOMAIN exprs |-> LeavesStep(exprs, m, leaves)]
    BY LeavesUnfold
  <2> HIDE DEF valid, leaves
  <2>3. \A m \in DOMAIN exprs : valid[m] <=> ValidStep(exprs, model, m, valid)
    BY <2>1
  <2>4. \A m \in DOMAIN exprs : leaves[m] = LeavesStep(exprs, m, leaves)
    BY <2>2
  <2> QED BY <2>3, <2>4
<1> HIDE DEF valid, leaves
<1>2. SUFFICES ASSUME T # {} PROVE FALSE
  BY DEF valid, leaves
<1>3. PICK m \in T : \A j \in T : m <= j
  <2>1. T \subseteq Nat
    BY DEF Formed
  <2> HIDE DEF T
  <2> QED BY <1>2, <2>1, LeastNat
<1>4. m \in DOMAIN exprs /\ m \in Nat /\ Bad(m)
  BY DEF Formed
<1>5. \A j \in DOMAIN exprs : j \in 1..(m - 1) => ~Bad(j)
  <2>1. \A j \in DOMAIN exprs : Bad(j) => j \in T
    OBVIOUS
  <2>2. \A j \in 1..(m - 1) : ~(m <= j)
    BY <1>4
  <2> HIDE DEF T, Bad
  <2> QED BY <1>3, <2>1, <2>2
<1> HIDE DEF T
<1>6. CASE exprs[m].kind = "constraint"
  BY <1>1, <1>4, <1>6 DEF ValidStep, LeavesStep
<1>7. CASE exprs[m].kind # "constraint"
  <2>1. PICK c \in leaves[m] : ~ConstraintValid(c, model)
    BY <1>4
  <2>2. PICK i \in DOMAIN exprs[m].of : c \in leaves[exprs[m].of[i]]
    <3>1. c \in LeavesStep(exprs, m, leaves)
      BY <1>1, <1>4, <2>1
    <3> QED BY <1>7, <3>1, LeafOfAPart
  <2> DEFINE j == exprs[m].of[i]
  <2>3. j \in 1..(m - 1) /\ j \in DOMAIN exprs
    BY <1>4, <1>7, PartsAreEarlier
  <2>4. valid[j]
    <3>1. exprs[m].kind = "not" => i = 1
      BY <1>4, PartsAreEarlier
    <3>2. ValidStep(exprs, model, m, valid)
      BY <1>1, <1>4
    <3> QED BY <1>7, <3>1, <3>2 DEF ValidStep
  <2> HIDE DEF j
  <2> QED BY <1>5, <2>1, <2>2, <2>3, <2>4 DEF j
<1> QED BY <1>6, <1>7

\* The schema a query was made for is still in the directory.
Known ==
  (query # NoQuery /\ query.schema # NoSchema) =>
    /\ ~query.received
    /\ \E i \in DOMAIN schemas[query.schema.key] :
         schemas[query.schema.key][i] = [version |-> query.schema.version,
                                         model |-> query.model]

\* What is found is there.
LEMMA GetIsThere ==
  ASSUME DirectoryTypeOK, NEW key \in Keys, Has(key),
         NEW version \in Versions \union {MaxVersion}
  PROVE  \E i \in DOMAIN schemas[key] : schemas[key][i] = Get(key, version)
<1> DEFINE s == schemas[key]
<1>1. s \in Seq(Schema) /\ s # <<>>
  BY DEF DirectoryTypeOK, Has
<1>2. Len(s) \in DOMAIN s
  BY <1>1
<1>3. CASE version = MaxVersion \/ Firsts(s, version) = {}
  BY <1>2, <1>3 DEF Get, Find, Back
<1>4. CASE ~(version = MaxVersion \/ Firsts(s, version) = {})
  <2> DEFINE i == CHOOSE j \in Firsts(s, version) : TRUE
  <2>1. i \in Firsts(s, version)
    BY <1>4
  <2>2. i \in DOMAIN s
    BY <2>1 DEF Firsts
  <2>3. Get(key, version) = s[i]
    BY <1>4 DEF Get, Find
  <2> HIDE DEF i
  <2> QED BY <2>2, <2>3
<1> QED BY <1>3, <1>4

LEMMA NextKnown == TypeOK /\ Known /\ [Next]_vars => Known'
<1> SUFFICES ASSUME TypeOK, Known, [Next]_vars,
                    query' # NoQuery, query'.schema # NoSchema
             PROVE  Known'
  BY DEF Known
<1>1. DirectoryTypeOK
  BY DEF TypeOK
<1>2. ASSUME UNCHANGED <<schemas, query>> PROVE Known'
  BY <1>2 DEF Known
<1>3. ASSUME NEW key \in Keys, NEW version \in Versions \union {MaxVersion},
             NEW model \in Models, AddSchema(key, version, model)
      PROVE  Known'
  <2>1. PICK x \in Schema : schemas' = [schemas EXCEPT ![key] = Append(@, x)]
    BY <1>1, <1>3, AddAppends DEF AddSchema
  <2>2. query' = query
    BY <1>3 DEF AddSchema
  <2> DEFINE k == query.schema.key
  <2>3. ASSUME query # NoQuery, query.schema # NoSchema
        PROVE  k \in Keys
    BY <2>3 DEF TypeOK, Queries
  <2>4. ASSUME NEW j \in Keys, NEW i \in DOMAIN schemas[j]
        PROVE  i \in DOMAIN schemas'[j] /\ schemas'[j][i] = schemas[j][i]
    <3>1. schemas[j] \in Seq(Schema)
      BY <1>1 DEF DirectoryTypeOK
    <3>2. schemas'[j] = IF j = key THEN Append(schemas[j], x) ELSE schemas[j]
      BY <1>1, <2>1 DEF DirectoryTypeOK
    <3> QED BY <3>1, <3>2
  <2> HIDE DEF k
  <2>5. ASSUME query # NoQuery, query.schema # NoSchema
        PROVE  /\ ~query.received
               /\ \E i \in DOMAIN schemas'[k] :
                    schemas'[k][i] = [version |-> query.schema.version,
                                      model |-> query.model]
    <3>1. PICK i \in DOMAIN schemas[k] :
                 schemas[k][i] = [version |-> query.schema.version,
                                  model |-> query.model]
      BY <2>5 DEF Known, k
    <3>2. ~query.received
      BY <2>5 DEF Known
    <3> QED BY <2>3, <2>4, <2>5, <3>1, <3>2
  <2> QED BY <2>2, <2>5 DEF Known, k
<1>4. ASSUME NEW roots, NEW model, NEW received,
             MakesQuery(roots, model, NoSchema, received)
      PROVE  FALSE
  BY <1>4 DEF MakesQuery
<1>5. ASSUME NEW key \in Keys, NEW version \in Versions \union {MaxVersion},
             NEW roots \in Roots, NewQueryFor(key, version, roots)
      PROVE  Known'
  <2> DEFINE s == Get(key, version)
  <2>1. /\ Has(key) /\ schemas' = schemas
        /\ query' = [nodes |-> nodes, roots |-> roots, model |-> s.model,
                     schema |-> [key |-> key, version |-> s.version],
                     received |-> FALSE]
    BY <1>5 DEF NewQueryFor, MakesQuery
  <2>2. s \in Schema
    BY <1>1, <2>1, GetTyped
  <2>3. s = [version |-> s.version, model |-> s.model]
    BY <2>2 DEF Schema
  <2>4. PICK i \in DOMAIN schemas[key] : schemas[key][i] = s
    BY <1>1, <2>1, GetIsThere
  <2>5. /\ query'.schema.key = key /\ query'.schema.version = s.version
        /\ query'.model = s.model /\ query'.received = FALSE
    BY <2>1
  <2> HIDE DEF s
  <2> QED BY <2>1, <2>3, <2>4, <2>5 DEF Known
<1>6. ASSUME DropQuery PROVE FALSE
  BY <1>6 DEF DropQuery
<1> QED
  BY <1>2, <1>3, <1>4, <1>5, <1>6
     DEF Next, vars, Build, NewConstraint, Negate, Group, ReceiveGroup,
         NewQuery, ReceiveQuery

\* A query made for a model and an instance made for the same model agree on the
\* types of the constraints, whatever is nested in what.
LEMMA TypedByTheModel ==
  ASSUME NEW exprs, Formed(exprs), NEW roots, roots \subseteq DOMAIN exprs,
         NEW model, \A n \in roots : Valid(exprs, model)[n],
         NEW v, Accepts(model, v), NEW c \in Leaves(exprs, roots),
         c.attribute \in DOMAIN v
  PROVE  Typed(c, v[c.attribute])
<1>1. PICK n \in roots : c \in LeavesOf(exprs)[n]
  BY LeavesUnfold
<1>2. ConstraintValid(c, model)
  BY <1>1, ValidToTheLeaves
<1>3. c \in ConstraintPool
  BY <1>1, LeavesAreOfThePool
<1>4. v[c.attribute].type = model.attributes[c.attribute].type
  BY DEF Accepts
<1> QED BY <1>2, <1>3, <1>4, PoolTyped
     DEF ConstraintValid, SetValid, RangeValid, RelationValid, DistanceValid,
         Typed

\* A query that was built for a schema never meets, in an instance of its own
\* model or of what its version then finds as long as versions ascend, a value of
\* another type or an order the type does not have, and neither does a received
\* one that is valid, for any models, constraints and nesting
\* (schema.hpp:739, 903-912, 930-937).
THEOREM TypesAreRight == Spec => []NeverMistyped
<1>1. TypeOK /\ Known => NeverMistyped
  <2> SUFFICES ASSUME TypeOK, Known, query # NoQuery, query.model # NoModel,
                      ~query.received \/ QueryValid(query),
                      NEW v \in Values, NEW model \in Targets(query),
                      Accepts(model, v),
                      NEW c \in Leaves(query.nodes, query.roots),
                      c.attribute \in DOMAIN v
               PROVE  Typed(c, v[c.attribute])
    BY DEF NeverMistyped
  <2>1. /\ Formed(query.nodes) /\ query.roots \subseteq DOMAIN query.nodes
        /\ \A n \in query.roots : Valid(query.nodes, query.model)[n]
    BY DEF TypeOK, Formed, Queries, QueryValid
  <2>2. model = query.model
    <3> DEFINE k == query.schema.key
    <3>1. SUFFICES ASSUME query.schema # NoSchema, Ascend(schemas[k]),
                          model = Get(k, query.schema.version).model
                   PROVE  model = query.model
      BY DEF Targets
    <3>2. k \in Keys /\ DirectoryTypeOK
      BY <3>1 DEF TypeOK, Queries
    <3>3. PICK i \in DOMAIN schemas[k] :
                 schemas[k][i] = [version |-> query.schema.version,
                                  model |-> query.model]
      BY <3>1 DEF Known
    <3>4. Get(k, schemas[k][i].version) = schemas[k][i]
      BY <3>1, <3>2, AscendingAreFound DEF VersionIsFound
    <3> HIDE DEF k
    <3> QED BY <3>1, <3>3, <3>4
  <2> QED BY <2>1, <2>2, TypedByTheModel
<1>2. Init => Known
  BY DEF Init, Known
<1> QED BY <1>1, <1>2, NextKnown, TypeCorrect, PTL DEF Spec

-------------------------------------------------------------------------------
(* Negation *)

MeaningStep(exprs, v, n, means) ==
  LET e == exprs[n]
  IN  CASE e.kind = "constraint" ->
             [met |-> ConstraintCheck(e.is, v), denied |-> Denied(e.is, v)]
        [] e.kind = "not" -> [met |-> means[e.of[1]].denied,
                              denied |-> means[e.of[1]].met]
        [] e.kind = "and" ->
             [met |-> \A i \in DOMAIN e.of : means[e.of[i]].met,
              denied |-> \E i \in DOMAIN e.of : means[e.of[i]].denied]
        [] OTHER ->
             [met |-> \E i \in DOMAIN e.of : means[e.of[i]].met,
              denied |-> \A i \in DOMAIN e.of : means[e.of[i]].denied]

Meanings == [met : BOOLEAN, denied : BOOLEAN]

LEMMA StepIsMeaning ==
  ASSUME NEW exprs, Formed(exprs), NEW v, NEW n \in DOMAIN exprs,
         NEW means \in [DOMAIN exprs -> Meanings]
  PROVE  MeaningStep(exprs, v, n, means) \in Meanings
<1> DEFINE e == exprs[n]
<1>1. /\ e.kind \in {"constraint", "not", "and", "or"}
      /\ e.kind = "not" => e.of[1] \in DOMAIN exprs
  BY PartsAreEarlier
<1>2. ConstraintCheck(e.is, v) \in BOOLEAN
  BY DEF ConstraintCheck
<1>3. Denied(e.is, v) \in BOOLEAN
  BY DEF Denied, ConstraintCheck
<1>4. CASE e.kind = "constraint"
  BY <1>2, <1>3, <1>4 DEF MeaningStep, Meanings
<1>5. CASE e.kind = "not"
  <2>1. means[e.of[1]] \in Meanings
    BY <1>1, <1>5
  <2> QED BY <1>5, <2>1 DEF MeaningStep, Meanings
<1>6. CASE e.kind = "and"
  BY <1>6 DEF MeaningStep, Meanings
<1>7. CASE e.kind = "or"
  BY <1>7 DEF MeaningStep, Meanings
<1> QED BY <1>1, <1>4, <1>5, <1>6, <1>7

LEMMA StepLooksDown ==
  ASSUME NEW exprs, Formed(exprs), NEW v, NEW n \in DOMAIN exprs,
         NEW g, NEW h, Agree(g, h, n)
  PROVE  MeaningStep(exprs, v, n, g) = MeaningStep(exprs, v, n, h)
<1> DEFINE e == exprs[n]
<1>1. /\ e.kind \in {"constraint", "not", "and", "or"}
      /\ e.kind = "not" => 1 \in DOMAIN e.of
      /\ e.kind # "constraint" =>
           \A i \in DOMAIN e.of : e.of[i] \in 1..(n - 1)
  BY PartsAreEarlier
<1>2. e.kind # "constraint" => \A i \in DOMAIN e.of : g[e.of[i]] = h[e.of[i]]
  BY <1>1 DEF Agree
<1>3. CASE e.kind = "constraint"
  BY <1>3 DEF MeaningStep
<1>4. CASE e.kind = "not"
  BY <1>1, <1>2, <1>4 DEF MeaningStep
<1>5. CASE e.kind = "and"
  BY <1>1, <1>2, <1>5 DEF MeaningStep
<1>6. CASE e.kind = "or"
  BY <1>1, <1>2, <1>6 DEF MeaningStep
<1> QED BY <1>1, <1>3, <1>4, <1>5, <1>6

LEMMA MeaningUnfolds ==
  ASSUME NEW exprs, Formed(exprs), NEW v
  PROVE  Meaning(exprs, v) = [n \in DOMAIN exprs |->
                                MeaningStep(exprs, v, n, Meaning(exprs, v))]
<1> DEFINE k == Len(exprs)
           V == Meanings
           F == [n \in 1..k |-> [g \in [1..k -> V] |->
                                  MeaningStep(exprs, v, n, g)]]
<1>1. k \in Nat /\ DOMAIN exprs = 1..k
  BY DEF Formed
<1>2. Functional(F, k, V)
  <2> HIDE DEF V, k
  <2>1. \A n \in 1..k, g \in [1..k -> V] : MeaningStep(exprs, v, n, g) \in V
    BY <1>1, StepIsMeaning DEF V
  <2>2. F \in [1..k -> [[1..k -> V] -> V]]
    BY <2>1
  <2>3. \A n \in 1..k : \A g, h : Agree(g, h, n) =>
          MeaningStep(exprs, v, n, g) = MeaningStep(exprs, v, n, h)
    BY <1>1, StepLooksDown
  <2>4. Causal(F, k, V)
    BY <2>3 DEF Causal
  <2> QED BY <2>2, <2>4 DEF Functional
<1> HIDE DEF F
<1>3. PICK f \in [1..k -> V] : \A n \in 1..k : f[n] = F[n][f]
  <2>1. [met |-> TRUE, denied |-> TRUE] \in V
    BY DEF Meanings
  <2> HIDE DEF k, V
  <2>2. HasFixpoint(F, k, V)
    BY <1>1, <1>2, <2>1, Recursion
  <2> QED BY <2>2 DEF HasFixpoint
<1>4. f = [n \in DOMAIN exprs |-> MeaningStep(exprs, v, n, f)]
  <2> HIDE DEF V
  <2>1. \A n \in 1..k : F[n][f] = MeaningStep(exprs, v, n, f)
    BY DEF F
  <2> QED BY <1>1, <1>3, <2>1
<1> DEFINE G == CHOOSE g : g = [n \in DOMAIN exprs |-> MeaningStep(exprs, v, n, g)]
<1>5. G = [n \in DOMAIN exprs |-> MeaningStep(exprs, v, n, G)]
  <2> HIDE DEF k, V
  <2> QED BY <1>4
<1>6. Meaning(exprs, v) = G
  BY DEF Meaning, MeaningStep
<1> HIDE DEF G
<1> QED BY <1>5, <1>6

\* The opposite of a constraint that is clear about a value is met by it exactly
\* when the constraint is not.
LEMMA DeniedIsNot ==
  ASSUME NEW c \in ConstraintPool, NEW w \in Values, Clear(c, FromWire(w))
  PROVE  Denied(c, FromWire(w)) <=> ~ConstraintCheck(c, FromWire(w))
<1> DEFINE v == FromWire(w)
           x == v[c.attribute]
           t == c.type
           d == [c EXCEPT !.op = Opposite(@)]
<1>1. /\ c.kind \in {"relation", "set", "range", "distance"} /\ t \in Types
      /\ c.attribute \in DOMAIN v /\ x \in ValuesOf(t) /\ NaN # x.val
  BY PoolTyped, ClearSays
<1>2. CASE c.kind = "relation"
  <2>1. /\ c \in Relations(t) /\ RelationValid(c, t) /\ NaN # c.val
        /\ t = "Int" => Fits(c.val)
    BY <1>2, PoolTyped, ClearSays
  <2>2. c.op \in {"EQ", "NOTEQ", "LT", "LTEQ", "GT", "GTEQ"}
    BY <2>1 DEF Relations
  <2>3. Opposite(c.op) = CASE c.op = "EQ" -> "NOTEQ" [] c.op = "NOTEQ" -> "EQ"
                           [] c.op = "LT" -> "GTEQ" [] c.op = "GTEQ" -> "LT"
                           [] c.op = "GT" -> "LTEQ" [] OTHER -> "GT"
    BY <2>2 DEF Opposite
  <2>4. /\ d \in Relations(t) /\ d.kind = "relation" /\ d.val = c.val
        /\ d.attribute = c.attribute /\ d.op = Opposite(c.op) /\ d.type = t
    BY <2>1, <2>2, <2>3 DEF Relations
  <2>5. RelationValid(d, t)
    BY <2>1, <2>3, <2>4 DEF RelationValid
  <2>6. Denied(c, v) <=> ConstraintCheck(d, v)
    BY <1>2 DEF Denied
  <2> HIDE DEF d, t, x, v
  <2>7. /\ ConstraintCheck(c, v) <=> RelationCheck(c, x)
        /\ ConstraintCheck(d, v) <=> RelationCheck(d, x)
    BY <1>1, <1>2, <2>4, CheckByKind DEF x
  <2>8. ASSUME c.op \in {"EQ", "NOTEQ"}
        PROVE  Denied(c, v) <=> ~ConstraintCheck(c, v)
    <3>1. /\ c.op = "EQ" => (RelationCheck(c, x) <=> x.val = c.val)
          /\ c.op = "NOTEQ" => (RelationCheck(c, x) <=> x.val # c.val)
      BY <1>1, <2>1, RelationSays
    <3>2. /\ d.op = "EQ" => (RelationCheck(d, x) <=> x.val = d.val)
          /\ d.op = "NOTEQ" => (RelationCheck(d, x) <=> x.val # d.val)
      BY <1>1, <2>1, <2>4, <2>5, RelationSays
    <3>3. /\ c.op = "EQ" => d.op = "NOTEQ"
          /\ c.op = "NOTEQ" => d.op = "EQ"
      BY <2>3, <2>4
    <3> QED BY <2>4, <2>6, <2>7, <2>8, <3>1, <3>2, <3>3
  <2>9. ASSUME c.op \notin {"EQ", "NOTEQ"}
        PROVE  Denied(c, v) <=> ~ConstraintCheck(c, v)
    <3>1. /\ x.val \in Int /\ c.val \in Int
          /\ c.op = "LT" => (RelationCheck(c, x) <=> x.val < c.val)
          /\ c.op = "LTEQ" => (RelationCheck(c, x) <=> x.val <= c.val)
          /\ c.op = "GT" => (RelationCheck(c, x) <=> x.val > c.val)
          /\ c.op = "GTEQ" => (RelationCheck(c, x) <=> x.val >= c.val)
      BY <1>1, <2>1, <2>9, RelationSays
    <3>2. /\ c.op = "LT" => d.op = "GTEQ"
          /\ c.op = "GTEQ" => d.op = "LT"
          /\ c.op = "GT" => d.op = "LTEQ"
          /\ c.op = "LTEQ" => d.op = "GT"
          /\ d.op \notin {"EQ", "NOTEQ"}
      BY <2>2, <2>3, <2>4, <2>9
    <3>3. /\ d.op = "LT" => (RelationCheck(d, x) <=> x.val < d.val)
          /\ d.op = "LTEQ" => (RelationCheck(d, x) <=> x.val <= d.val)
          /\ d.op = "GT" => (RelationCheck(d, x) <=> x.val > d.val)
          /\ d.op = "GTEQ" => (RelationCheck(d, x) <=> x.val >= d.val)
      BY <1>1, <2>1, <2>4, <2>5, <3>2, RelationSays
    <3>4. c.op \in {"LT", "LTEQ", "GT", "GTEQ"}
      BY <2>2, <2>9
    <3>5. RelationCheck(d, x) <=> ~RelationCheck(c, x)
      BY <2>4, <3>1, <3>2, <3>3, <3>4
    <3> QED BY <2>6, <2>7, <3>5
  <2>10. Denied(c, v) <=> ~ConstraintCheck(c, v)
    BY <2>8, <2>9
  <2> QED BY <2>10 DEF v
<1>3. CASE c.kind = "set"
  <2>1. c \in Sets(t) /\ c.op \in {"IN", "NOTIN"}
    BY <1>3, PoolTyped DEF Sets
  <2>2. Opposite(c.op) = IF c.op = "IN" THEN "NOTIN" ELSE "IN"
    BY <2>1 DEF Opposite
  <2>3. /\ d \in Sets(t) /\ d.kind = "set" /\ d.vals = c.vals
        /\ d.attribute = c.attribute /\ d.op = Opposite(c.op)
    BY <2>1, <2>2 DEF Sets
  <2>4. Denied(c, v) <=> ConstraintCheck(d, v)
    BY <1>3 DEF Denied
  <2> HIDE DEF d, t, x, v
  <2>5. /\ ConstraintCheck(c, v) <=> SetCheck(c, x)
        /\ ConstraintCheck(d, v) <=> SetCheck(d, x)
    BY <1>1, <1>3, <2>3, CheckByKind DEF x
  <2>6. /\ c.op = "IN" => (SetCheck(c, x) <=> x.val \in c.vals)
        /\ c.op = "NOTIN" => (SetCheck(c, x) <=> x.val \notin c.vals)
    BY <1>1, <2>1, SetSays
  <2>7. /\ d.op = "IN" => (SetCheck(d, x) <=> x.val \in d.vals)
        /\ d.op = "NOTIN" => (SetCheck(d, x) <=> x.val \notin d.vals)
    BY <1>1, <2>3, SetSays
  <2>8. SetCheck(d, x) <=> ~SetCheck(c, x)
    BY <2>1, <2>2, <2>3, <2>6, <2>7
  <2>9. Denied(c, v) <=> ~ConstraintCheck(c, v)
    BY <2>4, <2>5, <2>8
  <2> QED BY <2>9 DEF v
<1>4. CASE c.kind = "range" /\ t # "Location"
  <2>1. Denied(c, v) <=> \/ ConstraintCheck(Compare(c, "LT", c.first), v)
                         \/ ConstraintCheck(Compare(c, "GT", c.second), v)
    BY <1>4 DEF Denied
  <2>2. /\ c.first \in Int /\ c.second \in Int /\ x.val \in Int
        /\ ConstraintCheck(c, v) <=> c.first <= x.val /\ x.val <= c.second
    BY <1>4, BetweenTwo
  <2>3. ConstraintCheck(Compare(c, "LT", c.first), v) <=> x.val < c.first
    BY <1>4, CompareIsClear
  <2>4. ConstraintCheck(Compare(c, "GT", c.second), v) <=> x.val > c.second
    BY <1>4, CompareIsClear
  <2> HIDE DEF x, v
  <2> QED BY <2>1, <2>2, <2>3, <2>4 DEF v
<1>5. CASE c.kind = "distance" \/ (c.kind = "range" /\ t = "Location")
  BY <1>5 DEF Denied
<1> QED BY <1>1, <1>2, <1>3, <1>4, <1>5

\* From the leaves to the roots: a node is met when it is checked, and denied
\* when it is not.
LEMMA NegationsGoInwards ==
  ASSUME NEW exprs, Formed(exprs), NEW w \in Values, NEW n \in DOMAIN exprs,
         \A c \in LeavesOf(exprs)[n] : Clear(c, FromWire(w))
  PROVE  Check(exprs, FromWire(w))[n] <=> Meaning(exprs, FromWire(w))[n].met
<1> DEFINE v == FromWire(w)
           check == Check(exprs, v)
           means == Meaning(exprs, v)
           leaves == LeavesOf(exprs)
           Good(m) == /\ check[m] <=> means[m].met
                      /\ ~check[m] <=> means[m].denied
           T == {m \in DOMAIN exprs : /\ \A c \in leaves[m] : Clear(c, v)
                                      /\ ~Good(m)}
<1>1. ASSUME NEW m \in DOMAIN exprs
      PROVE  /\ check[m] <=> CheckStep(exprs, v, m, check)
             /\ means[m] = MeaningStep(exprs, v, m, means)
             /\ leaves[m] = LeavesStep(exprs, m, leaves)
  <2>1. check = [j \in DOMAIN exprs |-> CheckStep(exprs, v, j, check)]
    BY CheckUnfolds
  <2>2. means = [j \in DOMAIN exprs |-> MeaningStep(exprs, v, j, means)]
    BY MeaningUnfolds
  <2>3. leaves = [j \in DOMAIN exprs |-> LeavesStep(exprs, j, leaves)]
    BY LeavesUnfold
  <2> HIDE DEF check, means, leaves
  <2>4. check[m] <=> CheckStep(exprs, v, m, check)
    BY <2>1
  <2>5. means[m] = MeaningStep(exprs, v, m, means)
    BY <2>2
  <2>6. leaves[m] = LeavesStep(exprs, m, leaves)
    BY <2>3
  <2> QED BY <2>4, <2>5, <2>6
<1> HIDE DEF check, means, leaves, v
<1>2. SUFFICES ASSUME T # {} PROVE FALSE
  BY DEF v, check, means, leaves
<1>3. PICK m \in T : \A j \in T : m <= j
  <2>1. T \subseteq Nat
    BY DEF Formed
  <2> HIDE DEF T
  <2> QED BY <1>2, <2>1, LeastNat
<1>4. /\ m \in DOMAIN exprs /\ m \in Nat /\ ~Good(m)
      /\ \A c \in leaves[m] : Clear(c, v)
  BY DEF Formed
<1>5. ASSUME NEW j \in DOMAIN exprs, j \in 1..(m - 1),
             \A c \in leaves[j] : Clear(c, v)
      PROVE  Good(j)
  <2>1. ~(m <= j)
    BY <1>4, <1>5
  <2> HIDE DEF Good
  <2> QED BY <1>3, <1>5, <2>1
<1> HIDE DEF T
<1> DEFINE e == exprs[m]
<1>6. /\ e.kind \in {"constraint", "not", "and", "or"}
      /\ e.kind = "constraint" => e.is \in ConstraintPool
      /\ e.kind = "not" => 1 \in DOMAIN e.of
      /\ e.kind # "constraint" =>
           \A i \in DOMAIN e.of :
             e.of[i] \in 1..(m - 1) /\ e.of[i] \in DOMAIN exprs
  BY <1>4, PartsAreEarlier
<1>7. ASSUME e.kind # "constraint", NEW i \in DOMAIN e.of PROVE Good(e.of[i])
  <2>1. ASSUME NEW c \in leaves[e.of[i]] PROVE c \in leaves[m]
    <3>1. c \in UNION {leaves[e.of[j]] : j \in DOMAIN e.of}
      BY <1>7, <2>1
    <3>2. leaves[m] = UNION {leaves[e.of[j]] : j \in DOMAIN e.of}
      BY <1>1, <1>4, <1>7 DEF LeavesStep
    <3> QED BY <3>1, <3>2
  <2>2. \A c \in leaves[e.of[i]] : Clear(c, v)
    BY <1>4, <2>1
  <2> HIDE DEF e, Good
  <2> QED BY <1>5, <1>6, <1>7, <2>2
<1>8. CASE e.kind = "constraint"
  <2>1. leaves[m] = {e.is}
    BY <1>1, <1>4, <1>8 DEF LeavesStep
  <2>2. Clear(e.is, v)
    BY <1>4, <2>1
  <2>3. Denied(e.is, v) <=> ~ConstraintCheck(e.is, v)
    BY <1>6, <1>8, <2>2, DeniedIsNot DEF v
  <2>4. check[m] <=> ConstraintCheck(e.is, v)
    BY <1>1, <1>4, <1>8 DEF CheckStep
  <2>5. means[m] = [met |-> ConstraintCheck(e.is, v), denied |-> Denied(e.is, v)]
    BY <1>1, <1>4, <1>8 DEF MeaningStep
  <2>6. (means[m].met <=> ConstraintCheck(e.is, v))
          /\ (means[m].denied <=> Denied(e.is, v))
    BY <2>5
  <2> QED BY <1>4, <2>3, <2>4, <2>6
<1>9. CASE e.kind = "not"
  <2>1. check[m] <=> ~check[e.of[1]]
    BY <1>1, <1>4, <1>9 DEF CheckStep
  <2>2. means[m] = [met |-> means[e.of[1]].denied, denied |-> means[e.of[1]].met]
    BY <1>1, <1>4, <1>9 DEF MeaningStep
  <2>3. Good(e.of[1])
    BY <1>6, <1>7, <1>9
  <2> QED BY <1>4, <2>1, <2>2, <2>3
<1>10. CASE e.kind = "and"
  <2>1. check[m] <=> \A i \in DOMAIN e.of : check[e.of[i]]
    BY <1>1, <1>4, <1>10 DEF CheckStep
  <2>2. means[m] = [met |-> \A i \in DOMAIN e.of : means[e.of[i]].met,
                    denied |-> \E i \in DOMAIN e.of : means[e.of[i]].denied]
    BY <1>1, <1>4, <1>10 DEF MeaningStep
  <2>3. /\ means[m].met <=> \A i \in DOMAIN e.of : means[e.of[i]].met
        /\ means[m].denied <=> \E i \in DOMAIN e.of : means[e.of[i]].denied
    BY <2>2
  <2> QED BY <1>4, <1>7, <1>10, <2>1, <2>3
<1>11. CASE e.kind = "or"
  <2>1. check[m] <=> \E i \in DOMAIN e.of : check[e.of[i]]
    BY <1>1, <1>4, <1>11 DEF CheckStep
  <2>2. means[m] = [met |-> \E i \in DOMAIN e.of : means[e.of[i]].met,
                    denied |-> \A i \in DOMAIN e.of : means[e.of[i]].denied]
    BY <1>1, <1>4, <1>11 DEF MeaningStep
  <2>3. /\ means[m].met <=> \E i \in DOMAIN e.of : means[e.of[i]].met
        /\ means[m].denied <=> \A i \in DOMAIN e.of : means[e.of[i]].denied
    BY <2>2
  <2> QED BY <1>4, <1>7, <1>11, <2>1, <2>3
<1> QED BY <1>6, <1>8, <1>9, <1>10, <1>11

\* A query is checked as if its negations were carried inwards and every
\* constraint denied replaced by the opposite one, for any constraints, any
\* nesting and any values the constraints are clear about
\* (schema.hpp:781-883, 938-951).
THEOREM NegationsMeanOpposites == Spec => []NegationIsComplement
<1>1. TypeOK => NegationIsComplement
  <2> SUFFICES ASSUME TypeOK, query # NoQuery, NEW w \in Values, NEW model \in Models,
                      \A c \in Leaves(query.nodes, query.roots) :
                        Clear(c, FromWire(w))
               PROVE  QueryCheck(query, model, FromWire(w)) <=>
                        /\ query.model # NoModel => model.name = query.model.name
                        /\ \A n \in query.roots :
                             Meaning(query.nodes, FromWire(w))[n].met
    BY DEF NegationIsComplement, Received
  <2>1. Formed(query.nodes) /\ query.roots \subseteq DOMAIN query.nodes
    BY DEF TypeOK, Formed, Queries
  <2>2. ASSUME NEW n \in query.roots
        PROVE  Check(query.nodes, FromWire(w))[n]
                 <=> Meaning(query.nodes, FromWire(w))[n].met
    <3>1. LeavesOf(query.nodes)[n] \subseteq Leaves(query.nodes, query.roots)
      BY <2>1, LeavesUnfold
    <3> QED BY <2>1, <3>1, NegationsGoInwards
  <2> QED BY <2>2 DEF QueryCheck
<1> QED BY <1>1, TypeCorrect, PTL
===============================================================================

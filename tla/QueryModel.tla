------------------------------ MODULE QueryModel ------------------------------
(***************************************************************************)
(* Queries (lib/include/schema.hpp, lib/src/schema.cpp) that the program   *)
(* builds from constraints, for a schema of the directory or for none, or  *)
(* receives, and that are checked against instances of a later day.        *)
(*                                                                         *)
(* Expressions are nodes, each over earlier ones: the messages are copied  *)
(* into each other and never change.  Instances do not change either: they *)
(* are quantified over, as they are received.  A query that is built is    *)
(* validated; one that is received, as every query of an agent is, is not. *)
(***************************************************************************)
EXTENDS SchemaDirectory, Constraints

CONSTANTS
  Values,          \* what an instance may be made of
  ConstraintPool,  \* the constraints queries are built from
  MaxNodes,        \* bound: the nodes of an expression
  MaxSchemas,      \* bound: the schemas under a key
  NoSchema, NoModel, NoQuery

ASSUME FinitelyMany ==
  /\ \A model \in Models : IsFiniteSet(DOMAIN model.attributes)
  /\ \A v \in Values : IsFiniteSet(DOMAIN v)

ASSUME Typing ==
  /\ \A c \in ConstraintPool : IsConstraint(c)
  /\ \A v \in Values : \A a \in DOMAIN v : \E t \in WireTypes : v[a] \in ValuesOf(t)

VARIABLES
  nodes,  \* the expression that is being built
  query   \* the query: its nodes, its constraints among them, its data model,
          \* the schema that was asked for, and whether it was received

vars == <<schemas, nodes, query>>

Expressions == [kind : {"constraint"}, is : ConstraintPool]
        \union [kind : {"not"}, of : [{1} -> Nat]]
        \union [kind : {"or", "and"}, of : Seq(Nat)]

Queries ==
  [nodes : Seq(Expressions), roots : SUBSET Nat, model : Models \union {NoModel},
   schema : {NoSchema} \union [key : Keys, version : Nat], received : BOOLEAN]

Of(e) == IF e.kind = "constraint" THEN <<>> ELSE e.of
Grows(exprs) == \A n \in DOMAIN exprs : \A i \in DOMAIN Of(exprs[n]) :
                  Of(exprs[n])[i] \in 1..(n - 1)

\* check and valid, by the kind of the expression.  One of no kind is false to
\* both, as an "or" of none is.
Check(exprs, values) ==
  LET check[n \in DOMAIN exprs] ==
        LET e == exprs[n]
        IN  \/ e.kind = "constraint" /\ ConstraintCheck(e.is, values)
            \/ e.kind = "or"  /\ \E i \in DOMAIN e.of : check[e.of[i]]
            \/ e.kind = "and" /\ \A i \in DOMAIN e.of : check[e.of[i]]
            \/ e.kind = "not" /\ ~check[e.of[1]]
  IN  check

Valid(exprs, model) ==
  LET valid[n \in DOMAIN exprs] ==
        LET e == exprs[n]
        IN  \/ e.kind = "constraint" /\ ConstraintValid(e.is, model)
            \/ e.kind = "not" /\ valid[e.of[1]]
            \/ /\ e.kind \in {"or", "and"}
               /\ \A i \in DOMAIN e.of : valid[e.of[i]]
               /\ Len(e.of) > 1
  IN  valid

QueryValid(q) ==
  /\ q.roots # {}
  /\ q.model # NoModel => \A n \in q.roots : Valid(q.nodes, q.model)[n]

\* Models are compared by their names only.
QueryCheck(q, model, values) ==
  /\ q.model # NoModel => q.model.name = model.name
  /\ \A n \in q.roots : Check(q.nodes, values)[n]

\* Mutant: one constraint that is met is enough.
QueryCheckAny(q, model, values) ==
  /\ q.model # NoModel => q.model.name = model.name
  /\ \E n \in q.roots : Check(q.nodes, values)[n]

\* Expressions are made of earlier ones, a negation of one of them, and a query
\* that the program has built itself is valid.
TypeOK ==
  /\ DirectoryTypeOK
  /\ nodes \in Seq(Expressions)
  /\ Grows(nodes)
  /\ query # NoQuery =>
       /\ query \in Queries
       /\ Grows(query.nodes)
       /\ query.roots \subseteq DOMAIN query.nodes
       /\ ~query.received => QueryValid(query)

Init ==
  /\ DirectoryInit
  /\ nodes = <<>>
  /\ query = NoQuery

-------------------------------------------------------------------------------
\* Bound: a schema is added when no expression is half built and, as what has
\* been received looks at no schema, only beside what was built.
AddSchema(key, version, model) ==
  /\ nodes = <<>>
  /\ query # NoQuery => ~query.received
  /\ Len(schemas[key]) < MaxSchemas
  /\ Add(key, version, model)
  /\ UNCHANGED <<nodes, query>>

\* The constructors of the program can make the expression.
Constructible(e) ==
  CASE e.kind = "constraint" -> Buildable(e.is)
    [] e.kind = "not" -> TRUE
    [] OTHER -> Len(e.of) >= 2

\* An expression more, over the last ones.  Bound: one that only a message can
\* have is built while the directory is empty.
Build(e) ==
  /\ query = NoQuery
  /\ Len(nodes) < MaxNodes
  /\ Constructible(e) \/ \A key \in Keys : ~Has(key)
  /\ nodes' = Append(nodes, e)
  /\ UNCHANGED <<schemas, query>>

NewConstraint(c) == Build([kind |-> "constraint", is |-> c])

Negate ==
  /\ nodes # <<>>
  /\ Build([kind |-> "not", of |-> <<Len(nodes)>>])

\* Or and And refuse less than two expressions.
Group(kind) ==
  /\ Len(nodes) >= 2
  /\ Build([kind |-> kind, of |-> <<Len(nodes) - 1, Len(nodes)>>])

\* What is received may group one expression, or none.
ReceiveGroup(kind, of) ==
  /\ \A i \in DOMAIN of : of[i] \in DOMAIN nodes
  /\ Build([kind |-> kind, of |-> of])

Roots == {{Len(nodes)}, {1, Len(nodes)}}

MakesQuery(roots, model, schema, received) ==
  /\ query = NoQuery
  /\ query' = [nodes |-> nodes, roots |-> roots, model |-> model,
               schema |-> schema, received |-> received]
  /\ nodes' = <<>>
  /\ UNCHANGED schemas

NewQuery(roots) ==
  /\ nodes # <<>>
  /\ \A n \in DOMAIN nodes : Constructible(nodes[n])
  /\ MakesQuery(roots, NoModel, NoSchema, FALSE)

\* Mutant: the first constraint alone is validated.
NewQueryForFirst(key, version, roots) ==
  /\ nodes # <<>>
  /\ \A n \in DOMAIN nodes : Constructible(nodes[n])
  /\ Has(key)
  /\ LET s == Get(key, version)
     IN  /\ Valid(nodes, s.model)[1]
         /\ MakesQuery(roots, s.model, [key |-> key, version |-> s.version], FALSE)

\* A query for a schema: the constructor refuses constraints that are not valid
\* for its model.
NewQueryFor(key, version, roots) ==
  /\ nodes # <<>>
  /\ \A n \in DOMAIN nodes : Constructible(nodes[n])
  /\ Has(key)
  /\ LET s == Get(key, version)
     IN  /\ \A n \in roots : Valid(nodes, s.model)[n]
         /\ MakesQuery(roots, s.model, [key |-> key, version |-> s.version], FALSE)

\* A query from a message, the only kind the sessions handle, is taken as it is:
\* with any model or none, and with no constraints at all.  Bound: while the
\* directory, which it does not look at, is empty.
ReceiveQuery(roots, model) ==
  /\ \A key \in Keys : ~Has(key)
  /\ roots = {} <=> nodes = <<>>
  /\ MakesQuery(roots, model, NoSchema, TRUE)

DropQuery ==
  /\ query # NoQuery
  /\ query' = NoQuery
  /\ UNCHANGED <<schemas, nodes>>

Next ==
  \/ \E key \in Keys, version \in Versions \union {MaxVersion}, model \in Models :
       AddSchema(key, version, model)
  \/ \E c \in ConstraintPool : NewConstraint(c)
  \/ Negate
  \/ \E kind \in {"or", "and"} :
       Group(kind) \/ \E of \in {<<>>, <<Len(nodes)>>} : ReceiveGroup(kind, of)
  \/ \E roots \in Roots : NewQuery(roots)
  \/ \E roots \in Roots \union {{}}, model \in Models \union {NoModel} :
       ReceiveQuery(roots, model)
  \/ \E key \in Keys, version \in Versions \union {MaxVersion}, roots \in Roots :
       NewQueryFor(key, version, roots)
  \/ DropQuery

Spec == Init /\ [][Next]_vars

-------------------------------------------------------------------------------
(* Properties *)

Received == {FromWire(v) : v \in Values}

\* The constraints that a check from a root may look at.
Leaves(exprs, roots) ==
  LET leaves[n \in DOMAIN exprs] ==
        IF exprs[n].kind = "constraint" THEN {exprs[n].is}
        ELSE UNION {leaves[exprs[n].of[i]] : i \in DOMAIN exprs[n].of}
  IN  UNION {leaves[n] : n \in roots}

Typed(c, v) == c.type = v.type /\ (c.kind = "relation" => RelationValid(c, v.type))

\* The data models a query is meant for: its own and, if the versions of the
\* schema it was made for ascend, what is found now under that version.
Targets(q) ==
  {q.model} \union
    {m \in Models : /\ q.schema # NoSchema
                    /\ Ascend(schemas[q.schema.key])
                    /\ m = Get(q.schema.key, q.schema.version).model}

\* A query that the program has built for a schema, and a received one that
\* valid() accepts for its own model, meet values of the right types in every
\* instance made for such a model, at any time since: the check that does not
\* compare the types (schema.hpp:739) never meets a value of another type or an
\* order that the type does not have.  Of a received query that is not valid
\* nothing is promised, and nothing in the core asks valid().
NeverMistyped ==
  (/\ query # NoQuery /\ query.model # NoModel
   /\ ~query.received \/ QueryValid(query)) =>
     \A v \in Values, model \in Targets(query) : Accepts(model, v) =>
       \A c \in Leaves(query.nodes, query.roots) :
         c.attribute \in DOMAIN v => Typed(c, v[c.attribute])

\* The constructor of an instance, which counts, takes the values for which
\* instantiate does not throw, save those the model does not have
\* (schema.hpp:118-131, 520-587).
InstancesAreComplete ==
  \A key \in Keys : \A i \in DOMAIN schemas[key] : \A v \in Received :
    LET model == schemas[key][i].model
    IN  Accepts(model, v) <=>
          Instantiates(model, v) /\ DOMAIN v \subseteq DOMAIN model.attributes

\* A constraint that has one meaning for these values: its attribute is there,
\* types and orders are right, its integers are ints and nothing is NaN.
Clear(c, values) ==
  /\ c.attribute \in DOMAIN values
  /\ Typed(c, values[c.attribute])
  /\ NaN \notin Numbers(c) \union {values[c.attribute].val}
  /\ c.type = "Int" => \A i \in Numbers(c) : Fits(i)
  /\ ~(c.kind = "range" /\ c.type = "Bool")

Opposite(op) == CASE op = "EQ"   -> "NOTEQ" [] op = "NOTEQ" -> "EQ"
                  [] op = "LT"   -> "GTEQ"  [] op = "GTEQ"  -> "LT"
                  [] op = "GT"   -> "LTEQ"  [] op = "LTEQ"  -> "GT"
                  [] op = "IN"   -> "NOTIN" [] op = "NOTIN" -> "IN"

Compare(c, op, val) ==
  [kind |-> "relation", attribute |-> c.attribute, type |-> c.type,
   op |-> op, val |-> val]

\* The opposite of a constraint, in the constraints of the language if it can be
\* said in them.
Denied(c, values) ==
  CASE c.kind \in {"set", "relation"} ->
         ConstraintCheck([c EXCEPT !.op = Opposite(@)], values)
    [] c.kind = "range" /\ c.type # "Location" ->
         \/ ConstraintCheck(Compare(c, "LT", c.first), values)
         \/ ConstraintCheck(Compare(c, "GT", c.second), values)
    [] OTHER -> ~ConstraintCheck(c, values)

\* Negations carried inwards to the constraints: what it takes that a node is
\* met, and that it is denied.
Meaning(exprs, values) ==
  LET means[n \in DOMAIN exprs] ==
        LET e == exprs[n]
        IN  CASE e.kind = "constraint" ->
                   [met |-> ConstraintCheck(e.is, values),
                    denied |-> Denied(e.is, values)]
              [] e.kind = "not" -> [met |-> means[e.of[1]].denied,
                                    denied |-> means[e.of[1]].met]
              [] e.kind = "and" ->
                   [met |-> \A i \in DOMAIN e.of : means[e.of[i]].met,
                    denied |-> \E i \in DOMAIN e.of : means[e.of[i]].denied]
              [] OTHER ->
                   [met |-> \E i \in DOMAIN e.of : means[e.of[i]].met,
                    denied |-> \A i \in DOMAIN e.of : means[e.of[i]].denied]
  IN  means

\* A query is checked as if its negations were carried inwards and every
\* constraint denied replaced by the opposite one: for values that the
\* constraints are clear about, ! has no meaning of its own
\* (schema.hpp:781-883, 938-951).
NegationIsComplement ==
  query # NoQuery =>
    \A v \in Received, model \in Models :
      (\A c \in Leaves(query.nodes, query.roots) : Clear(c, v)) =>
        (QueryCheck(query, model, v) <=>
           /\ query.model # NoModel => model.name = query.model.name
           /\ \A n \in query.roots : Meaning(query.nodes, v)[n].met)

SetOf(c, val) ==
  [kind |-> "set", attribute |-> c.attribute, type |-> c.type, op |-> "IN",
   vals |-> {val}]

RangeOf(c, a, b) ==
  [kind |-> "range", attribute |-> c.attribute, type |-> c.type,
   first |-> a, second |-> b]

\* Three ways to ask for one value, and two to ask for the values between two,
\* have the same answer as long as the integers are ints: relations narrow them
\* and sets and ranges do not (schema.hpp:180, 308, 441).
SameQuestionSameAnswer ==
  \A n \in DOMAIN nodes : \A v \in Received :
    LET c == nodes[n].is
    IN  (nodes[n].kind = "constraint" /\ Clear(c, v)) =>
          /\ (c.kind = "relation" /\ c.op = "EQ") =>
               /\ ConstraintCheck(c, v) <=> ConstraintCheck(SetOf(c, c.val), v)
               /\ c.type # "Bool" =>
                    (ConstraintCheck(c, v)
                       <=> ConstraintCheck(RangeOf(c, c.val, c.val), v))
          /\ (c.kind = "range" /\ c.type # "Location") =>
               (ConstraintCheck(c, v)
                  <=> /\ ConstraintCheck(Compare(c, "GTEQ", c.first), v)
                      /\ ConstraintCheck(Compare(c, "LTEQ", c.second), v))
          /\ (c.kind = "range" /\ c.type = "Location") =>
               (ConstraintCheck(c, v)
                  <=> ConstraintCheck(RangeOf(c, c.second, c.first), v))
===============================================================================

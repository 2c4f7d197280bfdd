----------------------------- MODULE Constraints -----------------------------
(***************************************************************************)
(* Values, data models, instances and the four kinds of constraint         *)
(* (lib/include/schema.hpp).  A value has a type and is a number: an int,  *)
(* a double, the place of a string in the order of strings (the empty one  *)
(* is 0), a bool (0 or 1), or a location.  A constraint comes from         *)
(* protobuf: its integers are 64 bits wide, a value's are those of an int. *)
(***************************************************************************)
EXTENDS Integers, FiniteSets

CONSTANTS
  Attributes,        \* the names of attributes
  Half,              \* an int is one of -Half .. Half - 1
  NaN,               \* the double that is not a number
  DistanceOf(_, _)   \* the distance between two locations

Types == {"Int", "Double", "String", "Bool", "Location"}

\* What is received may have no value, no values or no pair set.
WireTypes == Types \union {"not_set"}

ASSUME HalfAssumption == Half \in Nat \ {0}

\* What a value of a type, or a constraint of that type, may hold.
Carrier(t) == CASE t = "Location" -> [lon : Int, lat : Int]
                [] t = "Double"   -> Int \union {NaN}
                [] OTHER          -> Int

ValuesOf(t) == [type : {t}, val : Carrier(t)]

\* int(i): the low bits of a 64-bit integer.
Narrow(i) == ((i + Half) % (2 * Half)) - Half
Fits(i) == Narrow(i) = i

\* A field of a protobuf message that is not set reads as this.
Default(t) == IF t = "Location" THEN [lon |-> 0, lat |-> 0] ELSE 0

\* The operators of the types: locations are ordered by latitude alone, and
\* every comparison with NaN but != is false.
Equal(a, b) == a # NaN /\ a = b
Less(t, a, b) == IF t = "Location" THEN a.lat < b.lat
                                   ELSE NaN \notin {a, b} /\ a < b
AtMost(t, a, b) == IF t = "Location" THEN a.lat <= b.lat
                                     ELSE NaN \notin {a, b} /\ a <= b

-------------------------------------------------------------------------------
(* Relation: [kind, attribute, type, op, val] *)

Relations(t) ==
  [kind : {"relation"}, attribute : Attributes, type : {t},
   op : {"EQ", "NOTEQ", "LT", "LTEQ", "GT", "GTEQ"}, val : Carrier(t)]

\* get<T>: the field of the value's type, whatever the constraint's type is.
RelationGet(rel, t) ==
  IF rel.type # t THEN Default(t)
  ELSE IF t = "Int" THEN Narrow(rel.val) ELSE rel.val

\* Mutant: LTEQ and GTEQ swapped.
RelationCheckSwapped(rel, v) ==
  LET s == RelationGet(rel, v.type)
  IN  \/ rel.op = "EQ"    /\ Equal(s, v.val)
      \/ rel.op = "NOTEQ" /\ ~Equal(s, v.val)
      \/ rel.op = "LT"    /\ Less(v.type, v.val, s)
      \/ rel.op = "GTEQ"  /\ AtMost(v.type, v.val, s)
      \/ rel.op = "GT"    /\ Less(v.type, s, v.val)
      \/ rel.op = "LTEQ"  /\ AtMost(v.type, s, v.val)

RelationCheck(rel, v) ==
  LET s == RelationGet(rel, v.type)
  IN  \/ rel.op = "EQ"    /\ Equal(s, v.val)
      \/ rel.op = "NOTEQ" /\ ~Equal(s, v.val)
      \/ rel.op = "LT"    /\ Less(v.type, v.val, s)
      \/ rel.op = "LTEQ"  /\ AtMost(v.type, v.val, s)
      \/ rel.op = "GT"    /\ Less(v.type, s, v.val)
      \/ rel.op = "GTEQ"  /\ AtMost(v.type, s, v.val)

RelationValid(rel, t) ==
  /\ rel.type = t
  /\ t \in {"Bool", "Location"} => rel.op \in {"EQ", "NOTEQ"}

-------------------------------------------------------------------------------
(* Set: [kind, attribute, type, op, vals] *)

Sets(t) ==
  [kind : {"set"}, attribute : Attributes, type : {t}, op : {"IN", "NOTIN"},
   vals : SUBSET Carrier(t)]

SetCheck(set, v) ==
  LET found == /\ set.type = v.type
               /\ \E val \in set.vals : Equal(val, v.val)
  IN  IF set.op = "NOTIN" THEN ~found ELSE found

SetValid(set, t) == set.type = t

-------------------------------------------------------------------------------
(* Range: [kind, attribute, type, first, second] *)

Ranges(t) ==
  [kind : {"range"}, attribute : Attributes, type : {t},
   first : Carrier(t), second : Carrier(t)]

\* Mutant: the upper end is excluded.
RangeCheckOpen(range, v) ==
  LET lo == IF range.type = v.type THEN range.first ELSE Default(v.type)
      hi == IF range.type = v.type THEN range.second ELSE Default(v.type)
  IN  /\ v.type # "Bool"
      /\ AtMost(v.type, lo, v.val) /\ Less(v.type, v.val, hi)

\* A range of locations is a box with two corners; one of bools never matches.
RangeCheck(range, v) ==
  LET lo == IF range.type = v.type THEN range.first ELSE Default(v.type)
      hi == IF range.type = v.type THEN range.second ELSE Default(v.type)
      Between(a, x, b) == (a <= x /\ x <= b) \/ (b <= x /\ x <= a)
  IN  IF v.type = "Location"
        THEN /\ Between(lo.lat, v.val.lat, hi.lat)
             /\ Between(lo.lon, v.val.lon, hi.lon)
        ELSE /\ v.type # "Bool"
             /\ AtMost(v.type, lo, v.val) /\ AtMost(v.type, v.val, hi)

RangeValid(range, t) == range.type = t

-------------------------------------------------------------------------------
(* Distance: [kind, attribute, type, center, distance] *)

Distances ==
  [kind : {"distance"}, attribute : Attributes, type : {"Location"},
   center : Carrier("Location"), distance : Int]

DistanceCheck(d, v) ==
  v.type = "Location" /\ DistanceOf(d.center, v.val) <= d.distance

DistanceValid(d, t) == t = "Location"

-------------------------------------------------------------------------------
(* Instances: a data model [name, attributes], the attributes a function from
   names to [type, required], and values, a function from some names *)

Required(model) ==
  {a \in DOMAIN model.attributes : model.attributes[a].required}

\* Mutant: the required attributes are only counted.
AcceptsCounted(model, values) ==
  /\ Cardinality(DOMAIN values) <= Cardinality(DOMAIN model.attributes)
  /\ Cardinality(DOMAIN values) >= Cardinality(Required(model))
  /\ \A a \in DOMAIN values : /\ a \in DOMAIN model.attributes
                              /\ values[a].type = model.attributes[a].type

\* Mutant: the types of values are not tested.
AcceptsUntyped(model, values) ==
  /\ Cardinality(DOMAIN values) <= Cardinality(DOMAIN model.attributes)
  /\ DOMAIN values \subseteq DOMAIN model.attributes
  /\ Required(model) \subseteq DOMAIN values

\* The constructor counts, then tests each value.
Accepts(model, values) ==
  /\ Cardinality(DOMAIN values) <= Cardinality(DOMAIN model.attributes)
  /\ Cardinality(DOMAIN values) >= Cardinality(Required(model))
  /\ \A a \in DOMAIN values : /\ a \in DOMAIN model.attributes
                              /\ values[a].type = model.attributes[a].type
  /\ Cardinality({a \in DOMAIN values : a \in Required(model)})
       = Cardinality(Required(model))

\* instantiate does not throw.
Instantiates(model, values) ==
  \A a \in DOMAIN model.attributes :
    IF a \in DOMAIN values
      THEN values[a].type = model.attributes[a].type
      ELSE ~model.attributes[a].required

\* The values of an instance that was received: what is not set is not there.
FromWire(values) ==
  [a \in {b \in DOMAIN values : values[b].type # "not_set"} |->
     IF values[a].type = "Int" THEN [values[a] EXCEPT !.val = Narrow(@)]
                               ELSE values[a]]

-------------------------------------------------------------------------------
(* Constraint *)

IsConstraint(c) ==
  \/ c \in Distances
  \/ \E t \in WireTypes : c \in Relations(t) \union Sets(t) \union Ranges(t)

\* The numbers in a constraint.
Numbers(c) == CASE c.kind = "set"      -> c.vals
                [] c.kind = "range"    -> {c.first, c.second}
                [] c.kind = "relation" -> {c.val}
                [] OTHER               -> {}

\* What the program's own constructors make: sets and ranges have no locations,
\* a range no bools, integers are ints, and the constructor for a distance copies
\* it into a set, which is of another type.
Buildable(c) ==
  /\ c.type \in Types
  /\ c.kind # "distance"
  /\ c.type = "Location" => c.kind = "relation"
  /\ ~(c.kind = "range" /\ c.type = "Bool")
  /\ c.type = "Int" => \A i \in Numbers(c) : Fits(i)

\* A constraint without a value to check is not met.  The type of the attribute
\* is not compared with that of the constraint.
ConstraintCheck(c, values) ==
  /\ c.attribute \in DOMAIN values
  /\ LET v == values[c.attribute]
     IN  \/ c.kind = "set"      /\ SetCheck(c, v)
         \/ c.kind = "range"    /\ RangeCheck(c, v)
         \/ c.kind = "relation" /\ RelationCheck(c, v)
         \/ c.kind = "distance" /\ DistanceCheck(c, v)

ConstraintValid(c, model) ==
  /\ c.attribute \in DOMAIN model.attributes
  /\ LET t == model.attributes[c.attribute].type
     IN  \/ c.kind = "set"      /\ SetValid(c, t)
         \/ c.kind = "range"    /\ RangeValid(c, t)
         \/ c.kind = "relation" /\ RelationValid(c, t)
         \/ c.kind = "distance" /\ DistanceValid(c, t)
===============================================================================

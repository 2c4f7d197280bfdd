----------------------------- MODULE MCQueryModel -----------------------------
(* Instances of QueryModel for TLC: an int is one of -2, -1, 0, 1 and a 64-bit
   integer may be any; two data models share a name and have other types, as
   the versions of a schema do, and a third has a name of its own. *)
EXTENDS QueryModel, TLC

CONSTANTS age, at

Att(t, required) == [type |-> t, required |-> required]
Loc(lon, lat) == [lon |-> lon, lat |-> lat]

DataModels == {
  [name |-> "person",
   attributes |-> (age :> Att("Int", TRUE)) @@ (at :> Att("Location", FALSE))],
  [name |-> "person",
   attributes |-> (age :> Att("Double", TRUE)) @@ (at :> Att("Bool", FALSE))],
  [name |-> "place",
   attributes |-> (at :> Att("Location", TRUE))]}

Abs(i) == IF i < 0 THEN -i ELSE i
Manhattan(a, b) == Abs(a.lon - b.lon) + Abs(a.lat - b.lat)

Value(t, val) == [type |-> t, val |-> val]
Ages == {age :> x : x \in {Value("Int", -1), Value("Int", 0), Value("Int", 1),
                           Value("Int", 2), Value("Double", 0),
                           Value("Double", 1), Value("Double", NaN),
                           Value("String", 1)}}
Places == {at :> x : x \in {Value("Location", Loc(0, 0)),
                            Value("Location", Loc(1, 1)),
                            Value("Location", Loc(1, 0)), Value("Bool", 1),
                            Value("not_set", 0)}}
Maps == {<<>>} \union Ages \union Places \union {a @@ p : a \in Ages, p \in Places}

Rel(a, op, t, val) ==
  [kind |-> "relation", attribute |-> a, type |-> t, op |-> op, val |-> val]
SetC(a, op, t, vals) ==
  [kind |-> "set", attribute |-> a, type |-> t, op |-> op, vals |-> vals]
RangeC(a, t, lo, hi) ==
  [kind |-> "range", attribute |-> a, type |-> t, first |-> lo, second |-> hi]

Pool == {
  Rel(age, "EQ", "Int", 1), Rel(age, "LT", "Int", 3),
  SetC(age, "NOTIN", "Int", {0, 1}), RangeC(age, "Int", 0, 1),
  Rel(age, "LTEQ", "Double", 0), SetC(age, "IN", "Double", {1}),
  Rel(at, "LT", "Location", Loc(0, 1)), Rel(at, "EQ", "Location", Loc(1, 0)),
  RangeC(at, "Location", Loc(1, 0), Loc(0, 1)), Rel(at, "EQ", "Bool", 1),
  Rel(at, "EQ", "not_set", 0),
  [kind |-> "distance", attribute |-> at, type |-> "Location",
   center |-> Loc(0, 0), distance |-> 1]}
===============================================================================

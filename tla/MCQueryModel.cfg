\* One key with up to two schemas, expressions of up to three nodes.
SPECIFICATION Spec
CONSTANTS
  age = age
  at = at
  NaN = NaN
  MaxVersion = MaxVersion
  NoSchema = NoSchema
  NoModel = NoModel
  NoQuery = NoQuery
  Half = 2
  Attributes = {age, at}
  DistanceOf <- Manhattan
  Keys = {person}
  Models <- DataModels
  Versions = {1, 2}
  Values <- Maps
  ConstraintPool <- Pool
  MaxNodes = 3
  MaxSchemas = 2
INVARIANTS
  TypeOK
  NeverMistyped
  InstancesAreComplete
  NegationIsComplement
  SameQuestionSameAnswer
  VersionIsFound
PROPERTIES
  GetIsStable

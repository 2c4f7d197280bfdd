\* A socket of three units, pieces of two: frames of one piece and of two.
SPECIFICATION FairSpec
CONSTANTS
  a1 = a1
  a2 = a2
  s1 = s1
  f1 = f1
  f2 = f2
  f3 = f3
  f4 = f4
  Bad = Bad
  Calls = {a1, a2, s1}
  Frames = {f1, f2, f3, f4}
  ModeOf <- Modes
  Offers <- Messages
  BodyOf <- Bodies
  Capacity = 3
  Chunk = 2
INVARIANTS
  TypeOK
  OutcomeIsTrue
PROPERTIES
  RefinesFrameChannel
  SafeArrives
  CallsEnd

\* Two threads, every fault, an identifier that is used again.
SPECIFICATION Spec
CONSTANTS
  u1 = u1
  u2 = u2
  s1 = s1
  None = None
  Receive = Receive
  Requests = {u1, u2, s1}
  OpOf <- Operations
  SmsgId <- ReusedIds
  Awaits <- ReuseWaits
  IdLimit = 4
  Threads = 2
  Faults = {"garble", "break", "truncate"}
INVARIANTS
  TypeOK
  AtMostOneAnswer
  AnswerIsOwn
  HandlesWait
PROPERTIES
  RefinesService

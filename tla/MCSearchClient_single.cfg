\* One thread, a connection that breaks.
SPECIFICATION FairSpec
CONSTANTS
  u1 = u1
  u2 = u2
  s1 = s1
  None = None
  Receive = Receive
  Requests = {u1, u2, s1}
  OpOf <- Operations
  SmsgId <- DistinctIds
  Awaits <- NoWait
  IdLimit = 4
  Threads = 1
  Faults = {"break", "truncate"}
INVARIANTS
  AnswerFindsHandle
  AddressOnFirstUpdate
PROPERTIES
  AnswerArrives
  FailureIsReported

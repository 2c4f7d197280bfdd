\* One thread, one message with a header that cannot be parsed.
SPECIFICATION FairSpec
CONSTANTS
  u1 = u1
  u2 = u2
  s1 = s1
  None = None
  Receive = Receive
  Requests = {u1, u2, s1}
  OpOf <- Operations
  SmsgId <- DistinctIds
  Awaits <- NoWait
  IdLimit = 4
  Threads = 1
  Faults = {"garble"}
PROPERTIES
  OnlyThatMessageIsDiscarded

\* Two agents, three requests between them, one or two threads.
SPECIFICATION FairSpec
CONSTANTS
  s1 = s1
  s2 = s2
  m1 = m1
  m2 = m2
  None = None
  Sessions = {s1, s2}
  Models = {m1, m2}
  Envelopes <- AgentEnvelopes
  Leaving = {s1}
  MaxRequests = 3
  Pools = {1, 2}
INVARIANTS
  TypeOK
  AnswersAreTrue
  PassesLastDescription
  KeptWhileListed
PROPERTIES
  SearchIsAnswered
  RefusalIsReported
  RemovalIsNoticed

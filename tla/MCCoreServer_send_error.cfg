\* One thread, two agents, each with a message to send.
SPECIFICATION FairSpec
CONSTANTS
  ka = ka
  kb = kb
  c1 = c1
  c2 = c2
  c3 = c3
  None = None
  Keys = {ka, kb}
  Conns = {c1, c2}
  KeyOf <- TwoAgents
  Threads = 1
  MaxFrames = 3
  FramesOf <- OneEach
  MaxAcceptErrors = 0
PROPERTIES
  FailedSendIsReported

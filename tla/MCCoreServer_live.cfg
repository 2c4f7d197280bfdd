\* Two threads, two agents of which one sends two messages, one accept that
\* fails.
SPECIFICATION FairSpec
CONSTANTS
  ka = ka
  kb = kb
  c1 = c1
  c2 = c2
  c3 = c3
  None = None
  Keys = {ka, kb}
  Conns = {c1, c2}
  KeyOf <- TwoAgents
  Threads = 2
  MaxFrames = 4
  FramesOf <- TwoFromFirst
  MaxAcceptErrors = 1
INVARIANTS
  PerSenderFifo
PROPERTIES
  KeyIsFreed
  HandshakeEnds
  EveryFrameIsRead

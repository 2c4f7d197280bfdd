\* Two threads (run), two connections for one key and another agent.
SPECIFICATION Spec
CONSTANTS
  ka = ka
  kb = kb
  c1 = c1
  c2 = c2
  c3 = c3
  None = None
  Keys = {ka, kb}
  Conns = {c1, c2, c3}
  KeyOf <- RivalsAndOther
  Threads = 2
  MaxFrames = 3
  FramesOf <- OneEach
  MaxAcceptErrors = 0
SYMMETRY Symmetry
INVARIANTS
  TypeOK
  DirectoryMatchesSessions
  OneSessionPerKey
  RefusedAreDeaf
  OneOutcomePerMessage
PROPERTIES
  RefinesRegistry

SPECIFICATION FairSpec
CONSTANTS
  Buffers = {fb0, fb1}
  TimeoutFrames = 2
  SameCore = TRUE
INVARIANTS TypeOK NoTearing
PROPERTIES FlipEnds

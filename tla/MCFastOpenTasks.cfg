SPECIFICATION Spec
CONSTANTS
  Tasks = {t1, t2}
  Streams = {f1, f2}
  Buffers = {b1, b2}
  MAX_FILES_OPEN = 2
  NULL = NULL
SYMMETRY Symmetric
INVARIANTS BuffersLive

SPECIFICATION Spec
CONSTANTS
  Tasks = {t1}
  Streams = {f1, f2, f3}
  Buffers = {b1, b2, b3, b4}
  MAX_FILES_OPEN = 3
  NULL = NULL
SYMMETRY Symmetric
INVARIANTS TypeOK BuffersLive NoLeak

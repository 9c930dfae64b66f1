SPECIFICATION Spec
CONSTANTS
  Tasks = {t1}
  Streams = {f1, f2, f3}
  Buffers = {b1, b2, b3}
  MAX_FILES_OPEN = 2
  NULL = NULL
INVARIANTS UntrackedHasNoBuffer

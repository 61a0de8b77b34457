CONSTANTS
  Threads = {t1, t2}
  Blocks = {b1, b2}
  NULL = NULL
  Sizes = {1, 2}
  S_LEN = 3
  Floats <- OneBitFloats
  MaxBytes = 2
  MaxReads = 4
SPECIFICATION Spec
SYMMETRY Symmetry
INVARIANTS
  TypeOK
  TableTracksHeap
  Accounts
CHECK_DEADLOCK FALSE

VIEW View
SYMMETRY Symmetry
SPECIFICATION InputsSpec
CONSTANTS
  v1 = v1
  f1 = f1
  Vec = {v1, v2}
  Array = {a1}
  Value = {x1, x2}
  Unset = unset
  NULL = null
  Empty = {}
  Backend = "memcheck"
  MaxState = 5
  MaxReaders = 1
  MaxRef = 1
  MaxLeaked = 0
  Field = {f1}
  Source <- MCSource
INVARIANTS CacheFresh
CHECK_DEADLOCK FALSE

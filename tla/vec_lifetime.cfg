VIEW View
SYMMETRY Symmetry
SPECIFICATION Spec
CONSTANTS
  Vec = {v1, v0}
  Array = {a1, a2}
  Value = {x1}
  Unset = unset
  NULL = null
  Empty = {v0}
  Backend = "ref"
  MaxState = 4
  MaxReaders = 1
  MaxRef = 2
  MaxLeaked = 1
INVARIANTS ArraysAccounted HandlesCounted
PROPERTIES KeepsPromise
CHECK_DEADLOCK FALSE

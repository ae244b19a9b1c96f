VIEW View
SPECIFICATION Spec
CONSTANTS
  Vec = {v0}
  Array = {a1}
  Value = {x1}
  Unset = unset
  NULL = null
  Empty = {v0}
  Backend = "ref"
  MaxState = 4
  MaxReaders = 1
  MaxRef = 2
  MaxLeaked = 1
INVARIANTS NoneLost
CHECK_DEADLOCK FALSE

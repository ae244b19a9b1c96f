VIEW View
SYMMETRY Symmetry
SPECIFICATION Spec
CONSTANTS
  Vec = {v1, v2}
  Array = {a1}
  Value = {x1}
  Unset = unset
  NULL = null
  Empty = {}
  Backend = "ref"
  MaxState = 4
  MaxReaders = 1
  MaxRef = 1
  MaxLeaked = 0
PROPERTIES NonterminalErrorKeepsAccess
CHECK_DEADLOCK FALSE

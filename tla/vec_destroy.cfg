VIEW View
SYMMETRY Symmetry
SPECIFICATION Spec
CONSTANTS
  Vec = {v1}
  Array = {a1}
  Value = {x1, x2}
  Unset = unset
  NULL = null
  Empty = {}
  Backend = "ref"
  MaxState = 4
  MaxReaders = 2
  MaxRef = 2
  MaxLeaked = 1
PROPERTIES NonterminalErrorKeepsReferences
CHECK_DEADLOCK FALSE

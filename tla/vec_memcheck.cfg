VIEW View
SYMMETRY Symmetry
SPECIFICATION Spec
CONSTANTS
  Vec = {v1, v2}
  Array = {a1, a2}
  Value = {x1}
  Unset = unset
  NULL = null
  Empty = {}
  Backend = "memcheck"
  MaxState = 4
  MaxReaders = 2
  MaxRef = 1
  MaxLeaked = 0
INVARIANTS TypeOK PointersAgree ArraysAccounted CopiesFollowAccess
PROPERTIES TakenArrayHasContents ReadersKeepTheirCopy StrandsOnlyOnContention
CHECK_DEADLOCK FALSE

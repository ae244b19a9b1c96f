VIEW View
SYMMETRY Symmetry
SPECIFICATION InputsSpec
CONSTANTS
  v1 = v1
  f1 = f1
  Vec = {v1, v2}
  Array = {a1}
  Value = {x1, x2}
  Unset = unset
  NULL = null
  Empty = {}
  Backend = "ref"
  MaxState = 4
  MaxReaders = 2
  MaxRef = 1
  MaxLeaked = 0
  Field = {f1}
  Source <- MCSource
INVARIANTS CacheTypeOK CacheFresh PointersAgree
PROPERTIES AppliesCurrentInputs TakenArrayHasContents StrandsOnlyOnContention NonterminalErrorKeepsContents KeepsPromise
CHECK_DEADLOCK FALSE

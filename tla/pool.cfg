SYMMETRY Symmetry
SPECIFICATION Spec
CONSTANTS
  Vec = {v1, v2, v3, v4}
  Length = {1, 2}
  NULL = null
  MaxHandles = 2
  MaxOutside = 1
INVARIANTS PoolTypeOK PoolAccounted ContextReferences NeverReentered
PROPERTIES KeepsPoolPromise

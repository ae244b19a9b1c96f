SYMMETRY Symmetry
SPECIFICATION Spec
CONSTANTS
  c1 = c1
  c2 = c2
  o1 = o1
  o2 = o2
  Context = {c1, c2}
  Block = {b1, b2, b3}
  Value = {x1, x2}
  NULL = null
  Kept = {c1}
  Destroying = {c2}
  MaxReaders = 1
  Op = {o1, o2}
  Assembler = {o1}
  Attached <- Ways
  Labelled = {o1}
  Writing = {o2}
  Composite = composite
  Subs <- Order
  MaxLeaked = 1
INVARIANTS OperatorContextsTypeOK DataAccounted CountsExact AssembledFresh
PROPERTIES SetReachesEverySub
CHECK_DEADLOCK FALSE

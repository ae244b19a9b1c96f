VIEW View
SYMMETRY Symmetry
SPECIFICATION Spec
CONSTANTS
  gen = gen
  shared = shared
  ref = ref
  fallback = fallback
  Ceed <- Contexts
  Object = {o1, o2}
  Kind <- Kinds
  Length = {1, 2}
  NULL = null
  Delegate <- FlatDelegate
  ObjDelegates <- TwoObjDelegates
  Fallback <- GenFallback
  Implements <- FlatKernels
  List = {"jit_source_roots"}
  Guarded = {"jit_source_roots"}
  MaxHandles = 2
  MaxHeld = 2
  MaxReaders = 1
  MaxLeaked = 1
PROPERTIES ObjectDelegatesHonoured
CHECK_DEADLOCK FALSE

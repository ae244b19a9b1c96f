VIEW View
SYMMETRY Symmetry
SPECIFICATION Spec
CONSTANTS
  gen = gen
  shared = shared
  ref = ref
  fallback = fallback
  Ceed <- Contexts
  Object = {o1, o2}
  Kind <- Kinds
  Length = {1, 2}
  NULL = null
  Delegate <- GenDelegate
  ObjDelegates <- NoObjDelegates
  Fallback <- GenFallback
  Implements <- Kernels
  List = {"jit_source_roots"}
  Guarded = {"jit_source_roots"}
  MaxHandles = 2
  MaxHeld = 2
  MaxReaders = 1
  MaxLeaked = 1
INVARIANTS ContextTypeOK ReferencesAccounted NothingDangles FreedWhenUnreferenced
PROPERTIES FreedWithoutLentVectors ReadListsStay KeepsPoolPromise
CHECK_DEADLOCK FALSE

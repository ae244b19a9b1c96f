SPECIFICATION RegistrySpec
CONSTANTS
  ref = ref
  weak = weak
  own = own
  Thread = {t1, t2}
  Backend <- Backends
  Builtin <- BuiltinOrder
  Weak = {weak}
  Prefix <- Names
  Priority <- Priorities
  Resource <- Resources
  TableSize = 3
  MaxPriority = 4
  MaxCalls = 3
  NULL = null
INVARIANTS RegistryTypeOK EntriesWhole BuiltinsBeforeSearch BestMatch
PROPERTIES CallsReturn

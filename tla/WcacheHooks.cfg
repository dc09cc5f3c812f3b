CONSTANTS
  o1 = o1
  o2 = o2
  s1 = s1
  s2 = s2
  s3 = s3
  NULL = NULL
  Obj <- MCObj
  Str <- MCStr
  Path <- MCPath
  Size = {1, 2}
  Body = {"a", "b"}
  CACHE_SIZE = 1
  SizeT = 4
  MaxJiffies = 1
  MayFail <- MCCalls
  Freed = {"intact", "overwritten"}
  MaxDevRefs = 1
SPECIFICATION HSpec
SYMMETRY Addresses
INVARIANTS HTypeOK AccountingExact TreeConsistent PendingPathUncached CreatedIsLinked
PROPERTIES CacheRefined
\* The machine stops after a memory error, the module when it is unloaded.
CHECK_DEADLOCK FALSE

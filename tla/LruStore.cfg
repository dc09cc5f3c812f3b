CONSTANTS
  o1 = o1
  o2 = o2
  o3 = o3
  s1 = s1
  s2 = s2
  s3 = s3
  s4 = s4
  s5 = s5
  s6 = s6
  NULL = NULL
  Obj <- MCObj
  Str <- MCStr
  Path <- MCPath
  Size <- MCSize
  Body = {"html"}
  CACHE_SIZE = 1
  SizeT = 4
  MaxJiffies = 1
  MayFail = {"kmalloc"}
  Freed = {"intact"}
SPECIFICATION LSpec
SYMMETRY Addresses
INVARIANTS LTypeOK AccountingExact TreeConsistent
PROPERTIES TreeDeleteEmpties EvictsLeastRecent
\* The store stops after a memory error.
CHECK_DEADLOCK FALSE

CONSTANTS
  o1 = o1
  o2 = o2
  s1 = s1
  s2 = s2
  s3 = s3
  NULL = NULL
  Obj <- MCObj
  Str <- MCStr
  Path <- MCPath
  Size = {1, 2}
  Body = {"a", "b"}
  CACHE_SIZE = 1
  SizeT = 4
  MaxJiffies = 1
  MayFail = {}
  Freed = {"intact"}
  MaxDevRefs = 1
SPECIFICATION HSpec
SYMMETRY Addresses
INVARIANT UnloadEmptiesTree
CHECK_DEADLOCK FALSE

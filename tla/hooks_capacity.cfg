CONSTANTS
  o1 = o1
  o2 = o2
  s1 = s1
  s2 = s2
  s3 = s3
  NULL = NULL
  Obj <- MCObj
  Str <- MCStr
  Path <- MCPath
  Size = {2}
  Body = {"a", "b"}
  CACHE_SIZE = 3
  SizeT = 4
  MaxJiffies = 1
  MayFail = {}
  Freed = {"intact"}
  MaxDevRefs = 1
SPECIFICATION HSpec
SYMMETRY Addresses
INVARIANT WithinCapacity
CHECK_DEADLOCK FALSE

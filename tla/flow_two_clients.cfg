CONSTANTS
  o1 = o1
  o2 = o2
  s1 = s1
  s2 = s2
  s3 = s3
  s4 = s4
  NULL = NULL
  Obj <- MCObj
  Str <- MCStr
  Path <- MCPath
  Size = {1}
  Body = {"a", "b"}
  CACHE_SIZE = 1
  SizeT = 4
  MaxJiffies = 0
  MayFail = {}
  Freed = {"intact"}
  MaxDevRefs = 1
  Client = {"c1", "c2"}
  Method = {"GET"}
  Content <- MCContent
  Duplicates = FALSE
SPECIFICATION FSpec
SYMMETRY Addresses
INVARIANT AnswersOwnRequest

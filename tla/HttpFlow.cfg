CONSTANTS
  o1 = o1
  o2 = o2
  s1 = s1
  s2 = s2
  s3 = s3
  s4 = s4
  NULL = NULL
  Obj <- MCObj
  Str <- MCStr
  Path <- MCPath
  Size = {1}
  Body = {"a", "b"}
  CACHE_SIZE = 1
  SizeT = 4
  MaxJiffies = 0
  MayFail = {"skb_linearize", "xmit_congested", "xmit_error", "nf_register",
             "kmalloc", "alloc_skb"}
  Freed = {"intact"}
  MaxDevRefs = 1
  Client = {"c1"}
  Method = {"GET"}
  Content <- MCContent
  Duplicates = FALSE
SPECIFICATION FairSpec
INVARIANTS FTypeOK Coherent AnswersOwnRequest
PROPERTIES Transparent AlwaysAnswered
\* The system stops with a memory error.
CHECK_DEADLOCK FALSE

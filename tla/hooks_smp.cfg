CONSTANTS
  Cpu = {"cpu0", "cpu1"}
  Path = {1, 2}
  Str = {"s1", "s2"}
  Obj = {"o1", "o2"}
  NULL = NULL
SPECIFICATION SmpSpec
INVARIANT CountAtRest
CHECK_DEADLOCK FALSE

CONSTANTS
  Buffers <- BuffersVal
  MaxDot = 3
  Variables = {"v", "x"}
  Scenes <- ScenesVal
  IntBits = 8
  TagSize = 3
  Junk <- JunkVal
SPECIFICATION Spec
INVARIANTS Unwound AsDocumented
CHECK_DEADLOCK FALSE

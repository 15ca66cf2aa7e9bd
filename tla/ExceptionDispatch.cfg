SPECIFICATION Spec
CONSTANTS
  Exc = {1}
  Threshold = 2
  MaxWord = 1
  exc_num_sz = 2
  StackSize = 8
  ir = 1
  MaxExceptions = 3
INVARIANTS FramesIntact
PROPERTIES ResumesInterrupted
CHECK_DEADLOCK FALSE

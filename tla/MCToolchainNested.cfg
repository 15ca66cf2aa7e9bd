SPECIFICATION Spec
CONSTANTS
  Bits = 21
  Half = 1048576
  opcode_len = 5
  arg_size = 4
  MemSize = 100
  Scratch = 777
  Data = 2
  Sources <- Nested
  Programs = {}
INVARIANTS Evaluates
CHECK_DEADLOCK FALSE

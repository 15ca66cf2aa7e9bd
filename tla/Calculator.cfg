SPECIFICATION Spec
CONSTANTS
  Bits = 3
  Half = 4
  Radix = 2
  Digits = 3
  MaxDigits = 6
  MaxSize = 3
INVARIANTS SumsExact ProductsExact BitwiseExact ReadsBack
CHECK_DEADLOCK FALSE

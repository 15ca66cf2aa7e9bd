SPECIFICATION Spec
CONSTANTS
  None = None
  Undefined = Undefined
  CodeSlots = {2, 3}
  Names <- MCNames
  Programs <- MCEmptyPrograms
  Texts = {}
  Letters = {"x", "y", "z", "self"}
  Digits = {"0", "1", "7"}
INVARIANTS RetIsResult
CHECK_DEADLOCK FALSE

SPECIFICATION Spec
CONSTANTS
  None = None
  Undefined = Undefined
  CodeSlots = {2, 3}
  Names <- MCNames
  Programs <- MCPrograms
  Texts <- MCTexts
  Letters = {"x", "y", "z", "self"}
  Digits = {"0", "1", "7"}
INVARIANTS FramesAlive CountsRight AllReclaimed Agrees ReadsWhatIsWritten OnlyTheTreeRemains
PROPERTIES FreedOnlyWithHolder
CHECK_DEADLOCK FALSE

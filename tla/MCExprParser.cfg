SPECIFICATION Spec
CONSTANTS
  Irregular = {"unknown", "noEnd"}
  MaxLen = 5
INVARIANTS
  ExprTypeOK
  FramesAreOpen
  ArgsAsWritten

SPECIFICATION Spec
CONSTANTS
  LoopKinds = {"doWhile"}
  Shapes = {}
  RetTypes = {"void"}
  RetValues = {}
  TextLocals = 0
  MaxLen = 2
INVARIANTS
  WellFormed

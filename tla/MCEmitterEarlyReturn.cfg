SPECIFICATION Spec
CONSTANTS
  LoopKinds = {}
  Shapes = {"branchReturn"}
  RetTypes = {"void"}
  RetValues = {}
  TextLocals = 0
  MaxLen = 3
INVARIANTS
  WellFormed

SPECIFICATION FairRun
CONSTANTS
  LoopKinds = {"while", "times"}
  Shapes = {"branchReturn", "deadCode"}
  RetTypes = {"void", "int"}
  RetValues = {}
  TextLocals = 0
  MaxLen = 2
INVARIANTS
  ClosedBehind
PROPERTIES
  Halts

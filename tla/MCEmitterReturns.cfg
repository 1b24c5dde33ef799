SPECIFICATION Spec
CONSTANTS
  LoopKinds = {"while", "times", "doWhile"}
  Shapes = {"branchReturn", "deadCode", "fallOff"}
  RetTypes = {"void", "int", "text"}
  RetValues = {"temp", "local", "literal"}
  TextLocals = 0
  MaxLen = 4
INVARIANTS
  ReturnSeen
  CurrentIsInnermost
  TargetsPlaced

SPECIFICATION SpecRun
CONSTANTS
  LoopKinds = {"while", "doWhile"}
  Shapes = {"branchReturn", "deadCode", "fallOff"}
  RetTypes = {"int", "text"}
  RetValues = {"temp", "literal"}
  TextLocals = 1
  MaxLen = 3
INVARIANTS
  FreedWhileLive
  ReturnedAlive
  NothingLeaks
  LostOnlyInLoops

SPECIFICATION SpecRun
CONSTANTS
  LoopKinds = {}
  Shapes = {}
  RetTypes = {"void"}
  RetValues = {}
  TextLocals = 0
  MaxLen = 3
INVARIANTS
  FreesStored

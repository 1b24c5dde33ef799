SPECIFICATION SpecRun
CONSTANTS
  LoopKinds = {"while", "times"}
  Shapes = {}
  RetTypes = {"void", "text"}
  RetValues = {"temp"}
  TextLocals = 1
  MaxLen = 4
INVARIANTS
  TypeOK
  WellFormed
PROPERTIES
  RunsTheSource

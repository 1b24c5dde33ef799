SPECIFICATION Spec
CONSTANTS
  Liberties = {"skip", "other", "noMatch"}
  MaxLen = 5
INVARIANTS
  TypeOK
  StackIsNest
  ParsedAsNested
  JudgePaired
  DumpInOrder
  CompiledInOrder

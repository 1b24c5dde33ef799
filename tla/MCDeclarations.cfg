SPECIFICATION MCSpec
CONSTANTS
  Structs = 3
  MaxMembers = 2
  Subs = 2
  Modules = 2
  MaxIncludes = 2
INVARIANTS
  StructTypeOK
  LaidOutOnce
  LaidOutAsDeclared
  DeclTypeOK
  ParamsTyped
  CallsResolve
  BodiesOnce
PROPERTIES
  AllDeclared
